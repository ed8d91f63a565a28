SPECIFICATION Spec
CONSTANTS
  Thread = {t1, t2}
  Workspace = {w1, w2}
  Address = {a1}
  None = None
  Action = {"agent"}
  WorkspaceLimit <- Limits
  AddressLimit = 2
  ActiveLimit = 2
  GlobalLimit = 2
  QueueLimit = 2
  Budget = 2
  Amount = {2}
  Window = 2
  Day = 2
  MaxTime = 4
  MaxSpend = 2
CONSTRAINT PartsApart
SYMMETRY Symmetry
INVARIANTS TypeOK AdmittedWithinLimit ResetTimeHonoured JobsAccounted SpendIsTodays
