SPECIFICATION Spec
CONSTANTS
  Request = {r1}
  Key = {k1}
  None = None
  Fixtures = 2
  Starts = 2
  MaxRest = 0
  Profiles = 1
  JobLimit = 1
  Overlap = FALSE
  MaxRevision = 1
  MaxDraft = 1
  MaxVersion = 1
  MaxRun = 1
  MaxSetup = 0
  MaxDisruption = 1
  MaxClosed = 1
INVARIANT JobsBelongToRuns
