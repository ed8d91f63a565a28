SPECIFICATION Spec
CONSTANTS
  Request = {r1}
  Key = {k1, k2}
  None = None
  Created = Created
  Generated = Generated
  WasReset = WasReset
  Overlap = FALSE
  MaxVersion = 3
SYMMETRY Symmetry
INVARIANTS TypeOK AcknowledgedDurable AuditMatchesHistory OneSavedVersionPerKey
PROPERTY DeletedStaysDeleted
