SPECIFICATION Spec
CONSTANTS
  Request = {r1, r2}
  Key = {k1}
  None = None
  Created = Created
  Generated = Generated
  WasReset = WasReset
  Overlap = TRUE
  MaxVersion = 1
SYMMETRY Symmetry
INVARIANT AcknowledgedDurable
