SPECIFICATION FairSpec
CONSTANTS
  Request = {r1, r2}
  Key = {k1}
  None = None
  Fixtures = 1
  Starts = 2
  MaxRest = 0
  Profiles = 1
  JobLimit = 1
  Overlap = TRUE
  MaxRevision = 1
  MaxDraft = 2
  MaxVersion = 3
  MaxRun = 1
  MaxSetup = 0
  MaxDisruption = 1
  MaxClosed = 2
INVARIANTS TypeOK  
PROPERTIES CancelledStaysCancelled RequestsAnswered 
