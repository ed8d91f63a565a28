SPECIFICATION Spec
CONSTANTS
  Request = {r1, r2}
  Key = {k1}
  None = None
  Fixtures = 2
  Starts = 2
  MaxRest = 0
  Profiles = 1
  JobLimit = 1
  Overlap = TRUE
  MaxRevision = 2
  MaxDraft = 1
  MaxVersion = 1
  MaxRun = 1
  MaxSetup = 1
  MaxDisruption = 0
  MaxClosed = 1
PROPERTY StaleResultsNotApproved
