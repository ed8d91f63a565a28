SPECIFICATION Spec
CONSTANTS
  Request = {r1}
  Key = {k1, k2}
  None = None
  Fixtures = 2
  Starts = 3
  MaxRest = 1
  Profiles = 1
  JobLimit = 1
  Overlap = FALSE
  MaxRevision = 3
  MaxDraft = 2
  MaxVersion = 2
  MaxRun = 2
  MaxSetup = 1
  MaxDisruption = 1
  MaxClosed = 1
SYMMETRY Symmetry
INVARIANTS OneVersionPerKey DraftBoundToRevision GenerationReplay
PROPERTIES RecordedAnswersStand GeneratedFitsSetup RepairFitsSlots
