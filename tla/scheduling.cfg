SPECIFICATION Spec
CONSTANTS
  GroupA <- TeamsA
  GroupB <- TeamsB
  Slot <- Slots
  SlotStart <- StartOf
  SlotEnd <- EndOf
  SlotDay <- DayOf
  SlotVenue <- VenueOf
  Allocation = 240
  NoRisk = NoRisk
  Placement <- AllPlacements
  Official <- Slots
  Baselines <- SomeBaselines
  ConfirmedRest = 960
  QualityCost <- Cost0
  FirstVenue = 1
  SecondVenue = 2
  None = None
  MaxClosed = 2
  MaxLate = 1
INVARIANTS TypeOK  LexicographicMinimum DiffMatchesTotals PrecheckSound MetricsReportable
