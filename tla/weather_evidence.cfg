SPECIFICATION Spec
CONSTANTS
  NoRisk = NoRisk
  Venue <- Venues
  Index <- Indices
  SampleShape <- Sample
  Shapes <- TwoShapes
  Allocation = 240
  Sky <- Skies
  Forecast <- Forecasts
  NoForecast = NoForecast
  Hash <- Bytes
  FairnessKey <- Key
  FixtureCount = 2
  Idle = Idle
  NoRun = NoRun
  Overlap = FALSE
  MaxRevision = 3
  MaxSetups = 1
  MaxClosed = 1
INVARIANTS TypeOK EvidenceBound OneWeatherSnapshot ProfilesComparable WorstHourCounts
