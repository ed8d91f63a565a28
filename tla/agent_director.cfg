SPECIFICATION DirectorFairSpec
CONSTANTS
  Run = {r1, r2}
  HasFallback = TRUE
  MaxRetries = 1
  FailureThreshold = 2
  RecoveryAfter = 1
  MaxRequests = 1
INVARIANTS DirectorTypeOK BreakerConsistent ProbeOutstanding HealthTracksBreaker AttemptsBounded
PROPERTIES AgentWorkEnds ServiceRecovers
