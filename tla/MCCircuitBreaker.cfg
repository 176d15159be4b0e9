\* Calls keep coming and come back; more of them in flight than it takes to trip
\* the breaker or to close it.
CONSTANTS
  c1 = c1  c2 = c2  c3 = c3
  Callers <- ThreeCallers
  FailureThreshold = 2
  SuccessThreshold = 2
  ResetTimeout = 2
  MaxOutages = 4
SPECIFICATION FairBreakerSpec
INVARIANT BreakerTypeOK
PROPERTIES TripsAfterStreak ClosesWhenProven OpenIsTried Recovers
