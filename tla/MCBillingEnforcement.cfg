\* Every kind of transaction, two open at once, and a request in the guard.  The
\* grace is over the day after it opens, while transactions are still open.
CONSTANTS
  w1 = w1  w2 = w2  r1 = r1  r2 = r2
  Workers <- TwoWorkers
  Requests <- OneRequest
  Operations <- AllKinds
  OverrideInputs <- SomeStatuses
  Never = Never
  GraceDays = 0
  SuspendAfterDays = 2
  OverrideMaxDays = 1
  MaxOpened = 3
  LastBusy = 1
  MaxTime = 3
  MaxPeriod = 1
SPECIFICATION Spec
SYMMETRY SameWorkers
INVARIANT TypeOK
PROPERTIES ImplementsTimeline OverrideShieldsFromFailures SubscriptionNeverRewinds
CHECK_DEADLOCK FALSE
