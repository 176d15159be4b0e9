\* No overrides; transactions up to the day of the suspension and two requests
\* in the guard, so that escalations race payments, failures and each other.
\* Traffic goes on.
CONSTANTS
  w1 = w1  w2 = w2  r1 = r1  r2 = r2
  Workers <- TwoWorkers
  Requests <- TwoRequests
  Operations <- PaymentKinds
  OverrideInputs <- SomeStatuses
  Never = Never
  GraceDays = 0
  SuspendAfterDays = 2
  OverrideMaxDays = 1
  MaxOpened = 3
  LastBusy = 2
  MaxTime = 4
  MaxPeriod = 0
SPECIFICATION TrafficSpec
INVARIANT DunningHasClock
PROPERTY DunningEnds
CHECK_DEADLOCK FALSE
