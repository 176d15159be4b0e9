\* A payment races an older failure that is processed late.
CONSTANTS
  w1 = w1  w2 = w2  r1 = r1  r2 = r2
  Workers <- TwoWorkers
  Requests <- NoRequests
  Operations <- PaymentKinds
  OverrideInputs <- SomeStatuses
  Never = Never
  GraceDays = 1
  SuspendAfterDays = 3
  OverrideMaxDays = 1
  MaxOpened = 2
  LastBusy = 3
  MaxTime = 3
  MaxPeriod = 0
SPECIFICATION Spec
PROPERTY NewerPaymentHonoured
CHECK_DEADLOCK FALSE
