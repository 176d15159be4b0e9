\* One retry of an event that was applied.
CONSTANTS
  d1 = d1  d2 = d2  d3 = d3
  Deliveries <- TwoDeliveries
  NoDelivery = NoDelivery
  MaxFaults = 1
  MaxExtra = 1
SPECIFICATION Spec
PROPERTY ProcessedNeverReapplied
CHECK_DEADLOCK FALSE
