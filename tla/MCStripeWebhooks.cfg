\* Three deliveries at once, four faults; Stripe retries.
CONSTANTS
  d1 = d1  d2 = d2  d3 = d3
  Deliveries <- ThreeDeliveries
  NoDelivery = NoDelivery
  MaxFaults = 4
  MaxExtra = 1
SPECIFICATION StripeSpec
INVARIANTS TypeOK AckedWasApplied ProcessedWasApplied
PROPERTY EventuallyDone
CHECK_DEADLOCK FALSE
