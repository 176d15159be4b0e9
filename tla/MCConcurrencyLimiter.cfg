\* One slot, two waiting places, and more calls than both together; a key may
\* have fewer calls than there are.
CONSTANTS
  c1 = c1  c2 = c2  c3 = c3  c4 = c4
  k1 = k1  k2 = k2
  Calls <- MCCalls
  Keys <- MCKeys
  NoKey = NoKey
  MaxActive = 1
  MaxQueued = 2
  MaxPerKey = 2
SPECIFICATION FairSpec
INVARIANTS TypeOK WithinLimits CountersExact NoLostWaiter
PROPERTIES ImplementsAdmission QueuedRuns
