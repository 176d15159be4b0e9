\* Two editors on three shares that move between a work and a phonogram, change
\* type and percentage; every update carries the version its user loaded.
CONSTANTS
  e1 = e1  e2 = e2  s1 = s1  s2 = s2  s3 = s3  w1 = w1  p1 = p1
  Editors <- TwoEditors
  Shares <- ThreeShares
  Works <- OneWork
  Phonograms <- OnePhono
  None = None
  Keep = Keep
  Percentages <- HalfAndWhole
  Requests <- SomeRequests
  Budget = 2
  Unversioned = Unversioned
  Versioned = TRUE
  MaxEdits = 4
SPECIFICATION Spec
SYMMETRY Same
INVARIANTS TypeOK SplitsWithinBudget OneStructure
PROPERTY NoLostUpdate
CHECK_DEADLOCK FALSE
