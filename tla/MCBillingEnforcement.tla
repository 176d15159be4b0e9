------------------------ MODULE MCBillingEnforcement ------------------------
(* BillingEnforcement on small instances.                                  *)
EXTENDS BillingEnforcement, TLC

CONSTANTS w1, w2, r1, r2

OneWorker   == {w1}
TwoWorkers  == {w1, w2}
OneRequest  == {r1}
TwoRequests == {r1, r2}
NoRequests  == {}

\* Workers are interchangeable.  Used only where no liveness is checked.
SameWorkers == Permutations(TwoWorkers)

AllKinds     == Kinds
PaymentKinds == {"payment_failed", "payment_succeeded"}

\* An override into good standing and into either stage of dunning.  The other
\* statuses reach the row through other kinds of transaction.
SomeStatuses == {"active", "payment_grace", "read_only"}
=============================================================================
