--------------------------- MODULE MCIdempotency ---------------------------
(* Idempotency on a small instance.                                        *)
EXTENDS Idempotency, TLC

CONSTANTS r1, r2, r3, p1, p2, user, tenantA, tenantB

\* Three requests with one client key: two of a tenant, one that the same
\* user sends to another tenant.
SomeRequests == {r1, r2, r3}
SomeReplicas == {p1, p2}
SomeTenants  == (r1 :> tenantA) @@ (r2 :> tenantA) @@ (r3 :> tenantB)
OneUser      == [r \in SomeRequests |-> user]

\* Replicas are alike, and the two tenants share no entry: r1 and r3 may be
\* taken to arrive on p1.
SomeArrivals == {f \in [SomeRequests -> SomeReplicas] : f[r1] = p1 /\ f[r3] = p1}

=============================================================================
