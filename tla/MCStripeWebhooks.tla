-------------------------- MODULE MCStripeWebhooks --------------------------
(* StripeWebhooks on small instances.                                      *)
EXTENDS StripeWebhooks

CONSTANTS d1, d2, d3

TwoDeliveries   == {d1, d2}
ThreeDeliveries == {d1, d2, d3}

=============================================================================
