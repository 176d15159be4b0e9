-------------------------- MODULE MCCircuitBreaker --------------------------
(* CircuitBreaker on small instances.                                      *)
EXTENDS CircuitBreaker

CONSTANTS c1, c2, c3

ThreeCallers == {c1, c2, c3}

=============================================================================
