------------------------ MODULE MCConcurrencyLimiter ------------------------
(* ConcurrencyLimiter on a small instance: more calls than slots and places *)
(* together, and more of them than one key may have.                        *)
EXTENDS ConcurrencyLimiter

CONSTANTS c1, c2, c3, c4, k1, k2

MCCalls == {c1, c2, c3, c4}
MCKeys  == {k1, k2}
=============================================================================
