--------------------------- MODULE DunningTimeline ---------------------------
(***************************************************************************)
(* What billing enforcement promises about one tenant, whoever acts and in *)
(* whatever order: the dunning sequence                                    *)
(*                                                                         *)
(*   good standing -> payment_grace -> read_only -> suspended              *)
(*                                                                         *)
(* is only ever entered from good standing, its deadline is set on entry   *)
(* and never moved while it lasts, read_only is only reached from          *)
(* payment_grace, and only a settlement clears the deadline.  An           *)
(* administrator's override may set any status but not the deadline.       *)
(***************************************************************************)
EXTENDS Naturals

CONSTANTS Never,      \* no deadline, no override
          Standings   \* the statuses a tenant can have, "absent" included

VARIABLES standing, deadline, override

vars == <<standing, deadline, override>>

GoodStanding == {"absent", "trial", "active"}

Init == standing \in {"absent", "trial"} /\ deadline = Never /\ override = Never

Enroll ==
  standing = "absent" /\ standing' = "trial" /\ UNCHANGED <<deadline, override>>

\* A failed payment opens the sequence; an override may hold the status back.
FailedPayment ==
  /\ standing \in GoodStanding
  /\ standing' \in {"payment_grace", standing}
  /\ deadline' \in Nat
  /\ UNCHANGED override

Restrict ==
  standing = "payment_grace" /\ standing' = "read_only" /\ UNCHANGED <<deadline, override>>

Close ==
  standing' \in {"suspended", "cancelled"} /\ UNCHANGED <<deadline, override>>

Settle == standing' = "active" /\ deadline' = Never /\ override' = Never

OverrideBegins ==
  standing' \in Standings \ {"absent"} /\ override' \in Nat /\ UNCHANGED deadline

OverrideEnds == override' = Never /\ UNCHANGED <<standing, deadline>>

Next == \/ Enroll \/ FailedPayment \/ Restrict \/ Close \/ Settle
        \/ OverrideBegins \/ OverrideEnds

Spec == Init /\ [][Next]_vars
=============================================================================
