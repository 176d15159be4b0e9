--------------------------- MODULE StripeWebhooks ---------------------------
(***************************************************************************)
(* The life of one Stripe event: handleWebhook, processWebhookEvent and    *)
(* recordWebhookFailure (modules/billing/billing.service.ts) around the    *)
(* payment_events claim (billing-enforcement.service.ts).                  *)
(*                                                                         *)
(* Stripe delivers the event until a delivery is answered 200, sometimes   *)
(* again after that, and to several replicas at once.  A delivery is one   *)
(* READ COMMITTED transaction (DATABASE_SESSION_CONTEXT_ENABLED, set in    *)
(* every deployed environment): claim, apply, mark, commit.  Its failure   *)
(* is recorded in a second transaction.  What applying means for the       *)
(* tenant is BillingEnforcement's business; here it is a count.            *)
(***************************************************************************)
EXTENDS Naturals, Sequences

CONSTANTS Deliveries,       \* deliveries that can be handled at once
          NoDelivery,
          MaxFaults,        \* bound: handler errors, lost connections, crashes
          MaxExtra          \* bound: deliveries Stripe sends after a 200

ASSUME WebhookAssumption ==
  /\ NoDelivery \notin Deliveries
  /\ MaxFaults \in Nat /\ MaxExtra \in Nat

VARIABLES record,    \* the committed payment_events row
          holder,    \* the delivery that wrote the row and has not committed
          pc,        \* pc[d]: how far delivery d has got
          applied,   \* times the event's effect was committed
          acked,     \* Stripe has seen a 200
          faults, extra

vars == <<record, holder, pc, applied, acked, faults, extra>>

Places == {"idle", "claiming", "applying", "recording", "answer_200", "answer_500"}

TypeOK ==
  \* a row is never committed 'processing': the claim and its outcome commit
  \* together, so that no crash leaves one for a retry to wait on (find-95fe7b59)
  /\ record \in {"absent", "processed", "failed"}
  /\ holder \in Deliveries \cup {NoDelivery}
  /\ pc \in [Deliveries -> Places]
  /\ applied \in Nat /\ acked \in BOOLEAN
  /\ faults \in 0..MaxFaults /\ extra \in 0..MaxExtra
  \* the row is held only by a delivery that is going to use it
  /\ holder # NoDelivery => pc[holder] = "applying"

Init ==
  /\ record = "absent" /\ holder = NoDelivery
  /\ pc = [d \in Deliveries |-> "idle"]
  /\ applied = 0 /\ acked = FALSE /\ faults = 0 /\ extra = 0

At(d, place)   == pc[d] = place
Goto(d, place) == pc' = [pc EXCEPT ![d] = place]
ReleaseNever(d) == holder' = holder       \* mutant: the transaction is left open
Release(d)     == holder' = IF holder = d THEN NoDelivery ELSE holder

\* A statement that must lock the row waits for whoever holds it.
Lockable(d) == holder \in {d, NoDelivery}

-----------------------------------------------------------------------------
(* recordWebhookProcessed: INSERT ... ON CONFLICT DO NOTHING, then an       *)
(* UPDATE that reclaims a failed row.                                       *)

\* The INSERT waits for an uncommitted INSERT of the same id; the UPDATE
\* touches a failed row.  Its other case, a row left 'processing' for longer
\* than STALE_PROCESSING_MS, does not arise in a transaction (TypeOK).
Reclaimable == record = "failed"
ClaimReady(d) == record = "processed" \/ Lockable(d)

\* What TypeORM gives for UPDATE ... RETURNING: the rows and their count.  The
\* unit tests mock the rows alone.
ReclaimResult == IF Reclaimable THEN <<{"row"}, 1>> ELSE <<{}, 0>>

\* claimed, or reclaimed.length > 0.
Claimed == record = "absent" \/ Len(ReclaimResult) > 0

\* A delivery arrives.
Deliver(d) ==
  /\ At(d, "idle")
  /\ acked => extra < MaxExtra
  /\ extra' = IF acked THEN extra + 1 ELSE extra
  /\ Goto(d, "claiming")
  /\ UNCHANGED <<record, holder, applied, acked, faults>>

Claim(d) ==
  /\ At(d, "claiming") /\ ClaimReady(d)
  /\ Goto(d, IF Claimed THEN "applying" ELSE "answer_200")
  /\ holder' = IF record = "absent" \/ Reclaimable THEN d ELSE holder
  /\ UNCHANGED <<record, applied, acked, faults, extra>>

\* processEvent, markWebhookProcessed and the commit.  Marking locks the row.
Apply(d) ==
  /\ At(d, "applying") /\ Lockable(d)
  /\ record' = "processed"
  /\ applied' = applied + 1
  /\ Release(d)
  /\ Goto(d, "answer_200")
  /\ UNCHANGED <<acked, faults, extra>>

-----------------------------------------------------------------------------
(* Failure.  Everything the transaction wrote is rolled back.               *)

AfterErrorAck == "answer_200"             \* mutant: the error is swallowed
AfterError    == "recording"

Fault == faults < MaxFaults /\ faults' = faults + 1

\* A handler throws, or the transaction is the victim of a deadlock.
Throw(d) ==
  /\ Fault
  /\ pc[d] \in {"claiming", "applying"}
  /\ Release(d)
  /\ Goto(d, AfterError)
  /\ UNCHANGED <<record, applied, acked, extra>>

\* recordWebhookFailure: claim again and, unless it is a duplicate, mark the
\* row failed, in one transaction.
FailureMarkedProcessed == record' = "processed"   \* mutant: the wrong mark
FailureMark == record' = "failed"

RecordFailure(d) ==
  /\ At(d, "recording") /\ ClaimReady(d) /\ (Claimed => Lockable(d))
  /\ IF Claimed THEN FailureMark ELSE UNCHANGED record
  /\ Goto(d, "answer_500")
  /\ UNCHANGED <<holder, applied, acked, faults, extra>>

\* ... which may fail too: it is caught and logged.
RecordingFails(d) ==
  /\ Fault
  /\ At(d, "recording")
  /\ Goto(d, "answer_500")
  /\ UNCHANGED <<record, holder, applied, acked, extra>>

\* The process dies: rolled back, and Stripe gets no answer.
Crash(d) ==
  /\ Fault
  /\ ~At(d, "idle")
  /\ Release(d)
  /\ Goto(d, "idle")
  /\ UNCHANGED <<record, applied, acked, extra>>

Answer(d) ==
  /\ pc[d] \in {"answer_200", "answer_500"}
  /\ acked' = (acked \/ At(d, "answer_200"))
  /\ Goto(d, "idle")
  /\ UNCHANGED <<record, holder, applied, faults, extra>>

Handle(d) == Claim(d) \/ Apply(d) \/ RecordFailure(d) \/ Answer(d)

Next == \E d \in Deliveries :
          Deliver(d) \/ Handle(d) \/ Throw(d) \/ RecordingFails(d) \/ Crash(d)

Spec == Init /\ [][Next]_vars

(* Fairness.  A handler that is running gets on; Stripe retries an event    *)
(* that it has not seen answered with a 200.                                *)
StripeSpec ==
  /\ Spec
  /\ \A d \in Deliveries : WF_vars(Handle(d))
  /\ WF_vars(\E d \in Deliveries : ~acked /\ Deliver(d))

-----------------------------------------------------------------------------
(* Properties.                                                             *)

\* An event that Stripe will not send again has taken effect: no crash, error
\* or race between deliveries answers 200 for work that was rolled back.
AckedWasApplied == acked => applied > 0

\* A row that says 'processed' is believed by every later delivery, so it is
\* only ever committed together with the effect.
ProcessedWasApplied == record = "processed" => applied > 0

\* Every event is eventually applied and answered.
EventuallyDone == <>(applied > 0 /\ acked)

-----------------------------------------------------------------------------
(* A statement of the source that the code does not keep.                  *)

\* "a 'processed' row, is never reclaimed ... an already-applied event"
\* (billing-enforcement.service.ts:271).
ProcessedNeverReapplied == [][record = "processed" => applied' = applied]_vars
=============================================================================
