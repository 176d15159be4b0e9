------------------------ MODULE StripeWebhooksProofs ------------------------
(***************************************************************************)
(* What StripeWebhooks promises for any number of deliveries and faults:   *)
(* an event that is answered 200, or whose row says 'processed', has been  *)
(* applied, and the row is never committed half done.                      *)
(***************************************************************************)
EXTENDS StripeWebhooks, TLAPS

\* A delivery on its way to a 200 has seen the effect committed.
AnswersAfterEffect == \A d \in Deliveries : pc[d] = "answer_200" => applied > 0

IInv == TypeOK /\ AckedWasApplied /\ ProcessedWasApplied /\ AnswersAfterEffect

-----------------------------------------------------------------------------
\* A claim is refused only for a row that says 'processed', whether or not the
\* driver's answer to the reclaiming UPDATE is read as it was meant.
LEMMA RefusedIsProcessed ==
  ASSUME TypeOK, ~Claimed  PROVE record = "processed"
<1>1. CASE record = "absent"
  BY <1>1 DEF Claimed
<1>2. CASE record = "failed"
  <2>1. ReclaimResult = <<{"row"}, 1>>
    BY <1>2 DEF ReclaimResult, Reclaimable
  <2>2. Len(<<{"row"}, 1>>) > 0
    OBVIOUS
  <2>. QED  BY <2>1, <2>2 DEF Claimed
<1>. QED  BY <1>1, <1>2 DEF TypeOK

\* Whoever releases the row leaves it to a delivery that is using it.
LEMMA ReleasedRow ==
  ASSUME TypeOK, NEW d \in Deliveries, NEW place \in Places, Release(d), Goto(d, place)
  PROVE  /\ holder' \in Deliveries \cup {NoDelivery}
         /\ holder' # NoDelivery => pc'[holder'] = "applying"
<1>1. holder' \in Deliveries \cup {NoDelivery}
  BY DEF Release, TypeOK
<1>2. ASSUME holder' # NoDelivery  PROVE  pc'[holder'] = "applying"
  <2>1. holder' = holder /\ holder # d /\ holder \in Deliveries /\ holder # NoDelivery
    BY <1>2 DEF Release, TypeOK
  <2>2. pc[holder] = "applying"
    BY <2>1 DEF TypeOK
  <2>3. pc'[holder] = pc[holder]
    BY <2>1 DEF Goto, TypeOK
  <2>. QED  BY <2>1, <2>2, <2>3
<1>. QED  BY <1>1, <1>2

LEMMA InitEstablishes == Init => IInv
<1>. SUFFICES ASSUME Init  PROVE IInv
  OBVIOUS
<1>1. TypeOK
  <2>1. faults \in 0..MaxFaults /\ extra \in 0..MaxExtra
    BY WebhookAssumption DEF Init
  <2>. QED  BY <2>1 DEF Init, TypeOK, Places
<1>2. AckedWasApplied /\ ProcessedWasApplied /\ AnswersAfterEffect
  BY DEF Init, AckedWasApplied, ProcessedWasApplied, AnswersAfterEffect
<1>. QED  BY <1>1, <1>2 DEF IInv

-----------------------------------------------------------------------------
(* The types.                                                              *)

LEMMA TypePreserved ==
  ASSUME TypeOK, [Next]_vars  PROVE TypeOK'
<1>1. ASSUME NEW d \in Deliveries, Deliver(d)  PROVE TypeOK'
  BY <1>1, WebhookAssumption DEF Deliver, TypeOK, Places, At, Goto
<1>2. ASSUME NEW d \in Deliveries, Claim(d)  PROVE TypeOK'
  <2>1. PICK place \in {"applying", "answer_200"} :
          /\ pc' = [pc EXCEPT ![d] = place]
          /\ record # "processed" => place = "applying"
    BY <1>2, RefusedIsProcessed DEF Claim, Goto
  <2>2. \/ holder' = d /\ record # "processed"
        \/ holder' = holder /\ holder # d
    BY <1>2, WebhookAssumption DEF Claim, At, TypeOK, Reclaimable
  <2>. QED  BY <1>2, <2>1, <2>2 DEF Claim, TypeOK, Places
<1>3. ASSUME NEW d \in Deliveries, Apply(d)  PROVE TypeOK'
  <2>1. /\ holder' \in Deliveries \cup {NoDelivery}
        /\ holder' # NoDelivery => pc'[holder'] = "applying"
    BY <1>3, ReleasedRow DEF Apply, Places
  <2>2. pc' \in [Deliveries -> Places]
    BY <1>3 DEF Apply, Goto, TypeOK, Places
  <2>. QED  BY <1>3, <2>1, <2>2 DEF Apply, TypeOK
<1>4. ASSUME NEW d \in Deliveries, RecordFailure(d)  PROVE TypeOK'
  <2>1. holder' # NoDelivery => pc'[holder'] = "applying"
    BY <1>4 DEF RecordFailure, TypeOK, Goto, At
  <2>. QED  BY <1>4, <2>1 DEF RecordFailure, FailureMark, TypeOK, Places, Goto
<1>5. ASSUME NEW d \in Deliveries, Answer(d)  PROVE TypeOK'
  BY <1>5 DEF Answer, TypeOK, Places, Goto, At
<1>6. ASSUME NEW d \in Deliveries, Throw(d)  PROVE TypeOK'
  <2>1. /\ holder' \in Deliveries \cup {NoDelivery}
        /\ holder' # NoDelivery => pc'[holder'] = "applying"
    BY <1>6, ReleasedRow DEF Throw, AfterError, Places
  <2>2. pc' \in [Deliveries -> Places]
    BY <1>6 DEF Throw, AfterError, Goto, TypeOK, Places
  <2>3. faults' \in 0..MaxFaults
    BY <1>6, WebhookAssumption DEF Throw, Fault, TypeOK
  <2>. QED  BY <1>6, <2>1, <2>2, <2>3 DEF Throw, TypeOK
<1>7. ASSUME NEW d \in Deliveries, RecordingFails(d)  PROVE TypeOK'
  BY <1>7, WebhookAssumption DEF RecordingFails, TypeOK, Places, Goto, Fault, At
<1>8. ASSUME NEW d \in Deliveries, Crash(d)  PROVE TypeOK'
  <2>1. /\ holder' \in Deliveries \cup {NoDelivery}
        /\ holder' # NoDelivery => pc'[holder'] = "applying"
    BY <1>8, ReleasedRow DEF Crash, Places
  <2>2. pc' \in [Deliveries -> Places]
    BY <1>8 DEF Crash, Goto, TypeOK, Places
  <2>3. faults' \in 0..MaxFaults
    BY <1>8, WebhookAssumption DEF Crash, Fault, TypeOK
  <2>. QED  BY <1>8, <2>1, <2>2, <2>3 DEF Crash, TypeOK
<1>9. CASE UNCHANGED vars
  BY <1>9 DEF vars, TypeOK
<1>. QED  BY <1>1, <1>2, <1>3, <1>4, <1>5, <1>6, <1>7, <1>8, <1>9 DEF Next, Handle

-----------------------------------------------------------------------------
(* The effect.  Only Apply commits it, and only Apply leads to a 200.      *)

LEMMA EffectPreserved ==
  ASSUME IInv, [Next]_vars
  PROVE  AckedWasApplied' /\ ProcessedWasApplied' /\ AnswersAfterEffect'
<1>. USE DEF IInv, AckedWasApplied, ProcessedWasApplied, AnswersAfterEffect
<1>1. ASSUME NEW d \in Deliveries, Deliver(d)
      PROVE  AckedWasApplied' /\ ProcessedWasApplied' /\ AnswersAfterEffect'
  BY <1>1 DEF Deliver, TypeOK, Goto
<1>2. ASSUME NEW d \in Deliveries, Claim(d)
      PROVE  AckedWasApplied' /\ ProcessedWasApplied' /\ AnswersAfterEffect'
  <2>1. UNCHANGED <<record, applied, acked>>
    BY <1>2 DEF Claim
  <2>2. pc'[d] = "answer_200" => applied > 0
    BY <1>2, RefusedIsProcessed DEF Claim, TypeOK, Goto
  <2>3. \A f \in Deliveries \ {d} : pc'[f] = pc[f]
    BY <1>2 DEF Claim, Goto, TypeOK
  <2>. QED  BY <2>1, <2>2, <2>3
<1>3. ASSUME NEW d \in Deliveries, Apply(d)
      PROVE  AckedWasApplied' /\ ProcessedWasApplied' /\ AnswersAfterEffect'
  <2>1. applied' > 0
    BY <1>3 DEF Apply, TypeOK
  <2>. QED  BY <2>1
<1>4. ASSUME NEW d \in Deliveries, RecordFailure(d)
      PROVE  AckedWasApplied' /\ ProcessedWasApplied' /\ AnswersAfterEffect'
  BY <1>4 DEF RecordFailure, FailureMark, TypeOK, Goto
<1>5. ASSUME NEW d \in Deliveries, Answer(d)
      PROVE  AckedWasApplied' /\ ProcessedWasApplied' /\ AnswersAfterEffect'
  BY <1>5 DEF Answer, TypeOK, Goto, At
<1>6. ASSUME NEW d \in Deliveries, Throw(d)
      PROVE  AckedWasApplied' /\ ProcessedWasApplied' /\ AnswersAfterEffect'
  BY <1>6 DEF Throw, AfterError, TypeOK, Goto
<1>7. ASSUME NEW d \in Deliveries, RecordingFails(d)
      PROVE  AckedWasApplied' /\ ProcessedWasApplied' /\ AnswersAfterEffect'
  BY <1>7 DEF RecordingFails, TypeOK, Goto
<1>8. ASSUME NEW d \in Deliveries, Crash(d)
      PROVE  AckedWasApplied' /\ ProcessedWasApplied' /\ AnswersAfterEffect'
  BY <1>8 DEF Crash, TypeOK, Goto
<1>9. CASE UNCHANGED vars
  BY <1>9 DEF vars
<1>. QED  BY <1>1, <1>2, <1>3, <1>4, <1>5, <1>6, <1>7, <1>8, <1>9 DEF Next, Handle

-----------------------------------------------------------------------------
LEMMA Inductive == Spec => []IInv
<1>1. IInv /\ [Next]_vars => IInv'
  BY TypePreserved, EffectPreserved DEF IInv
<1>. QED  BY InitEstablishes, <1>1, PTL DEF Spec

(* The state stays well typed; in particular no crash leaves the row at    *)
(* 'processing', nor a lock on it with a delivery that is gone.            *)
THEOREM TypeCorrect == Spec => []TypeOK
BY Inductive, PTL DEF IInv

(* An event that Stripe has seen answered with a 200 has taken effect.     *)
THEOREM AcknowledgedIsApplied == Spec => []AckedWasApplied
BY Inductive, PTL DEF IInv

(* A row that later deliveries believe to be processed has taken effect.   *)
THEOREM ProcessedIsApplied == Spec => []ProcessedWasApplied
BY Inductive, PTL DEF IInv

=============================================================================
