---------------------- MODULE BillingEnforcementProofs ----------------------
(***************************************************************************)
(* The safety of BillingEnforcement, for any number of concurrent          *)
(* handlers and requests, any settings and any horizon.                    *)
(*                                                                         *)
(* What makes the invariant inductive is what a transaction or a request   *)
(* carries from its read to its write: a handler's input has the kind's    *)
(* statuses, its now() is not in the future, and a request about to        *)
(* restrict the tenant saw it in payment_grace.                            *)
(***************************************************************************)
EXTENDS BillingEnforcement, TLAPS

InputsOfKind(t) ==
  /\ t.kind \in {"subscription", "sub_deleted"} => t.status \in SubStatuses
  /\ t.kind = "override" => t.status \in Statuses \ {"absent"} /\ t.number \in Nat
  /\ t.kind # "none" => t.kind \in Operations

CarriedByTxns ==
  \A w \in Workers : InputsOfKind(txn[w]) /\ txn[w].start <= now

CarriedByRequests ==
  \A r \in Requests : req[r].pc = "restricting" => req[r].before = "payment_grace"

IInv == TypeOK /\ CarriedByTxns /\ CarriedByRequests /\ OverrideCapped

\* A step as the abstract timeline sees it, and one that begins no override.
TimelineStep == [Timeline!Next]_(Timeline!vars)

OrdinaryStep ==
  [\/ Timeline!Enroll \/ Timeline!FailedPayment \/ Timeline!Restrict \/ Timeline!Close
   \/ Timeline!Settle \/ Timeline!OverrideEnds]_(Timeline!vars)

-----------------------------------------------------------------------------
(* What the row operators return.                                          *)

\* The audit stamp moves status_changed_at and nothing else.
LEMMA StampedFacts ==
  ASSUME NEW r \in Row, NEW before, NEW after, NEW ts \in Nat
  PROVE  LET s == Stamped(r, before, after, ts) IN
         /\ s \in Row
         /\ s.status = r.status
         /\ s.graceUntil = r.graceUntil
         /\ s.overrideUntil = r.overrideUntil
  BY DEF Stamped, Row

\* A column default fills status_changed_at and nothing else.
LEMMA OrNewFacts ==
  ASSUME NEW r \in Row, NEW ts \in Nat
  PROVE  LET s == OrNew(r, ts) IN
         /\ s \in Row
         /\ s.status = r.status
         /\ s.graceUntil = r.graceUntil
         /\ s.overrideUntil = r.overrideUntil
  BY DEF OrNew, Row

\* startPaymentGrace sets a deadline and either keeps the status or opens the
\* grace; a status protected by an override is kept.
LEMMA GracedFacts ==
  ASSUME NEW r \in Row, NEW day \in Nat, NEW ts \in Nat
  PROVE  LET s == Graced(r, day, ts) IN
         /\ s \in Row
         /\ s.status = IF InForce(r, ts) THEN r.status ELSE "payment_grace"
         /\ s.graceUntil \in Nat
         /\ s.overrideUntil = r.overrideUntil
<1>1. day + GraceDays \in Nat
  BY SettingsAssumption
<1> QED
  BY <1>1, OrNewFacts DEF Graced, Row, Statuses

\* activateTenant settles everything.
LEMMA ActivatedFacts ==
  ASSUME NEW r \in Row, NEW ts \in Nat
  PROVE  LET s == Activated(r, ts) IN
         /\ s \in Row
         /\ s.status = "active"
         /\ s.graceUntil = Never
         /\ s.overrideUntil = Never
  BY OrNewFacts DEF Activated, Row, Statuses

\* suspendTenant, cancelTenant and ensureState write the status only.
LEMMA WithStatusFacts ==
  ASSUME NEW r \in Row, NEW status \in Statuses, NEW ts \in Nat
  PROVE  LET s == WithStatus(r, status, ts) IN
         /\ s \in Row
         /\ s.status = status
         /\ s.graceUntil = r.graceUntil
         /\ s.overrideUntil = r.overrideUntil
  BY OrNewFacts DEF WithStatus, Row

\* The end of an override is capped.
LEMMA CappedFacts ==
  ASSUME NEW until \in Nat, NEW day \in Nat
  PROVE  Capped(until, day) \in Nat /\ Capped(until, day) <= day + OverrideMaxDays
  BY SettingsAssumption DEF Capped

\* applyManualOverride writes the status and the capped end.
LEMMA OverriddenFacts ==
  ASSUME NEW r \in Row, NEW status \in Statuses, NEW until \in Nat, NEW ts \in Nat
  PROVE  /\ Overridden(r, status, until, ts, ts) \in Row
         /\ Overridden(r, status, until, ts, ts).status = status
         /\ Overridden(r, status, until, ts, ts).graceUntil = r.graceUntil
         /\ Overridden(r, status, until, ts, ts).overrideUntil = Capped(until, ts)
  BY OrNewFacts, CappedFacts DEF Overridden, Row

\* removeManualOverride clears the override and nothing else.
LEMMA OverrideRemovedFacts ==
  ASSUME NEW r \in Row
  PROVE  LET s == OverrideRemoved(r) IN
         /\ s \in Row
         /\ s.status = r.status
         /\ s.graceUntil = r.graceUntil
         /\ s.overrideUntil = Never
  BY DEF OverrideRemoved, Row

-----------------------------------------------------------------------------
(* What each statement does to the row: it keeps its type and its capped    *)
(* override, and the timeline sees one of its own steps.                    *)

RowOK == /\ row' \in Row
         /\ row'.overrideUntil \in {row.overrideUntil, Never}
         /\ OrdinaryStep

\* A transaction in progress, with the types of what it carries.
LEMMA OpenTxn ==
  ASSUME IInv, NEW w \in Workers
  PROVE  /\ txn[w].created \in Nat \cup {Never}
         /\ txn[w].number \in Nat \cup {Never}
         /\ txn[w].start \in Nat
         /\ txn[w].start <= now
         /\ txn[w].before \in Statuses
         /\ InputsOfKind(txn[w])
  BY DEF IInv, TypeOK, CarriedByTxns, Txn

\* A row written as it was found, but for status_changed_at.
LEMMA UnchangedRow ==
  ASSUME row \in Row, row' \in Row,
         row'.status = row.status, row'.graceUntil = row.graceUntil,
         row'.overrideUntil = row.overrideUntil
  PROVE  RowOK
  BY DEF RowOK, OrdinaryStep, Timeline!vars

\* startPaymentGrace is a failed payment, from good standing only.
LEMMA GraceRowStep ==
  ASSUME IInv, NEW w \in Workers, GraceRow(txn[w])
  PROVE  RowOK /\ cause' \in Nat \cup {Never}
<1> DEFINE t == txn[w]
<1>1. row \in Row /\ cause \in Nat \cup {Never}
  BY DEF IInv, TypeOK
<1>2. CASE GraceStarts(t)
  <2>1. row.status \in Timeline!GoodStanding
    BY <1>2 DEF GraceStarts, GraceAllowed, GraceEntryStates, Timeline!GoodStanding
  <2> DEFINE g == Graced(row, t.start, t.start)
  <2>a. t.start \in Nat
    BY OpenTxn
  <2>b. /\ g \in Row
        /\ g.status \in {"payment_grace", row.status}
        /\ g.graceUntil \in Nat
        /\ g.overrideUntil = row.overrideUntil
    BY <1>1, <2>a, GracedFacts
  <2>2. row' = Stamped(g, t.before, g.status, t.start)
    BY <1>2 DEF GraceRow, WriteRow
  <2> HIDE DEF g
  <2>3. /\ row' \in Row
        /\ row'.status \in {"payment_grace", row.status}
        /\ row'.graceUntil \in Nat
        /\ row'.overrideUntil = row.overrideUntil
    BY <2>a, <2>b, <2>2, StampedFacts
  <2>4. Timeline!FailedPayment
    BY <2>1, <2>3 DEF Timeline!FailedPayment
  <2>5. cause' \in {t.created, cause}
    BY <1>2 DEF GraceRow
  <2> QED
    BY <1>1, <2>3, <2>4, <2>5, OpenTxn DEF RowOK, OrdinaryStep
<1>3. CASE ~GraceStarts(t)
  BY <1>1, <1>3, UnchangedRow DEF GraceRow
<1> QED
  BY <1>2, <1>3

\* activateTenant settles.
LEMMA ActivateStep ==
  ASSUME IInv, NEW w \in Workers, WriteRow(txn[w], Activated(row, txn[w].start))
  PROVE  RowOK
<1> DEFINE t == txn[w]
<1>1. row \in Row
  BY DEF IInv, TypeOK
<1>2. /\ row' \in Row /\ row'.status = "active"
      /\ row'.graceUntil = Never /\ row'.overrideUntil = Never
  BY <1>1, OpenTxn, ActivatedFacts, StampedFacts DEF WriteRow
<1>3. Timeline!Settle
  BY <1>2 DEF Timeline!Settle
<1> QED
  BY <1>2, <1>3 DEF RowOK, OrdinaryStep

\* ... or, refused as stale, leaves the row alone.
LEMMA ActivateTenantStep ==
  ASSUME IInv, NEW w \in Workers, ActivateTenant(txn[w])
  PROVE  RowOK /\ cause' \in Nat \cup {Never}
<1>1. row \in Row /\ cause \in Nat \cup {Never}
  BY DEF IInv, TypeOK
<1>2. CASE NotStale(row, txn[w].created)
  BY <1>1, <1>2, ActivateStep DEF ActivateTenant
<1>3. CASE ~NotStale(row, txn[w].created)
  BY <1>1, <1>3, UnchangedRow DEF ActivateTenant
<1> QED
  BY <1>2, <1>3

\* suspendTenant and cancelTenant close the account.
LEMMA CloseStep ==
  ASSUME IInv, NEW w \in Workers, NEW status \in {"suspended", "cancelled"},
         WriteRow(txn[w], WithStatus(row, status, txn[w].start))
  PROVE  RowOK
<1>1. row \in Row /\ status \in Statuses
  BY DEF IInv, TypeOK, Statuses
<1>2. /\ row' \in Row /\ row'.status = status
      /\ row'.graceUntil = row.graceUntil /\ row'.overrideUntil = row.overrideUntil
  BY <1>1, OpenTxn, WithStatusFacts, StampedFacts DEF WriteRow
<1>3. Timeline!Close
  BY <1>2 DEF Timeline!Close
<1> QED
  BY <1>2, <1>3 DEF RowOK, OrdinaryStep

\* ensureState enrolls a tenant without a row.
LEMMA EnsureStateStep ==
  ASSUME IInv, NEW w \in Workers, EnsureState(txn[w])
  PROVE  RowOK
<1>1. row \in Row /\ "trial" \in Statuses
  BY DEF IInv, TypeOK, Statuses
<1>2. CASE row.status = "absent"
  <2>1. /\ row' \in Row /\ row'.status = "trial"
        /\ row'.graceUntil = row.graceUntil /\ row'.overrideUntil = row.overrideUntil
    BY <1>1, <1>2, OpenTxn, WithStatusFacts DEF EnsureState
  <2>2. Timeline!Enroll
    BY <1>2, <2>1 DEF Timeline!Enroll
  <2> QED
    BY <2>1, <2>2 DEF RowOK, OrdinaryStep
<1>3. CASE row.status # "absent"
  BY <1>1, <1>3, UnchangedRow DEF EnsureState
<1> QED
  BY <1>2, <1>3

\* applyManualOverride, the one statement that begins an override.
LEMMA OverrideStep ==
  ASSUME IInv, NEW w \in Workers, CommitOverride(w)
  PROVE  /\ row' \in Row
         /\ row'.overrideUntil <= now + OverrideMaxDays
         /\ TimelineStep
<1>1. row \in Row /\ now \in Nat
  BY DEF IInv, TypeOK
<1>2. PICK status \in Statuses, until \in Nat, start \in Nat, before \in Statuses :
        /\ status # "absent" /\ start <= now
        /\ row' = Stamped(Overridden(row, status, until, start, start), before,
                          Overridden(row, status, until, start, start).status, start)
  <2>1. /\ txn[w].status \in Statuses /\ txn[w].status # "absent"
        /\ txn[w].number \in Nat /\ txn[w].start \in Nat /\ txn[w].start <= now
        /\ txn[w].before \in Statuses
    BY OpenTxn DEF CommitOverride, Doing, InputsOfKind
  <2> QED
    BY <2>1, Zenon DEF CommitOverride, WriteRow
<1> DEFINE o == Overridden(row, status, until, start, start)
<1>3. /\ o \in Row
      /\ o.status = status
      /\ o.graceUntil = row.graceUntil
      /\ o.overrideUntil = Capped(until, start)
  BY <1>1, OverriddenFacts
<1>4. row' = Stamped(o, before, o.status, start)
  BY <1>2
<1> HIDE DEF o
<1>5. /\ row' \in Row
      /\ row'.status = status
      /\ row'.graceUntil = row.graceUntil
      /\ row'.overrideUntil = Capped(until, start)
  BY <1>3, <1>4, StampedFacts
<1>6. /\ Capped(until, start) \in Nat
      /\ Capped(until, start) <= start + OverrideMaxDays
  BY CappedFacts
<1>7. Timeline!OverrideBegins
  BY <1>2, <1>5, <1>6 DEF Timeline!OverrideBegins
<1> QED
  BY <1>1, <1>2, <1>5, <1>6, <1>7, SettingsAssumption DEF TimelineStep, Timeline!Next

\* removeManualOverride ends one.
LEMMA RemoveStep ==
  ASSUME row \in Row, row' = OverrideRemoved(row)
  PROVE  RowOK
<1>1. /\ row' \in Row /\ row'.status = row.status
      /\ row'.graceUntil = row.graceUntil /\ row'.overrideUntil = Never
  BY OverrideRemovedFacts
<1>2. Timeline!OverrideEnds
  BY <1>1 DEF Timeline!OverrideEnds
<1> QED
  BY <1>1, <1>2 DEF RowOK, OrdinaryStep

\* The guard's three statements that write the row, and its two stamps.
LEMMA GuardStepRow ==
  ASSUME IInv, NEW r \in Requests, GuardStep(r)
  PROVE  RowOK
<1>1. row \in Row /\ now \in Nat /\ "suspended" \in Statuses
  BY DEF IInv, TypeOK, Statuses
<1>2. CASE SnapshotBefore(r)
  BY <1>1, <1>2, UnchangedRow DEF SnapshotBefore
<1>3. CASE WriteSuspended(r)
  <2>1. /\ row' \in Row /\ row'.status = "suspended"
        /\ row'.graceUntil = row.graceUntil /\ row'.overrideUntil = row.overrideUntil
    BY <1>1, <1>3, WithStatusFacts DEF WriteSuspended
  <2>2. Timeline!Close
    BY <2>1 DEF Timeline!Close
  <2> QED
    BY <2>1, <2>2 DEF RowOK, OrdinaryStep
<1>4. CASE StampSuspended(r)
  BY <1>1, <1>4, StampedFacts, UnchangedRow DEF StampSuspended
<1>5. CASE WriteReadOnly(r)
  <2>1. req[r].before = "payment_grace"
    BY <1>5 DEF IInv, CarriedByRequests, WriteReadOnly, At
  <2>2. CASE row.status = "payment_grace"
    <3>1. /\ row' \in Row /\ row'.status = "read_only"
          /\ row'.graceUntil = row.graceUntil /\ row'.overrideUntil = row.overrideUntil
      BY <1>1, <1>5, <2>1, <2>2 DEF WriteReadOnly, Row, Statuses
    <3>2. Timeline!Restrict
      BY <2>2, <3>1 DEF Timeline!Restrict
    <3> QED
      BY <3>1, <3>2 DEF RowOK, OrdinaryStep
  <2>3. CASE row.status # "payment_grace"
    BY <1>1, <1>5, <2>1, <2>3, UnchangedRow DEF WriteReadOnly
  <2> QED
    BY <2>2, <2>3
<1>6. CASE StampReadOnly(r)
  <2>1. /\ row' \in Row /\ row'.status = row.status
        /\ row'.graceUntil = row.graceUntil /\ row'.overrideUntil = row.overrideUntil
    BY <1>1, <1>6 DEF StampReadOnly, Row
  <2> QED
    BY <1>1, <2>1, UnchangedRow
<1>7. CASE ExpireOverride(r)
  BY <1>1, <1>7, RemoveStep DEF ExpireOverride
<1> QED
  BY <1>2, <1>3, <1>4, <1>5, <1>6, <1>7 DEF GuardStep

-----------------------------------------------------------------------------
(* The steps.                                                              *)

\* What a step leaves: the tables' part of IInv.
Written ==
  /\ row' \in Row
  /\ row'.overrideUntil # Never => row'.overrideUntil <= now + OverrideMaxDays
  /\ sub' \in [status : SubStatuses, period : Nat \cup {Never}]
  /\ cause' \in Nat \cup {Never}

\* An ordinary statement leaves an override no longer than it found it.
LEMMA RowOKWritten ==
  ASSUME IInv, RowOK
  PROVE  /\ row' \in Row
         /\ row'.overrideUntil # Never => row'.overrideUntil <= now + OverrideMaxDays
         /\ OrdinaryStep
  BY DEF IInv, OverrideCapped, RowOK

\* Every handler but applyManualOverride takes an ordinary step.
LEMMA CommitOrdinary ==
  ASSUME IInv, NEW w \in Workers, CommitAny(w), ~CommitOverride(w)
  PROVE  RowOK /\ Written
<1>1. /\ row \in Row /\ sub \in [status : SubStatuses, period : Nat \cup {Never}]
      /\ cause \in Nat \cup {Never}
      /\ "past_due" \in SubStatuses /\ "active" \in SubStatuses
  BY DEF IInv, TypeOK, SubStatuses
<1>2. CASE CommitPaymentFailed(w)
  <2>1. RowOK /\ cause' \in Nat \cup {Never}
    BY <1>2, GraceRowStep DEF CommitPaymentFailed, StartPaymentGrace
  <2>2. sub' \in [status : SubStatuses, period : Nat \cup {Never}]
    BY <1>1, <1>2 DEF CommitPaymentFailed, StartPaymentGrace
  <2> QED
    BY <1>1, <2>1, <2>2, RowOKWritten DEF Written
<1>3. CASE CommitPaymentSucceeded(w)
  <2>1. RowOK /\ cause' \in Nat \cup {Never}
    BY <1>3, ActivateTenantStep DEF CommitPaymentSucceeded
  <2>2. sub' \in [status : SubStatuses, period : Nat \cup {Never}]
    BY <1>1, <1>3 DEF CommitPaymentSucceeded, ActivateTenant
  <2> QED
    BY <2>1, <2>2, RowOKWritten DEF Written
<1>4. CASE CommitUncollectible(w)
  <2>1. RowOK
    BY <1>4, CloseStep DEF CommitUncollectible, SuspendTenant
  <2> QED
    BY <1>1, <1>4, <2>1, RowOKWritten DEF Written, CommitUncollectible, SuspendTenant
<1>5. CASE CommitCheckout(w)
  <2>1. RowOK /\ cause' \in Nat \cup {Never}
    BY <1>5, ActivateTenantStep DEF CommitCheckout
  <2>2. sub' \in [status : SubStatuses, period : Nat \cup {Never}]
    BY <1>1, <1>5 DEF CommitCheckout, ActivateTenant
  <2> QED
    BY <1>1, <2>1, <2>2, RowOKWritten DEF Written
<1>6. CASE CommitSubscription(w)
  <2>1. txn[w].status \in SubStatuses /\ txn[w].number \in Nat \cup {Never}
    BY <1>6, OpenTxn DEF CommitSubscription, Doing, InputsOfKind
  <2>2. sub' \in [status : SubStatuses, period : Nat \cup {Never}]
    BY <1>1, <1>6, <2>1 DEF CommitSubscription, StorePeriod
  <2>3. RowOK /\ cause' \in Nat \cup {Never}
    <3>1. CASE ~PeriodAccepted(txn[w])
      BY <1>1, <1>6, <3>1, UnchangedRow DEF CommitSubscription
    <3>2. CASE WriteRow(txn[w], Activated(row, txn[w].start)) /\ cause' = Never
      BY <3>2, ActivateStep
    <3>3. CASE EnsureState(txn[w])
      BY <1>1, <3>3, EnsureStateStep DEF EnsureState
    <3>4. CASE GraceRow(txn[w])
      BY <3>4, GraceRowStep
    <3>5. CASE CancelTenant(txn[w])
      BY <1>1, <3>5, CloseStep DEF CancelTenant
    <3> QED
      BY <1>6, <3>1, <3>2, <3>3, <3>4, <3>5 DEF CommitSubscription, SubscriptionEvent
  <2> QED
    BY <1>1, <2>2, <2>3, RowOKWritten DEF Written
<1>7. CASE CommitAdmin(w)
  <2>1. CASE SuspendTenant(txn[w])
    BY <1>1, <1>7, <2>1, CloseStep, RowOKWritten DEF SuspendTenant, CommitAdmin, Written
  <2>2. CASE ActivateTenant(txn[w])
    <3>1. RowOK /\ cause' \in Nat \cup {Never}
      BY <2>2, ActivateTenantStep
    <3>2. sub' \in [status : SubStatuses, period : Nat \cup {Never}]
      BY <1>1, <1>7, <2>2 DEF ActivateTenant, CommitAdmin
    <3> QED
      BY <1>1, <3>1, <3>2, RowOKWritten DEF Written
  <2>3. CASE CancelTenant(txn[w]) /\ UNCHANGED sub
    BY <1>1, <1>7, <2>3, CloseStep, RowOKWritten DEF CancelTenant, CommitAdmin, Written
  <2>4. CASE StartPaymentGrace(txn[w])
    <3>1. RowOK /\ cause' \in Nat \cup {Never}
      BY <2>4, GraceRowStep DEF StartPaymentGrace
    <3>2. sub' \in [status : SubStatuses, period : Nat \cup {Never}]
      BY <1>1, <1>7, <2>4 DEF StartPaymentGrace, CommitAdmin
    <3> QED
      BY <1>1, <3>1, <3>2, RowOKWritten DEF Written
  <2> QED
    BY <1>7, <2>1, <2>2, <2>3, <2>4 DEF CommitAdmin
<1> QED
  BY <1>2, <1>3, <1>4, <1>5, <1>6, <1>7 DEF CommitAny

\* What a step leaves of the transactions, the requests and the clock.
Carried ==
  /\ now' \in Nat /\ now' >= now /\ opened' \in Nat
  /\ txn' \in [Workers -> Txn]
  /\ req' \in [Requests -> Req]
  /\ CarriedByTxns' /\ CarriedByRequests'

\* Who writes the period: a subscription event.
LEMMA PeriodWriters ==
  ASSUME IInv, [Next]_vars
  PROVE  \/ sub'.period = sub.period /\ UNCHANGED history
         \/ \E w \in Workers : PeriodAccepted(txn[w]) /\ StorePeriod(txn[w])
<1>1. sub \in [status : SubStatuses, period : Nat \cup {Never}]
  BY DEF IInv, TypeOK
<1>2. CASE sub' = sub /\ UNCHANGED history
  BY <1>2
<1>3. CASE \E w \in Workers : CommitAny(w)
  <2>1. PICK w \in Workers : CommitAny(w)
    BY <1>3
  <2>2. CASE CommitSubscription(w)
    BY <2>2 DEF CommitSubscription
  <2>3. CASE ~CommitSubscription(w)
    <3>1. UNCHANGED history
      BY <2>1, <2>3
         DEF CommitAny, CommitPaymentFailed, CommitPaymentSucceeded, CommitUncollectible,
             CommitCheckout, CommitAdmin, CommitOverride, Commit
    <3>2. sub' = sub \/ \E status : sub' = [sub EXCEPT !.status = status]
      BY <2>1, <2>3, Zenon
         DEF CommitAny, CommitPaymentFailed, CommitPaymentSucceeded, CommitUncollectible,
             CommitCheckout, CommitAdmin, CommitOverride, StartPaymentGrace,
             ActivateTenant, SuspendTenant
    <3> QED
      BY <1>1, <3>1, <3>2
  <2> QED
    BY <2>2, <2>3
<1> QED
  BY <1>2, <1>3, Zenon
     DEF Next, vars, history, Tick, RemoveOverride, Abort, Commit, OpenAny, OpenPaymentFailed,
         OpenPaymentSucceeded, OpenSubscription, OpenSubDeleted, OpenPlain, OpenAdmin,
         OpenOverride, Open, ReadState, LoseRequest, GuardStep, SnapshotBefore,
         WriteSuspended, StampSuspended, WriteReadOnly, StampReadOnly, ExpireOverride

\* The history of the periods is well typed.
HistoryOK == newest' \in Nat \cup {Never} /\ forgotten' \in BOOLEAN

LEMMA HistoryKept ==
  ASSUME IInv, [Next]_vars
  PROVE  HistoryOK
<1>1. newest \in Nat \cup {Never} /\ forgotten \in BOOLEAN
  BY DEF IInv, TypeOK
<1>2. ASSUME NEW w \in Workers, StorePeriod(txn[w])
      PROVE  HistoryOK
  BY <1>1, <1>2, OpenTxn DEF StorePeriod, HistoryOK, history
<1> QED
  BY <1>1, <1>2, PeriodWriters DEF HistoryOK, history

\* Together they are the inductive invariant.
LEMMA Assembled ==
  ASSUME IInv, Written, Carried, HistoryOK
  PROVE  IInv'
<1>1. now \in Nat /\ (row'.overrideUntil # Never => row'.overrideUntil \in Nat)
  BY DEF IInv, TypeOK, Written, Row
<1>2. OverrideCapped'
  BY <1>1, SettingsAssumption DEF OverrideCapped, Written, Carried
<1> QED
  BY <1>2 DEF IInv, TypeOK, Written, Carried, HistoryOK

\* Nothing written.
LEMMA NothingWritten ==
  ASSUME IInv, UNCHANGED <<row, sub, cause>>
  PROVE  RowOK /\ Written
<1>1. row \in Row
  BY DEF IInv, TypeOK
<1>2. RowOK
  BY <1>1, UnchangedRow
<1> QED
  BY <1>2 DEF IInv, TypeOK, OverrideCapped, Written

\* Opening a transaction records the day and its input.
LEMMA OpenRecords ==
  ASSUME IInv, NEW w \in Workers, NEW kind \in Kinds, NEW created \in Nat \cup {Never},
         NEW status \in Statuses \cup SubStatuses \cup AdminStatuses, NEW number \in Nat \cup {Never},
         Open(w, kind, created, status, number),
         kind \in {"subscription", "sub_deleted"} => status \in SubStatuses,
         kind = "override" => status \in Statuses \ {"absent"} /\ number \in Nat
  PROVE  Carried /\ UNCHANGED <<row, sub, cause>>
<1>1. /\ now \in Nat /\ opened \in Nat /\ row.status \in Statuses
      /\ txn \in [Workers -> Txn] /\ req \in [Requests -> Req]
  BY DEF IInv, TypeOK, Row
<1>2. kind \in Operations
  BY DEF Open
<1> DEFINE t == [kind |-> kind, created |-> created, status |-> status, number |-> number,
                 start |-> now, before |-> row.status]
<1>3. txn' = [txn EXCEPT ![w] = t] /\ UNCHANGED <<now, row, sub, req, cause>>
      /\ opened' = opened + 1
  BY DEF Open
<1>4. t \in Txn /\ InputsOfKind(t) /\ t.start = now
  BY <1>1, <1>2 DEF Txn, InputsOfKind
<1> HIDE DEF t
<1>5. txn' \in [Workers -> Txn] /\ \A v \in Workers : txn'[v] = IF v = w THEN t ELSE txn[v]
  BY <1>1, <1>3, <1>4
<1>6. CarriedByTxns'
  BY <1>1, <1>3, <1>4, <1>5 DEF CarriedByTxns, IInv, InputsOfKind
<1>7. CarriedByRequests'
  BY <1>3 DEF CarriedByRequests, IInv
<1> QED
  BY <1>1, <1>3, <1>5, <1>6, <1>7 DEF Carried

\* ... and every handler's input is of its kind.
LEMMA OpenCarries ==
  ASSUME IInv, NEW w \in Workers, OpenAny(w)
  PROVE  Carried /\ UNCHANGED <<row, sub, cause>>
<1>1. now \in Nat /\ \A n \in 0..now : n \in Nat
  BY DEF IInv, TypeOK
<1>2. /\ Kinds = {"payment_failed", "payment_succeeded", "uncollectible", "checkout",
                  "subscription", "sub_deleted", "admin", "override"}
      /\ {"absent", "cancelled"} \subseteq Statuses /\ "cancelled" \in SubStatuses
  BY DEF Kinds, Statuses, SubStatuses
<1>3. CASE OpenPaymentFailed(w)
  <2>1. PICK created \in 0..now : Open(w, "payment_failed", created, "absent", 0)
    BY <1>3 DEF OpenPaymentFailed
  <2> QED
    BY <1>1, <1>2, <2>1, OpenRecords
<1>4. CASE OpenPaymentSucceeded(w)
  <2>1. PICK created \in 0..now : Open(w, "payment_succeeded", created, "absent", 0)
    BY <1>4 DEF OpenPaymentSucceeded
  <2> QED
    BY <1>1, <1>2, <2>1, OpenRecords
<1>5. CASE OpenSubscription(w)
  <2>1. PICK status \in SubStatuses, period \in Periods :
          Open(w, "subscription", Never, status, period)
    BY <1>5 DEF OpenSubscription
  <2>2. period \in Nat \cup {Never}
    BY BoundsAssumption DEF Periods
  <2> QED
    BY <1>2, <2>1, <2>2, OpenRecords
<1>6. CASE OpenSubDeleted(w)
  <2>1. PICK period \in Periods : Open(w, "sub_deleted", Never, "cancelled", period)
    BY <1>6 DEF OpenSubDeleted
  <2>2. period \in Nat \cup {Never}
    BY BoundsAssumption DEF Periods
  <2> QED
    BY <1>2, <2>1, <2>2, OpenRecords
<1>7. CASE OpenPlain(w)
  <2>1. PICK kind \in {"uncollectible", "checkout"} : Open(w, kind, Never, "absent", 0)
    BY <1>7 DEF OpenPlain
  <2> QED
    BY <1>2, <2>1, OpenRecords
<1>8. CASE OpenAdmin(w)
  <2>1. PICK status \in AdminStatuses : Open(w, "admin", Never, status, 0)
    BY <1>8 DEF OpenAdmin
  <2> QED
    BY <1>2, <2>1, OpenRecords
<1>9. CASE OpenOverride(w)
  <2>1. PICK status \in OverrideInputs, until \in now..(now + OverrideMaxDays + 1) :
          Open(w, "override", Never, status, until)
    BY <1>9 DEF OpenOverride
  <2>2. until \in Nat /\ status \in Statuses \ {"absent"}
    BY <1>1, SettingsAssumption, BoundsAssumption
  <2> QED
    BY <1>2, <2>1, <2>2, OpenRecords
<1> QED
  BY <1>3, <1>4, <1>5, <1>6, <1>7, <1>8, <1>9 DEF OpenAny

\* Closing one forgets what it carried.
LEMMA CommitCarries ==
  ASSUME IInv, NEW w \in Workers, Close(w)
  PROVE  Carried
<1>1. /\ now \in Nat /\ opened \in Nat
      /\ txn \in [Workers -> Txn] /\ req \in [Requests -> Req]
  BY DEF IInv, TypeOK
<1>2. NoTxn \in Txn /\ InputsOfKind(NoTxn) /\ NoTxn.start <= now
  BY <1>1 DEF NoTxn, Txn, InputsOfKind, Statuses
<1>3. txn' = [txn EXCEPT ![w] = NoTxn] /\ UNCHANGED <<now, req, opened>>
  BY DEF Close
<1>4. txn' \in [Workers -> Txn] /\ \A v \in Workers : txn'[v] = IF v = w THEN NoTxn ELSE txn[v]
  BY <1>1, <1>2, <1>3
<1>5. CarriedByTxns' /\ CarriedByRequests'
  BY <1>2, <1>3, <1>4 DEF CarriedByTxns, CarriedByRequests, IInv, InputsOfKind
<1> QED
  BY <1>1, <1>3, <1>4, <1>5 DEF Carried

\* A request that moves carries a status, and towards read_only only
\* payment_grace.
LEMMA GotoCarries ==
  ASSUME IInv, NEW r \in Requests, NEW pc \in Verdicts \cup Steps, NEW before \in Statuses,
         Goto(r, pc, before), pc = "restricting" => before = "payment_grace",
         UNCHANGED <<now, txn>>, opened' \in Nat
  PROVE  Carried
<1>1. now \in Nat /\ txn \in [Workers -> Txn] /\ req \in [Requests -> Req]
  BY DEF IInv, TypeOK
<1> DEFINE q == [pc |-> pc, before |-> before]
<1>2. q \in Req /\ (q.pc = "restricting" => q.before = "payment_grace")
  BY DEF Req
<1>3. req' = [req EXCEPT ![r] = q]
  BY DEF Goto
<1> HIDE DEF q
<1>4. req' \in [Requests -> Req] /\ \A p \in Requests : req'[p] = IF p = r THEN q ELSE req[p]
  BY <1>1, <1>2, <1>3
<1>5. CarriedByRequests'
  BY <1>2, <1>4 DEF CarriedByRequests, IInv
<1>6. CarriedByTxns'
  BY DEF CarriedByTxns, IInv
<1> QED
  BY <1>1, <1>4, <1>5, <1>6 DEF Carried

\* A step of the guard.
LEMMA GuardCarries ==
  ASSUME IInv, NEW r \in Requests, ReadState(r) \/ GuardStep(r) \/ LoseRequest(r)
  PROVE  RowOK /\ Written /\ Carried
<1>1. /\ now \in Nat /\ opened \in Nat /\ row.status \in Statuses
      /\ req[r].before \in Statuses /\ "absent" \in Statuses
  BY DEF IInv, TypeOK, Row, Req, Statuses
<1>2. \A status : Verdict(status) \in Verdicts
  BY DEF Verdict, Verdicts
<1>3. CASE ReadState(r)
  <2>1. PICK pc \in Verdicts \cup Steps, before \in Statuses :
          Goto(r, pc, before) /\ (pc = "restricting" => before = "payment_grace")
    <3>1. CASE DueReadOnly(row, now) /\ Goto(r, "restricting", row.status)
      BY <1>1, <3>1 DEF DueReadOnly, Steps
    <3>2. CASE Goto(r, "suspending", "absent") \/ Goto(r, "expiring", "absent")
      BY <1>1, <3>2 DEF Steps
    <3>3. CASE Goto(r, Verdict(row.status), "absent")
      BY <1>1, <1>2, <3>3 DEF Verdicts
    <3> QED
      BY <1>3, <3>1, <3>2, <3>3 DEF ReadState
  <2> QED
    BY <1>1, <1>3, <2>1, GotoCarries, NothingWritten DEF ReadState
<1>4. CASE GuardStep(r)
  <2>1. PICK pc \in (Verdicts \cup Steps) \ {"restricting"}, before \in Statuses :
          Goto(r, pc, before)
    BY <1>1, <1>4, Zenon
       DEF GuardStep, SnapshotBefore, WriteSuspended, StampSuspended, WriteReadOnly,
           StampReadOnly, ExpireOverride, Verdicts, Steps
  <2>2. UNCHANGED <<now, txn, opened, sub, cause>>
    BY <1>4 DEF GuardStep, SnapshotBefore, WriteSuspended, StampSuspended, WriteReadOnly,
                StampReadOnly, ExpireOverride
  <2>3. Carried
    BY <1>1, <2>1, <2>2, GotoCarries
  <2>4. RowOK
    BY <1>4, GuardStepRow
  <2> QED
    BY <2>2, <2>3, <2>4, RowOKWritten DEF Written, IInv, TypeOK
<1>5. CASE LoseRequest(r)
  BY <1>1, <1>5, GotoCarries, NothingWritten DEF LoseRequest, Verdicts
<1> QED
  BY <1>3, <1>4, <1>5

\* Every step keeps the invariant, and the timeline sees a step of its own; if
\* overrides are not offered, an ordinary one.
LEMMA StepIInv ==
  ASSUME IInv, [Next]_vars
  PROVE  /\ IInv'
         /\ TimelineStep
         /\ "override" \notin Operations => OrdinaryStep
<1> USE DEF RowOK
<1>a. HistoryOK
  BY HistoryKept
<1>0. OrdinaryStep => TimelineStep
  BY DEF OrdinaryStep, TimelineStep, Timeline!Next
<1>1. CASE Tick
  <2>1. Carried
    BY <1>1 DEF Tick, Carried, IInv, TypeOK, CarriedByTxns, CarriedByRequests, InputsOfKind, Txn
  <2> QED
    BY <1>0, <1>1, <2>1, NothingWritten, <1>a, Assembled DEF Tick
<1>2. CASE RemoveOverride
  <2>1. Carried
    BY <1>2 DEF RemoveOverride, Carried, IInv, TypeOK, CarriedByTxns, CarriedByRequests,
                InputsOfKind
  <2>2. RowOK
    BY <1>2, RemoveStep DEF RemoveOverride, IInv, TypeOK
  <2>3. Written
    BY <1>2, <2>2, RowOKWritten DEF RemoveOverride, Written, IInv, TypeOK
  <2> QED
    BY <1>0, <2>1, <2>2, <2>3, <1>a, Assembled
<1>3. ASSUME NEW w \in Workers, OpenAny(w)
      PROVE  IInv' /\ OrdinaryStep
  BY <1>3, OpenCarries, NothingWritten, <1>a, Assembled
<1>4. ASSUME NEW w \in Workers, CommitAny(w), ~CommitOverride(w)
      PROVE  IInv' /\ OrdinaryStep
  <2>1. Close(w)
    BY <1>4 DEF CommitAny, CommitPaymentFailed, CommitPaymentSucceeded, CommitUncollectible,
                CommitCheckout, CommitSubscription, CommitAdmin, CommitOverride, Commit
  <2> QED
    BY <1>4, <2>1, CommitOrdinary, CommitCarries, <1>a, Assembled
<1>5. ASSUME NEW w \in Workers, CommitOverride(w)
      PROVE  IInv' /\ TimelineStep /\ "override" \in Operations
  <2>1. Carried
    BY <1>5, CommitCarries DEF CommitOverride, Commit
  <2>2. "override" \in Operations
    BY <1>5, OpenTxn DEF CommitOverride, Doing, InputsOfKind
  <2>3. Written
    BY <1>5, OverrideStep DEF CommitOverride, Written, IInv, TypeOK
  <2> QED
    BY <1>5, <2>1, <2>2, <2>3, OverrideStep, <1>a, Assembled
<1>6. ASSUME NEW w \in Workers, Abort(w)
      PROVE  IInv' /\ OrdinaryStep
  BY <1>6, CommitCarries, NothingWritten, <1>a, Assembled DEF Abort, Commit
<1>7. ASSUME NEW r \in Requests, ReadState(r) \/ GuardStep(r) \/ LoseRequest(r)
      PROVE  IInv' /\ OrdinaryStep
  BY <1>7, GuardCarries, <1>a, Assembled
<1>8. CASE UNCHANGED vars
  <2>1. Carried
    BY <1>8 DEF vars, Carried, IInv, TypeOK, CarriedByTxns, CarriedByRequests, InputsOfKind
  <2> QED
    BY <1>0, <1>8, <2>1, NothingWritten, <1>a, Assembled DEF vars
<1> QED
  BY <1>0, <1>1, <1>2, <1>3, <1>4, <1>5, <1>6, <1>7, <1>8 DEF Next

\* The initial states satisfy it.
LEMMA InitIInv == Init => IInv
<1> SUFFICES ASSUME Init PROVE IInv
  OBVIOUS
<1> USE DEF Init, Statuses
<1>1. row \in Row /\ row.overrideUntil = Never
  BY DEF NoRow, Row
<1>2. sub \in [status : SubStatuses, period : Nat \cup {Never}]
  BY DEF SubStatuses
<1>3. txn \in [Workers -> Txn] /\ CarriedByTxns
  BY DEF NoTxn, Txn, CarriedByTxns, InputsOfKind
<1>4. req \in [Requests -> Req] /\ CarriedByRequests
  BY DEF Req, Verdicts, CarriedByRequests
<1> QED
  BY <1>1, <1>2, <1>3, <1>4 DEF IInv, TypeOK, OverrideCapped

-----------------------------------------------------------------------------
(* The theorems.                                                           *)

\* The inductive invariant holds throughout.
THEOREM Invariance == Spec => []IInv
  BY InitIInv, StepIInv, PTL DEF Spec

\* Every variable keeps its type, whatever handlers and guard interleave.
THEOREM TypeCorrect == Spec => []TypeOK
  BY Invariance, PTL DEF IInv

\* No override has more than manual_override_max_days left.
THEOREM OverridesCapped == Spec => []OverrideCapped
  BY Invariance, PTL DEF IInv

\* Handlers, guard and administrator together implement the dunning timeline.
THEOREM EnforcementImplementsTimeline == Spec => ImplementsTimeline
<1>1. Init => Timeline!Init
  BY DEF Init, NoRow, Timeline!Init
<1>2. IInv /\ [Next]_vars => [Timeline!Next]_(Timeline!vars)
  BY StepIInv DEF TimelineStep
<1> QED
  BY <1>1, <1>2, Invariance, PTL DEF Spec, ImplementsTimeline, Timeline!Spec

\* An override in force keeps a failed payment from changing the status, even
\* one granted after the failure's handler read the row.
THEOREM OverridesShield == Spec => OverrideShieldsFromFailures
<1>1. ASSUME IInv, NEW w \in Workers, CommitPaymentFailed(w), InForce(row, now)
      PROVE  row'.status = row.status
  <2> DEFINE t == txn[w]
             g == Graced(row, t.start, t.start)
  <2>1. row \in Row /\ now \in Nat /\ t.start \in Nat /\ t.start <= now
    BY <1>1, OpenTxn DEF IInv, TypeOK
  <2>2. InForce(row, t.start)
    BY <1>1, <2>1 DEF InForce, Row
  <2>3. g \in Row /\ g.status = row.status
    BY <2>1, <2>2, GracedFacts
  <2>4. row' = row \/ row' = Stamped(g, t.before, g.status, t.start)
    BY <1>1 DEF CommitPaymentFailed, StartPaymentGrace, GraceRow, WriteRow
  <2> HIDE DEF g
  <2> QED
    BY <2>1, <2>3, <2>4, StampedFacts
<1>2. IInv => [\A w \in Workers :
                 CommitPaymentFailed(w) /\ InForce(row, now) => row'.status = row.status]_vars
  BY <1>1
<1> QED
  BY <1>2, Invariance, PTL DEF Spec, OverrideShieldsFromFailures

\* Without overrides, no tenant is restricted without a deadline.
THEOREM DunningKeepsClock ==
  ASSUME "override" \notin Operations
  PROVE  Spec => []DunningHasClock
<1>1. Init => DunningHasClock
  BY DEF Init, NoRow, DunningHasClock, InDunning
<1>2. IInv /\ DunningHasClock /\ [Next]_vars => DunningHasClock'
  <2> SUFFICES ASSUME IInv, DunningHasClock, OrdinaryStep
               PROVE  DunningHasClock'
    BY StepIInv
  <2> QED
    BY SettingsAssumption
       DEF OrdinaryStep, DunningHasClock, InDunning, Timeline!vars, Timeline!GoodStanding,
           Timeline!Enroll, Timeline!FailedPayment, Timeline!Restrict, Timeline!Close,
           Timeline!Settle, Timeline!OverrideEnds
<1> QED
  BY <1>1, <1>2, Invariance, PTL DEF Spec

\* What the guard of the upsert relies on: unless it was erased, the stored
\* period is the newest there was.
NewestStored == ~forgotten => sub.period = newest

\* Unless an event without a period took the stored one away, an event older
\* than the newest that was ever stored changes nothing, whatever ran between
\* its read and its write.
THEOREM SubscriptionsNeverRewind == Spec => SubscriptionNeverRewinds
<1>1. Init => NewestStored
  BY DEF Init, NewestStored
<1>2. ASSUME IInv, NewestStored, [Next]_vars
      PROVE  NewestStored'
  <2>1. CASE sub'.period = sub.period /\ UNCHANGED history
    BY <1>2, <2>1 DEF NewestStored, history
  <2>2. CASE \E w \in Workers : PeriodAccepted(txn[w]) /\ StorePeriod(txn[w])
    <3>1. PICK w \in Workers : PeriodAccepted(txn[w]) /\ StorePeriod(txn[w])
      BY <2>2
    <3>2. /\ txn[w].number \in Nat \cup {Never} /\ newest \in Nat \cup {Never}
          /\ Never \notin Nat
      BY OpenTxn, <1>2, SettingsAssumption DEF IInv, TypeOK
    <3>3. sub'.period = txn[w].number
      BY <3>1 DEF StorePeriod
    <3> QED
      BY <1>2, <3>1, <3>2, <3>3 DEF NewestStored, StorePeriod, PeriodAccepted, history
  <2> QED
    BY <1>2, <2>1, <2>2, PeriodWriters
<1>3. ASSUME IInv, NewestStored, NEW w \in Workers,
             CommitSubscription(w), Older(txn[w].number, newest), ~forgotten
      PROVE  UNCHANGED <<row, sub>>
  <2>1. ~PeriodAccepted(txn[w])
    BY <1>3, OpenTxn DEF PeriodAccepted, Older, NewestStored, IInv, TypeOK
  <2> QED
    BY <1>3, <2>1 DEF CommitSubscription
<1>4. IInv /\ NewestStored
        => [\A w \in Workers :
              CommitSubscription(w) /\ Older(txn[w].number, newest) /\ ~forgotten
                => UNCHANGED <<row, sub>>]_vars
  BY <1>3
<1> QED
  BY <1>1, <1>2, <1>4, Invariance, PTL DEF Spec, SubscriptionNeverRewinds
=============================================================================
