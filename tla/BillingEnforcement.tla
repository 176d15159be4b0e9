------------------------- MODULE BillingEnforcement -------------------------
(***************************************************************************)
(* One tenant's billing enforcement: the Stripe webhook handlers and the   *)
(* admin endpoints (modules/billing/billing.service.ts), the service they  *)
(* share (billing-enforcement.service.ts) and the guard that runs before   *)
(* every request (core/guards/billing-enforcement.guard.ts).               *)
(*                                                                         *)
(* Rows of different tenants never meet, so one tenant is the whole model. *)
(* A handler is one READ COMMITTED transaction: it reads the row (Open),   *)
(* then runs guarded statements on the latest row and commits (one action  *)
(* per handler); between the two anybody else may commit, and the          *)
(* transaction may be rolled back instead (Abort: a crash, a deadlock, an  *)
(* error).  The guard runs outside any transaction, so each of its         *)
(* statements is a step of its own.                                        *)
(***************************************************************************)
EXTENDS BillingState

CONSTANTS Workers,       \* transactions that can be open at once
          Requests,      \* requests that can be in the guard at once
          Operations,    \* the kinds of transaction offered in this instance
          OverrideInputs, \* the statuses an administrator gives in an override
          MaxOpened,     \* bound: transactions opened and requests lost
          LastBusy,      \* bound: no transaction is open after this day
          MaxTime,       \* bound: the clock stops here
          MaxPeriod      \* bound: subscription periods

Kinds == {"payment_failed", "payment_succeeded", "uncollectible", "checkout",
          "subscription", "sub_deleted", "admin", "override"}

ASSUME BoundsAssumption ==
  /\ MaxOpened \in Nat /\ LastBusy \in Nat /\ MaxTime \in Nat /\ MaxPeriod \in Nat
  /\ Operations \subseteq Kinds
  /\ OverrideInputs \subseteq Statuses \ {"absent"}

VARIABLES now,       \* the clock, in days
          row,       \* the tenant_billing_state row
          sub,       \* the billing_subscriptions row: status and current_period_start
          txn,       \* txn[w]: the transaction worker w has open
          req,       \* req[r]: where request r stands in the guard
          opened,    \* transactions opened so far
          cause,     \* history: creation time of the failure that opened the grace
          newest,    \* history: the newest period stored in billing_subscriptions
          forgotten  \* history: an event without a period was stored since

vars == <<now, row, sub, txn, req, opened, cause, newest, forgotten>>
history == <<newest, forgotten>>

SubStatuses   == {"active", "trialing", "past_due", "cancelled"}
AdminStatuses == {"suspended", "active", "cancelled", "past_due"}  \* ADMIN_SETTABLE_BILLING_STATUSES

\* kind, and what the handler's input carries: the Stripe creation time, a
\* status, a day or period; then the transaction's now() and the status read.
NoTxn == [kind |-> "none", created |-> Never, status |-> "absent", number |-> 0,
          start |-> 0, before |-> "absent"]

Txn == [kind    : Kinds \cup {"none"},
        created : Nat \cup {Never},
        status  : Statuses \cup SubStatuses \cup AdminStatuses,
        number  : Nat \cup {Never},
        start   : Nat,
        before  : Statuses]

Verdicts == {"idle", "admitted", "reads_only", "denied"}
Steps    == {"suspending", "suspend_write", "suspend_stamp",
             "restricting", "restrict_stamp", "expiring"}

Req == [pc : Verdicts \cup Steps, before : Statuses]

TypeOK ==
  /\ now \in Nat
  /\ row \in Row
  /\ sub \in [status : SubStatuses, period : Nat \cup {Never}]
  /\ txn \in [Workers -> Txn]
  /\ req \in [Requests -> Req]
  /\ opened \in Nat
  /\ cause \in Nat \cup {Never}
  /\ newest \in Nat \cup {Never} /\ forgotten \in BOOLEAN

Init ==
  /\ now = 0
  /\ row \in {NoRow, [NoRow EXCEPT !.status = "trial"]}
  /\ sub = [status |-> "trialing", period |-> Never]
  /\ txn = [w \in Workers |-> NoTxn]
  /\ req = [r \in Requests |-> [pc |-> "idle", before |-> "absent"]]
  /\ opened = 0
  /\ cause = Never
  /\ newest = Never /\ forgotten = FALSE

-----------------------------------------------------------------------------
(* Opening a transaction: BEGIN, and the read every handler starts with.   *)

Open(w, kind, created, status, number) ==
  /\ txn[w].kind = "none" /\ kind \in Operations
  /\ opened < MaxOpened /\ now <= LastBusy
  /\ opened' = opened + 1
  /\ txn' = [txn EXCEPT ![w] = [kind |-> kind, created |-> created, status |-> status,
                                number |-> number, start |-> now, before |-> row.status]]
  /\ UNCHANGED <<now, row, sub, req, cause, history>>

\* isStaleInvoiceEvent on the row just read: an early return, nothing written.
OpenPaymentFailed(w) ==
  \E created \in 0..now :
    /\ NotStale(row, created)
    /\ row.status \in GraceEntryStates \cup {"absent"}      \* startPaymentGrace's own early return
    /\ Open(w, "payment_failed", created, "absent", 0)

OpenPaymentSucceeded(w) ==
  \E created \in 0..now :
    /\ NotStale(row, created)
    /\ Open(w, "payment_succeeded", created, "absent", 0)

\* stripeDate gives NULL for a subscription without current_period_start.
Periods == 0..MaxPeriod \cup {Never}

OpenSubscription(w) ==
  \E status \in SubStatuses, period \in Periods :
    Open(w, "subscription", Never, status, period)

OpenSubDeleted(w) ==
  \E period \in Periods :
    Open(w, "sub_deleted", Never, "cancelled", period)

OpenPlain(w) ==
  \E kind \in {"uncollectible", "checkout"} :
    Open(w, kind, Never, "absent", 0)

OpenAdmin(w) ==
  \E status \in AdminStatuses : Open(w, "admin", Never, status, 0)

\* Ends beyond the cap are all capped alike: one of them is enough.
OpenOverride(w) ==
  \E status \in OverrideInputs, until \in now..(now + OverrideMaxDays + 1) :
    Open(w, "override", Never, status, until)

OpenAny(w) == \/ OpenPaymentFailed(w) \/ OpenPaymentSucceeded(w) \/ OpenSubscription(w)
              \/ OpenSubDeleted(w) \/ OpenPlain(w) \/ OpenAdmin(w) \/ OpenOverride(w)

-----------------------------------------------------------------------------
(* The statements of a transaction, up to its commit.                      *)

Close(w) ==
  /\ txn' = [txn EXCEPT ![w] = NoTxn]
  /\ UNCHANGED <<now, req, opened>>

Commit(w) == Close(w) /\ UNCHANGED history

WriteRow(t, r) == row' = Stamped(r, t.before, r.status, t.start)

\* startPaymentGrace: its early return on the status read, then the upsert
\* with its guards.
GraceStarts(t) ==
  t.before \in GraceEntryStates \cup {"absent"} /\ GraceAllowed(row, t.created)

GraceRow(t) ==
  IF GraceStarts(t)
  THEN /\ WriteRow(t, Graced(row, t.start, t.start))
       /\ cause' = IF row'.status = "payment_grace" THEN t.created ELSE cause
  ELSE UNCHANGED <<row, cause>>

\* ... and billing_subscriptions only once the upsert took effect.
StartPaymentGrace(t) ==
  /\ GraceRow(t)
  /\ sub' = IF GraceStarts(t) THEN [sub EXCEPT !.status = "past_due"] ELSE sub

\* activateTenant: billing_subscriptions first, without a guard; the state row
\* only if the event is not stale.
ActivateTenant(t) ==
  /\ sub' = [sub EXCEPT !.status = "active"]
  /\ IF NotStale(row, t.created)
     THEN WriteRow(t, Activated(row, t.start)) /\ cause' = Never
     ELSE UNCHANGED <<row, cause>>

SuspendTenant(t) ==
  WriteRow(t, WithStatus(row, "suspended", t.start)) /\ UNCHANGED <<sub, cause>>

CancelTenant(t) ==
  WriteRow(t, WithStatus(row, "cancelled", t.start)) /\ UNCHANGED cause

EnsureState(t) ==
  /\ row' = IF row.status = "absent" THEN WithStatus(row, "trial", t.start) ELSE row
  /\ UNCHANGED cause

Doing(w, kind) == txn[w].kind = kind

CommitPaymentFailed(w) ==
  /\ Doing(w, "payment_failed")
  /\ StartPaymentGrace(txn[w])
  /\ Commit(w)

CommitPaymentSucceeded(w) ==
  /\ Doing(w, "payment_succeeded")
  /\ ActivateTenant(txn[w])
  /\ Commit(w)

CommitUncollectible(w) ==
  Doing(w, "uncollectible") /\ SuspendTenant(txn[w]) /\ Commit(w)

CommitCheckout(w) ==
  Doing(w, "checkout") /\ ActivateTenant(txn[w]) /\ Commit(w)

\* upsertStripeSubscription keeps a row of a newer period, if both have one;
\* then nothing else of the event is applied either.
PeriodAlwaysAccepted(t) == TRUE           \* mutant: the period guard is dropped
PeriodAccepted(t) == sub.period = Never \/ t.number = Never \/ t.number >= sub.period

\* The period is stored as it came, NULL included: then it no longer guards.
StorePeriod(t) ==
  /\ sub' = [status |-> t.status, period |-> t.number]
  /\ IF t.number = Never THEN forgotten' = (newest # Never) /\ newest' = newest
     ELSE IF newest = Never \/ t.number >= newest
          THEN forgotten' = FALSE /\ newest' = t.number
          ELSE UNCHANGED history

SubscriptionEvent(t) ==
  \/ t.status = "active" /\ WriteRow(t, Activated(row, t.start)) /\ cause' = Never
  \/ t.status = "trialing" /\ EnsureState(t)
  \/ t.status = "past_due" /\ GraceRow(t)
  \/ t.status = "cancelled" /\ CancelTenant(t)

CommitSubscription(w) ==
  LET t == txn[w] IN
  /\ Doing(w, "subscription") \/ Doing(w, "sub_deleted")
  /\ IF PeriodAccepted(t)
     THEN StorePeriod(t) /\ SubscriptionEvent(t)
     ELSE UNCHANGED <<row, sub, cause, history>>
  /\ Close(w)

\* updateAdminTenant, and the suspend and reactivate endpoints.
CommitAdmin(w) ==
  LET t == txn[w] IN
  /\ Doing(w, "admin")
  /\ \/ t.status = "suspended" /\ SuspendTenant(t)
     \/ t.status = "active" /\ ActivateTenant(t)
     \/ t.status = "cancelled" /\ CancelTenant(t) /\ UNCHANGED sub
     \/ t.status = "past_due" /\ StartPaymentGrace(t)
  /\ Commit(w)

CommitOverride(w) ==
  LET t == txn[w] IN
  /\ Doing(w, "override")
  /\ WriteRow(t, Overridden(row, t.status, t.number, t.start, t.start))
  /\ UNCHANGED <<sub, cause>>
  /\ Commit(w)

CommitAny(w) == \/ CommitPaymentFailed(w) \/ CommitPaymentSucceeded(w) \/ CommitUncollectible(w)
                \/ CommitCheckout(w) \/ CommitSubscription(w) \/ CommitAdmin(w)
                \/ CommitOverride(w)

\* Rolled back: an error, a lost connection, a deadlock between two handlers
\* (startPaymentGrace and activateTenant lock the two rows in opposite orders).
Abort(w) ==
  /\ txn[w].kind # "none"
  /\ Commit(w)
  /\ UNCHANGED <<row, sub, cause>>

\* removeManualOverride of the admin endpoint: its one UPDATE.  The escalation
\* that should follow is handed the driver's [rows, count] pair and does
\* nothing.
RemoveOverride ==
  /\ "override" \in Operations
  /\ row.overrideUntil # Never
  /\ row' = OverrideRemoved(row)
  /\ UNCHANGED <<now, sub, txn, req, opened, cause, history>>

-----------------------------------------------------------------------------
(* The guard: getStateWithEscalation, one statement per step.              *)

At(r, pc) == req[r].pc = pc
Goto(r, pc, before) == req' = [req EXCEPT ![r] = [pc |-> pc, before |-> before]]
Resting(r) == req[r].pc \in Verdicts

StatusAsVerdict(status) == status         \* mutant: the raw status is handed on
Verdict(status) ==
  IF status = "suspended" THEN "denied"
  ELSE IF status = "read_only" THEN "reads_only"
  ELSE "admitted"

\* The read, and the decision made from it.
ReadState(r) ==
  /\ Resting(r)
  /\ \/ /\ DueSuspension(row, now)
        /\ Goto(r, "suspending", "absent")
     \/ /\ DueReadOnly(row, now)
        /\ Goto(r, "restricting", row.status)
     \/ /\ DueOverrideExpiry(row, now)
        /\ Goto(r, "expiring", "absent")
     \/ /\ ~DueSuspension(row, now) /\ ~DueReadOnly(row, now) /\ ~DueOverrideExpiry(row, now)
        /\ Goto(r, Verdict(row.status), "absent")
  /\ UNCHANGED <<now, row, sub, txn, opened, cause, history>>

\* suspendTenant: its own snapshot, the upsert without a guard, the stamp.
SnapshotBefore(r) ==
  /\ At(r, "suspending")
  /\ Goto(r, "suspend_write", row.status)
  /\ UNCHANGED <<now, row, sub, txn, opened, cause, history>>

WriteSuspended(r) ==
  /\ At(r, "suspend_write")
  /\ row' = WithStatus(row, "suspended", now)
  /\ Goto(r, "suspend_stamp", req[r].before)
  /\ UNCHANGED <<now, sub, txn, opened, cause, history>>

StampSuspended(r) ==
  /\ At(r, "suspend_stamp")
  /\ row' = Stamped(row, req[r].before, "suspended", now)
  /\ Goto(r, "denied", "absent")
  /\ UNCHANGED <<now, sub, txn, opened, cause, history>>

\* The read_only UPDATE takes effect only if the status is still the one the
\* decision was made from.
WriteReadOnlyBlind(r) ==                  \* mutant: no WHERE status = <before>
  /\ At(r, "restricting")
  /\ row' = [row EXCEPT !.status = "read_only"]
  /\ Goto(r, "restrict_stamp", req[r].before)
  /\ UNCHANGED <<now, sub, txn, opened, cause, history>>

WriteReadOnly(r) ==
  /\ At(r, "restricting")
  /\ row' = IF row.status = req[r].before THEN [row EXCEPT !.status = "read_only"] ELSE row
  /\ Goto(r, "restrict_stamp", req[r].before)
  /\ UNCHANGED <<now, sub, txn, opened, cause, history>>

\* Its result is the driver's [rows, count] pair: never of length 0, so a lost
\* race is not noticed, and without a status, so the stamp is always written
\* and the guard finds neither 'suspended' nor 'read_only'.
StampReadOnly(r) ==
  /\ At(r, "restrict_stamp")
  /\ row' = [row EXCEPT !.changedAt = now]
  /\ Goto(r, "admitted", "absent")
  /\ UNCHANGED <<now, sub, txn, opened, cause, history>>

\* removeManualOverride of an expired override; again the pair is returned and
\* the guard finds no status in it.
ExpireOverride(r) ==
  /\ At(r, "expiring")
  /\ row' = OverrideRemoved(row)
  /\ Goto(r, "admitted", "absent")
  /\ UNCHANGED <<now, sub, txn, opened, cause, history>>

\* The process dies with a request half way.
LoseRequest(r) ==
  /\ ~Resting(r) /\ opened < MaxOpened
  /\ opened' = opened + 1
  /\ Goto(r, "idle", "absent")
  /\ UNCHANGED <<now, row, sub, txn, cause, history>>

GuardStep(r) == \/ SnapshotBefore(r) \/ WriteSuspended(r) \/ StampSuspended(r)
                \/ WriteReadOnly(r) \/ StampReadOnly(r) \/ ExpireOverride(r)

-----------------------------------------------------------------------------

Tick ==
  /\ now < MaxTime
  /\ now >= LastBusy => \A w \in Workers : txn[w].kind = "none"
  /\ now' = now + 1
  /\ UNCHANGED <<row, sub, txn, req, opened, cause, history>>

Next ==
  \/ Tick
  \/ RemoveOverride
  \/ \E w \in Workers : OpenAny(w) \/ CommitAny(w) \/ Abort(w)
  \/ \E r \in Requests : ReadState(r) \/ GuardStep(r) \/ LoseRequest(r)

Spec == Init /\ [][Next]_vars

(* Fairness.  A transaction that is open ends: by its own commit or by a    *)
(* rollback (CloseAny).  A request in the guard runs on (GuardStep).  The   *)
(* clock advances.  ReadState is what keeps the tenant's escalation alive:  *)
(* assuming it says that the tenant goes on making requests, so only        *)
(* properties that say so use TrafficSpec.                                  *)
CloseAny(w) == CommitAny(w) \/ Abort(w)

Progress ==
  /\ WF_vars(Tick)
  /\ \A w \in Workers : WF_vars(CloseAny(w))
  /\ \A r \in Requests : WF_vars(GuardStep(r))

TrafficSpec == Spec /\ Progress /\ \A r \in Requests : WF_vars(ReadState(r))

-----------------------------------------------------------------------------
(* Properties.                                                             *)

Older(period, other) == period # Never /\ other # Never /\ period < other

\* The dunning sequence is entered only from good standing, its deadline is
\* set on entry and then left alone, read_only comes only after payment_grace
\* (find-2202a169, find-c64da2b1), whatever handlers, guard and
\* administrator do between each other's reads and writes.
Timeline == INSTANCE DunningTimeline
  WITH Standings <- Statuses, standing <- row.status,
       deadline <- row.graceUntil, override <- row.overrideUntil

ImplementsTimeline == Timeline!Spec

\* A failed payment committed while an override is in force changes no status,
\* even when the override was granted after the handler read the row.
OverrideShieldsFromFailures ==
  [][\A w \in Workers :
       CommitPaymentFailed(w) /\ InForce(row, now) => row'.status = row.status]_vars

\* An override never outlives its cap: at any time, at most
\* manual_override_max_days are left.
OverrideCapped ==
  row.overrideUntil # Never => row.overrideUntil <= now + OverrideMaxDays

\* An event older than the newest period that was ever stored changes neither
\* billing_subscriptions nor the tenant's standing, however late it comes and
\* whatever ran between its read and its write (find-602e8654); unless an
\* event without a period took the stored one away since.
SubscriptionNeverRewinds ==
  [][\A w \in Workers :
       CommitSubscription(w) /\ Older(txn[w].number, newest) /\ ~forgotten
         => UNCHANGED <<row, sub>>]_vars

\* Without overrides, a tenant in dunning always has the deadline that will
\* take it out: no interleaving strands it in a restricted state for ever.
DunningHasClock == row.status \in InDunning => row.graceUntil # Never

\* A tenant in dunning that goes on using the product does not stay there:
\* it is suspended in time, or has settled, or was cancelled.
DunningEnds ==
  (row.status \in InDunning /\ row.graceUntil # Never)
    ~> (row.status \notin InDunning \/ InForce(row, now))

-----------------------------------------------------------------------------
(* A statement of the repository that the code does not keep.               *)

\* "the write for the chronologically OLDER Stripe event is rejected"
\* (billing-enforcement.service.ts:338): so a payment newer than the failure
\* that opened the grace takes the tenant out of it.
NewerPaymentHonoured ==
  [][\A w \in Workers :
       CommitPaymentSucceeded(w) /\ row.status \in InDunning /\ cause # Never
         /\ txn[w].created > cause => row'.status = "active"]_vars

=============================================================================
