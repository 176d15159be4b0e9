---------------------------- MODULE BillingState ----------------------------
(***************************************************************************)
(* A tenant_billing_state row and the SQL statements that write it, as     *)
(* functions from the row the statement finds to the row it leaves         *)
(* (modules/billing/billing-enforcement.service.ts).  Each is the effect   *)
(* of one statement under its row lock, so its guards see the latest       *)
(* committed row; who computes what from an older copy is the business of  *)
(* BillingEnforcement.                                                     *)
(*                                                                         *)
(* Time is a number of days.  Columns nothing in the decision reads        *)
(* (suspended_at, resumed_at, last_payment_at, override reason, the audit  *)
(* trail) are left out.                                                    *)
(***************************************************************************)
EXTENDS Integers

CONSTANTS GraceDays,         \* billing_settings.grace_period_days
          SuspendAfterDays,  \* billing_settings.suspend_after_days
          OverrideMaxDays,   \* billing_settings.manual_override_max_days
          Never              \* SQL NULL in a timestamp column

ASSUME SettingsAssumption ==
  /\ GraceDays \in Nat /\ SuspendAfterDays \in Nat /\ OverrideMaxDays \in Nat
  /\ Never \notin Int

\* "absent" stands for a tenant without a row.
Statuses == {"absent", "trial", "active", "payment_grace", "read_only", "suspended", "cancelled"}

GraceEntryStates == {"active", "trial"}          \* PAYMENT_GRACE_ENTRY_STATES
InDunning        == {"payment_grace", "read_only"}

Row == [status        : Statuses,
        graceUntil    : Nat \cup {Never},
        overrideUntil : Nat \cup {Never},        \* Never: manual_override is false
        changedAt     : Nat]                     \* status_changed_at, NOT NULL DEFAULT now()

NoRow == [status |-> "absent", graceUntil |-> Never, overrideUntil |-> Never, changedAt |-> 0]

-----------------------------------------------------------------------------
(* Reading a row.                                                          *)

\* manual_override AND manual_override_until > t
InForce(r, t) == r.overrideUntil # Never /\ r.overrideUntil > t

\* suspendAt is anchored on grace_until.
SuspendAt(r) ==
  r.graceUntil + IF SuspendAfterDays > GraceDays THEN SuspendAfterDays - GraceDays ELSE 0

\* What applyOverrideAndEscalation decides from a copy of the row at time t:
\* at most one of the three.
DueSuspensionFromReadOnly(r, t) ==        \* mutant: payment_grace is forgotten
  /\ ~InForce(r, t) /\ r.status = "read_only" /\ r.graceUntil # Never
  /\ t >= SuspendAt(r)

DueSuspension(r, t) ==
  /\ ~InForce(r, t) /\ r.status \in InDunning /\ r.graceUntil # Never
  /\ t >= SuspendAt(r)

DueReadOnly(r, t) ==
  /\ ~InForce(r, t) /\ r.status = "payment_grace" /\ r.graceUntil # Never
  /\ t > r.graceUntil /\ t < SuspendAt(r)

DueOverrideExpiry(r, t) ==
  r.overrideUntil # Never /\ ~InForce(r, t) /\ r.status \notin InDunning

\* The statement's ordering guard: an event dated before the last recorded
\* transition is refused.  created = Never is a caller that passes no date.
NotStale(r, created) ==
  created = Never \/ r.status = "absent" \/ created >= r.changedAt

-----------------------------------------------------------------------------
(* Writing a row.  ts is now() in SQL, the start of the transaction.       *)

\* auditStateChange: status_changed_at moves when the status read before the
\* write differs from the one written.
Stamped(r, before, after, ts) ==
  IF before = after THEN r ELSE [r EXCEPT !.changedAt = ts]

\* An INSERT gives a new row the column default.
OrNew(r, ts) == IF r.status = "absent" THEN [r EXCEPT !.changedAt = ts] ELSE r

\* startPaymentGrace: refused unless the row is in an entry state (or absent)
\* and the event is not stale; an override in force keeps its status.
GraceAllowedAnyStatus(r, created) == NotStale(r, created)     \* mutant: no status guard

GraceAllowed(r, created) ==
  r.status \in GraceEntryStates \cup {"absent"} /\ NotStale(r, created)

GracedOverOverride(r, day, ts) ==         \* mutant: the CASE on the override is dropped
  [OrNew(r, ts) EXCEPT !.status = "payment_grace", !.graceUntil = day + GraceDays]

Graced(r, day, ts) ==
  [OrNew(r, ts) EXCEPT !.status = IF InForce(r, ts) THEN r.status ELSE "payment_grace",
                       !.graceUntil = day + GraceDays]

\* activateTenant: clears the dunning clock and any manual override.
Activated(r, ts) ==
  [OrNew(r, ts) EXCEPT !.status = "active", !.graceUntil = Never, !.overrideUntil = Never]

\* suspendTenant and cancelTenant take the status and nothing else.
WithStatus(r, status, ts) == [OrNew(r, ts) EXCEPT !.status = status]

\* applyManualOverride: the end is capped at day + manual_override_max_days.
Capped(until, day) == IF until > day + OverrideMaxDays THEN day + OverrideMaxDays ELSE until

Overridden(r, status, until, day, ts) ==
  [OrNew(r, ts) EXCEPT !.status = status, !.overrideUntil = Capped(until, day)]

\* removeManualOverride leaves the status the override gave.
OverrideRemoved(r) == [r EXCEPT !.overrideUntil = Never]
=============================================================================
