--------------------------- MODULE CircuitBreaker ---------------------------
(***************************************************************************)
(* The breaker in front of an external provider                            *)
(* (core/resilience/circuit-breaker.ts, resilient-fetch.ts).               *)
(*                                                                         *)
(* execute runs to its await in one turn of the event loop (Admit or       *)
(* Reject); the call's result comes back in a later turn (Succeed, Fail),  *)
(* when the breaker may have changed state any number of times.            *)
(* resilient-fetch times every call out, so every call comes back.         *)
(***************************************************************************)
EXTENDS Integers

CONSTANTS Callers,            \* calls that can be in flight at once
          FailureThreshold,
          SuccessThreshold,
          ResetTimeout,       \* resetTimeoutMs, in clock ticks
          MaxOutages          \* bound: how often the provider goes down

ASSUME BreakerAssumption ==
  /\ FailureThreshold \in Nat \ {0} /\ SuccessThreshold \in Nat \ {0}
  /\ ResetTimeout \in Nat /\ MaxOutages \in Nat

VARIABLES state,
          failureCount,   \* up to FailureThreshold: only >= is ever asked
          successCount,
          elapsed,        \* Date.now() - openedAt while OPEN, up to ResetTimeout
          call,           \* call[c]: no call, one admitted CLOSED, or HALF_OPEN
          provider,       \* "up" or "down"
          outages,
          streak,         \* history: failures in a row while CLOSED
          proven          \* history: successes since the breaker was last OPEN

breaker     == <<state, failureCount, successCount, elapsed>>
breakerVars == <<breaker, call, provider, outages, streak, proven>>

BreakerTypeOK ==
  /\ state \in {"CLOSED", "OPEN", "HALF_OPEN"}
  /\ failureCount \in 0..FailureThreshold
  /\ successCount \in 0..(SuccessThreshold - 1)
  /\ elapsed \in 0..ResetTimeout
  /\ call \in [Callers -> {"none", "regular", "probe"}]
  /\ provider \in {"up", "down"} /\ outages \in 0..MaxOutages
  /\ streak \in 0..FailureThreshold
  /\ proven \in 0..SuccessThreshold

BreakerInit ==
  /\ state = "CLOSED" /\ failureCount = 0 /\ successCount = 0 /\ elapsed = 0
  /\ call = [c \in Callers |-> "none"]
  /\ provider = "up" /\ outages = 0
  /\ streak = 0 /\ proven = 0

-----------------------------------------------------------------------------
(* execute, up to its await.                                               *)

Cooled == state = "OPEN" /\ elapsed >= ResetTimeout

\* transitionIfNeeded
HalfOpenKeepingCount ==                   \* mutant: successCount is not reset
  state' = "HALF_OPEN" /\ UNCHANGED <<failureCount, successCount, elapsed>>

HalfOpen ==
  state' = "HALF_OPEN" /\ successCount' = 0 /\ UNCHANGED <<failureCount, elapsed>>

\* Let through: the provider is called.
Admit(c) ==
  /\ call[c] = "none"
  /\ state = "OPEN" => Cooled
  /\ IF Cooled THEN HalfOpen /\ proven' = 0 ELSE UNCHANGED <<breaker, proven>>
  /\ call' = [call EXCEPT ![c] = IF state = "CLOSED" THEN "regular" ELSE "probe"]
  /\ UNCHANGED <<provider, outages, streak>>

\* Refused while OPEN: thrown before the try, so it counts for nothing.
RejectAsFailure == elapsed' = 0 /\ UNCHANGED <<state, failureCount, successCount>>  \* mutant
RejectedCall == UNCHANGED breaker

Reject(c) ==
  /\ call[c] = "none" /\ state = "OPEN" /\ ~Cooled
  /\ RejectedCall
  /\ UNCHANGED <<call, provider, outages, streak, proven>>

-----------------------------------------------------------------------------
(* The rest of execute, once the call has come back.                       *)

CountedFailure ==
  IF failureCount < FailureThreshold THEN failureCount + 1 ELSE failureCount

CloseKeepingFailures ==                   \* mutant: failureCount is not reset
  state' = "CLOSED" /\ successCount' = 0 /\ UNCHANGED <<failureCount, elapsed>>

Close ==
  state' = "CLOSED" /\ failureCount' = 0 /\ successCount' = 0 /\ UNCHANGED elapsed

OnSuccessOnlyResets ==                    \* mutant: HALF_OPEN is not treated apart
  failureCount' = 0 /\ UNCHANGED <<state, successCount, elapsed>>

OnSuccessLate ==                          \* mutant: > for >=
  \/ /\ state = "HALF_OPEN" /\ successCount >= SuccessThreshold
     /\ Close
  \/ /\ state = "HALF_OPEN" /\ successCount < SuccessThreshold
     /\ successCount' = successCount + 1
     /\ UNCHANGED <<state, failureCount, elapsed>>
  \/ /\ state # "HALF_OPEN"
     /\ failureCount' = 0
     /\ UNCHANGED <<state, successCount, elapsed>>

OnSuccess ==
  \/ /\ state = "HALF_OPEN" /\ successCount + 1 >= SuccessThreshold
     /\ Close
  \/ /\ state = "HALF_OPEN" /\ successCount + 1 < SuccessThreshold
     /\ successCount' = successCount + 1
     /\ UNCHANGED <<state, failureCount, elapsed>>
  \/ /\ state # "HALF_OPEN"
     /\ failureCount' = 0
     /\ UNCHANGED <<state, successCount, elapsed>>

\* A late failure can trip a breaker that is already OPEN: its window restarts.
OnFailure ==
  /\ failureCount' = CountedFailure
  /\ UNCHANGED successCount
  /\ IF state = "HALF_OPEN" \/ failureCount' >= FailureThreshold
     THEN state' = "OPEN" /\ elapsed' = 0
     ELSE UNCHANGED <<state, elapsed>>

Returned(c) == call' = [call EXCEPT ![c] = "none"]

Succeed(c) ==
  /\ call[c] # "none" /\ provider = "up"
  /\ OnSuccess
  /\ Returned(c)
  /\ streak' = IF state' = "CLOSED" THEN 0 ELSE streak
  /\ proven' = IF state = "HALF_OPEN" /\ proven < SuccessThreshold THEN proven + 1 ELSE proven
  /\ UNCHANGED <<provider, outages>>

\* A network error, or resilient-fetch's abort at the timeout.
Fail(c) ==
  /\ call[c] # "none" /\ provider = "down"
  /\ OnFailure
  /\ Returned(c)
  /\ streak' = IF state = "CLOSED" /\ streak < FailureThreshold THEN streak + 1 ELSE streak
  /\ UNCHANGED <<provider, outages, proven>>

-----------------------------------------------------------------------------
(* The clock, of which only the time since the breaker opened is read, and  *)
(* the provider.                                                            *)

Tick ==
  /\ state = "OPEN" /\ elapsed < ResetTimeout
  /\ elapsed' = elapsed + 1
  /\ UNCHANGED <<state, failureCount, successCount, call, provider, outages, streak, proven>>

GoDown ==
  /\ provider = "up" /\ outages < MaxOutages
  /\ provider' = "down" /\ outages' = outages + 1
  /\ UNCHANGED <<breaker, call, streak, proven>>

ComeBack ==
  /\ provider = "down" /\ provider' = "up"
  /\ UNCHANGED <<breaker, call, outages, streak, proven>>

BreakerNext ==
  \/ Tick \/ GoDown \/ ComeBack
  \/ \E c \in Callers : Admit(c) \/ Reject(c) \/ Succeed(c) \/ Fail(c)

BreakerSpec == BreakerInit /\ [][BreakerNext]_breakerVars

(* Fairness.  The clock advances; a call in flight comes back, by its own   *)
(* timeout if need be; and some caller keeps asking: the breaker has no     *)
(* timer, it leaves OPEN only when it is called.                            *)
Settle(c) == Succeed(c) \/ Fail(c)

FairBreakerSpec ==
  /\ BreakerSpec
  /\ WF_breakerVars(Tick)
  /\ \A c \in Callers : WF_breakerVars(Settle(c)) /\ WF_breakerVars(Admit(c))

-----------------------------------------------------------------------------
(* Properties.                                                             *)

\* A CLOSED breaker is always short of its threshold: no order of late
\* results leaves one that should have tripped letting calls through.
ClosedBelowThreshold == state = "CLOSED" => failureCount < FailureThreshold

\* "consecutive failures to trip the breaker": a CLOSED breaker trips only
\* after FailureThreshold failures with no success between them, counted from
\* the moment it closed, whatever was counted before or while it was OPEN.
TripsAfterStreak ==
  [][state = "CLOSED" /\ state' = "OPEN" => streak' >= FailureThreshold]_breakerVars

\* It closes only on SuccessThreshold successes since it was last OPEN: what
\* succeeded in an earlier trial that failed does not count.
ClosesWhenProven ==
  [][state # "CLOSED" /\ state' = "CLOSED" => proven' >= SuccessThreshold]_breakerVars

\* Asked often enough, an OPEN breaker tries the provider again, even if calls
\* from before it opened go on failing.
OpenIsTried == state = "OPEN" ~> state = "HALF_OPEN"

\* Once the provider is back for good, so is the integration.
Recovers == <>[](provider = "up") => <>[](state = "CLOSED")

=============================================================================
