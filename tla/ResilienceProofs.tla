-------------------------- MODULE ResilienceProofs --------------------------
(***************************************************************************)
(* The two guards that core/ puts in front of work that can overload or    *)
(* fail: the circuit breaker, for every number of callers, every threshold *)
(* and every reset timeout, and the concurrency limiter, for every number  *)
(* of calls, keys and limits, with its refinement of BoundedAdmission.     *)
(***************************************************************************)
EXTENDS CircuitBreaker, ConcurrencyLimiter, FiniteSetTheorems, SequenceTheorems, TLAPS

-----------------------------------------------------------------------------
(* The circuit breaker.                                                    *)
(*                                                                         *)
(* The history variables streak and proven count events; the code's        *)
(* counters are reset by other events.  What relates them is that they     *)
(* agree exactly in the one state in which each is consulted.              *)

\* In CLOSED, failureCount is the current run of failures, short of the
\* threshold; in HALF_OPEN, successCount is what this trial has proven.
CountersMeanWhatTheySay ==
  /\ state = "CLOSED" => failureCount < FailureThreshold /\ streak = failureCount
  /\ state = "HALF_OPEN" => proven = successCount

BreakerInv == BreakerTypeOK /\ CountersMeanWhatTheySay

\* The inductive invariant holds at the start.
LEMMA BreakerInitInv == BreakerInit => BreakerInv
  BY BreakerAssumption DEF BreakerInit, BreakerInv, BreakerTypeOK, CountersMeanWhatTheySay

\* ... and every step keeps it.
LEMMA BreakerStepInv == BreakerInv /\ [BreakerNext]_breakerVars => BreakerInv'
<1> SUFFICES ASSUME BreakerInv, [BreakerNext]_breakerVars PROVE BreakerInv'
  OBVIOUS
<1> USE BreakerAssumption DEF BreakerInv, BreakerTypeOK, CountersMeanWhatTheySay
<1>1. CASE Tick
  BY <1>1 DEF Tick
<1>2. CASE GoDown
  BY <1>2 DEF GoDown, breaker
<1>3. CASE ComeBack
  BY <1>3 DEF ComeBack, breaker
<1>4. ASSUME NEW c \in Callers, Admit(c) PROVE BreakerInv'
  <2>1. CASE Cooled
    BY <1>4, <2>1 DEF Admit, Cooled, HalfOpen
  <2>2. CASE ~Cooled
    BY <1>4, <2>2 DEF Admit, breaker
  <2> QED
    BY <2>1, <2>2
<1>5. ASSUME NEW c \in Callers, Reject(c) PROVE BreakerInv'
  BY <1>5 DEF Reject, RejectedCall, breaker
<1>6. ASSUME NEW c \in Callers, Succeed(c) PROVE BreakerInv'
  <2>1. CASE state = "HALF_OPEN" /\ successCount + 1 >= SuccessThreshold
    BY <1>6, <2>1 DEF Succeed, OnSuccess, Close, Returned
  <2>2. CASE state = "HALF_OPEN" /\ successCount + 1 < SuccessThreshold
    BY <1>6, <2>2 DEF Succeed, OnSuccess, Returned
  <2>3. CASE state # "HALF_OPEN"
    BY <1>6, <2>3 DEF Succeed, OnSuccess, Returned
  <2> QED
    BY <2>1, <2>2, <2>3
<1>7. ASSUME NEW c \in Callers, Fail(c) PROVE BreakerInv'
  BY <1>7 DEF Fail, OnFailure, CountedFailure, Returned
<1>8. CASE UNCHANGED breakerVars
  BY <1>8 DEF breakerVars, breaker
<1> QED
  BY <1>1, <1>2, <1>3, <1>4, <1>5, <1>6, <1>7, <1>8 DEF BreakerNext

\* The inductive invariant holds throughout.
THEOREM BreakerInvariance == BreakerSpec => []BreakerInv
  BY BreakerInitInv, BreakerStepInv, PTL DEF BreakerSpec

\* The counters, the calls and the histories keep their types and bounds: in
\* particular no order of late results takes successCount to its threshold
\* without closing the breaker.
THEOREM BreakerTypeCorrect == BreakerSpec => []BreakerTypeOK
  BY BreakerInvariance, PTL DEF BreakerInv

\* A CLOSED breaker is always short of its threshold.
THEOREM ClosedIsBelow == BreakerSpec => []ClosedBelowThreshold
<1>1. BreakerInv => ClosedBelowThreshold
  BY DEF BreakerInv, CountersMeanWhatTheySay, ClosedBelowThreshold
<1> QED
  BY <1>1, BreakerInvariance, PTL

\* It trips only after FailureThreshold failures in a row: the code's counter
\* is never inflated by what happened before it closed or while it was OPEN.
THEOREM TripsOnlyAfterStreak == BreakerSpec => TripsAfterStreak
<1>1. BreakerInv /\ [BreakerNext]_breakerVars
        => [state = "CLOSED" /\ state' = "OPEN" => streak' >= FailureThreshold]_breakerVars
  <2> SUFFICES ASSUME BreakerInv, [BreakerNext]_breakerVars, state = "CLOSED", state' = "OPEN"
               PROVE  streak' >= FailureThreshold
    OBVIOUS
  <2>1. PICK c \in Callers : Fail(c)
    BY DEF BreakerNext, breakerVars, breaker, Tick, GoDown, ComeBack, Admit, Cooled, HalfOpen, Reject,
           RejectedCall, Succeed, OnSuccess, Close
  <2> QED
    BY <2>1, BreakerAssumption
       DEF Fail, OnFailure, CountedFailure, BreakerInv, BreakerTypeOK, CountersMeanWhatTheySay
<1> QED
  BY <1>1, BreakerInvariance, PTL DEF BreakerSpec, TripsAfterStreak

\* It closes only on SuccessThreshold successes since it was last OPEN.
THEOREM ClosesOnlyWhenProven == BreakerSpec => ClosesWhenProven
<1>1. BreakerInv /\ [BreakerNext]_breakerVars
        => [state # "CLOSED" /\ state' = "CLOSED" => proven' >= SuccessThreshold]_breakerVars
  <2> SUFFICES ASSUME BreakerInv, [BreakerNext]_breakerVars, state # "CLOSED", state' = "CLOSED"
               PROVE  proven' >= SuccessThreshold
    OBVIOUS
  <2>1. PICK c \in Callers : Succeed(c)
    BY DEF BreakerNext, breakerVars, breaker, Tick, GoDown, ComeBack, Admit, Cooled, HalfOpen, Reject,
           RejectedCall, Fail, OnFailure
  <2> QED
    BY <2>1, BreakerAssumption
       DEF Succeed, OnSuccess, Close, BreakerInv, BreakerTypeOK, CountersMeanWhatTheySay
<1> QED
  BY <1>1, BreakerInvariance, PTL DEF BreakerSpec, ClosesWhenProven

-----------------------------------------------------------------------------
(* The concurrency limiter.                                                *)
(*                                                                         *)
(* The limits follow from the guards only because the counters say what    *)
(* the sets say, and a hand-over keeps the counter right only because the  *)
(* queue holds waiting calls and nothing else: the inductive invariant is  *)
(* the conjunction of the three properties with the types.                 *)

IInv == TypeOK /\ WithinLimits /\ CountersExact /\ NoLostWaiter

USE DEF Refusals, Outside, Holding, PcValues

\* The sets the counters stand for are finite.
LEMMA CountedSetsFinite ==
  /\ IsFiniteSet(Holders)
  /\ \A k : IsFiniteSet(PresentFor(k))
<1>1. Holders \in SUBSET Calls /\ \A k : PresentFor(k) \in SUBSET Calls
  BY DEF Holders, PresentFor
<1> QED  BY <1>1, CallsAssumption, FS_Subset

\* The initial state satisfies the inductive invariant.
LEMMA InitInv == Init => IInv
<1> SUFFICES ASSUME Init PROVE IInv
  OBVIOUS
<1>1. TypeOK
  BY EmptySeq DEF Init, TypeOK
<1>2. Holders = {} /\ \A k : PresentFor(k) = {}
  BY DEF Init, Holders, PresentFor
<1>3. Cardinality(Holders) = 0 /\ \A k : Cardinality(PresentFor(k)) = 0
  BY <1>2, FS_EmptySet
<1>4. Len(queue) = 0
  BY EmptySeq DEF Init
<1>5. WithinLimits /\ CountersExact
  BY <1>3, <1>4, LimitsAssumption DEF Init, WithinLimits, CountersExact
<1>6. NoLostWaiter
  BY DEF Init, NoLostWaiter
<1> QED  BY <1>1, <1>5, <1>6 DEF IInv

\* What the key's count becomes when a call c of key k enters run().
LEMMA CountInExact ==
  ASSUME IInv, NEW c \in Calls, NEW k \in Keys \cup {NoKey}, NEW p \in PcValues \ Outside,
         Move(c, k, p), CountIn(k), ~KeyFull(k)
  PROVE  /\ inFlight' \in [Keys -> Nat]
         /\ \A q \in Keys : /\ inFlight'[q] = Cardinality(PresentFor(q)')
                            /\ Cardinality(PresentFor(q)') <= MaxPerKey
<1> USE DEF IInv, TypeOK, CountersExact, WithinLimits
<1>1. inFlight' \in [Keys -> Nat]
  BY DEF CountIn
<1> SUFFICES ASSUME NEW q \in Keys
             PROVE  /\ inFlight'[q] = Cardinality(PresentFor(q)')
                    /\ Cardinality(PresentFor(q)') <= MaxPerKey
  BY <1>1
<1>2. c \notin PresentFor(q)
  BY DEF PresentFor, Move
<1>3. CASE q = k
  <2>1. PresentFor(q)' = PresentFor(q) \cup {c}
    BY <1>3 DEF PresentFor, Move
  <2>2. Cardinality(PresentFor(q)') = Cardinality(PresentFor(q)) + 1
    BY <2>1, <1>2, CountedSetsFinite, FS_AddElement
  <2>3. inFlight'[q] = inFlight[q] + 1 /\ inFlight[q] < MaxPerKey
    BY <1>3, KeysAssumption, LimitsAssumption DEF CountIn, KeyFull
  <2> QED  BY <2>2, <2>3, LimitsAssumption
<1>4. CASE q # k
  <2>1. PresentFor(q)' = PresentFor(q)
    BY <1>4 DEF PresentFor, Move
  <2>2. inFlight'[q] = inFlight[q]
    BY <1>4 DEF CountIn
  <2> QED  BY <2>1, <2>2
<1> QED  BY <1>3, <1>4

\* A refusal leaves everything the invariant speaks of as it was.
LEMMA RefusalInv ==
  ASSUME IInv, NEW c \in Calls, NEW k \in Keys \cup {NoKey}, NEW p \in Refusals,
         Move(c, k, p), UNCHANGED <<active, queue, inFlight>>
  PROVE  IInv'
<1> USE DEF IInv, TypeOK
<1>1. TypeOK'
  BY DEF Move
<1>2. Holders' = Holders /\ \A q \in Keys : PresentFor(q)' = PresentFor(q)
  BY DEF Holders, PresentFor, Move
<1>3. WithinLimits' /\ CountersExact'
  BY <1>2 DEF WithinLimits, CountersExact
<1>4. NoLostWaiter'
  <2>1. \A d \in Calls : pc'[d] = "queued" <=> pc[d] = "queued"
    BY DEF Move
  <2>2. \A i \in 1..Len(queue) : queue[i] \in Calls
    BY ElementOfSeq
  <2> QED  BY <1>2, <2>1, <2>2 DEF NoLostWaiter
<1> QED  BY <1>1, <1>3, <1>4

\* A call that finds a free slot keeps the invariant.
LEMMA StartInv ==
  ASSUME IInv, NEW c \in Calls, NEW k \in Keys \cup {NoKey}, Start(c, k)
  PROVE  IInv'
<1> USE DEF IInv, TypeOK
<1>1. /\ inFlight' \in [Keys -> Nat]
      /\ \A q \in Keys : /\ inFlight'[q] = Cardinality(PresentFor(q)')
                         /\ Cardinality(PresentFor(q)') <= MaxPerKey
  BY CountInExact DEF Start
<1>2. TypeOK'
  BY <1>1 DEF Start, Move
<1>3. Cardinality(Holders') = Cardinality(Holders) + 1
  <2>1. Holders' = Holders \cup {c} /\ c \notin Holders
    BY DEF Start, Move, Holders
  <2> QED  BY <2>1, CountedSetsFinite, FS_AddElement
<1>4. WithinLimits' /\ CountersExact'
  BY <1>1, <1>3, LimitsAssumption DEF WithinLimits, CountersExact, Start, SlotFree
<1>5. NoLostWaiter'
  <2>1. queue = <<>>
    BY LimitsAssumption DEF Start, SlotFree, NoLostWaiter, CountersExact
  <2>2. queue' = <<>> /\ \A d \in Calls : pc'[d] = "queued" <=> pc[d] = "queued"
    BY <2>1 DEF Start, Move
  <2> QED  BY <2>1, <2>2 DEF NoLostWaiter
<1> QED  BY <1>2, <1>4, <1>5

\* A call that joins the queue keeps the invariant.
LEMMA EnqueueInv ==
  ASSUME IInv, NEW c \in Calls, NEW k \in Keys \cup {NoKey}, Enqueue(c, k)
  PROVE  IInv'
<1> USE DEF IInv, TypeOK
<1>1. /\ inFlight' \in [Keys -> Nat]
      /\ \A q \in Keys : /\ inFlight'[q] = Cardinality(PresentFor(q)')
                         /\ Cardinality(PresentFor(q)') <= MaxPerKey
  BY CountInExact DEF Enqueue
<1>2. /\ queue' \in Seq(Calls)
      /\ Len(queue') = Len(queue) + 1
      /\ \A i \in 1..Len(queue) : queue'[i] = queue[i]
      /\ queue'[Len(queue) + 1] = c
  BY AppendProperties DEF Enqueue
<1>3. TypeOK'
  BY <1>1, <1>2 DEF Enqueue, Move
<1>4. Holders' = Holders
  BY DEF Enqueue, Move, Holders
<1>5. Len(queue) \in Nat /\ \A i \in 1..Len(queue) : queue[i] \in Calls
  BY LenProperties, ElementOfSeq
<1>6. WithinLimits' /\ CountersExact'
  BY <1>1, <1>2, <1>4, <1>5, LimitsAssumption
     DEF WithinLimits, CountersExact, Enqueue, QueueFull
<1>7. NoLostWaiter'
  <2>1. pc[c] # "queued" /\ pc'[c] = "queued" /\ \A d \in Calls \ {c} : pc'[d] = pc[d]
    BY DEF Enqueue, Move
  <2>2. \A i \in 1..Len(queue) : queue[i] # c
    BY <2>1 DEF NoLostWaiter
  <2>3. \A i \in 1..Len(queue') : pc'[queue'[i]] = "queued"
    BY <1>2, <1>5, <2>1 DEF NoLostWaiter
  <2>4. \A i, j \in 1..Len(queue') : i # j => queue'[i] # queue'[j]
    BY <1>2, <1>5, <2>2 DEF NoLostWaiter
  <2>5. ASSUME NEW d \in Calls, pc'[d] = "queued"
        PROVE  \E i \in 1..Len(queue') : queue'[i] = d
    <3>1. CASE d = c
      <4>1. Len(queue) + 1 \in 1..Len(queue')
        BY <1>2, <1>5
      <4> QED  BY <1>2, <3>1, <4>1
    <3>2. CASE d # c
      <4>1. PICK i \in 1..Len(queue) : queue[i] = d
        BY <2>1, <2>5, <3>2 DEF NoLostWaiter
      <4>2. i \in 1..Len(queue') /\ queue'[i] = d
        BY <1>2, <1>5, <4>1
      <4> QED  BY <4>2
    <3> QED  BY <3>1, <3>2
  <2>6. Cardinality(Holders') = MaxActive
    BY <1>4, LimitsAssumption DEF Enqueue, SlotFree, CountersExact, WithinLimits
  <2> QED  BY <2>3, <2>4, <2>5, <2>6 DEF NoLostWaiter
<1> QED  BY <1>3, <1>6, <1>7

\* A waiter that resumes keeps the invariant.
LEMMA ResumeInv ==
  ASSUME IInv, NEW c \in Calls, Resume(c)
  PROVE  IInv'
<1> USE DEF IInv, TypeOK
<1>1. TypeOK'
  BY DEF Resume
<1>2. Holders' = Holders /\ \A q \in Keys : PresentFor(q)' = PresentFor(q)
  BY DEF Holders, PresentFor, Resume
<1>3. WithinLimits' /\ CountersExact'
  BY <1>2 DEF WithinLimits, CountersExact, Resume
<1>4. NoLostWaiter'
  <2>1. queue' = queue /\ \A d \in Calls : pc'[d] = "queued" <=> pc[d] = "queued"
    BY DEF Resume
  <2>2. \A i \in 1..Len(queue) : queue[i] \in Calls
    BY ElementOfSeq
  <2> QED  BY <1>2, <2>1, <2>2 DEF NoLostWaiter
<1> QED  BY <1>1, <1>3, <1>4

\* What the key's count becomes when call c leaves run().
LEMMA CountOutExact ==
  ASSUME IInv, NEW c \in Calls, pc[c] \notin Outside, CountOut(key[c]), UNCHANGED key,
         pc' \in [Calls -> PcValues], pc'[c] = "idle",
         \A d \in Calls \ {c} : pc'[d] \in Outside <=> pc[d] \in Outside
  PROVE  /\ inFlight' \in [Keys -> Nat]
         /\ \A q \in Keys : /\ inFlight'[q] = Cardinality(PresentFor(q)')
                            /\ Cardinality(PresentFor(q)') <= MaxPerKey
<1> USE DEF IInv, TypeOK, CountersExact, WithinLimits
<1>1. inFlight' \in [Keys -> Nat]
  BY DEF CountOut
<1> SUFFICES ASSUME NEW q \in Keys
             PROVE  /\ inFlight'[q] = Cardinality(PresentFor(q)')
                    /\ Cardinality(PresentFor(q)') <= MaxPerKey
  BY <1>1
<1>2. CASE q = key[c]
  <2>1. PresentFor(q)' = PresentFor(q) \ {c} /\ c \in PresentFor(q)
    BY <1>2 DEF PresentFor
  <2>2. Cardinality(PresentFor(q)') = Cardinality(PresentFor(q)) - 1
    <3>1. IsFiniteSet(PresentFor(q))
      BY CountedSetsFinite
    <3>2. Cardinality(PresentFor(q) \ {c}) = Cardinality(PresentFor(q)) - 1
      BY <2>1, <3>1, FS_RemoveElement
    <3> QED  BY <2>1, <3>2
  <2>3. Cardinality(PresentFor(q)) \in Nat /\ Cardinality(PresentFor(q)') \in Nat
    <3>1. IsFiniteSet(PresentFor(q)')
      BY <2>1, CountedSetsFinite, FS_RemoveElement
    <3> QED  BY <3>1, CountedSetsFinite, FS_CardinalityType
  <2>4. inFlight'[q] = IF inFlight[q] > 1 THEN inFlight[q] - 1 ELSE 0
    BY <1>2, KeysAssumption DEF CountOut
  <2> QED  BY <2>2, <2>3, <2>4, LimitsAssumption
<1>3. CASE q # key[c]
  <2>1. PresentFor(q)' = PresentFor(q)
    BY <1>3 DEF PresentFor
  <2>2. inFlight'[q] = inFlight[q]
    BY <1>3 DEF CountOut
  <2> QED  BY <2>1, <2>2
<1> QED  BY <1>2, <1>3

\* The end of a task that hands its slot over keeps the invariant.
LEMMA HandOverInv ==
  ASSUME IInv, NEW c \in Calls, pc[c] = "running", HandOver(c), CountOut(key[c]), UNCHANGED key
  PROVE  IInv'
<1> USE DEF IInv, TypeOK
<1> DEFINE h == Head(queue)
<1>1. /\ Len(queue) \in Nat \ {0}
      /\ h = queue[1] /\ h \in Calls
      /\ queue' \in Seq(Calls)
      /\ Len(queue') = Len(queue) - 1
      /\ \A i \in 1..Len(queue') : queue'[i] = queue[i + 1]
  BY EmptySeq, HeadTailProperties, ElementOfSeq DEF HandOver
<1>2. pc[h] = "queued" /\ h # c
  BY <1>1 DEF NoLostWaiter
<1>3. pc' = [pc EXCEPT ![c] = "idle", ![h] = "granted"]
  BY DEF HandOver
<1>4. /\ pc' \in [Calls -> PcValues]
      /\ pc'[c] = "idle" /\ pc'[h] = "granted"
      /\ \A d \in Calls \ {c, h} : pc'[d] = pc[d]
  BY <1>1, <1>2, <1>3
<1>5. /\ inFlight' \in [Keys -> Nat]
      /\ \A q \in Keys : /\ inFlight'[q] = Cardinality(PresentFor(q)')
                         /\ Cardinality(PresentFor(q)') <= MaxPerKey
  <2>1. \A d \in Calls \ {c} : pc'[d] \in Outside <=> pc[d] \in Outside
    BY <1>2, <1>4
  <2> QED  BY <1>4, <2>1, CountOutExact
<1>6. TypeOK'
  BY <1>1, <1>4, <1>5 DEF HandOver
<1>7. Cardinality(Holders') = Cardinality(Holders)
  <2>1. Holders' = (Holders \ {c}) \cup {h} /\ c \in Holders /\ h \notin Holders
    BY <1>1, <1>2, <1>4 DEF Holders
  <2>2. IsFiniteSet(Holders \ {c}) /\ Cardinality(Holders \ {c}) = Cardinality(Holders) - 1
    BY <2>1, CountedSetsFinite, FS_RemoveElement
  <2>3. Cardinality(Holders') = Cardinality(Holders) - 1 + 1
    BY <2>1, <2>2, FS_AddElement
  <2> QED  BY <2>3, CountedSetsFinite, FS_CardinalityType
<1>8. WithinLimits' /\ CountersExact'
  BY <1>1, <1>5, <1>7, LimitsAssumption DEF WithinLimits, CountersExact, HandOver
<1>9. NoLostWaiter'
  <2>1. \A i \in 2..Len(queue) : queue[i] # h /\ queue[i] # c /\ queue[i] \in Calls
    <3>1. \A i \in 1..Len(queue) : queue[i] \in Calls
      BY ElementOfSeq
    <3>2. 1 \in 1..Len(queue) /\ \A i \in 2..Len(queue) : i \in 1..Len(queue) /\ i # 1
      BY <1>1
    <3> QED  BY <1>1, <3>1, <3>2 DEF NoLostWaiter
  <2>2. \A i \in 1..Len(queue') : i + 1 \in 2..Len(queue) /\ i + 1 \in 1..Len(queue)
    BY <1>1
  <2>3. \A i \in 1..Len(queue') : pc'[queue'[i]] = "queued"
    BY <1>1, <1>4, <2>1, <2>2 DEF NoLostWaiter
  <2>4. \A i, j \in 1..Len(queue') : i # j => queue'[i] # queue'[j]
    BY <1>1, <2>2 DEF NoLostWaiter
  <2>5. ASSUME NEW d \in Calls, pc'[d] = "queued"
        PROVE  \E i \in 1..Len(queue') : queue'[i] = d
    <3>1. d # c /\ d # h /\ pc[d] = "queued"
      BY <1>4, <2>5
    <3>2. PICK i \in 1..Len(queue) : queue[i] = d
      BY <3>1 DEF NoLostWaiter
    <3>3. i # 1
      BY <1>1, <3>1, <3>2
    <3>4. i - 1 \in 1..Len(queue') /\ queue'[i - 1] = d
      BY <1>1, <3>2, <3>3
    <3> QED  BY <3>4
  <2>6. Cardinality(Holders') = MaxActive
    BY <1>7 DEF NoLostWaiter, HandOver
  <2> QED  BY <2>3, <2>4, <2>5, <2>6 DEF NoLostWaiter
<1> QED  BY <1>6, <1>8, <1>9

\* The end of a task nobody waits for keeps the invariant.
LEMMA GiveBackInv ==
  ASSUME IInv, NEW c \in Calls, pc[c] = "running", GiveBack(c), CountOut(key[c]), UNCHANGED key
  PROVE  IInv'
<1> USE DEF IInv, TypeOK
<1>1. /\ pc' \in [Calls -> PcValues]
      /\ pc'[c] = "idle"
      /\ \A d \in Calls \ {c} : pc'[d] = pc[d]
  BY DEF GiveBack
<1>2. /\ inFlight' \in [Keys -> Nat]
      /\ \A q \in Keys : /\ inFlight'[q] = Cardinality(PresentFor(q)')
                         /\ Cardinality(PresentFor(q)') <= MaxPerKey
  BY <1>1, CountOutExact
<1>3. /\ IsFiniteSet(Holders')
      /\ Cardinality(Holders') = Cardinality(Holders) - 1
  <2>1. Holders' = Holders \ {c} /\ c \in Holders
    BY <1>1 DEF Holders
  <2> QED  BY <2>1, CountedSetsFinite, FS_RemoveElement
<1>4. Cardinality(Holders') \in Nat
  BY <1>3, FS_CardinalityType
<1>5. TypeOK'
  BY <1>1, <1>2, <1>3, <1>4 DEF GiveBack, CountersExact
<1>6. WithinLimits' /\ CountersExact'
  BY <1>2, <1>3, <1>4, LimitsAssumption DEF WithinLimits, CountersExact, GiveBack
<1>7. NoLostWaiter'
  BY <1>1 DEF NoLostWaiter, GiveBack
<1> QED  BY <1>5, <1>6, <1>7

\* Every step keeps the inductive invariant.
LEMMA NextInv == IInv /\ [Next]_vars => IInv'
<1> SUFFICES ASSUME IInv, [Next]_vars PROVE IInv'
  OBVIOUS
<1>1. ASSUME NEW c \in Calls, Resume(c) PROVE IInv'
  BY <1>1, ResumeInv
<1>2. ASSUME NEW c \in Calls, Finish(c) PROVE IInv'
  BY <1>2, HandOverInv, GiveBackInv DEF Finish
<1>3. ASSUME NEW c \in Calls, NEW k \in Keys \cup {NoKey}, Run(c, k) PROVE IInv'
  <2>1. CASE RefuseKey(c, k)
    BY <2>1, RefusalInv DEF RefuseKey
  <2>2. CASE RefuseQueue(c, k)
    BY <2>2, RefusalInv DEF RefuseQueue
  <2>3. CASE Start(c, k)
    BY <2>3, StartInv
  <2>4. CASE Enqueue(c, k)
    BY <2>4, EnqueueInv
  <2> QED  BY <1>3, <2>1, <2>2, <2>3, <2>4 DEF Run
<1>4. CASE UNCHANGED vars
  BY <1>4 DEF vars, IInv, TypeOK, WithinLimits, CountersExact, NoLostWaiter, Holders, PresentFor
<1> QED  BY <1>1, <1>2, <1>3, <1>4 DEF Next

\* The inductive invariant holds in every reachable state.
THEOREM Invariance == Spec => []IInv
<1> QED  BY InitInv, NextInv, PTL DEF Spec

\* The limiter's variables always have their types.
THEOREM TypeCorrect == Spec => []TypeOK
<1>1. IInv => TypeOK
  BY DEF IInv
<1> QED  BY <1>1, Invariance, PTL

\* For every number of calls and all limits, the limiter never lets in more
\* calls, more waiters or more calls of one tenant than it was built for.
THEOREM LimitsHold == Spec => []WithinLimits
<1>1. IInv => WithinLimits
  BY DEF IInv
<1> QED  BY <1>1, Invariance, PTL

\* Slots and per-tenant places are never leaked and never counted twice.
THEOREM NothingLeaks == Spec => []CountersExact
<1>1. IInv => CountersExact
  BY DEF IInv
<1> QED  BY <1>1, Invariance, PTL

\* A queued call is always in the queue, and some slot holder will pass it on.
THEOREM WaitersKept == Spec => []NoLostWaiter
<1>1. IInv => NoLostWaiter
  BY DEF IInv
<1> QED  BY <1>1, Invariance, PTL

-----------------------------------------------------------------------------
(* Refinement of BoundedAdmission.                                         *)

\* The sets of the two specifications are the same sets, seen through the map.
LEMMA SameSets ==
  ASSUME TypeOK
  PROVE  /\ Admission!Inside = Holders
         /\ \A k : Admission!PresentFor(k) = PresentFor(k)
         /\ \A c \in Calls : phaseMap[c] \in Admission!Outside <=> pc[c] \in Outside
<1>1. \A c \in Calls :
        /\ phaseMap[c] = "inside" <=> pc[c] \in Holding
        /\ phaseMap[c] \in Admission!Outside <=> pc[c] \in Outside
  BY DEF TypeOK, phaseMap, PhaseOf, Admission!Outside, Admission!Refusals
<1> QED  BY <1>1 DEF Admission!Inside, Admission!PresentFor, Holders, PresentFor

\* The instance counts sets as this module does.
LEMMA SameCardinality == \A S : Admission!Cardinality(S) = Cardinality(S)
  BY DEF Admission!Cardinality, Cardinality

\* The guards of the two specifications agree once the counters are exact.
LEMMA SameGuards ==
  ASSUME IInv
  PROVE  /\ \A k \in Keys \cup {NoKey} : Admission!KeyIsFull(k) <=> KeyFull(k)
         /\ Admission!RoomInside <=> SlotFree
         /\ Admission!RoomInLine <=> ~QueueFull
<1>1. Len(queue) \in Nat
  BY LenProperties DEF IInv, TypeOK
<1>2. Admission!Inside = Holders /\ \A k : Admission!PresentFor(k) = PresentFor(k)
  BY SameSets DEF IInv
<1>3. \A k \in Keys \cup {NoKey} : Admission!KeyIsFull(k) <=> KeyFull(k)
  <2>1. \A k \in Keys : Admission!Cardinality(Admission!PresentFor(k)) = inFlight[k]
    BY <1>2, SameCardinality DEF IInv, CountersExact
  <2> QED  BY <2>1 DEF Admission!KeyIsFull, KeyFull
<1>4. Admission!RoomInside <=> SlotFree
  <2>1. Admission!Cardinality(Admission!Inside) = active
    BY <1>2, SameCardinality DEF IInv, CountersExact
  <2> QED  BY <2>1 DEF Admission!RoomInside, SlotFree
<1>5. Admission!RoomInLine <=> ~QueueFull
  BY <1>1, LimitsAssumption DEF Admission!RoomInLine, QueueFull
<1> QED  BY <1>3, <1>4, <1>5

\* A call that enters run() moves in the abstract specification as well.
LEMMA MoveIsBecome ==
  ASSUME TypeOK, NEW c \in Calls, NEW k \in Keys \cup {NoKey}, NEW p \in PcValues,
         Move(c, k, p)
  PROVE  Admission!Become(c, k, PhaseOf(p))
<1>1. phaseMap[c] \in Admission!Outside
  BY SameSets DEF Move
<1>2. phaseMap' = [phaseMap EXCEPT ![c] = PhaseOf(p)]
  BY DEF TypeOK, Move, phaseMap
<1> QED  BY <1>1, <1>2 DEF Move, Admission!Become

\* Every admission test has its counterpart.
LEMMA RunRefines ==
  ASSUME IInv, NEW c \in Calls, NEW k \in Keys \cup {NoKey}, Run(c, k)
  PROVE  Admission!Next
<1>1. CASE RefuseKey(c, k)
  <2>1. Admission!Become(c, k, "key_limit")
    BY <1>1, MoveIsBecome DEF RefuseKey, IInv, PhaseOf
  <2>2. Admission!RefusedForKey(c, k)
    BY <1>1, <2>1, SameGuards DEF RefuseKey, Admission!RefusedForKey
  <2> QED  BY <2>2 DEF Admission!Next
<1>2. CASE RefuseQueue(c, k)
  <2>1. Admission!Become(c, k, "queue_full")
    BY <1>2, MoveIsBecome DEF RefuseQueue, IInv, PhaseOf
  <2>2. Admission!RefusedForQueue(c, k)
    BY <1>2, <2>1, SameGuards DEF RefuseQueue, Admission!RefusedForQueue
  <2> QED  BY <2>2 DEF Admission!Next
<1>3. CASE Start(c, k)
  <2>1. Admission!Become(c, k, "inside")
    BY <1>3, MoveIsBecome DEF Start, IInv, PhaseOf
  <2>2. queue = <<>>
    BY <1>3, LimitsAssumption DEF Start, SlotFree, IInv, TypeOK, NoLostWaiter, CountersExact
  <2>3. Admission!Enter(c, k)
    BY <1>3, <2>1, <2>2, SameGuards DEF Start, Admission!Enter
  <2> QED  BY <2>3 DEF Admission!Next
<1>4. CASE Enqueue(c, k)
  <2>1. Admission!Become(c, k, "waiting")
    BY <1>4, MoveIsBecome DEF Enqueue, IInv, PhaseOf
  <2>2. Admission!Wait(c, k)
    BY <1>4, <2>1, SameGuards DEF Enqueue, Admission!Wait
  <2> QED  BY <2>2 DEF Admission!Next
<1> QED  BY <1>1, <1>2, <1>3, <1>4 DEF Run

\* A task's end is a Leave, with or without somebody taking the place.
LEMMA FinishRefines ==
  ASSUME IInv, NEW c \in Calls, Finish(c)
  PROVE  Admission!Next
<1> USE DEF IInv, TypeOK
<1>1. phaseMap[c] = "inside"
  BY DEF Finish, phaseMap, PhaseOf
<1>2. CASE HandOver(c)
  <2>1. Head(queue) \in Calls /\ queue # <<>>
    BY <1>2, HeadTailProperties DEF HandOver
  <2>2. phaseMap' = [phaseMap EXCEPT ![c] = "out", ![Head(queue)] = "inside"]
    BY <1>2, <2>1 DEF HandOver, phaseMap, PhaseOf
  <2>3. Admission!Leave(c)
    BY <1>1, <1>2, <2>1, <2>2 DEF Finish, HandOver, Admission!Leave
  <2> QED  BY <2>3 DEF Admission!Next
<1>3. CASE GiveBack(c)
  <2>1. phaseMap' = [phaseMap EXCEPT ![c] = "out"]
    BY <1>3 DEF GiveBack, phaseMap, PhaseOf
  <2>2. Admission!Leave(c)
    BY <1>1, <1>3, <2>1 DEF Finish, GiveBack, Admission!Leave
  <2> QED  BY <2>2 DEF Admission!Next
<1> QED  BY <1>2, <1>3 DEF Finish

\* A resumption is invisible: the slot changed hands when it was passed on.
LEMMA ResumeStutters ==
  ASSUME TypeOK, NEW c \in Calls, Resume(c)
  PROVE  UNCHANGED Admission!vars
<1>1. phaseMap' = phaseMap
  BY DEF TypeOK, Resume, phaseMap, PhaseOf
<1> QED  BY <1>1 DEF Resume, Admission!vars

\* The limiter, for every number of calls and all limits, is the counter-free
\* admission service: it refuses a call only when the limits are really
\* reached, serves waiters first come first served, and lets nobody overtake.
THEOREM LimiterImplementsAdmission == Spec => ImplementsAdmission
<1>1. Init => Admission!Init
  BY DEF Init, Admission!Init, phaseMap, PhaseOf
<1>2. IInv /\ [Next]_vars => [Admission!Next]_(Admission!vars)
  <2> SUFFICES ASSUME IInv, [Next]_vars PROVE [Admission!Next]_(Admission!vars)
    OBVIOUS
  <2>1. ASSUME NEW c \in Calls, Resume(c) PROVE [Admission!Next]_(Admission!vars)
    BY <2>1, ResumeStutters DEF IInv
  <2>2. ASSUME NEW c \in Calls, Finish(c) PROVE [Admission!Next]_(Admission!vars)
    BY <2>2, FinishRefines
  <2>3. ASSUME NEW c \in Calls, NEW k \in Keys \cup {NoKey}, Run(c, k)
        PROVE  [Admission!Next]_(Admission!vars)
    BY <2>3, RunRefines
  <2>4. CASE UNCHANGED vars
    BY <2>4 DEF vars, phaseMap, Admission!vars
  <2> QED  BY <2>1, <2>2, <2>3, <2>4 DEF Next
<1> QED  BY <1>1, <1>2, Invariance, PTL DEF Spec, ImplementsAdmission, Admission!Spec
=============================================================================
