------------------------- MODULE ConcurrencyLimiter -------------------------
(***************************************************************************)
(* core/security/concurrency-limiter.ts: one ConcurrencyLimiter instance   *)
(* (PARSE_SLOTS of modules/reports/import/xlsx-isolated-reader.ts) and the *)
(* calls of its run() that are in progress in the process.                 *)
(*                                                                         *)
(* JavaScript runs a callback to its next await without interruption, so   *)
(* one action is one such stretch of run(): admission up to the await,     *)
(* the waiter's resumption, the two nested finally blocks.                 *)
(***************************************************************************)
EXTENDS Naturals, Sequences, FiniteSets

CONSTANTS Calls,      \* the concurrent invocations of run()
          Keys,       \* tenant keys
          NoKey,      \* run() called without a key
          MaxActive, MaxQueued, MaxPerKey   \* the ConcurrencyLimits

ASSUME CallsAssumption  == IsFiniteSet(Calls)
ASSUME KeysAssumption   == NoKey \notin Keys
ASSUME LimitsAssumption ==
  MaxActive \in Nat \ {0} /\ MaxQueued \in Nat /\ MaxPerKey \in Nat \ {0}

VARIABLES active,     \* this.active
          queue,      \* this.queue: the calls whose resolve functions it holds
          inFlight,   \* this.inFlightByKey; 0 stands for an absent entry
          pc,         \* pc[c]: where invocation c stands in run()
          key         \* key[c]: the key of the last run() of c

vars == <<active, queue, inFlight, pc, key>>

Refusals == {"key_limit", "queue_full"}
Outside  == {"idle"} \cup Refusals            \* not inside run()
Holding  == {"granted", "running"}            \* counted in active
PcValues == Outside \cup {"queued"} \cup Holding

Holders      == {c \in Calls : pc[c] \in Holding}
PresentFor(k) == {c \in Calls : pc[c] \notin Outside /\ key[c] = k}

TypeOK ==
  /\ active \in Nat
  /\ queue \in Seq(Calls)
  /\ inFlight \in [Keys -> Nat]
  /\ pc \in [Calls -> PcValues]
  /\ key \in [Calls -> Keys \cup {NoKey}]

Init ==
  /\ active = 0
  /\ queue = <<>>
  /\ inFlight = [k \in Keys |-> 0]
  /\ pc = [c \in Calls |-> "idle"]
  /\ key = [c \in Calls |-> NoKey]

-----------------------------------------------------------------------------
(* The two admission tests, in the order run() makes them.                 *)

\* Mutant of KeyFull: the bound is off by one.
KeyFullOffByOne(k) == k # NoKey /\ inFlight[k] > MaxPerKey

KeyFull(k) == k # NoKey /\ inFlight[k] >= MaxPerKey

SlotFree   == active < MaxActive
QueueFull  == Len(queue) >= MaxQueued

CountIn(k) ==
  inFlight' = IF k = NoKey THEN inFlight ELSE [inFlight EXCEPT ![k] = @ + 1]

\* Mutant of CountOut: the key's place is not released.
CountOutNever(k) == inFlight' = inFlight

\* left > 0 ? set(key, left) : delete(key), with a missing entry read as 1.
CountOut(k) ==
  inFlight' = IF k = NoKey THEN inFlight
                           ELSE [inFlight EXCEPT ![k] = IF @ > 1 THEN @ - 1 ELSE 0]

Move(c, k, p) ==
  /\ pc[c] \in Outside
  /\ pc' = [pc EXCEPT ![c] = p]
  /\ key' = [key EXCEPT ![c] = k]

RefuseKey(c, k) ==
  /\ KeyFull(k)
  /\ Move(c, k, "key_limit")
  /\ UNCHANGED <<active, queue, inFlight>>

RefuseQueue(c, k) ==
  /\ ~KeyFull(k) /\ ~SlotFree /\ QueueFull
  /\ Move(c, k, "queue_full")
  /\ UNCHANGED <<active, queue, inFlight>>

\* A free slot: the task is called in the same stretch.
Start(c, k) ==
  /\ ~KeyFull(k) /\ SlotFree
  /\ Move(c, k, "running")
  /\ CountIn(k)
  /\ active' = active + 1
  /\ UNCHANGED queue

Enqueue(c, k) ==
  /\ ~KeyFull(k) /\ ~SlotFree /\ ~QueueFull
  /\ Move(c, k, "queued")
  /\ CountIn(k)
  /\ queue' = Append(queue, c)
  /\ UNCHANGED active

Run(c, k) == RefuseKey(c, k) \/ RefuseQueue(c, k) \/ Start(c, k) \/ Enqueue(c, k)

\* A waiter's promise was resolved by the call that finished; it now calls
\* its task.  Other code may run between the two.
Resume(c) ==
  /\ pc[c] = "granted"
  /\ pc' = [pc EXCEPT ![c] = "running"]
  /\ UNCHANGED <<active, queue, inFlight, key>>

\* Mutants of HandOver: active drops although the slot was handed over; the
\* last waiter is served first.
HandOverAndRelease(c) ==
  /\ queue # <<>>
  /\ queue' = Tail(queue)
  /\ pc' = [pc EXCEPT ![c] = "idle", ![Head(queue)] = "granted"]
  /\ active' = active - 1

HandOverToLast(c) ==
  /\ queue # <<>>
  /\ queue' = SubSeq(queue, 1, Len(queue) - 1)
  /\ pc' = [pc EXCEPT ![c] = "idle", ![queue[Len(queue)]] = "granted"]
  /\ UNCHANGED active

\* The slot of the finishing call goes to the first waiter, active unchanged.
HandOver(c) ==
  /\ queue # <<>>
  /\ queue' = Tail(queue)
  /\ pc' = [pc EXCEPT ![c] = "idle", ![Head(queue)] = "granted"]
  /\ UNCHANGED active

\* Mutant of GiveBack: the slot is returned without looking at the queue.
GiveBackForgettingWaiters(c) ==
  /\ UNCHANGED queue
  /\ pc' = [pc EXCEPT ![c] = "idle"]
  /\ active' = active - 1

GiveBack(c) ==
  /\ queue = <<>>
  /\ pc' = [pc EXCEPT ![c] = "idle"]
  /\ active' = active - 1
  /\ UNCHANGED queue

\* The task settled, by value or by exception: both finally blocks run in one
\* stretch, the slot's first and then the key's.
Finish(c) ==
  /\ pc[c] = "running"
  /\ HandOver(c) \/ GiveBack(c)
  /\ CountOut(key[c])
  /\ UNCHANGED key

Next ==
  \E c \in Calls :
    \/ Resume(c)
    \/ Finish(c)
    \/ \E k \in Keys \cup {NoKey} : Run(c, k)

(* Fairness.  A resolved promise's continuation is always run by the event *)
(* loop (Resume).  A task always settles (Finish): the only task given to  *)
(* the limiter is runInDisposableWorker, which ends on the worker's reply, *)
(* on its error or at the deadline (core/security/disposable-worker.ts).   *)
(* Nothing is assumed of callers.                                          *)
Fairness == \A c \in Calls : WF_vars(Resume(c)) /\ WF_vars(Finish(c))

Spec     == Init /\ [][Next]_vars
FairSpec == Spec /\ Fairness

-----------------------------------------------------------------------------
(* Properties.                                                             *)

\* At most MaxActive tasks run at once, counting the ones whose slot was
\* handed over but that have not resumed; at most MaxQueued wait and at most
\* MaxPerKey of one key are present (the header comment of the class).
WithinLimits ==
  /\ Cardinality(Holders) <= MaxActive
  /\ Len(queue) <= MaxQueued
  /\ \A k \in Keys : Cardinality(PresentFor(k)) <= MaxPerKey

\* No slot and no per-tenant place is ever leaked or counted twice, whatever
\* the order in which tasks fail, finish and hand over.
CountersExact ==
  /\ active = Cardinality(Holders)
  /\ \A k \in Keys : inFlight[k] = Cardinality(PresentFor(k))

\* No wake-up is lost: the queue holds exactly the waiting calls, each once,
\* and a call waits only while every slot is held by somebody who will hand
\* it over.
NoLostWaiter ==
  /\ \A i \in 1..Len(queue) : pc[queue[i]] = "queued"
  /\ \A i, j \in 1..Len(queue) : i # j => queue[i] # queue[j]
  /\ \A c \in Calls : pc[c] = "queued" => \E i \in 1..Len(queue) : queue[i] = c
  /\ queue # <<>> => Cardinality(Holders) = MaxActive

\* Every admitted call gets to run its task, however many calls arrive later.
QueuedRuns == \A c \in Calls : pc[c] = "queued" ~> pc[c] = "running"

\* The limiter implements the counter-free promise: refusals only when truly
\* full, first come first served, no overtaking by a new call.
PhaseOf(p) ==
  IF p = "idle" THEN "out"
  ELSE IF p \in Refusals THEN p
  ELSE IF p = "queued" THEN "waiting"
  ELSE "inside"

phaseMap == [c \in Calls |-> PhaseOf(pc[c])]

Admission == INSTANCE BoundedAdmission WITH phase <- phaseMap, caller <- key, line <- queue

ImplementsAdmission == Admission!Spec
=============================================================================
