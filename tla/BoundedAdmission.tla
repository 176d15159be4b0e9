-------------------------- MODULE BoundedAdmission --------------------------
(***************************************************************************)
(* What core/security/concurrency-limiter.ts promises its callers, stated  *)
(* without any counter: the calls inside the protected section are a set,  *)
(* the calls waiting for it a line.  ConcurrencyLimiter implements this    *)
(* specification with counters and hand-overs.                             *)
(***************************************************************************)
EXTENDS Naturals, Sequences, FiniteSets

CONSTANTS Calls,      \* the concurrent invocations of run()
          Keys,       \* tenants
          NoKey,      \* a call made without a key
          MaxActive, MaxQueued, MaxPerKey

VARIABLES phase,      \* phase[c]: where call c stands
          caller,     \* caller[c]: the key call c was last made with
          line        \* the waiting calls, first come first

vars == <<phase, caller, line>>

Refusals == {"key_limit", "queue_full"}
Outside  == {"out"} \cup Refusals

Inside       == {c \in Calls : phase[c] = "inside"}
PresentFor(k) == {c \in Calls : phase[c] \notin Outside /\ caller[c] = k}

KeyIsFull(k) == k # NoKey /\ Cardinality(PresentFor(k)) >= MaxPerKey
RoomInside   == Cardinality(Inside) < MaxActive
RoomInLine   == Len(line) < MaxQueued

Init ==
  /\ phase = [c \in Calls |-> "out"]
  /\ caller = [c \in Calls |-> NoKey]
  /\ line = <<>>

Become(c, k, p) ==
  /\ phase[c] \in Outside
  /\ phase' = [phase EXCEPT ![c] = p]
  /\ caller' = [caller EXCEPT ![c] = k]

\* A call is turned away only when its key, or the whole service, is full.
RefusedForKey(c, k)   == KeyIsFull(k) /\ Become(c, k, "key_limit") /\ UNCHANGED line
RefusedForQueue(c, k) ==
  ~KeyIsFull(k) /\ ~RoomInside /\ ~RoomInLine /\ Become(c, k, "queue_full") /\ UNCHANGED line

\* Nobody overtakes the line: a call walks in only when nobody waits.
Enter(c, k) ==
  ~KeyIsFull(k) /\ RoomInside /\ line = <<>> /\ Become(c, k, "inside") /\ UNCHANGED line

Wait(c, k) ==
  /\ ~KeyIsFull(k) /\ ~RoomInside /\ RoomInLine
  /\ Become(c, k, "waiting")
  /\ line' = Append(line, c)

\* The place of a leaving call goes to the head of the line in the same step.
Leave(c) ==
  /\ phase[c] = "inside"
  /\ UNCHANGED caller
  /\ \/ /\ line = <<>>
        /\ phase' = [phase EXCEPT ![c] = "out"]
        /\ UNCHANGED line
     \/ /\ line # <<>>
        /\ phase' = [phase EXCEPT ![c] = "out", ![Head(line)] = "inside"]
        /\ line' = Tail(line)

Next ==
  \E c \in Calls :
    \/ Leave(c)
    \/ \E k \in Keys \cup {NoKey} :
         RefusedForKey(c, k) \/ RefusedForQueue(c, k) \/ Enter(c, k) \/ Wait(c, k)

Spec == Init /\ [][Next]_vars
=============================================================================
