---------------------------- MODULE Idempotency ----------------------------
(***************************************************************************)
(* X-Idempotency-Key: IdempotencyInterceptor and IdempotencyStore          *)
(* (core/interceptors/), inside the transaction that                       *)
(* RequestTenantContextInterceptor opens around them.                      *)
(*                                                                         *)
(* Requests carry one client key.  A request looks its cache key up, marks *)
(* it, runs the handler, writes the response without awaiting it, and      *)
(* commits.  The store is one Redis shared by the replicas and, on each    *)
(* replica, a map in memory that takes over for a command that fails, or   *)
(* for good once the client has reported an error.                         *)
(***************************************************************************)
EXTENDS Naturals, FiniteSets

CONSTANTS Requests, Replicas,
          TenantOf, UserOf,    \* [Requests -> ...]: who sends the request
          Arrivals,            \* the ways to spread the requests: SUBSET [Requests -> Replicas]
          NoRequest,
          MaxFaults            \* bound: failed commands, lost Redis, crashes, failed commits

ASSUME IdempotencyAssumption ==
  /\ IsFiniteSet(Requests) /\ NoRequest \notin Requests
  /\ Arrivals \subseteq [Requests -> Replicas]
  /\ MaxFaults \in Nat

VARIABLES redis,      \* redis[k]: the entry all replicas share
          mem,        \* mem[p][k]: the entry in the memory of replica p
          client,     \* client[p]: "redis" until the client reports an error
          pc, at,     \* how far a request has got, and on which replica
          late,       \* late[r]: the write that r issued and did not await
          answer,     \* what the caller was told
          source,     \* source[r]: whose response r replayed
          succeeded,  \* requests whose handler returned
          committed,  \* requests whose transaction took effect
          gaps,       \* the ways that the key stopped protecting, so far
          faults

store == <<redis, mem, client, late>>
vars  == <<redis, mem, client, pc, at, late, answer, source, succeeded,
           committed, gaps, faults>>

-----------------------------------------------------------------------------
(* Cache keys and entries.                                                 *)

CacheKey(r) == <<TenantOf[r], UserOf[r]>>

Keys == {CacheKey(r) : r \in Requests}

\* expiresAt = -1 marks the placeholder; `by` is not stored, it is for the properties.
NoEntry        == [kind |-> "none", by |-> NoRequest]
Placeholder(r) == [kind |-> "in_flight", by |-> r]
Response(r)    == [kind |-> "response", by |-> r]

Entries == {NoEntry} \cup {Placeholder(r) : r \in Requests}
                     \cup {Response(r) : r \in Requests}

GapKinds == {"race", "expiry", "slip", "lost_redis", "crash"}
Places   == {"new", "marking", "handling", "committing", "done"}

TypeOK ==
  /\ redis \in [Keys -> Entries]
  /\ mem \in [Replicas -> [Keys -> Entries]]
  /\ client \in [Replicas -> {"redis", "memory"}]
  /\ pc \in [Requests -> Places]
  /\ at \in [Requests -> Replicas]
  /\ late \in [Requests -> {"none", "store", "erase"}]
  /\ answer \in [Requests -> {"none", "done", "error", "refused", "replayed", "lost"}]
  /\ source \in [Requests -> Requests \cup {NoRequest}]
  /\ succeeded \subseteq Requests /\ committed \subseteq succeeded
  /\ gaps \subseteq GapKinds
  /\ faults \in 0..MaxFaults
  \* a memory entry was made by a request of that replica; only a request
  \* that is past its handler has a write under way
  /\ \A p \in Replicas, k \in Keys :
       mem[p][k].by # NoRequest => at[mem[p][k].by] = p
  /\ \A r \in Requests : late[r] # "none" => pc[r] \in {"committing", "done"}

Init ==
  /\ redis = [k \in Keys |-> NoEntry]
  /\ mem = [p \in Replicas |-> [k \in Keys |-> NoEntry]]
  /\ client = [p \in Replicas |-> "redis"]
  /\ pc = [r \in Requests |-> "new"]
  /\ at \in Arrivals
  /\ late = [r \in Requests |-> "none"]
  /\ answer = [r \in Requests |-> "none"]
  /\ source = [r \in Requests |-> NoRequest]
  /\ succeeded = {} /\ committed = {} /\ gaps = {} /\ faults = 0

Goto(r, place) == pc' = [pc EXCEPT ![r] = place]
Tell(r, what)  == answer' = [answer EXCEPT ![r] = what]
Fault          == faults < MaxFaults /\ faults' = faults + 1
Note(gap)      == gaps' = gaps \cup gap

-----------------------------------------------------------------------------
(* The store.  A command that Redis fails is tried on memory instead: a    *)
(* lost connection, or a command sent before the lazily opened connection  *)
(* is ready (the offline queue is off).  Redis is not asked again.         *)

InRedis(r) == client[at[r]] = "redis"

\* The outcomes of one command of r: served where it should be, or slipped
\* to memory.
Served(r)  == UNCHANGED <<gaps, faults>>
Slipped(r) == InRedis(r) /\ Fault /\ Note({"slip"})

PutRedis(r, e)  == redis' = [redis EXCEPT ![CacheKey(r)] = e] /\ UNCHANGED mem
PutMemory(r, e) == mem' = [mem EXCEPT ![at[r]][CacheKey(r)] = e] /\ UNCHANGED redis

Put(r, e) ==
  \/ Served(r) /\ IF InRedis(r) THEN PutRedis(r, e) ELSE PutMemory(r, e)
  \/ Slipped(r) /\ PutMemory(r, e)

-----------------------------------------------------------------------------
(* The interceptor.                                                        *)

InFlightIgnored(e) == FALSE                \* mutant: the test for -1 dropped
InFlight(e)        == e.kind = "in_flight"

\* What a look-up that found e does: refuse, replay, or go on to execute.
Branch(r, e) ==
  \/ /\ InFlight(e)
     /\ Tell(r, "refused") /\ Goto(r, "done") /\ UNCHANGED source
  \/ /\ ~InFlight(e) /\ e.kind # "none"
     /\ Tell(r, "replayed") /\ Goto(r, "done")
     /\ source' = [source EXCEPT ![r] = e.by]
  \/ /\ e.kind = "none"
     /\ Goto(r, "marking") /\ UNCHANGED <<answer, source>>

\* Another request of the same key is between its look-up and its mark.
Racing(r, e) ==
  /\ e.kind = "none"
  /\ \E q \in Requests : pc[q] = "marking" /\ CacheKey(q) = CacheKey(r)

Lookup(r) ==
  /\ pc[r] = "new"
  /\ LET shared == redis[CacheKey(r)]
         own    == mem[at[r]][CacheKey(r)]
         e      == IF InRedis(r) THEN shared ELSE own
     IN \/ /\ Branch(r, e)
           /\ Note(IF Racing(r, e) THEN {"race"} ELSE {})
           /\ UNCHANGED faults
        \/ Slipped(r) /\ Branch(r, own)
  /\ UNCHANGED <<store, at, succeeded, committed>>

MarkNothing(r) == UNCHANGED <<redis, mem, gaps, faults>>   \* mutant: no placeholder
Mark(r)        == Put(r, Placeholder(r))

\* setInflight: a plain SET, whatever is there by now.
SetInflight(r) ==
  /\ pc[r] = "marking"
  /\ Mark(r)
  /\ Goto(r, "handling")
  /\ UNCHANGED <<client, at, late, answer, source, succeeded, committed>>

\* A write nobody awaits: memory is written at once, Redis later.
Issue(r, write, e) ==
  IF InRedis(r)
  THEN late' = [late EXCEPT ![r] = write] /\ UNCHANGED <<redis, mem>>
  ELSE PutMemory(r, e) /\ UNCHANGED late

HandlerReturns(r) ==
  /\ pc[r] = "handling"
  /\ Issue(r, "store", Response(r))
  /\ succeeded' = succeeded \cup {r}
  /\ Goto(r, "committing")
  /\ UNCHANGED <<client, at, answer, source, committed, gaps, faults>>

KeepOnError(r)  == UNCHANGED <<redis, mem, late>>   \* mutant: the placeholder is left
EraseOnError(r) == Issue(r, "erase", NoEntry)

CommitAnyway(r) == Goto(r, "committing")   \* mutant: the error does not reach runInTenantContext
RollBack(r)     == Goto(r, "done")

\* The handler throws: the key is freed and the transaction rolled back.
HandlerThrows(r) ==
  /\ pc[r] = "handling"
  /\ EraseOnError(r)
  /\ Tell(r, "error") /\ RollBack(r)
  /\ UNCHANGED <<client, at, source, succeeded, committed, gaps, faults>>

Commit(r) ==
  /\ pc[r] = "committing"
  /\ committed' = committed \cup {r}
  /\ Tell(r, "done") /\ Goto(r, "done")
  /\ UNCHANGED <<store, at, source, succeeded, gaps, faults>>

\* The commit fails, or its outcome does not come back.  The response is
\* stored all the same.
CommitFails(r) ==
  /\ pc[r] = "committing" /\ Fault
  /\ committed' \in {committed, committed \cup {r}}
  /\ Tell(r, "error") /\ Goto(r, "done")
  /\ UNCHANGED <<store, at, source, succeeded, gaps>>

\* The write that was not awaited takes place.
Land(r) ==
  /\ late[r] # "none"
  /\ Put(r, IF late[r] = "store" THEN Response(r) ELSE NoEntry)
  /\ late' = [late EXCEPT ![r] = "none"]
  /\ UNCHANGED <<client, pc, at, answer, source, succeeded, committed>>

-----------------------------------------------------------------------------
(* Time, and the loss of Redis or of a replica.                            *)

\* Redis drops an entry: a placeholder after 60 s, a response after TTL_MS.
\* The key then protects nothing, unless the placeholder's owner is gone.
Abandoned(e) == /\ e.kind = "in_flight"
                /\ pc[e.by] = "done" /\ late[e.by] = "none"
                /\ e.by \notin committed

EvictNothing(k) == UNCHANGED redis        \* mutant: an entry without a lifetime
Evict(k)        == redis' = [redis EXCEPT ![k] = NoEntry]

ExpireInRedis(k) ==
  /\ redis[k].kind # "none"
  /\ Evict(k)
  /\ Note(IF Abandoned(redis[k]) THEN {} ELSE {"expiry"})
  /\ UNCHANGED <<mem, client, pc, at, late, answer, source, succeeded, committed, faults>>

\* In memory only responses have a lifetime (expiresAt <= now, startMemGc).
ExpireInMemory(p, k) ==
  /\ mem[p][k].kind = "response"
  /\ mem' = [mem EXCEPT ![p][k] = NoEntry]
  /\ Note({"expiry"})
  /\ UNCHANGED <<redis, client, pc, at, late, answer, source, succeeded, committed, faults>>

\* The client reports an error: this replica uses its memory from now on.
LoseRedis(p) ==
  /\ client[p] = "redis" /\ Fault
  /\ client' = [client EXCEPT ![p] = "memory"]
  /\ Note({"lost_redis"})
  /\ UNCHANGED <<redis, mem, pc, at, late, answer, source, succeeded, committed>>

\* The replica restarts.  Its transactions are rolled back, its memory and
\* the writes it had not sent are gone.
Crash(p) ==
  LET here    == {r \in Requests : at[r] = p}
      dying   == {r \in here : pc[r] \notin {"new", "done"}}
      dropped == \/ \E r \in here : late[r] = "store"
                 \/ \E k \in Keys : mem[p][k].kind # "none"
  IN /\ Fault
     /\ mem' = [mem EXCEPT ![p] = [k \in Keys |-> NoEntry]]
     /\ client' = [client EXCEPT ![p] = "redis"]
     /\ late' = [r \in Requests |-> IF r \in here THEN "none" ELSE late[r]]
     /\ pc' = [r \in Requests |-> IF r \in dying THEN "done" ELSE pc[r]]
     /\ answer' = [r \in Requests |-> IF r \in dying THEN "lost" ELSE answer[r]]
     /\ Note(IF dropped \/ client[p] = "memory" THEN {"crash"} ELSE {})
     /\ UNCHANGED <<redis, at, source, succeeded, committed>>

-----------------------------------------------------------------------------
Step(r) == \/ Lookup(r) \/ SetInflight(r) \/ HandlerReturns(r) \/ HandlerThrows(r)
           \/ Commit(r) \/ CommitFails(r) \/ Land(r)

Next == \/ \E r \in Requests : Step(r)
        \/ \E k \in Keys : ExpireInRedis(k)
        \/ \E p \in Replicas, k \in Keys : ExpireInMemory(p, k)
        \/ \E p \in Replicas : LoseRedis(p) \/ Crash(p)

Spec == Init /\ [][Next]_vars

(* Fairness: a handler ends, an issued write is carried out, Redis expires *)
(* what has a lifetime.  Nothing makes a client send its request.          *)
Ends(r)  == SetInflight(r) \/ HandlerReturns(r) \/ HandlerThrows(r) \/ Commit(r)
FairSpec == /\ Spec
            /\ \A r \in Requests : WF_vars(Ends(r)) /\ WF_vars(Land(r))
            /\ \A k \in Keys : WF_vars(ExpireInRedis(k))

-----------------------------------------------------------------------------
(* Properties.                                                             *)

\* The effect of a key takes place once, unless one of the five named ways
\* opened: two look-ups before a mark, an expired entry, a command that fell
\* back to memory, Redis lost, a restart.  Retries, failures of the handler,
\* failed commits and writes that land late open none.
ExecutesOnce ==
  gaps = {} => \A r, q \in committed : CacheKey(r) = CacheKey(q) => r = q

\* A replayed response is one that a handler returned to this user in this
\* tenant (find-37b2adef), never the empty body of a placeholder and never
\* what an erased failure left, in spite of the writes that are not awaited
\* and of the two stores that do not agree.
ReplayIsGenuine ==
  \A r \in Requests : answer[r] = "replayed" =>
    /\ source[r] \in succeeded
    /\ TenantOf[source[r]] = TenantOf[r] /\ UserOf[source[r]] = UserOf[r]

\* No key is blocked for ever by a placeholder, on any replica, whatever
\* crashes and even when Redis is lost.  A single command that slipped can
\* leave one in memory, where it has no lifetime.
Seen(p, k) == IF client[p] = "redis" THEN redis[k] ELSE mem[p][k]
KeyFreed ==
  \A p \in Replicas, k \in Keys :
    []<>("slip" \in gaps \/ Seen(p, k).kind # "in_flight")

=============================================================================
