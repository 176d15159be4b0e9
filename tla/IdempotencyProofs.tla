------------------------- MODULE IdempotencyProofs -------------------------
(***************************************************************************)
(* What an idempotency key promises, for any requests, replicas, tenants,  *)
(* users and number of faults: a replay is a response that a handler gave  *)
(* to the same user of the same tenant, and while none of the five ways    *)
(* has opened in which a key stops protecting, its effect happens once.    *)
(***************************************************************************)
EXTENDS Idempotency, TLAPS

\* Every response that is stored or about to be stored was returned by a
\* handler, under the key where it is found.
Genuine(e, k) == e.kind = "response" => e.by \in succeeded /\ CacheKey(e.by) = k

StoresGenuine ==
  \A k \in Keys : /\ Genuine(redis[k], k)
                  /\ \A p \in Replicas : Genuine(mem[p][k], k)

ReturnedInv == \A r \in Requests :
  pc[r] = "committing" \/ late[r] = "store" => r \in succeeded

ReplayInv == \A r \in Requests : answer[r] = "replayed" =>
               source[r] \in succeeded /\ CacheKey(source[r]) = CacheKey(r)

\* The requests that the entry of a key has to stand for: running, done, or
\* with a write to the entry that is still under way.
Holds(r) ==
  pc[r] \in {"handling", "committing"} \/ late[r] # "none" \/ r \in committed

\* The shared store is the only one that is used,
RedisAlone == /\ \A p \in Replicas : client[p] = "redis"
              /\ \A p \in Replicas, k \in Keys : mem[p][k] = NoEntry

\* a key is held by one request at most, the one its entry names,
HolderNamed == \A r \in Requests : Holds(r) => redis[CacheKey(r)].by = r

\* a request that is about to mark a key is alone there and finds it free,
MarkerAlone == \A r \in Requests : pc[r] = "marking" =>
  /\ redis[CacheKey(r)] = NoEntry
  /\ \A q \in Requests : pc[q] = "marking" /\ CacheKey(q) = CacheKey(r) => q = r

\* and only a request that failed erases its entry.
EraserFailed == \A r \in Requests : late[r] = "erase" => pc[r] = "done" /\ r \notin committed

\* All of this holds while no way has opened in which a key stops protecting.
Protected == RedisAlone /\ HolderNamed /\ MarkerAlone /\ EraserFailed

CommittedDone == \A r \in committed : pc[r] = "done"

IInv == /\ TypeOK /\ StoresGenuine /\ ReturnedInv /\ ReplayInv /\ CommittedDone
        /\ gaps = {} => Protected

-----------------------------------------------------------------------------
(* Keys, entries and the one way to write them.                            *)

LEMMA KeyOfRequest == \A r \in Requests : CacheKey(r) \in Keys
BY DEF Keys

LEMMA EntryKinds ==
  /\ NoEntry \in Entries /\ NoEntry.kind = "none" /\ NoEntry.by = NoRequest
  /\ \A r \in Requests :
       /\ Placeholder(r) \in Entries /\ Placeholder(r).kind = "in_flight" /\ Placeholder(r).by = r
       /\ Response(r) \in Entries /\ Response(r).kind = "response" /\ Response(r).by = r
  /\ \A e \in Entries : /\ e.kind \in {"none", "in_flight", "response"}
                        /\ e.kind = "none" => e = NoEntry
                        /\ e.kind # "none" => e.by \in Requests
                        /\ e.by \in Requests \cup {NoRequest}
<1>1. /\ NoEntry \in Entries /\ NoEntry.kind = "none" /\ NoEntry.by = NoRequest
      /\ \A r \in Requests : Placeholder(r) \in Entries /\ Response(r) \in Entries
  BY DEF Entries, NoEntry
<1>2. ASSUME NEW r \in Requests
      PROVE  /\ Placeholder(r).kind = "in_flight" /\ Placeholder(r).by = r
             /\ Response(r).kind = "response" /\ Response(r).by = r
  BY DEF Placeholder, Response
<1>3. ASSUME NEW e \in Entries
      PROVE  /\ e.kind \in {"none", "in_flight", "response"}
             /\ e.kind = "none" => e = NoEntry
             /\ e.kind # "none" => e.by \in Requests
             /\ e.by \in Requests \cup {NoRequest}
  <2>1. CASE e = NoEntry
    BY <2>1, <1>1
  <2>2. ASSUME NEW r \in Requests, e = Placeholder(r) \/ e = Response(r)
        PROVE  e.kind \in {"in_flight", "response"} /\ e.by = r
    BY <2>2, <1>2
  <2>3. e = NoEntry \/ \E r \in Requests : e = Placeholder(r) \/ e = Response(r)
    BY DEF Entries
  <2>. QED  BY <2>1, <2>2, <2>3
<1>. QED  BY <1>1, <1>2, <1>3

\* A fault is counted, a gap is noted.
LEMMA FaultCounted ==
  ASSUME TypeOK, Fault  PROVE faults' \in 0..MaxFaults
BY IdempotencyAssumption DEF TypeOK, Fault

\* A write of r to the entry of its key ends in one of the two stores.
LEMMA PutWrites ==
  ASSUME TypeOK, NEW r \in Requests, NEW e \in Entries, Put(r, e)
  PROVE  /\ \/ redis' = [redis EXCEPT ![CacheKey(r)] = e] /\ mem' = mem
            \/ redis' = redis /\ mem' = [mem EXCEPT ![at[r]][CacheKey(r)] = e]
         /\ faults' \in 0..MaxFaults
         /\ gaps \subseteq gaps' /\ gaps' \subseteq GapKinds
BY FaultCounted DEF Put, Served, Slipped, PutRedis, PutMemory, Note, TypeOK, GapKinds

\* With no way opened, it ends in Redis.
LEMMA PutWritesShared ==
  ASSUME TypeOK, NEW r \in Requests, NEW e \in Entries, Put(r, e),
         \A p \in Replicas : client[p] = "redis", gaps' = {}
  PROVE  redis' = [redis EXCEPT ![CacheKey(r)] = e] /\ mem' = mem
<1>1. at[r] \in Replicas
  BY DEF TypeOK
<1>2. ~Slipped(r)
  BY DEF Slipped, Note
<1>. QED  BY <1>1, <1>2 DEF Put, PutRedis, InRedis

\* What the stores are after a write.
LEMMA StoreTypes ==
  ASSUME TypeOK, NEW r \in Requests, NEW e \in Entries, e.by \in {r, NoRequest}, at' = at,
         \/ redis' = [redis EXCEPT ![CacheKey(r)] = e] /\ mem' = mem
         \/ redis' = redis /\ mem' = [mem EXCEPT ![at[r]][CacheKey(r)] = e]
  PROVE  /\ redis' \in [Keys -> Entries]
         /\ mem' \in [Replicas -> [Keys -> Entries]]
         /\ \A p \in Replicas, k \in Keys :
              mem'[p][k].by # NoRequest => at'[mem'[p][k].by] = p
<1>1. at[r] \in Replicas /\ CacheKey(r) \in Keys
  BY KeyOfRequest DEF TypeOK
<1>2. CASE redis' = [redis EXCEPT ![CacheKey(r)] = e] /\ mem' = mem
  BY <1>1, <1>2 DEF TypeOK
<1>3. CASE redis' = redis /\ mem' = [mem EXCEPT ![at[r]][CacheKey(r)] = e]
  <2>1. mem' \in [Replicas -> [Keys -> Entries]]
    BY <1>1, <1>3 DEF TypeOK
  <2>2. ASSUME NEW p \in Replicas, NEW k \in Keys, mem'[p][k].by # NoRequest
        PROVE  at'[mem'[p][k].by] = p
    <3>1. CASE p = at[r] /\ k = CacheKey(r)
      <4>1. mem'[p][k] = e
        BY <1>1, <1>3, <3>1 DEF TypeOK
      <4>. QED  BY <2>2, <3>1, <4>1
    <3>2. CASE ~(p = at[r] /\ k = CacheKey(r))
      <4>1. mem'[p][k] = mem[p][k]
        BY <1>1, <1>3, <3>2 DEF TypeOK
      <4>. QED  BY <2>2, <4>1 DEF TypeOK
    <3>. QED  BY <3>1, <3>2
  <2>. QED  BY <1>3, <2>1, <2>2 DEF TypeOK
<1>. QED  BY <1>2, <1>3

\* A write that is not awaited: at once in memory, or still to come.
LEMMA IssueWrites ==
  ASSUME TypeOK, NEW r \in Requests, NEW e \in Entries, NEW write \in {"store", "erase"},
         Issue(r, write, e)
  PROVE  \/ late' = [late EXCEPT ![r] = write] /\ redis' = redis /\ mem' = mem
         \/ /\ late' = late /\ redis' = redis
            /\ mem' = [mem EXCEPT ![at[r]][CacheKey(r)] = e]
BY DEF Issue, PutMemory

-----------------------------------------------------------------------------
(* The types.                                                              *)

LEMMA InitTypes == Init => TypeOK
<1>. SUFFICES ASSUME Init  PROVE TypeOK
  OBVIOUS
<1>1. faults \in 0..MaxFaults /\ at \in [Requests -> Replicas]
  BY IdempotencyAssumption DEF Init
<1>2. redis \in [Keys -> Entries] /\ mem \in [Replicas -> [Keys -> Entries]]
  BY EntryKinds DEF Init
<1>3. /\ pc \in [Requests -> Places] /\ late \in [Requests -> {"none", "store", "erase"}]
      /\ answer \in [Requests -> {"none", "done", "error", "refused", "replayed", "lost"}]
      /\ source \in [Requests -> Requests \cup {NoRequest}]
      /\ client \in [Replicas -> {"redis", "memory"}]
  BY DEF Init, Places
<1>4. \A p \in Replicas, k \in Keys : mem[p][k].by = NoRequest
  BY EntryKinds DEF Init
<1>5. \A r \in Requests : late[r] = "none"
  BY DEF Init
<1>6. gaps \subseteq GapKinds /\ succeeded \subseteq Requests /\ committed \subseteq succeeded
  BY DEF Init
<1>. QED  BY <1>1, <1>2, <1>3, <1>4, <1>5, <1>6 DEF TypeOK

LEMMA LookupTypes ==
  ASSUME TypeOK, NEW r \in Requests, Lookup(r)  PROVE TypeOK'
<1>1. at[r] \in Replicas /\ CacheKey(r) \in Keys
  BY KeyOfRequest DEF TypeOK
<1>2. redis[CacheKey(r)] \in Entries /\ mem[at[r]][CacheKey(r)] \in Entries
  BY <1>1 DEF TypeOK
<1>3. \E e \in Entries : Branch(r, e)
  BY <1>2 DEF Lookup
<1>4. PICK e \in Entries : Branch(r, e)
  BY <1>3
<1>5. pc' \in [Requests -> Places] /\ \A q \in Requests \ {r} : pc'[q] = pc[q]
  <2>1. \E place \in Places : pc' = [pc EXCEPT ![r] = place]
    BY <1>4 DEF Branch, Goto, Places
  <2>. QED  BY <2>1 DEF TypeOK
<1>6. answer' \in [Requests -> {"none", "done", "error", "refused", "replayed", "lost"}]
  BY <1>4 DEF Branch, Tell, TypeOK
<1>7. source' \in [Requests -> Requests \cup {NoRequest}]
  <2>1. e.kind # "none" => e.by \in Requests
    BY EntryKinds
  <2>. QED  BY <1>4, <2>1 DEF Branch, TypeOK
<1>8. faults' \in 0..MaxFaults /\ gaps' \subseteq GapKinds
  BY FaultCounted DEF Lookup, Slipped, Note, TypeOK, GapKinds
<1>9. late[r] = "none"
  BY DEF Lookup, TypeOK
<1>. QED  BY <1>5, <1>6, <1>7, <1>8, <1>9 DEF Lookup, store, TypeOK

LEMMA StepTypes ==
  ASSUME TypeOK, ReturnedInv, NEW r \in Requests, Step(r)  PROVE TypeOK'
<1>1. CASE Lookup(r)
  BY <1>1, LookupTypes
<1>2. CASE SetInflight(r)
  <2>1. Put(r, Placeholder(r)) /\ at' = at
    BY <1>2 DEF SetInflight, Mark
  <2>2. /\ redis' \in [Keys -> Entries] /\ mem' \in [Replicas -> [Keys -> Entries]]
        /\ \A p \in Replicas, k \in Keys :
             mem'[p][k].by # NoRequest => at'[mem'[p][k].by] = p
        /\ faults' \in 0..MaxFaults /\ gaps' \subseteq GapKinds
    <3>. DEFINE e == Placeholder(r)
    <3>1. e \in Entries /\ e.by = r /\ Put(r, e)
      BY <2>1, EntryKinds
    <3>. HIDE DEF e
    <3>. QED  BY <2>1, <3>1, PutWrites, StoreTypes
  <2>3. /\ pc' \in [Requests -> Places]
        /\ \A q \in Requests : late[q] # "none" => pc'[q] = pc[q]
    BY <1>2 DEF SetInflight, Goto, TypeOK, Places
  <2>. QED  BY <1>2, <2>2, <2>3 DEF SetInflight, TypeOK
<1>3. CASE HandlerReturns(r)
  <2>1. /\ redis' \in [Keys -> Entries] /\ mem' \in [Replicas -> [Keys -> Entries]]
        /\ \A p \in Replicas, k \in Keys :
             mem'[p][k].by # NoRequest => at'[mem'[p][k].by] = p
    <3>1. Issue(r, "store", Response(r)) /\ at' = at
      BY <1>3 DEF HandlerReturns
    <3>2. CASE redis' = redis /\ mem' = mem
      BY <3>1, <3>2 DEF TypeOK
    <3>3. CASE redis' = redis /\ mem' = [mem EXCEPT ![at[r]][CacheKey(r)] = Response(r)]
      BY <3>1, <3>3, StoreTypes, EntryKinds
    <3>. QED  BY <3>1, <3>2, <3>3, IssueWrites, EntryKinds
  <2>2. late' \in [Requests -> {"none", "store", "erase"}]
        /\ \A q \in Requests \ {r} : late'[q] = late[q]
    BY <1>3 DEF HandlerReturns, Issue, TypeOK
  <2>3. /\ pc' \in [Requests -> Places] /\ pc'[r] = "committing"
        /\ \A q \in Requests \ {r} : pc'[q] = pc[q]
    BY <1>3 DEF HandlerReturns, Goto, TypeOK, Places
  <2>. QED  BY <1>3, <2>1, <2>2, <2>3 DEF HandlerReturns, TypeOK
<1>4. CASE HandlerThrows(r)
  <2>1. /\ redis' \in [Keys -> Entries] /\ mem' \in [Replicas -> [Keys -> Entries]]
        /\ \A p \in Replicas, k \in Keys :
             mem'[p][k].by # NoRequest => at'[mem'[p][k].by] = p
    <3>1. Issue(r, "erase", NoEntry) /\ at' = at
      BY <1>4 DEF HandlerThrows, EraseOnError
    <3>2. CASE redis' = redis /\ mem' = mem
      BY <3>1, <3>2 DEF TypeOK
    <3>3. CASE redis' = redis /\ mem' = [mem EXCEPT ![at[r]][CacheKey(r)] = NoEntry]
      BY <3>1, <3>3, StoreTypes, EntryKinds
    <3>. QED  BY <3>1, <3>2, <3>3, IssueWrites, EntryKinds
  <2>2. late' \in [Requests -> {"none", "store", "erase"}]
        /\ \A q \in Requests \ {r} : late'[q] = late[q]
    BY <1>4 DEF HandlerThrows, EraseOnError, Issue, TypeOK
  <2>3. /\ pc' \in [Requests -> Places] /\ pc'[r] = "done"
        /\ \A q \in Requests \ {r} : pc'[q] = pc[q]
        /\ answer' \in [Requests -> {"none", "done", "error", "refused", "replayed", "lost"}]
    BY <1>4 DEF HandlerThrows, RollBack, Goto, Tell, TypeOK, Places
  <2>. QED  BY <1>4, <2>1, <2>2, <2>3 DEF HandlerThrows, TypeOK
<1>6. CASE Land(r)
  <2>1. PICK e \in Entries : Put(r, e) /\ e.by \in {r, NoRequest}
    BY <1>6, EntryKinds DEF Land
  <2>2. /\ redis' \in [Keys -> Entries] /\ mem' \in [Replicas -> [Keys -> Entries]]
        /\ \A p \in Replicas, k \in Keys :
             mem'[p][k].by # NoRequest => at'[mem'[p][k].by] = p
        /\ faults' \in 0..MaxFaults /\ gaps' \subseteq GapKinds
    BY <1>6, <2>1, PutWrites, StoreTypes DEF Land
  <2>3. /\ late' \in [Requests -> {"none", "store", "erase"}]
        /\ \A q \in Requests : late'[q] # "none" => late[q] # "none"
    BY <1>6 DEF Land, TypeOK
  <2>. QED  BY <1>6, <2>2, <2>3 DEF Land, TypeOK
<1>7. CASE Commit(r) \/ CommitFails(r)
  <2>1. faults' \in 0..MaxFaults
    BY <1>7, FaultCounted DEF Commit, CommitFails, TypeOK
  <2>2. /\ pc' \in [Requests -> Places]
        /\ \A q \in Requests : late[q] # "none" => pc'[q] \in {"committing", "done"}
        /\ answer' \in [Requests -> {"none", "done", "error", "refused", "replayed", "lost"}]
    BY <1>7 DEF Commit, CommitFails, Goto, Tell, TypeOK, Places
  <2>3. committed' \subseteq succeeded
    BY <1>7 DEF Commit, CommitFails, ReturnedInv, TypeOK
  <2>. QED  BY <1>7, <2>1, <2>2, <2>3 DEF Commit, CommitFails, store, TypeOK
<1>. QED  BY <1>1, <1>2, <1>3, <1>4, <1>6, <1>7 DEF Step

LEMMA EnvironmentTypes ==
  ASSUME TypeOK,
         \/ \E k \in Keys : ExpireInRedis(k)
         \/ \E p \in Replicas, k \in Keys : ExpireInMemory(p, k)
         \/ \E p \in Replicas : LoseRedis(p) \/ Crash(p)
  PROVE  TypeOK'
<1>1. CASE \E k \in Keys : ExpireInRedis(k)
  <2>1. redis' \in [Keys -> Entries]
    BY <1>1, EntryKinds DEF ExpireInRedis, Evict, TypeOK
  <2>2. gaps' \subseteq GapKinds
    BY <1>1 DEF ExpireInRedis, Note, TypeOK, GapKinds
  <2>. QED  BY <1>1, <2>1, <2>2 DEF ExpireInRedis, TypeOK
<1>2. CASE \E p \in Replicas, k \in Keys : ExpireInMemory(p, k)
  <2>1. PICK p \in Replicas, k \in Keys : ExpireInMemory(p, k)
    BY <1>2
  <2>2. mem' \in [Replicas -> [Keys -> Entries]]
    BY <2>1, EntryKinds DEF ExpireInMemory, TypeOK
  <2>3. \A p2 \in Replicas, k2 \in Keys : mem'[p2][k2] \in {mem[p2][k2], NoEntry}
    BY <2>1 DEF ExpireInMemory, TypeOK
  <2>4. gaps' \subseteq GapKinds
    BY <2>1 DEF ExpireInMemory, Note, TypeOK, GapKinds
  <2>. QED  BY <2>1, <2>2, <2>3, <2>4, EntryKinds DEF ExpireInMemory, TypeOK
<1>3. CASE \E p \in Replicas : LoseRedis(p)
  <2>1. client' \in [Replicas -> {"redis", "memory"}] /\ gaps' \subseteq GapKinds
    BY <1>3 DEF LoseRedis, Note, TypeOK, GapKinds
  <2>. QED  BY <1>3, <2>1, FaultCounted DEF LoseRedis, TypeOK
<1>4. CASE \E p \in Replicas : Crash(p)
  <2>1. PICK p \in Replicas : Crash(p)
    BY <1>4
  <2>2. /\ mem' \in [Replicas -> [Keys -> Entries]]
        /\ \A p2 \in Replicas, k \in Keys : mem'[p2][k] \in {mem[p2][k], NoEntry}
    BY <2>1, EntryKinds DEF Crash, TypeOK
  <2>3. client' \in [Replicas -> {"redis", "memory"}] /\ gaps' \subseteq GapKinds
    BY <2>1 DEF Crash, Note, TypeOK, GapKinds
  <2>4. /\ pc' \in [Requests -> Places]
        /\ \A r \in Requests : pc[r] = "done" => pc'[r] = "done"
    BY <2>1 DEF Crash, TypeOK, Places
  <2>5. answer' \in [Requests -> {"none", "done", "error", "refused", "replayed", "lost"}]
    BY <2>1 DEF Crash, TypeOK
  <2>6. /\ late' \in [Requests -> {"none", "store", "erase"}]
        /\ \A r \in Requests : late'[r] # "none" => late[r] # "none" /\ pc'[r] = pc[r]
    BY <2>1 DEF Crash, TypeOK
  <2>. QED
    BY <2>1, <2>2, <2>3, <2>4, <2>5, <2>6, FaultCounted, EntryKinds DEF Crash, TypeOK
<1>. QED  BY <1>1, <1>2, <1>3, <1>4

-----------------------------------------------------------------------------
(* What is stored and replayed is genuine.                                 *)

\* A write keeps the stores genuine if what it writes is nothing, a
\* placeholder, or the response of a handler that has returned.
LEMMA WriteGenuine ==
  ASSUME TypeOK, StoresGenuine, NEW r \in Requests, NEW e \in Entries,
         e.kind = "response" => e.by = r /\ r \in succeeded',
         succeeded \subseteq succeeded',
         \/ redis' = redis /\ mem' = mem
         \/ redis' = [redis EXCEPT ![CacheKey(r)] = e] /\ mem' = mem
         \/ redis' = redis /\ mem' = [mem EXCEPT ![at[r]][CacheKey(r)] = e]
  PROVE  StoresGenuine'
<1>. SUFFICES ASSUME NEW k \in Keys
              PROVE  /\ Genuine(redis[k], k)'
                     /\ \A p \in Replicas : Genuine(mem[p][k], k)'
  BY DEF StoresGenuine
<1>1. at[r] \in Replicas /\ CacheKey(r) \in Keys
  BY KeyOfRequest DEF TypeOK
<1>2. redis'[k] = redis[k] \/ (redis'[k] = e /\ k = CacheKey(r))
  BY <1>1 DEF TypeOK
<1>3. ASSUME NEW p \in Replicas
      PROVE  mem'[p][k] = mem[p][k] \/ (mem'[p][k] = e /\ k = CacheKey(r))
  BY <1>1 DEF TypeOK
<1>. QED  BY <1>2, <1>3 DEF StoresGenuine, Genuine

LEMMA StepGenuine ==
  ASSUME TypeOK, StoresGenuine, ReturnedInv, NEW r \in Requests, Step(r)
  PROVE  StoresGenuine' /\ ReturnedInv'
<1>1. CASE Lookup(r)
  <2>1. StoresGenuine'
    BY <1>1 DEF Lookup, store, StoresGenuine, Genuine
  <2>2. pc'[r] # "committing" /\ \A q \in Requests \ {r} : pc'[q] = pc[q]
    BY <1>1 DEF Lookup, Branch, Goto, TypeOK
  <2>. QED  BY <1>1, <2>1, <2>2 DEF Lookup, store, ReturnedInv
<1>2. CASE SetInflight(r)
  <2>. DEFINE e == Placeholder(r)
  <2>1. e \in Entries /\ e.kind = "in_flight" /\ Put(r, e)
    BY <1>2, EntryKinds DEF SetInflight, Mark
  <2>2. pc'[r] # "committing" /\ \A q \in Requests \ {r} : pc'[q] = pc[q]
    BY <1>2 DEF SetInflight, Goto, TypeOK
  <2>3. succeeded' = succeeded /\ late' = late
    BY <1>2 DEF SetInflight
  <2>. HIDE DEF e
  <2>4. StoresGenuine'
    BY <2>1, <2>3, PutWrites, WriteGenuine
  <2>. QED  BY <2>2, <2>3, <2>4 DEF ReturnedInv
<1>3. CASE HandlerReturns(r)
  <2>. DEFINE e == Response(r)
  <2>1. e \in Entries /\ e.by = r /\ Issue(r, "store", e)
    BY <1>3, EntryKinds DEF HandlerReturns
  <2>2. succeeded' = succeeded \cup {r}
    BY <1>3 DEF HandlerReturns
  <2>3. \A q \in Requests \ {r} : pc'[q] = pc[q] /\ late'[q] = late[q]
    BY <1>3 DEF HandlerReturns, Goto, Issue, TypeOK
  <2>. HIDE DEF e
  <2>4. StoresGenuine'
    BY <2>1, <2>2, IssueWrites, WriteGenuine
  <2>. QED  BY <2>2, <2>3, <2>4 DEF ReturnedInv
<1>4. CASE HandlerThrows(r)
  <2>. DEFINE e == NoEntry
  <2>1. e \in Entries /\ e.kind = "none" /\ Issue(r, "erase", e)
    BY <1>4, EntryKinds DEF HandlerThrows, EraseOnError
  <2>2. succeeded' = succeeded
    BY <1>4 DEF HandlerThrows
  <2>3. /\ \A q \in Requests \ {r} : pc'[q] = pc[q] /\ late'[q] = late[q]
        /\ pc'[r] # "committing" /\ late'[r] \in {"erase", late[r]}
    BY <1>4 DEF HandlerThrows, EraseOnError, RollBack, Goto, Issue, TypeOK
  <2>. HIDE DEF e
  <2>4. StoresGenuine'
    BY <2>1, <2>2, IssueWrites, WriteGenuine
  <2>. QED  BY <2>2, <2>3, <2>4 DEF ReturnedInv
<1>5. CASE Commit(r) \/ CommitFails(r)
  <2>1. pc'[r] # "committing" /\ \A q \in Requests \ {r} : pc'[q] = pc[q]
    BY <1>5 DEF Commit, CommitFails, Goto, TypeOK
  <2>2. StoresGenuine'
    BY <1>5 DEF Commit, CommitFails, store, StoresGenuine, Genuine
  <2>. QED  BY <1>5, <2>1, <2>2 DEF Commit, CommitFails, store, ReturnedInv
<1>6. CASE Land(r)
  <2>. DEFINE e == IF late[r] = "store" THEN Response(r) ELSE NoEntry
  <2>1. e \in Entries /\ (e.kind = "response" => e.by = r /\ late[r] = "store") /\ Put(r, e)
    BY <1>6, EntryKinds DEF Land
  <2>2. succeeded' = succeeded /\ pc' = pc
    BY <1>6 DEF Land
  <2>3. late'[r] = "none" /\ \A q \in Requests \ {r} : late'[q] = late[q]
    BY <1>6 DEF Land, TypeOK
  <2>. HIDE DEF e
  <2>4. StoresGenuine'
    BY <2>1, <2>2, PutWrites, WriteGenuine DEF ReturnedInv
  <2>. QED  BY <2>2, <2>3, <2>4 DEF ReturnedInv
<1>. QED  BY <1>1, <1>2, <1>3, <1>4, <1>5, <1>6 DEF Step

\* What expires, is lost or crashes only removes entries.
LEMMA EnvironmentGenuine ==
  ASSUME TypeOK, StoresGenuine, ReturnedInv,
         \/ \E k \in Keys : ExpireInRedis(k)
         \/ \E p \in Replicas, k \in Keys : ExpireInMemory(p, k)
         \/ \E p \in Replicas : LoseRedis(p) \/ Crash(p)
  PROVE  StoresGenuine' /\ ReturnedInv'
<1>1. succeeded' = succeeded
  BY DEF ExpireInRedis, ExpireInMemory, LoseRedis, Crash
<1>2. \A k \in Keys : redis'[k] \in {redis[k], NoEntry}
  BY DEF ExpireInRedis, Evict, ExpireInMemory, LoseRedis, Crash, TypeOK
<1>3. \A p \in Replicas, k \in Keys : mem'[p][k] \in {mem[p][k], NoEntry}
  <2>1. ASSUME NEW p \in Replicas, NEW k \in Keys, ExpireInMemory(p, k)
        PROVE  \A p2 \in Replicas, k2 \in Keys : mem'[p2][k2] \in {mem[p2][k2], NoEntry}
    BY <2>1 DEF ExpireInMemory, TypeOK
  <2>2. ASSUME NEW p \in Replicas, Crash(p)
        PROVE  \A p2 \in Replicas, k2 \in Keys : mem'[p2][k2] \in {mem[p2][k2], NoEntry}
    BY <2>2 DEF Crash, TypeOK
  <2>. QED  BY <2>1, <2>2 DEF ExpireInRedis, LoseRedis
<1>4. \A r \in Requests : pc'[r] \in {pc[r], "done"} /\ late'[r] \in {late[r], "none"}
  BY DEF ExpireInRedis, ExpireInMemory, LoseRedis, Crash
<1>. QED  BY <1>1, <1>2, <1>3, <1>4, EntryKinds DEF StoresGenuine, Genuine, ReturnedInv

\* A look-up is the only step that replays: it replays what it found.
LEMMA ReplayKept ==
  ASSUME TypeOK, StoresGenuine, ReplayInv, [Next]_vars  PROVE ReplayInv'
<1>. SUFFICES ASSUME NEW r \in Requests, answer'[r] = "replayed"
              PROVE  source'[r] \in succeeded' /\ CacheKey(source'[r]) = CacheKey(r)
  BY DEF ReplayInv
<1>1. succeeded \subseteq succeeded'
  BY DEF Next, Step, Lookup, SetInflight, HandlerReturns, HandlerThrows, Commit, CommitFails,
         Land, ExpireInRedis, ExpireInMemory, LoseRedis, Crash, vars
<1>2. CASE Lookup(r)
  <2>1. at[r] \in Replicas /\ CacheKey(r) \in Keys
    BY KeyOfRequest DEF TypeOK
  <2>. DEFINE found(e) == e \in Entries /\ Genuine(e, CacheKey(r)) /\ Branch(r, e)
  <2>2. \E e : found(e)
    BY <1>2, <2>1 DEF Lookup, StoresGenuine, TypeOK
  <2>3. PICK e : found(e)
    BY <2>2
  <2>4. CASE ~InFlight(e) /\ e.kind # "none" /\ source'[r] = e.by
    BY <1>1, <2>3, <2>4, EntryKinds DEF InFlight, Genuine
  <2>5. CASE answer'[r] = answer[r] /\ source' = source
    BY <1>1, <2>5 DEF ReplayInv
  <2>6. answer'[r] # "refused"
    OBVIOUS
  <2>. QED  BY <2>3, <2>4, <2>5, <2>6 DEF Branch, Tell, TypeOK
<1>3. CASE ~Lookup(r)
  <2>1. answer'[r] = answer[r] /\ source'[r] = source[r]
    <3>1. ASSUME NEW q \in Requests, Lookup(q)
          PROVE  answer'[r] = answer[r] /\ source'[r] = source[r]
      BY <1>3, <3>1 DEF Lookup, Branch, Tell, TypeOK
    <3>2. ASSUME NEW q \in Requests, Step(q), ~Lookup(q)
          PROVE  answer'[r] = answer[r] /\ source'[r] = source[r]
      <4>1. source' = source
        BY <3>2 DEF Step, SetInflight, HandlerReturns, HandlerThrows, Commit, CommitFails, Land
      <4>2. answer'[r] \in {answer[r], "error", "done"}
        BY <3>2 DEF Step, SetInflight, HandlerReturns, HandlerThrows, Commit, CommitFails, Land,
             Tell, TypeOK
      <4>. QED  BY <4>1, <4>2
    <3>3. CASE \A q \in Requests : ~Step(q)
      BY <3>3 DEF Next, ExpireInRedis, ExpireInMemory, LoseRedis, Crash, vars
    <3>. QED  BY <3>1, <3>2, <3>3
  <2>. QED  BY <1>1, <2>1 DEF ReplayInv
<1>. QED  BY <1>2, <1>3

-----------------------------------------------------------------------------
(* A key is held by one request while no way has opened.                   *)

LEMMA GapsKept == ASSUME [Next]_vars  PROVE gaps \subseteq gaps'
BY DEF Next, Step, Lookup, SetInflight, HandlerReturns, HandlerThrows, Commit, CommitFails, Land,
       Mark, Put, Served, Slipped, ExpireInRedis, ExpireInMemory, LoseRedis, Crash, Note, vars

LEMMA CommittedStaysDone ==
  ASSUME TypeOK, CommittedDone, [Next]_vars  PROVE CommittedDone'
<1>1. \A r \in Requests : pc[r] = "done" => pc'[r] = "done"
  <2>1. ASSUME NEW q \in Requests, Lookup(q)
        PROVE  \A r \in Requests : pc[r] = "done" => pc'[r] = "done"
    BY <2>1 DEF Lookup, Branch, Goto, TypeOK
  <2>2. ASSUME NEW q \in Requests, Step(q), ~Lookup(q)
        PROVE  \A r \in Requests : pc[r] = "done" => pc'[r] = "done"
    BY <2>2 DEF Step, SetInflight, HandlerReturns, HandlerThrows, RollBack, Commit, CommitFails,
         Land, Goto, TypeOK
  <2>3. CASE \A q \in Requests : ~Step(q)
    BY <2>3 DEF Next, ExpireInRedis, ExpireInMemory, LoseRedis, Crash, vars
  <2>. QED  BY <2>1, <2>2, <2>3 DEF Step
<1>2. \A r \in committed' \ committed : r \in Requests /\ pc'[r] = "done"
  BY DEF Next, Step, Lookup, SetInflight, HandlerReturns, HandlerThrows, Commit, CommitFails,
       Land, ExpireInRedis, ExpireInMemory, LoseRedis, Crash, Goto, TypeOK, vars
<1>. QED  BY <1>1, <1>2 DEF CommittedDone, TypeOK

\* A look-up that goes on found the key free and nobody about to mark it.
LEMMA LookupProtected ==
  ASSUME TypeOK, Protected, NEW r \in Requests, Lookup(r), gaps' = {}  PROVE Protected'
<1>1. at[r] \in Replicas /\ CacheKey(r) \in Keys
  BY KeyOfRequest DEF TypeOK
<1>. DEFINE e == redis[CacheKey(r)]
<1>2. e \in Entries /\ InRedis(r)
  BY <1>1 DEF Protected, RedisAlone, InRedis, TypeOK
<1>3. Branch(r, e) /\ ~Racing(r, e)
  BY <1>2 DEF Lookup, Slipped, Note
<1>4. redis' = redis /\ mem' = mem /\ client' = client /\ late' = late /\ committed' = committed
  BY DEF Lookup, store
<1>5. \A q \in Requests \ {r} : pc'[q] = pc[q]
  BY <1>3 DEF Branch, Goto, TypeOK
<1>6. /\ pc[r] = "new" /\ pc'[r] \in {"marking", "done"}
      /\ pc'[r] = "marking" => e = NoEntry /\ e.kind = "none"
  BY <1>2, <1>3, EntryKinds DEF Lookup, Branch, Goto, TypeOK
<1>7. RedisAlone'
  BY <1>4 DEF Protected, RedisAlone
<1>8. HolderNamed'
  BY <1>4, <1>5, <1>6 DEF Protected, HolderNamed, Holds
<1>9. MarkerAlone'
  BY <1>3, <1>4, <1>5, <1>6 DEF Protected, MarkerAlone, Racing
<1>10. EraserFailed'
  BY <1>4, <1>5, <1>6 DEF Protected, EraserFailed
<1>. QED  BY <1>7, <1>8, <1>9, <1>10 DEF Protected

\* What a write to Redis leaves there.
LEMMA RedisAfter ==
  ASSUME TypeOK, NEW r \in Requests, NEW e, redis' = [redis EXCEPT ![CacheKey(r)] = e]
  PROVE  /\ redis'[CacheKey(r)] = e
         /\ \A k \in Keys \ {CacheKey(r)} : redis'[k] = redis[k]
BY KeyOfRequest DEF TypeOK

\* The mark makes its request the holder of a key that had none.
LEMMA MarkProtected ==
  ASSUME TypeOK, Protected, NEW r \in Requests, SetInflight(r), gaps' = {}  PROVE Protected'
<1>. DEFINE e == Placeholder(r)
<1>1. e \in Entries /\ e.by = r /\ Put(r, e)
  BY EntryKinds DEF SetInflight, Mark
<1>. HIDE DEF e
<1>2. redis' = [redis EXCEPT ![CacheKey(r)] = e] /\ mem' = mem
  BY <1>1, PutWritesShared DEF Protected, RedisAlone
<1>3. redis'[CacheKey(r)] = e /\ \A k \in Keys \ {CacheKey(r)} : redis'[k] = redis[k]
  BY <1>2, RedisAfter
<1>4. client' = client /\ late' = late /\ committed' = committed
  BY DEF SetInflight
<1>5. /\ pc[r] = "marking" /\ pc'[r] = "handling"
      /\ \A q \in Requests \ {r} : pc'[q] = pc[q]
  BY DEF SetInflight, Goto, TypeOK
<1>6. redis[CacheKey(r)].by \notin Requests
  BY <1>5, EntryKinds, IdempotencyAssumption DEF Protected, MarkerAlone
<1>7. RedisAlone'
  BY <1>2, <1>4 DEF Protected, RedisAlone
<1>8. HolderNamed'
  BY <1>1, <1>3, <1>4, <1>5, <1>6, KeyOfRequest DEF Protected, HolderNamed, Holds
<1>9. MarkerAlone'
  BY <1>3, <1>5, KeyOfRequest DEF Protected, MarkerAlone
<1>10. EraserFailed'
  BY <1>4, <1>5 DEF Protected, EraserFailed
<1>. QED  BY <1>7, <1>8, <1>9, <1>10 DEF Protected

\* The handler of a holder ends: its write is still to come, its key is kept.
LEMMA HandlerProtected ==
  ASSUME TypeOK, Protected, CommittedDone, NEW r \in Requests,
         HandlerReturns(r) \/ HandlerThrows(r)
  PROVE  Protected'
<1>1. InRedis(r)
  BY DEF Protected, RedisAlone, InRedis, TypeOK
<1>2. redis' = redis /\ mem' = mem /\ client' = client /\ committed' = committed
  BY <1>1 DEF HandlerReturns, HandlerThrows, EraseOnError, Issue
<1>3. /\ pc[r] = "handling" /\ r \notin committed
      /\ \A q \in Requests \ {r} : pc'[q] = pc[q] /\ late'[q] = late[q]
  BY DEF HandlerReturns, HandlerThrows, EraseOnError, RollBack, Issue, Goto, CommittedDone, TypeOK
<1>4. \/ pc'[r] = "committing" /\ late'[r] = "store"
      \/ pc'[r] = "done" /\ late'[r] = "erase"
  BY <1>1 DEF HandlerReturns, HandlerThrows, EraseOnError, RollBack, Issue, Goto, TypeOK
<1>5. RedisAlone'
  BY <1>2 DEF Protected, RedisAlone
<1>6. HolderNamed'
  BY <1>2, <1>3, <1>4 DEF Protected, HolderNamed, Holds
<1>7. MarkerAlone'
  BY <1>2, <1>3, <1>4 DEF Protected, MarkerAlone
<1>8. EraserFailed'
  BY <1>2, <1>3, <1>4 DEF Protected, EraserFailed
<1>. QED  BY <1>5, <1>6, <1>7, <1>8 DEF Protected

\* A commit, or its failure, finds the key held by its request.
LEMMA CommitProtected ==
  ASSUME TypeOK, Protected, NEW r \in Requests, Commit(r) \/ CommitFails(r)  PROVE Protected'
<1>1. redis' = redis /\ mem' = mem /\ client' = client /\ late' = late
  BY DEF Commit, CommitFails, store
<1>2. /\ pc[r] = "committing" /\ pc'[r] = "done"
      /\ \A q \in Requests \ {r} : pc'[q] = pc[q]
  BY DEF Commit, CommitFails, Goto, TypeOK
<1>3. \A q \in Requests \ {r} : q \in committed' <=> q \in committed
  BY DEF Commit, CommitFails
<1>4. RedisAlone'
  BY <1>1 DEF Protected, RedisAlone
<1>5. HolderNamed'
  BY <1>1, <1>2, <1>3 DEF Protected, HolderNamed, Holds
<1>6. MarkerAlone'
  BY <1>1, <1>2 DEF Protected, MarkerAlone
<1>7. EraserFailed'
  BY <1>1, <1>2, <1>3 DEF Protected, EraserFailed
<1>. QED  BY <1>4, <1>5, <1>6, <1>7 DEF Protected

\* A write that lands late finds the entry of its own request.
LEMMA LandProtected ==
  ASSUME TypeOK, Protected, NEW r \in Requests, Land(r), gaps' = {}  PROVE Protected'
<1>. DEFINE e == IF late[r] = "store" THEN Response(r) ELSE NoEntry
<1>1. /\ e \in Entries /\ Put(r, e)
      /\ late[r] = "store" => e.by = r
      /\ late[r] # "store" => e = NoEntry
  BY EntryKinds DEF Land
<1>. HIDE DEF e
<1>2. redis' = [redis EXCEPT ![CacheKey(r)] = e] /\ mem' = mem
  BY <1>1, PutWritesShared DEF Protected, RedisAlone
<1>3. redis'[CacheKey(r)] = e /\ \A k \in Keys \ {CacheKey(r)} : redis'[k] = redis[k]
  BY <1>2, RedisAfter
<1>4. client' = client /\ pc' = pc /\ committed' = committed
  BY DEF Land
<1>5. /\ late[r] \in {"store", "erase"} /\ late'[r] = "none"
      /\ \A q \in Requests \ {r} : late'[q] = late[q]
  BY DEF Land, TypeOK
<1>6. redis[CacheKey(r)].by = r
  BY <1>5 DEF Protected, HolderNamed, Holds
<1>7. RedisAlone'
  BY <1>2, <1>4 DEF Protected, RedisAlone
<1>8. HolderNamed'
  <2>. SUFFICES ASSUME NEW q \in Requests, Holds(q)'  PROVE redis'[CacheKey(q)].by = q
    BY DEF HolderNamed
  <2>1. Holds(q) /\ redis[CacheKey(q)].by = q
    BY <1>4, <1>5 DEF Protected, HolderNamed, Holds
  <2>2. CASE CacheKey(q) # CacheKey(r)
    BY <1>3, <2>1, <2>2, KeyOfRequest
  <2>3. CASE CacheKey(q) = CacheKey(r)
    <3>1. q = r
      BY <1>6, <2>1, <2>3
    <3>2. late[r] = "store"
      BY <1>4, <1>5, <3>1 DEF Protected, EraserFailed, Holds
    <3>. QED  BY <1>1, <1>3, <3>1, <3>2
  <2>. QED  BY <2>2, <2>3
<1>9. MarkerAlone'
  <2>1. \A q \in Requests : pc[q] = "marking" => CacheKey(q) # CacheKey(r)
    BY <1>6, EntryKinds, IdempotencyAssumption DEF Protected, MarkerAlone
  <2>. QED  BY <1>3, <1>4, <2>1, KeyOfRequest DEF Protected, MarkerAlone
<1>10. EraserFailed'
  BY <1>4, <1>5 DEF Protected, EraserFailed
<1>. QED  BY <1>7, <1>8, <1>9, <1>10 DEF Protected

\* Redis drops a placeholder that nobody needs any more; a restart that drops
\* nothing only ends requests.
LEMMA EnvironmentProtected ==
  ASSUME TypeOK, Protected, gaps' = {},
         \/ \E k \in Keys : ExpireInRedis(k)
         \/ \E p \in Replicas, k \in Keys : ExpireInMemory(p, k)
         \/ \E p \in Replicas : LoseRedis(p) \/ Crash(p)
  PROVE  Protected'
<1>1. CASE \E k \in Keys : ExpireInRedis(k)
  <2>1. PICK k \in Keys : ExpireInRedis(k)
    BY <1>1
  <2>2. redis'[k] = NoEntry /\ \A k2 \in Keys \ {k} : redis'[k2] = redis[k2]
    BY <2>1 DEF ExpireInRedis, Evict, TypeOK
  <2>3. Abandoned(redis[k])
    BY <2>1 DEF ExpireInRedis, Note
  <2>4. UNCHANGED <<mem, client, pc, late, committed>>
    BY <2>1 DEF ExpireInRedis
  <2>5. \A r \in Requests : Holds(r) => CacheKey(r) # k
    BY <2>3 DEF Protected, HolderNamed, Holds, Abandoned
  <2>6. RedisAlone' /\ EraserFailed'
    BY <2>4 DEF Protected, RedisAlone, EraserFailed
  <2>7. HolderNamed'
    BY <2>2, <2>4, <2>5, KeyOfRequest DEF Protected, HolderNamed, Holds
  <2>8. MarkerAlone'
    BY <2>2, <2>4, KeyOfRequest DEF Protected, MarkerAlone
  <2>. QED  BY <2>6, <2>7, <2>8 DEF Protected
<1>2. CASE \E p \in Replicas : Crash(p)
  <2>1. PICK p \in Replicas : Crash(p)
    BY <1>2
  <2>2. redis' = redis /\ committed' = committed
    BY <2>1 DEF Crash
  <2>3. \A r \in Requests : /\ pc'[r] \in {pc[r], "done"}
                            /\ late'[r] \in {late[r], "none"}
    BY <2>1 DEF Crash
  <2>4. \A q \in Replicas : client'[q] = "redis"
    BY <2>1 DEF Crash, Protected, RedisAlone, TypeOK
  <2>5. \A q \in Replicas, k \in Keys : mem'[q][k] = NoEntry
    BY <2>1 DEF Crash, Protected, RedisAlone, TypeOK
  <2>6. HolderNamed'
    BY <2>2, <2>3 DEF Protected, HolderNamed, Holds
  <2>7. MarkerAlone' /\ EraserFailed'
    BY <2>2, <2>3 DEF Protected, MarkerAlone, EraserFailed
  <2>. QED  BY <2>4, <2>5, <2>6, <2>7 DEF Protected, RedisAlone
<1>3. ~ \E p \in Replicas, k \in Keys : ExpireInMemory(p, k)
  BY DEF ExpireInMemory, Note
<1>4. ~ \E p \in Replicas : LoseRedis(p)
  BY DEF LoseRedis, Note
<1>. QED  BY <1>1, <1>2, <1>3, <1>4

-----------------------------------------------------------------------------
(* The invariant, and what it gives.                                       *)

LEMMA InitInv == Init => IInv
<1>. SUFFICES ASSUME Init  PROVE IInv
  OBVIOUS
<1>1. TypeOK
  BY InitTypes
<1>2. /\ \A k \in Keys : redis[k] = NoEntry
      /\ \A p \in Replicas, k \in Keys : mem[p][k] = NoEntry
      /\ \A p \in Replicas : client[p] = "redis"
      /\ \A r \in Requests : pc[r] = "new" /\ late[r] = "none" /\ answer[r] = "none"
      /\ committed = {}
  BY DEF Init
<1>3. StoresGenuine
  BY <1>2, EntryKinds DEF StoresGenuine, Genuine
<1>4. ReturnedInv /\ ReplayInv /\ CommittedDone
  BY <1>2 DEF ReturnedInv, ReplayInv, CommittedDone
<1>5. Protected
  BY <1>2 DEF Protected, RedisAlone, HolderNamed, Holds, MarkerAlone, EraserFailed
<1>. QED  BY <1>1, <1>3, <1>4, <1>5 DEF IInv

\* A step that opens no way keeps a key with its holder.
LEMMA ProtectedKept ==
  ASSUME TypeOK, Protected, CommittedDone, Next, gaps' = {}  PROVE Protected'
<1>1. ASSUME NEW r \in Requests, Step(r)  PROVE Protected'
  BY <1>1, LookupProtected, MarkProtected, HandlerProtected, CommitProtected, LandProtected
     DEF Step
<1>. QED  BY <1>1, EnvironmentProtected DEF Next

LEMMA Inductive == IInv /\ [Next]_vars => IInv'
<1>. SUFFICES ASSUME IInv, [Next]_vars  PROVE IInv'
  OBVIOUS
<1>. USE DEF IInv
<1>1. ReplayInv' /\ CommittedDone'
  BY ReplayKept, CommittedStaysDone
<1>2. CASE Next
  <2>1. TypeOK'
    BY <1>2, StepTypes, EnvironmentTypes DEF Next
  <2>2. StoresGenuine' /\ ReturnedInv'
    BY <1>2, StepGenuine, EnvironmentGenuine DEF Next
  <2>3. gaps' = {} => Protected'
    BY <1>2, GapsKept, ProtectedKept
  <2>. QED  BY <1>1, <2>1, <2>2, <2>3
<1>3. CASE UNCHANGED vars
  <2>1. TypeOK'
    BY <1>3 DEF vars, TypeOK
  <2>2. StoresGenuine' /\ ReturnedInv'
    BY <1>3 DEF vars, StoresGenuine, Genuine, ReturnedInv
  <2>3. gaps' = {} => Protected'
    BY <1>3 DEF vars, Protected, RedisAlone, HolderNamed, Holds, MarkerAlone, EraserFailed
  <2>. QED  BY <1>1, <2>1, <2>2, <2>3
<1>. QED  BY <1>2, <1>3

THEOREM Invariance == Spec => []IInv
BY InitInv, Inductive, PTL DEF Spec

\* The types of the variables; in particular an entry in the memory of a
\* replica was made by a request of that replica, and what committed had succeeded.
THEOREM TypeCorrect == Spec => []TypeOK
BY Invariance, PTL DEF IInv

\* The effect of a key takes place once, for any number of requests, replicas
\* and faults, until one of the five named ways has opened.
THEOREM KeyExecutesOnce == Spec => []ExecutesOnce
<1>1. IInv => ExecutesOnce
  <2>. SUFFICES ASSUME IInv, gaps = {}, NEW r \in committed, NEW q \in committed,
                       CacheKey(r) = CacheKey(q)
                PROVE  r = q
    BY DEF ExecutesOnce
  <2>1. r \in Requests /\ q \in Requests /\ Holds(r) /\ Holds(q)
    BY DEF IInv, TypeOK, Holds
  <2>. QED  BY <2>1 DEF IInv, Protected, HolderNamed
<1>. QED  BY <1>1, Invariance, PTL

\* A replay is always a response that a handler returned to the same user of
\* the same tenant, whatever is lost, late or crashed, even when a way is open.
THEOREM ReplaysAreGenuine == Spec => []ReplayIsGenuine
<1>1. IInv => ReplayIsGenuine
  BY DEF IInv, ReplayInv, ReplayIsGenuine, CacheKey
<1>. QED  BY <1>1, Invariance, PTL

-----------------------------------------------------------------------------
(* No placeholder is forgotten in a memory: what holds at every moment of  *)
(* KeyFreed, which needs fairness besides.                                 *)

\* A placeholder in memory belongs to a handler that runs on that replica.
Owned(p, k) ==
  mem[p][k].kind = "in_flight" =>
    /\ client[p] = "memory"
    /\ pc[mem[p][k].by] = "handling" /\ CacheKey(mem[p][k].by) = k

PlaceholdersOwned == "slip" \notin gaps => \A p \in Replicas, k \in Keys : Owned(p, k)

\* The steps that write no store and end no handler.
LEMMA OwnersStay ==
  ASSUME TypeOK, UNCHANGED <<mem, client>>,
         \A r \in Requests : pc[r] = "handling" => pc'[r] = "handling",
         NEW p \in Replicas, NEW k \in Keys, Owned(p, k)
  PROVE  Owned(p, k)'
<1>1. mem[p][k] \in Entries
  BY DEF TypeOK
<1>. QED  BY <1>1, EntryKinds DEF Owned

\* A handler that ends replaces its placeholder where it put it.
LEMMA OwnerLeaves ==
  ASSUME TypeOK, NEW r \in Requests, pc[r] = "handling", client' = client,
         \A q \in Requests \ {r} : pc'[q] = pc[q],
         NEW write, NEW e \in Entries, e.kind # "in_flight", Issue(r, write, e),
         \A p \in Replicas, k \in Keys : Owned(p, k)
  PROVE  \A p \in Replicas, k \in Keys : Owned(p, k)'
<1>. SUFFICES ASSUME NEW p \in Replicas, NEW k \in Keys, mem'[p][k].kind = "in_flight"
              PROVE  Owned(p, k)'
  BY DEF Owned
<1>1. /\ mem[p][k] \in Entries /\ at[r] \in Replicas /\ CacheKey(r) \in Keys
      /\ mem \in [Replicas -> [Keys -> Entries]]
  BY KeyOfRequest DEF TypeOK
<1>2. mem'[p][k] = mem[p][k]
  BY <1>1 DEF Issue, PutMemory
<1>3. mem[p][k].by \in Requests /\ mem[p][k].by # NoRequest
  BY <1>1, <1>2, EntryKinds, IdempotencyAssumption
<1>4. ASSUME mem[p][k].by = r  PROVE FALSE
  <2>1. p = at[r] /\ k = CacheKey(r) /\ client[p] = "memory"
    BY <1>2, <1>3, <1>4 DEF Owned, TypeOK
  <2>2. mem'[p][k] = e
    BY <1>1, <2>1 DEF Issue, InRedis, PutMemory
  <2>. QED  BY <2>2
<1>. QED  BY <1>2, <1>3, <1>4 DEF Owned

LEMMA StepOwned ==
  ASSUME TypeOK, NEW r \in Requests, Step(r), "slip" \notin gaps',
         \A p \in Replicas, k \in Keys : Owned(p, k)
  PROVE  \A p \in Replicas, k \in Keys : Owned(p, k)'
<1>0. /\ pc \in [Requests -> Places] /\ at[r] \in Replicas /\ CacheKey(r) \in Keys
      /\ mem \in [Replicas -> [Keys -> Entries]]
  BY KeyOfRequest DEF TypeOK
<1>1. CASE Lookup(r) \/ Commit(r) \/ CommitFails(r)
  <2>1. UNCHANGED <<mem, client>> /\ pc[r] # "handling"
    BY <1>1 DEF Lookup, Commit, CommitFails, store
  <2>2. \A q \in Requests \ {r} : pc'[q] = pc[q]
    BY <1>0, <1>1 DEF Lookup, Branch, Commit, CommitFails, Goto
  <2>. QED  BY <2>1, <2>2, OwnersStay
<1>2. CASE SetInflight(r)
  <2>1. client' = client /\ pc' = [pc EXCEPT ![r] = "handling"] /\ Put(r, Placeholder(r))
    BY <1>2 DEF SetInflight, Mark, Goto
  <2>2. ~Slipped(r)
    BY DEF Slipped, Note
  <2>3. CASE mem' = mem
    <3>1. \A q \in Requests : pc[q] = "handling" => pc'[q] = "handling"
      BY <1>0, <2>1
    <3>. QED  BY <2>1, <2>3, <3>1, OwnersStay
  <2>4. CASE ~InRedis(r) /\ mem' = [mem EXCEPT ![at[r]][CacheKey(r)] = Placeholder(r)]
    <3>1. ASSUME NEW p \in Replicas, NEW k \in Keys, mem'[p][k].kind = "in_flight"
          PROVE  Owned(p, k)'
      <4>1. CASE p = at[r] /\ k = CacheKey(r)
        <5>1. mem'[p][k] = Placeholder(r)
          BY <1>0, <2>4, <4>1
        <5>2. mem'[p][k].by = r /\ pc'[r] = "handling"
          BY <1>0, <2>1, <5>1, EntryKinds
        <5>3. client[p] = "memory"
          BY <2>4, <4>1 DEF InRedis, TypeOK
        <5>. QED  BY <2>1, <4>1, <5>2, <5>3 DEF Owned
      <4>2. CASE ~(p = at[r] /\ k = CacheKey(r))
        <5>1. mem'[p][k] = mem[p][k]
          BY <1>0, <2>4, <4>2
        <5>2. mem[p][k].by \in Requests
          BY <1>0, <3>1, <5>1, EntryKinds
        <5>3. pc'[mem[p][k].by] = "handling"
          BY <1>0, <2>1, <3>1, <5>1, <5>2 DEF Owned
        <5>. QED  BY <2>1, <3>1, <5>1, <5>3 DEF Owned
      <4>. QED  BY <4>1, <4>2
    <3>. QED  BY <3>1 DEF Owned
  <2>. QED  BY <2>1, <2>2, <2>3, <2>4 DEF Put, PutRedis, PutMemory
<1>3. CASE HandlerReturns(r)
  <2>1. /\ pc[r] = "handling" /\ client' = client /\ Issue(r, "store", Response(r))
        /\ \A q \in Requests \ {r} : pc'[q] = pc[q]
    BY <1>0, <1>3 DEF HandlerReturns, Goto
  <2>2. Response(r) \in Entries /\ Response(r).kind # "in_flight"
    BY EntryKinds
  <2>. QED  BY <2>1, <2>2, OwnerLeaves
<1>4. CASE HandlerThrows(r)
  <2>1. /\ pc[r] = "handling" /\ client' = client /\ Issue(r, "erase", NoEntry)
        /\ \A q \in Requests \ {r} : pc'[q] = pc[q]
    BY <1>0, <1>4 DEF HandlerThrows, EraseOnError, RollBack, Goto
  <2>2. NoEntry \in Entries /\ NoEntry.kind # "in_flight"
    BY EntryKinds
  <2>. QED  BY <2>1, <2>2, OwnerLeaves
<1>5. CASE Land(r)
  <2>. DEFINE e == IF late[r] = "store" THEN Response(r) ELSE NoEntry
  <2>1. UNCHANGED <<client, pc>> /\ Put(r, e)
    BY <1>5 DEF Land
  <2>2. e \in Entries /\ e.kind # "in_flight"
    BY EntryKinds
  <2>. HIDE DEF e
  <2>3. ASSUME NEW p \in Replicas, NEW k \in Keys  PROVE mem'[p][k] \in {mem[p][k], e}
    <3>1. mem' = mem \/ mem' = [mem EXCEPT ![at[r]][CacheKey(r)] = e]
      BY <2>1, <2>2, PutWrites
    <3>. QED  BY <1>0, <3>1
  <2>4. ASSUME NEW p \in Replicas, NEW k \in Keys  PROVE Owned(p, k)'
    BY <2>1, <2>2, <2>3, <2>4 DEF Owned
  <2>. QED  BY <2>4
<1>. QED  BY <1>1, <1>2, <1>3, <1>4, <1>5 DEF Step

LEMMA EnvironmentOwned ==
  ASSUME TypeOK, \A p \in Replicas, k \in Keys : Owned(p, k),
         \/ \E k \in Keys : ExpireInRedis(k)
         \/ \E p \in Replicas, k \in Keys : ExpireInMemory(p, k)
         \/ \E p \in Replicas : LoseRedis(p) \/ Crash(p)
  PROVE  \A p \in Replicas, k \in Keys : Owned(p, k)'
<1>0. mem \in [Replicas -> [Keys -> Entries]] /\ client \in [Replicas -> {"redis", "memory"}]
  BY DEF TypeOK
<1>1. CASE \E k \in Keys : ExpireInRedis(k)
  BY <1>1, OwnersStay DEF ExpireInRedis
<1>2. CASE \E p \in Replicas, k \in Keys : ExpireInMemory(p, k)
  <2>1. UNCHANGED <<client, pc>>
    BY <1>2 DEF ExpireInMemory
  <2>2. \A p \in Replicas, k \in Keys : mem'[p][k] \in {mem[p][k], NoEntry}
    BY <1>0, <1>2 DEF ExpireInMemory
  <2>. QED  BY <2>1, <2>2, EntryKinds DEF Owned
<1>3. CASE \E p \in Replicas : LoseRedis(p)
  <2>1. UNCHANGED <<mem, pc>> /\ \A p \in Replicas : client[p] = "memory" => client'[p] = "memory"
    BY <1>0, <1>3 DEF LoseRedis
  <2>. QED  BY <2>1 DEF Owned
<1>4. CASE \E p \in Replicas : Crash(p)
  <2>1. PICK p \in Replicas : Crash(p)
    BY <1>4
  <2>2. mem' = [mem EXCEPT ![p] = [k \in Keys |-> NoEntry]]
        /\ client' = [client EXCEPT ![p] = "redis"]
        /\ pc' = [r \in Requests |-> IF at[r] = p /\ pc[r] \notin {"new", "done"}
                                     THEN "done" ELSE pc[r]]
    BY <2>1 DEF Crash
  <2>3. ASSUME NEW q \in Replicas, NEW k \in Keys, mem'[q][k].kind = "in_flight"
        PROVE  Owned(q, k)'
    <3>1. q # p
      BY <1>0, <2>2, <2>3, EntryKinds
    <3>2. mem'[q][k] = mem[q][k] /\ client'[q] = client[q]
      BY <1>0, <2>2, <3>1
    <3>3. mem[q][k].by \in Requests /\ at[mem[q][k].by] = q
      BY <1>0, <2>3, <3>2, EntryKinds, IdempotencyAssumption DEF TypeOK
    <3>4. pc'[mem[q][k].by] = pc[mem[q][k].by]
      BY <2>2, <3>1, <3>3
    <3>. QED  BY <2>3, <3>2, <3>4 DEF Owned
  <2>. QED  BY <2>3 DEF Owned
<1>. QED  BY <1>1, <1>2, <1>3, <1>4

\* Memory has no lifetime for a placeholder, and needs none: unless a single
\* command slipped there, the handler that put it there still runs, and takes
\* it away when it ends or dies with it.
THEOREM MemoryForgetsNone == Spec => []PlaceholdersOwned
<1>1. ASSUME Init  PROVE PlaceholdersOwned
  <2>1. \A p \in Replicas, k \in Keys : mem[p][k] = NoEntry
    BY <1>1 DEF Init
  <2>. QED  BY <2>1, EntryKinds DEF PlaceholdersOwned, Owned
<1>2. ASSUME IInv, PlaceholdersOwned, [Next]_vars  PROVE PlaceholdersOwned'
  <2>. SUFFICES ASSUME "slip" \notin gaps'
                PROVE  \A p \in Replicas, k \in Keys : Owned(p, k)'
    BY DEF PlaceholdersOwned
  <2>1. TypeOK /\ \A p \in Replicas, k \in Keys : Owned(p, k)
    BY <1>2, GapsKept DEF IInv, PlaceholdersOwned
  <2>2. CASE UNCHANGED vars
    BY <2>1, <2>2 DEF vars, Owned
  <2>. QED  BY <1>2, <2>1, <2>2, StepOwned, EnvironmentOwned DEF Next
<1>. QED  BY <1>1, <1>2, Invariance, PTL DEF Spec

=============================================================================
