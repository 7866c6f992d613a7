------------------------------ MODULE TwoLevelCache ------------------------------
(***************************************************************************)
(* The two-level cache of internal/infrastructure/cache: Manager over the  *)
(* local L1 and the Redis L2, its Protection and Invalidator, the HTTP     *)
(* handlers that call them, and the warm-up main runs while the HTTP       *)
(* server already serves.                                                  *)
(*                                                                         *)
(* A process is a goroutine inside one call.  Each access to L1, to L2 or  *)
(* to a locked table is one step, because nothing is held between them.    *)
(* A value is the number of the call that wrote it; 0 is no value.         *)
(*                                                                         *)
(* overlapped, faulty and plain are history: they guide no step.           *)
(***************************************************************************)
EXTENDS Naturals, FiniteSets

CONSTANTS
  Clients,     \* goroutines of HTTP requests and of callers of the package
  Main,        \* the goroutine of main
  Keys, HotKeys, NoKey,
  L1Enabled,
  MaxBlocked,  \* maxBlockedKeys
  MaxCalls,    \* bound: calls of the clients that read or write keys
  SingleKeys,  \* bound: keys of the other calls on one key than GetWithProtection
  StatsClients, \* bound: the goroutines that ask for the statistics
  MaxStats     \* bound: calls for the statistics

ASSUME KeysAssumption ==
  /\ IsFiniteSet(Keys) /\ HotKeys \subseteq Keys /\ HotKeys # {} /\ NoKey \notin Keys
  /\ SingleKeys \subseteq Keys
ASSUME ClientsAssumption == Main \notin Clients /\ StatsClients \subseteq Clients
ASSUME LimitsAssumption ==
  MaxBlocked \in Nat /\ MaxCalls \in Nat /\ MaxStats \in Nat /\ L1Enabled \in BOOLEAN

VARIABLES
  mode,       \* what m.l2 is: "redis", "disabled", "nil" or "closed"
  l1, l2,     \* the value of each key
  ttl,        \* the L2 entry of the key expires
  blocked,    \* blockedKeys: "no", "fresh" or "expired"
  readers,    \* holders of the read lock of PenetrationProtection
  avReaders, avWaiting,  \* AvalancheProtection: read locks, waiting writers
  call,       \* the call each process is in
  calls, stats, \* how many calls were made
  death,      \* why the process ended
  overlapped, faulty, plain

levels  == <<mode, l1, l2, ttl>>
avLock  == <<avReaders, avWaiting>>
history == <<overlapped, faulty, plain>>
vars == <<levels, blocked, readers, avLock, call, calls, stats, death, history>>

Procs  == Clients \cup {Main}
Hot    == MaxCalls + 1  \* the value the warm-up writes
Values == 0..Hot
Writes == {"set", "setTTL", "delete", "scheduled", "clear"}
Call == [pc : {"boot", "idle", "sleep", "isBlocked", "inBlocked", "shouldBlock", "getL1",
               "getL2", "fill", "recordMiss", "recordSuccess", "lockSuccess",
               "clearBlocked", "setL1", "setL2", "delL1", "delL2", "clearL1", "clearL2",
               "stats", "inStats", "avStats", "inAvStats", "endAvStats"},
         op : {"none", "get", "exists", "stats"} \cup Writes,
         prot : BOOLEAN, key : Keys \cup {NoKey}, todo : SUBSET Keys, val : Values]
Idle == [pc |-> "idle", op |-> "none", prot |-> FALSE, key |-> NoKey, todo |-> {}, val |-> 0]

TypeOK ==
  /\ mode \in {"redis", "disabled", "nil", "closed"}
  /\ l1 \in [Keys -> Values] /\ l2 \in [Keys -> Values] /\ ttl \in [Keys -> BOOLEAN]
  /\ blocked \in [Keys -> {"no", "fresh", "expired"}]
  /\ readers \subseteq Procs /\ avReaders \subseteq Procs /\ avWaiting \subseteq Procs
  /\ call \in [Procs -> Call] /\ calls \in 0..MaxCalls /\ stats \in 0..MaxStats
  /\ death \in {"none", "nilL2", "mapRace"}
  /\ overlapped \in [Keys -> BOOLEAN] /\ faulty \in [Keys -> BOOLEAN]
  /\ plain \in [Keys -> BOOLEAN]

(* NewManager: NewRedisCache gives a connected cache, a cache without a    *)
(* client when L2 is disabled, or a nil pointer when Redis is down.  The   *)
(* nil pointer is stored in an interface, so m.l2 is not nil then either.  *)
Init ==
  /\ mode \in {"redis", "disabled", "nil"}
  /\ l1 = [k \in Keys |-> 0] /\ l2 = l1 /\ ttl = [k \in Keys |-> FALSE]
  /\ blocked = [k \in Keys |-> "no"]
  /\ readers = {} /\ avReaders = {} /\ avWaiting = {}
  /\ call = [p \in Procs |-> IF p = Main THEN [Idle EXCEPT !.pc = "boot"] ELSE Idle]
  /\ calls = 0 /\ stats = 0 /\ death = "none"
  /\ overlapped = ttl /\ faulty = ttl /\ plain = ttl

At(p, step) == death = "none" /\ call[p].pc = step
Key(p) == call[p].key

(* p goes on to a step, or returns.                                        *)
Goto(p, step) ==
  call' = [call EXCEPT ![p] = IF step = "idle" THEN Idle ELSE [call[p] EXCEPT !.pc = step]]

-------------------------------------------------------------------------------
(* History.                                                                *)

(* The keys the call of p is about.                                        *)
Touched(p) == IF call[p].pc \in {"boot", "idle", "sleep"} THEN {}
              ELSE ({Key(p)} \cup call[p].todo) \ {NoKey}

Quiet(k) == \A p \in Procs : k \notin Touched(p)

(* A call on the keys ks begins.  A write that meets no other call on its  *)
(* key starts from a clean slate.                                          *)
NoteBegin(p, ks, write) ==
  LET Others == UNION {Touched(q) : q \in Procs \ {p}}
      Clean(k) == write /\ k \in ks
  IN  /\ overlapped' = [k \in Keys |-> k \in ks \cap Others \/ (overlapped[k] /\ ~Clean(k))]
      /\ faulty' = [k \in Keys |-> faulty[k] /\ (k \in Others \/ ~Clean(k))]

-------------------------------------------------------------------------------
(* The calls.                                                              *)

(* p enters operation o on the keys ks, with the value v, at step first.   *)
Enter(p, o, protected, ks, v, first) ==
  /\ \E k \in IF ks = {} THEN {NoKey} ELSE ks :
       call' = [call EXCEPT ![p] = [pc |-> first, op |-> o, prot |-> protected, key |-> k,
                                    todo |-> ks \ {k}, val |-> v]]
  /\ NoteBegin(p, ks, o \in Writes)
  /\ plain' = [k \in Keys |-> IF k \in ks /\ o \in {"set", "setTTL"}
                                THEN ~protected ELSE plain[k]]
  /\ UNCHANGED <<levels, blocked, readers, avLock, death>>

(* main stops the HTTP server before it closes the cache.                  *)
MayCall(p) == At(p, "idle") /\ mode # "closed"

Begin(p, o, protected, ks, first) ==
  /\ MayCall(p) /\ calls < MaxCalls
  /\ calls' = calls + 1 /\ UNCHANGED stats
  /\ Enter(p, o, protected, ks, IF o \in {"set", "setTTL"} THEN calls + 1 ELSE 0, first)

Set(p, k)    == Begin(p, "set", FALSE, {k}, "setL1")
Get(p, k)    == Begin(p, "get", FALSE, {k}, "getL1")
Delete(p, k) == Begin(p, "delete", FALSE, {k}, "delL1")
Exists(p, k) == Begin(p, "exists", FALSE, {k}, "getL1")
(* What a value is does not matter here, nor its form: the calls on JSON   *)
(* values convert them and call Set and Get.                               *)
SetJSON(p, k) == Set(p, k)
GetJSON(p, k) == Get(p, k)
BatchInvalidate(p, ks) == Begin(p, "delete", FALSE, ks, "delL1")

setCache(p, k)     == Set(p, k)
getCache(p, k)     == Get(p, k)
setCacheJSON(p, k) == SetJSON(p, k)
getCacheJSON(p, k) == GetJSON(p, k)
deleteCache(p, k)  == Delete(p, k)
existsCache(p, k)  == Exists(p, k)
warmupCache(p)     == Begin(p, "set", FALSE, HotKeys, "setL1")
(* invalidateCache by keys; by pattern and by prefix it removes nothing.   *)
invalidateCache(p, ks) == BatchInvalidate(p, ks)

GetWithProtection(p, k) == Begin(p, "get", TRUE, {k}, "isBlocked")
SetWithProtection(p, k) == Begin(p, "set", TRUE, {k}, "clearBlocked")
SetWithTTL(p, k) == Begin(p, "setTTL", FALSE, {k}, "setL1")
Clear(p) == Begin(p, "clear", FALSE, Keys, "clearL1")

getProtectionStats(p) ==
  /\ MayCall(p) /\ p \in StatsClients /\ stats < MaxStats
  /\ stats' = stats + 1 /\ UNCHANGED calls
  /\ Enter(p, "stats", FALSE, {}, 0, "stats")

(* A goroutine sleeps and then deletes.                                    *)
ScheduleInvalidation(p, k) ==
  /\ MayCall(p) /\ calls < MaxCalls
  /\ calls' = calls + 1 /\ UNCHANGED stats
  /\ call' = [call EXCEPT ![p] = [Idle EXCEPT !.pc = "sleep", !.key = k]]
  /\ UNCHANGED <<levels, blocked, readers, avLock, death, history>>

Wake(p) ==
  /\ At(p, "sleep")
  /\ Enter(p, "scheduled", FALSE, {Key(p)}, 0, "delL1")
  /\ UNCHANGED <<calls, stats>>

(* WarmupCache in main, while requests are served already.                 *)
Warmup == At(Main, "boot") /\ Enter(Main, "set", FALSE, HotKeys, Hot, "setL1")
                           /\ UNCHANGED <<calls, stats>>

(* The loops of Preload and BatchInvalidate.                               *)
NextKey(p, first) ==
  \/ call[p].todo = {} /\ Goto(p, "idle")
  \/ \E k \in call[p].todo :
       call' = [call EXCEPT ![p] = [call[p] EXCEPT !.pc = first, !.key = k, !.todo = @ \ {k}]]

(* A method of the nil *RedisCache panics.  gin.Recovery catches it in a   *)
(* request; in main and in the goroutine of ScheduleInvalidation nothing   *)
(* does, and the process ends.                                             *)
NilPanic(p) ==
  /\ mode = "nil"
  /\ Goto(p, "idle")
  /\ death' = IF p = Main \/ call[p].op = "scheduled" THEN "nilL2" ELSE "none"

(* main closes the cache when it shuts down, after the HTTP server has     *)
(* waited for its requests; goroutines of ScheduleInvalidation sleep on.   *)
Close ==
  /\ At(Main, "idle") /\ mode = "redis"
  /\ \A p \in Clients : call[p].pc \in {"idle", "sleep", "lockSuccess", "inAvStats"}
  /\ mode' = "closed"
  /\ UNCHANGED <<l1, l2, ttl, blocked, readers, avLock, call, calls, stats, death, history>>

-------------------------------------------------------------------------------
(* Protection.                                                             *)

(* IsBlockedKey and PenetrationProtection.GetStats take the read lock.     *)
RLockBlocked(p) ==
  /\ \/ At(p, "isBlocked") /\ Goto(p, "inBlocked")
     \/ At(p, "stats") /\ Goto(p, "inStats")
  /\ readers' = readers \cup {p}
  /\ UNCHANGED <<levels, blocked, avLock, calls, stats, death, history>>

(* Mutant: the read lock is never given back.                              *)
DeleteExpiredKeepsLock(p, ks) ==
  LET Expired == {k \in ks : blocked[k] = "expired"}
  IN  /\ blocked' = [k \in Keys |-> IF k \in Expired THEN "no" ELSE blocked[k]]
      /\ UNCHANGED <<readers, death, levels, avLock, calls, stats, history>>

(* A delete from the map while another reader uses it: the runtime may     *)
(* notice and end the process.                                             *)
DeleteExpired(p, ks) ==
  LET Expired == {k \in ks : blocked[k] = "expired"}
  IN  /\ blocked' = [k \in Keys |-> IF k \in Expired THEN "no" ELSE blocked[k]]
      /\ \/ UNCHANGED death
         \/ Expired # {} /\ readers # {p} /\ death' = "mapRace"
      /\ readers' = readers \ {p}
      /\ UNCHANGED <<levels, avLock, calls, stats, history>>

IsBlockedKey(p) ==
  /\ At(p, "inBlocked")
  /\ Goto(p, IF blocked[Key(p)] = "fresh" THEN "idle" ELSE "shouldBlock")
  /\ DeleteExpired(p, {Key(p)})

PenetrationStats(p) ==
  At(p, "inStats") /\ Goto(p, "avStats") /\ DeleteExpired(p, Keys)

BlockedKeys == {k \in Keys : blocked[k] # "no"}

(* Mutant: the limit is off by one.                                        *)
AtLimitOffByOne == Cardinality(BlockedKeys) > MaxBlocked

AtLimit == Cardinality(BlockedKeys) >= MaxBlocked

RecordMiss(p) ==
  /\ At(p, "recordMiss") /\ readers = {}
  /\ blocked' = IF AtLimit THEN blocked ELSE [blocked EXCEPT ![Key(p)] = "fresh"]
  /\ Goto(p, "idle")
  /\ UNCHANGED <<levels, readers, avLock, calls, stats, death, history>>

(* Mutant: SetWithProtection forgets to clear the record.                  *)
ClearBlockedKeyNot(p) ==
  /\ At(p, "clearBlocked") /\ readers = {} /\ Goto(p, "setL1")
  /\ UNCHANGED <<levels, blocked, readers, avLock, calls, stats, death, history>>

ClearBlockedKey(p) ==
  /\ At(p, "clearBlocked") /\ readers = {} /\ Goto(p, "setL1")
  /\ blocked' = [blocked EXCEPT ![Key(p)] = "no"]
  /\ UNCHANGED <<levels, readers, avLock, calls, stats, death, history>>

(* blockDuration passes for a key.                                         *)
BlockExpires(k) ==
  /\ death = "none" /\ blocked[k] = "fresh"
  /\ blocked' = [blocked EXCEPT ![k] = "expired"]
  /\ UNCHANGED <<levels, readers, avLock, call, calls, stats, death, history>>

(* A waiting writer keeps new readers out.  Nothing calls RecordFailure,   *)
(* so ShouldBlock answers FALSE and only its lock matters.                 *)
ShouldBlock(p) ==
  /\ At(p, "shouldBlock") /\ avWaiting = {} /\ Goto(p, "getL1")
  /\ UNCHANGED <<levels, blocked, readers, avLock, calls, stats, death, history>>

RecordSuccess(p) ==
  /\ \/ At(p, "recordSuccess") /\ avReaders = {} /\ Goto(p, "idle") /\ UNCHANGED avWaiting
     \/ /\ At(p, "recordSuccess") /\ avReaders # {}
        /\ Goto(p, "lockSuccess") /\ avWaiting' = avWaiting \cup {p}
     \/ /\ At(p, "lockSuccess") /\ avReaders = {}
        /\ Goto(p, "idle") /\ avWaiting' = avWaiting \ {p}
  /\ UNCHANGED <<levels, blocked, readers, avReaders, calls, stats, death, history>>

(* AvalancheProtection.GetStats calls ShouldBlock with the read lock held: *)
(* it takes the lock twice and then gives both back.                       *)
AvalancheStats(p) ==
  /\ \/ /\ At(p, "avStats") /\ avWaiting = {}
        /\ Goto(p, "inAvStats") /\ avReaders' = avReaders \cup {p}
     \/ At(p, "inAvStats") /\ avWaiting = {} /\ Goto(p, "endAvStats") /\ UNCHANGED avReaders
     \/ At(p, "endAvStats") /\ Goto(p, "idle") /\ avReaders' = avReaders \ {p}
  /\ UNCHANGED <<levels, blocked, readers, avWaiting, calls, stats, death, history>>

-------------------------------------------------------------------------------
(* Manager.                                                                *)

Hit(p)  == Goto(p, IF call[p].prot THEN "recordSuccess" ELSE "idle")
Miss(p) == Goto(p, IF call[p].prot THEN "recordMiss" ELSE "idle")

(* Get and Exists in L1; a disabled L1 answers with an error.              *)
GetL1(p) ==
  /\ At(p, "getL1")
  /\ IF L1Enabled /\ l1[Key(p)] # 0 THEN Hit(p) ELSE Goto(p, "getL2")
  /\ UNCHANGED <<levels, blocked, readers, avLock, calls, stats, death, history>>

(* Any error of L2, not only a miss, is answered as a miss.                *)
GetL2(p) ==
  /\ At(p, "getL2")
  /\ \/ NilPanic(p) /\ UNCHANGED faulty
     \/ /\ mode = "disabled" \/ (mode = "redis" /\ l2[Key(p)] = 0)
        /\ Miss(p) /\ UNCHANGED <<faulty, death>>
     \/ /\ mode = "redis" /\ l2[Key(p)] # 0
        /\ call' = [call EXCEPT ![p] =
                      IF call[p].op = "exists" THEN Idle
                      ELSE [call[p] EXCEPT !.pc = "fill", !.val = l2[Key(p)]]]
        /\ UNCHANGED <<faulty, death>>
     \/ /\ mode = "redis" /\ Miss(p)
        /\ faulty' = [faulty EXCEPT ![Key(p)] = TRUE] /\ UNCHANGED death
  /\ UNCHANGED <<levels, blocked, readers, avLock, calls, stats, overlapped, plain>>

StoreL1(p, v) ==
  /\ l1' = IF L1Enabled THEN [l1 EXCEPT ![Key(p)] = v] ELSE l1
  /\ UNCHANGED <<mode, l2, ttl, blocked, readers, avLock, calls, stats, death, history>>

(* Get copies the value it found in L2 to L1.                              *)
Fill(p)  == At(p, "fill") /\ StoreL1(p, call[p].val) /\ Hit(p)
SetL1(p) == At(p, "setL1") /\ StoreL1(p, call[p].val) /\ Goto(p, "setL2")

(* Mutant: Delete leaves L1 alone.                                         *)
DelL1Not(p) == At(p, "delL1") /\ StoreL1(p, l1[Key(p)]) /\ Goto(p, "delL2")

DelL1(p) == At(p, "delL1") /\ StoreL1(p, 0) /\ Goto(p, "delL2")

(* Mutant: only the keys of the warm-up survive a Clear.                   *)
ClearL1Hot(p) ==
  /\ At(p, "clearL1") /\ Goto(p, "clearL2")
  /\ l1' = [k \in HotKeys |-> 0]
  /\ UNCHANGED <<mode, l2, ttl, blocked, readers, avLock, calls, stats, death, history>>

ClearL1(p) ==
  /\ At(p, "clearL1") /\ Goto(p, "clearL2")
  /\ l1' = [k \in Keys |-> 0]
  /\ UNCHANGED <<mode, l2, ttl, blocked, readers, avLock, calls, stats, death, history>>

(* A write to the keys ks of L2.  After an error of Redis it may have been *)
(* done or not; the caller logs the error and goes on.                     *)
WriteL2(p, ks, v, expires, next) ==
  LET Obey == /\ l2' = [k \in Keys |-> IF k \in ks THEN v ELSE l2[k]]
              /\ ttl' = [k \in Keys |-> IF k \in ks THEN expires ELSE ttl[k]]
  IN  /\ \/ NilPanic(p) /\ UNCHANGED <<l2, ttl, faulty>>
         \/ mode = "disabled" /\ next /\ UNCHANGED <<l2, ttl, faulty, death>>
         \/ mode = "redis" /\ next /\ Obey /\ UNCHANGED <<faulty, death>>
         \/ /\ mode \in {"redis", "closed"} /\ next /\ UNCHANGED death
            /\ UNCHANGED <<l2, ttl>> \/ (mode = "redis" /\ Obey)
            /\ faulty' = [k \in Keys |-> faulty[k] \/ k \in ks]
      /\ UNCHANGED <<mode, l1, blocked, readers, avLock, calls, stats, overlapped, plain>>

SetL2(p) == /\ At(p, "setL2")
            /\ WriteL2(p, {Key(p)}, call[p].val, call[p].op = "setTTL", NextKey(p, "setL1"))

DelL2(p) == At(p, "delL2") /\ WriteL2(p, {Key(p)}, 0, FALSE, NextKey(p, "delL1"))

ClearL2(p) == At(p, "clearL2") /\ WriteL2(p, Keys, 0, FALSE, Goto(p, "idle"))

(* An L1 entry leaves by its LifeWindow or for lack of room.               *)
EvictL1(k) ==
  /\ death = "none" /\ l1[k] # 0
  /\ l1' = [l1 EXCEPT ![k] = 0]
  /\ UNCHANGED <<mode, l2, ttl, blocked, readers, avLock, call, calls, stats, death, history>>

(* The TTL of an L2 entry passes.  L1 has no TTL and keeps its copy.       *)
ExpireL2(k) ==
  /\ death = "none" /\ ttl[k] /\ l2[k] # 0
  /\ l2' = [l2 EXCEPT ![k] = 0] /\ faulty' = [faulty EXCEPT ![k] = TRUE]
  /\ UNCHANGED <<mode, l1, ttl, blocked, readers, avLock, call, calls, stats, death,
                 overlapped, plain>>

-------------------------------------------------------------------------------
Request(p) ==
  \/ \E k \in SingleKeys :
       \/ setCache(p, k) \/ getCache(p, k) \/ setCacheJSON(p, k) \/ getCacheJSON(p, k)
       \/ deleteCache(p, k) \/ existsCache(p, k) \/ SetWithProtection(p, k)
       \/ SetWithTTL(p, k) \/ ScheduleInvalidation(p, k)
  \/ \E k \in Keys : GetWithProtection(p, k)
  \/ \E ks \in (SUBSET Keys) \ {{}} : invalidateCache(p, ks)
  \/ warmupCache(p) \/ getProtectionStats(p) \/ Clear(p)

(* A step of a call that has begun.                                        *)
Work(p) ==
  \/ Wake(p) \/ RLockBlocked(p) \/ IsBlockedKey(p) \/ PenetrationStats(p)
  \/ RecordMiss(p) \/ ClearBlockedKey(p) \/ ShouldBlock(p) \/ RecordSuccess(p)
  \/ AvalancheStats(p) \/ GetL1(p) \/ GetL2(p) \/ Fill(p) \/ SetL1(p) \/ SetL2(p)
  \/ DelL1(p) \/ DelL2(p) \/ ClearL1(p) \/ ClearL2(p)

Environment == \E k \in Keys : BlockExpires(k) \/ EvictL1(k) \/ ExpireL2(k)

Next == \/ \E p \in Clients : Request(p)
        \/ \E p \in Procs : Work(p)
        \/ Warmup \/ Close \/ Environment

Spec == Init /\ [][Next]_vars

(* The runtime schedules every goroutine, and Redis answers or times out.  *)
FairSpec == Spec /\ WF_vars(Warmup) /\ \A p \in Procs : WF_vars(Work(p))

-------------------------------------------------------------------------------
(* Once no call on a key is under way, its L1 copy is its L2 value, unless *)
(* calls on the key overlapped or Redis failed or expired it since the     *)
(* last write that ran alone: Get, Set, Delete, Clear, the loops and the   *)
(* scheduled deletion keep the two levels equal when used one at a time.   *)
SequentialCoherence ==
  \A k \in Keys : mode = "redis" /\ L1Enabled /\ Quiet(k) /\ ~overlapped[k] /\ ~faulty[k]
                    => l1[k] \in {0, l2[k]}

HasValue(k) == (L1Enabled /\ l1[k] # 0) \/ (mode = "redis" /\ l2[k] # 0)

(* A key with a value is not blocked as a known miss, unless it was set    *)
(* by a call that does not clear the block, calls overlapped on it, or its *)
(* entry in Redis expired or an operation of Redis on it failed (a read,   *)
(* whose error is taken for a miss, or a write), since the last write that *)
(* ran alone.                                                              *)
BlockedKeyHasNoValue ==
  \A k \in Keys : Quiet(k) /\ HasValue(k) /\ blocked[k] = "fresh"
                    => plain[k] \/ overlapped[k] \/ faulty[k]

(* RecordMiss keeps the table of blocked keys within maxBlockedKeys.       *)
BlockedWithinLimit == Cardinality(BlockedKeys) <= MaxBlocked

(* GetStats waits inside ShouldBlock for a writer that waits for it.       *)
StatsDeadlock == avWaiting # {} /\ \E p \in Procs : call[p].pc = "inAvStats"

(* Why the process may end: the race on the map of blocked keys, and a     *)
(* Redis that was unreachable when the process started.                    *)
EndsAsKnown == death = "mapRace" \/ (death = "nilL2" /\ mode = "nil")

(* Every call and the warm-up of main return, whatever Redis does, unless  *)
(* the process ends or GetStats deadlocks with RecordSuccess: no other     *)
(* wait is forever, and Redis failing later or being disabled ends         *)
(* nothing.                                                                *)
CallsReturn ==
  \A p \in Procs : call[p].pc # "idle" ~> call[p].pc = "idle" \/ EndsAsKnown \/ StatsDeadlock
================================================================================
