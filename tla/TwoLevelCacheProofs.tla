-------------------------- MODULE TwoLevelCacheProofs --------------------------
(***************************************************************************)
(* The safety of TwoLevelCache for any number of keys, goroutines and      *)
(* calls, any limit of blocked keys, with L1 enabled or not.               *)
(***************************************************************************)
EXTENDS TwoLevelCache, FiniteSetTheorems, TLAPS

-------------------------------------------------------------------------------
(* The calls there are: which steps each operation has and what it holds.  *)

StepsOf(op) ==
  CASE op = "get" -> {"isBlocked", "inBlocked", "shouldBlock", "getL1", "getL2", "fill",
                      "recordMiss", "recordSuccess", "lockSuccess"}
    [] op = "exists" -> {"getL1", "getL2"}
    [] op = "stats" -> {"stats", "inStats", "avStats", "inAvStats", "endAvStats"}
    [] op = "set" -> {"clearBlocked", "setL1", "setL2"}
    [] op = "setTTL" -> {"setL1", "setL2"}
    [] op \in {"delete", "scheduled"} -> {"delL1", "delL2"}
    [] op = "clear" -> {"clearL1", "clearL2"}
    [] op = "none" -> {"boot", "idle", "sleep"}

GoodCall ==
  {c \in Call :
    /\ c.pc \in StepsOf(c.op)
    /\ c.op \notin {"none", "stats"} \/ c.pc = "sleep" => c.key \in Keys
    /\ c.op = "stats" => c.key = NoKey
    /\ c.op \notin Writes \/ c.pc = "clearBlocked" => c.todo = {}
    /\ c.op = "exists" => ~c.prot
    /\ c.op = "clear" => c.todo = Keys \ {c.key}}

CallsInv == call \in [Procs -> GoodCall]

LevelTypes ==
  /\ mode \in {"redis", "disabled", "nil", "closed"}
  /\ l1 \in [Keys -> Values] /\ l2 \in [Keys -> Values] /\ ttl \in [Keys -> BOOLEAN]

LockTypes ==
  /\ blocked \in [Keys -> {"no", "fresh", "expired"}]
  /\ readers \subseteq Procs /\ avReaders \subseteq Procs /\ avWaiting \subseteq Procs

OtherTypes ==
  /\ calls \in 0..MaxCalls /\ stats \in 0..MaxStats /\ death \in {"none", "nilL2", "mapRace"}
  /\ overlapped \in [Keys -> BOOLEAN] /\ faulty \in [Keys -> BOOLEAN] /\ plain \in [Keys -> BOOLEAN]

BaseInv == CallsInv /\ LevelTypes /\ LockTypes /\ OtherTypes


LEMMA BaseGivesTypes == BaseInv => TypeOK
  BY DEF BaseInv, CallsInv, GoodCall, LevelTypes, LockTypes, OtherTypes, TypeOK

(* The operation a step belongs to.                                        *)
LEMMA OpOfStep ==
  ASSUME NEW c \in GoodCall
  PROVE  /\ c.pc \in {"boot", "idle", "sleep"} <=> c.op = "none"
         /\ c.pc \in {"setL1", "setL2"} => c.op \in {"set", "setTTL"}
         /\ c.pc = "clearBlocked" => c.op = "set"
         /\ c.pc \in {"delL1", "delL2"} => c.op \in {"delete", "scheduled"}
         /\ c.pc \in {"clearL1", "clearL2"} => c.op = "clear"
         /\ c.pc \in {"getL1", "getL2"} => c.op \in {"get", "exists"}
         /\ c.pc \in {"isBlocked", "inBlocked", "shouldBlock", "fill", "recordMiss",
                      "recordSuccess", "lockSuccess"} => c.op = "get"
         /\ c.pc \in {"stats", "inStats", "avStats", "inAvStats", "endAvStats"} => c.op = "stats"
  BY DEF GoodCall, Call, StepsOf, Writes

LEMMA IdleIsGood ==
  /\ Idle \in GoodCall /\ Idle.pc = "idle" /\ Idle.op = "none" /\ Idle.todo = {}
  /\ [Idle EXCEPT !.pc = "boot"] \in GoodCall
  /\ \A k \in Keys : [Idle EXCEPT !.pc = "sleep", !.key = k] \in GoodCall
<1>1. 0 \in Values
  BY LimitsAssumption DEF Values, Hot
<1>2. Idle \in GoodCall /\ Idle.pc = "idle" /\ Idle.op = "none" /\ Idle.todo = {}
  BY <1>1 DEF Idle, GoodCall, Call, StepsOf, Writes
<1>3. [Idle EXCEPT !.pc = "boot"] \in GoodCall
  BY <1>1 DEF Idle, GoodCall, Call, StepsOf, Writes
<1>4. ASSUME NEW k \in Keys PROVE [Idle EXCEPT !.pc = "sleep", !.key = k] \in GoodCall
  BY <1>1, <1>4 DEF Idle, GoodCall, Call, StepsOf, Writes
<1> QED BY <1>2, <1>3, <1>4

LEMMA InitBase == Init => BaseInv
<1> SUFFICES ASSUME Init PROVE BaseInv
  OBVIOUS
<1>1. CallsInv
  BY IdleIsGood DEF Init, CallsInv
<1>2. LevelTypes
  BY LimitsAssumption DEF Init, LevelTypes, Values, Hot
<1>3. LockTypes
  BY DEF Init, LockTypes
<1>4. OtherTypes
  BY LimitsAssumption DEF Init, OtherTypes
<1> QED BY <1>1, <1>2, <1>3, <1>4 DEF BaseInv

LEMMA CallBecomes ==
  ASSUME BaseInv, NEW p \in Procs, NEW d \in GoodCall, call' = [call EXCEPT ![p] = d]
  PROVE  CallsInv' /\ call'[p] = d /\ \A q \in Procs \ {p} : call'[q] = call[q]
  BY DEF BaseInv, CallsInv

LEMMA CallIsGood ==
  ASSUME BaseInv, NEW p \in Procs
  PROVE  call[p] \in GoodCall /\ call[p] \in Call
  BY DEF BaseInv, CallsInv, GoodCall

-------------------------------------------------------------------------------
(* How calls begin.                                                        *)

(* The operations the program enters, and on what.                         *)
GoodEntry(o, protected, ks, v, first) ==
  /\ ks \subseteq Keys /\ v \in Values /\ protected \in BOOLEAN /\ o # "none"
  /\ o \in {"get", "exists", "stats"} \cup Writes
  /\ first \in {"isBlocked", "getL1", "stats", "clearBlocked", "setL1", "delL1", "clearL1"}
  /\ first \in StepsOf(o)
  /\ o = "stats" <=> ks = {}
  /\ o \notin Writes \/ first = "clearBlocked" => \A j, k \in ks : j = k
  /\ o = "exists" => ~protected
  /\ o = "clear" => ks = Keys
  /\ o = "set" /\ first = "setL1" => ~protected
  /\ o = "setTTL" => ~protected

(* What p holds once it has entered.                                       *)
Entered(d, o, ks, v, first) ==
  /\ d.op = o /\ d.pc = first /\ d.val = v
  /\ ({d.key} \cup d.todo) \ {NoKey} = ks

LEMMA EntryCall ==
  ASSUME BaseInv, NEW p \in Procs, NEW o, NEW protected, NEW ks, NEW v, NEW first,
         GoodEntry(o, protected, ks, v, first), Enter(p, o, protected, ks, v, first)
  PROVE  \E d \in GoodCall : call' = [call EXCEPT ![p] = d] /\ Entered(d, o, ks, v, first)
<1>1. PICK k \in IF ks = {} THEN {NoKey} ELSE ks :
        call' = [call EXCEPT ![p] = [pc |-> first, op |-> o, prot |-> protected, key |-> k,
                                     todo |-> ks \ {k}, val |-> v]]
  BY DEF Enter
<1> DEFINE d == [pc |-> first, op |-> o, prot |-> protected, key |-> k, todo |-> ks \ {k}, val |-> v]
<1>2. k \in Keys \cup {NoKey} /\ (k = NoKey <=> ks = {}) /\ NoKey \notin ks
  BY KeysAssumption DEF GoodEntry
<1>3. d \in Call
  BY <1>2 DEF GoodEntry, Call
<1>4. d \in GoodCall
  BY <1>2, <1>3 DEF GoodCall, GoodEntry, StepsOf
<1>5. Entered(d, o, ks, v, first)
  BY <1>1, <1>2 DEF Entered
<1> QED BY <1>1, <1>4, <1>5

(* A call begins when p does nothing else on the cache.                    *)
Begins(p) ==
  \E o, protected, ks, v, first :
    /\ GoodEntry(o, protected, ks, v, first) /\ Enter(p, o, protected, ks, v, first)
    /\ call[p].op = "none"
    /\ calls' \in 0..MaxCalls /\ stats' \in 0..MaxStats

(* Every request begins a call, or a goroutine that sleeps.                *)
LEMMA RequestBegins ==
  ASSUME BaseInv, NEW p \in Clients, Request(p)
  PROVE  Begins(p) \/ \E k \in Keys : ScheduleInvalidation(p, k)
<1>t. /\ SingleKeys \subseteq Keys /\ HotKeys \subseteq Keys /\ HotKeys # {} /\ MaxCalls \in Nat
      /\ calls \in 0..MaxCalls /\ stats \in 0..MaxStats /\ MaxStats \in Nat /\ p \in Procs
  BY KeysAssumption, LimitsAssumption DEF BaseInv, OtherTypes, Procs
<1>1. MayCall(p) => call[p].op = "none"
  BY <1>t, CallIsGood, OpOfStep DEF MayCall, At
<1>2. ASSUME NEW o, NEW protected, NEW ks, NEW first, Begin(p, o, protected, ks, first),
             \A v \in Values : GoodEntry(o, protected, ks, v, first)
      PROVE  Begins(p)
  <2> DEFINE v == IF o \in {"set", "setTTL"} THEN calls + 1 ELSE 0
  <2>1. calls < MaxCalls /\ calls' = calls + 1 /\ stats' = stats /\ MayCall(p)
        /\ Enter(p, o, protected, ks, v, first)
    BY <1>2 DEF Begin
  <2>2. v \in Values
    BY <1>t, <2>1 DEF Values, Hot
  <2>3. calls' \in 0..MaxCalls /\ stats' \in 0..MaxStats
    BY <1>t, <2>1
  <2> HIDE DEF v
  <2> QED BY <1>1, <1>2, <2>1, <2>2, <2>3 DEF Begins
<1>3. ASSUME NEW k \in Keys,
             \/ setCache(p, k) \/ getCache(p, k) \/ setCacheJSON(p, k) \/ getCacheJSON(p, k)
             \/ deleteCache(p, k) \/ existsCache(p, k) \/ SetWithProtection(p, k)
             \/ SetWithTTL(p, k) \/ GetWithProtection(p, k)
      PROVE  Begins(p)
  <2>1. CASE Begin(p, "set", FALSE, {k}, "setL1")
    <3>1. \A v \in Values : GoodEntry("set", FALSE, {k}, v, "setL1")
      BY <1>t DEF GoodEntry, StepsOf, Writes
    <3> QED BY <1>2, <2>1, <3>1
  <2>2. CASE Begin(p, "get", FALSE, {k}, "getL1")
    <3>1. \A v \in Values : GoodEntry("get", FALSE, {k}, v, "getL1")
      BY <1>t DEF GoodEntry, StepsOf, Writes
    <3> QED BY <1>2, <2>2, <3>1
  <2>3. CASE Begin(p, "delete", FALSE, {k}, "delL1")
    <3>1. \A v \in Values : GoodEntry("delete", FALSE, {k}, v, "delL1")
      BY <1>t DEF GoodEntry, StepsOf, Writes
    <3> QED BY <1>2, <2>3, <3>1
  <2>4. CASE Begin(p, "exists", FALSE, {k}, "getL1")
    <3>1. \A v \in Values : GoodEntry("exists", FALSE, {k}, v, "getL1")
      BY <1>t DEF GoodEntry, StepsOf, Writes
    <3> QED BY <1>2, <2>4, <3>1
  <2>5. CASE Begin(p, "set", TRUE, {k}, "clearBlocked")
    <3>1. \A v \in Values : GoodEntry("set", TRUE, {k}, v, "clearBlocked")
      BY <1>t DEF GoodEntry, StepsOf, Writes
    <3> QED BY <1>2, <2>5, <3>1
  <2>6. CASE Begin(p, "setTTL", FALSE, {k}, "setL1")
    <3>1. \A v \in Values : GoodEntry("setTTL", FALSE, {k}, v, "setL1")
      BY <1>t DEF GoodEntry, StepsOf, Writes
    <3> QED BY <1>2, <2>6, <3>1
  <2>7. CASE Begin(p, "get", TRUE, {k}, "isBlocked")
    <3>1. \A v \in Values : GoodEntry("get", TRUE, {k}, v, "isBlocked")
      BY <1>t DEF GoodEntry, StepsOf, Writes
    <3> QED BY <1>2, <2>7, <3>1
  <2> QED BY <1>3, <2>1, <2>2, <2>3, <2>4, <2>5, <2>6, <2>7
       DEF setCache, getCache, setCacheJSON, getCacheJSON, SetJSON, GetJSON, deleteCache,
           existsCache, SetWithProtection, SetWithTTL, GetWithProtection, Set, Get, Delete, Exists
<1>4. ASSUME NEW ks \in (SUBSET Keys) \ {{}}, invalidateCache(p, ks)
      PROVE  Begins(p)
  <2>0. ks \subseteq Keys /\ ks # {}
    OBVIOUS
  <2>1. \A v \in Values : GoodEntry("delete", FALSE, ks, v, "delL1")
    BY <2>0 DEF GoodEntry, StepsOf, Writes
  <2> QED BY <1>2, <1>4, <2>1 DEF invalidateCache, BatchInvalidate
<1>5. ASSUME warmupCache(p)
      PROVE  Begins(p)
  <2>1. \A v \in Values : GoodEntry("set", FALSE, HotKeys, v, "setL1")
    BY <1>t DEF GoodEntry, StepsOf, Writes
  <2> QED BY <1>2, <1>5, <2>1 DEF warmupCache
<1>6. ASSUME Clear(p)
      PROVE  Begins(p)
  <2>1. \A v \in Values : GoodEntry("clear", FALSE, Keys, v, "clearL1")
    BY <1>t DEF GoodEntry, StepsOf, Writes
  <2> QED BY <1>2, <1>6, <2>1 DEF Clear
<1>7. ASSUME getProtectionStats(p)
      PROVE  Begins(p)
  <2>1. GoodEntry("stats", FALSE, {}, 0, "stats")
    BY LimitsAssumption DEF GoodEntry, StepsOf, Writes, Values, Hot
  <2>2. calls' \in 0..MaxCalls /\ stats' \in 0..MaxStats
    BY <1>t, <1>7 DEF getProtectionStats
  <2> QED BY <1>1, <1>7, <2>1, <2>2 DEF getProtectionStats, Begins
<1> QED BY <1>t, <1>3, <1>4, <1>5, <1>6, <1>7 DEF Request

LEMMA WarmupBegins ==
  ASSUME BaseInv, Warmup
  PROVE  Main \in Procs /\ Begins(Main)
<1>1. GoodEntry("set", FALSE, HotKeys, Hot, "setL1")
  BY KeysAssumption, LimitsAssumption DEF GoodEntry, StepsOf, Writes, Values, Hot
<1>2. Main \in Procs /\ call[Main].op = "none"
  <2>1. Main \in Procs
    BY DEF Procs
  <2> QED BY <2>1, CallIsGood, OpOfStep DEF Warmup, At
<1>3. calls' \in 0..MaxCalls /\ stats' \in 0..MaxStats
  BY DEF Warmup, BaseInv, OtherTypes
<1> QED BY <1>1, <1>2, <1>3 DEF Warmup, Begins

LEMMA WakeBegins ==
  ASSUME BaseInv, NEW p \in Procs, Wake(p)
  PROVE  Begins(p)
<1>1. Key(p) \in Keys /\ call[p].op = "none"
  BY CallIsGood, OpOfStep DEF Wake, At, GoodCall, Key
<1>2. GoodEntry("scheduled", FALSE, {Key(p)}, 0, "delL1")
  BY <1>1, LimitsAssumption DEF GoodEntry, StepsOf, Writes, Values, Hot
<1>3. calls' \in 0..MaxCalls /\ stats' \in 0..MaxStats
  BY DEF Wake, BaseInv, OtherTypes
<1> QED BY <1>1, <1>2, <1>3 DEF Wake, Begins

-------------------------------------------------------------------------------
(* How calls go on.                                                        *)

LEMMA GoesTo ==
  ASSUME BaseInv, NEW p \in Procs, call[p].op # "none",
         NEW step \in StepsOf(call[p].op) \cup {"idle"}, step # "clearBlocked", Goto(p, step)
  PROVE  \E d \in GoodCall :
           /\ call' = [call EXCEPT ![p] = d]
           /\ IF step = "idle" THEN d = Idle
              ELSE /\ d.pc = step /\ d.op = call[p].op /\ d.key = call[p].key
                   /\ d.todo = call[p].todo /\ d.val = call[p].val /\ d.prot = call[p].prot
<1>1. CASE step = "idle"
  BY <1>1, IdleIsGood DEF Goto
<1>2. CASE step # "idle"
  <2> DEFINE d == [call[p] EXCEPT !.pc = step]
  <2>1. call[p] \in GoodCall /\ call[p] \in Call
    BY CallIsGood
  <2>2. step \in {"boot", "idle", "sleep", "isBlocked", "inBlocked", "shouldBlock", "getL1",
               "getL2", "fill", "recordMiss", "recordSuccess", "lockSuccess",
               "clearBlocked", "setL1", "setL2", "delL1", "delL2", "clearL1", "clearL2",
               "stats", "inStats", "avStats", "inAvStats", "endAvStats"}
    BY <1>2, <2>1 DEF StepsOf, Call, Writes
  <2>3. d \in Call
    BY <2>1, <2>2 DEF Call
  <2>4. /\ d.pc = step /\ d.op = call[p].op /\ d.key = call[p].key
        /\ d.todo = call[p].todo /\ d.val = call[p].val /\ d.prot = call[p].prot
    BY <2>1 DEF Call
  <2>5. step # "sleep"
    BY <1>2, <2>1 DEF StepsOf, Call, Writes
  <2> HIDE DEF d
  <2>6. d \in GoodCall
    BY <1>2, <2>1, <2>3, <2>4, <2>5 DEF GoodCall
  <2>7. call' = [call EXCEPT ![p] = d]
    BY <1>2 DEF Goto, d
  <2> QED BY <1>2, <2>4, <2>6, <2>7
<1> QED BY <1>1, <1>2

(* The loops over several keys.                                            *)
LEMMA NextKeyGoes ==
  ASSUME BaseInv, NEW p \in Procs, NEW first, NextKey(p, first),
         \/ call[p].op \in {"set", "setTTL"} /\ first = "setL1"
         \/ call[p].op \in {"delete", "scheduled"} /\ first = "delL1"
  PROVE  \E d \in GoodCall :
           /\ call' = [call EXCEPT ![p] = d]
           /\ \/ d = Idle /\ call[p].todo = {}
              \/ /\ d.pc = first /\ d.op = call[p].op /\ d.key \in call[p].todo
                 /\ d.todo = call[p].todo \ {d.key}
<1>t. call[p] \in GoodCall /\ call[p] \in Call
  BY CallIsGood
<1>1. CASE call[p].todo = {} /\ Goto(p, "idle")
  BY <1>1, IdleIsGood DEF Goto
<1>2. ASSUME NEW k \in call[p].todo,
             call' = [call EXCEPT ![p] = [call[p] EXCEPT !.pc = first, !.key = k, !.todo = @ \ {k}]]
      PROVE  \E d \in GoodCall :
               /\ call' = [call EXCEPT ![p] = d]
               /\ d.pc = first /\ d.op = call[p].op /\ d.key \in call[p].todo
               /\ d.todo = call[p].todo \ {d.key}
  <2> DEFINE d == [call[p] EXCEPT !.pc = first, !.key = k, !.todo = call[p].todo \ {k}]
  <2>1. k \in Keys /\ d \in Call
    BY <1>t DEF Call
  <2>2. d.pc = first /\ d.op = call[p].op /\ d.key = k /\ d.todo = call[p].todo \ {k}
    BY <1>t DEF Call
  <2>3. call' = [call EXCEPT ![p] = d]
    BY <1>2
  <2> HIDE DEF d
  <2>4. d \in GoodCall
    BY <1>t, <2>1, <2>2 DEF GoodCall, StepsOf, Writes
  <2> QED BY <2>2, <2>3, <2>4
<1> QED BY <1>1, <1>2 DEF NextKey

(* A call of a nil pointer, or a write to Redis, ends the step there or    *)
(* goes on.                                                                *)
LEMMA NilPanicEnds ==
  ASSUME BaseInv, NEW p \in Procs, NilPanic(p)
  PROVE  /\ call' = [call EXCEPT ![p] = Idle] /\ mode = "nil"
         /\ death' \in {"none", "nilL2", "mapRace"}
  BY DEF NilPanic, Goto

-------------------------------------------------------------------------------
(* Types.                                                                  *)

(* The keys a call is about.                                               *)
Held(c) == IF c.op = "none" THEN {} ELSE {k \in Keys : k = c.key \/ k \in c.todo}

(* The call of p goes on with what it is about, or with less.              *)
Proceeds(p) ==
  \E d \in GoodCall : call' = [call EXCEPT ![p] = d] /\ Held(d) \subseteq Held(call[p])

LEMMA WorkCall ==
  ASSUME BaseInv, NEW p \in Procs, Work(p), ~Wake(p)
  PROVE  Proceeds(p) /\ call[p].op # "none"
<1>t. call[p] \in GoodCall /\ call[p] \in Call
  BY CallIsGood
<1>o. /\ call[p].pc \in {"setL1", "setL2"} => call[p].op \in {"set", "setTTL"}
      /\ call[p].pc = "clearBlocked" => call[p].op = "set"
      /\ call[p].pc \in {"delL1", "delL2"} => call[p].op \in {"delete", "scheduled"}
      /\ call[p].pc \in {"clearL1", "clearL2"} => call[p].op = "clear"
      /\ call[p].pc \in {"getL1", "getL2"} => call[p].op \in {"get", "exists"}
      /\ call[p].pc \in {"isBlocked", "inBlocked", "shouldBlock", "fill", "recordMiss",
                         "recordSuccess", "lockSuccess"} => call[p].op = "get"
      /\ call[p].pc \in {"stats", "inStats", "avStats", "inAvStats", "endAvStats"}
           => call[p].op = "stats"
  BY <1>t, OpOfStep
<1>1. ASSUME NEW step, Goto(p, step), call[p].op # "none", step # "clearBlocked",
             step \in StepsOf(call[p].op) \cup {"idle"}
      PROVE  Proceeds(p) /\ call[p].op # "none"
  <2>1. PICK d \in GoodCall :
          /\ call' = [call EXCEPT ![p] = d]
          /\ \/ d = Idle
             \/ d.op = call[p].op /\ d.key = call[p].key /\ d.todo = call[p].todo
    BY <1>1, GoesTo
  <2>2. Held(d) \subseteq Held(call[p])
    BY <2>1, IdleIsGood DEF Held
  <2> QED BY <1>1, <2>1, <2>2 DEF Proceeds
<1>e. ASSUME call' = [call EXCEPT ![p] = Idle]
      PROVE  Proceeds(p)
  BY <1>e, IdleIsGood DEF Proceeds, Held
<1>2. CASE RLockBlocked(p)
  BY <1>o, <1>1, <1>2 DEF RLockBlocked, At, StepsOf
<1>3. CASE IsBlockedKey(p) \/ PenetrationStats(p) \/ RecordMiss(p)
  BY <1>o, <1>1, <1>3 DEF IsBlockedKey, PenetrationStats, RecordMiss, At, StepsOf
<1>4. CASE ClearBlockedKey(p) \/ ShouldBlock(p) \/ RecordSuccess(p) \/ AvalancheStats(p)
  BY <1>o, <1>1, <1>4 DEF ClearBlockedKey, ShouldBlock, RecordSuccess, AvalancheStats, At, StepsOf
<1>5. ASSUME Hit(p) \/ Miss(p), call[p].op \in {"get", "exists"}
      PROVE  Proceeds(p) /\ call[p].op # "none"
  <2>1. call[p].op = "exists" => ~call[p].prot
    BY <1>t DEF GoodCall
  <2> QED BY <1>1, <1>5, <2>1 DEF Hit, Miss, StepsOf
<1>6. CASE GetL1(p)
  BY <1>o, <1>1, <1>5, <1>6 DEF GetL1, At, StepsOf
<1>7. CASE GetL2(p)
  <2>1. call[p].op \in {"get", "exists"} /\ call[p].pc = "getL2"
    BY <1>o, <1>7 DEF GetL2, At
  <2>2. CASE NilPanic(p)
    BY <1>e, <2>1, <2>2, NilPanicEnds
  <2>3. CASE Miss(p)
    BY <1>5, <2>1, <2>3
  <2>4. CASE call' = [call EXCEPT ![p] = IF call[p].op = "exists" THEN Idle
                        ELSE [call[p] EXCEPT !.pc = "fill", !.val = l2[Key(p)]]]
    <3>1. CASE call[p].op = "exists"
      BY <1>e, <2>1, <2>4, <3>1
    <3>2. CASE call[p].op = "get"
      <4> DEFINE d == [call[p] EXCEPT !.pc = "fill", !.val = l2[Key(p)]]
      <4>1. call[p].key \in Keys
        BY <1>t, <2>1 DEF GoodCall
      <4>2. l2[Key(p)] \in Values
        BY <4>1 DEF BaseInv, LevelTypes, Key
      <4>3. d \in GoodCall
        BY <1>t, <3>2, <4>1, <4>2 DEF GoodCall, Call, StepsOf, Writes
      <4>4. call' = [call EXCEPT ![p] = d]
        BY <2>4, <3>2
      <4>5. Held(d) \subseteq Held(call[p])
        BY <1>t DEF Held, Call
      <4> HIDE DEF d
      <4> QED BY <2>1, <4>3, <4>4, <4>5 DEF Proceeds
    <3> QED BY <2>1, <3>1, <3>2
  <2> QED BY <1>7, <2>2, <2>3, <2>4 DEF GetL2
<1>8. CASE Fill(p) \/ SetL1(p) \/ DelL1(p) \/ ClearL1(p)
  BY <1>o, <1>1, <1>5, <1>8 DEF Fill, SetL1, DelL1, ClearL1, At, StepsOf
<1>n. ASSUME NilPanic(p)
      PROVE  Proceeds(p)
  BY <1>e, <1>n, NilPanicEnds
<1>k. ASSUME NEW first, NextKey(p, first),
             \/ call[p].op \in {"set", "setTTL"} /\ first = "setL1"
             \/ call[p].op \in {"delete", "scheduled"} /\ first = "delL1"
      PROVE  Proceeds(p)
  <2>1. PICK d \in GoodCall :
          /\ call' = [call EXCEPT ![p] = d]
          /\ \/ d = Idle
             \/ /\ d.op = call[p].op /\ d.key \in call[p].todo
                /\ d.todo = call[p].todo \ {d.key}
    BY <1>k, NextKeyGoes
  <2>2. Held(d) \subseteq Held(call[p])
    BY <2>1, IdleIsGood DEF Held
  <2> QED BY <2>1, <2>2 DEF Proceeds
<1>9. CASE SetL2(p)
  <2>1. call[p].op \in {"set", "setTTL"} /\ (NilPanic(p) \/ NextKey(p, "setL1"))
    BY <1>o, <1>9 DEF SetL2, WriteL2, At
  <2> QED BY <1>n, <1>k, <2>1
<1>10. CASE DelL2(p)
  <2>1. call[p].op \in {"delete", "scheduled"} /\ (NilPanic(p) \/ NextKey(p, "delL1"))
    BY <1>o, <1>10 DEF DelL2, WriteL2, At
  <2> QED BY <1>n, <1>k, <2>1
<1>11. CASE ClearL2(p)
  <2>1. call[p].op = "clear" /\ (NilPanic(p) \/ Goto(p, "idle"))
    BY <1>o, <1>11 DEF ClearL2, WriteL2, At
  <2> QED BY <1>n, <1>1, <2>1
<1> QED BY <1>2, <1>3, <1>4, <1>6, <1>7, <1>8, <1>9, <1>10, <1>11 DEF Work

LEMMA WorkTypes ==
  ASSUME BaseInv, NEW p \in Procs, Work(p), ~Wake(p)
  PROVE  LevelTypes' /\ LockTypes' /\ OtherTypes'
<1>t. /\ call[p] \in GoodCall /\ call[p] \in Call
      /\ LevelTypes /\ LockTypes /\ OtherTypes
  BY CallIsGood DEF BaseInv
<1> USE DEF levels, avLock, history
<1>1. CASE RLockBlocked(p)
  BY <1>t, <1>1 DEF RLockBlocked, LevelTypes, LockTypes, OtherTypes
<1>2. ASSUME NEW ks, DeleteExpired(p, ks)
      PROVE  LevelTypes' /\ LockTypes' /\ OtherTypes'
  <2>1. blocked' \in [Keys -> {"no", "fresh", "expired"}]
    BY <1>t, <1>2 DEF DeleteExpired, LockTypes
  <2> QED BY <1>t, <1>2, <2>1 DEF DeleteExpired, LevelTypes, LockTypes, OtherTypes
<1>3. CASE IsBlockedKey(p) \/ PenetrationStats(p)
  BY <1>2, <1>3 DEF IsBlockedKey, PenetrationStats
<1>4. CASE RecordMiss(p) \/ ClearBlockedKey(p)
  <2>1. blocked' \in [Keys -> {"no", "fresh", "expired"}]
    BY <1>t, <1>4 DEF RecordMiss, ClearBlockedKey, LockTypes
  <2> QED BY <1>t, <1>4, <2>1
       DEF RecordMiss, ClearBlockedKey, LevelTypes, LockTypes, OtherTypes
<1>5. CASE ShouldBlock(p) \/ RecordSuccess(p) \/ AvalancheStats(p)
  BY <1>t, <1>5 DEF ShouldBlock, RecordSuccess, AvalancheStats, LevelTypes, LockTypes, OtherTypes
<1>6. CASE GetL1(p)
  BY <1>t, <1>6 DEF GetL1, LevelTypes, LockTypes, OtherTypes
<1>7. CASE GetL2(p)
  <2>1. death' \in {"none", "nilL2", "mapRace"}
    BY <1>t, <1>7 DEF GetL2, NilPanic, OtherTypes
  <2>2. faulty' \in [Keys -> BOOLEAN]
    <3>1. CASE faulty' = faulty
      BY <1>t, <3>1 DEF OtherTypes
    <3>2. CASE faulty' = [faulty EXCEPT ![Key(p)] = TRUE]
      BY <1>t, <3>2 DEF OtherTypes
    <3> QED BY <1>7, <3>1, <3>2 DEF GetL2
  <2> QED BY <1>t, <1>7, <2>1, <2>2 DEF GetL2, LevelTypes, LockTypes, OtherTypes
<1>8. ASSUME NEW v \in Values, StoreL1(p, v)
      PROVE  LevelTypes' /\ LockTypes' /\ OtherTypes'
  <2>1. l1' \in [Keys -> Values]
    BY <1>t, <1>8 DEF StoreL1, LevelTypes
  <2> QED BY <1>t, <1>8, <2>1 DEF StoreL1, LevelTypes, LockTypes, OtherTypes
<1>9. call[p].val \in Values /\ 0 \in Values
  BY <1>t, LimitsAssumption DEF Call, Values, Hot
<1>10. CASE Fill(p) \/ SetL1(p) \/ DelL1(p)
  BY <1>8, <1>9, <1>10 DEF Fill, SetL1, DelL1
<1>11. CASE ClearL1(p)
  <2>1. l1' \in [Keys -> Values]
    BY <1>9, <1>11 DEF ClearL1
  <2> QED BY <1>t, <1>11, <2>1 DEF ClearL1, LevelTypes, LockTypes, OtherTypes
<1>12. ASSUME NEW ks, NEW v \in Values, NEW expires \in BOOLEAN, NEW next \in BOOLEAN,
              WriteL2(p, ks, v, expires, next)
       PROVE  LevelTypes' /\ LockTypes' /\ OtherTypes'
  <2>1. l2' \in [Keys -> Values] /\ ttl' \in [Keys -> BOOLEAN]
    <3>1. CASE UNCHANGED <<l2, ttl>>
      BY <1>t, <3>1 DEF LevelTypes
    <3>2. CASE /\ l2' = [k \in Keys |-> IF k \in ks THEN v ELSE l2[k]]
               /\ ttl' = [k \in Keys |-> IF k \in ks THEN expires ELSE ttl[k]]
      <4>1. l2' \in [Keys -> Values]
        BY <1>t, <3>2 DEF LevelTypes
      <4>2. ttl' \in [Keys -> BOOLEAN]
        BY <1>t, <3>2 DEF LevelTypes
      <4> QED BY <4>1, <4>2
    <3> QED BY <1>12, <3>1, <3>2 DEF WriteL2
  <2>2. death' \in {"none", "nilL2", "mapRace"}
    BY <1>t, <1>12 DEF WriteL2, NilPanic, OtherTypes
  <2>3. faulty' \in [Keys -> BOOLEAN]
    <3>1. CASE faulty' = faulty
      BY <1>t, <3>1 DEF OtherTypes
    <3>2. CASE faulty' = [k \in Keys |-> faulty[k] \/ k \in ks]
      BY <3>2
    <3> QED BY <1>12, <3>1, <3>2 DEF WriteL2
  <2>4. UNCHANGED <<mode, l1, blocked, readers, avLock, calls, stats, overlapped, plain>>
    BY <1>12 DEF WriteL2
  <2> QED BY <1>t, <2>1, <2>2, <2>3, <2>4 DEF LevelTypes, LockTypes, OtherTypes
<1>13. CASE SetL2(p)
  <2> DEFINE next == NextKey(p, "setL1")
             expires == call[p].op = "setTTL"
  <2>1. WriteL2(p, {Key(p)}, call[p].val, expires, next)
    BY <1>13 DEF SetL2
  <2>2. next \in BOOLEAN /\ expires \in BOOLEAN
    BY DEF NextKey, Goto
  <2> HIDE DEF next, expires
  <2> QED BY <1>9, <1>12, <2>1, <2>2
<1>14. CASE DelL2(p)
  <2> DEFINE next == NextKey(p, "delL1")
  <2>1. WriteL2(p, {Key(p)}, 0, FALSE, next) /\ next \in BOOLEAN
    BY <1>14 DEF DelL2, NextKey, Goto
  <2> HIDE DEF next
  <2> QED BY <1>9, <1>12, <2>1
<1>15. CASE ClearL2(p)
  <2> DEFINE next == Goto(p, "idle")
  <2>1. WriteL2(p, Keys, 0, FALSE, next) /\ next \in BOOLEAN
    BY <1>15 DEF ClearL2, Goto
  <2> HIDE DEF next
  <2> QED BY <1>9, <1>12, <2>1
<1> QED BY <1>1, <1>3, <1>4, <1>5, <1>6, <1>7, <1>10, <1>11, <1>13, <1>14, <1>15 DEF Work

LEMMA BeginsBase ==
  ASSUME BaseInv, NEW p \in Procs, Begins(p)
  PROVE  BaseInv'
<1>1. PICK o, protected, ks, v, first :
        /\ GoodEntry(o, protected, ks, v, first) /\ Enter(p, o, protected, ks, v, first)
        /\ calls' \in 0..MaxCalls /\ stats' \in 0..MaxStats
  BY DEF Begins
<1>2. CallsInv'
  BY <1>1, EntryCall, CallBecomes
<1>3. overlapped' \in [Keys -> BOOLEAN] /\ faulty' \in [Keys -> BOOLEAN]
  BY <1>1 DEF Enter, NoteBegin
<1>4. plain' \in [Keys -> BOOLEAN]
  <2>1. \A k \in Keys : (IF k \in ks /\ o \in {"set", "setTTL"} THEN ~protected ELSE plain[k]) \in BOOLEAN
    BY DEF BaseInv, OtherTypes
  <2> QED BY <1>1, <2>1 DEF Enter
<1>5. UNCHANGED <<levels, blocked, readers, avLock, death>>
  BY <1>1 DEF Enter
<1> QED BY <1>1, <1>2, <1>3, <1>4, <1>5
     DEF BaseInv, LevelTypes, LockTypes, OtherTypes, levels, avLock

(* What a step can be: the beginning of a call, the step of one, or the    *)
(* passing of time.                                                        *)
LEMMA StepCases ==
  ASSUME BaseInv, [Next]_vars
  PROVE  \/ \E p \in Procs : Begins(p)
         \/ \E p \in Procs, k \in Keys : ScheduleInvalidation(p, k)
         \/ \E p \in Procs : Work(p) /\ ~Wake(p)
         \/ Close
         \/ \E k \in Keys : BlockExpires(k)
         \/ \E k \in Keys : EvictL1(k)
         \/ \E k \in Keys : ExpireL2(k)
         \/ UNCHANGED vars
<1>1. ASSUME NEW p \in Clients, Request(p)
      PROVE  p \in Procs /\ (Begins(p) \/ \E k \in Keys : ScheduleInvalidation(p, k))
  BY <1>1, RequestBegins DEF Procs
<1>2. ASSUME NEW p \in Procs, Work(p)
      PROVE  Begins(p) \/ (Work(p) /\ ~Wake(p))
  BY <1>2, WakeBegins
<1> QED BY <1>1, <1>2, WarmupBegins DEF Next, Environment

LEMMA BaseNext == BaseInv /\ [Next]_vars => BaseInv'
<1> SUFFICES ASSUME BaseInv, [Next]_vars PROVE BaseInv'
  OBVIOUS
<1>t. CallsInv /\ LevelTypes /\ LockTypes /\ OtherTypes /\ MaxCalls \in Nat
  BY LimitsAssumption DEF BaseInv
<1>1. ASSUME NEW p \in Procs, Begins(p)
      PROVE  BaseInv'
  BY <1>1, BeginsBase
<1>2. ASSUME NEW p \in Procs, NEW k \in Keys, ScheduleInvalidation(p, k)
      PROVE  BaseInv'
  <2>1. CallsInv'
    BY <1>2, IdleIsGood, CallBecomes DEF ScheduleInvalidation
  <2>2. calls' \in 0..MaxCalls
    BY <1>t, <1>2 DEF ScheduleInvalidation, OtherTypes
  <2> QED BY <1>t, <1>2, <2>1, <2>2
       DEF ScheduleInvalidation, BaseInv, LevelTypes, LockTypes, OtherTypes, levels, avLock, history
<1>3. ASSUME NEW p \in Procs, Work(p), ~Wake(p)
      PROVE  BaseInv'
  BY <1>3, WorkCall, WorkTypes, CallBecomes DEF BaseInv, Proceeds
<1>4. CASE Close
  BY <1>t, <1>4 DEF Close, BaseInv, CallsInv, LevelTypes, LockTypes, OtherTypes, avLock, history
<1>5. ASSUME NEW k \in Keys, BlockExpires(k)
      PROVE  BaseInv'
  BY <1>t, <1>5
     DEF BlockExpires, BaseInv, CallsInv, LevelTypes, LockTypes, OtherTypes, levels, avLock, history
<1>6. ASSUME NEW k \in Keys, EvictL1(k)
      PROVE  BaseInv'
  <2>1. l1' \in [Keys -> Values]
    BY <1>t, <1>6 DEF EvictL1, LevelTypes, Values, Hot
  <2> QED BY <1>t, <1>6, <2>1
       DEF EvictL1, BaseInv, CallsInv, LevelTypes, LockTypes, OtherTypes, avLock, history
<1>7. ASSUME NEW k \in Keys, ExpireL2(k)
      PROVE  BaseInv'
  <2>1. l2' \in [Keys -> Values]
    BY <1>t, <1>7 DEF ExpireL2, LevelTypes, Values, Hot
  <2>2. faulty' \in [Keys -> BOOLEAN]
    BY <1>t, <1>7 DEF ExpireL2, OtherTypes
  <2> QED BY <1>t, <1>7, <2>1, <2>2
       DEF ExpireL2, BaseInv, CallsInv, LevelTypes, LockTypes, OtherTypes, avLock
<1>8. CASE UNCHANGED vars
  BY <1>t, <1>8 DEF vars, BaseInv, CallsInv, LevelTypes, LockTypes, OtherTypes, levels, avLock, history
<1> QED BY <1>1, <1>2, <1>3, <1>4, <1>5, <1>6, <1>7, <1>8, StepCases

LEMMA BaseHolds == Spec => []BaseInv
  BY InitBase, BaseNext, PTL DEF Spec

(* Every variable keeps its type.                                          *)
THEOREM CacheTypeCorrect == Spec => []TypeOK
  BY BaseHolds, BaseGivesTypes, PTL

-------------------------------------------------------------------------------
(* The table of blocked keys.                                              *)

(* A set with one more element.                                            *)
LEMMA OneMore ==
  ASSUME NEW S, IsFiniteSet(S), NEW x
  PROVE  IsFiniteSet(S \cup {x}) /\ Cardinality(S \cup {x}) <= Cardinality(S) + 1
<1>1. Cardinality(S) \in Nat
  BY FS_CardinalityType
<1>2. CASE x \in S
  <2>1. S \cup {x} = S
    BY <1>2
  <2>2. Cardinality(S) <= Cardinality(S) + 1
    BY <1>1
  <2> QED BY <2>1, <2>2
<1>3. CASE x \notin S
  <2>1. IsFiniteSet(S \cup {x}) /\ Cardinality(S \cup {x}) = Cardinality(S) + 1
    BY <1>3, FS_AddElement
  <2> QED BY <1>1, <2>1
<1> QED BY <1>2, <1>3

LEMMA LimitNext == BaseInv /\ BlockedWithinLimit /\ [Next]_vars => BlockedWithinLimit'
<1> SUFFICES ASSUME BaseInv, BlockedWithinLimit, [Next]_vars PROVE BlockedWithinLimit'
  OBVIOUS
<1>t. /\ blocked \in [Keys -> {"no", "fresh", "expired"}] /\ IsFiniteSet(Keys) /\ MaxBlocked \in Nat
      /\ IsFiniteSet(BlockedKeys)
  <2>1. BlockedKeys \subseteq Keys
    BY DEF BlockedKeys
  <2> QED BY <2>1, KeysAssumption, LimitsAssumption, FS_Subset DEF BaseInv, LockTypes
<1>1. CASE BlockedKeys' \subseteq BlockedKeys
  <2>1. Cardinality(BlockedKeys') <= Cardinality(BlockedKeys) /\ IsFiniteSet(BlockedKeys')
    BY <1>t, <1>1, FS_Subset
  <2> QED BY <1>t, <2>1, FS_CardinalityType DEF BlockedWithinLimit
<1>2. ASSUME NEW p \in Procs, RecordMiss(p), ~AtLimit
      PROVE  BlockedWithinLimit'
  <2>1. BlockedKeys' \subseteq BlockedKeys \cup {Key(p)}
    <3>1. \A k \in Keys : k = Key(p) \/ blocked'[k] = blocked[k]
      BY <1>t, <1>2 DEF RecordMiss
    <3> QED BY <3>1 DEF BlockedKeys
  <2>2. /\ IsFiniteSet(BlockedKeys \cup {Key(p)})
        /\ Cardinality(BlockedKeys \cup {Key(p)}) <= Cardinality(BlockedKeys) + 1
    BY <1>t, OneMore
  <2>3. Cardinality(BlockedKeys') <= Cardinality(BlockedKeys \cup {Key(p)}) /\ IsFiniteSet(BlockedKeys')
    BY <2>1, <2>2, FS_Subset
  <2>4. Cardinality(BlockedKeys) < MaxBlocked
    BY <1>t, <1>2, FS_CardinalityType DEF AtLimit
  <2> QED BY <1>t, <2>2, <2>3, <2>4, FS_CardinalityType DEF BlockedWithinLimit
<1>3. ASSUME NEW p \in Procs, Work(p), ~Wake(p)
      PROVE  BlockedWithinLimit'
  <2>1. CASE RecordMiss(p)
    <3>1. CASE AtLimit
      <4>1. blocked' = blocked
        BY <2>1, <3>1 DEF RecordMiss
      <4> QED BY <1>1, <4>1 DEF BlockedKeys
    <3> QED BY <1>2, <2>1, <3>1
  <2>2. CASE ClearBlockedKey(p)
    BY <1>t, <1>1, <2>2 DEF ClearBlockedKey, BlockedKeys
  <2>3. CASE IsBlockedKey(p) \/ PenetrationStats(p)
    BY <1>1, <2>3 DEF IsBlockedKey, PenetrationStats, DeleteExpired, BlockedKeys
  <2>4. CASE blocked' = blocked
    BY <1>1, <2>4 DEF BlockedKeys
  <2> QED BY <1>3, <2>1, <2>2, <2>3, <2>4
       DEF Work, RLockBlocked, ShouldBlock, RecordSuccess, AvalancheStats, GetL1, GetL2, Fill,
           SetL1, SetL2, DelL1, DelL2, ClearL1, ClearL2, StoreL1, WriteL2
<1>4. ASSUME NEW k \in Keys, BlockExpires(k)
      PROVE  BlockedWithinLimit'
  BY <1>t, <1>1, <1>4 DEF BlockExpires, BlockedKeys
<1>5. CASE blocked' = blocked
  BY <1>1, <1>5 DEF BlockedKeys
<1> QED BY <1>3, <1>4, <1>5, StepCases
     DEF Begins, Enter, ScheduleInvalidation, Close, EvictL1, ExpireL2, vars

(* However many goroutines record misses at once, the table of blocked     *)
(* keys never has more entries than its limit, counting expired ones.      *)
THEOREM BlockedKeysAreLimited == Spec => []BlockedWithinLimit
<1>1. Init => BlockedWithinLimit
  <2> SUFFICES ASSUME Init PROVE BlockedWithinLimit
    OBVIOUS
  <2>1. BlockedKeys = {}
    BY DEF Init, BlockedKeys
  <2> QED BY <2>1, FS_EmptySet, LimitsAssumption DEF BlockedWithinLimit
<1> QED BY <1>1, BaseHolds, LimitNext, PTL DEF Spec

-------------------------------------------------------------------------------
(* What a key is like while calls on it come one at a time.                *)

(* What L1 answers for k.                                                  *)
L1Of(k) == IF L1Enabled THEN l1[k] ELSE 0

(* The levels agree on k, and k is not blocked for a value that it has.    *)
Settled(k) ==
  /\ mode = "redis" => L1Of(k) \in {0, l2[k]}
  /\ ~plain[k] /\ HasValue(k) => blocked[k] # "fresh"

(* A write has gone through L1 when it comes to L2, and a protected one    *)
(* has cleared the block before both.                                      *)
Writing(c, k) ==
  /\ c.pc = "setL2" /\ c.key = k => L1Of(k) \in {0, c.val}
  /\ c.pc = "delL2" /\ c.key = k => L1Of(k) = 0
  /\ c.pc = "clearL2" => L1Of(k) = 0
  /\ ~plain[k] /\ c.op \in {"set", "setTTL"} /\ c.pc # "clearBlocked" => blocked[k] # "fresh"

(* A read finds k settled, and what it has seen is still so.               *)
Reading(c, k) ==
  /\ Settled(k)
  /\ c.pc = "fill" => mode = "redis" /\ l2[k] # 0 /\ c.val = l2[k]
  /\ c.pc = "getL2" => L1Of(k) = 0
  /\ c.pc = "recordMiss" => ~HasValue(k)

Stage(c, k) == IF c.op \in Writes THEN Writing(c, k) ELSE Reading(c, k)

Clean(k) == ~overlapped[k] /\ ~faulty[k]

KeyInv(k) ==
  Clean(k) =>
    /\ \A p, q \in Procs : k \in Held(call[p]) /\ k \in Held(call[q]) => p = q
    /\ \A p \in Procs : k \in Held(call[p]) => Stage(call[p], k)
    /\ (\A p \in Procs : k \notin Held(call[p])) => Settled(k)

LEMMA HeldIs ==
  \A c \in GoodCall : c.op \notin {"none", "stats"} => Held(c) = ({c.key} \cup c.todo) \ {NoKey}
  BY KeysAssumption DEF GoodCall, Call, Held

LEMMA HeldIsTouched ==
  \A p \in Procs : call[p] \in GoodCall => Touched(p) = Held(call[p])
<1> SUFFICES ASSUME NEW p \in Procs, call[p] \in GoodCall PROVE Touched(p) = Held(call[p])
  OBVIOUS
<1>1. CASE call[p].op = "none"
  BY <1>1, OpOfStep DEF Touched, Held
<1>2. CASE call[p].op = "stats"
  BY <1>2, OpOfStep, KeysAssumption DEF Touched, Held, GoodCall, Call, Key, Writes
<1>3. CASE call[p].op \notin {"none", "stats"}
  BY <1>3, OpOfStep, HeldIs DEF Touched, Key
<1> QED BY <1>1, <1>2, <1>3

(* Nothing happens to k but that its L1 copy or its block goes.            *)
Calm(k) ==
  /\ Clean(k)' => Clean(k)
  /\ plain[k] => plain'[k]
  /\ mode' = mode /\ l2'[k] = l2[k] /\ l1'[k] \in {l1[k], 0}
  /\ blocked'[k] \in {blocked[k], "no", "expired"}

LEMMA CalmKeepsSettled ==
  ASSUME NEW k \in Keys, Calm(k), Settled(k)
  PROVE  Settled(k)'
  BY DEF Calm, Settled, HasValue, L1Of

LEMMA CalmKeepsStage ==
  ASSUME NEW k \in Keys, Calm(k), NEW p \in Procs, call'[p] = call[p], Stage(call[p], k)
  PROVE  Stage(call[p], k)'
<1>1. CASE call[p].op \in Writes
  BY <1>1 DEF Calm, Stage, Writing, L1Of
<1>2. CASE call[p].op \notin Writes
  <2>1. Reading(call[p], k) /\ Settled(k)'
    BY <1>2, CalmKeepsSettled DEF Stage, Reading
  <2>2. Reading(call[p], k)'
    BY <2>1 DEF Calm, Reading, L1Of, HasValue
  <2> QED BY <1>2, <2>2 DEF Stage
<1> QED BY <1>1, <1>2

(* A step of somebody who is not about k.                                  *)
LEMMA Aside ==
  ASSUME NEW k \in Keys, KeyInv(k), Calm(k),
         \A q \in Procs : k \in Held(call[q]) \/ k \in Held(call'[q]) => call'[q] = call[q]
  PROVE  KeyInv(k)'
<1> SUFFICES ASSUME Clean(k)'
             PROVE  /\ \A p, q \in Procs : k \in Held(call'[p]) /\ k \in Held(call'[q]) => p = q
                    /\ \A p \in Procs : k \in Held(call'[p]) => Stage(call[p], k)'
                    /\ (\A p \in Procs : k \notin Held(call'[p])) => Settled(k)'
  BY DEF KeyInv
<1>1. /\ \A p, q \in Procs : k \in Held(call[p]) /\ k \in Held(call[q]) => p = q
      /\ \A p \in Procs : k \in Held(call[p]) => Stage(call[p], k)
      /\ (\A p \in Procs : k \notin Held(call[p])) => Settled(k)
  BY DEF KeyInv, Calm
<1>2. \A p \in Procs : k \in Held(call'[p]) <=> k \in Held(call[p])
  OBVIOUS
<1>3. \A p \in Procs : k \in Held(call'[p]) => Stage(call[p], k)'
  BY <1>1, <1>2, CalmKeepsStage
<1> QED BY <1>1, <1>2, <1>3, CalmKeepsSettled

(* A step of p, which is about k: if nobody else is, it is enough to look  *)
(* at what p makes of k.                                                   *)
LEMMA Alone ==
  ASSUME BaseInv, NEW k \in Keys, KeyInv(k), NEW p \in Procs, k \in Held(call[p]),
         NEW d \in GoodCall, call' = [call EXCEPT ![p] = d], Held(d) \subseteq Held(call[p]),
         Clean(k)' => Clean(k),
         Clean(k) /\ Clean(k)' /\ Stage(call[p], k) =>
           IF k \in Held(d) THEN Stage(call[p], k)' ELSE Settled(k)'
  PROVE  KeyInv(k)'
<1> SUFFICES ASSUME Clean(k)'
             PROVE  /\ \A q, r \in Procs : k \in Held(call'[q]) /\ k \in Held(call'[r]) => q = r
                    /\ \A q \in Procs : k \in Held(call'[q]) => Stage(call[q], k)'
                    /\ (\A q \in Procs : k \notin Held(call'[q])) => Settled(k)'
  BY DEF KeyInv
<1>1. /\ \A q \in Procs : k \in Held(call[q]) => q = p
      /\ Clean(k) /\ Stage(call[p], k)
  BY DEF KeyInv
<1>2. call'[p] = d /\ \A q \in Procs \ {p} : call'[q] = call[q]
  BY CallBecomes
<1>3. \A q \in Procs : k \in Held(call'[q]) => q = p
  BY <1>1, <1>2
<1>4. k \in Held(d) => Stage(call[p], k)'
  BY <1>1
<1>5. k \notin Held(d) => Settled(k)'
  BY <1>1
<1> QED BY <1>2, <1>3, <1>4, <1>5

(* The beginning of a call on the keys ks.                                 *)
LEMMA BeginsKey ==
  ASSUME BaseInv, NEW k \in Keys, KeyInv(k), NEW p \in Procs, Begins(p)
  PROVE  KeyInv(k)'
<1>1. PICK o, protected, ks, v, first :
        /\ GoodEntry(o, protected, ks, v, first) /\ Enter(p, o, protected, ks, v, first)
        /\ call[p].op = "none"
  BY DEF Begins
<1>2. PICK d \in GoodCall : call' = [call EXCEPT ![p] = d] /\ Entered(d, o, ks, v, first)
  BY <1>1, EntryCall
<1>3. /\ call'[p] = d /\ \A q \in Procs \ {p} : call'[q] = call[q]
      /\ Held(call[p]) = {} /\ (k \in Held(d) <=> k \in ks)
  <2>1. k # NoKey
    BY KeysAssumption
  <2>2. k \in Held(d) <=> k \in ks
    BY <1>1, <1>2, <2>1 DEF Held, Entered, GoodEntry
  <2>3. Held(call[p]) = {}
    BY <1>1 DEF Held
  <2> QED BY <1>2, <2>2, <2>3, CallBecomes
<1> DEFINE Others == UNION {Touched(q) : q \in Procs \ {p}}
<1>4. k \in Others <=> \E q \in Procs \ {p} : k \in Held(call[q])
  <2>1. \A q \in Procs : Touched(q) = Held(call[q])
    BY CallIsGood, HeldIsTouched
  <2> QED BY <2>1
<1>5. /\ overlapped'[k] = (k \in ks \cap Others \/ (overlapped[k] /\ ~(o \in Writes /\ k \in ks)))
      /\ faulty'[k] = (faulty[k] /\ (k \in Others \/ ~(o \in Writes /\ k \in ks)))
      /\ plain'[k] = IF k \in ks /\ o \in {"set", "setTTL"} THEN ~protected ELSE plain[k]
      /\ UNCHANGED <<mode, l1, l2, blocked>>
  BY <1>1 DEF Enter, NoteBegin, levels
<1> HIDE DEF Others
<1>6. CASE k \notin ks
  <2>1. Calm(k)
    BY <1>5, <1>6 DEF Calm, Clean
  <2>2. \A q \in Procs : k \in Held(call[q]) \/ k \in Held(call'[q]) => call'[q] = call[q]
    BY <1>3, <1>6
  <2> QED BY <2>1, <2>2, Aside
<1>7. CASE k \in ks /\ k \in Others
  BY <1>5, <1>7 DEF KeyInv, Clean
<1>8. CASE k \in ks /\ k \notin Others
  <2>1. \A q \in Procs : k \in Held(call'[q]) <=> q = p
    BY <1>3, <1>4, <1>8
  <2>2. Clean(k)' => Stage(call[p], k)'
    <3> SUFFICES ASSUME Clean(k)' PROVE Stage(call[p], k)'
      OBVIOUS
    <3>1. call'[p].op = o /\ call'[p].pc = first
      BY <1>2, <1>3 DEF Entered
    <3>2. CASE o \in Writes
      <4>1. first \in {"clearBlocked", "setL1", "delL1", "clearL1"}
        BY <1>1, <3>2 DEF GoodEntry, Writes, StepsOf
      <4>2. o \in {"set", "setTTL"} /\ first # "clearBlocked" => plain'[k]
        BY <1>1, <1>5, <1>8, <4>1 DEF GoodEntry, StepsOf
      <4> QED BY <3>1, <3>2, <4>1, <4>2 DEF Stage, Writing
    <3>3. CASE o \notin Writes
      <4>1. first \in {"isBlocked", "getL1", "stats"}
        BY <1>1, <3>3 DEF GoodEntry, Writes, StepsOf
      <4>2. Clean(k) /\ plain'[k] = plain[k]
        BY <1>5, <3>3 DEF Clean, Writes
      <4>3. \A q \in Procs : k \notin Held(call[q])
        BY <1>3, <1>4, <1>8
      <4>4. Settled(k)
        BY <4>2, <4>3 DEF KeyInv
      <4>5. Settled(k)'
        BY <1>5, <4>2, <4>4 DEF Settled, HasValue, L1Of
      <4> QED BY <3>1, <3>3, <4>1, <4>5 DEF Stage, Reading
    <3> QED BY <3>2, <3>3
  <2> QED BY <2>1, <2>2 DEF KeyInv
<1> QED BY <1>6, <1>7, <1>8

(* The step of a call that is not about k.                                 *)
LEMMA WorkAside ==
  ASSUME BaseInv, NEW k \in Keys, KeyInv(k), NEW p \in Procs, Work(p), ~Wake(p),
         k \notin Held(call[p])
  PROVE  KeyInv(k)'
<1>1. PICK d \in GoodCall : call' = [call EXCEPT ![p] = d] /\ Held(d) \subseteq Held(call[p])
  BY WorkCall DEF Proceeds
<1>2. \A q \in Procs : k \in Held(call[q]) \/ k \in Held(call'[q]) => call'[q] = call[q]
  BY <1>1, CallBecomes
<1>3. k # Key(p) /\ call[p].op # "clear"
  BY WorkCall, CallIsGood DEF Held, GoodCall, Key
<1>t. /\ l1 \in [Keys -> Values] /\ l2 \in [Keys -> Values] /\ faulty \in [Keys -> BOOLEAN]
      /\ blocked \in [Keys -> {"no", "fresh", "expired"}]
  BY DEF BaseInv, LevelTypes, LockTypes, OtherTypes
<1>4. Calm(k)
  <2> USE DEF Calm, Clean, levels, history
  <2>1. CASE RLockBlocked(p) \/ ShouldBlock(p) \/ RecordSuccess(p) \/ AvalancheStats(p) \/ GetL1(p)
    BY <2>1 DEF RLockBlocked, ShouldBlock, RecordSuccess, AvalancheStats, GetL1
  <2>2. CASE IsBlockedKey(p) \/ PenetrationStats(p)
    BY <2>2 DEF IsBlockedKey, PenetrationStats, DeleteExpired
  <2>3. CASE RecordMiss(p) \/ ClearBlockedKey(p)
    BY <1>t, <1>3, <2>3 DEF RecordMiss, ClearBlockedKey
  <2>4. CASE GetL2(p)
    BY <1>t, <1>3, <2>4 DEF GetL2
  <2>5. CASE Fill(p) \/ SetL1(p) \/ DelL1(p)
    BY <1>t, <1>3, <2>5 DEF Fill, SetL1, DelL1, StoreL1
  <2>6. ASSUME NEW v, NEW expires, NEW next, WriteL2(p, {Key(p)}, v, expires, next)
        PROVE  Calm(k)
    BY <1>t, <1>3, <2>6 DEF WriteL2
  <2>7. CASE SetL2(p) \/ DelL2(p)
    BY <2>6, <2>7 DEF SetL2, DelL2
  <2>8. ~ClearL1(p) /\ ~ClearL2(p)
    BY <1>3, CallIsGood, OpOfStep DEF ClearL1, ClearL2, At
  <2> QED BY <2>1, <2>2, <2>3, <2>4, <2>5, <2>7, <2>8 DEF Work
<1> QED BY <1>2, <1>4, Aside

(* A step of a read of the key, with the protection before and after it.   *)
LEMMA ReadAbout ==
  ASSUME BaseInv, NEW k \in Keys, KeyInv(k), NEW p \in Procs, k \in Held(call[p]), Work(p),
         call[p].pc \notin {"clearBlocked", "setL1", "setL2", "delL1", "delL2", "clearL1", "clearL2",
                            "sleep"}
  PROVE  KeyInv(k)'
<1> DEFINE c == call[p]
<1>1. ~Wake(p)
  BY DEF Wake, At
<1>2. PICK d \in GoodCall : call' = [call EXCEPT ![p] = d] /\ Held(d) \subseteq Held(c)
  BY <1>1, WorkCall DEF Proceeds
<1>t. /\ l1 \in [Keys -> Values] /\ l2 \in [Keys -> Values] /\ faulty \in [Keys -> BOOLEAN]
      /\ blocked \in [Keys -> {"no", "fresh", "expired"}]
      /\ c \in GoodCall /\ c \in Call /\ call'[p] = d
  BY <1>2, CallBecomes, CallIsGood DEF BaseInv, LevelTypes, LockTypes, OtherTypes
<1>3. c.op \in {"get", "exists"} /\ Key(p) = k /\ c.key = k /\ c.op \notin Writes
  BY <1>t, OpOfStep, KeysAssumption DEF Held, GoodCall, Call, StepsOf, Writes, Key
<1>4. d = Idle => k \notin Held(d)
  BY IdleIsGood DEF Held
<1>5. ASSUME Clean(k)' => Clean(k),
             Clean(k) /\ Clean(k)' /\ Reading(c, k) =>
               IF d = Idle THEN Settled(k)' ELSE d.op \notin Writes /\ Reading(call[p], k)'
      PROVE  KeyInv(k)'
  <2> SUFFICES ASSUME Clean(k), Clean(k)', Stage(c, k)
               PROVE  IF k \in Held(d) THEN Stage(call[p], k)' ELSE Settled(k)'
    BY <1>2, <1>5, Alone
  <2>1. Reading(c, k)
    BY <1>3 DEF Stage
  <2>2. CASE d = Idle
    BY <1>4, <1>5, <2>1, <2>2
  <2>3. CASE d # Idle
    BY <1>t, <1>5, <2>1, <2>3 DEF Stage, Reading
  <2> QED BY <2>2, <2>3
(* Where a step of this kind goes, when it does not end the call.          *)
<1>6. ASSUME NEW step, Goto(p, step), step # "idle"
      PROVE  d.pc = step /\ d.op = c.op
  <2>1. d = [c EXCEPT !.pc = step]
    BY <1>2, <1>6, CallIsGood DEF Goto, BaseInv, CallsInv
  <2> QED BY <1>t, <2>1 DEF Call
<1>7. Goto(p, "idle") => d = Idle
  BY <1>2 DEF Goto, BaseInv, CallsInv
<1>8. CASE RLockBlocked(p) \/ ShouldBlock(p) \/ RecordSuccess(p)
  <2>1. UNCHANGED <<mode, l1, l2, blocked, overlapped, faulty, plain>>
    BY <1>8 DEF RLockBlocked, ShouldBlock, RecordSuccess, levels, history
  <2>2. d = Idle \/ (d.op = c.op /\ d.pc \in {"inBlocked", "inStats", "getL1", "lockSuccess"})
    BY <1>6, <1>7, <1>8 DEF RLockBlocked, ShouldBlock, RecordSuccess
  <2> QED BY <1>t, <1>3, <1>5, <2>1, <2>2 DEF Clean, Reading, Settled, HasValue, L1Of
<1>9. CASE IsBlockedKey(p)
  <2>1. UNCHANGED <<mode, l1, l2, overlapped, faulty, plain>> /\ blocked'[k] \in {blocked[k], "no"}
    BY <1>9 DEF IsBlockedKey, DeleteExpired, levels, history
  <2>2. d = Idle \/ (d.op = c.op /\ d.pc = "shouldBlock")
    BY <1>6, <1>7, <1>9 DEF IsBlockedKey
  <2> QED BY <1>t, <1>3, <1>5, <2>1, <2>2 DEF Clean, Reading, Settled, HasValue, L1Of
<1>10. CASE RecordMiss(p)
  <2>1. UNCHANGED <<mode, l1, l2, overlapped, faulty, plain>> /\ d = Idle /\ c.pc = "recordMiss"
    BY <1>7, <1>10 DEF RecordMiss, levels, history, At
  <2> QED BY <1>5, <2>1 DEF Clean, Reading, Settled, HasValue, L1Of
<1>11. CASE GetL1(p)
  <2>1. UNCHANGED <<mode, l1, l2, blocked, overlapped, faulty, plain>>
    BY <1>11 DEF GetL1, levels, history
  <2>2. \/ d = Idle \/ (d.op = c.op /\ d.pc = "recordSuccess")
        \/ d.op = c.op /\ d.pc = "getL2" /\ L1Of(k) = 0
    BY <1>t, <1>3, <1>6, <1>7, <1>11 DEF GetL1, Hit, L1Of
  <2> QED BY <1>t, <1>3, <1>5, <2>1, <2>2 DEF Clean, Reading, Settled, HasValue, L1Of
<1>12. CASE GetL2(p)
  <2>1. UNCHANGED <<mode, l1, l2, blocked, overlapped, plain>> /\ c.pc = "getL2"
    BY <1>12 DEF GetL2, levels, At
  <2>2. faulty[k] => faulty'[k]
    BY <1>t, <1>12 DEF GetL2
  <2>3. Miss(p) => d = Idle \/ (d.op = c.op /\ d.pc = "recordMiss")
    BY <1>6, <1>7 DEF Miss
  <2>4. CASE NilPanic(p)
    <3>1. d = Idle
      BY <1>7, <2>4 DEF NilPanic
    <3> QED BY <1>5, <2>1, <2>2, <3>1 DEF Clean, Reading, Settled, HasValue, L1Of
  <2>5. CASE (mode = "disabled" \/ (mode = "redis" /\ l2[Key(p)] = 0)) /\ Miss(p)
    <3>1. L1Of(k) = 0 => ~HasValue(k)
      BY <1>3, <2>5 DEF HasValue, L1Of
    <3> QED BY <1>t, <1>3, <1>5, <2>1, <2>2, <2>3, <2>5, <3>1
         DEF Clean, Reading, Settled, HasValue, L1Of
  <2>6. CASE /\ mode = "redis" /\ l2[Key(p)] # 0
             /\ call' = [call EXCEPT ![p] =
                           IF call[p].op = "exists" THEN Idle
                           ELSE [call[p] EXCEPT !.pc = "fill", !.val = l2[Key(p)]]]
    <3>1. d = IF c.op = "exists" THEN Idle ELSE [c EXCEPT !.pc = "fill", !.val = l2[k]]
      BY <1>t, <1>3, <2>6 DEF BaseInv, CallsInv
    <3>2. d = Idle \/ (d.op = c.op /\ d.pc = "fill" /\ d.val = l2[k])
      BY <1>t, <3>1 DEF Call
    <3> QED BY <1>t, <1>3, <1>5, <2>1, <2>2, <2>6, <3>2 DEF Clean, Reading, Settled, HasValue, L1Of
  <2>7. CASE faulty' = [faulty EXCEPT ![Key(p)] = TRUE]
    <3>1. faulty'[k]
      BY <1>t, <1>3, <2>7
    <3> QED BY <3>1 DEF KeyInv, Clean
  <2> QED BY <1>12, <2>4, <2>5, <2>6, <2>7 DEF GetL2
<1>13. CASE Fill(p)
  <2>1. /\ UNCHANGED <<mode, l2, blocked, overlapped, faulty, plain>> /\ c.pc = "fill"
        /\ l1' = IF L1Enabled THEN [l1 EXCEPT ![k] = c.val] ELSE l1
    BY <1>3, <1>13 DEF Fill, StoreL1, history, At
  <2>2. d = Idle \/ (d.op = c.op /\ d.pc = "recordSuccess")
    BY <1>6, <1>7, <1>13 DEF Fill, Hit
  <2>3. Reading(c, k) => Settled(k)'
    BY <1>t, <2>1 DEF Reading, Settled, HasValue, L1Of
  <2> QED BY <1>t, <1>3, <1>5, <2>1, <2>2, <2>3 DEF Clean, Reading
<1> QED BY <1>1, <1>3, <1>8, <1>9, <1>10, <1>11, <1>12, <1>13, <1>t, OpOfStep
     DEF Work, PenetrationStats, ClearBlockedKey, AvalancheStats, SetL1, SetL2, DelL1, DelL2,
         ClearL1, ClearL2, At

(* Without a Redis the process could reach when it started, no read gets   *)
(* so far as to record a miss, and no key is ever blocked.                 *)
NilInv == mode = "nil" => /\ \A k \in Keys : blocked[k] = "no"
                          /\ \A p \in Procs : call[p].pc # "recordMiss"

LEMMA NilNext == BaseInv /\ NilInv /\ [Next]_vars => NilInv'
<1> SUFFICES ASSUME BaseInv, NilInv, [Next]_vars, mode' = "nil"
             PROVE  /\ \A k \in Keys : blocked'[k] = "no"
                    /\ \A p \in Procs : call'[p].pc # "recordMiss"
  BY DEF NilInv
<1>1. CASE UNCHANGED <<mode, blocked, call>>
  BY <1>1 DEF NilInv
<1>2. ASSUME NEW p \in Procs, NEW d \in GoodCall, call' = [call EXCEPT ![p] = d],
             d.pc # "recordMiss", mode' = mode, \A k \in Keys : blocked'[k] \in {blocked[k], "no"}
      PROVE  /\ \A k \in Keys : blocked'[k] = "no"
             /\ \A q \in Procs : call'[q].pc # "recordMiss"
  BY <1>2, CallBecomes DEF NilInv
<1>3. ASSUME NEW p \in Procs, Begins(p)
      PROVE  /\ \A k \in Keys : blocked'[k] = "no"
             /\ \A q \in Procs : call'[q].pc # "recordMiss"
  <2>1. PICK o, protected, ks, v, first :
          GoodEntry(o, protected, ks, v, first) /\ Enter(p, o, protected, ks, v, first)
    BY <1>3 DEF Begins
  <2>2. PICK d \in GoodCall : call' = [call EXCEPT ![p] = d] /\ Entered(d, o, ks, v, first)
    BY <2>1, EntryCall
  <2>3. d.pc # "recordMiss" /\ mode' = mode /\ blocked' = blocked
    BY <2>1, <2>2 DEF Entered, GoodEntry, Enter, levels
  <2> QED BY <1>2, <2>2, <2>3
<1>4. ASSUME NEW p \in Procs, NEW k \in Keys, ScheduleInvalidation(p, k)
      PROVE  /\ \A x \in Keys : blocked'[x] = "no"
             /\ \A q \in Procs : call'[q].pc # "recordMiss"
  <2> DEFINE d == [Idle EXCEPT !.pc = "sleep", !.key = k]
  <2>1. d \in GoodCall /\ d.pc # "recordMiss"
    BY IdleIsGood DEF Idle
  <2>2. call' = [call EXCEPT ![p] = d] /\ mode' = mode /\ blocked' = blocked
    BY <1>4 DEF ScheduleInvalidation, levels
  <2> QED BY <1>2, <2>1, <2>2
<1>5. ASSUME NEW p \in Procs, Work(p), ~Wake(p)
      PROVE  /\ \A k \in Keys : blocked'[k] = "no"
             /\ \A q \in Procs : call'[q].pc # "recordMiss"
  <2>1. PICK d \in GoodCall : call' = [call EXCEPT ![p] = d]
    BY <1>5, WorkCall DEF Proceeds
  <2>2. call'[p] = d /\ call[p] \in Call
    BY <2>1, CallBecomes, CallIsGood
  <2>3. mode' = mode /\ mode = "nil"
    BY <1>5 DEF Work, Wake, RLockBlocked, IsBlockedKey, PenetrationStats, RecordMiss,
         ClearBlockedKey, ShouldBlock, RecordSuccess, AvalancheStats, GetL1, GetL2, Fill, SetL1,
         SetL2, DelL1, DelL2, ClearL1, ClearL2, StoreL1, WriteL2, DeleteExpired, levels
  <2>4. ASSUME NEW step, Goto(p, step), step # "recordMiss"
        PROVE  d.pc # "recordMiss"
    <3>1. d = IF step = "idle" THEN Idle ELSE [call[p] EXCEPT !.pc = step]
      BY <2>1, <2>2, <2>4 DEF Goto, BaseInv, CallsInv
    <3> QED BY <2>2, <2>4, <3>1, IdleIsGood DEF Call
  <2>5. NilPanic(p) => d.pc # "recordMiss"
    BY <2>4 DEF NilPanic
  <2>6. ASSUME NEW first, NextKey(p, first), first # "recordMiss"
        PROVE  d.pc # "recordMiss"
    <3>1. ASSUME NEW k \in call[p].todo,
                 call' = [call EXCEPT ![p] = [call[p] EXCEPT !.pc = first, !.key = k, !.todo = @ \ {k}]]
          PROVE  d.pc # "recordMiss"
      <4>1. d = [call[p] EXCEPT !.pc = first, !.key = k, !.todo = call[p].todo \ {k}]
        BY <2>2, <3>1 DEF BaseInv, CallsInv
      <4> QED BY <2>2, <2>6, <4>1 DEF Call
    <3> QED BY <2>4, <2>6, <3>1 DEF NextKey
  <2>7. d.pc # "recordMiss"
    <3>1. CASE GetL2(p)
      BY <2>3, <2>5, <3>1 DEF GetL2
    <3>2. CASE SetL2(p) \/ DelL2(p) \/ ClearL2(p)
      BY <2>4, <2>5, <2>6, <3>2 DEF SetL2, DelL2, ClearL2, WriteL2
    <3>3. CASE Fill(p) \/ GetL1(p)
      BY <2>4, <3>3 DEF Fill, GetL1, Hit
    <3> QED BY <1>5, <2>3, <2>4, <3>1, <3>2, <3>3
         DEF NilInv, Work, RLockBlocked, IsBlockedKey, PenetrationStats, RecordMiss,
             ClearBlockedKey, ShouldBlock, RecordSuccess, AvalancheStats, SetL1, DelL1, ClearL1
  <2>8. \A k \in Keys : blocked'[k] \in {blocked[k], "no"}
    <3>1. blocked \in [Keys -> {"no", "fresh", "expired"}] /\ ~RecordMiss(p)
      BY <2>3 DEF NilInv, RecordMiss, At, BaseInv, LockTypes
    <3>2. CASE ClearBlockedKey(p)
      BY <3>1, <3>2 DEF ClearBlockedKey
    <3>3. CASE IsBlockedKey(p) \/ PenetrationStats(p)
      BY <3>3 DEF IsBlockedKey, PenetrationStats, DeleteExpired
    <3>4. CASE blocked' = blocked
      BY <3>4
    <3> QED BY <1>5, <3>1, <3>2, <3>3, <3>4
         DEF Work, RLockBlocked, ShouldBlock, RecordSuccess, AvalancheStats, GetL1, GetL2, Fill,
             SetL1, SetL2, DelL1, DelL2, ClearL1, ClearL2, StoreL1, WriteL2
  <2> QED BY <1>2, <2>1, <2>3, <2>7, <2>8
<1>6. CASE Close
  BY <1>6 DEF Close
<1>7. ASSUME NEW k \in Keys, BlockExpires(k)
      PROVE  FALSE
  BY <1>7 DEF BlockExpires, levels, NilInv
<1> QED BY <1>1, <1>3, <1>4, <1>5, <1>6, <1>7, StepCases DEF EvictL1, ExpireL2, vars, levels

(* A step of a write of the key: of one that passes on to the next key, k  *)
(* is left behind, or is still to come.                                    *)
LEMMA WriteAbout ==
  ASSUME BaseInv, NilInv, NEW k \in Keys, KeyInv(k), NEW p \in Procs, k \in Held(call[p]), Work(p),
         call[p].pc \in {"clearBlocked", "setL1", "setL2", "delL1", "delL2", "clearL1", "clearL2"}
  PROVE  KeyInv(k)'
<1> DEFINE c == call[p]
<1>1. ~Wake(p)
  BY DEF Wake, At
<1>2. PICK d \in GoodCall : call' = [call EXCEPT ![p] = d] /\ Held(d) \subseteq Held(c)
  BY <1>1, WorkCall DEF Proceeds
<1>t. /\ l1 \in [Keys -> Values] /\ l2 \in [Keys -> Values] /\ faulty \in [Keys -> BOOLEAN]
      /\ blocked \in [Keys -> {"no", "fresh", "expired"}]
      /\ c \in GoodCall /\ c \in Call /\ call'[p] = d
  BY <1>2, CallBecomes, CallIsGood DEF BaseInv, LevelTypes, LockTypes, OtherTypes
<1>3. c.op \in Writes /\ c.op # "none" /\ (k = c.key \/ k \in c.todo)
  BY <1>t, OpOfStep DEF Held, Writes
<1>4. d = Idle => k \notin Held(d)
  BY IdleIsGood DEF Held
<1>5. ASSUME Clean(k)' => Clean(k),
             Clean(k) /\ Clean(k)' /\ Writing(c, k) =>
               IF k \in Held(d) THEN d.op \in Writes /\ Writing(call[p], k)' ELSE Settled(k)'
      PROVE  KeyInv(k)'
  <2> SUFFICES ASSUME Clean(k), Clean(k)', Stage(c, k)
               PROVE  IF k \in Held(d) THEN Stage(call[p], k)' ELSE Settled(k)'
    BY <1>2, <1>5, Alone
  <2>1. Writing(c, k)
    BY <1>3 DEF Stage
  <2> QED BY <1>t, <1>5, <2>1 DEF Stage, Writing
(* The steps before L2 only move on.                                       *)
<1>6. ASSUME NEW step, Goto(p, step), step # "idle"
      PROVE  d.pc = step /\ d.op = c.op /\ d.key = c.key /\ d.todo = c.todo /\ d.val = c.val
  <2>1. d = [c EXCEPT !.pc = step]
    BY <1>2, <1>6, CallIsGood DEF Goto, BaseInv, CallsInv
  <2> QED BY <1>t, <2>1 DEF Call
<1>7. Goto(p, "idle") => d = Idle
  BY <1>2 DEF Goto, BaseInv, CallsInv
<1>h. d.op = c.op /\ d.key = c.key /\ d.todo = c.todo => k \in Held(d)
  BY <1>3 DEF Held
<1>8. CASE ClearBlockedKey(p)
  <2>1. c.todo = {} /\ Key(p) = k /\ c.pc = "clearBlocked"
    BY <1>t, <1>3, <1>8 DEF ClearBlockedKey, At, GoodCall, Key
  <2>2. blocked'[k] = "no" /\ UNCHANGED <<mode, l1, l2, overlapped, faulty, plain>>
    BY <1>t, <1>8, <2>1 DEF ClearBlockedKey, levels, history
  <2>3. d.pc = "setL1" /\ d.op = c.op /\ k \in Held(d)
    BY <1>6, <1>8, <1>h DEF ClearBlockedKey
  <2> QED BY <1>t, <1>3, <1>5, <2>2, <2>3 DEF Clean, Writing
<1>9. CASE SetL1(p)
  <2>1. /\ UNCHANGED <<mode, l2, blocked, overlapped, faulty, plain>> /\ c.pc = "setL1"
        /\ l1' = IF L1Enabled THEN [l1 EXCEPT ![Key(p)] = c.val] ELSE l1
    BY <1>9 DEF SetL1, StoreL1, history, At
  <2>2. d.pc = "setL2" /\ d.op = c.op /\ d.key = c.key /\ d.val = c.val /\ k \in Held(d)
    BY <1>6, <1>9, <1>h DEF SetL1
  <2>3. c.key = k => L1Of(k)' \in {0, c.val}
    BY <1>t, <2>1 DEF L1Of, Key
  <2> QED BY <1>t, <1>3, <1>5, <2>1, <2>2, <2>3 DEF Clean, Writing
<1>10. CASE DelL1(p)
  <2>1. /\ UNCHANGED <<mode, l2, blocked, overlapped, faulty, plain>> /\ c.pc = "delL1"
        /\ l1' = IF L1Enabled THEN [l1 EXCEPT ![Key(p)] = 0] ELSE l1
    BY <1>10 DEF DelL1, StoreL1, history, At
  <2>2. d.pc = "delL2" /\ d.op = c.op /\ d.key = c.key /\ d.val = c.val /\ k \in Held(d)
    BY <1>6, <1>10, <1>h DEF DelL1
  <2>3. c.key = k => L1Of(k)' = 0
    BY <1>t, <2>1 DEF L1Of, Key
  <2> QED BY <1>t, <1>3, <1>5, <2>1, <2>2, <2>3, OpOfStep DEF Clean, Writing
<1>11. CASE ClearL1(p)
  <2>1. /\ UNCHANGED <<mode, l2, blocked, overlapped, faulty, plain>> /\ c.pc = "clearL1"
        /\ l1' = [x \in Keys |-> 0]
    BY <1>11 DEF ClearL1, history, At
  <2>2. d.pc = "clearL2" /\ d.op = c.op /\ k \in Held(d) /\ c.op = "clear"
    BY <1>t, <1>6, <1>11, <1>h, <2>1, OpOfStep DEF ClearL1
  <2>3. L1Of(k)' = 0
    BY <2>1 DEF L1Of
  <2> QED BY <1>t, <1>3, <1>5, <2>1, <2>2, <2>3 DEF Clean, Writing
(* The steps at L2.  A write that Redis obeys settles k, one that it does  *)
(* not is an error of Redis, and without Redis only L1 counts.             *)
<1>12. ASSUME NEW ks, NEW v, NEW expires, NEW next, WriteL2(p, ks, v, expires, next),
              Clean(k)'
       PROVE  /\ Clean(k) /\ UNCHANGED <<mode, l1, blocked, plain>>
              /\ \/ mode = "nil" /\ NilPanic(p) /\ l2' = l2
                 \/ mode = "disabled" /\ next /\ l2' = l2
                 \/ mode = "redis" /\ next /\ l2'[k] = IF k \in ks THEN v ELSE l2[k]
                 \/ mode \in {"redis", "closed"} /\ next /\ l2'[k] = l2[k] /\ k \notin ks
  <2>1. UNCHANGED <<mode, l1, blocked, overlapped, plain>>
    BY <1>12 DEF WriteL2
  <2>2. CASE faulty' = [x \in Keys |-> faulty[x] \/ x \in ks]
    <3>1. faulty'[k] = (faulty[k] \/ k \in ks)
      BY <2>2
    <3> QED BY <1>12, <2>1, <2>2, <3>1 DEF WriteL2, Clean, NilPanic
  <2>3. CASE faulty' = faulty
    BY <1>12, <2>1, <2>3 DEF WriteL2, Clean, NilPanic
  <2> QED BY <1>12, <2>2, <2>3 DEF WriteL2
<1>13. ASSUME NEW first, NextKey(p, first),
              \/ c.op \in {"set", "setTTL"} /\ first = "setL1"
              \/ c.op \in {"delete", "scheduled"} /\ first = "delL1",
              k \notin Held(d)
       PROVE  Key(p) = k
  <2>1. PICK e \in GoodCall :
          /\ call' = [call EXCEPT ![p] = e]
          /\ \/ e = Idle /\ c.todo = {}
             \/ e.op = c.op /\ e.key \in c.todo /\ e.todo = c.todo \ {e.key}
    BY <1>13, NextKeyGoes
  <2>2. e = d
    BY <2>1, <1>t, CallBecomes
  <2> QED BY <1>3, <1>13, <2>1, <2>2 DEF Held, Key
<1>14. ASSUME NEW first, NextKey(p, first), d # Idle,
              \/ c.op \in {"set", "setTTL"} /\ first = "setL1"
              \/ c.op \in {"delete", "scheduled"} /\ first = "delL1"
       PROVE  d.pc = first /\ d.op = c.op
  <2>1. PICK e \in GoodCall :
          call' = [call EXCEPT ![p] = e] /\ (e = Idle \/ (e.pc = first /\ e.op = c.op))
    BY <1>14, NextKeyGoes
  <2>2. e = d
    BY <2>1, <1>t, CallBecomes
  <2> QED BY <1>14, <2>1, <2>2
<1>15. NilPanic(p) => d = Idle /\ (mode' = mode /\ blocked' = blocked => Settled(k)')
  <2> SUFFICES ASSUME NilPanic(p), mode' = mode, blocked' = blocked
               PROVE  Settled(k)'
    BY <1>7 DEF NilPanic
  <2> QED BY DEF NilPanic, NilInv, Settled
<1>16. CASE SetL2(p)
  <2>1. /\ c.op \in {"set", "setTTL"} /\ c.pc = "setL2"
        /\ WriteL2(p, {Key(p)}, c.val, c.op = "setTTL", NextKey(p, "setL1"))
    BY <1>t, <1>16, OpOfStep DEF SetL2, At
  <2>2. Clean(k)' => Clean(k)
    BY <1>12, <2>1
  <2> SUFFICES ASSUME Clean(k), Clean(k)', Writing(c, k)
               PROVE  IF k \in Held(d) THEN d.op \in Writes /\ Writing(call[p], k)' ELSE Settled(k)'
    BY <1>5, <2>2
  <2>3. UNCHANGED <<mode, l1, plain>> /\ blocked' = blocked
    BY <1>12, <2>1 DEF WriteL2
  <2>4. \/ NilPanic(p)
        \/ /\ NextKey(p, "setL1")
           /\ \/ mode = "disabled"
              \/ mode = "redis" /\ l2'[k] = IF k \in {Key(p)} THEN c.val ELSE l2[k]
              \/ k # Key(p)
    BY <1>12, <2>1
  <2>5. CASE k \in Held(d)
    <3>1. d # Idle /\ NextKey(p, "setL1")
      BY <1>4, <1>15, <2>4, <2>5
    <3>2. d.pc = "setL1" /\ d.op = c.op
      BY <1>14, <2>1, <3>1
    <3> QED BY <1>t, <1>3, <2>1, <2>3, <2>5, <3>2 DEF Writing
  <2>6. CASE k \notin Held(d) /\ NilPanic(p)
    BY <1>15, <2>3, <2>6
  <2>7. CASE k \notin Held(d) /\ ~NilPanic(p)
    <3>1. k = Key(p) /\ k = c.key
      BY <1>13, <2>1, <2>4, <2>7 DEF Key
    <3> QED BY <2>1, <2>3, <2>4, <2>7, <3>1 DEF Writing, Settled, HasValue, L1Of
  <2> QED BY <2>5, <2>6, <2>7
<1>17. CASE DelL2(p)
  <2>1. /\ c.op \in {"delete", "scheduled"} /\ c.pc = "delL2"
        /\ WriteL2(p, {Key(p)}, 0, FALSE, NextKey(p, "delL1"))
    BY <1>t, <1>17, OpOfStep DEF DelL2, At
  <2>2. Clean(k)' => Clean(k)
    BY <1>12, <2>1
  <2> SUFFICES ASSUME Clean(k), Clean(k)', Writing(c, k)
               PROVE  IF k \in Held(d) THEN d.op \in Writes /\ Writing(call[p], k)' ELSE Settled(k)'
    BY <1>5, <2>2
  <2>3. UNCHANGED <<mode, l1, plain>> /\ blocked' = blocked
    BY <1>12, <2>1 DEF WriteL2
  <2>4. \/ NilPanic(p)
        \/ /\ NextKey(p, "delL1")
           /\ \/ mode = "disabled"
              \/ mode = "redis" /\ l2'[k] = IF k \in {Key(p)} THEN 0 ELSE l2[k]
              \/ k # Key(p)
    <3> DEFINE next == NextKey(p, "delL1")  expires == FALSE  v == 0  ks == {Key(p)}
    <3>1. WriteL2(p, ks, v, expires, next)
      BY <2>1
    <3> HIDE DEF next, expires, v, ks
    <3>2. \/ NilPanic(p)
          \/ next /\ (mode = "disabled" \/ (mode = "redis" /\ l2'[k] = IF k \in ks THEN v ELSE l2[k])
                       \/ k \notin ks)
      BY <1>12, <3>1
    <3> QED BY <3>2 DEF next, v, ks
  <2>5. CASE k \in Held(d)
    <3>1. d # Idle /\ NextKey(p, "delL1")
      BY <1>4, <1>15, <2>4, <2>5
    <3>2. d.pc = "delL1" /\ d.op = c.op
      BY <1>14, <2>1, <3>1
    <3> QED BY <1>t, <1>3, <2>1, <2>3, <2>5, <3>2 DEF Writing
  <2>6. CASE k \notin Held(d) /\ NilPanic(p)
    BY <1>15, <2>3, <2>6
  <2>7. CASE k \notin Held(d) /\ ~NilPanic(p)
    <3>1. k = Key(p) /\ k = c.key
      BY <1>13, <2>1, <2>4, <2>7 DEF Key
    <3> QED BY <2>1, <2>3, <2>4, <2>7, <3>1 DEF Writing, Settled, HasValue, L1Of
  <2> QED BY <2>5, <2>6, <2>7
<1>18. CASE ClearL2(p)
  <2>1. c.pc = "clearL2" /\ WriteL2(p, Keys, 0, FALSE, Goto(p, "idle"))
    BY <1>18 DEF ClearL2, At
  <2>2. Clean(k)' => Clean(k)
    BY <1>12, <2>1
  <2> SUFFICES ASSUME Clean(k), Clean(k)', Writing(c, k)
               PROVE  IF k \in Held(d) THEN d.op \in Writes /\ Writing(call[p], k)' ELSE Settled(k)'
    BY <1>5, <2>2
  <2>3. UNCHANGED <<mode, l1, plain>> /\ blocked' = blocked
    BY <1>12, <2>1 DEF WriteL2
  <2>4. NilPanic(p) \/ (Goto(p, "idle") /\ (mode = "disabled" \/ l2'[k] = 0))
    <3> DEFINE next == Goto(p, "idle")  expires == FALSE  v == 0
    <3>1. WriteL2(p, Keys, v, expires, next)
      BY <2>1
    <3> HIDE DEF next, expires, v
    <3>2. NilPanic(p) \/ (next /\ (mode = "disabled" \/ l2'[k] = v))
      BY <1>12, <3>1
    <3> QED BY <3>2 DEF next, v
  <2>5. k \notin Held(d)
    BY <1>4, <1>7, <1>15, <2>4
  <2>6. CASE NilPanic(p)
    BY <1>15, <2>3, <2>5, <2>6
  <2>7. CASE ~NilPanic(p)
    BY <2>1, <2>3, <2>4, <2>5, <2>7 DEF Writing, Settled, HasValue, L1Of
  <2> QED BY <2>6, <2>7
<1> QED BY <1>1, <1>8, <1>9, <1>10, <1>11, <1>16, <1>17, <1>18
     DEF Work, RLockBlocked, IsBlockedKey, PenetrationStats, RecordMiss, ShouldBlock,
         RecordSuccess, AvalancheStats, GetL1, GetL2, Fill, At

(* The cache is closed while no call is between its levels: what is left   *)
(* of a value is what L1 has.                                              *)
LEMMA CloseKey ==
  ASSUME BaseInv, NEW k \in Keys, KeyInv(k), Close
  PROVE  KeyInv(k)'
<1>1. /\ mode' = "closed" /\ mode = "redis"
      /\ UNCHANGED <<l1, l2, blocked, call, overlapped, faulty, plain>>
  BY DEF Close, history
<1>2. Settled(k) => Settled(k)'
  BY <1>1 DEF Settled, HasValue, L1Of
<1>3. ASSUME NEW p \in Procs, k \in Held(call[p]), Stage(call[p], k)
      PROVE  Stage(call[p], k)'
  <2>1. call[p].op = "get" /\ call[p].pc = "lockSuccess"
    <3>1. call[p].pc \in {"idle", "sleep", "lockSuccess", "inAvStats"}
      BY DEF Close, At, Procs
    <3>2. call[p].op \notin {"none", "stats"}
      BY <1>3, CallIsGood, KeysAssumption DEF Held, GoodCall, Call, Writes
    <3> QED BY <3>1, <3>2, CallIsGood, OpOfStep
  <2>2. call'[p].op = "get" /\ call'[p].pc = "lockSuccess"
    BY <1>1, <2>1
  <2>3. Settled(k)
    BY <1>3, <2>1 DEF Stage, Reading, Writes
  <2> QED BY <1>2, <2>2, <2>3 DEF Stage, Reading, Writes
<1>4. (Clean(k)' <=> Clean(k)) /\ call' = call
  BY <1>1 DEF Clean
<1>5. \A p \in Procs : Held(call'[p]) = Held(call[p])
  BY <1>4
<1> SUFFICES ASSUME Clean(k)'
             PROVE  /\ \A p, q \in Procs : k \in Held(call'[p]) /\ k \in Held(call'[q]) => p = q
                    /\ \A p \in Procs : k \in Held(call'[p]) => Stage(call[p], k)'
                    /\ (\A p \in Procs : k \notin Held(call'[p])) => Settled(k)'
  BY DEF KeyInv
<1> QED BY <1>2, <1>3, <1>4, <1>5 DEF KeyInv

LEMMA KeyNext ==
  ASSUME BaseInv, NilInv, NEW k \in Keys, KeyInv(k), [Next]_vars
  PROVE  KeyInv(k)'
<1>t. /\ l1 \in [Keys -> Values] /\ l2 \in [Keys -> Values] /\ faulty \in [Keys -> BOOLEAN]
      /\ blocked \in [Keys -> {"no", "fresh", "expired"}]
  BY DEF BaseInv, LevelTypes, LockTypes, OtherTypes
<1>1. ASSUME NEW p \in Procs, Begins(p)
      PROVE  KeyInv(k)'
  BY <1>1, BeginsKey
<1>2. ASSUME NEW p \in Procs, NEW x \in Keys, ScheduleInvalidation(p, x)
      PROVE  KeyInv(k)'
  <2> DEFINE d == [Idle EXCEPT !.pc = "sleep", !.key = x]
  <2>1. d \in GoodCall /\ call' = [call EXCEPT ![p] = d] /\ d.op = "none"
    BY <1>2, IdleIsGood DEF ScheduleInvalidation, Idle
  <2>2. call[p].op = "none"
    BY <1>2, CallIsGood, OpOfStep DEF ScheduleInvalidation, MayCall, At
  <2>3. Calm(k)
    BY <1>2 DEF ScheduleInvalidation, Calm, Clean, levels, history
  <2> HIDE DEF d
  <2>4. \A q \in Procs : k \in Held(call[q]) \/ k \in Held(call'[q]) => call'[q] = call[q]
    BY <2>1, <2>2, CallBecomes DEF Held
  <2> QED BY <2>3, <2>4, Aside
<1>3. ASSUME NEW p \in Procs, Work(p), ~Wake(p)
      PROVE  KeyInv(k)'
  <2>1. CASE k \notin Held(call[p])
    BY <1>3, <2>1, WorkAside
  <2>2. CASE k \in Held(call[p])
    <3>1. call[p].pc # "sleep"
      BY <2>2, CallIsGood, OpOfStep DEF Held
    <3> QED BY <1>3, <2>2, <3>1, ReadAbout, WriteAbout
  <2> QED BY <2>1, <2>2
<1>4. CASE Close
  BY <1>4, CloseKey
<1>5. ASSUME NEW x \in Keys, BlockExpires(x) \/ EvictL1(x)
      PROVE  KeyInv(k)'
  <2>1. Calm(k) /\ call' = call
    BY <1>t, <1>5 DEF BlockExpires, EvictL1, Calm, Clean, levels, history
  <2> QED BY <2>1, Aside
<1>6. ASSUME NEW x \in Keys, ExpireL2(x)
      PROVE  KeyInv(k)'
  <2>1. CASE x = k
    <3>1. faulty'[k]
      BY <1>t, <1>6, <2>1 DEF ExpireL2
    <3> QED BY <3>1 DEF KeyInv, Clean
  <2>2. CASE x # k
    <3>1. Calm(k) /\ call' = call
      BY <1>t, <1>6, <2>2 DEF ExpireL2, Calm, Clean
    <3> QED BY <3>1, Aside
  <2> QED BY <2>1, <2>2
<1>7. CASE UNCHANGED vars
  <2>1. Calm(k) /\ call' = call
    BY <1>7 DEF vars, Calm, Clean, levels, history
  <2> QED BY <2>1, Aside
<1> QED BY <1>1, <1>2, <1>3, <1>4, <1>5, <1>6, <1>7, StepCases

(* The two invariants, of every key at once.                               *)
KeysInv == NilInv /\ \A k \in Keys : KeyInv(k)

LEMMA InitKeys == Init => KeysInv
<1> SUFFICES ASSUME Init PROVE KeysInv
  OBVIOUS
<1>1. \A p \in Procs : call[p].op = "none" /\ call[p].pc # "recordMiss" /\ Held(call[p]) = {}
  BY DEF Init, Idle, Held
<1>2. NilInv
  BY <1>1 DEF Init, NilInv
<1>3. \A k \in Keys : Settled(k)
  BY DEF Init, Settled, HasValue, L1Of
<1> QED BY <1>1, <1>2, <1>3 DEF KeysInv, KeyInv

LEMMA KeysHold == Spec => [](BaseInv /\ KeysInv)
<1>1. BaseInv /\ KeysInv /\ [Next]_vars => KeysInv'
  <2> SUFFICES ASSUME BaseInv, KeysInv, [Next]_vars PROVE KeysInv'
    OBVIOUS
  <2>1. ASSUME NEW k \in Keys
        PROVE  KeyInv(k)'
    BY KeyNext DEF KeysInv
  <2> QED BY <2>1, NilNext DEF KeysInv
<1> QED BY <1>1, InitKeys, BaseHolds, PTL DEF Spec

(* A key that no call is about, and that nothing disturbed, is settled.    *)
LEMMA QuietIsSettled ==
  ASSUME BaseInv, KeysInv, NEW k \in Keys, Quiet(k), Clean(k)
  PROVE  Settled(k)
<1>1. \A p \in Procs : k \notin Held(call[p])
  BY CallIsGood, HeldIsTouched DEF Quiet
<1> QED BY <1>1 DEF KeysInv, KeyInv

(* When calls on a key come one at a time and Redis neither fails nor      *)
(* expires it, L1 never has another value for it than L2 has.              *)
THEOREM LevelsAgree == Spec => []SequentialCoherence
<1>1. BaseInv /\ KeysInv => SequentialCoherence
  <2> SUFFICES ASSUME BaseInv, KeysInv, NEW k \in Keys, mode = "redis", L1Enabled, Quiet(k),
                      ~overlapped[k], ~faulty[k]
               PROVE  l1[k] \in {0, l2[k]}
    BY DEF SequentialCoherence
  <2> QED BY QuietIsSettled DEF Clean, Settled, L1Of
<1> QED BY <1>1, KeysHold, PTL

(* A key that has a value is not refused as a known miss, unless a call    *)
(* that leaves the block in place set it, calls on it overlapped, or Redis *)
(* failed on it or let it expire.                                          *)
THEOREM NoValueIsRefused == Spec => []BlockedKeyHasNoValue
<1>1. BaseInv /\ KeysInv => BlockedKeyHasNoValue
  <2> SUFFICES ASSUME BaseInv, KeysInv, NEW k \in Keys, Quiet(k), HasValue(k),
                      blocked[k] = "fresh", ~plain[k], ~overlapped[k], ~faulty[k]
               PROVE  FALSE
    BY DEF BlockedKeyHasNoValue
  <2> QED BY QuietIsSettled DEF Clean, Settled
<1> QED BY <1>1, KeysHold, PTL
================================================================================
