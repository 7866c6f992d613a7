----------------------------- MODULE AccountsProofs -----------------------------
(***************************************************************************)
(* The safety of Accounts for any number of players, sessions, goroutines, *)
(* calls, failing statements and crashes, and any changes of statistics.   *)
(***************************************************************************)
EXTENDS Accounts, TLAPS

-------------------------------------------------------------------------------
(* Types, and the level of every row.                                      *)

LoginOps  == {"httpLogin", "login"}
ChangeOps == LoginOps \cup {"profile", "stats"}

GoodRow == {row \in Player : row.level >= calculateLevel(row.exp)}

(* What a call holds, by how far it is.                                    *)
GoodCall ==
  {c \in Call :
    /\ c.pc \in {"checkName", "createPlayer", "readName", "read", "save", "createSession"}
         => c.name \in Names
    /\ c.pc \in {"readSession", "readOwner", "logout"} => c.session \in SessionIds
    /\ c.pc \in {"readName", "read", "save"} => c.op \in ChangeOps
    /\ c.pc = "save" => c.row \in GoodRow
    /\ c.pc = "createSession" => c.op \in LoginOps
    /\ c.over => c.session \in SessionIds}

(* The slaves matter: rows read from them are saved.                       *)
MasterRows == players \in [Names -> GoodRow \cup {NoRow}]
RowsInv    == MasterRows /\ playerReplicas \in [Names -> SUBSET (GoodRow \cup {NoRow})]

CallsInv == call \in [Clients -> GoodCall]

MasterSessions ==
  /\ sessions \in [SessionIds -> SessionStates] /\ owner \in [SessionIds -> Names \cup {NoName}]
  /\ tokens \subseteq Names \X {"access", "refresh"} /\ late \subseteq SessionIds

SessionTypes ==
  /\ MasterSessions /\ expired \subseteq SessionIds
  /\ sessionReplicas \in [SessionIds -> SUBSET SessionStates]

HistoryTypes ==
  /\ ledger \in [Names -> [exp : Int, coins : Int]]
  /\ diverged \in [Names -> BOOLEAN] /\ wins \in [Names -> Nat]

BoundTypes == calls \in 0..MaxCalls /\ faults \in 0..MaxFaults /\ crashes \in 0..MaxCrashes

BaseInv == RowsInv /\ CallsInv /\ SessionTypes /\ HistoryTypes /\ BoundTypes

LEMMA RowsAreRows == GoodRow \subseteq Player /\ NoRow \notin GoodRow
  BY AccountsAssumption DEF GoodRow

LEMMA BaseGivesTypes == BaseInv => TypeOK
<1> SUFFICES ASSUME BaseInv PROVE TypeOK
  OBVIOUS
<1>1. /\ players \in [Names -> Player \cup {NoRow}]
      /\ playerReplicas \in [Names -> SUBSET (Player \cup {NoRow})]
  BY RowsAreRows DEF BaseInv, RowsInv, MasterRows
<1>2. call \in [Clients -> Call]
  BY DEF BaseInv, CallsInv, GoodCall
<1> QED BY <1>1, <1>2 DEF BaseInv, SessionTypes, MasterSessions, HistoryTypes, BoundTypes, SessionStates, TypeOK

(* calculateLevel gives a level.                                           *)
LEMMA LevelIsPositive == \A e \in Int : calculateLevel(e) \in Nat \ {0}
<1> SUFFICES ASSUME NEW e \in Int PROVE calculateLevel(e) \in Nat \ {0}
  OBVIOUS
<1>1. e >= 100 => e \div 100 \in Nat
  OBVIOUS
<1> QED BY <1>1 DEF calculateLevel

(* A change of a row keeps its level up with its experience.               *)
LEMMA ChangedIsGood ==
  ASSUME NEW row \in GoodRow, NEW c \in Call, c.op \in ChangeOps
  PROVE  Changed(row, c) \in GoodRow
<1>1. row \in Player /\ row.level \in Nat \ {0} /\ row.exp \in Int /\ row.coins \in Int
  BY DEF GoodRow, Player
<1>2. c.delta.exp \in Int /\ c.delta.coins \in Int
  BY AccountsAssumption DEF Call
<1>3. CASE c.op = "stats"
  <2> DEFINE exp == row.exp + c.delta.exp
             coins == NotBelowZero(row.coins + c.delta.coins)
             level == LevelAfter(row, c.delta)
  <2>1. exp \in Int /\ coins \in Int
    BY <1>1, <1>2 DEF NotBelowZero
  <2>2. level \in Nat \ {0} /\ level >= calculateLevel(exp)
    BY <1>1, <2>1, LevelIsPositive DEF LevelAfter
  <2>3. Changed(row, c) = [row EXCEPT !.exp = exp, !.coins = coins, !.level = level]
    BY <1>3 DEF Changed
  <2> HIDE DEF exp, coins, level
  <2> QED BY <1>1, <2>1, <2>2, <2>3 DEF GoodRow, Player
<1>4. CASE c.op = "profile"
  <2>1. Changed(row, c) = [row EXCEPT !.profile = "new"]
    BY <1>4 DEF Changed
  <2> QED BY <1>1, <2>1 DEF GoodRow, Player
<1>5. CASE c.op \in LoginOps
  BY <1>5 DEF Changed, LoginOps
<1> QED BY <1>3, <1>4, <1>5 DEF ChangeOps

LEMMA NewPlayerIsGood == NewPlayer \in GoodRow
  BY DEF NewPlayer, GoodRow, Player, calculateLevel

LEMMA IdleIsGood == Idle \in GoodCall /\ Idle.pc = "idle" /\ ~Idle.over
  BY DEF Idle, GoodCall, Call, Zero

-------------------------------------------------------------------------------
LEMMA InitBase == Init => BaseInv
<1> SUFFICES ASSUME Init PROVE BaseInv
  OBVIOUS
<1>1. RowsInv
  <2>1. players \in PlayerTables /\ playerReplicas = Slaves(players)
        /\ players \in [Names -> Player \cup {NoRow}]
    BY AccountsAssumption DEF Init
  <2>2. \A n \in Names : players[n] \in GoodRow \cup {NoRow}
    BY <2>1, LevelsAssumption DEF GoodRow
  <2> QED BY <2>1, <2>2 DEF RowsInv, MasterRows, Slaves
<1>2. CallsInv
  BY IdleIsGood DEF Init, CallsInv
<1>3. SessionTypes
  BY DEF Init, SessionTypes, MasterSessions, SessionStates, Slaves
<1>4. HistoryTypes
  <2>1. \A n \in Names : Purse(players[n]) \in [exp : Int, coins : Int]
    BY <1>1 DEF RowsInv, MasterRows, GoodRow, Player, Purse, Zero
  <2> QED BY <2>1 DEF Init, HistoryTypes
<1>5. BoundTypes
  BY AccountsAssumption DEF Init, BoundTypes
<1> QED BY <1>1, <1>2, <1>3, <1>4, <1>5 DEF BaseInv

-------------------------------------------------------------------------------
(* The beginning of a call: what it begins with.                           *)
LEMMA RequestBegins ==
  ASSUME BaseInv, NEW p \in Clients, Request(p)
  PROVE  \E d \in GoodCall :
           /\ d.pc \notin {"idle", "save", "createSession", "readOwner"}
           /\ d.over => Ended(d.session)
           /\ call' = [call EXCEPT ![p] = d]
           /\ calls' \in 0..MaxCalls
           /\ UNCHANGED <<tables, replicas, expired, tokens, faults, crashes, history>>
<1>1. ASSUME NEW d, Begin(p, d)
      PROVE  /\ call' = [call EXCEPT ![p] = d] /\ calls' \in 0..MaxCalls
             /\ UNCHANGED <<tables, replicas, expired, tokens, faults, crashes, history>>
  BY <1>1, AccountsAssumption DEF Begin, BaseInv, BoundTypes
<1>2. ASSUME NEW first \in {"checkName", "readName", "read"}, NEW o, NEW n \in Names,
             BeginOn(p, first, o, n), o \in {"register", "httpLogin", "login", "profile"},
             first # "checkName" => o \in ChangeOps
      PROVE  \E d \in GoodCall : d.pc = first /\ ~d.over /\ Begin(p, d)
  <2> DEFINE d == [Idle EXCEPT !.pc = first, !.op = o, !.name = n]
  <2>1. d \in GoodCall /\ d.pc = first /\ ~d.over
    BY <1>2 DEF Idle, Zero, GoodCall, Call
  <2> QED BY <1>2, <2>1 DEF BeginOn
<1>3. ASSUME UpdatePlayerStats(p)
      PROVE  \E d \in GoodCall : d.pc = "read" /\ ~d.over /\ Begin(p, d)
  <2>1. PICK n \in Names, x \in Deltas :
          Begin(p, [Idle EXCEPT !.pc = "read", !.op = "stats", !.name = n, !.delta = x])
    BY <1>3 DEF UpdatePlayerStats
  <2> DEFINE d == [Idle EXCEPT !.pc = "read", !.op = "stats", !.name = n, !.delta = x]
  <2>2. d \in GoodCall /\ d.pc = "read" /\ ~d.over
    BY DEF Idle, Zero, GoodCall, Call, ChangeOps
  <2> QED BY <2>1, <2>2
<1>4. ASSUME NEW first \in {"logout", "readSession"}, BeginSession(p, first)
      PROVE  \E d \in GoodCall : d.pc = first /\ (d.over => Ended(d.session)) /\ Begin(p, d)
  <2>1. PICK s \in SessionIds :
          Begin(p, [Idle EXCEPT !.pc = first, !.op = "session", !.session = s, !.over = Ended(s)])
    BY <1>4 DEF BeginSession
  <2> DEFINE d == [Idle EXCEPT !.pc = first, !.op = "session", !.session = s, !.over = Ended(s)]
  <2>2. Ended(s) \in BOOLEAN
    BY DEF Ended
  <2>3. d \in GoodCall /\ d.pc = first /\ (d.over => Ended(d.session))
    BY <2>2 DEF Idle, Zero, GoodCall, Call
  <2> QED BY <2>1, <2>3
<1>5. ASSUME CleanupExpired(p)
      PROVE  \E d \in GoodCall : d.pc = "cleanup" /\ ~d.over /\ Begin(p, d)
  <2> DEFINE d == [Idle EXCEPT !.pc = "cleanup", !.op = "session"]
  <2>1. d \in GoodCall /\ d.pc = "cleanup" /\ ~d.over
    BY DEF Idle, Zero, GoodCall, Call
  <2> QED BY <1>5, <2>1 DEF CleanupExpired
<1>6. \E d \in GoodCall : /\ d.pc \notin {"idle", "save", "createSession", "readOwner"}
                          /\ d.over => Ended(d.session)
                          /\ Begin(p, d)
  <2>1. CASE playerRegister(p)
    BY <2>1, <1>2 DEF playerRegister
  <2>2. CASE playerLogin(p)
    BY <2>2, <1>2 DEF playerLogin, ChangeOps, LoginOps
  <2>3. CASE handlePlayerLogin(p)
    BY <2>3, <1>2 DEF handlePlayerLogin, ChangeOps, LoginOps
  <2>4. CASE updatePlayer(p)
    BY <2>4, <1>2 DEF updatePlayer, ChangeOps
  <2>5. CASE UpdatePlayerStats(p)
    BY <2>5, <1>3
  <2>6. CASE handlePlayerLogout(p) \/ ValidateSession(p)
    BY <2>6, <1>4 DEF handlePlayerLogout, ValidateSession
  <2>7. CASE CleanupExpired(p)
    BY <2>7, <1>5
  <2> QED BY <2>1, <2>2, <2>3, <2>4, <2>5, <2>6, <2>7 DEF Request
<1> QED BY <1>1, <1>6

-------------------------------------------------------------------------------
(* The statements.                                                         *)

(* A call under way is one GoodCall describes.                             *)
LEMMA CallIsGood ==
  ASSUME BaseInv, NEW p \in Clients
  PROVE  call[p] \in GoodCall /\ call[p] \in Call
  BY DEF BaseInv, CallsInv, GoodCall

LEMMA CallBecomes ==
  ASSUME BaseInv, NEW p \in Clients, NEW d \in GoodCall, call' = [call EXCEPT ![p] = d]
  PROVE  CallsInv' /\ \A q \in Clients : call'[q] = IF q = p THEN d ELSE call[q]
  BY DEF BaseInv, CallsInv

(* Goto ends the call, or only moves it on.                                *)
LEMMA GoesTo ==
  ASSUME BaseInv, NEW p \in Clients,
         NEW step \in {"idle", "createPlayer", "read", "readOwner"},
         Goto(p, step),
         step \in {"createPlayer", "read"} => call[p].name \in Names,
         step = "read" => call[p].op \in ChangeOps,
         step = "readOwner" => call[p].session \in SessionIds
  PROVE  \E d \in GoodCall : /\ call' = [call EXCEPT ![p] = d] /\ d.pc = step
                             /\ d.over => call[p].over /\ d.session = call[p].session
<1>1. CASE step = "idle"
  BY <1>1, IdleIsGood DEF Goto
<1>2. CASE step # "idle"
  <2> DEFINE d == [call[p] EXCEPT !.pc = step]
  <2>1. call' = [call EXCEPT ![p] = d]
    BY <1>2 DEF Goto
  <2>2. d \in GoodCall /\ d.pc = step /\ d.over = call[p].over /\ d.session = call[p].session
    BY <1>2, CallIsGood DEF GoodCall, Call
  <2> QED BY <2>1, <2>2
<1> QED BY <1>1, <1>2

(* The statements that move a call on and change no row of a player: what  *)
(* they do to the calls.                                                   *)
LEMMA PlainStatement ==
  ASSUME BaseInv, NEW p \in Clients, NEW o \in Outcomes,
         \/ RegisterPlayer(p, o) \/ LoginPlayerByUsername(p, o) \/ CreatePlayer(p, o)
         \/ CreateSession(p, o) \/ LogoutPlayer(p, o) \/ GetSessionByID(p, o)
         \/ ReadOwner(p, o) \/ CleanupExpiredSessions(p, o)
  PROVE  \E d \in GoodCall :
           /\ call' = [call EXCEPT ![p] = d] /\ d.pc \notin {"save", "createSession"}
           /\ d.over => call[p].over /\ d.session = call[p].session
           /\ d.pc = "readOwner" =>
                \E state \in sessionReplicas[call[p].session] : Usable(call[p].session, state)
           /\ d.pc = "read" => d.name \in Names
<1> DEFINE Result(step) ==
      /\ Goto(p, step)
      /\ step \in {"createPlayer", "read"} => call[p].name \in Names
      /\ step = "read" => call[p].op \in ChangeOps
      /\ step = "readOwner" =>
           /\ call[p].session \in SessionIds
           /\ \E state \in sessionReplicas[call[p].session] : Usable(call[p].session, state)
<1>1. \E step \in {"idle", "createPlayer", "read", "readOwner"} : Result(step)
  <2>1. CASE RegisterPlayer(p, o)
    <3>1. PICK step \in {"idle", "createPlayer"} : Goto(p, step)
      BY <2>1 DEF RegisterPlayer
    <3>2. call[p].name \in Names
      BY <2>1, CallIsGood DEF RegisterPlayer, GoodCall
    <3> QED BY <3>1, <3>2
  <2>2. CASE LoginPlayerByUsername(p, o)
    <3>1. PICK step \in {"idle", "read"} : Goto(p, step)
      BY <2>2 DEF LoginPlayerByUsername
    <3>2. call[p].name \in Names /\ call[p].op \in ChangeOps
      BY <2>2, CallIsGood DEF LoginPlayerByUsername, GoodCall
    <3> QED BY <3>1, <3>2
  <2>3. CASE CreatePlayer(p, o) \/ CreateSession(p, o) \/ LogoutPlayer(p, o)
             \/ ReadOwner(p, o) \/ CleanupExpiredSessions(p, o)
    <3>1. Goto(p, "idle")
      BY <2>3 DEF CreatePlayer, CreateSession, LogoutPlayer, ReadOwner, CleanupExpiredSessions
    <3> QED BY <3>1
  <2>4. CASE GetSessionByID(p, o)
    <3>1. call[p].session \in SessionIds
      BY <2>4, CallIsGood DEF GetSessionByID, GoodCall
    <3>2. PICK state \in sessionReplicas[call[p].session] :
            Goto(p, IF o = "ok" /\ Usable(call[p].session, state) THEN "readOwner" ELSE "idle")
      BY <2>4 DEF GetSessionByID
    <3>3. CASE o = "ok" /\ Usable(call[p].session, state)
      BY <3>1, <3>2, <3>3
    <3>4. CASE ~(o = "ok" /\ Usable(call[p].session, state))
      <4>1. Goto(p, "idle")
        BY <3>2, <3>4
      <4> QED BY <4>1
    <3> QED BY <3>3, <3>4
  <2> QED BY <2>1, <2>2, <2>3, <2>4
<1>2. PICK step \in {"idle", "createPlayer", "read", "readOwner"} : Result(step)
  BY <1>1
<1>3. PICK d \in GoodCall : /\ call' = [call EXCEPT ![p] = d] /\ d.pc = step
                            /\ d.over => call[p].over /\ d.session = call[p].session
  BY <1>2, GoesTo
<1>4. d.pc = "read" => d.name \in Names
  BY DEF GoodCall
<1> QED BY <1>2, <1>3, <1>4

(* GetPlayerByID goes on to the save of a good row, or ends the call.      *)
LEMMA ReadStatement ==
  ASSUME BaseInv, NEW p \in Clients, NEW o \in Outcomes, GetPlayerByID(p, o)
  PROVE  \E d \in GoodCall :
           /\ call' = [call EXCEPT ![p] = d] /\ (d.over => call[p].over /\ d.session = call[p].session)
           /\ \/ d = Idle
              \/ \E row \in playerReplicas[d.name] :
                   /\ d.pc = "save" /\ row # NoRow /\ MayProceed(d, row)
                   /\ d.row = Changed(row, d) /\ d.behind = (row # players[d.name])
<1> DEFINE c == call[p]
<1>p. PICK row \in playerReplicas[c.name] :
        call' = [call EXCEPT ![p] =
          IF o = "ok" /\ row # NoRow /\ MayProceed(c, row)
            THEN [c EXCEPT !.pc = "save", !.row = Changed(row, c),
                           !.behind = row # players[c.name]]
            ELSE Idle]
  BY DEF GetPlayerByID
<1> DEFINE d == [c EXCEPT !.pc = "save", !.row = Changed(row, c), !.behind = row # players[c.name]]
<1>1. CASE o = "ok" /\ row # NoRow /\ MayProceed(c, row)
  <2>1. c \in Call /\ c \in GoodCall /\ c.pc = "read" /\ c.name \in Names /\ c.op \in ChangeOps
    BY CallIsGood DEF GetPlayerByID, GoodCall
  <2>2. row \in GoodRow
    BY <1>1, <1>p, <2>1 DEF BaseInv, RowsInv
  <2>3. Changed(row, c) \in GoodRow
    BY <2>1, <2>2, ChangedIsGood
  <2>4. call' = [call EXCEPT ![p] = d]
    BY <1>1, <1>p
  <2>c. Changed(row, c) = Changed(row, d) /\ MayProceed(d, row)
    <3>1. d.op = c.op /\ d.delta = c.delta
      BY <2>1 DEF Call
    <3> HIDE DEF d
    <3> QED BY <1>1, <3>1 DEF Changed, MayProceed, LevelAfter
  <2>5. /\ d.pc = "save" /\ d.row = Changed(row, c) /\ d.behind = (row # players[c.name])
        /\ d.name = c.name /\ d.over = c.over /\ d.session = c.session
    BY <2>1 DEF Call
  <2>6. d \in GoodCall
    <3> DEFINE r == Changed(row, c)
               b == row # players[c.name]
    <3>1. r \in GoodRow /\ b \in BOOLEAN
      BY <2>3
    <3> HIDE DEF r, b
    <3>2. [c EXCEPT !.pc = "save", !.row = r, !.behind = b] \in GoodCall
      BY <2>1, <3>1, RowsAreRows DEF GoodCall, Call
    <3> QED BY <3>2 DEF r, b
  <2> HIDE DEF d
  <2>7. row \in playerReplicas[d.name] /\ d.behind = (row # players[d.name])
    BY <1>p, <2>5
  <2>8. \E r \in playerReplicas[d.name] :
          /\ d.pc = "save" /\ r # NoRow /\ MayProceed(d, r)
          /\ d.row = Changed(r, d) /\ d.behind = (r # players[d.name])
    <3> HIDE DEF c
    <3> QED BY <1>1, <2>c, <2>5, <2>7, Zenon
  <2>9. d.over => call[p].over /\ d.session = call[p].session
    BY <2>5
  <2> QED BY <2>4, <2>6, <2>8, <2>9, Zenon
<1>2. CASE ~(o = "ok" /\ row # NoRow /\ MayProceed(c, row))
  <2>1. call' = [call EXCEPT ![p] = Idle]
    BY <1>2, <1>p
  <2> QED BY <2>1, IdleIsGood
<1> QED BY <1>1, <1>2

(* What Overtaken does to a call.                                          *)
LEMMA OvertakenCalls ==
  ASSUME BaseInv, NEW n, NEW but
  PROVE  /\ Overtaken(n, but) \in [Clients -> GoodCall]
         /\ \A q \in Clients :
              LET d == Overtaken(n, but)[q]
              IN  /\ d.pc = call[q].pc /\ d.op = call[q].op /\ d.name = call[q].name
                  /\ d.row = call[q].row /\ d.delta = call[q].delta
                  /\ d.session = call[q].session /\ d.over = call[q].over
                  /\ d.behind = (call[q].behind
                                 \/ (q \notin but /\ call[q].pc = "save" /\ call[q].name = n))
<1>1. ASSUME NEW q \in Clients
      PROVE  /\ Overtaken(n, but)[q] \in GoodCall
             /\ LET d == Overtaken(n, but)[q]
                IN  /\ d.pc = call[q].pc /\ d.op = call[q].op /\ d.name = call[q].name
                    /\ d.row = call[q].row /\ d.delta = call[q].delta
                    /\ d.session = call[q].session /\ d.over = call[q].over
                    /\ d.behind = (call[q].behind
                                   \/ (q \notin but /\ call[q].pc = "save" /\ call[q].name = n))
  <2>1. call[q] \in Call /\ call[q] \in GoodCall
    BY CallIsGood
  <2>2. CASE q \notin but /\ call[q].pc = "save" /\ call[q].name = n
    <3>1. Overtaken(n, but)[q] = [call[q] EXCEPT !.behind = TRUE]
      BY <2>2 DEF Overtaken
    <3> QED BY <2>1, <2>2, <3>1 DEF GoodCall, Call
  <2>3. CASE ~(q \notin but /\ call[q].pc = "save" /\ call[q].name = n)
    <3>1. Overtaken(n, but)[q] = call[q]
      BY <2>3 DEF Overtaken
    <3> QED BY <2>1, <2>3, <3>1 DEF Call
  <2> QED BY <2>2, <2>3
<1>2. Overtaken(n, but) = [q \in Clients |-> Overtaken(n, but)[q]]
  BY DEF Overtaken
<1> QED BY <1>1, <1>2

(* UpdatePlayer: the call that saves ends or goes on to its session; the   *)
(* others are as before but for what they have been overtaken by.          *)
LEMMA SaveStatement ==
  ASSUME BaseInv, NEW p \in Clients, NEW o \in Outcomes, UpdatePlayer(p, o)
  PROVE  /\ call[p].pc = "save" /\ call[p].name \in Names /\ call[p].row \in GoodRow
         /\ call[p].op \in ChangeOps
         /\ call' \in [Clients -> GoodCall]
         /\ call'[p].pc \in {"idle", "createSession"} /\ call'[p].name \in {call[p].name, NoName}
         /\ \/ call'[p].pc = "idle"
            \/ call'[p].op \in LoginOps /\ call'[p].op = call[p].op
         /\ call'[p].over => call[p].over /\ call'[p].session = call[p].session
         /\ \A q \in Clients \ {p} :
              /\ call'[q].pc = call[q].pc /\ call'[q].op = call[q].op
              /\ call'[q].name = call[q].name /\ call'[q].row = call[q].row
              /\ call'[q].delta = call[q].delta /\ call'[q].session = call[q].session
              /\ call'[q].over = call[q].over
              /\ call'[q].behind = (call[q].behind
                   \/ (o # "error" /\ call[q].pc = "save" /\ call[q].name = call[p].name))
<1> DEFINE c == call[p]
           base == IF o # "error" THEN Overtaken(c.name, {p}) ELSE call
           login == o = "ok" /\ c.op \in LoginOps
           d == IF login THEN [c EXCEPT !.pc = "createSession"] ELSE Idle
<1>1. /\ c.pc = "save" /\ call' = [base EXCEPT ![p] = d]
  BY DEF UpdatePlayer, LoginOps
<1>2. c \in Call /\ c \in GoodCall /\ c.name \in Names /\ c.row \in GoodRow /\ c.op \in ChangeOps
  BY <1>1, CallIsGood DEF GoodCall
<1>3. base \in [Clients -> GoodCall]
  BY OvertakenCalls DEF BaseInv, CallsInv
<1>4. /\ d \in GoodCall /\ d.pc \in {"idle", "createSession"} /\ d.name \in {c.name, NoName}
      /\ d.pc = "idle" \/ (d.op \in LoginOps /\ d.op = c.op)
      /\ d.over => c.over /\ d.session = c.session
  <2>1. CASE login
    BY <1>2, <2>1 DEF GoodCall, Call
  <2>2. CASE ~login
    <3>1. Idle.name = NoName
      BY DEF Idle
    <3> QED BY <2>2, <3>1, IdleIsGood
  <2> QED BY <2>1, <2>2
<1>5. ASSUME NEW q \in Clients \ {p}
      PROVE  /\ base[q].pc = call[q].pc /\ base[q].op = call[q].op
             /\ base[q].name = call[q].name /\ base[q].row = call[q].row
             /\ base[q].delta = call[q].delta /\ base[q].session = call[q].session
             /\ base[q].over = call[q].over
             /\ base[q].behind = (call[q].behind
                  \/ (o # "error" /\ call[q].pc = "save" /\ call[q].name = c.name))
  <2>1. call[q].behind \in BOOLEAN
    BY CallIsGood DEF Call
  <2> QED BY <1>5, <2>1, OvertakenCalls
<1> HIDE DEF base, d
<1>6. call' \in [Clients -> GoodCall] /\ call'[p] = d /\ \A q \in Clients \ {p} : call'[q] = base[q]
  BY <1>1, <1>3, <1>4
<1> QED BY <1>1, <1>2, <1>4, <1>5, <1>6

-------------------------------------------------------------------------------
(* Every statement keeps rows, calls, sessions and history well typed.     *)
LEMMA StatementBase ==
  ASSUME BaseInv, NEW p \in Clients, NEW o \in Outcomes, Statement(p, o)
  PROVE  MasterRows' /\ CallsInv' /\ MasterSessions' /\ HistoryTypes'
<1>t. /\ players \in [Names -> GoodRow \cup {NoRow}] /\ MasterRows /\ MasterSessions /\ HistoryTypes
      /\ sessions \in [SessionIds -> SessionStates] /\ owner \in [SessionIds -> Names \cup {NoName}]
      /\ tokens \subseteq Names \X {"access", "refresh"} /\ late \subseteq SessionIds
      /\ ledger \in [Names -> [exp : Int, coins : Int]]
      /\ diverged \in [Names -> BOOLEAN] /\ wins \in [Names -> Nat]
      /\ call[p] \in GoodCall
  BY CallIsGood DEF BaseInv, RowsInv, MasterRows, SessionTypes, MasterSessions, HistoryTypes
<1>p. ASSUME \/ RegisterPlayer(p, o) \/ LoginPlayerByUsername(p, o) \/ CreatePlayer(p, o)
             \/ CreateSession(p, o) \/ LogoutPlayer(p, o) \/ GetSessionByID(p, o)
             \/ ReadOwner(p, o) \/ CleanupExpiredSessions(p, o)
      PROVE  CallsInv'
  BY <1>p, PlainStatement, CallBecomes
<1>1. CASE RegisterPlayer(p, o) \/ LoginPlayerByUsername(p, o) \/ GetSessionByID(p, o)
  <2>1. UNCHANGED <<tables, tokens, history>>
    BY <1>1 DEF RegisterPlayer, LoginPlayerByUsername, GetSessionByID
  <2> QED BY <1>t, <1>p, <1>1, <2>1 DEF MasterRows, MasterSessions, HistoryTypes, tables, history
<1>2. CASE GetPlayerByID(p, o)
  <2>1. UNCHANGED <<tables, tokens, history>>
    BY <1>2 DEF GetPlayerByID
  <2>2. CallsInv'
    BY <1>2, ReadStatement, CallBecomes
  <2> QED BY <1>t, <2>1, <2>2 DEF MasterRows, MasterSessions, HistoryTypes, tables, history
<1>3. CASE CreatePlayer(p, o)
  <2> DEFINE n == call[p].name
  <2>1. n \in Names
    BY <1>t, <1>3 DEF CreatePlayer, GoodCall
  <2>2. /\ players' \in {players, [players EXCEPT ![n] = NewPlayer]}
        /\ ledger' \in {ledger, [ledger EXCEPT ![n] = Purse(NewPlayer)]}
        /\ wins' \in {wins, [wins EXCEPT ![n] = @ + 1]}
        /\ UNCHANGED <<sessions, owner, tokens, diverged, late>>
    BY <1>3 DEF CreatePlayer
  <2>3. Purse(NewPlayer) \in [exp : Int, coins : Int]
    BY NewPlayerIsGood, RowsAreRows DEF Purse, Player
  <2>4. MasterRows'
    BY <1>t, <2>1, <2>2, NewPlayerIsGood DEF MasterRows
  <2>5. HistoryTypes'
    <3>1. ledger' \in [Names -> [exp : Int, coins : Int]]
      BY <1>t, <2>1, <2>2, <2>3
    <3>2. wins' \in [Names -> Nat]
      BY <1>t, <2>1, <2>2
    <3> QED BY <1>t, <2>2, <3>1, <3>2 DEF HistoryTypes
  <2> QED BY <1>t, <1>p, <1>3, <2>2, <2>4, <2>5 DEF MasterSessions
<1>4. CASE UpdatePlayer(p, o)
  <2> DEFINE c == call[p]
             n == c.name
             purse == [exp |-> ledger[n].exp + c.delta.exp,
                       coins |-> NotBelowZero(ledger[n].coins + c.delta.coins)]
  <2>1. n \in Names /\ c.row \in GoodRow /\ CallsInv'
    BY <1>4, SaveStatement DEF CallsInv
  <2>2. /\ players' \in {players, [players EXCEPT ![n] = c.row]}
        /\ ledger' \in {ledger, [ledger EXCEPT ![n] = purse]}
        /\ diverged' \in {diverged, [diverged EXCEPT ![n] = TRUE]}
        /\ UNCHANGED <<sessions, owner, tokens, wins, late>>
    BY <1>4 DEF UpdatePlayer, SavedRow
  <2>3. purse \in [exp : Int, coins : Int]
    <3>1. c.delta.exp \in Int /\ c.delta.coins \in Int
      BY <1>t, AccountsAssumption DEF GoodCall, Call
    <3>2. ledger[n].exp \in Int /\ ledger[n].coins \in Int
      BY <1>t, <2>1
    <3> QED BY <3>1, <3>2 DEF NotBelowZero
  <2> HIDE DEF purse
  <2>4. MasterRows'
    BY <1>t, <2>1, <2>2 DEF MasterRows
  <2>5. HistoryTypes'
    <3>1. ledger' \in [Names -> [exp : Int, coins : Int]]
      BY <1>t, <2>1, <2>2, <2>3
    <3>2. diverged' \in [Names -> BOOLEAN]
      BY <1>t, <2>1, <2>2
    <3> QED BY <1>t, <2>2, <3>1, <3>2 DEF HistoryTypes
  <2> QED BY <1>t, <2>1, <2>2, <2>4, <2>5 DEF MasterSessions
<1>5. CASE CreateSession(p, o)
  <2> DEFINE c == call[p]
  <2>1. c.name \in Names
    BY <1>t, <1>5 DEF CreateSession, GoodCall
  <2>2. sessions' \in [SessionIds -> SessionStates] /\ owner' \in [SessionIds -> Names \cup {NoName}]
    <3>1. CASE UNCHANGED <<sessions, owner>>
      BY <1>t, <3>1
    <3>2. ASSUME NEW s \in SessionIds, InsertSession(s, c.name)
          PROVE  sessions' \in [SessionIds -> SessionStates]
                 /\ owner' \in [SessionIds -> Names \cup {NoName}]
      BY <1>t, <2>1, <3>2 DEF InsertSession, SessionStates
    <3> QED BY <1>5, <3>1, <3>2 DEF CreateSession
  <2>3. tokens' \subseteq Names \X {"access", "refresh"}
    BY <1>t, <1>5, <2>1 DEF CreateSession, TokensFrom
  <2>4. UNCHANGED <<players, history>>
    BY <1>5 DEF CreateSession
  <2> QED BY <1>t, <1>p, <1>5, <2>2, <2>3, <2>4 DEF MasterRows, MasterSessions, HistoryTypes, history
<1>6. CASE LogoutPlayer(p, o)
  <2>1. sessions' \in [SessionIds -> SessionStates]
    BY <1>t, <1>6 DEF LogoutPlayer, InvalidateSession, SessionStates
  <2>2. UNCHANGED <<players, owner, tokens, history>>
    BY <1>6 DEF LogoutPlayer
  <2> QED BY <1>t, <1>p, <1>6, <2>1, <2>2 DEF MasterRows, MasterSessions, HistoryTypes, history
<1>7. CASE ReadOwner(p, o)
  <2>1. late' \subseteq SessionIds
    BY <1>t, <1>7 DEF ReadOwner, GoodCall
  <2>2. UNCHANGED <<tables, tokens, ledger, diverged, wins>>
    BY <1>7 DEF ReadOwner
  <2> QED BY <1>t, <1>p, <1>7, <2>1, <2>2 DEF MasterRows, MasterSessions, HistoryTypes, tables
<1>8. CASE CleanupExpiredSessions(p, o)
  <2>1. sessions' \in [SessionIds -> SessionStates]
    BY <1>t, <1>8 DEF CleanupExpiredSessions, SessionStates
  <2>2. UNCHANGED <<players, owner, tokens, history>>
    BY <1>8 DEF CleanupExpiredSessions
  <2> QED BY <1>t, <1>p, <1>8, <2>1, <2>2 DEF MasterRows, MasterSessions, HistoryTypes, history
<1> QED BY <1>1, <1>2, <1>3, <1>4, <1>5, <1>6, <1>7, <1>8 DEF Statement

(* The slaves are shipped what the master holds.                           *)
LEMMA ShipKeepsTypes ==
  ASSUME BaseInv, MasterRows', MasterSessions', Ship, UNCHANGED expired
  PROVE  /\ RowsInv' /\ SessionTypes'
         /\ \A n \in Names : playerReplicas'[n] = playerReplicas[n] \cup {players'[n]}
         /\ \A s \in SessionIds : sessionReplicas'[s] = sessionReplicas[s] \cup {sessions'[s]}
<1>1. /\ playerReplicas' \in [Names -> SUBSET (GoodRow \cup {NoRow})]
      /\ \A n \in Names : playerReplicas'[n] = playerReplicas[n] \cup {players'[n]}
  BY DEF BaseInv, RowsInv, MasterRows, Ship, Shipped
<1>2. /\ sessionReplicas' \in [SessionIds -> SUBSET SessionStates]
      /\ \A s \in SessionIds : sessionReplicas'[s] = sessionReplicas[s] \cup {sessions'[s]}
  BY DEF BaseInv, SessionTypes, MasterSessions, Ship, Shipped
<1> QED BY <1>1, <1>2 DEF BaseInv, RowsInv, SessionTypes

(* A slave that replays a write only shows less, and never less than what  *)
(* the master holds.                                                       *)
LEMMA ReplicateShrinks ==
  ASSUME BaseInv, Replicate
  PROVE  /\ RowsInv' /\ SessionTypes'
         /\ \A n \in Names : playerReplicas'[n] \subseteq playerReplicas[n]
         /\ \A s \in SessionIds : /\ sessionReplicas'[s] \subseteq sessionReplicas[s]
                                  /\ sessions[s] \in sessionReplicas[s] =>
                                        sessions[s] \in sessionReplicas'[s]
<1>t. /\ playerReplicas \in [Names -> SUBSET (GoodRow \cup {NoRow})]
      /\ sessionReplicas \in [SessionIds -> SUBSET SessionStates]
      /\ UNCHANGED <<players, sessions, owner, expired, tokens, late>>
  BY DEF BaseInv, RowsInv, SessionTypes, Replicate, tables, history
<1>1. CASE ReplicatePlayer
  <2>1. PICK n \in Names :
          \E old : playerReplicas' = [playerReplicas EXCEPT ![n] = @ \ {old}]
    BY <1>1 DEF ReplicatePlayer, Outdated, Replayed
  <2>2. /\ playerReplicas' \in [Names -> SUBSET (GoodRow \cup {NoRow})]
        /\ \A m \in Names : playerReplicas'[m] \subseteq playerReplicas[m]
    BY <1>t, <2>1
  <2>3. UNCHANGED sessionReplicas
    BY <1>1 DEF ReplicatePlayer
  <2> QED BY <1>t, <2>2, <2>3
       DEF BaseInv, RowsInv, MasterRows, SessionTypes, MasterSessions
<1>2. CASE ReplicateSession
  <2>1. PICK s \in SessionIds :
          \E old \in Outdated(sessionReplicas, sessions, s) :
            sessionReplicas' = [sessionReplicas EXCEPT ![s] = @ \ {old}]
    BY <1>2 DEF ReplicateSession, Replayed
  <2>2. /\ sessionReplicas' \in [SessionIds -> SUBSET SessionStates]
        /\ \A x \in SessionIds : /\ sessionReplicas'[x] \subseteq sessionReplicas[x]
                                 /\ sessions[x] \in sessionReplicas[x] =>
                                       sessions[x] \in sessionReplicas'[x]
    BY <1>t, <2>1 DEF Outdated
  <2>3. UNCHANGED playerReplicas
    BY <1>2 DEF ReplicateSession
  <2> QED BY <1>t, <2>2, <2>3
       DEF BaseInv, RowsInv, MasterRows, SessionTypes, MasterSessions
<1> QED BY <1>1, <1>2 DEF Replicate

(* Ban keeps the level of the row, and overtakes the saves under way.      *)
LEMMA BanStep ==
  ASSUME BaseInv, NEW n \in Names, Ban(n)
  PROVE  /\ players[n] # NoRow
         /\ [players[n] EXCEPT !.status = "banned"] \in GoodRow
         /\ players' = [players EXCEPT ![n] = [players[n] EXCEPT !.status = "banned"]]
         /\ call' \in [Clients -> GoodCall]
         /\ \A q \in Clients :
              /\ call'[q].pc = call[q].pc /\ call'[q].op = call[q].op
              /\ call'[q].name = call[q].name /\ call'[q].row = call[q].row
              /\ call'[q].delta = call[q].delta /\ call'[q].session = call[q].session
              /\ call'[q].over = call[q].over
              /\ call'[q].behind = (call[q].behind \/ (call[q].pc = "save" /\ call[q].name = n))
<1>1. players[n] # NoRow /\ players[n] \in GoodRow
  BY DEF Ban, BaseInv, RowsInv, MasterRows
<1>2. [players[n] EXCEPT !.status = "banned"] \in GoodRow
  BY <1>1 DEF GoodRow, Player
<1>3. players' = [players EXCEPT ![n] = [players[n] EXCEPT !.status = "banned"]]
  BY DEF Ban
<1>4. call' = Overtaken(n, {})
  BY DEF Ban
<1> QED BY <1>1, <1>2, <1>3, <1>4, OvertakenCalls

(* What a step of Accounts can be.                                         *)
LEMMA StepCases ==
  [Next]_vars =>
    \/ \E p \in Clients : Request(p)
    \/ \E p \in Clients, o \in Outcomes : Work(p, o)
    \/ \E n \in Names : RefreshToken(n)
    \/ \E n \in Names : Ban(n)
    \/ \E t \in tokens : TokenExpires(t)
    \/ \E s \in SessionIds : SessionExpires(s)
    \/ Replicate
    \/ Crash
    \/ UNCHANGED vars
  BY DEF Next

LEMMA BaseNext == BaseInv /\ [Next]_vars => BaseInv'
<1> SUFFICES ASSUME BaseInv, [Next]_vars PROVE BaseInv'
  OBVIOUS
<1>t. /\ RowsInv /\ CallsInv /\ SessionTypes /\ HistoryTypes /\ BoundTypes
      /\ MaxCalls \in Nat /\ MaxFaults \in Nat /\ MaxCrashes \in Nat
  BY AccountsAssumption DEF BaseInv
<1> USE DEF BaseInv
<1>1. ASSUME NEW p \in Clients, Request(p)
      PROVE  BaseInv'
  <2>1. PICK d \in GoodCall :
          /\ call' = [call EXCEPT ![p] = d] /\ calls' \in 0..MaxCalls
          /\ UNCHANGED <<tables, replicas, expired, tokens, faults, crashes, history>>
    BY <1>1, RequestBegins
  <2>2. CallsInv'
    BY <2>1, CallBecomes
  <2> QED BY <1>t, <2>1, <2>2
        DEF tables, replicas, history, RowsInv, MasterRows, SessionTypes, MasterSessions, HistoryTypes, BoundTypes
<1>2. ASSUME NEW p \in Clients, NEW o \in Outcomes, Work(p, o)
      PROVE  BaseInv'
  <2>1. /\ Statement(p, o) /\ Ship /\ UNCHANGED <<expired, calls, crashes>>
        /\ o # "ok" => faults < MaxFaults
        /\ faults' = IF o = "ok" THEN faults ELSE faults + 1
    BY <1>2 DEF Work
  <2>2. RowsInv' /\ CallsInv' /\ SessionTypes' /\ HistoryTypes'
    BY <2>1, StatementBase, ShipKeepsTypes
  <2>3. BoundTypes'
    BY <1>t, <2>1 DEF BoundTypes
  <2> QED BY <2>2, <2>3
<1>3. ASSUME NEW n \in Names, RefreshToken(n)
      PROVE  BaseInv'
  BY <1>t, <1>3 DEF RefreshToken, tables, replicas, bounds, history,
                    RowsInv, MasterRows, CallsInv, SessionTypes, MasterSessions, HistoryTypes, BoundTypes
<1>4. ASSUME NEW n \in Names, Ban(n)
      PROVE  BaseInv'
  <2>1. MasterRows' /\ CallsInv'
    BY <1>t, <1>4, BanStep DEF RowsInv, MasterRows, CallsInv
  <2>2. MasterSessions' /\ HistoryTypes' /\ BoundTypes' /\ Ship /\ UNCHANGED expired
    BY <1>t, <1>4
       DEF Ban, bounds, history, SessionTypes, MasterSessions, HistoryTypes, BoundTypes
  <2> QED BY <2>1, <2>2, ShipKeepsTypes
<1>5. ASSUME NEW t \in tokens, TokenExpires(t)
      PROVE  BaseInv'
  BY <1>t, <1>5 DEF TokenExpires, tables, replicas, bounds, history,
                    RowsInv, MasterRows, CallsInv, SessionTypes, MasterSessions, HistoryTypes, BoundTypes
<1>6. ASSUME NEW s \in SessionIds, SessionExpires(s)
      PROVE  BaseInv'
  BY <1>t, <1>6 DEF SessionExpires, tables, replicas, bounds, history,
                    RowsInv, MasterRows, CallsInv, SessionTypes, MasterSessions, HistoryTypes, BoundTypes
<1>7. CASE Replicate
  <2>1. RowsInv' /\ SessionTypes'
    BY <1>7, ReplicateShrinks
  <2>2. UNCHANGED <<call, bounds, history>>
    BY <1>7 DEF Replicate
  <2> QED BY <1>t, <2>1, <2>2 DEF bounds, history, CallsInv, HistoryTypes, BoundTypes
<1>8. CASE Crash
  BY <1>t, <1>8, IdleIsGood DEF Crash, tables, replicas, history,
                    RowsInv, MasterRows, CallsInv, SessionTypes, MasterSessions, HistoryTypes, BoundTypes
<1>9. CASE UNCHANGED vars
  BY <1>t, <1>9 DEF vars, tables, replicas, bounds, history,
                    RowsInv, MasterRows, CallsInv, SessionTypes, MasterSessions, HistoryTypes, BoundTypes
<1> QED BY <1>1, <1>2, <1>3, <1>4, <1>5, <1>6, <1>7, <1>8, <1>9, StepCases

LEMMA BaseHolds == Spec => []BaseInv
  BY InitBase, BaseNext, PTL DEF Spec

(* Every variable keeps its type, for any tables the service starts with.  *)
THEOREM AccountsTypeCorrect == Spec => []TypeOK
  BY BaseHolds, BaseGivesTypes, PTL

(* Every row of a player has at least the level its experience has earned, *)
(* whatever changes overlap and however far the slaves lag.                *)
THEOREM LevelsKeepUp == Spec => []LevelCoversExperience
<1>1. BaseInv => LevelCoversExperience
  BY DEF BaseInv, RowsInv, MasterRows, GoodRow, LevelCoversExperience
<1> QED BY <1>1, BaseHolds, PTL

-------------------------------------------------------------------------------
(* Registrations: a name that one has won has its row from then on, and    *)
(* the unique index refuses the others.                                    *)
RegInv == \A n \in Names : /\ wins[n] <= 1
                           /\ wins[n] >= 1 => players[n] # NoRow

LEMMA InitReg == Init => RegInv
  BY DEF Init, RegInv

LEMMA RegNext == BaseInv /\ RegInv /\ [Next]_vars => RegInv'
<1> SUFFICES ASSUME BaseInv, RegInv, [Next]_vars PROVE RegInv'
  OBVIOUS
<1>t. players \in [Names -> GoodRow \cup {NoRow}] /\ wins \in [Names -> Nat] /\ NoRow \notin GoodRow
  BY RowsAreRows DEF BaseInv, RowsInv, MasterRows, HistoryTypes
<1>1. CASE UNCHANGED <<players, wins>>
  BY <1>1 DEF RegInv
<1>2. ASSUME NEW p \in Clients, NEW o \in Outcomes, CreatePlayer(p, o)
      PROVE  RegInv'
  <2> DEFINE n == call[p].name
             done == Free(n) /\ o # "error"
  <2>1. n \in Names /\ NewPlayer # NoRow
    BY <1>t, <1>2, CallIsGood, NewPlayerIsGood DEF CreatePlayer, GoodCall
  <2>2. CASE done
    <3>1. players[n] = NoRow /\ wins[n] = 0
      BY <1>t, <2>1, <2>2 DEF Free, RegInv
    <3>2. players' = [players EXCEPT ![n] = NewPlayer] /\ wins' \in {wins, [wins EXCEPT ![n] = @ + 1]}
      BY <1>2, <2>2 DEF CreatePlayer
    <3> QED BY <1>t, <2>1, <3>1, <3>2 DEF RegInv
  <2>3. CASE ~done
    BY <1>1, <1>2, <2>3 DEF CreatePlayer
  <2> QED BY <2>2, <2>3
<1>3. ASSUME NEW p \in Clients, NEW o \in Outcomes, UpdatePlayer(p, o)
      PROVE  RegInv'
  <2> DEFINE n == call[p].name
  <2>1. n \in Names /\ call[p].row # NoRow
    BY <1>t, <1>3, SaveStatement
  <2>2. players' \in {players, [players EXCEPT ![n] = call[p].row]} /\ wins' = wins
    BY <1>3 DEF UpdatePlayer, SavedRow
  <2> QED BY <1>t, <2>1, <2>2 DEF RegInv
<1>4. ASSUME NEW n \in Names, Ban(n)
      PROVE  RegInv'
  <2> DEFINE row == [players[n] EXCEPT !.status = "banned"]
  <2>1. row # NoRow /\ players' = [players EXCEPT ![n] = row] /\ wins' = wins
    BY <1>t, <1>4, BanStep DEF Ban, history
  <2> HIDE DEF row
  <2> QED BY <1>t, <2>1 DEF RegInv
<1>5. ASSUME NEW p \in Clients, NEW o \in Outcomes, Work(p, o)
      PROVE  RegInv'
  <2>1. CASE CreatePlayer(p, o) \/ UpdatePlayer(p, o)
    BY <1>2, <1>3, <2>1
  <2>2. CASE ~(CreatePlayer(p, o) \/ UpdatePlayer(p, o))
    <3>1. Statement(p, o)
      BY <1>5 DEF Work
    <3> QED BY <1>1, <2>2, <3>1
         DEF Statement, RegisterPlayer, LoginPlayerByUsername, GetPlayerByID, CreateSession,
             LogoutPlayer, GetSessionByID, ReadOwner, CleanupExpiredSessions, tables, history
  <2> QED BY <2>1, <2>2
<1>6. ASSUME NEW p \in Clients, Request(p)
      PROVE  RegInv'
  BY <1>1, <1>6, RequestBegins DEF tables, history
<1>7. CASE \/ \E n \in Names : RefreshToken(n)
           \/ \E t \in tokens : TokenExpires(t)
           \/ \E s \in SessionIds : SessionExpires(s)
           \/ Replicate \/ Crash \/ UNCHANGED vars
  BY <1>1, <1>7 DEF RefreshToken, TokenExpires, SessionExpires, Replicate, Crash, vars,
                    tables, history
<1> QED BY <1>4, <1>5, <1>6, <1>7, StepCases

(* However many registrations of a name overlap, one at most is answered   *)
(* with success.                                                           *)
THEOREM RegistrationsAreUnique == Spec => []OneRegistrationWins
<1>1. RegInv => OneRegistrationWins
  BY DEF RegInv, OneRegistrationWins
<1> QED BY <1>1, BaseHolds, InitReg, RegNext, PTL DEF Spec

-------------------------------------------------------------------------------
(* Sessions: an ended one stays ended, on the master and on the slaves,    *)
(* which always show or have to replay the state that the master holds,    *)
(* and a validation that began after the end is refused by its first read. *)
(* A row that is not there yet names nobody, so that no new session takes  *)
(* the name of an older one away from its tokens.                          *)
Over == {"inactive", "deleted"}

SessionRows ==
  \A s \in SessionIds : /\ sessions[s] = "none" => owner[s] = NoName
                        /\ sessions[s] \in sessionReplicas[s]

LateCalls == \A p \in Clients : call[p].over => Ended(call[p].session) /\ call[p].pc # "readOwner"

SessionInv == SessionRows /\ LateCalls /\ TokenFollowsSession /\ EndedSessionRefused

LEMMA InitSession == Init => SessionInv
  BY IdleIsGood DEF Init, SessionInv, SessionRows, LateCalls, TokenFollowsSession,
                    EndedSessionRefused, Slaves

(* Nothing but the insertion of a session and the end of one changes the   *)
(* session rows, and an ended one stays ended.                             *)
LEMMA SessionRowsChange ==
  ASSUME BaseInv, SessionInv, NEW p \in Clients, NEW o \in Outcomes, Statement(p, o), Ship,
         UNCHANGED expired
  PROVE  /\ SessionRows'
         /\ \A s \in SessionIds : /\ owner[s] # NoName => owner'[s] = owner[s]
                                  /\ Ended(s) => Ended(s)'
<1>t. /\ sessions \in [SessionIds -> SessionStates] /\ owner \in [SessionIds -> Names \cup {NoName}]
      /\ SessionRows
      /\ \A s \in SessionIds : sessionReplicas'[s] = sessionReplicas[s] \cup {sessions'[s]}
  BY StatementBase, ShipKeepsTypes DEF BaseInv, SessionTypes, MasterSessions, SessionInv
<1>s. ASSUME \A s \in SessionIds : /\ sessions[s] \in Over => sessions'[s] \in Over
                                   /\ sessions'[s] = "none" => owner'[s] = NoName
                                   /\ owner[s] # NoName => owner'[s] = owner[s]
      PROVE  /\ SessionRows'
             /\ \A s \in SessionIds : /\ owner[s] # NoName => owner'[s] = owner[s]
                                      /\ Ended(s) => Ended(s)'
  <2>1. SessionRows'
    BY <1>t, <1>s DEF SessionRows
  <2>2. ASSUME NEW s \in SessionIds, Ended(s)
        PROVE  Ended(s)'
    <3>1. CASE s \in expired
      BY <3>1 DEF Ended
    <3>2. CASE sessionReplicas[s] \subseteq Over
      <4>1. sessions'[s] \in Over
        BY <1>t, <1>s, <3>2 DEF SessionRows
      <4> QED BY <1>t, <3>2, <4>1 DEF Ended, Over
    <3> QED BY <2>2, <3>1, <3>2 DEF Ended, Over
  <2> QED BY <1>s, <2>1, <2>2
<1>1. CASE CreateSession(p, o)
  <2>1. CASE UNCHANGED <<sessions, owner>>
    BY <1>s, <1>t, <2>1 DEF SessionRows
  <2>2. ASSUME NEW s \in SessionIds, InsertSession(s, call[p].name)
        PROVE  \A x \in SessionIds : /\ sessions[x] \in Over => sessions'[x] \in Over
                                     /\ sessions'[x] = "none" => owner'[x] = NoName
                                     /\ owner[x] # NoName => owner'[x] = owner[x]
    BY <1>t, <2>2 DEF InsertSession, SessionRows, Over
  <2> QED BY <1>1, <1>s, <2>1, <2>2 DEF CreateSession
<1>2. CASE LogoutPlayer(p, o)
  <2>1. UNCHANGED owner /\ \A s \in SessionIds :
          sessions'[s] \in {sessions[s], "inactive"} /\ (sessions[s] # "active" => sessions'[s] = sessions[s])
    BY <1>t, <1>2 DEF LogoutPlayer, InvalidateSession
  <2> QED BY <1>s, <1>t, <2>1 DEF SessionRows, Over
<1>3. CASE CleanupExpiredSessions(p, o)
  <2>1. UNCHANGED owner /\ \A s \in SessionIds :
          sessions'[s] \in {sessions[s], "deleted"} /\ (sessions[s] = "none" => sessions'[s] = "none")
    BY <1>t, <1>3 DEF CleanupExpiredSessions
  <2> QED BY <1>s, <1>t, <2>1 DEF SessionRows, Over, SessionStates
<1>4. CASE UNCHANGED <<sessions, owner>>
  BY <1>s, <1>t, <1>4 DEF SessionRows
<1> QED BY <1>1, <1>2, <1>3, <1>4
     DEF Statement, RegisterPlayer, LoginPlayerByUsername, CreatePlayer, GetPlayerByID,
         UpdatePlayer, GetSessionByID, ReadOwner, tables

(* A token is only made with the session it needs, and no row that a token *)
(* follows is given to another player.                                     *)
LEMMA StatementTokens ==
  ASSUME BaseInv, SessionInv, NEW p \in Clients, NEW o \in Outcomes, Statement(p, o), Ship,
         UNCHANGED expired
  PROVE  TokenFollowsSession'
<1>1. \A t \in tokens : t[1] # NoName /\ \E s \in SessionIds : owner[s] = t[1]
  BY AccountsAssumption DEF BaseInv, SessionTypes, MasterSessions, SessionInv, TokenFollowsSession
<1>2. \A t \in tokens : \E s \in SessionIds : owner'[s] = t[1]
  BY <1>1, SessionRowsChange
<1>3. CASE tokens' = tokens
  BY <1>2, <1>3 DEF TokenFollowsSession
<1>4. CASE CreateSession(p, o)
  <2> DEFINE n == call[p].name
  <2>1. CASE o = "ok"
    <3>1. PICK s \in SessionIds : InsertSession(s, n)
      BY <1>4, <2>1 DEF CreateSession
    <3>2. owner'[s] = n
      BY <3>1 DEF BaseInv, SessionTypes, MasterSessions, InsertSession
    <3>3. \A t \in tokens' : t \in tokens \/ t[1] = n
      BY <1>4 DEF CreateSession, TokensFrom
    <3> QED BY <1>2, <3>2, <3>3 DEF TokenFollowsSession
  <2>2. CASE o # "ok"
    BY <1>3, <1>4, <2>2 DEF CreateSession, TokensFrom
  <2> QED BY <2>1, <2>2
<1> QED BY <1>3, <1>4
     DEF Statement, RegisterPlayer, LoginPlayerByUsername, CreatePlayer, GetPlayerByID,
         UpdatePlayer, LogoutPlayer, GetSessionByID, ReadOwner, CleanupExpiredSessions

(* A call that began after the end of its session does not get to the read *)
(* of the owner, so that it is never answered with success.                *)
LEMMA StatementLate ==
  ASSUME BaseInv, SessionInv, NEW p \in Clients, NEW o \in Outcomes, Statement(p, o), Ship,
         UNCHANGED expired
  PROVE  LateCalls' /\ EndedSessionRefused'
<1>t. /\ LateCalls /\ EndedSessionRefused /\ \A s \in SessionIds : Ended(s) => Ended(s)'
      /\ \A q \in Clients : /\ call[q] \in GoodCall
                            /\ call[q].over => call[q].session \in SessionIds
  BY CallIsGood, SessionRowsChange DEF SessionInv, GoodCall
<1>1. CASE UpdatePlayer(p, o)
  <2>1. LateCalls'
    BY <1>t, <1>1, SaveStatement DEF LateCalls
  <2> QED BY <1>t, <1>1, <2>1 DEF UpdatePlayer, EndedSessionRefused
<1>2. ASSUME NEW d \in GoodCall, call' = [call EXCEPT ![p] = d],
             d.over => call[p].over /\ d.session = call[p].session,
             d.over => d.pc # "readOwner"
      PROVE  LateCalls'
  <2>1. \A q \in Clients : call'[q] = IF q = p THEN d ELSE call[q]
    BY <1>2, CallBecomes
  <2> QED BY <1>t, <1>2, <2>1 DEF LateCalls
<1>3. CASE GetPlayerByID(p, o)
  <2>1. PICK d \in GoodCall :
          /\ call' = [call EXCEPT ![p] = d] /\ (d.over => call[p].over /\ d.session = call[p].session)
          /\ d.pc \in {"idle", "save"}
    BY <1>3, ReadStatement, IdleIsGood
  <2>2. LateCalls'
    BY <1>2, <2>1
  <2> QED BY <1>t, <1>3, <2>2 DEF GetPlayerByID, history, EndedSessionRefused
<1>4. CASE ~UpdatePlayer(p, o) /\ ~GetPlayerByID(p, o)
  <2>1. PICK d \in GoodCall :
          /\ call' = [call EXCEPT ![p] = d]
          /\ d.over => call[p].over /\ d.session = call[p].session
          /\ d.pc = "readOwner" =>
               \E state \in sessionReplicas[call[p].session] : Usable(call[p].session, state)
    BY <1>4, PlainStatement DEF Statement
  <2>2. d.over => d.pc # "readOwner"
    <3>1. call[p].over =>
            \A state \in sessionReplicas[call[p].session] : ~Usable(call[p].session, state)
      BY <1>t DEF LateCalls, Ended, Usable
    <3> QED BY <2>1, <3>1
  <2>3. LateCalls'
    BY <1>2, <2>1, <2>2
  <2>4. late' = late
    <3>1. CASE ReadOwner(p, o)
      <4>1. ~call[p].over
        BY <1>t, <3>1 DEF ReadOwner, LateCalls
      <4> QED BY <3>1, <4>1 DEF ReadOwner
    <3> QED BY <1>4, <3>1
         DEF Statement, RegisterPlayer, LoginPlayerByUsername, CreatePlayer, CreateSession,
             LogoutPlayer, GetSessionByID, CleanupExpiredSessions, history
  <2> QED BY <1>t, <2>3, <2>4 DEF EndedSessionRefused
<1> QED BY <1>1, <1>3, <1>4

LEMMA SessionNext == BaseInv /\ SessionInv /\ [Next]_vars => SessionInv'
<1> SUFFICES ASSUME BaseInv, SessionInv, [Next]_vars PROVE SessionInv'
  OBVIOUS
<1>t. /\ SessionRows /\ LateCalls /\ TokenFollowsSession /\ EndedSessionRefused
      /\ sessions \in [SessionIds -> SessionStates] /\ tokens \subseteq Names \X {"access", "refresh"}
      /\ \A q \in Clients : call[q] \in GoodCall
  BY CallIsGood DEF SessionInv, BaseInv, SessionTypes, MasterSessions
<1>1. CASE UNCHANGED <<sessions, sessionReplicas, owner, expired, tokens, late>> /\ LateCalls'
  BY <1>t, <1>1 DEF SessionInv, SessionRows, TokenFollowsSession, EndedSessionRefused
<1>2. ASSUME NEW p \in Clients, Request(p)
      PROVE  SessionInv'
  <2>1. PICK d \in GoodCall :
          /\ d.pc # "readOwner" /\ (d.over => Ended(d.session))
          /\ call' = [call EXCEPT ![p] = d]
          /\ UNCHANGED <<tables, replicas, expired, tokens, history>>
    BY <1>2, RequestBegins
  <2>2. \A q \in Clients : call'[q] = IF q = p THEN d ELSE call[q]
    BY <2>1, CallBecomes
  <2>3. LateCalls'
    BY <1>t, <2>1, <2>2 DEF LateCalls, Ended, replicas
  <2> QED BY <1>1, <2>1, <2>3 DEF tables, replicas, history
<1>3. ASSUME NEW p \in Clients, NEW o \in Outcomes, Work(p, o)
      PROVE  SessionInv'
  <2>1. Statement(p, o) /\ Ship /\ UNCHANGED expired
    BY <1>3 DEF Work
  <2> QED BY <2>1, SessionRowsChange, StatementTokens, StatementLate DEF SessionInv
<1>4. ASSUME NEW n \in Names, RefreshToken(n)
      PROVE  SessionInv'
  <2>1. UNCHANGED <<sessions, sessionReplicas, owner, expired, call, late>>
    BY <1>4 DEF RefreshToken, tables, replicas, history
  <2>2. /\ \E t \in tokens : t[1] = n
        /\ \A t \in tokens' : t \in tokens \/ t[1] = n
    BY <1>4 DEF RefreshToken
  <2>3. TokenFollowsSession'
    BY <1>t, <2>1, <2>2 DEF TokenFollowsSession
  <2> QED BY <1>t, <2>1, <2>3 DEF SessionInv, SessionRows, LateCalls, EndedSessionRefused, Ended
<1>5. ASSUME NEW n \in Names, Ban(n)
      PROVE  SessionInv'
  <2>1. UNCHANGED <<sessions, owner, expired, tokens, late>> /\ Ship
    BY <1>5 DEF Ban, history
  <2>2. \A s \in SessionIds : sessionReplicas'[s] = sessionReplicas[s]
    BY <1>t, <2>1 DEF Ship, Shipped, SessionRows
  <2>3. LateCalls'
    <3>1. \A q \in Clients : /\ call'[q].pc = call[q].pc /\ call'[q].over = call[q].over
                             /\ call'[q].session = call[q].session
      BY <1>5, BanStep
    <3>2. \A s \in SessionIds : Ended(s)' = Ended(s)
      BY <2>1, <2>2 DEF Ended
    <3>3. \A q \in Clients : call[q].over => call[q].session \in SessionIds
      BY <1>t DEF GoodCall
    <3> QED BY <1>t, <3>1, <3>2, <3>3 DEF LateCalls
  <2> QED BY <1>t, <2>1, <2>2, <2>3
       DEF SessionInv, SessionRows, TokenFollowsSession, EndedSessionRefused
<1>6. ASSUME NEW t \in tokens, TokenExpires(t)
      PROVE  SessionInv'
  <2>1. UNCHANGED <<sessions, sessionReplicas, owner, expired, call, late>> /\ tokens' \subseteq tokens
    BY <1>6 DEF TokenExpires, tables, replicas, history
  <2> QED BY <1>t, <2>1
       DEF SessionInv, SessionRows, LateCalls, TokenFollowsSession, EndedSessionRefused, Ended
<1>7. ASSUME NEW s \in SessionIds, SessionExpires(s)
      PROVE  SessionInv'
  <2>1. /\ UNCHANGED <<sessions, sessionReplicas, owner, tokens, call, late>>
        /\ expired \subseteq expired'
    BY <1>7 DEF SessionExpires, tables, replicas, history
  <2> QED BY <1>t, <2>1
       DEF SessionInv, SessionRows, LateCalls, TokenFollowsSession, EndedSessionRefused, Ended
<1>8. CASE Replicate
  <2>1. /\ UNCHANGED <<sessions, owner, expired, tokens, call, late>>
        /\ \A s \in SessionIds : /\ sessionReplicas'[s] \subseteq sessionReplicas[s]
                                 /\ sessions[s] \in sessionReplicas[s] =>
                                       sessions[s] \in sessionReplicas'[s]
    BY <1>8, ReplicateShrinks DEF Replicate, tables, history
  <2>2. \A s \in SessionIds : Ended(s) => Ended(s)'
    BY <2>1 DEF Ended
  <2>3. LateCalls'
    <3>1. \A q \in Clients : call[q].over => call[q].session \in SessionIds
      BY <1>t DEF GoodCall
    <3> QED BY <1>t, <2>1, <2>2, <3>1 DEF LateCalls
  <2> QED BY <1>t, <2>1, <2>3 DEF SessionInv, SessionRows, TokenFollowsSession, EndedSessionRefused
<1>9. CASE Crash
  <2>1. LateCalls'
    BY <1>9, IdleIsGood DEF Crash, LateCalls
  <2> QED BY <1>1, <1>9, <2>1 DEF Crash, tables, replicas, history
<1>10. CASE UNCHANGED vars
  BY <1>t, <1>1, <1>10 DEF vars, tables, replicas, history, LateCalls, Ended
<1> QED BY <1>2, <1>3, <1>4, <1>5, <1>6, <1>7, <1>8, <1>9, <1>10, StepCases

LEMMA SessionHolds == Spec => []SessionInv
  BY BaseHolds, InitSession, SessionNext, PTL DEF Spec

(* Whoever holds a token has logged in with a session, whichever of the    *)
(* steps of a login fail.                                                  *)
THEOREM TokensFollowLogins == Spec => []TokenFollowsSession
<1>1. SessionInv => TokenFollowsSession
  BY DEF SessionInv
<1> QED BY <1>1, SessionHolds, PTL

(* A session that had ended before a validation of it began is refused,    *)
(* whatever logouts, clean-ups and expiries run in between.                *)
THEOREM EndedSessionsAreRefused == Spec => []EndedSessionRefused
<1>1. SessionInv => EndedSessionRefused
  BY DEF SessionInv
<1> QED BY <1>1, SessionHolds, PTL

-------------------------------------------------------------------------------
(* Statistics: a call that is about to save a row nobody has overtaken     *)
(* holds the change of the row that is there.                              *)
SaveIsCurrent(c) ==
  c.pc = "save" /\ ~c.behind =>
    players[c.name] # NoRow /\ c.row = Changed(players[c.name], c)

SavesInv == \A p \in Clients : SaveIsCurrent(call[p])

LEMMA InitStatistics == Init => StatisticsAddUp /\ SavesInv
  BY IdleIsGood DEF Init, StatisticsAddUp, SavesInv, SaveIsCurrent

(* What a change of a row does to its experience and coins.                *)
LEMMA ChangedPurse ==
  ASSUME NEW row \in GoodRow, NEW c \in Call, c.op \in ChangeOps
  PROVE  Purse(Changed(row, c)) =
           IF c.op = "stats" THEN [exp |-> Purse(row).exp + c.delta.exp,
                                   coins |-> NotBelowZero(Purse(row).coins + c.delta.coins)]
                             ELSE Purse(row)
<1>1. row # NoRow /\ Changed(row, c) # NoRow /\ row \in Player
  BY RowsAreRows, ChangedIsGood
<1>2. CASE c.op = "stats"
  <2>1. /\ Changed(row, c).exp = row.exp + c.delta.exp
        /\ Changed(row, c).coins = NotBelowZero(row.coins + c.delta.coins)
    BY <1>1, <1>2 DEF Changed, Player
  <2> QED BY <1>1, <1>2, <2>1 DEF Purse
<1>3. CASE c.op = "profile"
  <2>1. Changed(row, c).exp = row.exp /\ Changed(row, c).coins = row.coins
    BY <1>1, <1>3 DEF Changed, Player
  <2> QED BY <1>1, <1>3, <2>1 DEF Purse
<1>4. CASE c.op \in LoginOps
  BY <1>4 DEF Changed, LoginOps
<1> QED BY <1>2, <1>3, <1>4 DEF ChangeOps

(* A row that is inserted finds no save under way that it overtakes: where *)
(* there was no row, no save is current.                                   *)
LEMMA InsertStatistics ==
  ASSUME BaseInv, StatisticsAddUp, SavesInv,
         NEW p \in Clients, NEW o \in Outcomes, CreatePlayer(p, o)
  PROVE  StatisticsAddUp' /\ SavesInv'
<1> DEFINE n == call[p].name
           done == Free(n) /\ o # "error"
<1>t. /\ players \in [Names -> GoodRow \cup {NoRow}] /\ ledger \in [Names -> [exp : Int, coins : Int]]
      /\ \A q \in Clients : call[q] \in GoodCall
  BY CallIsGood DEF BaseInv, RowsInv, MasterRows, HistoryTypes
<1>1. n \in Names /\ call' = [call EXCEPT ![p] = Idle] /\ diverged' = diverged
  BY <1>t DEF CreatePlayer, Goto, GoodCall
<1>2. \A q \in Clients : call'[q] = IF q = p THEN Idle ELSE call[q]
  BY <1>1, IdleIsGood, CallBecomes
<1>3. CASE done
  <2>1. /\ players' = [players EXCEPT ![n] = NewPlayer] /\ players[n] = NoRow
        /\ ledger' = [ledger EXCEPT ![n] = Purse(NewPlayer)]
    BY <1>3 DEF CreatePlayer, Free
  <2>2. /\ players'[n] = NewPlayer /\ ledger'[n] = Purse(NewPlayer)
        /\ \A m \in Names \ {n} : players'[m] = players[m] /\ ledger'[m] = ledger[m]
    BY <1>t, <1>1, <2>1
  <2>3. StatisticsAddUp'
    BY <1>1, <2>2 DEF StatisticsAddUp, Purse
  <2>4. ASSUME NEW q \in Clients
        PROVE  SaveIsCurrent(call[q])'
    <3>1. CASE q = p
      BY <1>2, <3>1, IdleIsGood DEF SaveIsCurrent
    <3>2. CASE q # p
      <4>1. call'[q] = call[q] /\ (call[q].pc = "save" => call[q].name \in Names)
        BY <1>t, <1>2, <3>2 DEF GoodCall
      <4>2. SaveIsCurrent(call[q])
        BY DEF SavesInv
      <4> QED BY <2>1, <2>2, <4>1, <4>2 DEF SaveIsCurrent, Changed, LevelAfter
    <3> QED BY <3>1, <3>2
  <2> QED BY <2>3, <2>4 DEF SavesInv
<1>4. CASE ~done
  <2>1. UNCHANGED <<players, ledger>>
    BY <1>4 DEF CreatePlayer
  <2>2. ASSUME NEW q \in Clients
        PROVE  SaveIsCurrent(call[q])'
    BY <1>2, <2>1, IdleIsGood DEF SavesInv, SaveIsCurrent
  <2> QED BY <1>1, <2>1, <2>2 DEF StatisticsAddUp, SavesInv
<1> QED BY <1>3, <1>4

(* A save: a current one makes the row what the ledger expects, and every  *)
(* save of the same row that is still under way is not current any more.   *)
LEMMA SaveStatistics ==
  ASSUME BaseInv, StatisticsAddUp, SavesInv,
         NEW p \in Clients, NEW o \in Outcomes, UpdatePlayer(p, o)
  PROVE  StatisticsAddUp' /\ SavesInv'
<1> DEFINE c == call[p]
           n == c.name
<1>t. /\ players \in [Names -> GoodRow \cup {NoRow}] /\ ledger \in [Names -> [exp : Int, coins : Int]]
      /\ diverged \in [Names -> BOOLEAN]
      /\ \A q \in Clients : call[q] \in GoodCall
      /\ NoRow \notin GoodRow
  BY CallIsGood, RowsAreRows DEF BaseInv, RowsInv, MasterRows, HistoryTypes
<1>1. n \in Names /\ c.row \in GoodRow /\ c.pc = "save" /\ c.op \in ChangeOps /\ c \in Call
  BY SaveStatement, CallIsGood
<1>2. call'[p].pc # "save"
  BY SaveStatement
<1>3. CASE o # "error"
  <2> DEFINE sum == IF c.op = "stats"
                      THEN [exp |-> ledger[n].exp + c.delta.exp,
                            coins |-> NotBelowZero(ledger[n].coins + c.delta.coins)]
                      ELSE ledger[n]
  <2>1. /\ players' = [players EXCEPT ![n] = c.row]
        /\ ledger' = [ledger EXCEPT ![n] = sum]
        /\ diverged' = IF c.behind THEN [diverged EXCEPT ![n] = TRUE] ELSE diverged
    <3>1. /\ players' = [players EXCEPT ![n] = c.row]
          /\ ledger' = IF c.op = "stats" THEN [ledger EXCEPT ![n] = sum] ELSE ledger
          /\ diverged' = IF c.behind THEN [diverged EXCEPT ![n] = TRUE] ELSE diverged
      BY <1>3 DEF UpdatePlayer, SavedRow
    <3> QED BY <1>t, <1>1, <3>1
  <2> HIDE DEF sum
  <2>2. /\ players'[n] = c.row /\ ledger'[n] = sum /\ (c.behind => diverged'[n])
        /\ ~c.behind => diverged' = diverged
    BY <1>t, <1>1, <2>1
  <2>3. \A m \in Names \ {n} : /\ players'[m] = players[m] /\ ledger'[m] = ledger[m]
                               /\ diverged'[m] = diverged[m]
    BY <1>t, <1>1, <2>1
  <2>4. ~diverged'[n] => Purse(players'[n]) = ledger'[n]
    <3> SUFFICES ASSUME ~diverged'[n] PROVE Purse(players'[n]) = ledger'[n]
      OBVIOUS
    <3>1. ~c.behind /\ ~diverged[n]
      BY <2>2
    <3>2. players[n] # NoRow /\ c.row = Changed(players[n], c)
      BY <1>1, <3>1 DEF SavesInv, SaveIsCurrent
    <3>3. Purse(players[n]) = ledger[n] /\ players[n] \in GoodRow
      BY <1>t, <1>1, <3>1, <3>2 DEF StatisticsAddUp
    <3> QED BY <1>1, <2>2, <3>2, <3>3, ChangedPurse DEF sum
  <2>5. StatisticsAddUp'
    BY <1>1, <2>3, <2>4 DEF StatisticsAddUp
  <2>6. ASSUME NEW q \in Clients \ {p}
        PROVE  SaveIsCurrent(call[q])'
    <3>1. /\ call'[q].pc = call[q].pc /\ call'[q].op = call[q].op
          /\ call'[q].name = call[q].name /\ call'[q].row = call[q].row
          /\ call'[q].delta = call[q].delta
          /\ call'[q].behind = (call[q].behind \/ (call[q].pc = "save" /\ call[q].name = n))
      BY <1>3, SaveStatement
    <3>2. SaveIsCurrent(call[q]) /\ (call[q].pc = "save" => call[q].name \in Names)
      BY <1>t DEF SavesInv, GoodCall
    <3>3. \A row : Changed(row, call'[q]) = Changed(row, call[q])
      BY <3>1 DEF Changed, LevelAfter
    <3>4. CASE call[q].pc = "save" /\ ~call[q].behind /\ call[q].name # n
      <4>1. players'[call[q].name] = players[call[q].name] /\ players[call[q].name] # NoRow
            /\ call[q].row = Changed(players[call[q].name], call[q])
        BY <2>3, <3>2, <3>4 DEF SaveIsCurrent
      <4> QED BY <3>1, <3>3, <4>1 DEF SaveIsCurrent
    <3>5. CASE call[q].pc # "save" \/ call[q].behind \/ call[q].name = n
      BY <3>1, <3>5 DEF SaveIsCurrent
    <3> QED BY <3>4, <3>5
  <2> QED BY <1>2, <2>5, <2>6 DEF SavesInv, SaveIsCurrent
<1>4. CASE o = "error"
  <2>1. UNCHANGED <<players, ledger, diverged>>
    BY <1>4 DEF UpdatePlayer
  <2>2. ASSUME NEW q \in Clients \ {p}
        PROVE  SaveIsCurrent(call[q])'
    <3>1. call'[q] = call[q]
      <4>1. call' = [call EXCEPT ![p] = Idle]
        BY <1>4 DEF UpdatePlayer
      <4> QED BY <4>1, IdleIsGood, CallBecomes
    <3> QED BY <2>1, <3>1 DEF SavesInv, SaveIsCurrent
  <2> QED BY <1>2, <2>1, <2>2 DEF StatisticsAddUp, SavesInv, SaveIsCurrent
<1> QED BY <1>3, <1>4

(* A read that found the row of the master prepares a current save.        *)
LEMMA ReadStatistics ==
  ASSUME BaseInv, StatisticsAddUp, SavesInv,
         NEW p \in Clients, NEW o \in Outcomes, GetPlayerByID(p, o)
  PROVE  StatisticsAddUp' /\ SavesInv'
<1>1. PICK d \in GoodCall :
        /\ call' = [call EXCEPT ![p] = d]
        /\ \/ d = Idle
           \/ \E row : /\ d.pc = "save" /\ row # NoRow /\ d.row = Changed(row, d)
                       /\ d.behind = (row # players[d.name])
  BY ReadStatement
<1>2. UNCHANGED <<players, ledger, diverged>>
  BY DEF GetPlayerByID, tables, history
<1>3. \A q \in Clients : call'[q] = IF q = p THEN d ELSE call[q]
  BY <1>1, CallBecomes
<1>4. SaveIsCurrent(d)
  BY <1>1, IdleIsGood DEF SaveIsCurrent
<1>5. \A q \in Clients : SaveIsCurrent(call[q])'
  BY <1>2, <1>3, <1>4 DEF SavesInv, SaveIsCurrent
<1> QED BY <1>2, <1>5 DEF StatisticsAddUp, SavesInv

LEMMA StatisticsNext ==
  BaseInv /\ StatisticsAddUp /\ SavesInv /\ [Next]_vars => StatisticsAddUp' /\ SavesInv'
<1> SUFFICES ASSUME BaseInv, StatisticsAddUp, SavesInv, [Next]_vars
             PROVE  StatisticsAddUp' /\ SavesInv'
  OBVIOUS
<1>1. ASSUME UNCHANGED <<players, ledger, diverged>>, NEW p \in Clients, NEW d \in GoodCall,
             call' = [call EXCEPT ![p] = d], d.pc # "save"
      PROVE  StatisticsAddUp' /\ SavesInv'
  <2>1. \A q \in Clients : call'[q] = IF q = p THEN d ELSE call[q]
    BY <1>1, CallBecomes
  <2>2. \A q \in Clients : SaveIsCurrent(call[q])'
    BY <1>1, <2>1 DEF SavesInv, SaveIsCurrent
  <2> QED BY <1>1, <2>2 DEF StatisticsAddUp, SavesInv
<1>2. ASSUME NEW p \in Clients, Request(p)
      PROVE  StatisticsAddUp' /\ SavesInv'
  BY <1>1, <1>2, RequestBegins DEF tables, history
<1>3. ASSUME NEW p \in Clients, NEW o \in Outcomes, Work(p, o)
      PROVE  StatisticsAddUp' /\ SavesInv'
  <2>1. Statement(p, o)
    BY <1>3 DEF Work
  <2>2. CASE CreatePlayer(p, o) \/ UpdatePlayer(p, o) \/ GetPlayerByID(p, o)
    BY <2>2, InsertStatistics, SaveStatistics, ReadStatistics
  <2>3. CASE ~(CreatePlayer(p, o) \/ UpdatePlayer(p, o) \/ GetPlayerByID(p, o))
    <3>1. \E d \in GoodCall : call' = [call EXCEPT ![p] = d] /\ d.pc # "save"
      BY <2>1, <2>3, PlainStatement DEF Statement
    <3>2. UNCHANGED <<players, ledger, diverged>>
      BY <2>1, <2>3 DEF Statement, RegisterPlayer, LoginPlayerByUsername, CreateSession,
             LogoutPlayer, GetSessionByID, ReadOwner, CleanupExpiredSessions, tables, history
    <3> QED BY <1>1, <3>1, <3>2
  <2> QED BY <2>2, <2>3
<1>4. ASSUME NEW n \in Names, Ban(n)
      PROVE  StatisticsAddUp' /\ SavesInv'
  <2> DEFINE row == [players[n] EXCEPT !.status = "banned"]
  <2>t. /\ players \in [Names -> GoodRow \cup {NoRow}] /\ players[n] \in GoodRow
        /\ \A q \in Clients : call[q] \in GoodCall
    BY <1>4, CallIsGood DEF Ban, BaseInv, RowsInv, MasterRows
  <2>1. players' = [players EXCEPT ![n] = row] /\ players[n] # NoRow /\ row # NoRow
    <3>1. row \in GoodRow /\ players[n] # NoRow /\ players' = [players EXCEPT ![n] = row]
      BY <1>4, BanStep
    <3> HIDE DEF row
    <3> QED BY <3>1, RowsAreRows
  <2>2. Purse(row) = Purse(players[n])
    <3>1. row.exp = players[n].exp /\ row.coins = players[n].coins
      BY <2>t DEF GoodRow, Player
    <3> QED BY <2>1, <3>1 DEF Purse
  <2> HIDE DEF row
  <2>3. \A m \in Names : players'[m] = IF m = n THEN row ELSE players[m]
    BY <2>t, <2>1
  <2>4. StatisticsAddUp'
    <3>1. UNCHANGED <<ledger, diverged>>
      BY <1>4 DEF Ban, history
    <3> QED BY <2>1, <2>2, <2>3, <3>1 DEF StatisticsAddUp
  <2>5. ASSUME NEW q \in Clients
        PROVE  SaveIsCurrent(call[q])'
    <3>1. /\ call'[q].pc = call[q].pc /\ call'[q].op = call[q].op
          /\ call'[q].name = call[q].name /\ call'[q].row = call[q].row
          /\ call'[q].delta = call[q].delta
          /\ call'[q].behind = (call[q].behind \/ (call[q].pc = "save" /\ call[q].name = n))
      BY <1>4, BanStep
    <3>2. SaveIsCurrent(call[q]) /\ (call[q].pc = "save" => call[q].name \in Names)
      BY <2>t DEF SavesInv, GoodCall
    <3>3. \A r : Changed(r, call'[q]) = Changed(r, call[q])
      BY <3>1 DEF Changed, LevelAfter
    <3>4. CASE call[q].pc = "save" /\ ~call[q].behind /\ call[q].name # n
      <4>1. players'[call[q].name] = players[call[q].name] /\ players[call[q].name] # NoRow
            /\ call[q].row = Changed(players[call[q].name], call[q])
        BY <2>3, <3>2, <3>4 DEF SaveIsCurrent
      <4> QED BY <3>1, <3>3, <4>1 DEF SaveIsCurrent
    <3>5. CASE call[q].pc # "save" \/ call[q].behind \/ call[q].name = n
      BY <3>1, <3>5 DEF SaveIsCurrent
    <3> QED BY <3>4, <3>5
  <2> QED BY <2>4, <2>5 DEF SavesInv
<1>5. CASE \/ \E n \in Names : RefreshToken(n)
           \/ \E t \in tokens : TokenExpires(t)
           \/ \E s \in SessionIds : SessionExpires(s)
           \/ Replicate \/ UNCHANGED vars
  <2>1. UNCHANGED <<players, ledger, diverged, call>>
    BY <1>5 DEF RefreshToken, TokenExpires, SessionExpires, Replicate, vars, tables, history
  <2> QED BY <2>1 DEF StatisticsAddUp, SavesInv, SaveIsCurrent
<1>6. CASE Crash
  <2>1. UNCHANGED <<players, ledger, diverged>> /\ \A q \in Clients : call'[q] = Idle
    BY <1>6 DEF Crash, tables, history
  <2> QED BY <2>1, IdleIsGood DEF StatisticsAddUp, SavesInv, SaveIsCurrent
<1> QED BY <1>2, <1>3, <1>4, <1>5, <1>6, StepCases

(* Experience and coins are the sum of all updates, however many overlap,  *)
(* unless a row was saved that was out of date.                            *)
THEOREM StatisticsAreSums == Spec => []StatisticsAddUp
  BY BaseHolds, InitStatistics, StatisticsNext, PTL DEF Spec

-------------------------------------------------------------------------------
(* A settled ban: a row that the master and all slaves show as banned is   *)
(* refused to a login, kept by every change, and inserted by no            *)
(* registration.                                                           *)
LEMMA BannedStaysBanned ==
  ASSUME NEW row \in GoodRow, NEW c \in Call, c.op \in ChangeOps, row.status = "banned"
  PROVE  Changed(row, c) \in GoodRow /\ Changed(row, c).status = "banned"
  BY ChangedIsGood DEF Changed, LoginOps, ChangeOps, GoodRow, Player

(* A call that does not endanger the ban of n.                             *)
Harmless(c, n) ==
  c.pc \in {"save", "createSession"} /\ c.name = n =>
    c.op \in {"profile", "stats"} /\ c.row.status = "banned"

BannedRow(row) == row # NoRow /\ row.status = "banned"

NoNewSession(n) == \A s \in SessionIds : owner'[s] = n => owner[s] = n

LEMMA StatementKeepsBan ==
  ASSUME BaseInv, NEW n \in Names, BanSettled(n), Ship, UNCHANGED expired,
         NEW p \in Clients, NEW o \in Outcomes, Statement(p, o)
  PROVE  BanSettled(n)' /\ NoNewSession(n)
<1>t. /\ players \in [Names -> GoodRow \cup {NoRow}]
      /\ playerReplicas \in [Names -> SUBSET (GoodRow \cup {NoRow})]
      /\ players[n] # NoRow /\ players[n].status = "banned"
      /\ \A row \in playerReplicas[n] : BannedRow(row)
      /\ \A q \in Clients : Harmless(call[q], n) /\ call[q] \in GoodCall
      /\ owner \in [SessionIds -> Names \cup {NoName}] /\ NoRow \notin GoodRow
  BY CallIsGood, RowsAreRows
     DEF BaseInv, RowsInv, MasterRows, SessionTypes, MasterSessions, BanSettled, BannedRow, Harmless
<1>1. ASSUME players'[n] # NoRow, players'[n].status = "banned",
             \A q \in Clients : Harmless(call'[q], n)
      PROVE  BanSettled(n)'
  <2>1. playerReplicas'[n] = playerReplicas[n] \cup {players'[n]}
    BY StatementBase, ShipKeepsTypes
  <2>2. \A row \in {players'[n]} \cup playerReplicas'[n] : BannedRow(row)
    BY <1>t, <1>1, <2>1 DEF BannedRow
  <2> QED BY <1>1, <2>2 DEF BanSettled, Harmless, BannedRow
<1>2. ASSUME NEW d \in GoodCall, call' = [call EXCEPT ![p] = d], Harmless(d, n)
      PROVE  \A q \in Clients : Harmless(call'[q], n)
  BY <1>t, <1>2, CallBecomes
<1>3. CASE UpdatePlayer(p, o)
  <2> DEFINE c == call[p]
  <2>1. c.pc = "save" /\ c.name \in Names /\ c.row \in GoodRow /\ c.op \in ChangeOps
    BY <1>3, SaveStatement
  <2>2. players' \in {players, [players EXCEPT ![c.name] = c.row]} /\ UNCHANGED owner
    BY <1>3 DEF UpdatePlayer, SavedRow
  <2>3. players'[n] # NoRow /\ players'[n].status = "banned"
    BY <1>t, <2>1, <2>2 DEF Harmless
  <2>4. ASSUME NEW q \in Clients
        PROVE  Harmless(call'[q], n)
    <3>1. CASE q = p
      <4>1. \/ call'[p].pc = "idle"
            \/ call'[p].op \in LoginOps /\ call'[p].op = c.op
        BY <1>3, SaveStatement
      <4>2. call'[p].name \in {c.name, NoName} /\ NoName # n
        BY <1>3, SaveStatement, AccountsAssumption
      <4> QED BY <1>t, <2>1, <3>1, <4>1, <4>2 DEF Harmless, LoginOps
    <3>2. CASE q # p
      <4>1. call'[q].pc = call[q].pc /\ call'[q].op = call[q].op
            /\ call'[q].name = call[q].name /\ call'[q].row = call[q].row
        BY <1>3, <3>2, SaveStatement
      <4> QED BY <1>t, <4>1 DEF Harmless
    <3> QED BY <3>1, <3>2
  <2> QED BY <1>1, <2>2, <2>3, <2>4 DEF NoNewSession
<1>4. CASE GetPlayerByID(p, o)
  <2>1. PICK d \in GoodCall :
          /\ call' = [call EXCEPT ![p] = d]
          /\ \/ d = Idle
             \/ \E row \in playerReplicas[d.name] :
                  /\ d.pc = "save" /\ MayProceed(d, row) /\ d.row = Changed(row, d)
    BY <1>4, ReadStatement
  <2>2. Harmless(d, n)
    <3>1. CASE d = Idle
      BY <3>1, IdleIsGood DEF Harmless
    <3>2. CASE d # Idle /\ d.name = n
      <4>1. PICK row \in playerReplicas[n] :
              d.pc = "save" /\ MayProceed(d, row) /\ d.row = Changed(row, d)
        BY <2>1, <3>2
      <4>r. row \in GoodRow /\ row.status = "banned" /\ d \in Call /\ d.op \in ChangeOps
        BY <1>t, <4>1 DEF GoodCall, BannedRow
      <4>2. d.op \in {"profile", "stats"}
        BY <4>1, <4>r DEF MayProceed, ChangeOps, LoginOps
      <4>3. d.row.status = "banned"
        BY <4>1, <4>r, BannedStaysBanned
      <4> QED BY <4>2, <4>3 DEF Harmless
    <3> QED BY <3>1, <3>2 DEF Harmless
  <2>3. UNCHANGED <<players, owner>>
    BY <1>4 DEF GetPlayerByID, tables
  <2> QED BY <1>t, <1>1, <1>2, <2>1, <2>2, <2>3 DEF NoNewSession
<1>5. CASE ~UpdatePlayer(p, o) /\ ~GetPlayerByID(p, o)
  <2>1. \A q \in Clients : Harmless(call'[q], n)
    <3>1. PICK d \in GoodCall :
            call' = [call EXCEPT ![p] = d] /\ d.pc \notin {"save", "createSession"}
      BY <1>5, PlainStatement DEF Statement
    <3> QED BY <1>2, <3>1 DEF Harmless
  <2>2. players'[n] = players[n]
    <3>1. CASE CreatePlayer(p, o)
      <4>1. players' = players
            \/ (Free(call[p].name) /\ players' = [players EXCEPT ![call[p].name] = NewPlayer])
        BY <3>1 DEF CreatePlayer
      <4> QED BY <1>t, <4>1 DEF Free
    <3> QED BY <1>5, <3>1
         DEF Statement, RegisterPlayer, LoginPlayerByUsername, CreateSession, LogoutPlayer,
             GetSessionByID, ReadOwner, CleanupExpiredSessions, tables
  <2>3. NoNewSession(n)
    <3>1. ASSUME NEW s \in SessionIds, InsertSession(s, call[p].name), call[p].pc = "createSession"
          PROVE  NoNewSession(n)
      <4>1. call[p].name # n
        BY <1>t, <3>1 DEF Harmless, GoodCall, LoginOps
      <4> QED BY <1>t, <3>1, <4>1 DEF InsertSession, NoNewSession
    <3>2. CASE CreateSession(p, o)
      BY <3>1, <3>2 DEF CreateSession, NoNewSession
    <3> QED BY <1>5, <3>2
         DEF Statement, RegisterPlayer, LoginPlayerByUsername, CreatePlayer, LogoutPlayer,
             GetSessionByID, ReadOwner, CleanupExpiredSessions, tables, NoNewSession
  <2> QED BY <1>t, <1>1, <2>1, <2>2, <2>3
<1> QED BY <1>3, <1>4, <1>5

LEMMA BanStays ==
  ASSUME BaseInv, [Next]_vars, NEW n \in Names, BanSettled(n)
  PROVE  BanSettled(n)' /\ NoNewSession(n)
<1>t. /\ players \in [Names -> GoodRow \cup {NoRow}]
      /\ players[n] # NoRow /\ players[n].status = "banned"
      /\ \A row \in playerReplicas[n] : BannedRow(row)
      /\ \A q \in Clients : Harmless(call[q], n)
  BY DEF BaseInv, RowsInv, MasterRows, BanSettled, BannedRow, Harmless
<1>1. ASSUME players'[n] = players[n],
             playerReplicas'[n] \subseteq playerReplicas[n] \cup {players[n]},
             owner' = owner, \A q \in Clients : Harmless(call'[q], n)
      PROVE  BanSettled(n)' /\ NoNewSession(n)
  <2>1. \A row \in {players'[n]} \cup playerReplicas'[n] : BannedRow(row)
    BY <1>t, <1>1 DEF BannedRow
  <2> QED BY <1>1, <2>1 DEF BanSettled, Harmless, NoNewSession, BannedRow
<1>2. ASSUME NEW p \in Clients, Request(p)
      PROVE  BanSettled(n)' /\ NoNewSession(n)
  <2>1. PICK d \in GoodCall :
          /\ d.pc \notin {"save", "createSession"} /\ call' = [call EXCEPT ![p] = d]
          /\ UNCHANGED <<players, playerReplicas, owner>>
    BY <1>2, RequestBegins DEF tables, replicas
  <2>2. \A q \in Clients : Harmless(call'[q], n)
    BY <1>t, <2>1, CallBecomes DEF Harmless
  <2> QED BY <1>1, <2>1, <2>2
<1>3. ASSUME NEW p \in Clients, NEW o \in Outcomes, Work(p, o)
      PROVE  BanSettled(n)' /\ NoNewSession(n)
  BY <1>3, StatementKeepsBan DEF Work
<1>4. ASSUME NEW m \in Names, Ban(m)
      PROVE  BanSettled(n)' /\ NoNewSession(n)
  <2>1. m # n /\ Ship /\ UNCHANGED owner
    BY <1>t, <1>4 DEF Ban
  <2>2. players'[n] = players[n]
    BY <1>t, <1>4, <2>1 DEF Ban
  <2>r. playerReplicas'[n] = playerReplicas[n] \cup {players'[n]}
    <3> DEFINE banned == [players[m] EXCEPT !.status = "banned"]
    <3>1. players' = [players EXCEPT ![m] = banned] /\ banned \in GoodRow
      BY <1>4, BanStep
    <3> HIDE DEF banned
    <3>2. DOMAIN players' = Names
      BY <1>t, <3>1
    <3> QED BY <2>1, <3>2 DEF Ship, Shipped
  <2>3. ASSUME NEW q \in Clients
        PROVE  Harmless(call'[q], n)
    <3>1. call'[q].pc = call[q].pc /\ call'[q].op = call[q].op
          /\ call'[q].name = call[q].name /\ call'[q].row = call[q].row
      BY <1>4, BanStep
    <3> QED BY <1>t, <3>1 DEF Harmless
  <2> QED BY <1>1, <2>1, <2>2, <2>r, <2>3
<1>5. CASE \/ \E m \in Names : RefreshToken(m)
           \/ \E t \in tokens : TokenExpires(t)
           \/ \E s \in SessionIds : SessionExpires(s)
           \/ UNCHANGED vars
  <2>1. UNCHANGED <<players, playerReplicas, owner, call>>
    BY <1>5 DEF RefreshToken, TokenExpires, SessionExpires, vars, tables, replicas
  <2> QED BY <1>t, <1>1, <2>1
<1>6. CASE Replicate
  <2>1. playerReplicas'[n] \subseteq playerReplicas[n] /\ UNCHANGED <<players, owner, call>>
    BY <1>6, ReplicateShrinks DEF Replicate, tables
  <2> QED BY <1>t, <1>1, <2>1
<1>7. CASE Crash
  <2>1. UNCHANGED <<players, playerReplicas, owner>> /\ \A q \in Clients : call'[q] = Idle
    BY <1>7 DEF Crash, tables, replicas
  <2>2. \A q \in Clients : Harmless(call'[q], n)
    BY <2>1, IdleIsGood DEF Harmless
  <2> QED BY <1>1, <2>1, <2>2
<1> QED BY <1>2, <1>3, <1>4, <1>5, <1>6, <1>7, StepCases

(* A ban that the master and every slave show, with no other version left  *)
(* to replay, and that no login or older row is about to pass by, holds    *)
(* whatever is saved later and whichever slave is read: the player stays   *)
(* banned and gets no new session.                                         *)
THEOREM SettledBanHolds == Spec => BanHolds
<1>1. BaseInv /\ [Next]_vars =>
        \A n \in Names : BanSettled(n) =>
          /\ BanSettled(n)'
          /\ \A s \in SessionIds : owner'[s] = n => owner[s] = n
  BY BanStays DEF NoNewSession
<1>2. BaseInv /\ [Next]_vars =>
        [\A n \in Names : BanSettled(n) =>
           /\ BanSettled(n)'
           /\ \A s \in SessionIds : owner'[s] = n => owner[s] = n]_vars
  BY <1>1
<1> QED BY <1>2, BaseHolds, PTL DEF Spec, BanHolds
================================================================================
