------------------------------ MODULE Accounts ------------------------------
(***************************************************************************)
(* Accounts: PlayerService of business/common/player_service.go over the   *)
(* players and player_sessions tables of data/dao/dao.go, the handlers     *)
(* that call it, and the tokens of the JWTService.                         *)
(*                                                                         *)
(* A change of a player reads the row from a slave and saves all of it on  *)
(* the master.  A player is identified by the username; the random         *)
(* user id goes with it.  Diamonds are treated as coins are, coins stand   *)
(* for both.  ledger, diverged, wins and late are history.                 *)
(***************************************************************************)
EXTENDS Integers, FiniteSets, Database

CONSTANTS
  Names, SessionIds, NoRow, NoName, NoSession,
  PlayerTables, \* the players tables the service may find when it starts
  Deltas,      \* bound: changes [exp, coins] given to UpdatePlayerStats
  MaxCalls,    \* bound: calls
  MaxFaults,   \* bound: statements that fail
  MaxCrashes   \* bound: crashes of the process

Player == [level : Nat \ {0}, exp : Int, coins : Int, profile : {"old", "new"},
           status : {"active", "banned"}]

ASSUME AccountsAssumption ==
  /\ NoRow \notin Player /\ NoName \notin Names /\ NoSession \notin SessionIds
  /\ PlayerTables \subseteq [Names -> Player \cup {NoRow}]
  /\ Deltas \subseteq [exp : Int, coins : Int]
  /\ MaxCalls \in Nat /\ MaxFaults \in Nat /\ MaxCrashes \in Nat

VARIABLES
  players, playerReplicas,
  sessions, sessionReplicas,  \* the rows of player_sessions
  owner,      \* whom a session row names
  expired,    \* the sessions past their expire_at
  tokens,     \* signed tokens that have not expired
  call, calls, faults, crashes,
  ledger,     \* what the updates of the statistics should have made of a player
  diverged,   \* a row was saved that was out of date when it was saved
  wins,       \* registrations that were answered with success
  late        \* sessions accepted by a validation that began after their end

tables  == <<players, sessions, owner>>
replicas == <<playerReplicas, sessionReplicas>>
bounds  == <<calls, faults, crashes>>
history == <<ledger, diverged, wins, late>>
vars == <<tables, replicas, expired, tokens, call, bounds, history>>

Call == [pc : {"idle", "checkName", "createPlayer", "readName", "read", "save",
               "createSession", "readSession", "readOwner", "logout", "cleanup"},
         op : {"none", "register", "httpLogin", "login", "profile", "stats", "session"},
         name : Names \cup {NoName}, row : Player \cup {NoRow},
         delta : Deltas \cup {[exp |-> 0, coins |-> 0]},
         session : SessionIds \cup {NoSession},
         behind : BOOLEAN,  \* history: the row is out of date
         over : BOOLEAN]    \* history: the session had ended before the call began

SessionStates == {"none", "active", "inactive", "deleted"}

Zero == [exp |-> 0, coins |-> 0]
Idle == [pc |-> "idle", op |-> "none", name |-> NoName, row |-> NoRow, delta |-> Zero,
         session |-> NoSession, behind |-> FALSE, over |-> FALSE]

TypeOK ==
  /\ players \in [Names -> Player \cup {NoRow}]
  /\ playerReplicas \in [Names -> SUBSET (Player \cup {NoRow})]
  /\ sessions \in [SessionIds -> SessionStates]
  /\ sessionReplicas \in [SessionIds -> SUBSET SessionStates]
  /\ owner \in [SessionIds -> Names \cup {NoName}]
  /\ expired \subseteq SessionIds /\ tokens \subseteq Names \X {"access", "refresh"}
  /\ call \in [Clients -> Call]
  /\ calls \in 0..MaxCalls /\ faults \in 0..MaxFaults /\ crashes \in 0..MaxCrashes
  /\ ledger \in [Names -> [exp : Int, coins : Int]]
  /\ diverged \in [Names -> BOOLEAN] /\ wins \in [Names -> Nat]
  /\ late \subseteq SessionIds

Purse(row) == IF row = NoRow THEN Zero ELSE [exp |-> row.exp, coins |-> row.coins]

Init ==
  /\ players \in PlayerTables /\ playerReplicas = Slaves(players)
  /\ sessions = [s \in SessionIds |-> "none"] /\ sessionReplicas = Slaves(sessions)
  /\ owner = [s \in SessionIds |-> NoName] /\ expired = {} /\ tokens = {}
  /\ call = [p \in Clients |-> Idle] /\ calls = 0 /\ faults = 0 /\ crashes = 0
  /\ ledger = [n \in Names |-> Purse(players[n])]
  /\ diverged = [n \in Names |-> FALSE] /\ wins = [n \in Names |-> 0]
  /\ late = {}

Goto(p, step) ==
  call' = [call EXCEPT ![p] = IF step = "idle" THEN Idle ELSE [call[p] EXCEPT !.pc = step]]

-------------------------------------------------------------------------------
(* The requests.                                                           *)

Begin(p, c) ==
  /\ call[p].pc = "idle" /\ calls < MaxCalls
  /\ calls' = calls + 1 /\ call' = [call EXCEPT ![p] = c]
  /\ UNCHANGED <<tables, replicas, expired, tokens, faults, crashes, history>>

BeginOn(p, first, o, n) == Begin(p, [Idle EXCEPT !.pc = first, !.op = o, !.name = n])

playerRegister(p)    == \E n \in Names : BeginOn(p, "checkName", "register", n)
playerLogin(p)       == \E n \in Names : BeginOn(p, "readName", "httpLogin", n)
handlePlayerLogin(p) == \E n \in Names : BeginOn(p, "read", "login", n)

(* authMiddleware lets a request through that carries a valid token, of    *)
(* whichever user and kind.                                                *)
Authorized == tokens # {}

updatePlayer(p) == Authorized /\ \E n \in Names : BeginOn(p, "read", "profile", n)

UpdatePlayerStats(p) ==
  \E n \in Names, d \in Deltas :
    Begin(p, [Idle EXCEPT !.pc = "read", !.op = "stats", !.name = n, !.delta = d])

(* A session has ended when every slave says so or its time is over.       *)
Ended(s) == sessionReplicas[s] \subseteq {"inactive", "deleted"} \/ s \in expired

BeginSession(p, first) ==
  \E s \in SessionIds :
    /\ sessions[s] # "none"
    /\ Begin(p, [Idle EXCEPT !.pc = first, !.op = "session", !.session = s, !.over = Ended(s)])

handlePlayerLogout(p) == BeginSession(p, "logout")
ValidateSession(p)    == BeginSession(p, "readSession")
CleanupExpired(p)     == Begin(p, [Idle EXCEPT !.pc = "cleanup", !.op = "session"])

-------------------------------------------------------------------------------
(* RegisterPlayer, and the check of the password.                          *)

(* The rows a login and a registration may find, or none.                  *)
GetPlayerByUsername(n) == playerReplicas[n]

RegisterPlayer(p, o) ==
  /\ call[p].pc = "checkName"
  /\ \E row \in GetPlayerByUsername(call[p].name) :
       Goto(p, IF o = "ok" /\ row = NoRow THEN "createPlayer" ELSE "idle")
  /\ UNCHANGED <<tables, tokens, history>>

LoginPlayerByUsername(p, o) ==
  /\ call[p].pc = "readName"
  /\ \E row \in GetPlayerByUsername(call[p].name), passwordFits \in BOOLEAN :
       Goto(p, IF o = "ok" /\ row # NoRow /\ passwordFits /\ row.status = "active"
                 THEN "read" ELSE "idle")
  /\ UNCHANGED <<tables, tokens, history>>

(* Mutant: the level of a new player is left at 0.                         *)
NewPlayerNoLevel ==
  [level |-> 0, exp |-> 0, coins |-> 1000, profile |-> "old", status |-> "active"]

NewPlayer == [level |-> 1, exp |-> 0, coins |-> 1000, profile |-> "old", status |-> "active"]

(* Mutant: username has no unique index.                                   *)
FreeNot(n) == TRUE

(* The unique index on username refuses a second row.                      *)
Free(n) == players[n] = NoRow

CreatePlayer(p, o) ==
  LET n == call[p].name
      done == Free(n) /\ o # "error"
  IN  /\ call[p].pc = "createPlayer" /\ Goto(p, "idle")
      /\ players' = IF done THEN [players EXCEPT ![n] = NewPlayer] ELSE players
      /\ ledger' = IF done THEN [ledger EXCEPT ![n] = Purse(NewPlayer)] ELSE ledger
      /\ wins' = IF done /\ o = "ok" THEN [wins EXCEPT ![n] = @ + 1] ELSE wins
      /\ UNCHANGED <<sessions, owner, tokens, diverged, late>>

-------------------------------------------------------------------------------
(* LoginPlayer, UpdatePlayer, UpdatePlayerStats: a read, then a save.      *)

(* level++ until the experience is less than the next level needs: the     *)
(* first level l with exp < 100 * l.                                       *)
calculateLevel(exp) == IF exp < 100 THEN 1 ELSE 1 + exp \div 100

(* The rows the service finds are rows it wrote.                           *)
ASSUME LevelsAssumption ==
  \A table \in PlayerTables, n \in Names :
    table[n] # NoRow => table[n].level >= calculateLevel(table[n].exp)

(* Mutant: the level is computed from the experience before the change.    *)
LevelAfterLate(row, d) ==
  LET l == calculateLevel(row.exp) IN IF l > row.level THEN l ELSE row.level

LevelAfter(row, d) ==
  LET l == calculateLevel(row.exp + d.exp) IN IF l > row.level THEN l ELSE row.level

NotBelowZero(n) == IF n < 0 THEN 0 ELSE n

Changed(row, c) ==
  CASE c.op = "stats" -> [row EXCEPT !.exp = @ + c.delta.exp,
                                     !.coins = NotBelowZero(@ + c.delta.coins),
                                     !.level = LevelAfter(row, c.delta)]
    [] c.op = "profile" -> [row EXCEPT !.profile = "new"]
    [] OTHER -> row

(* Mutant: a login does not look at the status.                            *)
MayProceedAny(c, row) == TRUE

MayProceed(c, row) == c.op \in {"httpLogin", "login"} => row.status = "active"

GetPlayerByID(p, o) ==
  LET c == call[p]
  IN  /\ c.pc = "read"
      /\ \E row \in playerReplicas[c.name] :
           call' = [call EXCEPT ![p] =
             IF o = "ok" /\ row # NoRow /\ MayProceed(c, row)
               THEN [c EXCEPT !.pc = "save", !.row = Changed(row, c),
                              !.behind = row # players[c.name]]
               ELSE Idle]
      /\ UNCHANGED <<tables, tokens, history>>

(* Saves under way of n are now of a row that is out of date, but those of *)
(* the calls in but.                                                       *)
Overtaken(n, but) ==
  [q \in Clients |-> IF q \notin but /\ call[q].pc = "save" /\ call[q].name = n
                       THEN [call[q] EXCEPT !.behind = TRUE] ELSE call[q]]

(* Mutant: the change of the statistics is saved twice.                    *)
SavedRowTwice(c) == Changed(c.row, c)

SavedRow(c) == c.row

UpdatePlayer(p, o) ==
  LET c == call[p]
      n == c.name
      done == o # "error"
      login == c.op \in {"httpLogin", "login"}
  IN  /\ c.pc = "save"
      /\ call' = [(IF done THEN Overtaken(n, {p}) ELSE call) EXCEPT ![p] =
           IF o = "ok" /\ login THEN [c EXCEPT !.pc = "createSession"] ELSE Idle]
      /\ players' = IF done THEN [players EXCEPT ![n] = SavedRow(c)] ELSE players
      /\ ledger' = IF done /\ c.op = "stats"
                     THEN [ledger EXCEPT ![n] =
                             [exp |-> @.exp + c.delta.exp,
                              coins |-> NotBelowZero(@.coins + c.delta.coins)]]
                     ELSE ledger
      /\ diverged' = IF done /\ c.behind THEN [diverged EXCEPT ![n] = TRUE] ELSE diverged
      /\ UNCHANGED <<sessions, owner, tokens, wins, late>>

(* Mutant: the HTTP login hands out tokens although no session was made.   *)
TokensFromAlways(c, made) == IF c.op = "httpLogin" THEN {c.name} \X {"access", "refresh"} ELSE {}

(* The tokens playerLogin asks GenerateToken for.                          *)
TokensFrom(c, made) ==
  IF made /\ c.op = "httpLogin" THEN {c.name} \X {"access", "refresh"} ELSE {}

(* The row of a new session; ids are random and never met twice.           *)
InsertSession(s, n) ==
  /\ sessions[s] = "none"
  /\ sessions' = [sessions EXCEPT ![s] = "active"]
  /\ owner' = [owner EXCEPT ![s] = n]

CreateSession(p, o) ==
  LET c == call[p]
  IN  /\ c.pc = "createSession" /\ Goto(p, "idle")
      /\ \/ o # "error" /\ \E s \in SessionIds : InsertSession(s, c.name)
         \/ o = "error" /\ UNCHANGED <<sessions, owner>>
      /\ tokens' = tokens \cup TokensFrom(c, o = "ok")
      /\ UNCHANGED <<players, history>>

(* RefreshToken accepts any valid token, also an access token.             *)
RefreshToken(n) ==
  /\ \E kind \in {"access", "refresh"} : <<n, kind>> \in tokens
  /\ tokens' = tokens \cup {n} \X {"access", "refresh"}
  /\ UNCHANGED <<tables, replicas, expired, call, bounds, history>>

TokenExpires(t) ==
  /\ t \in tokens /\ tokens' = tokens \ {t}
  /\ UNCHANGED <<tables, replicas, expired, call, bounds, history>>

-------------------------------------------------------------------------------
(* Sessions.                                                               *)

InvalidateSession(s) ==
  IF sessions[s] = "active" THEN [sessions EXCEPT ![s] = "inactive"] ELSE sessions

LogoutPlayer(p, o) ==
  /\ call[p].pc = "logout" /\ Goto(p, "idle")
  /\ sessions' = IF o # "error" THEN InvalidateSession(call[p].session) ELSE sessions
  /\ UNCHANGED <<players, owner, tokens, history>>

(* Mutant: an inactive session is accepted until it expires.               *)
UsableAnyState(s, state) == state \in {"active", "inactive"} /\ s \notin expired

(* Whether a session that is found in that state is accepted.              *)
Usable(s, state) == state = "active" /\ s \notin expired

(* ValidateSession reads the session and then its player.                  *)
GetSessionByID(p, o) ==
  LET s == call[p].session
  IN  /\ call[p].pc = "readSession"
      /\ \E state \in sessionReplicas[s] :
           Goto(p, IF o = "ok" /\ Usable(s, state) THEN "readOwner" ELSE "idle")
      /\ UNCHANGED <<tables, tokens, history>>

ReadOwner(p, o) ==
  LET s == call[p].session
  IN  /\ call[p].pc = "readOwner" /\ Goto(p, "idle")
      /\ \E row \in playerReplicas[owner[s]] :
           late' = IF o = "ok" /\ row # NoRow /\ call[p].over THEN late \cup {s} ELSE late
      /\ UNCHANGED <<tables, tokens, ledger, diverged, wins>>

(* The rows that have expired or are inactive go.                          *)
CleanupExpiredSessions(p, o) ==
  /\ call[p].pc = "cleanup" /\ Goto(p, "idle")
  /\ sessions' = [s \in SessionIds |->
       IF o # "error" /\ (sessions[s] = "inactive" \/ (sessions[s] = "active" /\ s \in expired))
         THEN "deleted" ELSE sessions[s]]
  /\ UNCHANGED <<players, owner, tokens, history>>

SessionExpires(s) ==
  /\ sessions[s] # "none" /\ s \notin expired
  /\ expired' = expired \cup {s}
  /\ UNCHANGED <<tables, replicas, tokens, call, bounds, history>>

-------------------------------------------------------------------------------
(* The slaves have to replay what the master's tables now hold.            *)
Ship ==
  /\ playerReplicas' = Shipped(playerReplicas, players')
  /\ sessionReplicas' = Shipped(sessionReplicas, sessions')

(* An operator bans a player in the database.                              *)
Ban(n) ==
  /\ players[n] # NoRow /\ players[n].status = "active"
  /\ players' = [players EXCEPT ![n].status = "banned"]
  /\ call' = Overtaken(n, {})
  /\ UNCHANGED <<sessions, owner, expired, tokens, bounds, history>>
  /\ Ship

(* The last slave that shows a version of a player or session replays the  *)
(* next write.                                                             *)
ReplicatePlayer ==
  /\ \E n \in Names : \E old \in Outdated(playerReplicas, players, n) :
       playerReplicas' = Replayed(playerReplicas, n, old)
  /\ UNCHANGED sessionReplicas

ReplicateSession ==
  /\ \E s \in SessionIds : \E old \in Outdated(sessionReplicas, sessions, s) :
       sessionReplicas' = Replayed(sessionReplicas, s, old)
  /\ UNCHANGED playerReplicas

Replicate ==
  /\ ReplicatePlayer \/ ReplicateSession
  /\ UNCHANGED <<tables, expired, tokens, call, bounds, history>>

(* The process ends; the tables and the tokens of its clients stay.        *)
Crash ==
  /\ crashes < MaxCrashes /\ crashes' = crashes + 1
  /\ call' = [p \in Clients |-> Idle]
  /\ UNCHANGED <<tables, replicas, expired, tokens, calls, faults, history>>

Request(p) ==
  \/ playerRegister(p) \/ playerLogin(p) \/ handlePlayerLogin(p) \/ handlePlayerLogout(p)
  \/ updatePlayer(p) \/ UpdatePlayerStats(p) \/ ValidateSession(p) \/ CleanupExpired(p)

Statement(p, o) ==
  \/ RegisterPlayer(p, o) \/ LoginPlayerByUsername(p, o) \/ CreatePlayer(p, o) \/ GetPlayerByID(p, o)
  \/ UpdatePlayer(p, o) \/ CreateSession(p, o) \/ LogoutPlayer(p, o)
  \/ GetSessionByID(p, o) \/ ReadOwner(p, o) \/ CleanupExpiredSessions(p, o)

Work(p, o) ==
  /\ o # "ok" => faults < MaxFaults
  /\ faults' = IF o = "ok" THEN faults ELSE faults + 1
  /\ Statement(p, o) /\ Ship
  /\ UNCHANGED <<expired, calls, crashes>>

Next ==
  \/ \E p \in Clients : Request(p) \/ \E o \in Outcomes : Work(p, o)
  \/ \E n \in Names : RefreshToken(n) \/ Ban(n)
  \/ \E t \in tokens : TokenExpires(t)
  \/ \E s \in SessionIds : SessionExpires(s)
  \/ Replicate \/ Crash

Spec == Init /\ [][Next]_vars

-------------------------------------------------------------------------------
(* However many registrations of a name pass the check on a slave, one at  *)
(* most is answered with success.                                          *)
OneRegistrationWins == \A n \in Names : wins[n] <= 1

(* Every row has the level its experience has earned, though rows are read *)
(* from a slave and saved whole, over what others saved meanwhile.         *)
LevelCoversExperience ==
  \A n \in Names : players[n] # NoRow => players[n].level >= calculateLevel(players[n].exp)

(* Experience and coins are the sum of all updates, unless a row was saved *)
(* that a slave had shown too late or another change had overtaken:        *)
(* logins and profile changes are as harmful to them as other updates.     *)
StatisticsAddUp ==
  \A n \in Names : players[n] # NoRow /\ ~diverged[n] => Purse(players[n]) = ledger[n]

(* A token is only held by a user who has logged in with a session.        *)
TokenFollowsSession == \A t \in tokens : \E s \in SessionIds : owner[s] = t[1]

(* A session that had ended for every slave before the validation began is *)
(* never accepted, and nothing brings an ended session back.               *)
EndedSessionRefused == late = {}

(* A ban that the master and all slaves show, which have no version from   *)
(* before it or between two bans left to replay, with no login at its last *)
(* steps and no row about to be saved that was read before the ban.        *)
BanSettled(n) ==
  /\ \A row \in {players[n]} \cup playerReplicas[n] : row # NoRow /\ row.status = "banned"
  /\ \A p \in Clients :
       call[p].pc \in {"save", "createSession"} /\ call[p].name = n =>
         call[p].op \in {"profile", "stats"} /\ call[p].row.status = "banned"

(* Such a ban stays, whatever rows are saved, and the player gets no new   *)
(* session.                                                                *)
BanHolds ==
  [][\A n \in Names : BanSettled(n) =>
       /\ BanSettled(n)'
       /\ \A s \in SessionIds : owner'[s] = n => owner[s] = n]_vars
================================================================================
