------------------------------ MODULE Database ------------------------------
(***************************************************************************)
(* What the services share: the goroutines that serve requests, how a SQL  *)
(* statement of data/dao/dao.go ends, and the slaves of                    *)
(* data/dao/database.go.  "error" left the table alone, "unknown" was      *)
(* executed but its answer was lost.                                       *)
(*                                                                         *)
(* Writes go to the master.  A read goes to whichever slave the clock      *)
(* picks, and every slave replays the writes at its own pace.  So a table  *)
(* comes with its replicas: replicas[x] has every version of row x that    *)
(* some slave shows or has still to replay, and a read finds any of them,  *)
(* also an older one after a newer.  The current version is always among   *)
(* them: without slaves the master is read.                                *)
(***************************************************************************)
EXTENDS FiniteSets

CONSTANT Clients

ASSUME FiniteClients == IsFiniteSet(Clients)

Outcomes == {"ok", "error", "unknown"}

(* Every slave shows the table.                                            *)
Slaves(table) == [x \in DOMAIN table |-> {table[x]}]

(* A statement has left table on the master; the slaves have to replay it. *)
Shipped(replicas, table) == [x \in DOMAIN table |-> replicas[x] \cup {table[x]}]

(* The versions of row x that the last slave may leave behind.             *)
Outdated(replicas, table, x) == replicas[x] \ {table[x]}

(* The last slave has left that version of row x behind.                   *)
Replayed(replicas, x, version) == [replicas EXCEPT ![x] = @ \ {version}]
================================================================================
