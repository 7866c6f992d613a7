------------------------------ MODULE MCGameServer ------------------------------
(* GameServer on two users and one kind of item: the sender has two of it; *)
(* the receiver has none, or one.  The order is new, or paid already.      *)
EXTENDS GameServer, TLC

CONSTANTS p1, p2, u1, u2, k1, i1, i2, i3, o1, g1

MCRow(u, n) == [owner |-> u, kind |-> k1, qty |-> n, tradable |-> TRUE]
MCStocks ==
  { i1 :> MCRow(u1, 2) @@ i2 :> r @@ i3 :> NoRow : r \in {NoRow, MCRow(u2, 1)} }

MCOrderTables == { o1 :> s : s \in {"none", "paid"} }

ClientSymmetry == Permutations(Clients)
================================================================================
