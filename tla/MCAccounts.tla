------------------------------ MODULE MCAccounts ------------------------------
(* Accounts on one player, who is there already or is still to register.   *)
EXTENDS Accounts, TLC

CONSTANTS p1, p2, n1, s1, s2

MCOld == [level |-> 1, exp |-> 50, coins |-> 3, profile |-> "old", status |-> "active"]
MCPlayerTables == { n1 :> row : row \in {NoRow, MCOld} }
MCDeltas == {[exp |-> 250, coins |-> -5]}

ModelSymmetry == Permutations(Clients) \cup Permutations(SessionIds)
================================================================================
