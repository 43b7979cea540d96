--------------------------- MODULE MC_Replication ---------------------------
(* Instances of Replication for TLC: two nodes and one tuple, issued by the  *)
(* first node.                                                              *)
EXTENDS Replication, TLC

CONSTANTS n1, n2, t1, MaxTime

MCNode == {n1, n2}
MCTuple == {t1}
MCIssuerOf == t1 :> n1
MCTime == 0 .. MaxTime
==============================================================================
