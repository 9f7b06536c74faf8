--------------------------- MODULE MCRemoteStore ----------------------------
(* RemoteStore on small instances.  Writes are interchangeable: either     *)
(* TLC's symmetry identifies them, as it does the people, or they are      *)
(* numbers and issued in this order, without loss of generality.           *)
EXTENDS RemoteStore, TLC

CONSTANT MaxTroubles  \* bound: disruptions and restarts together

RemoteSymmetry == Permutations(People) \cup Permutations(Writes)

IssuesInOrder == \A w \in issued' \ issued, v \in Writes \ issued : w <= v
TroubleIsBounded == disruptions' + restarts' <= MaxTroubles

RemoteInOrder ==
    /\ RemoteInit
    /\ [][RemoteNext /\ IssuesInOrder /\ TroubleIsBounded]_pipelineVars
    /\ RemoteFairness
=============================================================================
