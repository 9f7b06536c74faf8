--------------------------- MODULE MCMutationQueue --------------------------
(* MutationQueue, and the scan of its table, for TLC: people and writes    *)
(* are interchangeable.                                                    *)
EXTENDS BatchIdScan

QueueSymmetry == Permutations(People) \cup Permutations(Writes)
=============================================================================
