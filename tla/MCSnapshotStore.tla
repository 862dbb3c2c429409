--------------------------- MODULE MCSnapshotStore ---------------------------
(* Bounded instance of SnapshotStore.                                       *)
EXTENDS SnapshotStore, TLC

Symmetry == Permutations(Threads) \cup Permutations(Keys) \cup Permutations(Games)
=============================================================================
