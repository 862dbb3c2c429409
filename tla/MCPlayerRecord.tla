---------------------------- MODULE MCPlayerRecord ----------------------------
(* Bounded instance of PlayerRecord.                                        *)
EXTENDS PlayerRecord, TLC

Symmetry == Permutations(Requests) \cup Permutations(Subjects)
=============================================================================
