-------------------------- MODULE MCCommentaryWorker --------------------------
(* Bounded instance of CommentaryWorker.                                    *)
EXTENDS CommentaryWorker, TLC

Symmetry == Permutations(Digests) \cup Permutations(Rebuilders)
=============================================================================
