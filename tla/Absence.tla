------------------------------- MODULE Absence -------------------------------
(* What the program's None is in the models: no game, no snapshot, no      *)
(* reply.  The modules that are composed share it.                         *)
CONSTANT None
=============================================================================
