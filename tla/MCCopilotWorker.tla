--------------------------- MODULE MCCopilotWorker ---------------------------
(* Bounded instance of CopilotWorker.                                       *)
EXTENDS CopilotWorker, TLC
=============================================================================
