--------------------------- MODULE MCEventOutbox ---------------------------
(* EventOutbox on small instances.                                         *)
EXTENDS EventOutbox, TLC
=============================================================================
