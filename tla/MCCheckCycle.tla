---------------------------- MODULE MCCheckCycle ----------------------------
(* CheckCycle on small instances.                                          *)
EXTENDS CheckCycle, TLC
=============================================================================
