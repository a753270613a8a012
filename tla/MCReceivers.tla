----------------------------- MODULE MCReceivers ----------------------------
(* Small instances of Receivers for TLC: a UDP thread, a listening thread   *)
(* and the threads of two connections.                                     *)
EXTENDS Receivers

MCObjects == 1..4
=============================================================================
