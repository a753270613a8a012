--------------------------- MODULE MCTracedProgram --------------------------
(* A small program for TLC.                                                 *)
EXTENDS TracedProgram, TLC

CONSTANTS f, g

MCTraceRecs == {<< [len |-> 1, nl |-> TRUE] >>}

Symmetry == Permutations({f, g})
=============================================================================
