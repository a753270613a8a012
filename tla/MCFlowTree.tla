----------------------------- MODULE MCFlowTree -----------------------------
(* Small instances of FlowTree for TLC.                                     *)
EXTENDS FlowTree, TLC

CONSTANTS f, g

(* Text of one or two characters, a line break, and a record of two lines. *)
MCTraceRecs ==
  {<< [len |-> 2, nl |-> FALSE] >>,
   << [len |-> 1, nl |-> TRUE], [len |-> 1, nl |-> FALSE] >>,
   << [len |-> 0, nl |-> TRUE] >>}

Symmetry == Permutations({f, g})
=============================================================================
