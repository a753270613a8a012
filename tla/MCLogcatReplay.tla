--------------------------- MODULE MCLogcatReplay ---------------------------
(* Small instances of LogcatReplay for TLC.                                 *)
EXTENDS LogcatReplay

(* Two times of day, and at the later one another process that logs a text  *)
(* in brackets.                                                            *)
MCKinds == {[at |-> 1, by |-> 1, bracketed |-> FALSE],
            [at |-> 2, by |-> 1, bracketed |-> FALSE],
            [at |-> 2, by |-> 2, bracketed |-> TRUE]}
=============================================================================
