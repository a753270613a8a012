--------------------------- MODULE MCArchiveIndex ---------------------------
(* Small instances of ArchiveIndex for TLC: process 1 with its main thread  *)
(* and thread 2, a process that got the number of that thread later, and a  *)
(* serial port.                                                            *)
EXTENDS ArchiveIndex

Source(p, t, name) == [pid |-> p, tid |-> t, name |-> name]
MCSources ==
  {Source(1, 1, Unknown), Source(1, 2, "own"), Source(2, 2, PreInitialized),
   Source(-1, -1, "own")}

Row(p, t, pp) == [pid |-> p, tid |-> t, ppid |-> pp]

(* `ps -A -o PID,TID,NAME,CMD' with a row per thread and with a row per     *)
(* process, and `ps -t', where 2 is a thread or a child of process 1.       *)
MCListings ==
  {[haveTID |-> TRUE,  rows |-> << Row(1, 1, 0), Row(1, 2, 0) >>],
   [haveTID |-> TRUE,  rows |-> << Row(1, 1, 0), Row(2, 2, 0) >>],
   [haveTID |-> FALSE, rows |-> << Row(1, 0, 0), Row(2, 0, 1) >>]}
=============================================================================
