---------------------------- MODULE MCVisibleList ----------------------------
(* Small instances of VisibleList for TLC.                                  *)
EXTENDS VisibleList

CONSTANTS t1, t2

MCContents ==
  {[kind |-> "flow", thread |-> t1, hits |-> 2],
   [kind |-> "trace", thread |-> t2, hits |-> 0]}
=============================================================================
