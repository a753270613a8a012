----------------------------- MODULE MCPtrArray -----------------------------
(* Small instances of PtrArray on MemBuf for TLC.                           *)
EXTENDS PtrArray, TLC

Symmetry == Permutations(Blocks)
=============================================================================
