------------------------------ MODULE MCKHeap ------------------------------
(* Bounds for TLC: a small and a larger request, so that a small one       *)
(* reuses a large block and a large one does not fit a small block, in a   *)
(* region for a handful of blocks, so that each kbrk() of a kmalloc can be *)
(* the one that fails.                                                     *)
EXTENDS KHeap

MCSizes == {1, 3}
=============================================================================
