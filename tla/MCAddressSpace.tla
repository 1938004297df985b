--------------------------- MODULE MCAddressSpace ---------------------------
(* Bounds for TLC: a machine whose low frames hold one process and most of *)
(* a second, so that every allocation of the second can be the one that    *)
(* fails, and whose high frames a growing heap can use up.                 *)
EXTENDS AddressSpace

MCImageSizes == {1}
MCIncrements == {-2, 3}
=============================================================================
