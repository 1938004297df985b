------------------------------ MODULE Allocator ------------------------------
(***************************************************************************)
(* What an allocator of Hashx86 promises its callers: what it hands out    *)
(* lies in its space and apart from everything else that is handed out,    *)
(* until its owner gives it back. It may refuse at any time.               *)
(***************************************************************************)
EXTENDS Integers

CONSTANT Space     (* the cells 0 .. Space - 1 *)

VARIABLE allocated (* what callers hold        *)

Allocation == [at : 0 .. Space - 1, size : 1 .. Space]

Apart(a, b) == a.at + a.size <= b.at \/ b.at + b.size <= a.at

Fresh(a) ==
  /\ a.at + a.size <= Space
  /\ \A b \in allocated : Apart(a, b)

Allocate(a) == Fresh(a) /\ allocated' = allocated \union {a}

Release(a) == allocated' = allocated \ {a}

(* The contents move from a to b, and a is given back. *)
Move(a, b) ==
  /\ Fresh(b)
  /\ allocated' = (allocated \ {a}) \union {b}

AllocatorInit == allocated = {}

AllocatorNext ==
  \/ \E a \in Allocation : Allocate(a)
  \/ \E a \in allocated : Release(a)
  \/ \E a \in allocated, b \in Allocation : Move(a, b)

AllocatorSpec == AllocatorInit /\ [][AllocatorNext]_allocated
=============================================================================
