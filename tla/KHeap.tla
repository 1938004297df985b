-------------------------------- MODULE KHeap --------------------------------
(***************************************************************************)
(* The kernel heap of Hashx86 (core/memory.cpp): a list of blocks, first   *)
(* fit, in a region that kbrk() only ever takes from. Every operation      *)
(* holds an InterruptGuard, so each is one step.                           *)
(*                                                                         *)
(* Addresses are offsets from g_kheap_start_addr. A block's header and its *)
(* data are two kbrk() areas; blocks are kept in list order.               *)
(***************************************************************************)
EXTENDS Integers, FiniteSets, SequencesExt

CONSTANTS
  HeapSize,  (* g_total_size                                               *)
  Header,    (* sizeof(KHEAP_BLOCK)                                        *)
  Sizes      (* bound: the sizes callers ask for                           *)

ASSUME HeapAssumption ==
  /\ HeapSize \in Nat
  /\ Header \in Nat \ {0}
  /\ Sizes \subseteq Nat \ {0}

VARIABLES
  used,      (* g_total_used_size                                          *)
  blocks,    (* the list from g_head                                       *)
  held       (* what callers hold: the pointer and the size they asked for *)

vars == <<used, blocks, held>>

NULL == 0    (* no data is at offset 0: a header comes first *)

Block == [at : Nat, size : Nat \ {0}, free : BOOLEAN, data : Nat]

Init == used = 0 /\ blocks = <<>> /\ held = {}
----------------------------------------------------------------------------
(* kbrk(n) succeeds with u bytes used. Mutant: it forgets the size.        *)
RoomForOne(u, n) == HeapSize - u > 0
Room(u, n) == HeapSize - u > n

(* The blocks that a request of n bytes may reuse. Mutants: the size, or   *)
(* the flag, is not looked at.                                             *)
FitsAnySize(n) == {i \in DOMAIN blocks : blocks[i].free}
FitsInUse(n) == {i \in DOMAIN blocks : blocks[i].size >= n}
Fits(n) == {i \in DOMAIN blocks : blocks[i].free /\ blocks[i].size >= n}

(* The block of a pointer gets its flag set. Mutants: it does not; every   *)
(* block of the list does.                                                 *)
MarkFreeNot(list, p) == list
MarkFreeAll(list, p) == [i \in DOMAIN list |-> [list[i] EXCEPT !.free = TRUE]]
MarkFree(list, p) ==
  LET same == {i \in DOMAIN list : list[i].data = p} IN
  IF same = {} THEN list ELSE [list EXCEPT ![Min(same)].free = TRUE]

(* A pointer that kmalloc returns, with the heap after it.                 *)
Returns(p, u, list) == [ptr |-> p, used |-> u, blocks |-> list]

NewBlock(n, data) == [at |-> used, size |-> n, free |-> FALSE, data |-> data]

(* The first block ever. Its header stays on the list without data when    *)
(* the heap is too small for the data.                                     *)
FirstBlock(n) ==
  LET afterHeader == used + Header IN
  IF ~Room(used, Header) THEN Returns(NULL, used, blocks)
  ELSE IF ~Room(afterHeader, n) THEN Returns(NULL, afterHeader, <<NewBlock(n, NULL)>>)
  ELSE Returns(afterHeader, afterHeader + n, <<NewBlock(n, afterHeader)>>)

(* allocate_new_block() links a block with an area of n bytes, and kmalloc *)
(* at once takes a second area for it: the first is never used, and when   *)
(* there is no second one the block stays on the list without data.        *)
AppendBlock(n) ==
  LET afterHeader == used + Header
      afterArea == afterHeader + n
  IN
  IF ~Room(used, Header) THEN Returns(NULL, used, blocks)
  ELSE IF ~Room(afterHeader, n) THEN Returns(NULL, afterHeader, blocks)
  ELSE IF ~Room(afterArea, n)
    THEN Returns(NULL, afterArea, Append(blocks, NewBlock(n, NULL)))
  ELSE Returns(afterArea, afterArea + n, Append(blocks, NewBlock(n, afterArea)))

(* worst_fit() takes the first block that is free and large enough; the    *)
(* block keeps its size.                                                   *)
Reuse(n) ==
  LET i == Min(Fits(n)) IN
  Returns(blocks[i].data, used, [blocks EXCEPT ![i].free = FALSE])

(* kmalloc(n). *)
Malloc(n) ==
  IF blocks = <<>> THEN FirstBlock(n)
  ELSE IF Fits(n) # {} THEN Reuse(n)
  ELSE AppendBlock(n)

Kmalloc(n) ==
  LET r == Malloc(n) IN
  /\ used' = r.used
  /\ blocks' = r.blocks
  /\ held' = IF r.ptr = NULL THEN held ELSE held \union {[at |-> r.ptr, size |-> n]}

(* A caller frees what it holds. *)
Kfree(h) ==
  /\ blocks' = MarkFree(blocks, h.at)
  /\ held' = held \ {h}
  /\ UNCHANGED used

(* krealloc(p, n): the old block is freed only after the new one exists. *)
Krealloc(h, n) ==
  LET r == Malloc(n) IN
  /\ used' = r.used
  /\ IF r.ptr = NULL
     THEN blocks' = r.blocks /\ UNCHANGED held
     ELSE /\ blocks' = MarkFree(r.blocks, h.at)
          /\ held' = (held \ {h}) \union {[at |-> r.ptr, size |-> n]}

Next ==
  \/ \E n \in Sizes : Kmalloc(n)
  \/ \E h \in held : Kfree(h)
  \/ \E h \in held, n \in Sizes : Krealloc(h, n)

Spec == Init /\ [][Next]_vars
----------------------------------------------------------------------------
(* Every variable has its type, and kbrk() never leaves the region. *)
TypeOK ==
  /\ used \in 0 .. HeapSize
  /\ blocks \in Seq(Block)
  /\ held \subseteq [at : Nat, size : Nat \ {0}]

Apart(a, b) == a.at + a.size <= b.at \/ b.at + b.size <= a.at

(* What a caller asked for is its own: it lies in the region and apart     *)
(* from what any other caller holds and from every header of the list,     *)
(* after any sequence of requests, reuses, failures and moves.             *)
NoOverlap ==
  \A h \in held :
    /\ h.at + h.size <= HeapSize
    /\ \A g \in held \ {h} : Apart(h, g)
    /\ \A i \in DOMAIN blocks : Apart(h, [at |-> blocks[i].at, size |-> Header])

(* The list and its callers agree: what is held is the data of a block     *)
(* that is in use and large enough, so that kfree() finds it; and a block  *)
(* that nobody holds can be reused, but for the ones that never got data   *)
(* because the region ended.                                               *)
UseExact ==
  /\ \A h \in held : \E i \in DOMAIN blocks :
       blocks[i].data = h.at /\ ~blocks[i].free /\ h.size <= blocks[i].size
  /\ \A i \in DOMAIN blocks :
       ~blocks[i].free /\ blocks[i].data # NULL => \E h \in held : h.at = blocks[i].data

(* The heap implements Allocator over its region. *)
Alloc == INSTANCE Allocator WITH Space <- HeapSize, allocated <- held

ImplementsAllocator == Alloc!AllocatorSpec
=============================================================================
