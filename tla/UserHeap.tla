------------------------------ MODULE UserHeap ------------------------------
(***************************************************************************)
(* The heap of a program: user_prog/libhx86/Hx86/memory.cpp, which grows   *)
(* by the system call sbrk (core/syscalls.cpp, here with its effect on the *)
(* end of the heap alone).  Addresses count from the start of the heap.    *)
(* The library has no lock: a request looks for a block in one step, and   *)
(* takes it or makes a new one in the next.                                *)
(***************************************************************************)
EXTENDS Integers, Sequences, FiniteSets

CONSTANTS
  Threads,        \* the threads of the program
  Sizes,          \* what they ask for
  Header,         \* sizeof(heap_BLOCK)
  Page, MinGrowth,
  InitialSize, MaxSize,
  MaxHeld         \* a bound: how many areas are held at once

ASSUME UserHeapAssumption ==
  /\ Sizes \subseteq Nat \ {0}
  /\ Header \in Nat \ {0} /\ Page \in Nat \ {0}
  /\ MinGrowth \in Nat /\ InitialSize \in Nat

VARIABLES
  blocks,         \* the list from g_head on
  used, total,    \* g_total_used_size, g_total_size
  endAddress,     \* the end of the heap, as the kernel has it
  request,        \* what each thread is doing
  held            \* what the program holds: areas it was given and did not free

vars == <<blocks, used, total, endAddress, request, held>>

None == -1
Idle == [size |-> 0, step |-> "idle", block |-> 0, moving |-> None]
Larger(a, b) == IF a > b THEN a ELSE b
RoundedUp(n) == ((n + Page - 1) \div Page) * Page

-----------------------------------------------------------------------------
\* kbrk(): the heap grows when what is left is not more than what is wanted.  The
\* result's address is None when the kernel refuses.
Heap == [used |-> used, total |-> total, endAddress |-> endAddress, address |-> None]

Kbrk(h, size) ==
  LET left   == h.total - h.used
      growth == IF left <= size THEN Larger(RoundedUp(size - left), MinGrowth) ELSE 0
  IN  IF h.endAddress + growth > MaxSize THEN [h EXCEPT !.address = None]
      ELSE [used |-> h.used + size, total |-> h.total + growth,
            endAddress |-> h.endAddress + growth, address |-> h.used]

SetHeap(h) == used' = h.used /\ total' = h.total /\ endAddress' = h.endAddress

Block(at, size, data) == [at |-> at, size |-> size, data |-> data, free |-> FALSE]

FirstFree(size) == {i \in DOMAIN blocks : blocks[i].free}

\* worst_fit(), which takes the first block that is large enough.
Fitting(size) == {i \in DOMAIN blocks : blocks[i].free /\ blocks[i].size >= size}

FirstOf(s) == IF s = {} THEN 0 ELSE CHOOSE i \in s : \A j \in s : i <= j

-----------------------------------------------------------------------------
\* The outcome of a request: an area, or nothing.  krealloc() then frees the area
\* that was moved, which the program gives up with the call.
Answer(t, data, list) ==
  LET old == request[t].moving
      ok  == data # None
  IN  /\ blocks' = [i \in DOMAIN list |->
                      IF ok /\ old # None /\ list[i].data = old
                        THEN [list[i] EXCEPT !.free = TRUE] ELSE list[i]]
      /\ held' = IF ok THEN {a \in held : a.data # old} \cup {[data |-> data, size |-> request[t].size, by |-> t]}
                 ELSE held
      /\ request' = [request EXCEPT ![t] = Idle]

Kmalloc(t, size) ==
  /\ request[t] = Idle
  /\ Cardinality(held) < MaxHeld
  /\ request' = [request EXCEPT ![t] = [size |-> size, step |-> "find", block |-> 0, moving |-> None]]
  /\ UNCHANGED <<blocks, used, total, endAddress, held>>

Krealloc(t, a, size) ==
  /\ request[t] = Idle
  /\ a \in held
  /\ \A u \in Threads : request[u].moving # a.data
  /\ request' = [request EXCEPT ![t] = [size |-> size, step |-> "find", block |-> 0, moving |-> a.data]]
  /\ UNCHANGED <<blocks, used, total, endAddress, held>>

Find(t) ==
  /\ request[t].step = "find"
  /\ request' = [request EXCEPT ![t].step = "take", ![t].block = FirstOf(Fitting(request[t].size))]
  /\ UNCHANGED <<blocks, used, total, endAddress, held>>

\* A block that was found is marked.
TakeBlock(t) ==
  /\ request[t].step = "take"
  /\ LET i == request[t].block
     IN  /\ i > 0
         /\ Answer(t, blocks[i].data, [blocks EXCEPT ![i].free = FALSE])
  /\ UNCHANGED <<used, total, endAddress>>

\* The first block of all is linked before it has its area.
FirstBlock(t) ==
  /\ request[t].step = "take" /\ request[t].block = 0
  /\ blocks = <<>>
  /\ LET header == Kbrk(Heap, Header)
         area   == Kbrk(header, request[t].size)
     IN  IF header.address = None THEN Answer(t, None, blocks) /\ SetHeap(header)
         ELSE /\ Answer(t, area.address, <<Block(header.address, request[t].size, area.address)>>)
              /\ SetHeap(area)

\* allocate_new_block() gives a later one an area and links it, and kmalloc() then
\* gives it another.
NewBlock(t) ==
  /\ request[t].step = "take" /\ request[t].block = 0
  /\ blocks # <<>>
  /\ LET size   == request[t].size
         header == Kbrk(Heap, Header)
         unused == Kbrk(header, size)
         area   == Kbrk(unused, size)
     IN  IF header.address = None THEN Answer(t, None, blocks) /\ SetHeap(header)
         ELSE IF unused.address = None THEN Answer(t, None, blocks) /\ SetHeap(unused)
         ELSE /\ Answer(t, area.address, Append(blocks, Block(header.address, size, area.address)))
              /\ SetHeap(area)

Kfree(t, a) ==
  /\ request[t] = Idle
  /\ a \in held
  /\ \A u \in Threads : request[u].moving # a.data
  /\ held' = held \ {a}
  /\ blocks' = [i \in DOMAIN blocks |-> IF blocks[i].data = a.data THEN [blocks[i] EXCEPT !.free = TRUE] ELSE blocks[i]]
  /\ UNCHANGED <<used, total, endAddress, request>>

\* heap_init() with what Hsys_getHeap tells.
Init ==
  /\ blocks = <<>> /\ used = 0
  /\ total = InitialSize /\ endAddress = InitialSize
  /\ request = [t \in Threads |-> Idle]
  /\ held = {}

Next == \E t \in Threads :
  \/ \E n \in Sizes : Kmalloc(t, n) \/ (\E a \in held : Krealloc(t, a, n))
  \/ Find(t) \/ TakeBlock(t) \/ FirstBlock(t) \/ NewBlock(t)
  \/ \E a \in held : Kfree(t, a)

Spec == Init /\ [][Next]_vars

-----------------------------------------------------------------------------
\* What the program holds lies in pages that the kernel gave, apart from the
\* headers of the list and from everything else it holds, after any requests, moves
\* and refusals (kbrk, kmalloc, krealloc, kfree).
HeldApart ==
  LET area(a) == a.data..(a.data + a.size - 1)
  IN  /\ total = endAddress
      /\ \A a \in held : area(a) \subseteq 0..(endAddress - 1)
      /\ \A a, b \in held : a # b => area(a) \cap area(b) = {}
      /\ \A a \in held : \A i \in DOMAIN blocks :
           area(a) \cap (blocks[i].at..(blocks[i].at + Header - 1)) = {}
      /\ \A a \in held : \E i \in DOMAIN blocks : blocks[i].data = a.data /\ ~blocks[i].free
=============================================================================
