---------------------------- MODULE KHeap_proofs ----------------------------
(***************************************************************************)
(* The kernel heap keeps its promises for every heap size, header size and *)
(* set of request sizes.                                                   *)
(*                                                                         *)
(* None of the invariants of KHeap is inductive: that two callers are      *)
(* apart follows from how the blocks lie, that a pointer is found by       *)
(* kfree() from the fact that no two callers share a block. Heap() is the  *)
(* strengthening. Its parts take the heap as parameters, because a         *)
(* krealloc() passes through a heap that no state holds.                   *)
(***************************************************************************)
EXTENDS KHeap, QueueLemmas, TLAPS

(* kbrk() areas follow each other: a block's header, then its data, then   *)
(* the blocks after it on the list.                                        *)
Layout(u, list) ==
  /\ \A i \in DOMAIN list :
       /\ list[i].at + Header <= u
       /\ list[i].data # NULL =>
            /\ list[i].at + Header <= list[i].data
            /\ list[i].data + list[i].size <= u
  /\ \A i, j \in DOMAIN list : i < j =>
       /\ list[i].at + Header <= list[j].at
       /\ list[i].data # NULL => list[i].data + list[i].size <= list[j].at

(* A block without data is never free, so worst_fit() never returns it. *)
FreeHasData(list) == \A i \in DOMAIN list : list[i].free => list[i].data # NULL

(* Callers hold real pointers, each to a block of its own that is in use   *)
(* and large enough, and blocks in use are held.                           *)
Backed(list, H) ==
  \A h \in H : \E i \in DOMAIN list :
    list[i].data = h.at /\ ~list[i].free /\ h.size <= list[i].size

Single(H) ==
  /\ \A h \in H : h.at # NULL
  /\ \A g, h \in H : g.at = h.at => g = h

Accounted(list, H) ==
  \A i \in DOMAIN list :
    ~list[i].free /\ list[i].data # NULL => \E h \in H : h.at = list[i].data

Held == [at : Nat, size : Nat \ {0}]

Heap(u, list, H) ==
  /\ u \in 0 .. HeapSize
  /\ list \in Seq(Block)
  /\ H \subseteq Held
  /\ Layout(u, list)
  /\ FreeHasData(list)
  /\ Backed(list, H)
  /\ Single(H)
  /\ Accounted(list, H)

HeapInv == Heap(used, blocks, held)
----------------------------------------------------------------------------
LEMMA ElementInBlock ==
  ASSUME NEW list \in Seq(Block), NEW i \in DOMAIN list
  PROVE  list[i].at \in Nat /\ list[i].data \in Nat /\ list[i].size \in Nat \ {0}
<1>1. list[i] \in Block
  OBVIOUS
<1>2. QED
  BY <1>1 DEF Block

(* No two blocks have the same data. *)
LEMMA DataInjective ==
  ASSUME NEW u, NEW list \in Seq(Block), Layout(u, list),
         NEW i \in DOMAIN list, NEW j \in DOMAIN list,
         list[i].data = list[j].data, list[i].data # NULL
  PROVE  i = j
<1>1. /\ i \in Nat /\ j \in Nat /\ Header \in Nat \ {0}
      /\ list[i] \in Block /\ list[j] \in Block
  BY HeapAssumption
<1>2. ASSUME NEW a \in DOMAIN list, NEW b \in DOMAIN list, a < b,
             list[a].data # NULL, list[b].data # NULL
      PROVE  list[a].data < list[b].data
  <2>1. /\ Header \in Nat \ {0} /\ list[a] \in Block /\ list[b] \in Block
    BY HeapAssumption
  <2>2. list[a].data + list[a].size <= list[b].at /\ list[b].at + Header <= list[b].data
    BY <1>2 DEF Layout
  <2>3. QED
    BY <2>1, <2>2 DEF Block
<1>3. list[i].data \in Nat /\ list[j].data # NULL
  BY <1>1 DEF Block
<1>4. ~(i < j)
  BY <1>2, <1>3
<1>5. ~(j < i)
  BY <1>2, <1>3
<1>6. QED
  BY <1>1, <1>4, <1>5

(* What callers hold in such a heap is in the region, and apart from each  *)
(* other and from the headers.                                             *)
Separate(list, H) ==
  \A h \in H :
    /\ h.at + h.size <= HeapSize
    /\ \A g \in H \ {h} : Apart(h, g)
    /\ \A i \in DOMAIN list : Apart(h, [at |-> list[i].at, size |-> Header])

LEMMA HeapSeparates ==
  ASSUME NEW u, NEW list, NEW H, Heap(u, list, H)
  PROVE  Separate(list, H)
<1> SUFFICES ASSUME NEW h \in H
             PROVE  /\ h.at + h.size <= HeapSize
                    /\ \A g \in H \ {h} : Apart(h, g)
                    /\ \A i \in DOMAIN list : Apart(h, [at |-> list[i].at, size |-> Header])
  BY DEF Separate
<1>1. /\ HeapSize \in Nat /\ Header \in Nat \ {0} /\ u \in 0 .. HeapSize
      /\ list \in Seq(Block) /\ h \in Held
      /\ Layout(u, list) /\ Backed(list, H) /\ Single(H)
  BY HeapAssumption DEF Heap
<1>2. PICK i \in DOMAIN list : list[i].data = h.at /\ h.size <= list[i].size
  BY <1>1 DEF Backed
<1>3. /\ i \in Nat /\ list[i] \in Block /\ h.at # NULL
  BY <1>1 DEF Single
<1>4. /\ list[i].at + Header <= h.at
      /\ h.at + list[i].size <= u
  BY <1>1, <1>2, <1>3 DEF Layout
<1>5. h.at + h.size <= HeapSize
  BY <1>1, <1>2, <1>3, <1>4 DEF Held, Block
<1>6. ASSUME NEW k \in DOMAIN list
      PROVE  Apart(h, [at |-> list[k].at, size |-> Header])
  <2>1. k \in Nat /\ list[k] \in Block
    BY <1>1
  <2>2. CASE k < i
    <3>1. list[k].at + Header <= list[i].at
      BY <1>1, <2>2 DEF Layout
    <3>2. QED
      BY <1>1, <1>3, <1>4, <2>1, <3>1 DEF Apart, Held, Block
  <2>3. CASE k = i
    BY <1>1, <1>3, <1>4, <2>3 DEF Apart, Held, Block
  <2>4. CASE i < k
    <3>1. h.at + list[i].size <= list[k].at
      BY <1>1, <1>2, <1>3, <2>4 DEF Layout
    <3>2. QED
      BY <1>1, <1>2, <1>3, <2>1, <3>1 DEF Apart, Held, Block
  <2>5. QED
    BY <1>3, <2>1, <2>2, <2>3, <2>4
<1>7. ASSUME NEW g \in H \ {h}
      PROVE  Apart(h, g)
  <2>1. PICK k \in DOMAIN list : list[k].data = g.at /\ g.size <= list[k].size
    BY <1>1 DEF Backed
  <2>2. /\ k \in Nat /\ list[k] \in Block /\ g.at # NULL /\ g \in Held /\ g.at # h.at
    BY <1>1 DEF Single, Heap
  <2>3. k # i
    BY <1>2, <2>1, <2>2
  <2>4. /\ list[k].at + Header <= g.at
        /\ g.at + list[k].size <= u
    BY <1>1, <2>1, <2>2 DEF Layout
  <2>5. CASE k < i
    <3>1. g.at + list[k].size <= list[i].at
      BY <1>1, <2>1, <2>2, <2>5 DEF Layout
    <3>2. g.at + g.size <= h.at
      BY <1>1, <1>3, <1>4, <2>1, <2>2, <3>1 DEF Held, Block
    <3>3. QED
      BY <3>2 DEF Apart
  <2>6. CASE i < k
    <3>1. h.at + list[i].size <= list[k].at
      BY <1>1, <1>2, <1>3, <2>6 DEF Layout
    <3>2. h.at \in Nat /\ h.size \in Nat /\ list[i].size \in Nat /\ list[k].at \in Nat /\ g.at \in Nat
      BY <1>1, <1>3, <2>2 DEF Held, Block
    <3>3. h.size <= list[i].size /\ Header \in Nat
      BY <1>2, HeapAssumption
    <3>4. h.at + h.size <= g.at
      BY <2>4, <3>1, <3>2, <3>3
    <3>5. QED
      BY <3>4 DEF Apart
  <2>7. QED
    BY <1>3, <2>2, <2>3, <2>5, <2>6
<1>8. QED
  BY <1>5, <1>6, <1>7
----------------------------------------------------------------------------
(* Freeing what a caller holds gives its block back and leaves every other *)
(* caller's alone.                                                         *)
LEMMA FreeKeepsHeap ==
  ASSUME NEW u, NEW list, NEW H, Heap(u, list, H), NEW h \in H
  PROVE  Heap(u, MarkFree(list, h.at), H \ {h})
<1> DEFINE same == {i \in DOMAIN list : list[i].data = h.at}
           m == MarkFree(list, h.at)
<1>1. /\ u \in 0 .. HeapSize /\ list \in Seq(Block) /\ H \subseteq Held
      /\ Layout(u, list) /\ FreeHasData(list) /\ Backed(list, H)
      /\ Single(H) /\ Accounted(list, H)
  BY DEF Heap
<1>2. PICK k \in DOMAIN list : list[k].data = h.at
  BY <1>1 DEF Backed
<1>3. h.at # NULL
  BY <1>1 DEF Single
<1>4. \A i \in DOMAIN list : list[i].data = h.at => i = k
  BY <1>1, <1>2, <1>3, DataInjective
<1>5. same = {k} /\ k \in Nat
  BY <1>1, <1>2, <1>4
<1>6. Min(same) = k
  BY <1>5, MinOfNats
<1>7. m = [list EXCEPT ![k].free = TRUE]
  BY <1>5, <1>6 DEF MarkFree
<1> HIDE DEF m
<1>8. /\ m \in Seq(Block) /\ DOMAIN m = DOMAIN list
      /\ \A i \in DOMAIN list : /\ m[i].at = list[i].at /\ m[i].size = list[i].size
                                /\ m[i].data = list[i].data
                                /\ m[i].free = (list[i].free \/ i = k)
  <2>1. list[k] \in Block
    BY <1>1, <1>2
  <2>2. /\ list[k] \in [at : Nat, size : Nat \ {0}, free : BOOLEAN, data : Nat]
        /\ TRUE \in BOOLEAN
    BY <2>1 DEF Block
  <2>3. [list[k] EXCEPT !.free = TRUE] \in Block
    BY <2>2, Zenon DEF Block
  <2>4. m = [list EXCEPT ![k] = [list[k] EXCEPT !.free = TRUE]]
    BY <1>7
  <2>5. /\ m \in Seq(Block) /\ DOMAIN m = DOMAIN list
        /\ m[k] = [list[k] EXCEPT !.free = TRUE]
        /\ \A i \in DOMAIN list \ {k} : m[i] = list[i]
    BY <1>1, <1>2, <2>3, <2>4
  <2>6. \A i \in DOMAIN list : list[i] \in Block
    BY <1>1
  <2>7. QED
    BY <1>2, <2>1, <2>5, <2>6 DEF Block
<1>9. Layout(u, m)
  BY <1>1, <1>8 DEF Layout
<1>10. FreeHasData(m)
  BY <1>1, <1>2, <1>3, <1>8 DEF FreeHasData
<1>11. Backed(m, H \ {h})
  <2> SUFFICES ASSUME NEW g \in H \ {h}
               PROVE  \E i \in DOMAIN m : m[i].data = g.at /\ ~m[i].free /\ g.size <= m[i].size
    BY DEF Backed
  <2>1. PICK i \in DOMAIN list : list[i].data = g.at /\ ~list[i].free /\ g.size <= list[i].size
    BY <1>1 DEF Backed
  <2>2. i # k
    BY <1>1, <1>2, <2>1 DEF Single
  <2>3. QED
    BY <1>8, <2>1, <2>2
<1>12. Single(H \ {h})
  BY <1>1 DEF Single
<1>13. Accounted(m, H \ {h})
  <2> SUFFICES ASSUME NEW i \in DOMAIN list, ~m[i].free, m[i].data # NULL
               PROVE  \E g \in H \ {h} : g.at = m[i].data
    BY <1>8 DEF Accounted
  <2>1. i # k /\ ~list[i].free /\ list[i].data # NULL
    BY <1>8
  <2>2. PICK g \in H : g.at = list[i].data
    BY <1>1, <2>1 DEF Accounted
  <2>3. g # h
    BY <1>4, <2>1, <2>2
  <2>4. QED
    BY <1>8, <2>2, <2>3
<1>14. QED
  BY <1>1, <1>8, <1>9, <1>10, <1>11, <1>12, <1>13 DEF Heap, m
----------------------------------------------------------------------------
(* What kmalloc() may hand out: nothing, or a pointer that nobody holds.   *)
Handed(u, list, H, p, n) ==
  IF p = NULL THEN Heap(u, list, H)
  ELSE /\ Heap(u, list, H \union {[at |-> p, size |-> n]})
       /\ \A h \in H : h.at # p

(* A kbrk() area that no block uses. *)
LEMMA GrowKeepsHeap ==
  ASSUME NEW u, NEW list, NEW H, Heap(u, list, H), NEW v \in u .. HeapSize
  PROVE  Heap(v, list, H)
<1>1. /\ u \in 0 .. HeapSize /\ list \in Seq(Block) /\ Layout(u, list)
      /\ HeapSize \in Nat /\ Header \in Nat
  BY HeapAssumption DEF Heap
<1>2. \A i \in DOMAIN list : list[i].at \in Nat /\ list[i].data \in Nat /\ list[i].size \in Nat
  BY <1>1, ElementInBlock
<1>3. Layout(v, list)
  BY <1>1, <1>2 DEF Layout
<1>4. QED
  BY <1>1, <1>3 DEF Heap

(* A new block at the end of the used area, with data or without. *)
LEMMA AppendKeepsHeap ==
  ASSUME NEW u, NEW list, NEW H, Heap(u, list, H),
         NEW v \in 0 .. HeapSize, u + Header <= v,
         NEW b \in Block, b.at = u, ~b.free,
         b.data # NULL => u + Header <= b.data /\ b.data + b.size <= v
  PROVE  Handed(v, Append(list, b), H, b.data, b.size)
<1> DEFINE a == Append(list, b)
           n == Len(list)
           new == [at |-> b.data, size |-> b.size]
           G == IF b.data = NULL THEN H ELSE H \union {new}
<1>1. /\ u \in 0 .. HeapSize /\ list \in Seq(Block) /\ H \subseteq Held
      /\ Layout(u, list) /\ FreeHasData(list) /\ Backed(list, H)
      /\ Single(H) /\ Accounted(list, H)
      /\ HeapSize \in Nat /\ Header \in Nat \ {0}
  BY HeapAssumption DEF Heap
<1>2. /\ n \in Nat /\ DOMAIN list = 1 .. n
      /\ a \in Seq(Block) /\ DOMAIN a = 1 .. n + 1
      /\ a[n + 1] = b /\ \A i \in 1 .. n : a[i] = list[i]
  BY <1>1
<1>3. \A i \in 1 .. n : list[i].at \in Nat /\ list[i].data \in Nat /\ list[i].size \in Nat
  BY <1>1, <1>2, ElementInBlock
<1>4. b.data \in Nat /\ b.size \in Nat \ {0} /\ b.at \in Nat
  BY DEF Block
<1> HIDE DEF a, n
<1>5. Layout(v, a)
  <2>1. ASSUME NEW i \in DOMAIN a
        PROVE  /\ a[i].at + Header <= v
               /\ a[i].data # NULL => /\ a[i].at + Header <= a[i].data
                                      /\ a[i].data + a[i].size <= v
    <3>1. CASE i = n + 1
      BY <1>1, <1>2, <1>4, <3>1
    <3>2. CASE i \in 1 .. n
      BY <1>1, <1>2, <1>3, <3>2 DEF Layout
    <3>3. QED
      BY <1>2, <3>1, <3>2
  <2>2. ASSUME NEW i \in DOMAIN a, NEW j \in DOMAIN a, i < j
        PROVE  /\ a[i].at + Header <= a[j].at
               /\ a[i].data # NULL => a[i].data + a[i].size <= a[j].at
    <3>1. i \in 1 .. n /\ a[i] = list[i]
      BY <1>2, <2>2
    <3>2. CASE j = n + 1
      BY <1>1, <1>2, <1>3, <3>1, <3>2 DEF Layout
    <3>3. CASE j \in 1 .. n
      BY <1>1, <1>2, <1>3, <2>2, <3>1, <3>3 DEF Layout
    <3>4. QED
      BY <1>2, <3>2, <3>3
  <2>3. QED
    BY <2>1, <2>2 DEF Layout
<1>6. FreeHasData(a)
  BY <1>1, <1>2 DEF FreeHasData
<1>7. \A h \in H : h.at # b.data \/ b.data = NULL
  <2> SUFFICES ASSUME NEW h \in H, h.at = b.data, b.data # NULL
               PROVE  FALSE
    OBVIOUS
  <2>1. PICK i \in DOMAIN list : list[i].data = h.at
    BY <1>1 DEF Backed
  <2>2. list[i].data + list[i].size <= u
    BY <1>1, <2>1 DEF Layout
  <2>3. QED
    BY <1>1, <1>2, <1>3, <1>4, <2>1, <2>2
<1>8. Backed(a, G)
  <2> SUFFICES ASSUME NEW h \in G
               PROVE  \E i \in DOMAIN a : a[i].data = h.at /\ ~a[i].free /\ h.size <= a[i].size
    BY DEF Backed
  <2>1. CASE h \in H
    <3>1. PICK i \in DOMAIN list : list[i].data = h.at /\ ~list[i].free /\ h.size <= list[i].size
      BY <1>1, <2>1 DEF Backed
    <3>2. QED
      BY <1>2, <3>1
  <2>2. CASE b.data # NULL /\ h = new
    BY <1>2, <1>4, <2>2
  <2>3. QED
    BY <2>1, <2>2
<1>9. Single(G) /\ G \subseteq Held
  BY <1>1, <1>4, <1>7 DEF Single, Held
<1>10. Accounted(a, G)
  <2> SUFFICES ASSUME NEW i \in DOMAIN a, ~a[i].free, a[i].data # NULL
               PROVE  \E h \in G : h.at = a[i].data
    BY DEF Accounted
  <2>1. CASE i = n + 1
    <3>1. new \in G /\ new.at = a[i].data
      BY <1>2, <2>1
    <3>2. QED
      BY <3>1
  <2>2. CASE i \in 1 .. n
    BY <1>1, <1>2, <2>2 DEF Accounted
  <2>3. QED
    BY <1>2, <2>1, <2>2
<1>11. Heap(v, a, G)
  BY <1>2, <1>5, <1>6, <1>8, <1>9, <1>10 DEF Heap
<1>12. QED
  BY <1>7, <1>11 DEF Handed, a

(* worst_fit()'s block. *)
LEMMA ReuseKeepsHeap ==
  ASSUME NEW u, NEW list, NEW H, Heap(u, list, H),
         NEW k \in DOMAIN list, list[k].free,
         NEW n \in Nat \ {0}, n <= list[k].size
  PROVE  /\ list[k].data # NULL
         /\ Handed(u, [list EXCEPT ![k].free = FALSE], H, list[k].data, n)
<1> DEFINE m == [list EXCEPT ![k].free = FALSE]
           new == [at |-> list[k].data, size |-> n]
           G == H \union {new}
<1>1. /\ u \in 0 .. HeapSize /\ list \in Seq(Block) /\ H \subseteq Held
      /\ Layout(u, list) /\ FreeHasData(list) /\ Backed(list, H)
      /\ Single(H) /\ Accounted(list, H)
  BY DEF Heap
<1>2. list[k].data # NULL /\ list[k].data \in Nat
  BY <1>1, ElementInBlock DEF FreeHasData
<1>3. /\ m \in Seq(Block) /\ DOMAIN m = DOMAIN list
      /\ \A i \in DOMAIN list : /\ m[i].at = list[i].at /\ m[i].size = list[i].size
                                /\ m[i].data = list[i].data
                                /\ m[i].free = (list[i].free /\ i # k)
  <2>1. \A i \in DOMAIN list : list[i] \in Block
    BY <1>1
  <2>2. /\ list[k] \in [at : Nat, size : Nat \ {0}, free : BOOLEAN, data : Nat]
        /\ FALSE \in BOOLEAN
    BY <2>1 DEF Block
  <2>3. [list[k] EXCEPT !.free = FALSE] \in Block
    BY <2>2, Zenon DEF Block
  <2>4. m = [list EXCEPT ![k] = [list[k] EXCEPT !.free = FALSE]]
    OBVIOUS
  <2>5. /\ m \in Seq(Block) /\ DOMAIN m = DOMAIN list
        /\ m[k] = [list[k] EXCEPT !.free = FALSE]
        /\ \A i \in DOMAIN list \ {k} : m[i] = list[i]
    BY <1>1, <2>3, <2>4
  <2>6. QED
    BY <2>1, <2>5 DEF Block
<1> HIDE DEF m
<1>4. Layout(u, m)
  BY <1>1, <1>3 DEF Layout
<1>5. FreeHasData(m)
  BY <1>1, <1>3 DEF FreeHasData
<1>6. \A h \in H : h.at # list[k].data
  <2> SUFFICES ASSUME NEW h \in H, h.at = list[k].data
               PROVE  FALSE
    OBVIOUS
  <2>1. PICK i \in DOMAIN list : list[i].data = h.at /\ ~list[i].free
    BY <1>1 DEF Backed
  <2>2. i = k
    BY <1>1, <1>2, <2>1, DataInjective
  <2>3. QED
    BY <2>1, <2>2
<1>7. Backed(m, G)
  <2> SUFFICES ASSUME NEW h \in G
               PROVE  \E i \in DOMAIN m : m[i].data = h.at /\ ~m[i].free /\ h.size <= m[i].size
    BY DEF Backed
  <2>1. CASE h \in H
    <3>1. PICK i \in DOMAIN list : list[i].data = h.at /\ ~list[i].free /\ h.size <= list[i].size
      BY <1>1, <2>1 DEF Backed
    <3>2. QED
      BY <1>3, <3>1
  <2>2. CASE h = new
    BY <1>3, <2>2
  <2>3. QED
    BY <2>1, <2>2
<1>8. Single(G) /\ G \subseteq Held
  BY <1>1, <1>2, <1>6 DEF Single, Held
<1>9. Accounted(m, G)
  <2> SUFFICES ASSUME NEW i \in DOMAIN list, ~m[i].free, m[i].data # NULL
               PROVE  \E h \in G : h.at = m[i].data
    BY <1>3 DEF Accounted
  <2>1. CASE i = k
    <3>1. new \in G /\ new.at = m[i].data
      BY <1>3, <2>1
    <3>2. QED
      BY <3>1
  <2>2. CASE i # k
    BY <1>1, <1>3, <2>2 DEF Accounted
  <2>3. QED
    BY <2>1, <2>2
<1>10. Heap(u, m, G)
  BY <1>1, <1>3, <1>4, <1>5, <1>7, <1>8, <1>9 DEF Heap
<1>11. QED
  BY <1>2, <1>6, <1>10 DEF Handed, m
----------------------------------------------------------------------------
LEMMA NewBlockIs ==
  ASSUME HeapInv, NEW n \in Nat \ {0}, NEW d \in Nat
  PROVE  /\ NewBlock(n, d) \in Block
         /\ NewBlock(n, d).at = used /\ NewBlock(n, d).size = n
         /\ NewBlock(n, d).data = d /\ ~NewBlock(n, d).free
<1>1. used \in Nat
  BY HeapAssumption DEF HeapInv, Heap
<1>2. FALSE \in BOOLEAN
  OBVIOUS
<1>3. NewBlock(n, d) \in Block
  BY <1>1, <1>2, Zenon DEF NewBlock, Block
<1>4. QED
  BY <1>3 DEF NewBlock

LEMMA FirstBlockHands ==
  ASSUME HeapInv, NEW n \in Nat \ {0}, blocks = <<>>
  PROVE  Handed(FirstBlock(n).used, FirstBlock(n).blocks, held, FirstBlock(n).ptr, n)
<1> DEFINE h == used + Header
           H(r) == Handed(r.used, r.blocks, held, r.ptr, n)
<1>1. /\ used \in 0 .. HeapSize /\ HeapSize \in Nat /\ Header \in Nat \ {0}
      /\ Heap(used, blocks, held)
  BY HeapAssumption DEF HeapInv, Heap
<1>2. \A b : Append(blocks, b) = <<b>>
  OBVIOUS
<1>3. CASE ~Room(used, Header)
  BY <1>1, <1>3 DEF FirstBlock, Returns, Handed
<1>4. CASE Room(used, Header) /\ ~Room(h, n)
  <2> DEFINE b == NewBlock(n, NULL)
  <2>1. h \in 0 .. HeapSize /\ used + Header <= h
    BY <1>1, <1>4 DEF Room
  <2>2. b \in Block /\ b.at = used /\ ~b.free /\ b.data = NULL
    BY NewBlockIs DEF NULL
  <2> HIDE DEF b
  <2>3. Handed(h, Append(blocks, b), held, NULL, b.size)
    BY <1>1, <2>1, <2>2, AppendKeepsHeap
  <2>4. FirstBlock(n) = Returns(NULL, h, <<b>>)
    BY <1>4 DEF FirstBlock, b
  <2>5. QED
    BY <1>2, <2>3, <2>4 DEF Returns, Handed
<1>5. CASE Room(used, Header) /\ Room(h, n)
  <2> DEFINE b == NewBlock(n, h)
             v == h + n
  <2>1. /\ h \in Nat /\ v \in 0 .. HeapSize /\ used + Header <= v /\ used + Header <= h
    BY <1>1, <1>5 DEF Room
  <2>2. b \in Block /\ b.at = used /\ ~b.free /\ b.data = h /\ b.size = n
    BY <2>1, NewBlockIs
  <2>3. FirstBlock(n) = Returns(h, v, <<b>>)
    BY <1>5 DEF FirstBlock
  <2> HIDE DEF b
  <2>4. b.data + b.size <= v
    BY <2>1, <2>2
  <2> HIDE DEF v, h
  <2>5. Handed(v, Append(blocks, b), held, b.data, b.size)
    BY <1>1, <2>1, <2>2, <2>4, AppendKeepsHeap
  <2>6. QED
    BY <1>2, <2>2, <2>3, <2>5 DEF Returns
<1>6. QED
  BY <1>3, <1>4, <1>5

LEMMA AppendBlockHands ==
  ASSUME HeapInv, NEW n \in Nat \ {0}
  PROVE  Handed(AppendBlock(n).used, AppendBlock(n).blocks, held, AppendBlock(n).ptr, n)
<1> DEFINE h == used + Header
           a == h + n
           v == a + n
<1>1. /\ used \in 0 .. HeapSize /\ HeapSize \in Nat /\ Header \in Nat \ {0}
      /\ Heap(used, blocks, held)
  BY HeapAssumption DEF HeapInv, Heap
<1>2. CASE ~Room(used, Header)
  BY <1>1, <1>2 DEF AppendBlock, Returns, Handed
<1>3. CASE Room(used, Header) /\ ~Room(h, n)
  <2>1. h \in used .. HeapSize
    BY <1>1, <1>3 DEF Room
  <2>2. Heap(h, blocks, held)
    BY <1>1, <2>1, GrowKeepsHeap
  <2>3. QED
    BY <1>3, <2>2 DEF AppendBlock, Returns, Handed
<1>4. CASE Room(used, Header) /\ Room(h, n) /\ ~Room(a, n)
  <2> DEFINE b == NewBlock(n, NULL)
  <2>1. a \in 0 .. HeapSize /\ used + Header <= a
    BY <1>1, <1>4 DEF Room
  <2>2. b \in Block /\ b.at = used /\ ~b.free /\ b.data = NULL
    BY NewBlockIs DEF NULL
  <2>3. AppendBlock(n) = Returns(NULL, a, Append(blocks, b))
    BY <1>4 DEF AppendBlock
  <2> HIDE DEF b, a
  <2>4. Handed(a, Append(blocks, b), held, NULL, b.size)
    BY <1>1, <2>1, <2>2, AppendKeepsHeap
  <2>5. QED
    BY <2>3, <2>4 DEF Returns, Handed
<1>5. CASE Room(used, Header) /\ Room(h, n) /\ Room(a, n)
  <2> DEFINE b == NewBlock(n, a)
  <2>1. /\ a \in Nat /\ v \in 0 .. HeapSize /\ used + Header <= v /\ used + Header <= a
    BY <1>1, <1>5 DEF Room
  <2>2. b \in Block /\ b.at = used /\ ~b.free /\ b.data = a /\ b.size = n
    BY <2>1, NewBlockIs
  <2>3. AppendBlock(n) = Returns(a, v, Append(blocks, b))
    BY <1>5 DEF AppendBlock
  <2> HIDE DEF b
  <2>4. b.data + b.size <= v
    BY <2>1, <2>2
  <2> HIDE DEF v, a
  <2>5. Handed(v, Append(blocks, b), held, b.data, b.size)
    BY <1>1, <2>1, <2>2, <2>4, AppendKeepsHeap
  <2>6. QED
    BY <2>2, <2>3, <2>5 DEF Returns
<1>6. QED
  BY <1>2, <1>3, <1>4, <1>5

LEMMA ReuseHands ==
  ASSUME HeapInv, NEW n \in Nat \ {0}, Fits(n) # {}
  PROVE  Handed(Reuse(n).used, Reuse(n).blocks, held, Reuse(n).ptr, n)
<1> DEFINE k == Min(Fits(n))
<1>1. blocks \in Seq(Block) /\ Heap(used, blocks, held)
  BY DEF HeapInv, Heap
<1>2. Fits(n) \in SUBSET Nat
  BY <1>1 DEF Fits
<1>3. k \in Fits(n)
  BY <1>2, MinOfNats
<1>4. k \in DOMAIN blocks /\ blocks[k].free /\ n <= blocks[k].size
  BY <1>1, <1>3, ElementInBlock DEF Fits
<1>5. Reuse(n) = Returns(blocks[k].data, used, [blocks EXCEPT ![k].free = FALSE])
  BY DEF Reuse
<1> HIDE DEF k
<1>6. Handed(used, [blocks EXCEPT ![k].free = FALSE], held, blocks[k].data, n)
  BY <1>1, <1>4, ReuseKeepsHeap
<1>7. QED
  BY <1>5, <1>6 DEF Returns

(* kmalloc() hands out nothing, or memory that nobody else holds. *)
LEMMA MallocHands ==
  ASSUME HeapInv, NEW n \in Nat \ {0}
  PROVE  Handed(Malloc(n).used, Malloc(n).blocks, held, Malloc(n).ptr, n)
BY FirstBlockHands, ReuseHands, AppendBlockHands DEF Malloc
----------------------------------------------------------------------------
LEMMA InitHeapInv == Init => HeapInv
BY HeapAssumption DEF Init, HeapInv, Heap, Layout, FreeHasData, Backed, Single, Accounted

LEMMA KmallocKeepsHeap ==
  ASSUME HeapInv, NEW n \in Nat \ {0}, Kmalloc(n)
  PROVE  HeapInv'
<1> DEFINE r == Malloc(n)
<1>1. Handed(r.used, r.blocks, held, r.ptr, n)
  BY MallocHands
<1>2. /\ used' = r.used /\ blocks' = r.blocks
      /\ held' = IF r.ptr = NULL THEN held ELSE held \union {[at |-> r.ptr, size |-> n]}
  BY DEF Kmalloc
<1> HIDE DEF r
<1>3. Heap(used', blocks', held')
  BY <1>1, <1>2 DEF Handed
<1>4. QED
  BY <1>3 DEF HeapInv

LEMMA KfreeKeepsHeap ==
  ASSUME HeapInv, NEW h \in held, Kfree(h)
  PROVE  HeapInv'
<1>1. Heap(used, MarkFree(blocks, h.at), held \ {h})
  BY FreeKeepsHeap DEF HeapInv
<1>2. Heap(used', blocks', held')
  BY <1>1 DEF Kfree
<1>3. QED
  BY <1>2 DEF HeapInv

LEMMA KreallocKeepsHeap ==
  ASSUME HeapInv, NEW h \in held, NEW n \in Nat \ {0}, Krealloc(h, n)
  PROVE  HeapInv'
<1> DEFINE r == Malloc(n)
           new == [at |-> r.ptr, size |-> n]
           H == held \union {new}
<1>1. Handed(r.used, r.blocks, held, r.ptr, n)
  BY MallocHands
<1>2. /\ used' = r.used
      /\ IF r.ptr = NULL
         THEN blocks' = r.blocks /\ held' = held
         ELSE /\ blocks' = MarkFree(r.blocks, h.at)
              /\ held' = (held \ {h}) \union {new}
  BY DEF Krealloc
<1> HIDE DEF r
<1>3. CASE r.ptr = NULL
  BY <1>1, <1>2, <1>3 DEF Handed, HeapInv
<1>4. CASE r.ptr # NULL
  <2>1. Heap(r.used, r.blocks, H) /\ h # new
    BY <1>1, <1>4 DEF Handed
  <2>2. Heap(r.used, MarkFree(r.blocks, h.at), H \ {h})
    BY <2>1, FreeKeepsHeap
  <2>3. held' = H \ {h}
    BY <1>2, <1>4, <2>1
  <2>4. QED
    BY <1>2, <1>4, <2>2, <2>3 DEF HeapInv
<1>5. QED
  BY <1>3, <1>4

LEMMA NextKeepsHeap == HeapInv /\ [Next]_vars => HeapInv'
<1> SUFFICES ASSUME HeapInv, [Next]_vars
             PROVE  HeapInv'
  OBVIOUS
<1>1. Sizes \subseteq Nat \ {0}
  BY HeapAssumption
<1>2. CASE \E n \in Sizes : Kmalloc(n)
  BY <1>1, <1>2, KmallocKeepsHeap
<1>3. CASE \E h \in held : Kfree(h)
  BY <1>3, KfreeKeepsHeap
<1>4. CASE \E h \in held, n \in Sizes : Krealloc(h, n)
  BY <1>1, <1>4, KreallocKeepsHeap
<1>5. CASE UNCHANGED vars
  BY <1>5 DEF vars, HeapInv
<1>6. QED
  BY <1>2, <1>3, <1>4, <1>5 DEF Next

LEMMA HeapInvariant == Spec => []HeapInv
BY InitHeapInv, NextKeepsHeap, PTL DEF Spec

(* Type correctness (kbrk() in core/memory.cpp): the used size never       *)
(* leaves the region, whatever is asked for.                               *)
THEOREM HeapTypeCorrect == Spec => []TypeOK
<1>1. HeapInv => TypeOK
  BY DEF HeapInv, Heap, TypeOK, Held
<1>2. QED
  BY <1>1, HeapInvariant, PTL

(* kmalloc() and krealloc() never hand out memory that somebody holds or   *)
(* that is a header of the list.                                           *)
THEOREM HeldIsApart == Spec => []NoOverlap
<1>1. HeapInv => NoOverlap
  BY HeapSeparates DEF HeapInv, Separate, NoOverlap
<1>2. QED
  BY <1>1, HeapInvariant, PTL

(* kfree() and krealloc() always find the block of a pointer that was      *)
(* handed out, and it is large enough for what was asked; and no block     *)
(* with data is in use without an owner: what kfree() is given can be      *)
(* handed out again.                                                       *)
THEOREM UseAlwaysExact == Spec => []UseExact
<1>1. ASSUME HeapInv
      PROVE  \A h \in held : \E i \in DOMAIN blocks :
               blocks[i].data = h.at /\ ~blocks[i].free /\ h.size <= blocks[i].size
  BY <1>1 DEF HeapInv, Heap, Backed
<1>2. ASSUME HeapInv
      PROVE  \A i \in DOMAIN blocks :
               ~blocks[i].free /\ blocks[i].data # NULL => \E h \in held : h.at = blocks[i].data
  BY <1>2 DEF HeapInv, Heap, Accounted
<1>3. HeapInv => UseExact
  BY <1>1, <1>2 DEF UseExact
<1>4. QED
  BY <1>3, HeapInvariant, PTL
----------------------------------------------------------------------------
(* What the heap may hand out is what Allocator may allocate. *)
LEMMA HandedIsFresh ==
  ASSUME HeapInv, NEW n \in Nat \ {0}, NEW r,
         Handed(r.used, r.blocks, held, r.ptr, n), r.ptr # NULL,
         NEW a, a = [at |-> r.ptr, size |-> n]
  PROVE  a \in Alloc!Allocation /\ Alloc!Fresh(a)
<1> DEFINE H == held \union {a}
<1>1. Heap(r.used, r.blocks, H) /\ a \notin held
  BY DEF Handed
<1>2. Separate(r.blocks, H) /\ a \in Held /\ HeapSize \in Nat
  BY <1>1, HeapSeparates, HeapAssumption DEF Heap
<1>3. a.at + a.size <= HeapSize /\ \A b \in held : Apart(a, b)
  BY <1>1, <1>2 DEF Separate
<1>4. Alloc!Fresh(a)
  BY <1>3 DEF Alloc!Fresh, Alloc!Apart, Apart
<1>5. a \in Alloc!Allocation
  <2>1. a.at \in 0 .. HeapSize - 1 /\ a.size \in 1 .. HeapSize
    BY <1>2, <1>3 DEF Held
  <2>2. QED
    BY <2>1 DEF Alloc!Allocation
<1>6. QED
  BY <1>4, <1>5

(* The kernel heap implements Allocator: each operation hands out fresh    *)
(* memory, takes memory back, moves an allocation, or changes nothing that *)
(* a caller can see.                                                       *)
THEOREM HeapImplementsAllocator == Spec => ImplementsAllocator
<1>1. Init => Alloc!AllocatorInit
  BY DEF Init, Alloc!AllocatorInit
<1>2. ASSUME HeapInv, [Next]_vars
      PROVE  [Alloc!AllocatorNext]_held
  <2>1. Sizes \subseteq Nat \ {0}
    BY HeapAssumption
  <2>2. ASSUME NEW n \in Sizes, Kmalloc(n)
        PROVE  [Alloc!AllocatorNext]_held
    <3>1. PICK r : r = Malloc(n)
      OBVIOUS
    <3>2. PICK a : a = [at |-> r.ptr, size |-> n]
      OBVIOUS
    <3>3. held' = IF r.ptr = NULL THEN held ELSE held \union {a}
      BY <2>2, <3>1, <3>2 DEF Kmalloc
    <3>4. CASE r.ptr # NULL
      <4>1. a \in Alloc!Allocation /\ Alloc!Fresh(a)
        BY <1>2, <2>1, <3>1, <3>2, <3>4, MallocHands, HandedIsFresh
      <4>2. QED
        BY <3>3, <3>4, <4>1 DEF Alloc!AllocatorNext, Alloc!Allocate
    <3>5. QED
      BY <3>3, <3>4
  <2>3. ASSUME NEW h \in held, Kfree(h)
        PROVE  [Alloc!AllocatorNext]_held
    BY <2>3 DEF Kfree, Alloc!AllocatorNext, Alloc!Release
  <2>4. ASSUME NEW h \in held, NEW n \in Sizes, Krealloc(h, n)
        PROVE  [Alloc!AllocatorNext]_held
    <3>1. PICK r : r = Malloc(n)
      OBVIOUS
    <3>2. PICK a : a = [at |-> r.ptr, size |-> n]
      OBVIOUS
    <3>3. held' = IF r.ptr = NULL THEN held ELSE (held \ {h}) \union {a}
      BY <2>4, <3>1, <3>2 DEF Krealloc
    <3>4. CASE r.ptr # NULL
      <4>1. a \in Alloc!Allocation /\ Alloc!Fresh(a)
        BY <1>2, <2>1, <3>1, <3>2, <3>4, MallocHands, HandedIsFresh
      <4>2. QED
        BY <3>3, <3>4, <4>1 DEF Alloc!AllocatorNext, Alloc!Move
    <3>5. QED
      BY <3>3, <3>4
  <2>5. QED
    BY <1>2, <2>2, <2>3, <2>4 DEF Next, vars
<1>3. QED
  BY <1>1, <1>2, HeapInvariant, PTL DEF Spec, ImplementsAllocator, Alloc!AllocatorSpec
=============================================================================
