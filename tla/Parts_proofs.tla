---------------------------- MODULE Parts_proofs ----------------------------
(***************************************************************************)
(* The heap of a program keeps its areas apart, what comes in and goes out *)
(* is taken and sent whole, and the boot comes to a system of use.         *)
(*                                                                         *)
(* The heap: that areas are apart is not inductive: what a request may be  *)
(* given is any free block, and what it then holds is apart from the rest  *)
(* because of how the blocks lie. Held together by HeapIn: the pointer is  *)
(* within what the kernel gave, the blocks lie in order below it, and what *)
(* is held is backed by blocks that are in use, each by one of its own.    *)
(*                                                                         *)
(* The transfers: each has an invariant that says what is under way. What  *)
(* a device has yet to send leads its driver to what is true (KeyWay and   *)
(* MouseWay); the halves of the ring that lie ahead go on where the sound  *)
(* that was heard ends (Wholly); what was accepted is what was sent and    *)
(* then the ring (LogInd); the position of the loader is where a chunk     *)
(* begins (WavInd); and the second pass has written what the lines up to   *)
(* it have (ObjInd).                                                       *)
(*                                                                         *)
(* The start: a partition that is mounted was formatted before its table   *)
(* was read again (DiskInd); a module in memory lies above the heap that   *)
(* was there before, so that no later one writes to it (DriversInd); and   *)
(* the trace so far is one of the kernel and one of the program, each a    *)
(* walk along the frames of its stack (PanicInd).                          *)
(***************************************************************************)
EXTENDS UserHeap, Transfers, Startup, QueueLemmas, FiniteSetTheorems

-----------------------------------------------------------------------------
(* The heap of a program                                                   *)

(* The library has no lock: a block that one thread found, another may     *)
(* take.                                                                   *)
OneThread == \A t, u \in Threads : t = u

(* What the model's records hold.                                          *)
BlockType == [at : Nat, size : Nat, data : Nat \union {None}, free : BOOLEAN]
AreaType == [data : Nat, size : Nat, by : Threads]
RequestType ==
  [size : Nat, step : {"idle", "find", "take"}, block : Nat, moving : Nat \union {None}]
HeapType == [used : Nat, total : Nat, endAddress : Nat, address : Nat \union {None}]

(* kbrk() areas follow each other: a block's header, then its data, then   *)
(* the blocks after it on the list.                                        *)
Before(b, u) ==
  /\ b.at + Header <= u
  /\ b.data # None => b.at + Header <= b.data /\ b.data + b.size <= u

(* The blocks lie one after the other below u.                             *)
Layout(list, u) ==
  /\ \A i \in DOMAIN list : Before(list[i], u)
  /\ \A i, j \in DOMAIN list : i < j => Before(list[i], list[j].at)

(* A block without data is never free, so worst_fit() never returns it.    *)
FreeHasData(list) == \A i \in DOMAIN list : list[i].free => list[i].data # None

(* Area a is the data of block number i, which is in use.                  *)
BackedBy(list, a, i) == list[i].data = a.data /\ ~list[i].free /\ a.size <= list[i].size

(* Each area that is held is backed by a block.                            *)
Backed(list, H) == \A a \in H : \E i \in DOMAIN list : BackedBy(list, a, i)

(* No block is held twice.                                                 *)
Single(H) == \A a, b \in H : a.data = b.data => a = b

(* What belongs together of the list, what is held and the pointer.        *)
HeapIn(list, H, u) ==
  /\ list \in Seq(BlockType) /\ H \subseteq AreaType /\ u \in Nat
  /\ Layout(list, u) /\ FreeHasData(list) /\ Backed(list, H) /\ Single(H)

(* Between the two steps of a request nothing else comes: the block that   *)
(* was found is there to be taken.                                         *)
RequestOK(t) ==
  LET r == request[t] IN
  /\ r.step = "take" /\ r.block # 0 =>
       /\ r.block \in DOMAIN blocks
       /\ blocks[r.block].free /\ r.size <= blocks[r.block].size
  /\ r.moving # None => \E a \in held : a.data = r.moving

(* The pointer is within what the kernel gave.                             *)
Given == total \in Nat /\ endAddress = total /\ used <= total

(* The inductive invariant.                                                *)
Ind ==
  /\ HeapIn(blocks, held, used)
  /\ Given
  /\ request \in [Threads -> RequestType]
  /\ \A t \in Threads : RequestOK(t)
----------------------------------------------------------------------------
(* Rounding up to pages loses nothing.                                     *)
LEMMA RoundedUpIs ==
  ASSUME NEW n \in Nat
  PROVE  RoundedUp(n) \in Nat /\ n <= RoundedUp(n)
<1>1. PICK m \in Nat : m = n + Page - 1
  BY UserHeapAssumption
<1>2. m \div Page \in Nat /\ (m \div Page) * Page \in Nat /\ m < (m \div Page) * Page + Page
  BY UserHeapAssumption
<1>3. PICK x \in Nat : x = (m \div Page) * Page
  BY <1>2
<1>4. RoundedUp(n) = x
  BY <1>1, <1>3 DEF RoundedUp
<1> QED
  BY <1>1, <1>2, <1>3, <1>4, UserHeapAssumption

(* What is left of the heap after kbrk() is within what the kernel gave.   *)
Within(h) == h \in HeapType /\ h.endAddress = h.total /\ h.used <= h.total

(* kbrk() gives the next bytes, or nothing.                                *)
LEMMA KbrkIs ==
  ASSUME NEW h, Within(h), NEW n \in Nat
  PROVE  /\ Within(Kbrk(h, n))
         /\ \/ Kbrk(h, n).address = None /\ Kbrk(h, n).used = h.used
            \/ Kbrk(h, n).address = h.used /\ Kbrk(h, n).used = h.used + n
<1> DEFINE left == h.total - h.used
           growth == IF left <= n THEN Larger(RoundedUp(n - left), MinGrowth) ELSE 0
           r == [used |-> h.used + n, total |-> h.total + growth,
                 endAddress |-> h.endAddress + growth, address |-> h.used]
           f == [h EXCEPT !.address = None]
<1>1. h.used \in Nat /\ h.total \in Nat /\ h.endAddress = h.total /\ h.used <= h.total
  BY DEF Within, HeapType
<1>2. growth \in Nat /\ n <= left + growth
  <2>1. CASE left <= n
    <3>1. n - left \in Nat
      BY <1>1, <2>1
    <3>2. PICK x \in Nat : x = RoundedUp(n - left) /\ n - left <= x
      BY <3>1, RoundedUpIs
    <3>3. growth = IF x > MinGrowth THEN x ELSE MinGrowth
      BY <2>1, <3>2 DEF Larger
    <3> HIDE DEF growth
    <3> QED
      BY <1>1, <3>2, <3>3, UserHeapAssumption
  <2>2. CASE ~(left <= n)
    BY <1>1, <2>2
  <2> QED
    BY <2>1, <2>2
<1>3. Kbrk(h, n) = IF h.endAddress + growth > MaxSize THEN f ELSE r
  BY DEF Kbrk
<1> HIDE DEF growth
<1>4. r \in HeapType /\ r.endAddress = r.total /\ r.used <= r.total /\ r.address = h.used /\ r.used = h.used + n
  BY <1>1, <1>2 DEF HeapType
<1>5. f \in HeapType /\ f.endAddress = f.total /\ f.used <= f.total /\ f.address = None /\ f.used = h.used
  BY <1>1 DEF HeapType, Within
<1> HIDE DEF r, f
<1> QED
  BY <1>3, <1>4, <1>5 DEF Within

(* The heap of a state is one.                                             *)
LEMMA HeapWithin ==
  ASSUME Ind
  PROVE  Within(Heap) /\ Heap.used = used
BY DEF Ind, Given, HeapIn, Within, Heap, HeapType

(* ... and what kbrk() leaves is again.                                    *)
LEMMA SetHeapGiven ==
  ASSUME NEW h, Within(h), SetHeap(h)
  PROVE  Given' /\ used' = h.used
BY DEF Within, SetHeap, Given, HeapType
----------------------------------------------------------------------------
(* The fields of a block on the list.                                      *)
LEMMA BlockFields ==
  ASSUME NEW list \in Seq(BlockType), NEW i \in DOMAIN list
  PROVE  /\ i \in Nat /\ list[i] \in BlockType /\ list[i].at \in Nat /\ list[i].size \in Nat
         /\ list[i].data \in Nat \union {None} /\ list[i].free \in BOOLEAN
<1>1. list[i] \in BlockType /\ i \in Nat
  OBVIOUS
<1> QED
  BY <1>1 DEF BlockType

(* No two blocks have the same data.                                       *)
LEMMA DataInjective ==
  ASSUME NEW list \in Seq(BlockType), NEW u, Layout(list, u),
         NEW i \in DOMAIN list, NEW j \in DOMAIN list,
         list[i].data = list[j].data, list[i].data # None
  PROVE  i = j
<1>1. ASSUME NEW a \in DOMAIN list, NEW b \in DOMAIN list, a < b,
             list[a].data # None, list[b].data # None
      PROVE  list[a].data # list[b].data
  <2>1. Before(list[a], list[b].at) /\ Before(list[b], u)
    BY <1>1 DEF Layout
  <2>2. /\ list[a].data \in Nat /\ list[a].size \in Nat
        /\ list[b].data \in Nat /\ list[b].at \in Nat
    BY <1>1, BlockFields
  <2> QED
    BY <1>1, <2>1, <2>2, UserHeapAssumption DEF Before
<1>2. i \in Nat /\ j \in Nat
  BY BlockFields
<1>3. ~(i < j) /\ ~(j < i)
  BY <1>1
<1> QED
  BY <1>2, <1>3

(* What lies in a heap like that is apart.                                 *)
LEMMA HeapInMeans ==
  ASSUME NEW list, NEW H, NEW u, HeapIn(list, H, u)
  PROVE  /\ \A a \in H : a.data \in Nat /\ a.size \in Nat /\ a.data + a.size <= u
         /\ \A a, b \in H : a # b => a.data + a.size <= b.data \/ b.data + b.size <= a.data
         /\ \A a \in H : \A i \in DOMAIN list :
              a.data + a.size <= list[i].at \/ list[i].at + Header <= a.data
<1>0. list \in Seq(BlockType) /\ H \subseteq AreaType /\ u \in Nat /\ Layout(list, u) /\ Single(H)
  BY DEF HeapIn
<1>1. \A a \in H : a.data \in Nat /\ a.size \in Nat /\ a.data # None
  BY <1>0 DEF AreaType, None
<1>2. ASSUME NEW a \in H
      PROVE  \E i \in DOMAIN list : BackedBy(list, a, i)
  BY DEF HeapIn, Backed
<1>3. ASSUME NEW a \in H, NEW i \in DOMAIN list, BackedBy(list, a, i)
      PROVE  /\ list[i].at + Header <= a.data /\ a.data + a.size <= a.data + list[i].size
             /\ a.data + list[i].size <= u
             /\ \A j \in DOMAIN list : i < j => a.data + list[i].size <= list[j].at
             /\ \A j \in DOMAIN list : j < i => Before(list[j], list[i].at)
  BY <1>0, <1>1, <1>3, BlockFields DEF BackedBy, Layout, Before
<1>4. \A a \in H : a.data + a.size <= u
  <2> TAKE a \in H
  <2>1. PICK i \in DOMAIN list : BackedBy(list, a, i)
    BY <1>2
  <2> QED
    BY <1>0, <1>1, <1>3, <2>1, BlockFields
<1>5. ASSUME NEW a \in H, NEW j \in DOMAIN list
      PROVE  a.data + a.size <= list[j].at \/ list[j].at + Header <= a.data
  <2>1. PICK i \in DOMAIN list : BackedBy(list, a, i)
    BY <1>2
  <2>2. /\ i \in Nat /\ j \in Nat /\ list[i].at \in Nat /\ list[j].at \in Nat /\ list[i].size \in Nat
        /\ a.data \in Nat /\ a.size \in Nat
    BY <1>0, <1>1, BlockFields
  <2>3. CASE i < j
    BY <1>3, <2>1, <2>2, <2>3
  <2>4. CASE i = j
    BY <1>3, <2>1, <2>4
  <2>5. CASE j < i
    BY <1>3, <2>1, <2>2, <2>5, UserHeapAssumption DEF Before
  <2> QED
    BY <2>2, <2>3, <2>4, <2>5
<1>6. ASSUME NEW a \in H, NEW b \in H, a # b
      PROVE  a.data + a.size <= b.data \/ b.data + b.size <= a.data
  <2>1. PICK i \in DOMAIN list : BackedBy(list, a, i)
    BY <1>2
  <2>2. PICK j \in DOMAIN list : BackedBy(list, b, j)
    BY <1>2
  <2>3. i # j
    BY <1>0, <1>6, <2>1, <2>2 DEF BackedBy, Single
  <2>4. /\ i \in Nat /\ j \in Nat /\ list[i].at \in Nat /\ list[j].at \in Nat
        /\ list[i].size \in Nat /\ list[j].size \in Nat
        /\ a.data \in Nat /\ a.size \in Nat /\ b.data \in Nat /\ b.size \in Nat
    BY <1>0, <1>1, BlockFields
  <2>5. CASE i < j
    BY <1>3, <2>1, <2>2, <2>4, <2>5, UserHeapAssumption
  <2>6. CASE j < i
    BY <1>3, <2>1, <2>2, <2>4, <2>6, UserHeapAssumption
  <2> QED
    BY <2>3, <2>4, <2>5, <2>6
<1> QED
  BY <1>1, <1>4, <1>5, <1>6
----------------------------------------------------------------------------
(* The blocks with that data are marked free.                              *)
Marked(list, data, marked) ==
  marked = [i \in DOMAIN list |->
              IF list[i].data = data THEN [list[i] EXCEPT !.free = TRUE] ELSE list[i]]

(* Marking the blocks moves none of them.                                  *)
LEMMA MarkedIs ==
  ASSUME NEW list \in Seq(BlockType), NEW data, NEW marked, Marked(list, data, marked)
  PROVE  /\ marked \in Seq(BlockType) /\ DOMAIN marked = DOMAIN list
         /\ \A i \in DOMAIN list :
              /\ marked[i].at = list[i].at /\ marked[i].size = list[i].size
              /\ marked[i].data = list[i].data
              /\ marked[i].free <=> list[i].free \/ list[i].data = data
<1> DEFINE freed(i) == [list[i] EXCEPT !.free = TRUE]
<1>1. PICK n \in Nat : n = Len(list) /\ DOMAIN list = 1..n
  OBVIOUS
<1>2. \A i \in 1..n : list[i] \in BlockType
  BY <1>1
<1>3. \A i \in 1..n : /\ freed(i) \in BlockType /\ freed(i).at = list[i].at /\ freed(i).size = list[i].size
                      /\ freed(i).data = list[i].data /\ freed(i).free = TRUE
  BY <1>2 DEF BlockType
<1> HIDE DEF freed
<1>4. marked = [i \in 1..n |-> IF list[i].data = data THEN freed(i) ELSE list[i]]
  BY <1>1 DEF Marked, freed
<1>5. \A i \in 1..n : marked[i] = IF list[i].data = data THEN freed(i) ELSE list[i]
  BY <1>4
<1>6. marked \in [1..n -> BlockType]
  BY <1>2, <1>3, <1>4
<1>7. marked \in Seq(BlockType) /\ DOMAIN marked = 1..n
  BY <1>6
<1>8. ASSUME NEW i \in 1..n
      PROVE  /\ marked[i].at = list[i].at /\ marked[i].size = list[i].size
             /\ marked[i].data = list[i].data
             /\ marked[i].free <=> list[i].free \/ list[i].data = data
  <2>1. CASE list[i].data = data
    BY <1>3, <1>5, <2>1
  <2>2. CASE list[i].data # data
    BY <1>5, <2>2
  <2> QED
    BY <2>1, <2>2
<1> QED
  BY <1>1, <1>7, <1>8

(* Areas that are given up leave a heap in order.                          *)
LEMMA FreedKeeps ==
  ASSUME NEW list, NEW H, NEW u, HeapIn(list, H, u), NEW data \in Nat,
         NEW marked, Marked(list, data, marked)
  PROVE  HeapIn(marked, {a \in H : a.data # data}, u)
<1>1. list \in Seq(BlockType) /\ Layout(list, u) /\ FreeHasData(list) /\ Backed(list, H)
  BY DEF HeapIn
<1>2. /\ marked \in Seq(BlockType) /\ DOMAIN marked = DOMAIN list
      /\ \A i \in DOMAIN list :
           /\ marked[i].at = list[i].at /\ marked[i].size = list[i].size
           /\ marked[i].data = list[i].data
           /\ marked[i].free <=> list[i].free \/ list[i].data = data
  BY <1>1, MarkedIs
<1>3. Layout(marked, u)
  BY <1>1, <1>2 DEF Layout, Before
<1>4. FreeHasData(marked)
  <2>1. data # None
    BY DEF None
  <2> QED
    BY <1>1, <1>2, <2>1 DEF FreeHasData
<1>5. Backed(marked, {a \in H : a.data # data})
  <2> SUFFICES ASSUME NEW a \in H, a.data # data
               PROVE  \E i \in DOMAIN marked : BackedBy(marked, a, i)
    BY DEF Backed
  <2>1. PICK i \in DOMAIN list : BackedBy(list, a, i)
    BY <1>1 DEF Backed
  <2> QED
    BY <1>2, <2>1 DEF BackedBy
<1> QED
  BY <1>2, <1>3, <1>4, <1>5 DEF HeapIn, Single

(* Area a is given by a block that nobody holds.                           *)
Gives(list, H, a) ==
  /\ a \in AreaType
  /\ \E i \in DOMAIN list : BackedBy(list, a, i)
  /\ \A b \in H : b.data # a.data

(* ... and leaves the heap in order when the program holds it.             *)
LEMMA GivenKeeps ==
  ASSUME NEW list, NEW H, NEW u, HeapIn(list, H, u), NEW a, Gives(list, H, a)
  PROVE  HeapIn(list, H \union {a}, u)
<1>1. Backed(list, H \union {a})
  BY DEF HeapIn, Gives, Backed
<1>2. Single(H \union {a})
  BY DEF HeapIn, Gives, Single
<1> QED
  BY <1>1, <1>2 DEF HeapIn, Gives

(* With the answer the request is over, and the area that moved given up.  *)
LEMMA AnswerKeeps ==
  ASSUME NEW t \in Threads, OneThread, request \in [Threads -> RequestType], RequestOK(t),
         NEW data, NEW list, NEW u, HeapIn(list, held, u), Answer(t, data, list),
         data # None => Gives(list, held, [data |-> data, size |-> request[t].size, by |-> t])
  PROVE  /\ HeapIn(blocks', held', u)
         /\ request' \in [Threads -> RequestType] /\ \A v \in Threads : RequestOK(v)'
<1> DEFINE a == [data |-> data, size |-> request[t].size, by |-> t]
           old == request[t].moving
<1>1. /\ blocks' = [i \in DOMAIN list |->
                      IF data # None /\ old # None /\ list[i].data = old
                        THEN [list[i] EXCEPT !.free = TRUE] ELSE list[i]]
      /\ held' = IF data # None THEN {b \in held : b.data # old} \union {a} ELSE held
      /\ request' = [request EXCEPT ![t] = Idle]
  BY DEF Answer
<1>2. list \in Seq(BlockType) /\ held \subseteq AreaType /\ old \in Nat \union {None}
  BY DEF HeapIn, RequestType
<1>3. \A v \in Threads : v = t
  BY DEF OneThread
<1>4. request' \in [Threads -> RequestType] /\ request'[t] = Idle
  BY <1>1 DEF RequestType, Idle
<1>5. \A v \in Threads : RequestOK(v)'
  BY <1>3, <1>4 DEF RequestOK, Idle
<1>6. (data # None /\ old # None) \/ blocks' = list
  <2>1. list = [i \in DOMAIN list |-> list[i]]
    BY <1>2
  <2> QED
    BY <1>1, <2>1
<1>7. data = None => HeapIn(blocks', held', u)
  BY <1>1, <1>6
<1>8. ASSUME data # None, old = None
      PROVE  HeapIn(blocks', held', u)
  <2>1. \A b \in held : b.data # None
    BY <1>2 DEF AreaType, None
  <2>2. held' = held \union {a}
    BY <1>1, <1>8, <2>1
  <2> QED
    BY <1>6, <1>8, <2>2, GivenKeeps
<1>9. ASSUME data # None, old # None
      PROVE  HeapIn(blocks', held', u)
  <2> DEFINE H == {b \in held : b.data # old}
  <2>1. old \in Nat /\ Marked(list, old, blocks')
    BY <1>1, <1>2, <1>9 DEF Marked
  <2>2. HeapIn(blocks', H, u)
    BY <2>1, FreedKeeps
  <2>3. Gives(list, held, a) /\ \E b \in held : b.data = old
    BY <1>9 DEF RequestOK
  <2>4. data # old
    BY <2>3 DEF Gives
  <2>5. \E i \in DOMAIN blocks' : BackedBy(blocks', a, i)
    <3>1. PICK i \in DOMAIN list : BackedBy(list, a, i)
      BY <2>3 DEF Gives
    <3>2. /\ DOMAIN blocks' = DOMAIN list
          /\ blocks'[i].data = list[i].data /\ blocks'[i].size = list[i].size
          /\ blocks'[i].free <=> list[i].free \/ list[i].data = old
      BY <1>2, <2>1, MarkedIs
    <3> QED
      BY <2>4, <3>1, <3>2 DEF BackedBy
  <2>6. Gives(blocks', H, a)
    BY <2>3, <2>5 DEF Gives
  <2>7. held' = H \union {a}
    BY <1>1, <1>9
  <2> HIDE DEF H, a
  <2> QED
    BY <2>2, <2>6, <2>7, GivenKeeps
<1> QED
  BY <1>4, <1>5, <1>7, <1>8, <1>9
----------------------------------------------------------------------------
(* A request that is only asked for changes nothing else.                  *)
LEMMA KmallocKeeps ==
  ASSUME Ind, OneThread, NEW t \in Threads, NEW n \in Sizes, Kmalloc(t, n)
  PROVE  Ind'
<1>1. request' = [request EXCEPT ![t] = [size |-> n, step |-> "find", block |-> 0, moving |-> None]]
  BY DEF Kmalloc
<1>2. n \in Nat /\ request \in [Threads -> RequestType]
  BY UserHeapAssumption DEF Ind
<1>3. /\ request' \in [Threads -> RequestType]
      /\ request'[t] = [size |-> n, step |-> "find", block |-> 0, moving |-> None]
  BY <1>1, <1>2 DEF RequestType
<1>4. \A v \in Threads : RequestOK(v)'
  BY <1>3 DEF OneThread, RequestOK
<1> QED
  BY <1>3, <1>4 DEF Ind, Given, Kmalloc

(* ... nor does one that is to move an area that is held.                  *)
LEMMA KreallocKeeps ==
  ASSUME Ind, OneThread, NEW t \in Threads, NEW n \in Sizes, NEW a \in held, Krealloc(t, a, n)
  PROVE  Ind'
<1>1. request' = [request EXCEPT ![t] = [size |-> n, step |-> "find", block |-> 0, moving |-> a.data]]
  BY DEF Krealloc
<1>2. n \in Nat /\ request \in [Threads -> RequestType] /\ a \in AreaType /\ held' = held
  BY UserHeapAssumption DEF Ind, HeapIn, Krealloc
<1>3. a.data \in Nat
  BY <1>2 DEF AreaType
<1>4. /\ request' \in [Threads -> RequestType]
      /\ request'[t] = [size |-> n, step |-> "find", block |-> 0, moving |-> a.data]
  BY <1>1, <1>2, <1>3 DEF RequestType
<1>5. \A v \in Threads : RequestOK(v)'
  BY <1>2, <1>4 DEF OneThread, RequestOK
<1> QED
  BY <1>4, <1>5 DEF Ind, Given, Krealloc

(* The first of a set of indices is one of them.                           *)
LEMMA FirstOfIs ==
  ASSUME NEW s \in SUBSET Nat, FirstOf(s) # 0
  PROVE  FirstOf(s) \in s
<1>1. s # {} /\ FirstOf(s) = CHOOSE i \in s : \A j \in s : i <= j
  BY DEF FirstOf
<1>2. \E i \in s : \A j \in s : i <= j
  BY <1>1, MinOfNats
<1> QED
  BY <1>1, <1>2

(* worst_fit() returns a free block that is large enough, or none.         *)
LEMMA FindKeeps ==
  ASSUME Ind, OneThread, NEW t \in Threads, Find(t)
  PROVE  Ind'
<1> DEFINE n == request[t].size
           b == FirstOf(Fitting(n))
<1>1. /\ blocks' = blocks /\ held' = held /\ used' = used /\ Given'
      /\ request' = [request EXCEPT ![t].step = "take", ![t].block = b]
  BY DEF Find, Ind, Given
<1>2. blocks \in Seq(BlockType) /\ request \in [Threads -> RequestType] /\ RequestOK(t)
  BY DEF Ind, HeapIn
<1>3. Fitting(n) \in SUBSET Nat
  BY <1>2 DEF Fitting
<1>4. b = 0 \/ (b \in DOMAIN blocks /\ blocks[b].free /\ n <= blocks[b].size)
  <2> SUFFICES ASSUME b # 0 PROVE b \in DOMAIN blocks /\ blocks[b].free /\ n <= blocks[b].size
    OBVIOUS
  <2>1. b \in Fitting(n)
    BY <1>3, FirstOfIs
  <2>2. b \in DOMAIN blocks /\ blocks[b].free /\ blocks[b].size >= n
    BY <2>1 DEF Fitting
  <2>3. blocks[b].size \in Nat /\ n \in Nat
    BY <1>2, <2>2, BlockFields DEF RequestType
  <2> QED
    BY <2>2, <2>3
<1>5. b \in Nat
  BY <1>2, <1>4
<1> HIDE DEF b
<1>6. /\ request' \in [Threads -> RequestType]
      /\ request'[t].size = n /\ request'[t].block = b /\ request'[t].moving = request[t].moving
  BY <1>1, <1>2, <1>5 DEF RequestType
<1>7. RequestOK(t)'
  BY <1>1, <1>2, <1>4, <1>6 DEF RequestOK
<1>8. \A v \in Threads : RequestOK(v)'
  BY <1>7 DEF OneThread
<1> QED
  BY <1>1, <1>6, <1>8 DEF Ind

(* The block that was found is given; nobody holds it, as it is free.      *)
LEMMA TakeBlockKeeps ==
  ASSUME Ind, OneThread, NEW t \in Threads, TakeBlock(t)
  PROVE  Ind'
<1> DEFINE k == request[t].block
           list == [blocks EXCEPT ![k].free = FALSE]
           a == [data |-> blocks[k].data, size |-> request[t].size, by |-> t]
<1>1. /\ HeapIn(blocks, held, used) /\ request \in [Threads -> RequestType] /\ RequestOK(t)
      /\ request[t].step = "take" /\ k > 0 /\ Answer(t, blocks[k].data, list)
      /\ used' = used /\ total' = total /\ endAddress' = endAddress
  BY DEF Ind, TakeBlock
<1>2. /\ blocks \in Seq(BlockType) /\ held \subseteq AreaType /\ used \in Nat
      /\ Layout(blocks, used) /\ FreeHasData(blocks) /\ Backed(blocks, held) /\ Single(held)
  BY <1>1 DEF HeapIn
<1>3. k \in Nat /\ request[t].size \in Nat
  BY <1>1 DEF RequestType
<1>4. k \in DOMAIN blocks /\ blocks[k].free /\ request[t].size <= blocks[k].size
  BY <1>1, <1>3 DEF RequestOK
<1>5. blocks[k].data \in Nat /\ blocks[k].data # None /\ blocks[k] \in BlockType
  BY <1>2, <1>4, BlockFields DEF FreeHasData
<1>6. PICK b \in BlockType : b = [blocks[k] EXCEPT !.free = FALSE]
  BY <1>5 DEF BlockType
<1>7. b.at = blocks[k].at /\ b.size = blocks[k].size /\ b.data = blocks[k].data /\ b.free = FALSE
  BY <1>5, <1>6 DEF BlockType
<1>8. /\ list \in Seq(BlockType) /\ DOMAIN list = DOMAIN blocks
      /\ list[k] = b /\ \A i \in DOMAIN blocks : i # k => list[i] = blocks[i]
  <2>1. list = [blocks EXCEPT ![k] = b]
    BY <1>6
  <2> HIDE DEF list
  <2> QED
    BY <1>2, <1>4, <2>1
<1> HIDE DEF list, k
<1>9. \A h \in held : \E i \in DOMAIN blocks : BackedBy(blocks, h, i) /\ i # k
  BY <1>2, <1>4 DEF Backed, BackedBy
<1>10. Backed(list, held)
  BY <1>8, <1>9 DEF Backed, BackedBy
<1>11. \A i \in DOMAIN blocks : list[i].at = blocks[i].at /\ list[i].size = blocks[i].size
                              /\ list[i].data = blocks[i].data
  BY <1>7, <1>8
<1>12. Layout(list, used)
  BY <1>2, <1>8, <1>11 DEF Layout, Before
<1>13. FreeHasData(list)
  BY <1>2, <1>7, <1>8 DEF FreeHasData
<1>14. HeapIn(list, held, used)
  BY <1>2, <1>8, <1>10, <1>12, <1>13 DEF HeapIn
<1>15. Gives(list, held, a)
  <2>1. a \in AreaType /\ a.data = blocks[k].data /\ a.size = request[t].size
    BY <1>3, <1>5 DEF AreaType
  <2>2. BackedBy(list, a, k)
    BY <1>4, <1>7, <1>8, <2>1 DEF BackedBy
  <2>3. \A h \in held : h.data # a.data
    <3> SUFFICES ASSUME NEW h \in held, h.data = a.data PROVE FALSE
      OBVIOUS
    <3>1. PICK i \in DOMAIN blocks : BackedBy(blocks, h, i) /\ i # k
      BY <1>9
    <3>2. blocks[i].data = blocks[k].data
      BY <2>1, <3>1 DEF BackedBy
    <3> QED
      BY <1>2, <1>4, <1>5, <3>1, <3>2, DataInjective
  <2> QED
    BY <1>4, <1>8, <2>1, <2>2, <2>3 DEF Gives
<1>16. /\ HeapIn(blocks', held', used)
       /\ request' \in [Threads -> RequestType] /\ \A v \in Threads : RequestOK(v)'
  BY <1>1, <1>14, <1>15, AnswerKeeps
<1> QED
  BY <1>1, <1>16 DEF Ind, Given

----------------------------------------------------------------------------
(* What ends before u ends before all that follows.                        *)
LEMMA BeforeUp ==
  ASSUME NEW b \in BlockType, NEW u \in Nat, NEW v \in Nat, Before(b, u), u <= v
  PROVE  Before(b, v)
<1>1. b.at \in Nat /\ b.size \in Nat /\ b.data \in Nat \union {None}
  BY DEF BlockType
<1>2. b.at + Header <= v
  BY <1>1, UserHeapAssumption DEF Before
<1>3. b.data # None => b.at + Header <= b.data /\ b.data + b.size <= v
  BY <1>1 DEF Before
<1> QED
  BY <1>2, <1>3 DEF Before

(* A block above all others goes to the end of the list.                   *)
LEMMA AppendKeeps ==
  ASSUME NEW list, NEW H, NEW u, HeapIn(list, H, u),
         NEW b \in BlockType, ~b.free, u <= b.at, NEW v \in Nat, Before(b, v)
  PROVE  HeapIn(Append(list, b), H, v)
<1> DEFINE longer == Append(list, b)
<1>1. /\ list \in Seq(BlockType) /\ H \subseteq AreaType /\ u \in Nat
      /\ Layout(list, u) /\ FreeHasData(list) /\ Backed(list, H) /\ Single(H)
  BY DEF HeapIn
<1>2. PICK n \in Nat : n = Len(list) /\ DOMAIN list = 1..n
  BY <1>1
<1>3. /\ longer \in Seq(BlockType) /\ DOMAIN longer = 1..(n + 1)
      /\ longer[n + 1] = b /\ \A i \in 1..n : longer[i] = list[i]
  BY <1>1, <1>2
<1> HIDE DEF longer
<1>4. b.at \in Nat /\ b.at <= v
  BY UserHeapAssumption DEF BlockType, Before
<1>5. ASSUME NEW i \in 1..n
      PROVE  Before(list[i], b.at) /\ Before(list[i], v)
  <2>1. list[i] \in BlockType /\ Before(list[i], u)
    BY <1>1, <1>2 DEF Layout
  <2>2. u <= v
    BY <1>1, <1>4
  <2> QED
    BY <1>1, <1>4, <2>1, <2>2, BeforeUp
<1>6. Layout(longer, v)
  <2>1. \A i \in DOMAIN longer : Before(longer[i], v)
    BY <1>2, <1>3, <1>5
  <2>2. ASSUME NEW i \in DOMAIN longer, NEW j \in DOMAIN longer, i < j
        PROVE  Before(longer[i], longer[j].at)
    <3>1. i \in 1..n /\ longer[i] = list[i]
      BY <1>2, <1>3, <2>2
    <3>2. CASE j = n + 1
      BY <1>3, <1>5, <3>1, <3>2
    <3>3. CASE j # n + 1
      <4>1. j \in 1..n /\ longer[j] = list[j]
        BY <1>2, <1>3, <3>3
      <4> QED
        BY <1>1, <1>2, <2>2, <3>1, <4>1 DEF Layout
    <3> QED
      BY <3>2, <3>3
  <2> QED
    BY <2>1, <2>2 DEF Layout
<1>7. FreeHasData(longer)
  BY <1>1, <1>2, <1>3 DEF FreeHasData
<1>8. Backed(longer, H)
  BY <1>1, <1>2, <1>3 DEF Backed, BackedBy
<1> QED
  BY <1>1, <1>3, <1>6, <1>7, <1>8 DEF HeapIn, longer

(* An area above the end of the heap is held by nobody.                    *)
LEMMA AppendGives ==
  ASSUME NEW list, NEW H, NEW u, HeapIn(list, H, u),
         NEW b \in BlockType, ~b.free, NEW a \in AreaType,
         a.data = b.data, a.size = b.size, u < b.data
  PROVE  Gives(Append(list, b), H, a)
<1>1. list \in Seq(BlockType) /\ u \in Nat
  BY DEF HeapIn
<1>2. PICK n \in Nat : n = Len(list)
  BY <1>1
<1>3. /\ n + 1 \in DOMAIN Append(list, b) /\ Append(list, b)[n + 1] = b
  BY <1>1, <1>2
<1>4. a.data \in Nat /\ a.size \in Nat
  BY DEF AreaType
<1>5. BackedBy(Append(list, b), a, n + 1)
  BY <1>3, <1>4 DEF BackedBy
<1>6. \A c \in H : c.data \in Nat /\ c.size \in Nat /\ c.data + c.size <= u
  BY HeapInMeans
<1>7. \A c \in H : c.data # a.data
  BY <1>1, <1>4, <1>6
<1> QED
  BY <1>3, <1>5, <1>7 DEF Gives

(* A refused request leaves the heap in order, which may have grown.       *)
LEMMA RefusedKeeps ==
  ASSUME Ind, OneThread, NEW t \in Threads, NEW list, NEW u, HeapIn(list, held, u),
         NEW h, Within(h), h.used = u, Answer(t, None, list), SetHeap(h)
  PROVE  Ind'
<1>1. request \in [Threads -> RequestType] /\ RequestOK(t)
  BY DEF Ind
<1>2. Given' /\ used' = u
  BY SetHeapGiven
<1>3. /\ HeapIn(blocks', held', u)
      /\ request' \in [Threads -> RequestType] /\ \A v \in Threads : RequestOK(v)'
  BY <1>1, AnswerKeeps
<1> QED
  BY <1>2, <1>3 DEF Ind

(* A block that is made above the end of the heap and linked; data is None *)
(* when kbrk() refused the area.                                           *)
LEMMA MadeKeeps ==
  ASSUME Ind, OneThread, NEW t \in Threads,
         NEW at \in Nat, used <= at, NEW h, Within(h), at + Header <= h.used,
         NEW data \in Nat \union {None},
         data # None => at + Header <= data /\ data + request[t].size <= h.used,
         Answer(t, data, Append(blocks, Block(at, request[t].size, data))), SetHeap(h)
  PROVE  Ind'
<1> DEFINE size == request[t].size
           list == Append(blocks, Block(at, size, data))
           a == [data |-> data, size |-> size, by |-> t]
<1>1. request \in [Threads -> RequestType] /\ RequestOK(t) /\ HeapIn(blocks, held, used) /\ used \in Nat
  BY DEF Ind, HeapIn
<1>2. size \in Nat /\ h.used \in Nat
  BY <1>1 DEF RequestType, Within, HeapType
<1>3. PICK b \in BlockType :
        b = Block(at, size, data) /\ b.at = at /\ b.size = size /\ b.data = data /\ b.free = FALSE
  <2>1. PICK n \in Nat : n = size
    BY <1>2
  <2>2. PICK b : b = Block(at, n, data)
    OBVIOUS
  <2>3. b \in BlockType /\ b.at = at /\ b.size = n /\ b.data = data /\ b.free = FALSE
    BY <2>2 DEF Block, BlockType
  <2> QED
    BY <2>1, <2>2, <2>3
<1>4. Before(b, h.used)
  BY <1>3 DEF Before
<1>5. HeapIn(Append(blocks, b), held, h.used)
  BY <1>1, <1>2, <1>3, <1>4, AppendKeeps
<1>6. Given' /\ used' = h.used
  BY SetHeapGiven
<1>7. ASSUME data # None
      PROVE  Gives(Append(blocks, b), held, a)
  <2>1. a \in AreaType /\ a.data = b.data /\ a.size = b.size
    BY <1>2, <1>3, <1>7 DEF AreaType
  <2>2. used < b.data
    BY <1>1, <1>3, <1>7, UserHeapAssumption
  <2> HIDE DEF a
  <2> QED
    BY <1>1, <1>3, <2>1, <2>2, AppendGives
<1>8. /\ HeapIn(blocks', held', h.used)
      /\ request' \in [Threads -> RequestType] /\ \A v \in Threads : RequestOK(v)'
  BY <1>1, <1>3, <1>5, <1>7, AnswerKeeps
<1> QED
  BY <1>6, <1>8 DEF Ind

(* The first block: its header, and then its area.                         *)
LEMMA FirstBlockKeeps ==
  ASSUME Ind, OneThread, NEW t \in Threads, FirstBlock(t)
  PROVE  Ind'
<1> DEFINE size == request[t].size
           header == Kbrk(Heap, Header)
           area == Kbrk(header, size)
<1>1. /\ blocks = <<>>
      /\ \/ header.address = None /\ Answer(t, None, blocks) /\ SetHeap(header)
         \/ /\ header.address # None
            /\ Answer(t, area.address, <<Block(header.address, size, area.address)>>)
            /\ SetHeap(area)
  BY DEF FirstBlock
<1>2. HeapIn(blocks, held, used) /\ used \in Nat /\ size \in Nat /\ Header \in Nat
  BY UserHeapAssumption DEF Ind, HeapIn, RequestType
<1>3. Within(Heap) /\ Heap.used = used
  BY HeapWithin
<1>4. PICK g : g = header
  OBVIOUS
<1>5. /\ Within(g)
      /\ \/ g.address = None /\ g.used = used
         \/ g.address = used /\ g.used = used + Header
  BY <1>2, <1>3, <1>4, KbrkIs
<1>6. PICK h : h = Kbrk(g, size)
  OBVIOUS
<1>7. /\ Within(h)
      /\ \/ h.address = None /\ h.used = g.used
         \/ h.address = g.used /\ h.used = g.used + size
  BY <1>2, <1>5, <1>6, KbrkIs
<1>8. /\ \/ g.address = None /\ Answer(t, None, blocks) /\ SetHeap(g)
         \/ /\ g.address # None
            /\ Answer(t, h.address, <<Block(g.address, size, h.address)>>)
            /\ SetHeap(h)
  BY <1>1, <1>4, <1>6
<1>9. CASE g.address = None
  <2>1. g.used = used
    BY <1>2, <1>5, <1>9 DEF None
  <2> QED
    BY <1>2, <1>5, <1>8, <1>9, <2>1, RefusedKeeps
<1>10. CASE g.address # None
  <2>1. g.address = used /\ g.used = used + Header
    BY <1>5, <1>10
  <2>2. /\ h.address \in Nat \union {None} /\ used + Header <= h.used
        /\ h.address # None => used + Header <= h.address /\ h.address + size <= h.used
    BY <1>2, <1>7, <2>1
  <2>3. <<Block(used, size, h.address)>> = Append(blocks, Block(used, size, h.address))
    BY <1>1
  <2>4. Answer(t, h.address, Append(blocks, Block(used, size, h.address))) /\ SetHeap(h)
    BY <1>8, <1>10, <2>1, <2>3
  <2>5. used <= used
    BY <1>2
  <2> QED
    BY <1>2, <1>7, <2>2, <2>4, <2>5, MadeKeeps
<1> QED
  BY <1>9, <1>10

(* A later one has an area that is never used, between the two.            *)
LEMMA NewBlockKeeps ==
  ASSUME Ind, OneThread, NEW t \in Threads, NewBlock(t)
  PROVE  Ind'
<1> DEFINE size == request[t].size
<1>1. HeapIn(blocks, held, used) /\ used \in Nat /\ size \in Nat /\ Header \in Nat
  BY UserHeapAssumption DEF Ind, HeapIn, RequestType
<1>2. Within(Heap) /\ Heap.used = used
  BY HeapWithin
<1>3. PICK g : g = Kbrk(Heap, Header)
  OBVIOUS
<1>4. /\ Within(g)
      /\ \/ g.address = None /\ g.used = used
         \/ g.address = used /\ g.used = used + Header
  BY <1>1, <1>2, <1>3, KbrkIs
<1>5. PICK f : f = Kbrk(g, size)
  OBVIOUS
<1>6. /\ Within(f)
      /\ \/ f.address = None /\ f.used = g.used
         \/ f.address = g.used /\ f.used = g.used + size
  BY <1>1, <1>4, <1>5, KbrkIs
<1>7. PICK h : h = Kbrk(f, size)
  OBVIOUS
<1>8. /\ Within(h)
      /\ \/ h.address = None /\ h.used = f.used
         \/ h.address = f.used /\ h.used = f.used + size
  BY <1>1, <1>6, <1>7, KbrkIs
<1>9. \/ g.address = None /\ Answer(t, None, blocks) /\ SetHeap(g)
      \/ g.address # None /\ f.address = None /\ Answer(t, None, blocks) /\ SetHeap(f)
      \/ /\ g.address # None /\ f.address # None
         /\ Answer(t, h.address, Append(blocks, Block(g.address, size, h.address)))
         /\ SetHeap(h)
  BY <1>3, <1>5, <1>7 DEF NewBlock
<1>10. CASE g.address = None
  <2>1. g.used = used
    BY <1>1, <1>4, <1>10 DEF None
  <2> QED
    BY <1>1, <1>4, <1>9, <1>10, <2>1, RefusedKeeps
<1>11. CASE g.address # None /\ f.address = None
  <2>1. g.used = used + Header
    BY <1>4, <1>11
  <2>2. f.used = used + Header
    BY <1>1, <1>6, <1>11, <2>1 DEF None
  <2>3. HeapIn(blocks, held, f.used)
    <3>1. f.used \in Nat /\ used <= f.used
      BY <1>1, <2>2
    <3>2. /\ blocks \in Seq(BlockType) /\ Layout(blocks, used)
      BY <1>1 DEF HeapIn
    <3>3. \A i \in DOMAIN blocks : Before(blocks[i], f.used)
      BY <1>1, <3>1, <3>2, BlockFields, BeforeUp DEF Layout
    <3> QED
      BY <1>1, <3>1, <3>3 DEF HeapIn, Layout
  <2> QED
    BY <1>6, <1>9, <1>11, <2>3, RefusedKeeps
<1>12. CASE g.address # None /\ f.address # None
  <2>1. g.address = used /\ g.used = used + Header
    BY <1>4, <1>12
  <2>2. f.used = used + Header + size
    BY <1>6, <1>12, <2>1
  <2>3. /\ h.address \in Nat \union {None} /\ used + Header <= h.used
        /\ h.address # None => used + Header <= h.address /\ h.address + size <= h.used
    BY <1>1, <1>8, <2>2
  <2>4. Answer(t, h.address, Append(blocks, Block(used, size, h.address))) /\ SetHeap(h)
    BY <1>9, <1>12, <2>1
  <2>5. used <= used
    BY <1>1
  <2> QED
    BY <1>1, <1>8, <2>3, <2>4, <2>5, MadeKeeps
<1> QED
  BY <1>10, <1>11, <1>12

(* The block of an area that is freed is the one it was given from.        *)
LEMMA KfreeKeeps ==
  ASSUME Ind, OneThread, NEW t \in Threads, NEW a \in held, Kfree(t, a)
  PROVE  Ind'
<1>1. /\ held' = held \ {a}
      /\ blocks' = [i \in DOMAIN blocks |->
                      IF blocks[i].data = a.data THEN [blocks[i] EXCEPT !.free = TRUE] ELSE blocks[i]]
      /\ used' = used /\ total' = total /\ endAddress' = endAddress /\ request' = request
      /\ request[t] = Idle /\ \A u \in Threads : request[u].moving # a.data
  BY DEF Kfree
<1>2. HeapIn(blocks, held, used) /\ Single(held) /\ a \in AreaType
  BY DEF Ind, HeapIn
<1>3. a.data \in Nat
  BY <1>2 DEF AreaType
<1>4. {b \in held : b.data # a.data} = held \ {a}
  BY <1>2 DEF Single
<1>5. Marked(blocks, a.data, blocks')
  BY <1>1 DEF Marked
<1>6. HeapIn(blocks', {b \in held : b.data # a.data}, used)
  BY <1>2, <1>3, <1>5, FreedKeeps
<1>7. ASSUME NEW v \in Threads PROVE RequestOK(v)'
  <2>1. request'[v] = Idle
    BY <1>1 DEF OneThread
  <2> QED
    BY <2>1 DEF RequestOK, Idle
<1> QED
  BY <1>1, <1>4, <1>6, <1>7 DEF Ind, Given
----------------------------------------------------------------------------
(* heap_init() starts with an empty list.                                  *)
LEMMA InitInd == Init => Ind
<1> SUFFICES ASSUME Init PROVE Ind
  OBVIOUS
<1>1. blocks = <<>> /\ used = 0 /\ total = InitialSize /\ endAddress = InitialSize /\ held = {}
  BY DEF Init
<1>2. HeapIn(blocks, held, used)
  BY <1>1 DEF HeapIn, Layout, FreeHasData, Backed, Single
<1>3. Given
  BY <1>1, UserHeapAssumption DEF Given
<1>4. request = [t \in Threads |-> Idle] /\ Idle \in RequestType
  BY DEF Init, Idle, RequestType
<1>5. \A t \in Threads : RequestOK(t)
  BY <1>4 DEF RequestOK, Idle
<1> QED
  BY <1>2, <1>3, <1>4, <1>5 DEF Ind

(* Every step of a request keeps the heap in order.                        *)
LEMMA NextInd == OneThread /\ Ind /\ [Next]_vars => Ind'
<1> SUFFICES ASSUME OneThread, Ind, [Next]_vars PROVE Ind'
  OBVIOUS
<1>1. ASSUME NEW t \in Threads, NEW n \in Sizes, Kmalloc(t, n) PROVE Ind'
  BY <1>1, KmallocKeeps
<1>2. ASSUME NEW t \in Threads, NEW n \in Sizes, NEW a \in held, Krealloc(t, a, n) PROVE Ind'
  BY <1>2, KreallocKeeps
<1>3. ASSUME NEW t \in Threads, Find(t) PROVE Ind'
  BY <1>3, FindKeeps
<1>4. ASSUME NEW t \in Threads, TakeBlock(t) PROVE Ind'
  BY <1>4, TakeBlockKeeps
<1>5. ASSUME NEW t \in Threads, FirstBlock(t) PROVE Ind'
  BY <1>5, FirstBlockKeeps
<1>6. ASSUME NEW t \in Threads, NewBlock(t) PROVE Ind'
  BY <1>6, NewBlockKeeps
<1>7. ASSUME NEW t \in Threads, NEW a \in held, Kfree(t, a) PROVE Ind'
  BY <1>7, KfreeKeeps
<1>8. CASE UNCHANGED vars
  BY <1>8 DEF vars, Ind, Given, RequestOK
<1> QED
  BY <1>1, <1>2, <1>3, <1>4, <1>5, <1>6, <1>7, <1>8 DEF Next

(* A heap in order keeps what is held apart.                               *)
LEMMA IndApart == Ind => HeldApart
<1> SUFFICES ASSUME Ind PROVE HeldApart
  OBVIOUS
<1> DEFINE area(a) == a.data..(a.data + a.size - 1)
<1>1. /\ HeapIn(blocks, held, used) /\ blocks \in Seq(BlockType) /\ used \in Nat
      /\ total \in Nat /\ total = endAddress /\ used <= total
  BY DEF Ind, HeapIn, Given
<1>2. /\ \A a \in held : a.data \in Nat /\ a.size \in Nat /\ a.data + a.size <= used
      /\ \A a, b \in held : a # b => a.data + a.size <= b.data \/ b.data + b.size <= a.data
      /\ \A a \in held : \A i \in DOMAIN blocks :
           a.data + a.size <= blocks[i].at \/ blocks[i].at + Header <= a.data
  BY <1>1, HeapInMeans
<1>3. \A a \in held : area(a) \subseteq 0..(endAddress - 1)
  BY <1>1, <1>2
<1>4. \A a, b \in held : a # b => area(a) \cap area(b) = {}
  BY <1>2
<1>5. ASSUME NEW a \in held, NEW i \in DOMAIN blocks
      PROVE  area(a) \cap (blocks[i].at..(blocks[i].at + Header - 1)) = {}
  <2>1. /\ blocks[i].at \in Nat /\ Header \in Nat /\ a.data \in Nat /\ a.size \in Nat
        /\ a.data + a.size <= blocks[i].at \/ blocks[i].at + Header <= a.data
    BY <1>1, <1>2, BlockFields, UserHeapAssumption
  <2> QED
    BY <2>1
<1>6. \A a \in held : \E i \in DOMAIN blocks : blocks[i].data = a.data /\ ~blocks[i].free
  BY <1>1 DEF HeapIn, Backed, BackedBy
<1> QED
  BY <1>1, <1>3, <1>4, <1>5, <1>6 DEF HeldApart

(* The areas that a program holds are apart from each other and from the   *)
(* headers, in pages that the kernel gave, after every sequence of         *)
(* requests, moves and refusals, when one thread makes them all.           *)
THEOREM HeldAlwaysApart == ASSUME OneThread PROVE Spec => []HeldApart
<1>1. Init => Ind
  BY InitInd
<1>2. Ind /\ [Next]_vars => Ind'
  BY NextInd
<1>3. Ind => HeldApart
  BY IndApart
<1> QED
  BY <1>1, <1>2, <1>3, PTL DEF Spec

-----------------------------------------------------------------------------
(* The mixer and AC97                                                      *)

(* The ring has an even number of entries, as its two halves take turns,   *)
(* and each end of a buffer is handled before the next.                    *)
AudioAssumption ==
  /\ Lengths \in Seq(Nat) /\ Slots \in Nat /\ Half \in Nat \ {0}
  /\ Entries \in Nat \ {0} /\ Entries % 2 = 0
  /\ MergedInterrupts = FALSE

(* An interrupt that waits stands for a buffer that was played and that    *)
(* the driver still counts.                                                *)
Waiting == IF pending THEN 1 ELSE 0

(* How many descriptors the device has from civ to lvi.                    *)
Left == IF lvi >= civ THEN (lvi - civ) + 1 ELSE (lvi - civ) + Entries + 1

(* The entry after e.                                                      *)
After(e) == IF e + 1 = Entries THEN 0 ELSE e + 1

(* The registers and the driver's variables have their ranges.             *)
RingType ==
  /\ sw_lvi \in 0..(Entries - 1) /\ lvi \in 0..(Entries - 1) /\ civ \in 0..(Entries - 1)
  /\ buffersOccupied \in 0..2
  /\ filling \in {"no", "first", "first written", "update", "update written"}

(* The driver knows whether the device was started, and one that was not   *)
(* has nothing to report.                                                  *)
Flags ==
  /\ pending \in BOOLEAN /\ isPlaying \in BOOLEAN
  /\ isPlaying <=> device # "off"
  /\ device = "off" => ~pending

(* While the device is off, the ring holds what was written from entry 0   *)
(* on.                                                                     *)
Off ==
  /\ device = "off" /\ civ = 0
  /\ buffersOccupied = 0 => sw_lvi = 0
  /\ buffersOccupied = 1 => lvi = 0 /\ sw_lvi = 1
  /\ buffersOccupied = 2 => lvi = 1 /\ sw_lvi = After(1)

(* A device that plays has what lies from civ to lvi.                      *)
Playing == device = "playing" /\ sw_lvi = After(lvi) /\ buffersOccupied = Left + Waiting

(* A device that is halted has played all there was.                       *)
Halted == device = "halted" /\ sw_lvi = After(lvi) /\ civ = lvi /\ buffersOccupied = Waiting

(* A buffer is only written when there is room for it, and the first ones  *)
(* before the device is started.                                           *)
Steps ==
  /\ filling \in {"first written", "update written"} => buffersOccupied < 2
  /\ filling \in {"first", "first written"} => device = "off"

(* The ring is as it is while the device is off, plays or is halted.       *)
RingInd == RingType /\ Flags /\ Steps /\ (Off \/ Playing \/ Halted)

(* The ring has two entries at least.                                      *)
LEMMA TwoEntries ==
  ASSUME AudioAssumption
  PROVE  Entries \in Nat /\ Entries >= 2
BY DEF AudioAssumption

(* One entry further in the ring.                                          *)
LEMMA AfterIs ==
  ASSUME NEW E \in Nat, E >= 2, NEW e \in 0..(E - 1)
  PROVE  (e + 1) % E = IF e + 1 = E THEN 0 ELSE e + 1
<1>1. CASE e + 1 = E
  <2>1. E % E = 0
    OBVIOUS
  <2> QED
    BY <1>1, <2>1
<1>2. CASE e + 1 # E
  <2>1. PICK x \in Nat : x = e + 1
    OBVIOUS
  <2>2. x < E
    BY <1>2, <2>1
  <2>3. x % E = x
    BY <2>1, <2>2
  <2> QED
    BY <1>2, <2>1, <2>3
<1> QED
  BY <1>1, <1>2

(* The distance in the ring.                                               *)
LEMMA DistanceIs ==
  ASSUME NEW E \in Nat, E >= 2, NEW a \in 0..(E - 1), NEW b \in 0..(E - 1)
  PROVE  (a + E - b) % E = IF a >= b THEN a - b ELSE (a - b) + E
<1>1. CASE a >= b
  <2>1. PICK x \in Nat : x = a - b /\ x < E /\ a + E - b = x + E
    BY <1>1
  <2>2. (x + E) % E = x
    BY <2>1
  <2> QED
    BY <1>1, <2>1, <2>2
<1>2. CASE ~(a >= b)
  <2>1. PICK x \in Nat : x = (a - b) + E /\ x < E /\ a + E - b = x
    BY <1>2
  <2>2. x % E = x
    BY <2>1
  <2> QED
    BY <1>2, <2>1, <2>2
<1> QED
  BY <1>1, <1>2

(* An interrupt waits or it does not.                                      *)
LEMMA WaitingIs ==
  ASSUME Flags
  PROVE  /\ pending => Waiting = 1
         /\ ~pending => Waiting = 0
         /\ Waiting \in {0, 1}
BY DEF Waiting, Flags

(* In the beginning the ring is empty and the device off.                  *)
LEMMA RingInit == ASSUME AudioAssumption, A!Init PROVE RingInd
<1>1. Entries \in Nat /\ Entries >= 2
  BY TwoEntries
<1>2. RingType
  BY <1>1 DEF A!Init, RingType
<1>3. Off /\ Steps
  BY <1>1 DEF A!Init, Off, Steps
<1>4. Flags
  BY DEF A!Init, Flags
<1> QED
  BY <1>2, <1>3, <1>4 DEF RingInd

(* Every step of the mixer, the driver and the device keeps the ring as it *)
(* is.                                                                     *)
LEMMA RingStep == ASSUME AudioAssumption, RingInd, [A!Next]_(A!vars) PROVE RingInd'
<1>1. Entries \in Nat /\ Entries >= 2
  BY TwoEntries
<1>2. RingType /\ Flags /\ Steps /\ (Off \/ Playing \/ Halted)
  BY DEF RingInd
<1>3. sw_lvi \in 0..(Entries - 1) /\ lvi \in 0..(Entries - 1) /\ civ \in 0..(Entries - 1)
  BY <1>2 DEF RingType
<1>4. (sw_lvi + 1) % Entries = After(sw_lvi) /\ (civ + 1) % Entries = After(civ)
  BY <1>1, <1>3, AfterIs DEF After
<1>5. Waiting \in {0, 1}
  BY <1>2, WaitingIs
<1>6. Left \in Nat \ {0}
  BY <1>1, <1>3 DEF Left
<1>7. ASSUME UNCHANGED <<sw_lvi, buffersOccupied, isPlaying, civ, lvi, device, pending>>,
             filling' \in {"no", "first", "first written", "update", "update written"}, Steps'
      PROVE  RingInd'
  <2>1. RingType' /\ Left' = Left
    BY <1>2, <1>7 DEF RingType, Left
  <2>2. Flags' /\ Waiting' = Waiting
    BY <1>2, <1>7 DEF Flags, Waiting
  <2>3. (Off \/ Playing \/ Halted)'
    BY <1>2, <1>7, <2>1, <2>2 DEF Off, Playing, Halted, After
  <2> QED
    BY <1>7, <2>1, <2>2, <2>3 DEF RingInd
<1>10. CASE A!PlayBuffer
  <2>1. /\ UNCHANGED <<sw_lvi, buffersOccupied, isPlaying, civ, lvi, device, pending>>
        /\ filling' = IF isPlaying THEN "no" ELSE "first"
    BY <1>10 DEF A!PlayBuffer, A!driver, A!hardware
  <2>2. Steps' /\ filling' \in {"no", "first", "first written", "update", "update written"}
    BY <1>2, <2>1 DEF Steps, Flags
  <2> QED
    BY <1>7, <2>1, <2>2
<1>11. CASE A!Update
  <2>1. UNCHANGED <<sw_lvi, buffersOccupied, isPlaying, civ, lvi, device, pending>> /\ filling' = "update"
    BY <1>11 DEF A!Update, A!driver, A!hardware
  <2>2. Steps' /\ filling' \in {"no", "first", "first written", "update", "update written"}
    BY <1>2, <2>1 DEF Steps
  <2> QED
    BY <1>7, <2>1, <2>2
<1>12. CASE A!ProcessAudio
  <2>1. /\ UNCHANGED <<sw_lvi, buffersOccupied, isPlaying, civ, lvi, device, pending>>
        /\ filling \in {"first", "update"} /\ buffersOccupied < 2
        /\ filling' = IF filling = "first" THEN "first written" ELSE "update written"
    BY <1>12 DEF A!ProcessAudio, A!IsReadyForData, A!hardware
  <2>2. Steps' /\ filling' \in {"no", "first", "first written", "update", "update written"}
    BY <1>2, <2>1 DEF Steps
  <2> QED
    BY <1>7, <2>1, <2>2
<1>13. CASE A!WriteData
  <2>1. /\ filling \in {"first written", "update written"}
        /\ lvi' = sw_lvi /\ sw_lvi' = After(sw_lvi) /\ buffersOccupied' = buffersOccupied + 1
        /\ filling' = IF filling = "first written" THEN "first" ELSE "update"
        /\ device = "halted" => device' = "playing" /\ civ' = After(civ)
        /\ device # "halted" => device' = device /\ civ' = civ
    BY <1>4, <1>13 DEF A!WriteData
  <2>2. Flags' /\ Waiting' = Waiting
    BY <1>2, <1>13 DEF A!WriteData, Flags, Waiting
  <2>3. buffersOccupied \in {0, 1}
    <3>1. buffersOccupied \in 0..2
      BY <1>2 DEF RingType
    <3>2. buffersOccupied < 2
      BY <1>2, <2>1 DEF Steps
    <3>3. buffersOccupied \in 0..1
      BY <3>1, <3>2
    <3> QED
      BY <3>3
  <2>4. Steps'
    BY <1>2, <2>1 DEF Steps
  <2>5. RingType'
    <3>1. sw_lvi' \in 0..(Entries - 1) /\ lvi' \in 0..(Entries - 1) /\ civ' \in 0..(Entries - 1)
      <4>1. After(sw_lvi) \in 0..(Entries - 1) /\ After(civ) \in 0..(Entries - 1)
        BY <1>1, <1>3 DEF After
      <4>2. lvi' = sw_lvi /\ sw_lvi' = After(sw_lvi) /\ (civ' = civ \/ civ' = After(civ))
        BY <2>1
      <4> QED
        BY <1>3, <4>1, <4>2
    <3>2. buffersOccupied' \in 0..2
      <4>1. buffersOccupied' = buffersOccupied + 1
        BY <2>1
      <4> QED
        BY <2>3, <4>1
    <3>3. filling' \in {"no", "first", "first written", "update", "update written"}
      BY <2>1
    <3> QED
      BY <3>1, <3>2, <3>3 DEF RingType
  <2>6. CASE Off
    <3>1. Off'
      <4>1. device' = "off" /\ civ' = 0
        BY <2>1, <2>6 DEF Off
      <4>2. lvi' = sw_lvi /\ sw_lvi' = After(sw_lvi) /\ buffersOccupied' = buffersOccupied + 1
        BY <2>1
      <4>3. CASE buffersOccupied = 0
        BY <1>1, <2>6, <4>1, <4>2, <4>3 DEF Off, After
      <4>4. CASE buffersOccupied = 1
        BY <1>1, <2>6, <4>1, <4>2, <4>4 DEF Off, After
      <4> QED
        BY <2>3, <4>3, <4>4
    <3> QED
      BY <2>2, <2>4, <2>5, <3>1 DEF RingInd
  <2>7. CASE Playing
    <3>1. Left = 1 /\ Waiting = 0 /\ buffersOccupied = 1
      BY <1>5, <1>6, <2>3, <2>7 DEF Playing
    <3>2. lvi = civ
      BY <1>1, <1>3, <3>1 DEF Left
    <3>3. civ' = lvi /\ lvi' = After(lvi)
      BY <2>1, <2>7, <3>2 DEF Playing
    <3>4. Left' = 2
      BY <1>1, <1>3, <3>3 DEF Left, After
    <3>5. Playing'
      <4>1. device' = "playing"
        BY <2>1, <2>7 DEF Playing
      <4>2. sw_lvi' = After(lvi')
        BY <2>1
      <4>3. buffersOccupied' = buffersOccupied + 1 /\ Waiting' = 0
        BY <2>1, <2>2, <3>1
      <4>4. buffersOccupied' = Left' + Waiting'
        BY <3>1, <3>4, <4>3
      <4> QED
        BY <4>1, <4>2, <4>4 DEF Playing, After
    <3> QED
      BY <2>2, <2>4, <2>5, <3>5 DEF RingInd
  <2>8. CASE Halted
    <3>1. civ' = sw_lvi /\ lvi' = sw_lvi
      BY <2>1, <2>8 DEF Halted
    <3>2. Left' = 1
      BY <1>1, <1>3, <3>1 DEF Left
    <3>3. Playing'
      <4>1. device' = "playing"
        BY <2>1, <2>8 DEF Halted
      <4>2. sw_lvi' = After(lvi')
        BY <2>1
      <4>3. buffersOccupied' = buffersOccupied + 1 /\ Waiting' = buffersOccupied
        BY <2>1, <2>2, <2>8 DEF Halted
      <4>4. buffersOccupied' = Left' + Waiting'
        BY <2>3, <3>2, <4>3
      <4> QED
        BY <4>1, <4>2, <4>4 DEF Playing, After
    <3> QED
      BY <2>2, <2>4, <2>5, <3>3 DEF RingInd
  <2> QED
    BY <1>2, <2>6, <2>7, <2>8
<1>14. CASE A!Filled
  <2>1. /\ filling \in {"first", "update"} /\ ~(buffersOccupied < 2) /\ filling' = "no"
        /\ UNCHANGED <<sw_lvi, buffersOccupied, civ, lvi>>
        /\ filling = "first" => device' = "playing"
        /\ filling # "first" => device' = device
    BY <1>14 DEF A!Filled, A!IsReadyForData
  <2>2. Flags' /\ Waiting' = Waiting
    BY <1>2, <1>14 DEF A!Filled, Flags, Waiting
  <2>3. Steps' /\ RingType' /\ Left' = Left
    BY <1>2, <2>1 DEF Steps, RingType, Left
  <2>4. CASE filling = "first"
    <3>1. Off /\ ~pending
      BY <1>2, <2>4 DEF Steps, Flags, Off, Playing, Halted
    <3>2. Waiting = 0
      BY <1>2, <3>1, WaitingIs
    <3>3. buffersOccupied = 2 /\ civ = 0 /\ lvi = 1
      <4>1. buffersOccupied \in 0..2
        BY <1>2 DEF RingType
      <4>2. ~(buffersOccupied < 2)
        BY <2>1
      <4>3. buffersOccupied = 2
        BY <4>1, <4>2
      <4> QED
        BY <3>1, <4>3 DEF Off
    <3>4. Left = 2
      BY <3>3 DEF Left
    <3>5. Playing'
      BY <2>1, <2>2, <2>3, <2>4, <3>1, <3>2, <3>3, <3>4 DEF Playing, Off, After
    <3> QED
      BY <2>2, <2>3, <3>5 DEF RingInd
  <2>5. CASE filling = "update"
    <3>1. (Off \/ Playing \/ Halted)'
      BY <1>2, <2>1, <2>2, <2>3, <2>5 DEF Off, Playing, Halted, After
    <3> QED
      BY <2>2, <2>3, <3>1 DEF RingInd
  <2> QED
    BY <2>1, <2>4, <2>5
<1>15. CASE A!BufferPlayed
  <2>1. /\ device = "playing" /\ UNCHANGED <<filling, sw_lvi, buffersOccupied, lvi>>
        /\ civ = lvi => device' = "halted" /\ civ' = civ
        /\ civ # lvi => device' = device /\ civ' = After(civ)
    BY <1>4, <1>15 DEF A!BufferPlayed, A!mixer, A!driver
  <2>2. Flags' /\ ~pending /\ pending'
    BY <1>2, <1>15 DEF A!BufferPlayed, A!driver, Flags, AudioAssumption
  <2>3. Playing /\ Waiting = 0 /\ Waiting' = 1
    BY <1>2, <2>1, <2>2, WaitingIs DEF Off, Halted, Waiting
  <2>4. Steps' /\ RingType'
    <3>1. civ' \in 0..(Entries - 1)
      BY <1>1, <1>3, <2>1 DEF After
    <3>2. RingType'
      BY <1>2, <2>1, <3>1 DEF RingType
    <3>3. filling \notin {"first", "first written"}
      BY <1>2, <2>1 DEF Steps
    <3>4. Steps'
      BY <1>2, <2>1, <3>3 DEF Steps
    <3> QED
      BY <3>2, <3>4
  <2>5. CASE civ = lvi
    <3>1. Left = 1
      BY <1>3, <2>5 DEF Left
    <3>2. Halted'
      BY <2>1, <2>3, <2>5, <3>1 DEF Halted, Playing, After
    <3> QED
      BY <2>2, <2>4, <3>2 DEF RingInd
  <2>6. CASE civ # lvi
    <3>1. Left' = Left - 1
      BY <1>1, <1>3, <2>1, <2>6 DEF Left, After
    <3>2. Playing'
      BY <1>6, <2>1, <2>3, <2>6, <3>1 DEF Playing, After
    <3> QED
      BY <2>2, <2>4, <3>2 DEF RingInd
  <2> QED
    BY <2>5, <2>6
<1>16. CASE A!OnInterrupt
  <2>1. /\ filling = "no" /\ UNCHANGED <<filling, sw_lvi, civ, lvi, device>>
        /\ buffersOccupied' = IF buffersOccupied > 0 THEN buffersOccupied - 1 ELSE 0
    BY <1>16 DEF A!OnInterrupt, A!mixer
  <2>2. Flags' /\ pending /\ ~pending'
    BY <1>2, <1>16 DEF A!OnInterrupt, Flags
  <2>3. Waiting = 1 /\ Waiting' = 0 /\ Left' = Left /\ ~Off
    BY <1>2, <2>1, <2>2, WaitingIs DEF Left, Waiting, Off, Flags
  <2>4. Steps' /\ RingType'
    BY <1>2, <2>1 DEF Steps, RingType
  <2>5. (Playing \/ Halted)'
    BY <1>2, <1>6, <2>1, <2>3 DEF Playing, Halted, After
  <2> QED
    BY <2>2, <2>4, <2>5 DEF RingInd
<1>17. CASE UNCHANGED A!vars
  <2>1. UNCHANGED <<filling, sw_lvi, buffersOccupied, isPlaying, civ, lvi, device, pending>>
    BY <1>17 DEF A!vars, A!mixer, A!driver, A!hardware
  <2>2. Steps' /\ filling' \in {"no", "first", "first written", "update", "update written"}
    BY <1>2, <2>1 DEF Steps, RingType
  <2> QED
    BY <1>7, <2>1, <2>2
<1> QED
  BY <1>10, <1>11, <1>12, <1>13, <1>14, <1>15, <1>16, <1>17 DEF A!Next

(* In such a ring the driver's count is exact.                             *)
LEMMA RingMeans == ASSUME AudioAssumption, RingInd PROVE A!RingExact
<1>1. Entries \in Nat /\ Entries >= 2
  BY TwoEntries
<1>2. (lvi + Entries - civ) % Entries = IF lvi >= civ THEN lvi - civ ELSE (lvi - civ) + Entries
  BY <1>1, DistanceIs DEF RingInd, RingType
<1> QED
  BY <1>1, <1>2 DEF RingInd, RingType, Flags, Off, Playing, Halted, A!RingExact, Left, Waiting

(* The driver's count of buffers is the number of those that the device    *)
(* has yet to play, with the one whose interrupt waits (WriteData and      *)
(* OnInterrupt of ac97.cpp).                                               *)
THEOREM RingAlwaysExact == ASSUME AudioAssumption PROVE A!Spec => []A!RingExact
<1>1. A!Init => RingInd
  BY RingInit
<1>2. RingInd /\ [A!Next]_(A!vars) => RingInd'
  BY RingStep
<1>3. RingInd => A!RingExact
  BY RingMeans
<1> QED
  BY <1>1, <1>2, <1>3, PTL DEF A!Spec

----------------------------------------------------------------------------
(* The samples of a sound after the first a, up to b.                      *)
Interval(a, b) == [i \in 1..(b - a) |-> a + i]

(* h, and then n halves of which p and l are the last two, are the samples *)
(* of a sound up to x.                                                     *)
Follows(h, n, p, l, x) ==
  \/ n = 0 /\ h = Interval(0, x)
  \/ n = 1 /\ \E a \in 0..x : h = Interval(0, a) /\ l = Interval(a, x)
  \/ n = 2 /\ \E b \in 0..x : \E a \in 0..b :
       h = Interval(0, a) /\ p = Interval(a, b) /\ l = Interval(b, x)

(* How many descriptors the device has yet to play.                        *)
Ahead == IF device = "off" THEN buffersOccupied ELSE IF device = "playing" THEN Left ELSE 0

(* A half is written that the device was not told of.                      *)
Underway == IF filling \in {"first written", "update written"} THEN 1 ELSE 0

(* How many halves lie ahead, with one that is underway.                   *)
Coming == Ahead + Underway

(* The half that was written last.                                         *)
Latest == IF Underway = 1 THEN sw_lvi % 2 ELSE 1 - (sw_lvi % 2)

(* Sound s comes next from sample x + 1 on.                                *)
NextIs(s, x) ==
  /\ started < s => x = 0
  /\ \A i \in 1..Slots : streams[i].sound = s => streams[i].position = x

(* A stream plays a sound, or 0 for none.                                  *)
Stream == [sound : 0..Len(Lengths), position : Nat]

(* No two streams play one sound, and none is past its end.                *)
StreamsOK ==
  /\ started \in 0..Len(Lengths) /\ streams \in [1..Slots -> Stream]
  /\ \A i \in 1..Slots : /\ streams[i].sound <= started
                         /\ streams[i].sound # 0 => streams[i].position <= Lengths[streams[i].sound]
  /\ \A i, j \in 1..Slots : streams[i].sound = streams[j].sound /\ streams[i].sound # 0 => i = j

(* The descriptors name the halves in turn, and each half that is ahead is *)
(* named.                                                                  *)
Described ==
  /\ bdl \in [0..(Entries - 1) -> {0, 1}]
  /\ Ahead > 0 => bdl[civ] = civ % 2 /\ bdl[lvi] = lvi % 2

(* The halves hold samples, and at most two are ahead.                     *)
Buffers ==
  /\ ram \in [{0, 1} -> [A!Sounds -> Seq(Nat)]]
  /\ heard \in [A!Sounds -> Seq(Nat)]

(* What was heard of a sound and then what lies ahead are its samples from *)
(* the first on.                                                           *)
Wholly(s) == \E x \in Nat : Follows(heard[s], Coming, ram[1 - Latest][s], ram[Latest][s], x) /\ NextIs(s, x)

(* The inductive invariant.                                                *)
SoundInd == RingInd /\ StreamsOK /\ Described /\ Buffers /\ \A s \in A!Sounds : Wholly(s)

(* An interval and the next.                                               *)
LEMMA IntervalJoin ==
  ASSUME NEW x \in Nat, NEW b \in 0..x, NEW a \in 0..b
  PROVE  Interval(a, b) \o Interval(b, x) = Interval(a, x)
<1> DEFINE s == Interval(a, b)
           t == Interval(b, x)
<1>1. PICK m \in Nat : m = b - a
  OBVIOUS
<1>2. PICK n \in Nat : n = x - b
  OBVIOUS
<1>3. s = [i \in 1..m |-> a + i] /\ t = [i \in 1..n |-> b + i]
  BY <1>1, <1>2 DEF Interval
<1>4. s \in Seq(Nat) /\ t \in Seq(Nat) /\ Len(s) = m /\ Len(t) = n
  BY <1>3
<1>5. /\ s \o t \in Seq(Nat) /\ Len(s \o t) = m + n
      /\ \A i \in 1..m + n : (s \o t)[i] = IF i <= m THEN s[i] ELSE t[i - m]
  BY <1>4, ConcatProperties
<1>6. ASSUME NEW i \in 1..m + n
      PROVE  (s \o t)[i] = a + i
  <2>1. CASE i <= m
    BY <1>3, <1>5, <2>1
  <2>2. CASE ~(i <= m)
    <3>1. i - m \in 1..n /\ b + (i - m) = a + i
      BY <1>1, <2>2
    <3>2. t[i - m] = b + (i - m)
      BY <1>3, <3>1
    <3> QED
      BY <1>5, <2>2, <3>1, <3>2
  <2> QED
    BY <2>1, <2>2
<1>7. x - a = m + n
  BY <1>1, <1>2
<1>8. Interval(a, x) = [i \in 1..m + n |-> a + i]
  BY <1>7 DEF Interval
<1>9. Interval(a, x) \in Seq(Nat) /\ Len(Interval(a, x)) = m + n
  BY <1>8
<1> HIDE DEF s, t
<1> QED
  BY <1>5, <1>6, <1>8, <1>9, SameSequence DEF s, t

(* An interval is a sequence.                                              *)
LEMMA IntervalSeq ==
  ASSUME NEW b \in Nat, NEW a \in 0..b
  PROVE  Interval(a, b) \in Seq(Nat) /\ Len(Interval(a, b)) = b - a
<1>1. PICK m \in Nat : m = b - a
  OBVIOUS
<1>2. Interval(a, b) = [i \in 1..m |-> a + i]
  BY <1>1 DEF Interval
<1> QED
  BY <1>1, <1>2

(* The first half to come is played.                                       *)
LEMMA FollowsPlayed ==
  ASSUME NEW h, NEW n \in 1..2, NEW p, NEW l, NEW x \in Nat, Follows(h, n, p, l, x)
  PROVE  Follows(h \o (IF n = 2 THEN p ELSE l), n - 1, p, l, x)
<1>1. CASE n = 1
  <2>1. PICK a \in 0..x : h = Interval(0, a) /\ l = Interval(a, x)
    BY <1>1 DEF Follows
  <2>2. h \o l = Interval(0, x)
    <3>1. 0 \in 0..a
      OBVIOUS
    <3> QED
      BY <2>1, <3>1, IntervalJoin
  <2> QED
    BY <1>1, <2>2 DEF Follows
<1>2. CASE n = 2
  <2>1. PICK b \in 0..x : \E a \in 0..b : h = Interval(0, a) /\ p = Interval(a, b) /\ l = Interval(b, x)
    BY <1>2 DEF Follows
  <2>2. PICK a \in 0..b : h = Interval(0, a) /\ p = Interval(a, b)
    BY <2>1
  <2>3. h \o p = Interval(0, b)
    <3>1. 0 \in 0..a /\ b \in Nat /\ a \in 0..b
      OBVIOUS
    <3>2. b \in Nat /\ a \in 0..b /\ 0 \in 0..a => Interval(0, a) \o Interval(a, b) = Interval(0, b)
      BY IntervalJoin
    <3> QED
      BY <2>2, <3>1, <3>2
  <2>4. n - 1 = 1
    BY <1>2
  <2> QED
    BY <1>2, <2>1, <2>3, <2>4 DEF Follows
<1> QED
  BY <1>1, <1>2

(* Another half is mixed.                                                  *)
LEMMA FollowsMixed ==
  ASSUME NEW h, NEW n \in 0..1, NEW p, NEW l, NEW x \in Nat, Follows(h, n, p, l, x),
         NEW y \in Nat, x <= y, NEW m, m = Interval(x, y)
  PROVE  Follows(h, n + 1, l, m, y)
<1>1. CASE n = 0
  BY <1>1 DEF Follows
<1>2. CASE n = 1
  <2>1. PICK a \in 0..x : h = Interval(0, a) /\ l = Interval(a, x)
    BY <1>2 DEF Follows
  <2>2. x \in 0..y /\ n + 1 = 2
    BY <1>2
  <2> QED
    BY <2>1, <2>2 DEF Follows
<1> QED
  BY <1>1, <1>2

(* What is heard are the first samples.                                    *)
LEMMA FollowsHeard ==
  ASSUME NEW h, NEW n, NEW p, NEW l, NEW x \in Nat, Follows(h, n, p, l, x)
  PROVE  \A i \in 1..Len(h) : h[i] = i
<1>1. PICK a \in Nat : h = Interval(0, a)
  BY DEF Follows
<1>2. h = [i \in 1..a |-> i]
  BY <1>1 DEF Interval
<1> QED
  BY <1>2

(* The halves take turns, also where the ring closes.                      *)
LEMMA TurnIs ==
  ASSUME AudioAssumption, NEW e \in 0..(Entries - 1)
  PROVE  e % 2 \in {0, 1} /\ After(e) % 2 = 1 - (e % 2)
<1>1. Entries \in Nat /\ Entries % 2 = 0 /\ Entries >= 2 /\ e \in Nat
  BY TwoEntries DEF AudioAssumption
<1> QED
  BY <1>1 DEF After

(* Where the ring stands.                                                  *)
LEMMA QueueIs ==
  ASSUME AudioAssumption, RingInd
  PROVE  /\ Ahead \in 0..2 /\ Ahead <= buffersOccupied /\ Underway \in {0, 1} /\ Coming \in 0..2
         /\ Latest \in {0, 1}
         /\ device = "playing" => /\ Ahead \in {1, 2} /\ Coming \in {1, 2}
                                  /\ Ahead = 1 => civ = lvi
                                  /\ Ahead = 2 => lvi = After(civ)
                                  /\ civ % 2 = IF Coming = 2 THEN 1 - Latest ELSE Latest
<1>1. Entries \in Nat /\ Entries >= 2
  BY TwoEntries
<1>2. RingType /\ Flags /\ Steps /\ (Off \/ Playing \/ Halted)
  BY DEF RingInd
<1>3. sw_lvi \in 0..(Entries - 1) /\ lvi \in 0..(Entries - 1) /\ civ \in 0..(Entries - 1)
  BY <1>2 DEF RingType
<1>4. Left \in Nat \ {0} /\ Waiting \in {0, 1}
  BY <1>1, <1>2, <1>3, WaitingIs DEF Left
<1>5. buffersOccupied \in 0..2
  BY <1>2 DEF RingType
<1>6. Underway \in {0, 1} /\ (Underway = 1 => buffersOccupied < 2)
  <2>1. CASE filling \in {"first written", "update written"}
    BY <1>2, <2>1 DEF Underway, Steps
  <2>2. CASE filling \notin {"first written", "update written"}
    <3>1. Underway = 0
      BY <2>2 DEF Underway
    <3> QED
      BY <3>1
  <2> QED
    BY <2>1, <2>2
<1>7. Ahead \in 0..2 /\ Ahead <= buffersOccupied
  <2>1. CASE Off
    BY <1>5, <2>1 DEF Ahead, Off
  <2>2. CASE Playing
    <3>1. Ahead = Left /\ buffersOccupied = Left + Waiting
      BY <2>2 DEF Ahead, Playing
    <3> QED
      BY <1>4, <1>5, <3>1
  <2>3. CASE Halted
    <3>1. Ahead = 0
      BY <2>3 DEF Ahead, Halted
    <3> QED
      BY <1>5, <3>1
  <2> QED
    BY <1>2, <2>1, <2>2, <2>3
<1>8. Coming \in 0..2 /\ Coming = Ahead + Underway
  BY <1>5, <1>6, <1>7 DEF Coming
<1>9. /\ sw_lvi % 2 \in {0, 1} /\ Latest \in {0, 1}
      /\ lvi % 2 \in {0, 1} /\ After(lvi) % 2 = 1 - (lvi % 2)
      /\ civ % 2 \in {0, 1} /\ After(civ) % 2 = 1 - (civ % 2)
  <2>1. sw_lvi % 2 \in {0, 1}
    BY <1>3, TurnIs
  <2>2. Latest \in {0, 1}
    BY <2>1 DEF Latest
  <2>3. /\ lvi % 2 \in {0, 1} /\ After(lvi) % 2 = 1 - (lvi % 2)
        /\ civ % 2 \in {0, 1} /\ After(civ) % 2 = 1 - (civ % 2)
    BY <1>3, TurnIs
  <2> QED
    BY <2>1, <2>2, <2>3
<1>10. ASSUME device = "playing"
       PROVE  /\ Ahead \in {1, 2} /\ Coming \in {1, 2}
              /\ Ahead = 1 => civ = lvi
              /\ Ahead = 2 => lvi = After(civ)
              /\ civ % 2 = IF Coming = 2 THEN 1 - Latest ELSE Latest
  <2>1. sw_lvi = After(lvi) /\ Ahead = Left
    BY <1>2, <1>10 DEF Off, Playing, Halted, Ahead
  <2>2. Ahead \in {1, 2} /\ Coming \in {1, 2}
    BY <1>4, <1>6, <1>7, <1>8, <2>1
  <2>3. Ahead = 1 => civ = lvi
    BY <1>1, <1>3, <2>1 DEF Left
  <2>4. Ahead = 2 => lvi = After(civ)
    BY <1>1, <1>3, <2>1 DEF Left, After
  <2>5. sw_lvi % 2 = 1 - (lvi % 2)
    BY <1>9, <2>1
  <2>6. CASE Ahead = 1 /\ Underway = 0
    <3>1. Coming = 1 /\ Latest = 1 - (sw_lvi % 2) /\ civ = lvi
      BY <1>8, <2>3, <2>6 DEF Latest
    <3> QED
      BY <1>9, <2>2, <2>3, <2>4, <2>5, <3>1
  <2>7. CASE Ahead = 1 /\ Underway = 1
    <3>1. Coming = 2 /\ Latest = sw_lvi % 2 /\ civ = lvi
      BY <1>8, <2>3, <2>7 DEF Latest
    <3> QED
      BY <1>9, <2>2, <2>3, <2>4, <2>5, <3>1
  <2>8. CASE Ahead = 2
    <3>1. Underway = 0
      BY <1>5, <1>6, <1>7, <2>8
    <3>2. Coming = 2 /\ Latest = 1 - (sw_lvi % 2) /\ lvi % 2 = 1 - (civ % 2)
      BY <1>8, <1>9, <2>4, <2>8, <3>1 DEF Latest
    <3> QED
      BY <1>9, <2>2, <2>3, <2>4, <2>5, <3>2
  <2> QED
    BY <1>6, <2>2, <2>6, <2>7, <2>8
<1> QED
  BY <1>6, <1>7, <1>8, <1>9, <1>10

(* The samples that a stream adds, and where it goes on.                   *)
LEMMA MixedIs ==
  ASSUME AudioAssumption, StreamsOK, NEW s \in A!Sounds, NEW x \in Nat, NextIs(s, x),
         streams' = [i \in 1..Slots |-> A!Advanced(streams[i])], started' = started
  PROVE  \E y \in Nat : x <= y /\ A!Mixed[s] = Interval(x, y) /\ NextIs(s, y)'
<1>1. /\ Lengths \in Seq(Nat) /\ Slots \in Nat /\ Half \in Nat \ {0}
      /\ streams \in [1..Slots -> Stream] /\ started \in 0..Len(Lengths) /\ s \in 1..Len(Lengths)
  BY DEF AudioAssumption, StreamsOK, A!Sounds
<1>2. PICK of : of = {i \in 1..Slots : streams[i].sound = s}
  OBVIOUS
<1>3. A!Mixed[s] = IF of = {} THEN <<>> ELSE A!Taken(streams[CHOOSE i \in of : TRUE])
  BY <1>1, <1>2 DEF A!Mixed
<1>4. CASE of = {}
  <2>1. A!Mixed[s] = Interval(x, x)
    <3>1. x - x = 0
      OBVIOUS
    <3>2. Interval(x, x) = <<>>
      BY <3>1 DEF Interval
    <3> QED
      BY <1>3, <1>4, <3>2
  <2>2. \A i \in 1..Slots : streams'[i].sound # s
    <3> SUFFICES ASSUME NEW i \in 1..Slots PROVE streams'[i].sound # s
      OBVIOUS
    <3>1. streams[i].sound # s
      BY <1>2, <1>4
    <3>3. s # 0 /\ streams[i] \in Stream
      BY <1>1
    <3>2. streams'[i] = A!Advanced(streams[i])
      OBVIOUS
    <3> QED
      BY <3>1, <3>2, <3>3 DEF A!Advanced, Stream
  <2>3. NextIs(s, x)'
    BY <2>2 DEF NextIs
  <2> QED
    BY <2>1, <2>3
<1>5. CASE of # {}
  <2>1. PICK k : k = CHOOSE i \in of : TRUE
    OBVIOUS
  <2>2. k \in of
    BY <1>5, <2>1
  <2>3. k \in 1..Slots /\ streams[k].sound = s /\ streams[k] \in Stream
    BY <1>1, <1>2, <2>2
  <2>4. /\ streams[k].position = x /\ streams[k].position <= Lengths[s] /\ s <= started
        /\ s # 0 /\ s \in Nat /\ started \in Nat
    BY <1>1, <2>3 DEF NextIs, StreamsOK
  <2>5. PICK n \in Nat : n = Lengths[s]
    BY <1>1
  <2>6. PICK y \in Nat : y = A!Least(n, x + Half) /\ x <= y
    BY <1>1, <2>4, <2>5 DEF A!Least
  <2>7. A!Mixed[s] = Interval(x, y)
    <3>1. A!Mixed[s] = A!Taken(streams[k])
      BY <1>3, <1>5, <2>1
    <3>2. A!Taken(streams[k]) = [i \in 1..(y - x) |-> x + i]
      BY <2>3, <2>4, <2>5, <2>6 DEF A!Taken
    <3> QED
      BY <3>1, <3>2 DEF Interval
  <2>8. ASSUME NEW i \in 1..Slots, streams'[i].sound = s
        PROVE  streams'[i].position = y
    <3>1. streams'[i] = A!Advanced(streams[i]) /\ streams[i] \in Stream
      BY <1>1
    <3>2. streams[i].sound = s
      BY <2>4, <2>8, <3>1 DEF A!Advanced, Stream
    <3>3. streams[i].position = x
      BY <3>2 DEF NextIs
    <3>4. ~(n < x + Half)
      BY <2>4, <2>5, <2>8, <3>1, <3>2, <3>3 DEF A!Advanced
    <3>5. streams'[i] = [streams[i] EXCEPT !.position = @ + Half]
      BY <2>4, <2>5, <3>1, <3>2, <3>3, <3>4 DEF A!Advanced
    <3>6. streams'[i].position = x + Half
      BY <3>1, <3>3, <3>5 DEF Stream
    <3>7. y = x + Half
      BY <1>1, <2>6, <3>4 DEF A!Least
    <3> QED
      BY <3>6, <3>7
  <2>9. NextIs(s, y)'
    BY <2>4, <2>8 DEF NextIs
  <2> QED
    BY <2>6, <2>7, <2>9
<1> QED
  BY <1>4, <1>5

(* Streams that advance stay in order.                                     *)
LEMMA StreamsAdvance ==
  ASSUME AudioAssumption, StreamsOK,
         streams' = [i \in 1..Slots |-> A!Advanced(streams[i])], started' = started
  PROVE  StreamsOK'
<1>1. /\ Lengths \in Seq(Nat) /\ Slots \in Nat /\ Half \in Nat \ {0}
      /\ streams \in [1..Slots -> Stream] /\ started \in 0..Len(Lengths)
  BY DEF AudioAssumption, StreamsOK
<1>2. ASSUME NEW i \in 1..Slots
      PROVE  /\ streams'[i] \in Stream
             /\ streams'[i].sound \in {0, streams[i].sound}
             /\ streams'[i].sound # 0 => streams'[i].position <= Lengths[streams'[i].sound]
  <2>1. streams'[i] = A!Advanced(streams[i])
    OBVIOUS
  <2>2. PICK st \in Stream : st = streams[i]
    BY <1>1
  <2>3. st.sound \in 0..Len(Lengths) /\ st.position \in Nat
    BY DEF Stream
  <2>4. CASE st.sound = 0
    <3>1. streams'[i] = st
      BY <2>1, <2>2, <2>4 DEF A!Advanced
    <3> QED
      BY <2>2, <2>4, <3>1
  <2>5. CASE st.sound # 0
    <3>1. PICK n \in Nat : n = Lengths[st.sound]
      BY <1>1, <2>3, <2>5
    <3>2. CASE n < st.position + Half
      <4>1. streams'[i] = [sound |-> 0, position |-> 0]
        BY <2>1, <2>2, <2>5, <3>1, <3>2 DEF A!Advanced
      <4>2. 0 \in 0..Len(Lengths)
        BY <1>1
      <4> QED
        BY <4>1, <4>2 DEF Stream
    <3>3. CASE ~(n < st.position + Half)
      <4>1. streams'[i] = [st EXCEPT !.position = @ + Half]
        BY <2>1, <2>2, <2>5, <3>1, <3>3 DEF A!Advanced
      <4>2. PICK z \in Nat : z = st.position + Half
        BY <1>1, <2>3
      <4>3. streams'[i] = [sound |-> st.sound, position |-> z]
        BY <4>1, <4>2 DEF Stream
      <4>4. z <= n
        BY <1>1, <2>3, <3>1, <3>3, <4>2
      <4> QED
        BY <2>2, <2>3, <3>1, <4>3, <4>4 DEF Stream
    <3> QED
      BY <3>2, <3>3
  <2> QED
    BY <2>4, <2>5
<1>3. streams' \in [1..Slots -> Stream]
  BY <1>2
<1>4. \A i \in 1..Slots : streams'[i].sound <= started
  <2> SUFFICES ASSUME NEW i \in 1..Slots PROVE streams'[i].sound <= started
    OBVIOUS
  <2>1. streams[i].sound <= started
    BY DEF StreamsOK
  <2> QED
    BY <1>1, <1>2, <2>1
<1>5. ASSUME NEW i \in 1..Slots, NEW j \in 1..Slots,
             streams'[i].sound = streams'[j].sound, streams'[i].sound # 0
      PROVE  i = j
  <2>1. streams[i].sound = streams[j].sound /\ streams[i].sound # 0
    BY <1>2, <1>5
  <2> QED
    BY <2>1 DEF StreamsOK
<1> QED
  BY <1>1, <1>2, <1>3, <1>4, <1>5 DEF StreamsOK

(* At the beginning nothing was heard and no sound started.                *)
LEMMA SoundInit == ASSUME AudioAssumption, A!Init PROVE SoundInd
<1>1. Lengths \in Seq(Nat) /\ Slots \in Nat /\ Entries \in Nat /\ Entries >= 2
  BY TwoEntries DEF AudioAssumption
<1>2. RingInd
  BY RingInit
<1>3. StreamsOK
  <2>1. /\ started = 0 /\ Len(Lengths) \in Nat
        /\ streams = [i \in 1..Slots |-> [sound |-> 0, position |-> 0]]
    BY <1>1 DEF A!Init
  <2>2. \A i \in 1..Slots : streams[i].sound = 0 /\ streams[i] \in Stream
    BY <2>1 DEF Stream
  <2> QED
    BY <2>1, <2>2 DEF StreamsOK
<1>4. Described
  <2>1. Ahead = 0
    BY DEF A!Init, Ahead
  <2>2. bdl \in [0..(Entries - 1) -> {0, 1}]
    BY DEF A!Init
  <2> QED
    BY <2>1, <2>2 DEF Described
<1>5. \A s \in A!Sounds : A!Silence[s] = <<>>
  BY DEF A!Silence
<1>6. Buffers
  <2>1. A!Silence \in [A!Sounds -> Seq(Nat)]
    BY DEF A!Silence
  <2>2. ram = [h \in {0, 1} |-> A!Silence] /\ heard = A!Silence
    BY DEF A!Init
  <2> QED
    BY <2>1, <2>2 DEF Buffers
<1>7. \A s \in A!Sounds : Wholly(s)
  <2> SUFFICES ASSUME NEW s \in A!Sounds PROVE Wholly(s)
    OBVIOUS
  <2>1. heard[s] = <<>>
    BY <1>5 DEF A!Init
  <2>2. Interval(0, 0) = <<>>
    BY DEF Interval
  <2>3. Coming = 0
    BY DEF A!Init, Coming, Ahead, Underway
  <2>4. Follows(heard[s], Coming, ram[1 - Latest][s], ram[Latest][s], 0)
    BY <2>1, <2>2, <2>3 DEF Follows
  <2>5. NextIs(s, 0)
    <3>1. \A i \in 1..Slots : streams[i].position = 0
      BY DEF A!Init
    <3> QED
      BY <3>1 DEF NextIs
  <2> QED
    BY <2>4, <2>5 DEF Wholly
<1> QED
  BY <1>2, <1>3, <1>4, <1>6, <1>7 DEF SoundInd

(* A step that neither fills a half nor plays one.                         *)
LEMMA QueueSame ==
  ASSUME SoundInd, RingInd', StreamsOK', UNCHANGED <<ram, bdl, heard, civ, lvi>>,
         Ahead' = Ahead, Underway' = Underway, Latest' = Latest,
         \A s \in A!Sounds, x \in Nat : NextIs(s, x) => NextIs(s, x)'
  PROVE  SoundInd'
<1>1. Described' /\ Buffers'
  BY DEF SoundInd, Described, Buffers
<1>2. ASSUME NEW s \in A!Sounds
      PROVE  Wholly(s)'
  <2>1. PICK x \in Nat : Follows(heard[s], Coming, ram[1 - Latest][s], ram[Latest][s], x) /\ NextIs(s, x)
    BY DEF SoundInd, Wholly
  <2>2. Coming' = Coming
    BY DEF Coming
  <2>3. Follows(heard[s], Coming, ram[1 - Latest][s], ram[Latest][s], x)'
    BY <2>1, <2>2 DEF Follows
  <2> QED
    BY <2>1, <2>3 DEF Wholly
<1> QED
  BY <1>1, <1>2 DEF SoundInd

(* Nor does the queue change when only the step of the filling does.       *)
LEMMA OnlyFilling ==
  ASSUME UNCHANGED <<sw_lvi, buffersOccupied, civ, lvi, device>>,
         filling \in {"no", "first", "update"}, filling' \in {"no", "first", "update"}
  PROVE  Ahead' = Ahead /\ Underway' = Underway /\ Latest' = Latest
<1>1. Ahead' = Ahead
  BY DEF Ahead, Left
<1>2. Underway = 0 /\ Underway' = 0
  BY DEF Underway
<1>3. Latest' = Latest
  BY <1>2 DEF Latest
<1> QED
  BY <1>1, <1>2, <1>3

(* A sound that is started is heard from its first sample on.              *)
LEMMA SoundPlayBuffer ==
  ASSUME AudioAssumption, SoundInd, RingInd', A!PlayBuffer
  PROVE  SoundInd'
<1>1. /\ Lengths \in Seq(Nat) /\ Len(Lengths) \in Nat /\ Slots \in Nat
      /\ streams \in [1..Slots -> Stream] /\ started \in 0..Len(Lengths)
  BY DEF AudioAssumption, SoundInd, StreamsOK
<1>2. /\ UNCHANGED <<ram, bdl, heard, sw_lvi, buffersOccupied, civ, lvi, device>>
      /\ filling = "no" /\ filling' \in {"no", "first"}
      /\ started < Len(Lengths) /\ started' = started + 1
  BY DEF A!PlayBuffer, A!driver, A!hardware
<1>3. Ahead' = Ahead /\ Underway' = Underway /\ Latest' = Latest
  BY <1>2, OnlyFilling
<1>4. PICK n \in 1..Len(Lengths) : n = started + 1
  BY <1>1, <1>2
<1>5. PICK new : new = [sound |-> n, position |-> 0]
  OBVIOUS
<1>6. new \in Stream /\ new.sound = n /\ new.position = 0
  BY <1>1, <1>4, <1>5 DEF Stream
<1>7. streams' = streams \/ \E k \in 1..Slots : streams' = [streams EXCEPT ![k] = new]
  <2>1. PICK free \in SUBSET (1..Slots) : free = {i \in 1..Slots : streams[i].sound = 0}
    OBVIOUS
  <2>2. streams' = IF free = {} THEN streams
                   ELSE [streams EXCEPT ![CHOOSE i \in free : \A j \in free : i <= j] = new]
    BY <1>4, <1>5, <2>1 DEF A!PlayBuffer
  <2>3. CASE free = {}
    BY <2>2, <2>3
  <2>4. CASE free # {}
    <3>1. \E i \in free : \A j \in free : i <= j
      <4>1. PICK e \in free : TRUE
        BY <2>4
      <4>2. free \in SUBSET Nat
        BY <1>1, <2>1
      <4> QED
        BY <4>1, <4>2, MinOfNats
    <3>2. PICK k \in free : k = CHOOSE i \in free : \A j \in free : i <= j
      BY <3>1
    <3>3. streams' = [streams EXCEPT ![k] = new]
      BY <2>2, <2>4, <3>2
    <3> QED
      BY <2>1, <3>3
  <2> QED
    BY <2>3, <2>4
<1>8. \A i \in 1..Slots : streams'[i] = streams[i] \/ streams'[i] = new
  BY <1>1, <1>7
<1>9. \A i \in 1..Slots : streams[i] \in Stream /\ streams[i].sound <= started /\ streams[i].sound # n
  <2> SUFFICES ASSUME NEW i \in 1..Slots
               PROVE  streams[i] \in Stream /\ streams[i].sound <= started /\ streams[i].sound # n
    OBVIOUS
  <2>1. streams[i] \in Stream /\ streams[i].sound <= started
    BY <1>1 DEF SoundInd, StreamsOK
  <2>2. streams[i].sound \in Nat
    BY <2>1 DEF Stream
  <2> QED
    BY <1>1, <1>4, <2>1, <2>2
<1>10. StreamsOK'
  <2>1. started' \in 0..Len(Lengths)
    BY <1>1, <1>2
  <2>2. streams' \in [1..Slots -> Stream]
    BY <1>1, <1>6, <1>7
  <2>3. ASSUME NEW i \in 1..Slots
        PROVE  /\ streams'[i].sound <= started'
               /\ streams'[i].sound # 0 => streams'[i].position <= Lengths[streams'[i].sound]
    <3>1. CASE streams'[i] = streams[i]
      <4>1. streams[i].sound <= started /\ streams[i].sound \in Nat
        BY <1>9 DEF Stream
      <4>2. streams[i].sound <= started'
        BY <1>1, <1>2, <4>1
      <4>3. streams[i].sound # 0 => streams[i].position <= Lengths[streams[i].sound]
        BY DEF SoundInd, StreamsOK
      <4> QED
        BY <3>1, <4>2, <4>3
    <3>2. CASE streams'[i] = new
      <4>1. n <= started' /\ 0 <= Lengths[n]
        BY <1>1, <1>2, <1>4
      <4> QED
        BY <1>6, <3>2, <4>1
    <3> QED
      BY <1>8, <3>1, <3>2
  <2>4. ASSUME NEW i \in 1..Slots, NEW j \in 1..Slots,
               streams'[i].sound = streams'[j].sound, streams'[i].sound # 0
        PROVE  i = j
    <3>1. \A e, f \in 1..Slots : streams[e].sound = streams[f].sound /\ streams[e].sound # 0 => e = f
      BY DEF SoundInd, StreamsOK
    <3>2. CASE streams' = streams
      BY <2>4, <3>1, <3>2
    <3>3. CASE \E k \in 1..Slots : streams' = [streams EXCEPT ![k] = new]
      <4>1. PICK k \in 1..Slots : streams' = [streams EXCEPT ![k] = new]
        BY <3>3
      <4>2. streams'[k] = new /\ \A e \in 1..Slots : e # k => streams'[e] = streams[e]
        BY <1>1, <4>1
      <4> QED
        BY <1>6, <1>9, <2>4, <3>1, <4>2
    <3> QED
      BY <1>7, <3>2, <3>3
  <2> QED
    BY <2>1, <2>2, <2>3, <2>4 DEF StreamsOK
<1>11. ASSUME NEW s \in A!Sounds, NEW x \in Nat, NextIs(s, x)
       PROVE  NextIs(s, x)'
  <2>1. s \in Nat
    BY <1>1 DEF A!Sounds
  <2>2. started' < s => x = 0
    BY <1>1, <1>2, <1>11, <2>1 DEF NextIs
  <2>3. ASSUME NEW i \in 1..Slots, streams'[i].sound = s
        PROVE  streams'[i].position = x
    <3>1. CASE streams'[i] = streams[i]
      BY <1>11, <2>3, <3>1 DEF NextIs
    <3>2. CASE streams'[i] = new
      <4>1. s = n
        BY <1>6, <2>3, <3>2
      <4>2. started < s
        BY <1>1, <1>4, <4>1
      <4>3. x = 0
        BY <1>11, <4>2 DEF NextIs
      <4> QED
        BY <1>6, <3>2, <4>3
    <3> QED
      BY <1>8, <3>1, <3>2
  <2> QED
    BY <2>2, <2>3 DEF NextIs
<1> QED
  BY <1>2, <1>3, <1>10, <1>11, QueueSame

(* The half that is overwritten is one that was played.                    *)
LEMMA SoundProcessAudio ==
  ASSUME AudioAssumption, SoundInd, RingInd', A!ProcessAudio
  PROVE  SoundInd'
<1>1. /\ UNCHANGED <<started, bdl, sw_lvi, buffersOccupied, civ, lvi, device, heard>>
      /\ filling \in {"first", "update"} /\ filling' \in {"first written", "update written"}
      /\ streams' = [i \in 1..Slots |-> A!Advanced(streams[i])]
      /\ ram' = [ram EXCEPT ![sw_lvi % 2] = A!Mixed]
  BY DEF A!ProcessAudio, A!hardware
<1>2. RingInd /\ StreamsOK /\ Described /\ Buffers
  BY DEF SoundInd
<1>3. Underway = 0 /\ Underway' = 1
  BY <1>1 DEF Underway
<1>4. Ahead' = Ahead
  BY <1>1 DEF Ahead, Left
<1>5. Ahead \in 0..1 /\ Latest \in {0, 1}
  <2>1. Ahead \in 0..2 /\ Latest \in {0, 1} /\ Ahead <= buffersOccupied
    BY <1>2, QueueIs
  <2>2. buffersOccupied \in 0..2 /\ buffersOccupied < 2
    BY DEF SoundInd, RingInd, RingType, A!ProcessAudio, A!IsReadyForData
  <2> QED
    BY <2>1, <2>2
<1>6. sw_lvi % 2 \in {0, 1}
  <2>1. sw_lvi \in 0..(Entries - 1)
    BY <1>2 DEF RingInd, RingType
  <2> QED
    BY <2>1, TurnIs
<1>7. Coming \in 0..1 /\ Coming' = Coming + 1
  <2>1. Coming = Ahead + Underway /\ Coming' = Ahead' + Underway'
    BY DEF Coming
  <2> QED
    BY <1>3, <1>4, <1>5, <2>1
<1>8. Latest' = sw_lvi % 2 /\ Latest = 1 - Latest' /\ 1 - Latest' \in {0, 1} /\ 1 - Latest' # Latest'
  <2>1. Latest' = sw_lvi' % 2 /\ Latest = 1 - (sw_lvi % 2)
    BY <1>3 DEF Latest
  <2>2. Latest' = sw_lvi % 2
    BY <1>1, <2>1
  <2> QED
    BY <1>6, <2>1, <2>2
<1>9. ram'[Latest'] = A!Mixed /\ ram'[1 - Latest'] = ram[Latest]
  BY <1>1, <1>2, <1>6, <1>8 DEF Buffers
<1>10. StreamsOK'
  BY <1>1, <1>2, StreamsAdvance
<1>11. Described'
  BY <1>1, <1>2, <1>4 DEF Described
<1>12. ASSUME NEW s \in A!Sounds
       PROVE  Wholly(s)' /\ A!Mixed[s] \in Seq(Nat)
  <2>1. PICK x \in Nat : Follows(heard[s], Coming, ram[1 - Latest][s], ram[Latest][s], x) /\ NextIs(s, x)
    BY DEF SoundInd, Wholly
  <2>2. PICK y \in Nat : x <= y /\ A!Mixed[s] = Interval(x, y) /\ NextIs(s, y)'
    BY <1>1, <1>2, <2>1, MixedIs
  <2>3. Follows(heard[s], Coming + 1, ram[Latest][s], A!Mixed[s], y)
    BY <1>7, <2>1, <2>2, FollowsMixed
  <2>4. Follows(heard'[s], Coming', ram'[1 - Latest'][s], ram'[Latest'][s], y)
    BY <1>1, <1>7, <1>9, <2>3
  <2>5. A!Mixed[s] \in Seq(Nat)
    <3>1. x \in 0..y
      BY <2>2
    <3> QED
      BY <2>2, <3>1, IntervalSeq
  <2> QED
    BY <2>2, <2>4, <2>5 DEF Wholly
<1>13. Buffers'
  <2>1. PICK m : m = A!Mixed
    OBVIOUS
  <2>2. m \in [A!Sounds -> Seq(Nat)]
    <3>1. m = [s \in A!Sounds |-> m[s]]
      BY <2>1 DEF A!Mixed
    <3>2. \A s \in A!Sounds : m[s] \in Seq(Nat)
      BY <1>12, <2>1
    <3> QED
      BY <3>1, <3>2
  <2>3. ram' = [ram EXCEPT ![sw_lvi % 2] = m]
    BY <1>1, <2>1
  <2>4. ram \in [{0, 1} -> [A!Sounds -> Seq(Nat)]] /\ heard \in [A!Sounds -> Seq(Nat)]
    BY DEF SoundInd, Buffers
  <2>5. ram' \in [{0, 1} -> [A!Sounds -> Seq(Nat)]]
    BY <2>2, <2>3, <2>4
  <2> QED
    BY <1>1, <1>2, <2>4, <2>5 DEF Buffers
<1> QED
  BY <1>10, <1>11, <1>12, <1>13 DEF SoundInd

(* What was written is at the end of the ring, and its descriptor names    *)
(* the half that holds it.                                                 *)
LEMMA SoundWriteData ==
  ASSUME AudioAssumption, SoundInd, RingInd', A!WriteData
  PROVE  SoundInd'
<1>1. Entries \in Nat /\ Entries >= 2
  BY TwoEntries
<1>2. RingInd /\ StreamsOK /\ Described /\ Buffers
  BY DEF SoundInd
<1>3. RingType /\ Flags /\ Steps /\ (Off \/ Playing \/ Halted)
  BY <1>2 DEF RingInd
<1>4. sw_lvi \in 0..(Entries - 1) /\ lvi \in 0..(Entries - 1) /\ civ \in 0..(Entries - 1)
  BY <1>3 DEF RingType
<1>5. (sw_lvi + 1) % Entries = After(sw_lvi) /\ (civ + 1) % Entries = After(civ)
  BY <1>1, <1>4, AfterIs DEF After
<1>6. /\ UNCHANGED <<started, streams, ram, heard>>
      /\ filling \in {"first written", "update written"} /\ filling' \in {"first", "update"}
      /\ lvi' = sw_lvi /\ sw_lvi' = After(sw_lvi) /\ buffersOccupied' = buffersOccupied + 1
      /\ bdl' = [bdl EXCEPT ![sw_lvi] = sw_lvi % 2]
      /\ device = "halted" => device' = "playing" /\ civ' = After(civ)
      /\ device # "halted" => device' = device /\ civ' = civ
  BY <1>5 DEF A!WriteData
<1>7. Underway = 1 /\ Underway' = 0
  BY <1>6 DEF Underway
<1>8. sw_lvi % 2 \in {0, 1} /\ After(sw_lvi) % 2 = 1 - (sw_lvi % 2)
  BY <1>4, TurnIs
<1>9. Latest = sw_lvi % 2 /\ Latest' = Latest /\ Latest \in {0, 1}
  <2>1. Latest = sw_lvi % 2 /\ Latest' = 1 - (sw_lvi' % 2)
    BY <1>7 DEF Latest
  <2>2. Latest' = 1 - (1 - (sw_lvi % 2))
    BY <1>6, <1>8, <2>1
  <2> QED
    BY <1>8, <2>1, <2>2
<1>10. bdl'[sw_lvi] = sw_lvi % 2 /\ bdl' \in [0..(Entries - 1) -> {0, 1}]
  BY <1>2, <1>4, <1>6, <1>8 DEF Described
<1>11. buffersOccupied \in {0, 1}
  <2>1. buffersOccupied \in 0..2
    BY <1>3 DEF RingType
  <2>2. buffersOccupied < 2
    BY <1>3, <1>6 DEF Steps
  <2>3. buffersOccupied \in 0..1
    BY <2>1, <2>2
  <2> QED
    BY <2>3
<1>12. Ahead' = Ahead + 1 /\ Ahead \in Nat /\ bdl'[civ'] = civ' % 2
  <2>1. CASE Off
    <3>1. device = "off" /\ device' = "off" /\ civ = 0 /\ civ' = 0
      BY <1>6, <2>1 DEF Off
    <3>2. Ahead = buffersOccupied /\ Ahead' = buffersOccupied'
      BY <3>1 DEF Ahead
    <3>3. bdl'[0] = 0 % 2
      <4>1. CASE buffersOccupied = 0
        BY <1>10, <2>1, <4>1 DEF Off
      <4>2. CASE buffersOccupied = 1
        <5>1. sw_lvi = 1
          BY <2>1, <4>2 DEF Off
        <5>2. bdl[0] = 0 % 2
          BY <1>2, <3>1, <3>2, <4>2 DEF Described
        <5>3. 0 \in 0..(Entries - 1) /\ 0 # sw_lvi
          BY <1>1, <5>1
        <5>4. bdl'[0] = bdl[0]
          BY <1>2, <1>6, <5>3 DEF Described
        <5> QED
          BY <5>2, <5>4
      <4> QED
        BY <1>11, <4>1, <4>2
    <3>4. Ahead' = Ahead + 1
      BY <1>6, <3>2
    <3>5. Ahead \in Nat
      BY <1>11, <3>2
    <3> QED
      BY <3>1, <3>3, <3>4, <3>5
  <2>2. CASE Playing
    <3>1. device = "playing" /\ device' = "playing" /\ civ' = civ /\ sw_lvi = After(lvi)
      BY <1>6, <2>2 DEF Playing
    <3>2. Left \in Nat \ {0} /\ Waiting \in {0, 1} /\ buffersOccupied = Left + Waiting
      BY <1>1, <1>3, <1>4, <2>2, WaitingIs DEF Left, Playing
    <3>3. Left = 1
      BY <1>11, <3>2
    <3>4. lvi = civ
      BY <1>1, <1>4, <3>3 DEF Left
    <3>5. Ahead = 1 /\ Ahead' = Left'
      BY <3>1, <3>3 DEF Ahead
    <3>6. civ' = lvi /\ lvi' = After(lvi)
      BY <1>6, <3>1, <3>4
    <3>7. Left' = 2
      BY <1>1, <1>4, <3>6 DEF Left, After
    <3>8. bdl[civ] = civ % 2
      BY <1>2, <3>5 DEF Described
    <3>9. sw_lvi # civ
      BY <1>1, <1>4, <3>1, <3>4 DEF After
    <3>10. bdl'[civ] = bdl[civ]
      BY <1>2, <1>4, <1>6, <3>9 DEF Described
    <3> QED
      BY <3>1, <3>5, <3>7, <3>8, <3>10
  <2>3. CASE Halted
    <3>1. device = "halted" /\ device' = "playing" /\ civ' = sw_lvi
      BY <1>6, <2>3 DEF Halted
    <3>2. Left' = 1
      <4>1. PICK v \in Nat : v = sw_lvi
        BY <1>1, <1>4
      <4>2. lvi' = v /\ civ' = v
        BY <1>6, <3>1, <4>1
      <4> QED
        BY <4>2 DEF Left
    <3>3. Ahead = 0 /\ Ahead' = 1
      BY <3>1, <3>2 DEF Ahead
    <3> QED
      BY <1>10, <3>1, <3>3
  <2> QED
    BY <1>3, <2>1, <2>2, <2>3
<1>13. Coming' = Coming
  BY <1>7, <1>12 DEF Coming
<1>14. Described'
  BY <1>6, <1>10, <1>12 DEF Described
<1>15. StreamsOK' /\ Buffers'
  BY <1>2, <1>6 DEF StreamsOK, Buffers
<1>16. ASSUME NEW s \in A!Sounds
       PROVE  Wholly(s)'
  <2>1. PICK x \in Nat : Follows(heard[s], Coming, ram[1 - Latest][s], ram[Latest][s], x) /\ NextIs(s, x)
    BY DEF SoundInd, Wholly
  <2>2. Follows(heard[s], Coming, ram[1 - Latest][s], ram[Latest][s], x)'
    BY <1>6, <1>9, <1>13, <2>1 DEF Follows
  <2>3. NextIs(s, x)'
    BY <1>6, <2>1 DEF NextIs
  <2> QED
    BY <2>2, <2>3 DEF Wholly
<1> QED
  BY <1>14, <1>15, <1>16 DEF SoundInd

(* The device plays the half that is the next to come.                     *)
LEMMA SoundBufferPlayed ==
  ASSUME AudioAssumption, SoundInd, RingInd', A!BufferPlayed
  PROVE  SoundInd'
<1>1. Entries \in Nat /\ Entries >= 2
  BY TwoEntries
<1>2. RingInd /\ StreamsOK /\ Described /\ Buffers
  BY DEF SoundInd
<1>3. sw_lvi \in 0..(Entries - 1) /\ lvi \in 0..(Entries - 1) /\ civ \in 0..(Entries - 1)
  BY <1>2 DEF RingInd, RingType
<1>4. (civ + 1) % Entries = After(civ)
  BY <1>1, <1>3, AfterIs DEF After
<1>5. /\ device = "playing" /\ UNCHANGED <<started, streams, filling, ram, bdl, sw_lvi, buffersOccupied, lvi>>
      /\ heard' = [s \in A!Sounds |-> heard[s] \o ram[bdl[civ]][s]]
      /\ civ = lvi => device' = "halted" /\ civ' = civ
      /\ civ # lvi => device' = device /\ civ' = After(civ)
  BY <1>4 DEF A!BufferPlayed, A!mixer, A!driver
<1>6. /\ Ahead \in {1, 2} /\ Coming \in {1, 2} /\ Latest \in {0, 1}
      /\ Ahead = 1 => civ = lvi
      /\ Ahead = 2 => lvi = After(civ)
      /\ civ % 2 = IF Coming = 2 THEN 1 - Latest ELSE Latest
  BY <1>2, <1>5, QueueIs
<1>7. Underway' = Underway /\ Latest' = Latest /\ Underway \in {0, 1}
  <2>1. Underway' = Underway /\ Underway \in {0, 1}
    BY <1>5 DEF Underway
  <2> QED
    BY <1>5, <2>1 DEF Latest
<1>8. Ahead' = Ahead - 1 /\ (Ahead' > 0 => civ' = lvi /\ Ahead = 2)
  <2>1. CASE Ahead = 1
    <3>1. Ahead' = 0
      BY <1>5, <1>6, <2>1 DEF Ahead
    <3> QED
      BY <2>1, <3>1
  <2>2. CASE Ahead = 2
    <3>1. lvi = After(civ) /\ civ # lvi
      BY <1>1, <1>3, <1>6, <2>2 DEF After
    <3>2. device' = "playing" /\ civ' = lvi /\ lvi' = lvi
      BY <1>5, <3>1
    <3>3. Left' = 1
      BY <1>3, <3>2 DEF Left
    <3>4. Ahead' = 1
      BY <3>2, <3>3 DEF Ahead
    <3> QED
      BY <2>2, <3>2, <3>4
  <2> QED
    BY <1>6, <2>1, <2>2
<1>9. Coming' = Coming - 1
  <2>1. Coming = Ahead + Underway /\ Coming' = Ahead' + Underway'
    BY DEF Coming
  <2> QED
    BY <1>6, <1>7, <1>8, <2>1
<1>10. Described'
  <2>1. Ahead > 0 => bdl[lvi] = lvi % 2
    BY <1>2 DEF Described
  <2>2. Ahead' > 0 => bdl'[civ'] = civ' % 2 /\ bdl'[lvi'] = lvi' % 2
    BY <1>5, <1>6, <1>8, <2>1
  <2> QED
    BY <1>2, <1>5, <2>2 DEF Described
<1>11. StreamsOK'
  BY <1>2, <1>5 DEF StreamsOK
<1>12. bdl[civ] = civ % 2
  BY <1>2, <1>6 DEF Described
<1>13. Buffers'
  <2>1. \A s \in A!Sounds : heard[s] \in Seq(Nat) /\ ram[bdl[civ]][s] \in Seq(Nat)
    <3>1. bdl[civ] \in {0, 1}
      BY <1>2, <1>3 DEF Described
    <3> QED
      BY <1>2, <3>1 DEF Buffers
  <2>2. \A s \in A!Sounds : heard[s] \o ram[bdl[civ]][s] \in Seq(Nat)
    BY <2>1
  <2>3. heard' \in [A!Sounds -> Seq(Nat)]
    BY <1>5, <2>2
  <2> QED
    BY <1>2, <1>5, <2>3 DEF Buffers
<1>14. ASSUME NEW s \in A!Sounds
       PROVE  Wholly(s)'
  <2>1. PICK x \in Nat : Follows(heard[s], Coming, ram[1 - Latest][s], ram[Latest][s], x) /\ NextIs(s, x)
    BY DEF SoundInd, Wholly
  <2>2. heard'[s] = heard[s] \o (IF Coming = 2 THEN ram[1 - Latest][s] ELSE ram[Latest][s])
    BY <1>5, <1>6, <1>12
  <2>3. Coming \in 1..2
    BY <1>6
  <2>4. Follows(heard'[s], Coming - 1, ram[1 - Latest][s], ram[Latest][s], x)
    <3>1. Follows(heard[s] \o (IF Coming = 2 THEN ram[1 - Latest][s] ELSE ram[Latest][s]),
                  Coming - 1, ram[1 - Latest][s], ram[Latest][s], x)
      BY <2>1, <2>3, FollowsPlayed
    <3> QED
      BY <2>2, <3>1
  <2>5. Follows(heard[s], Coming, ram[1 - Latest][s], ram[Latest][s], x)'
    BY <1>5, <1>7, <1>9, <2>4 DEF Follows
  <2>6. NextIs(s, x)'
    BY <1>5, <2>1 DEF NextIs
  <2> QED
    BY <2>5, <2>6 DEF Wholly
<1> QED
  BY <1>10, <1>11, <1>13, <1>14 DEF SoundInd

(* Every step keeps the halves in order.                                   *)
LEMMA SoundStep == ASSUME AudioAssumption, SoundInd, [A!Next]_(A!vars) PROVE SoundInd'
<1>1. RingInd /\ RingInd'
  BY RingStep DEF SoundInd
<1>2. ASSUME UNCHANGED <<started, streams>>
      PROVE  StreamsOK' /\ \A s \in A!Sounds, x \in Nat : NextIs(s, x) => NextIs(s, x)'
  BY <1>2 DEF SoundInd, StreamsOK, NextIs
<1>3. RingType /\ Flags /\ Steps /\ (Off \/ Playing \/ Halted)
  BY <1>1 DEF RingInd
<1>4. CASE A!PlayBuffer
  BY <1>1, <1>4, SoundPlayBuffer
<1>5. CASE A!Update
  <2>1. /\ UNCHANGED <<started, streams, ram, bdl, heard, sw_lvi, buffersOccupied, civ, lvi, device>>
        /\ filling = "no" /\ filling' = "update"
    BY <1>5 DEF A!Update, A!driver, A!hardware
  <2>2. Ahead' = Ahead /\ Underway' = Underway /\ Latest' = Latest
    BY <2>1, OnlyFilling
  <2> QED
    BY <1>1, <1>2, <2>1, <2>2, QueueSame
<1>6. CASE A!ProcessAudio
  BY <1>1, <1>6, SoundProcessAudio
<1>7. CASE A!WriteData
  BY <1>1, <1>7, SoundWriteData
<1>8. CASE A!Filled
  <2>1. /\ UNCHANGED <<started, streams, ram, bdl, heard, sw_lvi, buffersOccupied, civ, lvi>>
        /\ filling \in {"first", "update"} /\ filling' = "no" /\ ~(buffersOccupied < 2)
        /\ filling = "first" => device' = "playing"
        /\ filling # "first" => device' = device
    BY <1>8 DEF A!Filled, A!IsReadyForData
  <2>2. Underway' = Underway /\ Latest' = Latest
    <3>1. Underway = 0 /\ Underway' = 0
      BY <2>1 DEF Underway
    <3> QED
      BY <2>1, <3>1 DEF Latest
  <2>3. Ahead' = Ahead
    <3>1. CASE filling = "first"
      <4>1. Off
        BY <1>3, <3>1 DEF Steps, Off, Playing, Halted
      <4>2. buffersOccupied = 2
        <5>1. buffersOccupied \in 0..2 /\ ~(buffersOccupied < 2)
          BY <1>3, <2>1 DEF RingType
        <5> QED
          BY <5>1
      <4>3. civ' = 0 /\ lvi' = 1 /\ Ahead = 2
        BY <2>1, <4>1, <4>2 DEF Off, Ahead
      <4>4. Left' = 2
        BY <4>3 DEF Left
      <4> QED
        BY <2>1, <3>1, <4>3, <4>4 DEF Ahead
    <3>2. CASE filling # "first"
      BY <2>1, <3>2 DEF Ahead, Left
    <3> QED
      BY <3>1, <3>2
  <2> QED
    BY <1>1, <1>2, <2>1, <2>2, <2>3, QueueSame
<1>9. CASE A!BufferPlayed
  BY <1>1, <1>9, SoundBufferPlayed
<1>10. CASE A!OnInterrupt
  <2>1. /\ UNCHANGED <<started, streams, ram, bdl, heard, sw_lvi, filling, civ, lvi, device>>
        /\ pending
    BY <1>10 DEF A!OnInterrupt, A!mixer
  <2>2. device # "off"
    BY <1>3, <2>1 DEF Flags
  <2>3. Ahead' = Ahead /\ Underway' = Underway
    BY <2>1, <2>2 DEF Ahead, Left, Underway
  <2>4. Latest' = Latest
    BY <2>1, <2>3 DEF Latest
  <2> QED
    BY <1>1, <1>2, <2>1, <2>3, <2>4, QueueSame
<1>11. CASE UNCHANGED A!vars
  <2>1. UNCHANGED <<started, streams, ram, bdl, heard, filling, sw_lvi, buffersOccupied, civ, lvi, device>>
    BY <1>11 DEF A!vars, A!mixer, A!driver, A!hardware
  <2>2. Ahead' = Ahead /\ Underway' = Underway
    BY <2>1 DEF Ahead, Left, Underway
  <2>3. Latest' = Latest
    BY <2>1, <2>2 DEF Latest
  <2> QED
    BY <1>1, <1>2, <2>1, <2>2, <2>3, QueueSame
<1> QED
  BY <1>4, <1>5, <1>6, <1>7, <1>8, <1>9, <1>10, <1>11 DEF A!Next

(* Then every sound is whole.                                              *)
LEMMA SoundMeans == ASSUME SoundInd PROVE A!SoundWhole
<1> SUFFICES ASSUME NEW s \in A!Sounds
             PROVE  \A i \in 1..Len(heard[s]) : heard[s][i] = i
  BY DEF A!SoundWhole
<1>1. PICK x \in Nat : Follows(heard[s], Coming, ram[1 - Latest][s], ram[Latest][s], x)
  BY DEF SoundInd, Wholly
<1> QED
  BY <1>1, FollowsHeard

(* In every reachable state each sound was heard from its first sample on, *)
(* nothing twice and nothing left out, with any number of streams, sounds  *)
(* and entries of the ring: ProcessAudio() overwrites no half that is      *)
(* still to be played.                                                     *)
THEOREM SoundAlwaysWhole == ASSUME AudioAssumption PROVE A!Spec => []A!SoundWhole
<1>1. A!Init => SoundInd
  BY SoundInit
<1>2. SoundInd /\ [A!Next]_(A!vars) => SoundInd'
  BY SoundStep
<1>3. SoundInd => A!SoundWhole
  BY SoundMeans
<1> QED
  BY <1>1, <1>2, <1>3, PTL DEF A!Spec

-----------------------------------------------------------------------------
(* The kernel log                                                          *)

(* The ring has a place at least, the numbers are machine integers, and    *)
(* nobody prints while the idle task sends.                                *)
LogAssumption ==
  /\ Size \in Nat \ {0}
  /\ IntMin \in Int /\ IntMin < 0 /\ Numbers \subseteq IntMin..(- IntMin)
  /\ Output \in Nat \ {0}
  /\ IdleInterrupted = FALSE

(* A place further on in a ring.                                           *)
LEMMA PlaceIs ==
  ASSUME NEW E \in Nat \ {0}, NEW h \in 0..(E - 1), NEW k \in 0..E
  PROVE  /\ (h + k) % E = IF h + k < E THEN h + k ELSE (h + k) - E
         /\ (h + k) % E \in 0..(E - 1)
<1>1. CASE h + k < E
  <2>1. PICK x \in Nat : x = h + k
    OBVIOUS
  <2>2. x % E = x
    BY <1>1, <2>1
  <2> QED
    BY <1>1, <2>1, <2>2
<1>2. CASE ~(h + k < E)
  <2>1. PICK x \in Nat : x = (h + k) - E /\ x < E /\ h + k = x + E
    BY <1>2
  <2>2. (x + E) % E = x
    BY <2>1
  <2> QED
    BY <1>2, <2>1, <2>2
<1> QED
  BY <1>1, <1>2

(* The distance from one place of a ring to another.                       *)
LEMMA SpanIs ==
  ASSUME NEW E \in Nat \ {0}, NEW h \in 0..(E - 1), NEW w \in 0..(E - 1)
  PROVE  /\ (w + E - h) % E = IF w >= h THEN w - h ELSE (w - h) + E
         /\ (w + E - h) % E \in 0..(E - 1)
<1>1. CASE w >= h
  <2>1. PICK x \in Nat : x = w - h /\ x < E /\ w + E - h = x + E
    BY <1>1
  <2>2. (x + E) % E = x
    BY <2>1
  <2> QED
    BY <1>1, <2>1, <2>2
<1>2. CASE ~(w >= h)
  <2>1. PICK x \in Nat : x = (w - h) + E /\ x < E /\ w + E - h = x
    BY <1>2
  <2>2. x % E = x
    BY <2>1
  <2> QED
    BY <1>2, <2>1, <2>2
<1> QED
  BY <1>1, <1>2

(* The k-th place behind h, and how far it is from h to w.                 *)
Place(h, k) == (h + k) % Size
Span(h, w) == (w + Size - h) % Size

(* What a ring holds from one place up to another.                         *)
Rest(b, h, w) == [i \in 1..((w + Size - h) % Size) |-> b[(h + i - 1) % Size]]

(* Place f is the next one, and ring d has what b has, and c at place w.   *)
NextTo(f, w) == f = L!Following(w)
PutAt(d, b, w, c) == d = [b EXCEPT ![w] = c]

(* What the ring may hold.                                                 *)
Rings == [0..(Size - 1) -> Int]

(* The places are those of the ring.                                       *)
LEMMA PlaceInRing ==
  ASSUME LogAssumption, NEW h \in 0..(Size - 1), NEW k \in 0..Size
  PROVE  /\ Place(h, k) = IF h + k < Size THEN h + k ELSE (h + k) - Size
         /\ Place(h, k) \in 0..(Size - 1)
<1>1. Size \in Nat \ {0}
  BY DEF LogAssumption
<1> QED
  BY <1>1, PlaceIs DEF Place

(* Two places are less than its length apart.                              *)
LEMMA SpanInRing ==
  ASSUME LogAssumption, NEW h \in 0..(Size - 1), NEW w \in 0..(Size - 1)
  PROVE  /\ Span(h, w) = IF w >= h THEN w - h ELSE (w - h) + Size
         /\ Span(h, w) \in 0..(Size - 1)
<1>1. Size \in Nat \ {0}
  BY DEF LogAssumption
<1> QED
  BY <1>1, SpanIs DEF Span

(* The place that follows is the first one behind.                         *)
LEMMA FollowingIs ==
  ASSUME LogAssumption, NEW h \in 0..(Size - 1)
  PROVE  /\ L!Following(h) = IF h + 1 < Size THEN h + 1 ELSE (h + 1) - Size
         /\ L!Following(h) \in 0..(Size - 1)
<1>1. 1 \in 0..Size
  BY DEF LogAssumption
<1>2. L!Following(h) = Place(h, 1)
  BY DEF L!Following, Place
<1> QED
  BY <1>1, <1>2, PlaceInRing

(* It is a sequence.                                                       *)
LEMMA RestIs ==
  ASSUME LogAssumption, NEW b \in Rings, NEW h \in 0..(Size - 1), NEW w \in 0..(Size - 1)
  PROVE  /\ Span(h, w) \in 0..(Size - 1)
         /\ Rest(b, h, w) \in Seq(Int) /\ Len(Rest(b, h, w)) = Span(h, w)
         /\ \A i \in 1..Span(h, w) :
              /\ Place(h, i - 1) \in 0..(Size - 1)
              /\ Rest(b, h, w)[i] = b[Place(h, i - 1)]
<1>1. Size \in Nat \ {0}
  BY DEF LogAssumption
<1>2. PICK n \in 0..(Size - 1) : n = Span(h, w)
  BY <1>1, SpanInRing
<1>3. \A i \in 1..n : h + i - 1 = h + (i - 1) /\ i - 1 \in 0..Size
  BY <1>1
<1>4. \A i \in 1..n : Place(h, i - 1) \in 0..(Size - 1)
  BY <1>1, <1>3, PlaceInRing
<1>5. Rest(b, h, w) = [i \in 1..n |-> b[Place(h, i - 1)]]
  BY <1>2, <1>3 DEF Rest, Place, Span
<1>6. \A i \in 1..n : b[Place(h, i - 1)] \in Int
  BY <1>4 DEF Rings
<1>7. n \in Nat
  BY <1>1
<1>8. Rest(b, h, w) \in Seq(Int) /\ Len(Rest(b, h, w)) = n
  BY <1>5, <1>6, <1>7
<1>9. \A i \in 1..n : Rest(b, h, w)[i] = b[Place(h, i - 1)]
  BY <1>5
<1> QED
  BY <1>2, <1>4, <1>8, <1>9

(* The ring without its first character.                                   *)
LEMMA RestHead ==
  ASSUME LogAssumption, NEW b \in Rings, NEW h \in 0..(Size - 1), NEW w \in 0..(Size - 1), h # w
  PROVE  /\ L!Following(h) \in 0..(Size - 1) /\ b[h] \in Int
         /\ Rest(b, h, w) = <<b[h]>> \o Rest(b, L!Following(h), w)
<1>1. Size \in Nat \ {0} /\ b[h] \in Int
  BY DEF LogAssumption, Rings
<1>2. PICK f \in 0..(Size - 1) : f = L!Following(h)
  BY FollowingIs
<1>3. f = IF h + 1 < Size THEN h + 1 ELSE (h + 1) - Size
  BY <1>1, <1>2, FollowingIs
<1>4. PICK n \in 0..(Size - 1) : n = Span(h, w)
  BY <1>1, SpanInRing
<1>5. PICK m \in 0..(Size - 1) : m = Span(f, w)
  BY <1>1, SpanInRing
<1>6. n = m + 1
  <2>1. n = IF w >= h THEN w - h ELSE (w - h) + Size
    BY <1>1, <1>4, SpanInRing
  <2>2. m = IF w >= f THEN w - f ELSE (w - f) + Size
    BY <1>1, <1>5, SpanInRing
  <2> QED
    BY <1>1, <1>3, <2>1, <2>2
<1> DEFINE s == Rest(b, h, w)
           t == Rest(b, f, w)
<1>7. s \in Seq(Int) /\ Len(s) = n /\ \A i \in 1..n : s[i] = b[Place(h, i - 1)]
  <2>1. /\ Rest(b, h, w) \in Seq(Int) /\ Len(Rest(b, h, w)) = Span(h, w)
        /\ \A i \in 1..Span(h, w) : Rest(b, h, w)[i] = b[Place(h, i - 1)]
    BY RestIs
  <2> QED
    BY <1>4, <2>1
<1>8. t \in Seq(Int) /\ Len(t) = m /\ \A i \in 1..m : t[i] = b[Place(f, i - 1)]
  <2>1. /\ Rest(b, f, w) \in Seq(Int) /\ Len(Rest(b, f, w)) = Span(f, w)
        /\ \A i \in 1..Span(f, w) : Rest(b, f, w)[i] = b[Place(f, i - 1)]
    BY RestIs
  <2> QED
    BY <1>5, <2>1
<1> HIDE DEF s, t
<1>9. PICK u \in Seq(Int) : u = <<b[h]>> /\ Len(u) = 1 /\ u[1] = b[h]
  <2>1. <<b[h]>> \in Seq(Int) /\ Len(<<b[h]>>) = 1 /\ <<b[h]>>[1] = b[h]
    BY <1>1
  <2> QED
    BY <2>1
<1>10. /\ u \o t \in Seq(Int) /\ Len(u \o t) = 1 + m
       /\ \A i \in 1..1 + m : (u \o t)[i] = IF i <= 1 THEN u[i] ELSE t[i - 1]
  BY <1>8, <1>9, ConcatProperties
<1>11. ASSUME NEW i \in 1..n
       PROVE  s[i] = (u \o t)[i]
  <2>1. CASE i = 1
    <3>1. Place(h, i - 1) = h
      <4>1. h + (i - 1) = h + 0 /\ 0 \in 0..Size
        BY <1>1, <2>1
      <4>2. Place(h, 0) = IF h + 0 < Size THEN h + 0 ELSE (h + 0) - Size
        BY <1>1, <4>1, PlaceInRing
      <4>3. Place(h, 0) = h
        BY <1>1, <4>2
      <4> QED
        BY <4>1, <4>3
    <3>2. s[i] = b[h]
      BY <1>7, <3>1
    <3>3. (u \o t)[i] = b[h]
      BY <1>6, <1>9, <1>10, <2>1
    <3> QED
      BY <3>2, <3>3
  <2>2. CASE i # 1
    <3>1. i - 1 \in 1..m /\ i \in 1..1 + m /\ ~(i <= 1)
      BY <1>6, <2>2
    <3>2. (u \o t)[i] = b[Place(f, (i - 1) - 1)]
      BY <1>8, <1>10, <3>1
    <3>3. Place(f, (i - 1) - 1) = Place(h, i - 1)
      <4>1. PICK k \in 0..Size : k = i - 1 /\ k - 1 \in 0..Size /\ k \in 1..(Size - 1)
        BY <1>1, <1>6, <3>1
      <4>2. Place(h, k) = IF h + k < Size THEN h + k ELSE (h + k) - Size
        BY <1>1, <4>1, PlaceInRing
      <4>3. Place(f, k - 1) = IF f + (k - 1) < Size THEN f + (k - 1) ELSE (f + (k - 1)) - Size
        BY <1>1, <4>1, PlaceInRing
      <4>4. (IF f + (k - 1) < Size THEN f + (k - 1) ELSE (f + (k - 1)) - Size)
              = IF h + k < Size THEN h + k ELSE (h + k) - Size
        BY <1>1, <1>3, <4>1
      <4>5. Place(f, k - 1) = Place(h, k)
        BY <4>2, <4>3, <4>4
      <4> QED
        BY <4>1, <4>5
    <3> QED
      BY <1>7, <3>2, <3>3
  <2> QED
    BY <2>1, <2>2
<1>12. s = u \o t
  <2>1. Len(s) = Len(u \o t) /\ \A i \in 1..Len(s) : s[i] = (u \o t)[i]
    BY <1>6, <1>7, <1>10, <1>11
  <2> QED
    BY <1>7, <1>10, <2>1, SameSequence
<1> QED
  BY <1>1, <1>2, <1>9, <1>12 DEF s, t

(* The ring with one character more.                                       *)
LEMMA RestPush ==
  ASSUME LogAssumption, NEW b \in Rings, NEW h \in 0..(Size - 1), NEW w \in 0..(Size - 1), NEW c \in Int,
         NEW f \in 0..(Size - 1), NextTo(f, w), f # h, NEW d \in Rings, PutAt(d, b, w, c)
  PROVE  Rest(d, h, f) = Append(Rest(b, h, w), c)
<1>1. Size \in Nat \ {0}
  BY DEF LogAssumption
<1>2. f = L!Following(w) /\ f # h
  BY DEF NextTo
<1>3. f = IF w + 1 < Size THEN w + 1 ELSE (w + 1) - Size
  BY <1>1, <1>2, FollowingIs
<1>4. PICK n \in 0..(Size - 1) : n = Span(h, w)
  BY <1>1, SpanInRing
<1>5. PICK m \in 0..(Size - 1) : m = Span(h, f)
  BY SpanInRing
<1>6. n = IF w >= h THEN w - h ELSE (w - h) + Size
  BY <1>1, <1>4, SpanInRing
<1>7. m = n + 1
  <2>1. m = IF f >= h THEN f - h ELSE (f - h) + Size
    BY <1>5, SpanInRing
  <2>2. f # h
    BY <1>2
  <2> QED
    BY <1>1, <1>3, <1>6, <2>1, <2>2
<1>8. d[w] = c /\ \A i \in 0..(Size - 1) : i # w => d[i] = b[i]
  BY DEF Rings, PutAt
<1> DEFINE s == Rest(b, h, w)
           t == Rest(d, h, f)
<1>9. s \in Seq(Int) /\ Len(s) = n
      /\ \A i \in 1..n : Place(h, i - 1) \in 0..(Size - 1) /\ s[i] = b[Place(h, i - 1)]
  <2>1. /\ Rest(b, h, w) \in Seq(Int) /\ Len(Rest(b, h, w)) = Span(h, w)
        /\ \A i \in 1..Span(h, w) : Place(h, i - 1) \in 0..(Size - 1) /\ Rest(b, h, w)[i] = b[Place(h, i - 1)]
    BY RestIs
  <2> QED
    BY <1>4, <2>1
<1>10. t \in Seq(Int) /\ Len(t) = m /\ \A i \in 1..m : t[i] = d[Place(h, i - 1)]
  <2>1. /\ Rest(d, h, f) \in Seq(Int) /\ Len(Rest(d, h, f)) = Span(h, f)
        /\ \A i \in 1..Span(h, f) : Place(h, i - 1) \in 0..(Size - 1) /\ Rest(d, h, f)[i] = d[Place(h, i - 1)]
    BY RestIs
  <2> QED
    BY <1>5, <2>1
<1> HIDE DEF s, t
<1>11. /\ Append(s, c) \in Seq(Int) /\ Len(Append(s, c)) = n + 1
       /\ \A i \in 1..n : Append(s, c)[i] = s[i]
       /\ Append(s, c)[n + 1] = c
  BY <1>9
<1>12. ASSUME NEW i \in 1..m
       PROVE  t[i] = Append(s, c)[i]
  <2>1. PICK k \in 0..Size : k = i - 1 /\ k \in 0..n
    BY <1>1, <1>7
  <2>2. Place(h, k) = IF h + k < Size THEN h + k ELSE (h + k) - Size
    BY <1>1, <2>1, PlaceInRing
  <2>3. CASE i = n + 1
    <3>1. k = n
      BY <2>1, <2>3
    <3>2. Place(h, k) = w
      BY <1>1, <1>6, <2>2, <3>1
    <3>3. t[i] = c
      BY <1>8, <1>10, <2>1, <3>2
    <3> QED
      BY <1>11, <2>3, <3>3
  <2>4. CASE i # n + 1
    <3>1. i \in 1..n /\ k \in 0..(n - 1)
      BY <1>7, <2>1, <2>4
    <3>2. Place(h, k) # w
      BY <1>1, <1>6, <2>2, <3>1
    <3>3. Place(h, k) \in 0..(Size - 1) /\ s[i] = b[Place(h, k)] /\ t[i] = d[Place(h, k)]
      BY <1>9, <1>10, <2>1, <3>1
    <3>4. t[i] = s[i]
      BY <1>8, <3>2, <3>3
    <3> QED
      BY <1>11, <3>1, <3>4
  <2> QED
    BY <2>3, <2>4
<1>13. t = Append(s, c)
  <2>1. Len(t) = Len(Append(s, c)) /\ \A i \in 1..Len(t) : t[i] = Append(s, c)[i]
    BY <1>7, <1>10, <1>11, <1>12
  <2> QED
    BY <1>10, <1>11, <2>1, SameSequence
<1> QED
  BY <1>2, <1>8, <1>13 DEF s, t

(* Where writing has come up with reading the ring is empty.               *)
LEMMA RestNone ==
  ASSUME LogAssumption, NEW b, NEW h \in 0..(Size - 1)
  PROVE  Rest(b, h, h) = <<>>
<1>1. Size \in Nat \ {0}
  BY DEF LogAssumption
<1>2. Span(h, h) = 0
  <2>1. Span(h, h) = IF h >= h THEN h - h ELSE (h - h) + Size
    BY <1>1, SpanInRing
  <2> QED
    BY <2>1
<1> QED
  BY <1>2 DEF Rest, Span

(* A character is put behind two texts as behind the second one.           *)
LEMMA AppendBehind ==
  ASSUME NEW t \in Seq(Int), NEW q \in Seq(Int), NEW c \in Int
  PROVE  Append(t \o q, c) = t \o Append(q, c)
<1>1. <<c>> \in Seq(Int)
  OBVIOUS
<1>2. t \o q \in Seq(Int)
  OBVIOUS
<1>3. Append(t \o q, c) = (t \o q) \o <<c>>
  BY <1>1, <1>2
<1>4. Append(q, c) = q \o <<c>>
  BY <1>1
<1>5. (t \o q) \o <<c>> = t \o (q \o <<c>>)
  BY <1>1, ConcatAssociative
<1> QED
  BY <1>3, <1>4, <1>5

(* A state of the ring, and those in which what was put in is what was     *)
(* sent and what is still there.                                           *)
RingStates ==
  [buffer : Rings, readHead : 0..(Size - 1), writeHead : 0..(Size - 1), accepted : Seq(Int), sent : Seq(Int)]

(* The states in which what was accepted is what was sent, followed by     *)
(* what is in the ring.                                                    *)
InOrder == {r \in RingStates : r.accepted = r.sent \o Rest(r.buffer, r.readHead, r.writeHead)}

(* SerialPush() keeps the order, whether the ring is full or not.          *)
LEMMA PushInOrder ==
  ASSUME LogAssumption, NEW r \in InOrder, NEW c \in Int
  PROVE  L!Push(r, c) \in InOrder
<1>1. PICK b \in Rings : b = r.buffer
  BY DEF InOrder, RingStates
<1>2. PICK h \in 0..(Size - 1) : h = r.readHead
  BY DEF InOrder, RingStates
<1>3. PICK w \in 0..(Size - 1) : w = r.writeHead
  BY DEF InOrder, RingStates
<1>4. PICK a \in Seq(Int) : a = r.accepted
  BY DEF InOrder, RingStates
<1>5. PICK t \in Seq(Int) : t = r.sent
  BY DEF InOrder, RingStates
<1>6. r = [buffer |-> b, readHead |-> h, writeHead |-> w, accepted |-> a, sent |-> t]
  BY <1>1, <1>2, <1>3, <1>4, <1>5 DEF InOrder, RingStates
<1>7. CASE L!Following(w) = h
  BY <1>2, <1>3, <1>7 DEF L!Push
<1>8. CASE L!Following(w) # h
  <2>1. PICK f \in 0..(Size - 1) : NextTo(f, w)
    BY FollowingIs DEF NextTo
  <2>2. PICK d \in Rings : PutAt(d, b, w, c)
    BY DEF PutAt, Rings
  <2>3. f # h
    BY <1>8, <2>1 DEF NextTo
  <2>4. Rest(d, h, f) = Append(Rest(b, h, w), c)
    BY <2>1, <2>2, <2>3, RestPush
  <2>5. L!Push(r, c) = [r EXCEPT !.buffer[w] = c, !.writeHead = f, !.accepted = Append(a, c)]
    BY <1>2, <1>3, <1>4, <1>8, <2>1 DEF L!Push, NextTo
  <2>6. L!Push(r, c) = [buffer |-> d, readHead |-> h, writeHead |-> f, accepted |-> Append(a, c), sent |-> t]
    BY <1>6, <2>2, <2>5 DEF PutAt
  <2>7. Append(a, c) = t \o Rest(d, h, f)
    <3>1. PICK q \in Seq(Int) : q = Rest(b, h, w)
      BY RestIs
    <3>2. a = t \o q
      BY <1>1, <1>2, <1>3, <1>4, <1>5, <3>1 DEF InOrder
    <3>3. Append(t \o q, c) = t \o Append(q, c)
      BY <3>1, AppendBehind
    <3> QED
      BY <2>4, <3>1, <3>2, <3>3
  <2>8. L!Push(r, c) \in RingStates
    BY <2>4, <2>6 DEF RingStates
  <2> QED
    BY <2>6, <2>7, <2>8 DEF InOrder
<1> QED
  BY <1>7, <1>8

(* FlushSerial() of who has interrupts off sends all that is there.        *)
LEMMA FlushInOrder ==
  ASSUME LogAssumption, NEW r \in InOrder, NEW ready \in BOOLEAN
  PROVE  L!Flush(r, ready) \in InOrder
<1>1. PICK b \in Rings : b = r.buffer
  BY DEF InOrder, RingStates
<1>2. PICK h \in 0..(Size - 1) : h = r.readHead
  BY DEF InOrder, RingStates
<1>3. PICK w \in 0..(Size - 1) : w = r.writeHead
  BY DEF InOrder, RingStates
<1>4. PICK a \in Seq(Int) : a = r.accepted
  BY DEF InOrder, RingStates
<1>5. PICK t \in Seq(Int) : t = r.sent
  BY DEF InOrder, RingStates
<1>6. r = [buffer |-> b, readHead |-> h, writeHead |-> w, accepted |-> a, sent |-> t]
  BY <1>1, <1>2, <1>3, <1>4, <1>5 DEF InOrder, RingStates
<1>7. a = t \o Rest(b, h, w)
  BY <1>1, <1>2, <1>3, <1>4, <1>5 DEF InOrder
<1>8. CASE ~ready
  BY <1>8 DEF L!Flush
<1>9. CASE ready
  <2>1. L!Flush(r, ready) = [r EXCEPT !.readHead = w, !.sent = t \o Rest(b, h, w)]
    BY <1>1, <1>2, <1>3, <1>5, <1>9 DEF L!Flush, Rest
  <2>2. L!Flush(r, ready) = [buffer |-> b, readHead |-> w, writeHead |-> w, accepted |-> a, sent |-> a]
    BY <1>6, <1>7, <2>1
  <2>3. a = a \o Rest(b, w, w)
    BY RestNone
  <2>4. L!Flush(r, ready) \in RingStates
    BY <2>2 DEF RingStates
  <2> QED
    BY <2>2, <2>3, <2>4 DEF InOrder
<1> QED
  BY <1>8, <1>9

(* SerialPrint() ends, and keeps the order.                                *)
LEMMA SerialPrintInOrder ==
  ASSUME LogAssumption, NEW text \in Seq(Int), NEW ready \in BOOLEAN,
         NEW start \in InOrder,
         start = [buffer |-> serialBuffer, readHead |-> readHead, writeHead |-> writeHead,
                  accepted |-> accepted, sent |-> sent]
  PROVE  L!SerialPrint(text, ready) \in InOrder
<1> DEFINE put(i, r) == L!Flush(L!Push(r, text[i]), ready)
           join == [x \in (1..Len(text)) \X InOrder |-> put(x[1], x[2])]
           Body(f) == [i \in 0..Len(text) |-> IF i = 0 THEN start ELSE put(i, f[i - 1])]
           after == CHOOSE f : f = Body(f)
<1>1. PICK n \in Nat : n = Len(text)
  OBVIOUS
<1>2. ASSUME NEW i \in 1..n, NEW r \in InOrder
      PROVE  put(i, r) \in InOrder
  <2>1. text[i] \in Int
    BY <1>1
  <2>2. L!Push(r, text[i]) \in InOrder
    BY <2>1, PushInOrder
  <2> QED
    BY <2>2, FlushInOrder
<1> HIDE DEF put
<1>3. \A i \in 1..n, r \in InOrder : join[<<i, r>>] = put(i, r) /\ join[<<i, r>>] \in InOrder
  BY <1>1, <1>2
<1>4. PICK g \in [0..n -> InOrder] : Counts(g, n, start, join)
  <2>1. StepsIn(n, InOrder, join)
    BY <1>3 DEF StepsIn
  <2> HIDE DEF join
  <2> QED BY <2>1, CountExists
<1>5. g[0] = start /\ \A i \in 1..n : g[i] = put(i, g[i - 1])
  <2> HIDE DEF join
  <2>1. \A i \in 1..n : i - 1 \in 0..n
    BY <1>1
  <2>2. \A i \in 1..n : g[i - 1] \in InOrder
    BY <1>4, <2>1
  <2> QED
    BY <1>3, <1>4, <2>2 DEF Counts
<1>6. g = Body(g)
  <2>1. g = [i \in 0..n |-> g[i]]
    BY <1>4
  <2>2. \A i \in 0..n : g[i] = IF i = 0 THEN start ELSE put(i, g[i - 1])
    BY <1>1, <1>5
  <2> QED
    BY <1>1, <2>1, <2>2
<1>7. after = Body(after)
  BY <1>6
<1>8. after[0] = start /\ \A i \in 1..n : after[i] = put(i, after[i - 1])
  <2> HIDE DEF after
  <2> QED
    BY <1>1, <1>7
<1>9. after[n] \in InOrder
  <2> HIDE DEF after
  <2>1. \A i \in 1..n : after[i - 1] \in InOrder => after[i] \in InOrder
    BY <1>2, <1>8
  <2>2. \A i \in 0..n : after[i] \in InOrder
    BY <1>1, <1>8, <2>1, CountKeeps
  <2> QED
    BY <1>1, <2>2
<1>10. L!SerialPrint(text, ready) = after[n]
  BY <1>1 DEF L!SerialPrint, put
<1> QED
  BY <1>9, <1>10

(* A number has digits, and a text is a sequence.                          *)
LEMMA DigitsAre ==
  ASSUME NEW n \in Nat, NEW base \in Nat, base >= 2
  PROVE  L!Digits(n, base) \in Seq(Int)
<1> DEFINE Body(f) == [k \in 0..n |-> IF k = 0 THEN <<>> ELSE Append(f[k \div base], k % base)]
           d == CHOOSE f : f = Body(f)
           size == [k \in 0..n |-> k]
           next == [k \in 0..n |-> k \div base]
           first == [k \in {0} |-> <<>>]
           join == [x \in (0..n) \X Seq(Int) |-> Append(x[2], x[1] % base)]
<1>1. ASSUME NEW k \in 1..n
      PROVE  k \div base \in 0..n /\ k \div base < k /\ k % base \in Int
  <2>1. PICK q \in Nat : q = k \div base
    OBVIOUS
  <2>2. PICK r \in 0..(base - 1) : r = k % base /\ k = base * q + r
    BY <2>1
  <2>3. q < k
    <3>1. CASE q = 0
      BY <3>1
    <3>2. CASE q # 0
      <4>1. 2 * q <= base * q
        BY <2>1, TimesMonotone
      <4>2. base * q \in Nat
        OBVIOUS
      <4>3. PICK z \in Nat : z = base * q
        BY <4>2
      <4>4. 2 * q <= z /\ z <= k /\ q >= 1
        BY <2>2, <3>2, <4>1, <4>3
      <4> QED
        BY <4>4
    <3> QED
      BY <3>1, <3>2
  <2> QED
    BY <2>1, <2>2, <2>3
<1>2. Descends(0..n, size, {0}, next)
  <2>1. size \in [0..n -> Nat]
    OBVIOUS
  <2>2. \A k \in 0..n : k \notin {0} => next[k] \in 0..n /\ size[next[k]] < size[k]
    BY <1>1
  <2> HIDE DEF size, next
  <2> QED
    BY <2>1, <2>2 DEF Descends
<1>3. \A k \in 1..n, s \in Seq(Int) : join[<<k, s>>] = Append(s, k % base) /\ join[<<k, s>>] \in Seq(Int)
  BY <1>1
<1>4. Yields(0..n, Seq(Int), {0}, first, join)
  <2>1. first[0] = <<>> /\ <<>> \in Seq(Int)
    OBVIOUS
  <2> HIDE DEF first, join
  <2>2. \A k \in 0..n : k \notin {0} => k \in 1..n
    OBVIOUS
  <2>3. first[0] \in Seq(Int)
    BY <2>1
  <2> QED
    BY <1>3, <2>2, <2>3 DEF Yields
<1>5. PICK g \in [0..n -> Seq(Int)] : Solves(g, 0..n, {0}, next, first, join)
  <2> HIDE DEF size, next, first, join
  <2> QED
    BY <1>2, <1>4, RecursionExists
<1>6. \A k \in 0..n : g[k] = IF k = 0 THEN <<>> ELSE Append(g[k \div base], k % base)
  <2> SUFFICES ASSUME NEW k \in 0..n
               PROVE  g[k] = IF k = 0 THEN <<>> ELSE Append(g[k \div base], k % base)
    OBVIOUS
  <2>1. CASE k = 0
    BY <1>5, <2>1 DEF Solves
  <2>2. CASE k # 0
    <3>1. k \in 1..n /\ next[k] = k \div base
      BY <2>2
    <3>2. k \div base \in 0..n
      BY <1>1, <3>1
    <3>3. g[k] = join[<<k, g[next[k]]>>]
      <4> HIDE DEF next, first, join
      <4> QED BY <1>5, <2>2 DEF Solves
    <3> HIDE DEF join, next
    <3>4. g[k] = Append(g[k \div base], k % base)
      BY <1>3, <1>5, <3>1, <3>2, <3>3
    <3> QED
      BY <2>2, <3>4
  <2> QED
    BY <2>1, <2>2
<1>7. g = Body(g)
  <2>1. g = [k \in 0..n |-> g[k]]
    BY <1>5
  <2> QED
    BY <1>6, <2>1
<1>8. d = Body(d)
  BY <1>7
<1>9. d[0] = <<>> /\ \A k \in 1..n : d[k] = Append(d[k \div base], k % base)
  <2> HIDE DEF d
  <2>1. \A k \in 0..n : d[k] = IF k = 0 THEN <<>> ELSE Append(d[k \div base], k % base)
    BY <1>8
  <2>2. 0 \in 0..n /\ \A k \in 1..n : k \in 0..n /\ k # 0
    OBVIOUS
  <2> QED
    BY <2>1, <2>2
<1>10. Preserves(d, 0..n, Seq(Int), {0}, next)
  <2> HIDE DEF d
  <2>1. ASSUME NEW k \in 1..n, d[k \div base] \in Seq(Int)
        PROVE  d[k] \in Seq(Int)
    <3>1. PICK c \in Int : c = k % base
      BY <1>1
    <3>2. PICK s \in Seq(Int) : s = d[k \div base]
      BY <2>1
    <3>3. d[k] = Append(s, c)
      BY <1>9, <3>1, <3>2
    <3> QED
      BY <3>3
  <2>2. \A k \in 1..n : next[k] = k \div base
    OBVIOUS
  <2>3. \A k \in 0..n : k \notin {0} => k \in 1..n
    OBVIOUS
  <2>4. d[0] \in Seq(Int)
    <3>1. <<>> \in Seq(Int)
      OBVIOUS
    <3> QED
      BY <1>9, <3>1
  <2> HIDE DEF next
  <2> QED
    BY <2>1, <2>2, <2>3, <2>4 DEF Preserves
<1>11. d[n] \in Seq(Int)
  <2> HIDE DEF d, size, next
  <2>1. \A k \in 0..n : d[k] \in Seq(Int)
    BY <1>2, <1>10, RecursionRange
  <2> QED
    BY <2>1
<1>12. L!Digits(n, base) = IF n = 0 THEN <<0>> ELSE d[n]
  BY DEF L!Digits
<1> QED
  <2> HIDE DEF d
  <2> QED
    BY <1>11, <1>12

(* What is printed of a number is a sequence of characters.                *)
LEMMA TextsAre ==
  ASSUME LogAssumption, NEW n \in Numbers
  PROVE  /\ L!Signed(n) \in Seq(Int)
         /\ n >= 0 => L!Unsigned(n) \in Seq(Int) /\ L!Hexadecimal(n) \in Seq(Int)
         /\ L!ProgramSigned(n) \in Seq(Int)
<1>1. IntMin \in Int /\ IntMin < 0 /\ n \in IntMin..(- IntMin) /\ Output \in Nat \ {0}
  BY DEF LogAssumption
<1>2. \A m \in Nat : L!Digits(m, 10) \in Seq(Int) /\ L!Digits(m, 16) \in Seq(Int)
  BY DigitsAre
<1>3. \A s \in Seq(Int) : <<L!Minus>> \o s \in Seq(Int)
  <2>1. <<L!Minus>> \in Seq(Int)
    BY DEF L!Minus
  <2> QED
    BY <2>1
<1>4. L!Signed(n) \in Seq(Int)
  <2>1. n < 0 => - n \in Nat
    BY <1>1
  <2>2. ~(n < 0) => n \in Nat
    BY <1>1
  <2> QED
    BY <1>1, <1>2, <1>3, <2>1, <2>2 DEF L!Signed, L!Negated
<1>5. n >= 0 => L!Unsigned(n) \in Seq(Int) /\ L!Hexadecimal(n) \in Seq(Int)
  BY <1>1, <1>2 DEF L!Unsigned, L!Hexadecimal
<1>6. L!ProgramSigned(n) \in Seq(Int)
  <2>1. PICK m \in Int : m = IF n < 0 THEN L!Negated(n) ELSE n
    BY <1>1 DEF L!Negated
  <2>2. PICK d : d = IF m < 0 THEN <<>> ELSE L!Digits(m, 10)
    OBVIOUS
  <2>7. d \in Seq(Int)
    <3>1. <<>> \in Seq(Int)
      OBVIOUS
    <3>2. m < 0 \/ m \in Nat
      BY <2>1
    <3> QED
      BY <1>2, <2>2, <3>1, <3>2
  <2>3. PICK t : t = (IF n < 0 THEN <<L!Minus>> ELSE <<>>) \o d
    OBVIOUS
  <2>4. t \in Seq(Int)
    <3>1. <<>> \o d = d
      BY <2>7
    <3> QED
      BY <1>3, <2>3, <2>7, <3>1
  <2>5. L!ProgramSigned(n) = IF Len(t) < Output THEN t ELSE SubSeq(t, 1, Output - 1)
    BY <2>1, <2>2, <2>3 DEF L!ProgramSigned
  <2>6. ~(Len(t) < Output) => Output - 1 \in 0..Len(t)
    BY <1>1, <2>4
  <2> QED
    BY <2>4, <2>5, <2>6, PrefixIs
<1> QED
  BY <1>4, <1>5, <1>6

(* The ring, and how far the idle task has come with a character.          *)
LogInd ==
  /\ serialBuffer \in Rings /\ readHead \in 0..(Size - 1) /\ writeHead \in 0..(Size - 1)
  /\ accepted \in Seq(Int) /\ sent \in Seq(Int)
  /\ idle \in {"hlt", "test", "read", "out", "advance"}
  /\ idle \in {"read", "out", "advance"} => readHead # writeHead
  /\ idle = "out" => taken = serialBuffer[readHead]
  /\ accepted = sent \o Rest(serialBuffer, IF idle = "advance" THEN L!Following(readHead) ELSE readHead, writeHead)

(* In the beginning the ring is empty.                                     *)
LEMMA LogInit == ASSUME LogAssumption, L!Init PROVE LogInd
<1>1. Size \in Nat \ {0} /\ 0 \in 0..(Size - 1)
  BY DEF LogAssumption
<1>2. serialBuffer \in Rings /\ <<>> \in Seq(Int)
  BY <1>1 DEF L!Init, Rings
<1>3. Rest(serialBuffer, 0, 0) = <<>>
  BY <1>1, RestNone
<1>4. <<>> = <<>> \o Rest(serialBuffer, 0, 0)
  BY <1>3
<1> QED
  BY <1>1, <1>2, <1>4 DEF L!Init, LogInd

(* printf() keeps the order.                                               *)
LEMMA LogPrints ==
  ASSUME LogAssumption, LogInd, NEW text \in Seq(Int), NEW ready \in BOOLEAN, L!Printf(text, ready)
  PROVE  LogInd'
<1>1. idle = "hlt" /\ UNCHANGED <<idle, taken>>
  BY DEF L!Printf, LogAssumption
<1>2. PICK start : start = [buffer |-> serialBuffer, readHead |-> readHead, writeHead |-> writeHead,
                            accepted |-> accepted, sent |-> sent]
  OBVIOUS
<1>3. start \in InOrder
  <2>1. accepted = sent \o Rest(serialBuffer, readHead, writeHead)
    BY <1>1 DEF LogInd
  <2>2. start \in RingStates
    BY <1>2 DEF LogInd, RingStates
  <2> QED
    BY <1>2, <2>1, <2>2 DEF InOrder
<1>4. PICK r \in InOrder : r = L!SerialPrint(text, ready)
  BY <1>2, <1>3, SerialPrintInOrder
<1>5. /\ serialBuffer' = r.buffer /\ readHead' = r.readHead /\ writeHead' = r.writeHead
      /\ accepted' = r.accepted /\ sent' = r.sent
  BY <1>4 DEF L!Printf
<1>6. /\ r.buffer \in Rings /\ r.readHead \in 0..(Size - 1) /\ r.writeHead \in 0..(Size - 1)
      /\ r.accepted \in Seq(Int) /\ r.sent \in Seq(Int)
      /\ r.accepted = r.sent \o Rest(r.buffer, r.readHead, r.writeHead)
  BY <1>4 DEF InOrder, RingStates
<1> QED
  BY <1>1, <1>5, <1>6 DEF LogInd

(* So does every step of the idle task.                                    *)
LEMMA LogIdles ==
  ASSUME LogAssumption, LogInd, L!IdleTask
  PROVE  LogInd'
<1>1. UNCHANGED <<serialBuffer, writeHead, accepted>>
  BY DEF L!IdleTask
<1>2. CASE idle \in {"hlt", "test"}
  <2>1. UNCHANGED <<taken, readHead, sent>>
    BY <1>2 DEF L!IdleTask
  <2>2. idle' \in {"test", "hlt"} \/ (readHead # writeHead /\ idle' = "read")
    BY <1>2 DEF L!IdleTask
  <2>3. accepted = sent \o Rest(serialBuffer, readHead, writeHead)
    BY <1>2 DEF LogInd
  <2> QED
    BY <1>1, <2>1, <2>2, <2>3 DEF LogInd
<1>3. CASE idle = "read"
  <2>1. idle' = "out" /\ taken' = serialBuffer[readHead] /\ UNCHANGED <<readHead, sent>>
    BY <1>3 DEF L!IdleTask
  <2> QED
    BY <1>1, <1>3, <2>1 DEF LogInd
<1>4. CASE idle = "out"
  <2>1. idle' = "advance" /\ sent' = Append(sent, taken) /\ UNCHANGED <<taken, readHead>>
    BY <1>4 DEF L!IdleTask
  <2>2. PICK c \in Int : c = taken /\ c = serialBuffer[readHead]
    BY <1>4 DEF LogInd, Rings
  <2>3. /\ L!Following(readHead) \in 0..(Size - 1)
        /\ Rest(serialBuffer, readHead, writeHead) = <<c>> \o Rest(serialBuffer, L!Following(readHead), writeHead)
    BY <1>4, <2>2, RestHead DEF LogInd
  <2>4. PICK q \in Seq(Int) : q = Rest(serialBuffer, L!Following(readHead), writeHead)
    BY <2>3, RestIs DEF LogInd
  <2>5. accepted = sent \o (<<c>> \o q) /\ sent \in Seq(Int)
    BY <1>4, <2>3, <2>4 DEF LogInd
  <2>6. accepted = Append(sent, c) \o q
    <3>1. <<c>> \in Seq(Int) /\ Append(sent, c) = sent \o <<c>>
      BY <2>5
    <3>2. (sent \o <<c>>) \o q = sent \o (<<c>> \o q)
      BY <2>5, <3>1, ConcatAssociative
    <3> QED
      BY <2>5, <3>1, <3>2
  <2>7. sent' \in Seq(Int)
    BY <2>1, <2>2, <2>5
  <2> QED
    BY <1>1, <1>4, <2>1, <2>2, <2>4, <2>6, <2>7 DEF LogInd
<1>5. CASE idle = "advance"
  <2>1. idle' = "test" /\ readHead' = L!Following(readHead) /\ UNCHANGED <<taken, sent>>
    BY <1>5 DEF L!IdleTask
  <2>2. readHead' \in 0..(Size - 1)
    BY <1>5, <2>1, RestHead DEF LogInd
  <2> QED
    BY <1>1, <1>5, <2>1, <2>2 DEF LogInd
<1> QED
  BY <1>2, <1>3, <1>4, <1>5 DEF LogInd

(* Every step keeps the order.                                             *)
LEMMA LogStep == ASSUME LogAssumption, LogInd, [L!Next]_(L!vars) PROVE LogInd'
<1>1. ASSUME NEW n \in Numbers, NEW ready \in BOOLEAN, L!KernelPrints(n, ready) \/ L!ProgramPrints(n, ready)
      PROVE  LogInd'
  <2>1. \E text \in Seq(Int) : L!Printf(text, ready)
    BY <1>1, TextsAre DEF L!KernelPrints, L!ProgramPrints
  <2> QED
    BY <2>1, LogPrints
<1>2. CASE L!IdleTask
  BY <1>2, LogIdles
<1>3. CASE UNCHANGED L!vars
  BY <1>3 DEF L!vars, L!ring, LogInd
<1> QED
  BY <1>1, <1>2, <1>3 DEF L!Next

(* Then the log is in order.                                               *)
LEMMA LogMeans == ASSUME LogInd PROVE L!LogInOrder
BY DEF LogInd, L!LogInOrder, L!From, L!Following, Rest

(* Whoever prints, and whenever, what is sent is what was put into the     *)
(* ring, in order, nothing lost or repeated, with a ring of any size.      *)
THEOREM LogAlwaysInOrder == ASSUME LogAssumption PROVE L!Spec => []L!LogInOrder
<1>1. L!Init => LogInd
  BY LogInit
<1>2. LogInd /\ [L!Next]_(L!vars) => LogInd'
  BY LogStep
<1>3. LogInd => L!LogInOrder
  BY LogMeans
<1> QED
  BY <1>1, <1>2, <1>3, PTL DEF L!Spec

-----------------------------------------------------------------------------
(* Files of sound                                                          *)

(* Files are lists of chunks, and a chunk has a header.                    *)
WavAssumption == Files \subseteq Seq(Chunks) /\ HeaderSize \in Nat \ {0} /\ FormatSize \in Nat

(* g[k] is where chunk k + 1 of a file begins.                             *)
Starts(g, f) ==
  /\ g \in [0..Len(f) -> Nat] /\ g[0] = 0
  /\ \A k \in 1..Len(f) : g[k] = g[k - 1] + HeaderSize + W!Padded(f[k].size)

(* The chunks of a file begin one after the other.                         *)
LEMMA StartsExist ==
  ASSUME WavAssumption, NEW f \in Seq(Chunks)
  PROVE  \E g : Starts(g, f)
<1> DEFINE join == [x \in (1..Len(f)) \X Nat |-> x[2] + HeaderSize + W!Padded(f[x[1]].size)]
<1>1. PICK n \in Nat : n = Len(f)
  OBVIOUS
<1>2. \A k \in 1..n : W!Padded(f[k].size) \in Nat
  <2>1. \A k \in 1..n : f[k] \in Chunks
    BY <1>1
  <2>2. \A k \in 1..n : f[k].size \in Nat
    BY <2>1 DEF Chunks
  <2> QED
    BY <2>2 DEF W!Padded
<1>3. \A k \in 1..n, r \in Nat : join[<<k, r>>] = r + HeaderSize + W!Padded(f[k].size) /\ join[<<k, r>>] \in Nat
  BY <1>1, <1>2 DEF WavAssumption
<1>4. StepsIn(n, Nat, join)
  BY <1>3 DEF StepsIn
<1>5. PICK g \in [0..n -> Nat] : Counts(g, n, 0, join)
  <2> HIDE DEF join
  <2> QED BY <1>4, CountExists
<1>6. g[0] = 0 /\ \A k \in 1..n : g[k] = g[k - 1] + HeaderSize + W!Padded(f[k].size)
  <2>1. \A k \in 1..n : g[k - 1] \in Nat
    OBVIOUS
  <2> HIDE DEF join
  <2> QED
    BY <1>3, <1>5, <2>1 DEF Counts
<1> QED
  BY <1>1, <1>6 DEF Starts

(* No two chunks begin at the same place.                                  *)
LEMMA StartsGrow ==
  ASSUME WavAssumption, NEW f \in Seq(Chunks), NEW g, Starts(g, f)
  PROVE  \A j \in 0..Len(f) : \A i \in 0..(j - 1) : g[i] < g[j]
<1> DEFINE before == {j \in 0..Len(f) : \A i \in 0..(j - 1) : g[i] < g[j]}
<1>1. PICK n \in Nat : n = Len(f)
  OBVIOUS
<1>2. 0 \in before
  OBVIOUS
<1>3. ASSUME NEW j \in 1..n, j - 1 \in before
      PROVE  j \in before
  <2>1. \A i \in 0..((j - 1) - 1) : g[i] < g[j - 1]
    BY <1>1, <1>3
  <2>2. g[j] \in Nat /\ g[j - 1] \in Nat /\ g[j - 1] < g[j]
    <3>1. PICK a \in Nat : a = W!Padded(f[j].size)
      <4>1. f[j] \in Chunks
        BY <1>1
      <4>2. f[j].size \in Nat
        BY <4>1 DEF Chunks
      <4> QED
        BY <4>2 DEF W!Padded
    <3>2. g[j] = g[j - 1] + HeaderSize + a /\ g[j - 1] \in Nat
      BY <1>1, <3>1 DEF Starts
    <3> QED
      BY <3>2 DEF WavAssumption
  <2>3. ASSUME NEW i \in 0..(j - 1)
        PROVE  g[i] < g[j]
    <3>1. CASE i = j - 1
      BY <2>2, <3>1
    <3>2. CASE i # j - 1
      <4>1. i \in 0..((j - 1) - 1) /\ i \in 0..n
        BY <3>2
      <4>2. g[i] \in Nat /\ g[i] < g[j - 1]
        BY <1>1, <2>1, <4>1 DEF Starts
      <4> QED
        BY <2>2, <4>2
    <3> QED
      BY <3>1, <3>2
  <2> QED
    BY <1>1, <2>3
<1>4. \A j \in 0..n : j \in before
  <2> HIDE DEF before
  <2> QED BY <1>2, <1>3, CountInd
<1> QED
  BY <1>1, <1>4

(* StartOf() is that place.                                                *)
LEMMA StartOfIs ==
  ASSUME WavAssumption, NEW f \in Seq(Chunks), NEW g, Starts(g, f), NEW k \in 1..(Len(f) + 1)
  PROVE  W!StartOf(f, k) = g[k - 1]
<1> DEFINE Body(h) == [i \in 1..k |-> IF i = 1 THEN 0 ELSE h[i - 1] + HeaderSize + W!Padded(f[i - 1].size)]
           start == CHOOSE h : h = Body(h)
           shifted == [i \in 1..k |-> g[i - 1]]
           same == {i \in 0..(k - 1) : start[i + 1] = g[i]}
<1>1. shifted = Body(shifted)
  <2>1. ASSUME NEW i \in 1..k
        PROVE  shifted[i] = IF i = 1 THEN 0 ELSE shifted[i - 1] + HeaderSize + W!Padded(f[i - 1].size)
    <3>1. CASE i = 1
      BY <3>1 DEF Starts
    <3>2. CASE i # 1
      <4>1. i - 1 \in 1..Len(f) /\ i - 1 \in 1..k
        BY <3>2
      <4>2. g[i - 1] = g[(i - 1) - 1] + HeaderSize + W!Padded(f[i - 1].size)
        BY <4>1 DEF Starts
      <4>3. shifted[i] = g[i - 1] /\ shifted[i - 1] = g[(i - 1) - 1]
        BY <4>1
      <4> QED
        BY <3>2, <4>2, <4>3
    <3> QED
      BY <3>1, <3>2
  <2> QED
    BY <2>1
<1>2. start = Body(start)
  BY <1>1
<1>3. start[1] = 0 /\ \A i \in 2..k : start[i] = start[i - 1] + HeaderSize + W!Padded(f[i - 1].size)
  <2> HIDE DEF start
  <2>1. \A i \in 1..k : start[i] = IF i = 1 THEN 0 ELSE start[i - 1] + HeaderSize + W!Padded(f[i - 1].size)
    BY <1>2
  <2>2. 1 \in 1..k /\ \A i \in 2..k : i \in 1..k /\ i # 1
    OBVIOUS
  <2> QED
    BY <2>1, <2>2
<1> HIDE DEF start
<1>4. 0 \in same
  <2>1. 0 + 1 = 1 /\ 0 \in 0..(k - 1)
    OBVIOUS
  <2>2. start[0 + 1] = g[0]
    BY <1>3, <2>1 DEF Starts
  <2> QED
    BY <2>1, <2>2
<1>5. ASSUME NEW i \in 1..(k - 1), i - 1 \in same
      PROVE  i \in same
  <2>1. start[i] = g[i - 1]
    <3>1. start[(i - 1) + 1] = g[i - 1] /\ (i - 1) + 1 = i
      BY <1>5
    <3> QED
      BY <3>1
  <2>2. start[i + 1] = start[i] + HeaderSize + W!Padded(f[i].size)
    <3>1. i + 1 \in 2..k /\ (i + 1) - 1 = i
      OBVIOUS
    <3> QED
      BY <1>3, <3>1
  <2>3. g[i] = g[i - 1] + HeaderSize + W!Padded(f[i].size)
    BY DEF Starts
  <2>4. start[i + 1] = g[i]
    BY <2>1, <2>2, <2>3
  <2> QED
    BY <2>4
<1>6. k - 1 \in same
  <2> HIDE DEF same
  <2>1. PICK m \in Nat : m = k - 1
    OBVIOUS
  <2>2. \A i \in 1..m : i - 1 \in same => i \in same
    BY <1>5, <2>1
  <2>3. \A i \in 0..m : i \in same
    BY <1>4, <2>2, CountInd
  <2> QED
    BY <2>1, <2>3
<1>7. start[k] = g[k - 1]
  <2>1. start[(k - 1) + 1] = g[k - 1] /\ (k - 1) + 1 = k
    BY <1>6
  <2> QED
    BY <2>1
<1> QED
  BY <1>7 DEF W!StartOf, start

(* Where chunks begin, as the loader needs it.                             *)
LEMMA ChunksLie ==
  ASSUME WavAssumption, NEW f \in Seq(Chunks)
  PROVE  /\ W!StartOf(f, 1) = 0
         /\ \A i \in 1..Len(f) :
              W!StartOf(f, i + 1) = W!StartOf(f, i) + HeaderSize + W!Padded(f[i].size)
         /\ \A i \in 1..(Len(f) + 1) : W!StartOf(f, i) \in Nat
         /\ \A j \in 1..(Len(f) + 1) : \A i \in 1..(j - 1) : W!StartOf(f, i) < W!StartOf(f, j)
<1>1. PICK g : Starts(g, f)
  BY StartsExist
<1>2. PICK n \in Nat : n = Len(f)
  OBVIOUS
<1>3. \A i \in 1..(n + 1) : W!StartOf(f, i) = g[i - 1]
  BY <1>1, <1>2, StartOfIs
<1>4. g \in [0..n -> Nat] /\ g[0] = 0
      /\ \A k \in 1..n : g[k] = g[k - 1] + HeaderSize + W!Padded(f[k].size)
  BY <1>1, <1>2 DEF Starts
<1>5. W!StartOf(f, 1) = 0
  <2>1. W!StartOf(f, 1) = g[1 - 1]
    BY <1>3
  <2> QED
    BY <1>4, <2>1
<1>6. ASSUME NEW i \in 1..n
      PROVE  W!StartOf(f, i + 1) = W!StartOf(f, i) + HeaderSize + W!Padded(f[i].size)
  <2>1. W!StartOf(f, i + 1) = g[(i + 1) - 1] /\ (i + 1) - 1 = i
    BY <1>3
  <2>2. W!StartOf(f, i) = g[i - 1]
    BY <1>3
  <2> QED
    BY <1>4, <2>1, <2>2
<1>7. ASSUME NEW j \in 1..(n + 1), NEW i \in 1..(j - 1)
      PROVE  W!StartOf(f, i) < W!StartOf(f, j)
  <2>1. W!StartOf(f, i) = g[i - 1] /\ W!StartOf(f, j) = g[j - 1]
    BY <1>3
  <2>2. j - 1 \in 0..n /\ i - 1 \in 0..((j - 1) - 1)
    OBVIOUS
  <2>3. \A b \in 0..n : \A a \in 0..(b - 1) : g[a] < g[b]
    BY <1>1, <1>2, StartsGrow
  <2>4. g[i - 1] < g[j - 1]
    BY <2>2, <2>3
  <2> QED
    BY <2>1, <2>4
<1>8. \A i \in 1..(n + 1) : W!StartOf(f, i) \in Nat
  <2>1. \A i \in 1..(n + 1) : i - 1 \in 0..n
    OBVIOUS
  <2> QED
    BY <1>3, <1>4, <2>1
<1> QED
  BY <1>2, <1>5, <1>6, <1>7, <1>8

(* Whether the last format before chunk i is PCM, if there is one.         *)
Format(f, i) ==
  {f[j].pcm : j \in {e \in 1..(i - 1) : f[e].id = "fmt " /\ \A k \in (e + 1)..(i - 1) : f[k].id # "fmt "}}

(* Chunk j is one to pass over.                                            *)
Passed(f, j) == f[j].id # "data" /\ ~(f[j].id = "fmt " /\ f[j].size < FormatSize)

(* The loader stands before chunk i.                                       *)
Behind(i) ==
  /\ position = W!StartOf(file, i)
  /\ loaded = W!Parsing => (\A j \in 1..(i - 1) : Passed(file, j)) /\ fmtFound = Format(file, i)

(* What the loader may have decided of a file.                             *)
Decided(f, result) ==
  (IF W!Wanted(f) = {} THEN {W!Invalid} ELSE {W!Plays(i) : i \in W!Wanted(f)}) = {result}

(* The inductive invariant.                                                *)
WavInd ==
  /\ file \in Seq(Chunks)
  /\ \E i \in 1..(Len(file) + 1) : Behind(i)
  /\ loaded # W!Parsing => Decided(file, loaded)

(* The loader begins before the first chunk.                               *)
LEMMA WavInit == ASSUME WavAssumption, W!Init PROVE WavInd
<1>1. file \in Seq(Chunks) /\ position = 0 /\ fmtFound = {} /\ loaded = W!Parsing
  BY DEF W!Init, WavAssumption
<1>2. position = W!StartOf(file, 1)
  BY <1>1, ChunksLie
<1>3. Format(file, 1) = {}
  BY DEF Format
<1>4. Behind(1) /\ 1 \in 1..(Len(file) + 1)
  BY <1>1, <1>2, <1>3 DEF Behind
<1> QED
  BY <1>1, <1>4 DEF WavInd

(* A step passes over a chunk or decides.                                  *)
LEMMA WavStep == ASSUME WavAssumption, WavInd, [W!Next]_(W!vars) PROVE WavInd'
<1>1. CASE UNCHANGED W!vars
  BY <1>1 DEF W!vars, WavInd, Behind
<1>2. CASE W!Load
  <2>1. file \in Seq(Chunks) /\ loaded = W!Parsing /\ file' = file
    BY <1>2 DEF WavInd, W!Load, W!Finish
  <2>2. PICK n \in Nat : n = Len(file)
    BY <2>1
  <2>3. PICK i \in 1..(n + 1) : Behind(i)
    BY <2>2 DEF WavInd
  <2>4. /\ position = W!StartOf(file, i) /\ position \in Nat
        /\ \A j \in 1..(i - 1) : Passed(file, j)
        /\ fmtFound = Format(file, i)
    BY <2>1, <2>2, <2>3, ChunksLie DEF Behind
  <2>5. \A j \in 1..(n + 1) : \A e \in 1..(j - 1) : W!StartOf(file, e) < W!StartOf(file, j)
    BY <2>1, <2>2, ChunksLie
  <2>6. \A j \in 1..(n + 1) : W!StartOf(file, j) \in Nat
    BY <2>1, <2>2, ChunksLie
  <2>7. \A j \in 1..(n + 1) : W!StartOf(file, j) = position => j = i
    <3> SUFFICES ASSUME NEW j \in 1..(n + 1), W!StartOf(file, j) = position, j # i
                 PROVE  FALSE
      OBVIOUS
    <3>1. j \in 1..(i - 1) \/ i \in 1..(j - 1)
      OBVIOUS
    <3>2. W!StartOf(file, j) < W!StartOf(file, i) \/ W!StartOf(file, i) < W!StartOf(file, j)
      BY <2>5, <3>1
    <3> QED
      BY <2>4, <2>6, <3>2
  <2>30. DOMAIN file = 1..n /\ \A k \in 1..n : file[k] \in Chunks
    BY <2>1, <2>2
  <2>8. \A k \in W!Wanted(file) : k \in 1..n /\ ~(k \in 1..(i - 1)) /\ file[k].id = "data"
    BY <2>4, <2>30 DEF W!Wanted, Passed
  <2>9. ASSUME UNCHANGED <<file, position, fmtFound>>, loaded' # W!Parsing, Decided(file, loaded')
        PROVE  WavInd'
    <3>1. Behind(i)'
      BY <2>4, <2>9 DEF Behind
    <3> QED
      BY <2>1, <2>2, <2>9, <3>1 DEF WavInd, Decided
  <2>10. W!Invalid # W!Parsing /\ \A k : W!Plays(k) # W!Parsing
    BY DEF W!Invalid, W!Parsing, W!Plays
  <2>11. CASE position >= W!EndOfFile
    <3>1. i = n + 1
      <4>1. i = n + 1 \/ i \in 1..((n + 1) - 1)
        OBVIOUS
      <4>2. i \in 1..((n + 1) - 1) => W!StartOf(file, i) < W!StartOf(file, n + 1)
        BY <2>5
      <4>3. W!EndOfFile = W!StartOf(file, n + 1) /\ W!StartOf(file, n + 1) \in Nat
        BY <2>2, <2>6 DEF W!EndOfFile
      <4> QED
        BY <2>4, <2>11, <4>1, <4>2, <4>3
    <3>2. W!Wanted(file) = {}
      BY <2>8, <3>1
    <3>3. loaded' = W!Invalid /\ UNCHANGED <<file, position, fmtFound>>
      BY <1>2, <2>11 DEF W!Load, W!Finish
    <3>4. Decided(file, loaded')
      BY <3>2, <3>3 DEF Decided
    <3> QED
      BY <2>9, <2>10, <3>3, <3>4
  <2>12. CASE ~(position >= W!EndOfFile)
    <3>1. W!ChunksAt(position) \subseteq {i}
      <4>1. \A j \in W!ChunksAt(position) : j \in 1..(n + 1) /\ W!StartOf(file, j) = position
        BY <2>1, <2>2 DEF W!ChunksAt
      <4> QED
        BY <2>7, <4>1
    <3>2. PICK c : c = file[i]
      OBVIOUS
    <3>3. /\ i \in W!ChunksAt(position)
          /\ IF c.id = "fmt " /\ c.size < FormatSize THEN W!Finish(W!Invalid)
             ELSE IF c.id = "data"
               THEN W!Finish(IF fmtFound = {TRUE} THEN W!Plays(i) ELSE W!Invalid)
             ELSE /\ position' = W!Skipped(c, position + HeaderSize)
                  /\ fmtFound' = IF c.id = "fmt " THEN {c.pcm} ELSE fmtFound
                  /\ UNCHANGED <<file, loaded>>
      BY <1>2, <2>12, <3>1, <3>2 DEF W!Load
    <3>4. i \in 1..n /\ c \in Chunks
      <4>1. i \in DOMAIN file
        BY <3>3 DEF W!ChunksAt
      <4> QED
        BY <2>30, <3>2, <4>1
    <3>5. CASE c.id = "fmt " /\ c.size < FormatSize
      <4>1. loaded' = W!Invalid /\ UNCHANGED <<file, position, fmtFound>>
        BY <3>3, <3>5 DEF W!Finish
      <4>2. W!Wanted(file) = {}
        <5> SUFFICES ASSUME NEW k \in W!Wanted(file) PROVE FALSE
          OBVIOUS
        <5>1. k # i
          BY <2>8, <3>2, <3>5
        <5>2. i \in 1..(k - 1)
          BY <2>8, <3>4, <5>1
        <5> QED
          BY <3>2, <3>5, <5>2 DEF W!Wanted
      <4>3. Decided(file, loaded')
        BY <4>1, <4>2 DEF Decided
      <4> QED
        BY <2>9, <2>10, <4>1, <4>3
    <3>6. CASE c.id = "data"
      <4>1. loaded' = (IF fmtFound = {TRUE} THEN W!Plays(i) ELSE W!Invalid) /\ UNCHANGED <<file, position, fmtFound>>
        BY <3>3, <3>6 DEF W!Finish
      <4>2. W!Wanted(file) \subseteq {i}
        <5> SUFFICES ASSUME NEW k \in W!Wanted(file), k # i PROVE FALSE
          OBVIOUS
        <5>1. i \in 1..(k - 1)
          BY <2>8, <3>4
        <5> QED
          BY <3>2, <3>6, <5>1 DEF W!Wanted
      <4>3. CASE fmtFound = {TRUE}
        <5>1. PICK j \in 1..(i - 1) : /\ file[j].id = "fmt " /\ file[j].pcm = TRUE
                                      /\ \A k \in (j + 1)..(i - 1) : file[k].id # "fmt "
          BY <2>4, <4>3 DEF Format
        <5>2. i \in W!Wanted(file)
          <6>1. i \in DOMAIN file /\ file[i].id = "data"
            BY <2>30, <3>2, <3>4, <3>6
          <6>2. \A e \in 1..(i - 1) : file[e].id # "data" /\ ~(file[e].id = "fmt " /\ file[e].size < FormatSize)
            BY <2>4 DEF Passed
          <6> QED
            BY <5>1, <6>1, <6>2 DEF W!Wanted
        <5>3. W!Wanted(file) = {i}
          BY <4>2, <5>2
        <5>4. Decided(file, W!Plays(i))
          BY <5>3 DEF Decided
        <5> QED
          BY <2>9, <2>10, <4>1, <4>3, <5>4
      <4>4. CASE fmtFound # {TRUE}
        <5>1. i \notin W!Wanted(file)
          <6> SUFFICES ASSUME i \in W!Wanted(file) PROVE FALSE
            OBVIOUS
          <6>1. PICK j \in 1..(i - 1) : /\ file[j].id = "fmt " /\ file[j].pcm
                                        /\ \A k \in (j + 1)..(i - 1) : file[k].id # "fmt "
            BY DEF W!Wanted
          <6>2. file[j].pcm = TRUE
            <7>1. j \in 1..n
              BY <3>4
            <7>2. file[j] \in Chunks
              BY <2>30, <7>1
            <7> QED
              BY <6>1, <7>2 DEF Chunks
          <6>3. ASSUME NEW e \in 1..(i - 1), file[e].id = "fmt ",
                       \A k \in (e + 1)..(i - 1) : file[k].id # "fmt "
                PROVE  e = j
            <7>1. e = j \/ e \in (j + 1)..(i - 1) \/ j \in (e + 1)..(i - 1)
              OBVIOUS
            <7> QED
              BY <6>1, <6>3, <7>1
          <6>4. Format(file, i) = {file[j].pcm}
            BY <6>1, <6>3 DEF Format
          <6> QED
            BY <2>4, <4>4, <6>2, <6>4
        <5>2. W!Wanted(file) = {}
          BY <4>2, <5>1
        <5>3. Decided(file, W!Invalid)
          BY <5>2 DEF Decided
        <5> QED
          BY <2>9, <2>10, <4>1, <4>4, <5>3
      <4> QED
        BY <4>3, <4>4
    <3>7. CASE Passed(file, i)
      <4>1. /\ position' = W!Skipped(c, position + HeaderSize)
            /\ fmtFound' = (IF c.id = "fmt " THEN {c.pcm} ELSE fmtFound)
            /\ UNCHANGED <<file, loaded>>
        BY <3>2, <3>3, <3>7 DEF Passed
      <4>2. position' = W!StartOf(file, i + 1)
        <5>1. W!StartOf(file, i + 1) = position + HeaderSize + W!Padded(c.size)
          BY <2>1, <2>2, <2>4, <3>2, <3>4, ChunksLie
        <5>2. PICK s \in Nat : s = c.size /\ (c.id = "fmt " => ~(s < FormatSize))
          BY <3>2, <3>4, <3>7 DEF Chunks, Passed
        <5>3. PICK t : t = s % 2
          OBVIOUS
        <5>4. t \in Nat
          BY <5>3
        <5>5. W!Padded(c.size) = s + t
          BY <5>2, <5>3 DEF W!Padded
        <5>6. PICK p : p = position + HeaderSize
          OBVIOUS
        <5>7. p \in Nat
          BY <2>4, <5>6 DEF WavAssumption
        <5>8. W!Skipped(c, p) = (p + s) + t
          <6>1. FormatSize \in Nat
            BY DEF WavAssumption
          <6>2. s <= FormatSize /\ ~(s < FormatSize) => s = FormatSize
            <7>1. s \in Nat
              BY <5>2
            <7> QED
              BY <6>1, <7>1
          <6>3. c.id = "fmt " /\ s <= FormatSize => s = FormatSize
            BY <5>2, <6>2
          <6>4. (IF c.id = "fmt " /\ s <= FormatSize THEN p + FormatSize ELSE p + s) = p + s
            BY <6>3
          <6> QED
            BY <5>2, <5>3, <6>4 DEF W!Skipped
        <5>9. (p + s) + t = p + (s + t)
          BY <5>4, <5>7
        <5> QED
          BY <4>1, <5>1, <5>5, <5>6, <5>8, <5>9
      <4>3. \A j \in 1..((i + 1) - 1) : Passed(file, j)
        <5>1. \A j \in 1..((i + 1) - 1) : j = i \/ j \in 1..(i - 1)
          OBVIOUS
        <5> QED
          BY <2>4, <3>7, <5>1
      <4>4. fmtFound' = Format(file, i + 1)
        <5>1. (i + 1) - 1 = i
          OBVIOUS
        <5>2. CASE c.id = "fmt "
          <6>1. {e \in 1..i : file[e].id = "fmt " /\ \A k \in (e + 1)..i : file[k].id # "fmt "} = {i}
            <7>1. \A e \in 1..i : e # i => i \in (e + 1)..i
              OBVIOUS
            <7>2. (i + 1)..i = {}
              OBVIOUS
            <7>3. i \in 1..i /\ file[i].id = "fmt "
              <8>1. i \in 1..i
                BY <3>4
              <8>2. file[i].id = "fmt "
                BY <3>2, <5>2
              <8> QED
                BY <8>1, <8>2
            <7> QED
              BY <7>1, <7>2, <7>3
          <6>2. Format(file, i + 1) = {file[i].pcm}
            BY <5>1, <6>1 DEF Format
          <6> QED
            BY <3>2, <4>1, <5>2, <6>2
        <5>3. CASE c.id # "fmt "
          <6>1. {e \in 1..i : file[e].id = "fmt " /\ \A k \in (e + 1)..i : file[k].id # "fmt "}
                  = {e \in 1..(i - 1) : file[e].id = "fmt " /\ \A k \in (e + 1)..(i - 1) : file[k].id # "fmt "}
            <7>1. \A e \in 1..i : file[e].id = "fmt " => e \in 1..(i - 1)
              <8>1. \A e \in 1..i : e = i \/ e \in 1..(i - 1)
                OBVIOUS
              <8> QED
                BY <3>2, <5>3, <8>1
            <7>2. \A e \in 1..(i - 1) : \A k \in (e + 1)..i : k = i \/ k \in (e + 1)..(i - 1)
              OBVIOUS
            <7>3. \A e \in 1..(i - 1) : e \in 1..i /\ \A k \in (e + 1)..(i - 1) : k \in (e + 1)..i
              OBVIOUS
            <7>4. file[i].id # "fmt "
              BY <3>2, <5>3
            <7>5. ASSUME NEW e \in 1..(i - 1)
                  PROVE  (\A k \in (e + 1)..i : file[k].id # "fmt ") <=> \A k \in (e + 1)..(i - 1) : file[k].id # "fmt "
              BY <7>2, <7>3, <7>4
            <7> QED
              BY <7>1, <7>3, <7>5
          <6>2. Format(file, i + 1) = Format(file, i)
            BY <5>1, <6>1 DEF Format
          <6> QED
            BY <2>4, <4>1, <5>3, <6>2
        <5> QED
          BY <5>2, <5>3
      <4>5. Behind(i + 1)' /\ i + 1 \in 1..(n + 1)
        <5>1. i + 1 \in 1..(n + 1)
          BY <3>4
        <5>2. loaded' = W!Parsing /\ file' = file
          BY <2>1, <4>1
        <5> QED
          BY <4>2, <4>3, <4>4, <5>1, <5>2 DEF Behind
      <4> QED
        BY <2>1, <2>2, <4>1, <4>5 DEF WavInd
    <3> QED
      BY <3>2, <3>5, <3>6, <3>7 DEF Passed
  <2> QED
    BY <2>11, <2>12
<1> QED
  BY <1>1, <1>2 DEF W!Next

(* Then the file is parsed for what it is.                                 *)
LEMMA WavMeans == ASSUME WavInd PROVE W!WavParsed
<1>1. file \in Seq(Chunks)
  BY DEF WavInd
<1>2. PICK i \in 1..(Len(file) + 1) : position = W!StartOf(file, i)
  BY DEF WavInd, Behind
<1>3. position = W!EndOfFile \/ W!ChunksAt(position) # {}
  BY <1>1, <1>2 DEF W!EndOfFile, W!ChunksAt
<1> QED
  BY <1>3 DEF WavInd, W!WavParsed, Decided

(* Of every file the loader takes exactly the chunk of samples that is     *)
(* wanted, whatever chunks are in it and of whatever sizes.                *)
THEOREM WavAlwaysParsed == ASSUME WavAssumption PROVE W!Spec => []W!WavParsed
<1>1. W!Init => WavInd
  BY WavInit
<1>2. WavInd /\ [W!Next]_(W!vars) => WavInd'
  BY WavStep
<1>3. WavInd => W!WavParsed
  BY WavMeans
<1> QED
  BY <1>1, <1>2, <1>3, PTL DEF W!Spec

-----------------------------------------------------------------------------
(* Files of models                                                         *)

(* A file is a list of lines, and a face has a list of corners.            *)
ObjAssumption == Models \subseteq Seq(ModelLines)

(* What was counted up to a line.                                          *)
Upto(S, m) == {i \in S : i < m}

(* A vertex and a normal that are there, or none, and triangles of such.   *)
Refs(v, n) == (0..(v - 1)) \X (0..(n - 1))
(* Triangles that refer to what is there.                                  *)
Meshes(v, n) == Seq(Refs(v, n) \X Refs(v, n) \X Refs(v, n))

(* The triangles that the faces before a line give.                        *)
Faced(m) == {p \in Upto(O!Lines("f"), m) \X {3, 4} : Len(model[p[1]].corners) >= p[2]}

(* The number of lines of a kind before one and before the next.           *)
LEMMA UptoIs ==
  ASSUME NEW n \in Nat, NEW S \in SUBSET (1..n), NEW m \in 1..n
  PROVE  /\ IsFiniteSet(S) /\ Cardinality(S) \in Nat
         /\ IsFiniteSet(Upto(S, m)) /\ Cardinality(Upto(S, m)) \in Nat
         /\ Cardinality(Upto(S, 1)) = 0
         /\ Cardinality(Upto(S, m + 1)) = IF m \in S THEN Cardinality(Upto(S, m)) + 1 ELSE Cardinality(Upto(S, m))
         /\ Cardinality(Upto(S, m + 1)) <= Cardinality(S)
<1>1. IsFiniteSet(S)
  <2>1. IsFiniteSet(1..n)
    BY FS_Interval
  <2> QED
    BY <2>1, FS_Subset
<1>2. IsFiniteSet(Upto(S, m)) /\ Cardinality(Upto(S, m)) \in Nat /\ Cardinality(S) \in Nat
  <2>1. Upto(S, m) \subseteq S
    BY DEF Upto
  <2>2. IsFiniteSet(Upto(S, m))
    BY <1>1, <2>1, FS_Subset
  <2> QED
    BY <1>1, <2>2, FS_CardinalityType
<1>3. Cardinality(Upto(S, 1)) = 0
  <2>1. \A i \in S : ~(i < 1)
    OBVIOUS
  <2>2. Upto(S, 1) = {}
    BY <2>1 DEF Upto
  <2> QED
    BY <2>2, FS_EmptySet
<1>6. \A i \in S : (i < m + 1 <=> i < m \/ i = m) /\ ~(m < m)
  OBVIOUS
<1>4. Cardinality(Upto(S, m + 1)) = IF m \in S THEN Cardinality(Upto(S, m)) + 1 ELSE Cardinality(Upto(S, m))
  <2>1. CASE m \in S
    <3>1. Upto(S, m + 1) = Upto(S, m) \cup {m} /\ m \notin Upto(S, m)
      BY <1>6, <2>1 DEF Upto
    <3>2. Cardinality(Upto(S, m) \cup {m}) = Cardinality(Upto(S, m)) + 1
      BY <1>2, <3>1, FS_AddElement
    <3> QED
      BY <2>1, <3>1, <3>2
  <2>2. CASE m \notin S
    <3>1. Upto(S, m + 1) = Upto(S, m)
      BY <1>6, <2>2 DEF Upto
    <3> QED
      BY <2>2, <3>1
  <2> QED
    BY <2>1, <2>2
<1>5. Cardinality(Upto(S, m + 1)) <= Cardinality(S)
  <2>1. Upto(S, m + 1) \subseteq S
    BY DEF Upto
  <2> QED
    BY <1>1, <2>1, FS_Subset
<1> QED
  BY <1>1, <1>2, <1>3, <1>4, <1>5

(* A corner refers to what is there.                                       *)
LEMMA TriangleIs ==
  ASSUME vi \in Nat \ {0}, ni \in Nat \ {0}, NEW c, NEW i, NEW j, NEW k
  PROVE  O!Triangle(c, i, j, k) \in Refs(vi, ni) \X Refs(vi, ni) \X Refs(vi, ni)
<1>1. ASSUME NEW d
      PROVE  O!Corner(d) \in Refs(vi, ni)
  <2>1. PICK a : a = IF d[1] \in 1..(vi - 1) THEN d[1] ELSE 0
    OBVIOUS
  <2>2. PICK b : b = IF counts.norms > 0 /\ d[2] \in 1..(ni - 1) THEN d[2] ELSE 0
    OBVIOUS
  <2>3. a \in 0..(vi - 1)
    BY <2>1
  <2>4. b \in 0..(ni - 1)
    <3>1. b = 0 \/ b \in 1..(ni - 1)
      BY <2>2
    <3> QED
      BY <3>1
  <2>5. O!Corner(d) = <<a, b>>
    BY <2>1, <2>2 DEF O!Corner
  <2> QED
    BY <2>3, <2>4, <2>5 DEF Refs
<1> QED
  BY <1>1 DEF O!Triangle

(* The second pass before a line.                                          *)
Counted(S) == Cardinality(Upto(S, line))

(* In the second pass, what was written is what the lines so far have.     *)
Second ==
  /\ line \in 1..(Len(model) + 1)
  /\ vi = Counted(O!Lines("v")) + 1 /\ vi <= counts.verts + 1
  /\ ni = Counted(O!Lines("vn")) + 1 /\ ni <= counts.norms + 1
  /\ tris \in Meshes(vi, ni)
  /\ IsFiniteSet(Faced(line)) /\ Len(tris) = Cardinality(Faced(line))
  /\ Len(tris) <= 2 * Counted(O!Lines("f")) /\ Counted(O!Lines("f")) <= counts.faces

(* The file that is read.                                                  *)
File ==
  /\ Len(model) \in Nat /\ DOMAIN model = 1..Len(model)
  /\ \A i \in 1..Len(model) : Len(model[i].corners) \in Nat

(* What the first pass counts.                                             *)
Tallied == [verts |-> Cardinality(O!Lines("v")), norms |-> Cardinality(O!Lines("vn")),
             faces |-> Cardinality(O!Lines("f"))]

(* The inductive invariant.                                                *)
ObjInd ==
  /\ File
  /\ \/ line = 0 /\ vi = 1 /\ ni = 1 /\ tris = <<>>
     \/ line = Len(model) + 1 /\ tris = <<>>
     \/ Second /\ counts = Tallied

(* In the beginning nothing was read.                                      *)
LEMMA ObjInit == ASSUME ObjAssumption, O!Init PROVE ObjInd
<1>1. model \in Seq(ModelLines)
  BY DEF O!Init, ObjAssumption
<1>2. PICK n \in Nat : n = Len(model)
  BY <1>1
<1>3. DOMAIN model = 1..n /\ \A i \in 1..n : model[i] \in ModelLines
  BY <1>1, <1>2
<1>4. \A i \in 1..n : Len(model[i].corners) \in Nat
  <2>1. \A i \in 1..n : model[i].corners \in Seq(Seq(Nat))
    BY <1>3 DEF ModelLines
  <2> QED
    BY <2>1
<1>5. File
  BY <1>2, <1>3, <1>4 DEF File
<1> QED
  BY <1>5 DEF O!Init, ObjInd

(* The instance counts as this module does.                                *)
LEMMA CardinalityIs == ASSUME NEW S PROVE O!Cardinality(S) = Cardinality(S)
BY DEF O!Cardinality, Cardinality

(* The lines of a kind.                                                    *)
LEMMA LinesAre ==
  ASSUME File, NEW kind
  PROVE  O!Lines(kind) \in SUBSET (1..Len(model))
BY DEF File, O!Lines

(* The first pass counts, and the second one begins.                       *)
LEMMA ObjFirst == ASSUME ObjAssumption, ObjInd, O!FirstPass PROVE ObjInd'
<1>1. File /\ line = 0 /\ vi = 1 /\ ni = 1 /\ tris = <<>> /\ UNCHANGED <<model, vi, ni, tris>>
  <2>1. line = 0 /\ UNCHANGED <<model, vi, ni, tris>>
    BY DEF O!FirstPass
  <2>2. Len(model) \in Nat
    BY DEF ObjInd, File
  <2>3. line \notin 1..(Len(model) + 1) /\ line # Len(model) + 1
    BY <2>1, <2>2
  <2> QED
    BY <2>1, <2>3 DEF ObjInd, Second
<1>2. File'
  BY <1>1 DEF File
<1>3. PICK n \in Nat : n = Len(model)
  BY <1>1 DEF File
<1>4. CASE O!Lines("v") = {} \/ O!Lines("f") = {}
  <2>1. line' = Len(model') + 1
    BY <1>1, <1>4 DEF O!FirstPass
  <2> QED
    BY <1>1, <1>2, <2>1 DEF ObjInd
<1>5. CASE ~(O!Lines("v") = {} \/ O!Lines("f") = {})
  <2>1. line' = 1 /\ counts' = Tallied
    <3>1. line' = 1
      BY <1>5 DEF O!FirstPass
    <3>2. counts' = Tallied
      BY CardinalityIs DEF O!FirstPass, Tallied
    <3> QED
      BY <3>1, <3>2
  <2>2. PICK e \in 1..n : TRUE
    <3>1. O!Lines("v") \in SUBSET (1..n)
      BY <1>1, <1>3, LinesAre
    <3> QED
      BY <1>5, <3>1
  <2>3. ASSUME NEW kind
        PROVE  Cardinality(Upto(O!Lines(kind), 1)) = 0 /\ Cardinality(O!Lines(kind)) \in Nat
    <3>1. O!Lines(kind) \in SUBSET (1..n)
      BY <1>1, <1>3, LinesAre
    <3> QED
      BY <2>2, <3>1, UptoIs
  <2>4. O!Lines("v")' = O!Lines("v") /\ O!Lines("vn")' = O!Lines("vn") /\ O!Lines("f")' = O!Lines("f")
    BY <1>1 DEF O!Lines
  <2>5. counts' = Tallied'
    BY <2>1, <2>4 DEF Tallied
  <2>6. counts'.verts \in Nat /\ counts'.norms \in Nat /\ counts'.faces \in Nat
    BY <2>1, <2>3 DEF Tallied
  <2>7. /\ Counted(O!Lines("v"))' = 0 /\ Counted(O!Lines("vn"))' = 0 /\ Counted(O!Lines("f"))' = 0
    BY <2>1, <2>3, <2>4 DEF Counted
  <2>8. Faced(line)' = {}
    <3>1. Upto(O!Lines("f"), 1) = {}
      <4>1. O!Lines("f") \in SUBSET (1..n)
        BY <1>1, <1>3, LinesAre
      <4>2. \A i \in 1..n : ~(i < 1)
        OBVIOUS
      <4> QED
        BY <4>1, <4>2 DEF Upto
    <3> QED
      BY <2>1, <2>4, <3>1 DEF Faced
  <2>9. Second'
    <3>1. line' \in 1..(Len(model') + 1)
      BY <1>1, <1>3, <2>1
    <3>2. vi' = 0 + 1 /\ ni' = 0 + 1 /\ tris' = <<>>
      BY <1>1
    <3>3. vi' <= counts'.verts + 1 /\ ni' <= counts'.norms + 1 /\ 0 <= counts'.faces
      BY <2>6, <3>2
    <3>4. IsFiniteSet({}) /\ Cardinality({}) = 0
      BY FS_EmptySet
    <3>5. tris' \in Meshes(vi', ni')
      BY <3>2 DEF Meshes
    <3>6. Len(tris') = 0
      BY <3>2
    <3>7. Len(tris') <= 2 * 0
      BY <3>6
    <3> QED
      BY <2>7, <2>8, <3>1, <3>2, <3>3, <3>4, <3>5, <3>6, <3>7 DEF Second
  <2> QED
    BY <1>2, <2>5, <2>9 DEF ObjInd
<1> QED
  BY <1>4, <1>5

(* A line of the second pass takes what the first one counted.             *)
LEMMA ObjSecond == ASSUME ObjAssumption, ObjInd, O!SecondPass PROVE ObjInd'
<1>1. PICK n \in Nat : n = Len(model)
  BY DEF ObjInd, File
<1>2. File /\ Second /\ counts = Tallied /\ line \in 1..n
  <2>1. line \in 1..n
    BY <1>1 DEF O!SecondPass, ObjInd, File
  <2>2. line # 0 /\ line # Len(model) + 1
    BY <1>1, <2>1
  <2> QED
    BY <2>1, <2>2 DEF ObjInd
<1>3. UNCHANGED <<model, counts>> /\ line' = line + 1
  BY DEF O!SecondPass
<1>4. PICK l : l = model[line]
  OBVIOUS
<1>5. /\ vi' = IF l.kind = "v" THEN vi + 1 ELSE vi
      /\ ni' = IF l.kind = "vn" THEN ni + 1 ELSE ni
      /\ IF l.kind = "f" THEN O!Face(l.corners) ELSE UNCHANGED tris
  BY <1>4 DEF O!SecondPass
<1>6. ASSUME NEW kind
      PROVE  /\ O!Lines(kind)' = O!Lines(kind)
             /\ Counted(O!Lines(kind)) \in Nat /\ Cardinality(O!Lines(kind)) \in Nat
             /\ Counted(O!Lines(kind))' = IF l.kind = kind THEN Counted(O!Lines(kind)) + 1 ELSE Counted(O!Lines(kind))
             /\ Counted(O!Lines(kind))' <= Cardinality(O!Lines(kind))
             /\ IsFiniteSet(Upto(O!Lines(kind), line))
  <2>1. O!Lines(kind) \in SUBSET (1..n)
    BY <1>1, <1>2, LinesAre
  <2>2. O!Lines(kind)' = O!Lines(kind)
    BY <1>3 DEF O!Lines
  <2>3. line \in O!Lines(kind) <=> l.kind = kind
    BY <1>1, <1>2, <1>4 DEF O!Lines, File
  <2>4. /\ Cardinality(O!Lines(kind)) \in Nat /\ Cardinality(Upto(O!Lines(kind), line)) \in Nat
        /\ IsFiniteSet(Upto(O!Lines(kind), line))
        /\ Cardinality(Upto(O!Lines(kind), line + 1)) = IF line \in O!Lines(kind) THEN Cardinality(Upto(O!Lines(kind), line)) + 1 ELSE Cardinality(Upto(O!Lines(kind), line))
        /\ Cardinality(Upto(O!Lines(kind), line + 1)) <= Cardinality(O!Lines(kind))
    BY <1>2, <2>1, UptoIs
  <2>5. Counted(O!Lines(kind))' = Cardinality(Upto(O!Lines(kind), line + 1))
    BY <1>3, <2>2 DEF Counted
  <2> QED
    BY <2>2, <2>3, <2>4, <2>5 DEF Counted
<1>7. PICK v \in Nat \ {0} : v = vi
  BY <1>2, <1>6 DEF Second
<1>8. PICK w \in Nat \ {0} : w = ni
  BY <1>2, <1>6 DEF Second
<1>9. tris \in Meshes(v, w)
  BY <1>2, <1>7, <1>8 DEF Second
<1>10. PICK v1 \in Nat \ {0} : v1 = vi' /\ v <= v1 /\ v1 = Counted(O!Lines("v"))' + 1 /\ v1 <= counts'.verts + 1
  <2>1. counts'.verts = Cardinality(O!Lines("v"))
    BY <1>2, <1>3 DEF Tallied
  <2>2. v = Counted(O!Lines("v")) + 1
    BY <1>2, <1>7 DEF Second
  <2>3. vi' = Counted(O!Lines("v"))' + 1 /\ vi' \in Nat \ {0} /\ v <= vi'
    <3>1. CASE l.kind = "v"
      BY <1>5, <1>6, <1>7, <2>2, <3>1
    <3>2. CASE l.kind # "v"
      BY <1>5, <1>6, <1>7, <2>2, <3>2
    <3> QED
      BY <3>1, <3>2
  <2>4. vi' <= counts'.verts + 1
    BY <1>6, <2>1, <2>3
  <2> QED
    BY <2>3, <2>4
<1>11. PICK w1 \in Nat \ {0} : w1 = ni' /\ w <= w1 /\ w1 = Counted(O!Lines("vn"))' + 1 /\ w1 <= counts'.norms + 1
  <2>1. counts'.norms = Cardinality(O!Lines("vn"))
    BY <1>2, <1>3 DEF Tallied
  <2>2. w = Counted(O!Lines("vn")) + 1
    BY <1>2, <1>8 DEF Second
  <2>3. ni' = Counted(O!Lines("vn"))' + 1 /\ ni' \in Nat \ {0} /\ w <= ni'
    <3>1. CASE l.kind = "vn"
      BY <1>5, <1>6, <1>8, <2>2, <3>1
    <3>2. CASE l.kind # "vn"
      BY <1>5, <1>6, <1>8, <2>2, <3>2
    <3> QED
      BY <3>1, <3>2
  <2>4. ni' <= counts'.norms + 1
    BY <1>6, <2>1, <2>3
  <2> QED
    BY <2>3, <2>4
<1>12. Meshes(v, w) \subseteq Meshes(v1, w1)
  <2>1. 0..(v - 1) \subseteq 0..(v1 - 1) /\ 0..(w - 1) \subseteq 0..(w1 - 1)
    BY <1>10, <1>11
  <2>2. Refs(v, w) \subseteq Refs(v1, w1)
    BY <2>1 DEF Refs
  <2>3. Refs(v, w) \X Refs(v, w) \X Refs(v, w) \subseteq Refs(v1, w1) \X Refs(v1, w1) \X Refs(v1, w1)
    BY <2>2
  <2> QED
    BY <2>3 DEF Meshes
<1>13. PICK g \in Nat : g = Counted(O!Lines("f")) /\ Len(tris) <= 2 * g
  BY <1>2, <1>6 DEF Second
<1>14. PICK t \in Meshes(v, w) : t = tris
  BY <1>9
<1>15. PICK m \in Nat : m = Len(t) /\ m <= 2 * g /\ m = Cardinality(Faced(line)) /\ IsFiniteSet(Faced(line))
  BY <1>2, <1>13, <1>14 DEF Second, Meshes
<1>16. Counted(O!Lines("f"))' <= counts'.faces
  BY <1>2, <1>3, <1>6 DEF Tallied
<1>17. Faced(line)' = {p \in Upto(O!Lines("f"), line + 1) \X {3, 4} : Len(model[p[1]].corners) >= p[2]}
  BY <1>3, <1>6 DEF Faced
<1>18. ASSUME tris' \in Meshes(v1, w1), IsFiniteSet(Faced(line)'), Len(tris') = Cardinality(Faced(line)'),
              Len(tris') <= 2 * Counted(O!Lines("f"))'
       PROVE  ObjInd'
  <2>1. line' \in 1..(Len(model') + 1)
    BY <1>1, <1>2, <1>3
  <2>2. Second'
    BY <1>6, <1>10, <1>11, <1>16, <1>18, <2>1 DEF Second
  <2>3. File' /\ counts' = Tallied'
    BY <1>2, <1>3, <1>6 DEF File, Tallied
  <2> QED
    BY <2>2, <2>3 DEF ObjInd
<1>19. CASE l.kind # "f"
  <2>1. line \notin O!Lines("f")
    BY <1>4, <1>19 DEF O!Lines
  <2>2. O!Lines("f") \in SUBSET (1..n)
    BY <1>1, <1>2, LinesAre
  <2>3. \A i \in 1..n : (i < line + 1 <=> i < line \/ i = line)
    BY <1>2
  <2>4. Upto(O!Lines("f"), line + 1) = Upto(O!Lines("f"), line)
    BY <2>1, <2>2, <2>3 DEF Upto
  <2>5. Faced(line)' = Faced(line)
    BY <1>17, <2>4 DEF Faced
  <2>6. tris' = t /\ Counted(O!Lines("f"))' = g
    BY <1>5, <1>6, <1>13, <1>14, <1>19
  <2> QED
    BY <1>12, <1>14, <1>15, <1>18, <2>5, <2>6
<1>20. CASE l.kind = "f"
  <2>1. PICK k \in Nat : k = Len(l.corners)
    BY <1>1, <1>2, <1>4 DEF File
  <2>2. PICK a : a = O!Triangle(l.corners, 1, 2, 3)
    OBVIOUS
  <2>3. PICK b : b = O!Triangle(l.corners, 1, 3, 4)
    OBVIOUS
  <2>4. tris' = t \o (IF k >= 3 THEN <<a>> ELSE <<>>) \o (IF k >= 4 THEN <<b>> ELSE <<>>)
    BY <1>5, <1>14, <1>20, <2>1, <2>2, <2>3 DEF O!Face
  <2>5. vi' = v /\ ni' = w /\ Counted(O!Lines("f"))' = g + 1
    BY <1>5, <1>6, <1>7, <1>8, <1>13, <1>20
  <2>6. PICK T : T = Refs(v, w) \X Refs(v, w) \X Refs(v, w)
    OBVIOUS
  <2>7. t \in Seq(T) /\ a \in T /\ b \in T /\ Meshes(v1, w1) = Seq(T)
    <3>1. a \in T /\ b \in T
      BY <1>7, <1>8, <2>2, <2>3, <2>6, TriangleIs
    <3>2. v1 = v /\ w1 = w
      BY <1>10, <1>11, <2>5
    <3> QED
      BY <1>14, <2>6, <3>1, <3>2 DEF Meshes
  <2>8. /\ IsFiniteSet(Faced(line)) /\ IsFiniteSet(Faced(line) \cup {<<line, 3>>})
        /\ IsFiniteSet((Faced(line) \cup {<<line, 3>>}) \cup {<<line, 4>>})
        /\ Cardinality(Faced(line) \cup {<<line, 3>>}) = m + 1
        /\ Cardinality((Faced(line) \cup {<<line, 3>>}) \cup {<<line, 4>>}) = (m + 1) + 1
    <3>1. line \notin Upto(O!Lines("f"), line)
      BY <1>2 DEF Upto
    <3>2. <<line, 3>> \notin Faced(line) /\ <<line, 4>> \notin Faced(line) /\ <<line, 3>> # <<line, 4>>
      BY <3>1 DEF Faced
    <3>3. /\ IsFiniteSet(Faced(line) \cup {<<line, 3>>})
          /\ Cardinality(Faced(line) \cup {<<line, 3>>}) = m + 1
      BY <1>15, <3>2, FS_AddElement
    <3>4. /\ IsFiniteSet((Faced(line) \cup {<<line, 3>>}) \cup {<<line, 4>>})
          /\ Cardinality((Faced(line) \cup {<<line, 3>>}) \cup {<<line, 4>>}) = (m + 1) + 1
      <4>1. <<line, 4>> \notin Faced(line) \cup {<<line, 3>>}
        BY <3>2
      <4> QED
        BY <3>3, <4>1, FS_AddElement
    <3> QED
      BY <1>15, <3>3, <3>4
  <2>9. Faced(line)' = Faced(line) \cup {p \in {line} \X {3, 4} : k >= p[2]}
    <3>1. O!Lines("f") \in SUBSET (1..n) /\ line \in O!Lines("f")
      BY <1>1, <1>2, <1>4, <1>20, LinesAre DEF O!Lines, File
    <3>2. \A i \in 1..n : (i < line + 1 <=> i < line \/ i = line)
      BY <1>2
    <3>3. Upto(O!Lines("f"), line + 1) = Upto(O!Lines("f"), line) \cup {line}
      BY <3>1, <3>2 DEF Upto
    <3>4. \A p \in {line} \X {3, 4} : Len(model[p[1]].corners) = k
      BY <1>4, <2>1
    <3> QED
      BY <1>17, <3>3, <3>4 DEF Faced
  <2>10. CASE ~(k >= 3)
    <3>1. tris' = t
      <4>1. ~(k >= 4)
        BY <2>10
      <4>2. t \o <<>> = t
        BY <2>7
      <4> QED
        BY <2>4, <2>10, <4>1, <4>2
    <3>2. Faced(line)' = Faced(line)
      <4>1. {p \in {line} \X {3, 4} : k >= p[2]} = {}
        BY <2>10
      <4> QED
        BY <2>9, <4>1
    <3>3. m <= 2 * (g + 1)
      BY <1>15
    <3> QED
      BY <1>15, <1>18, <2>5, <2>7, <3>1, <3>2, <3>3
  <2>11. CASE k >= 3 /\ ~(k >= 4)
    <3>1. tris' = t \o <<a>>
      <4>1. t \o <<a>> \in Seq(T)
        BY <2>7
      <4>2. (t \o <<a>>) \o <<>> = t \o <<a>>
        BY <4>1
      <4> QED
        BY <2>4, <2>11, <4>2
    <3>2. Faced(line)' = Faced(line) \cup {<<line, 3>>}
      <4>1. {p \in {line} \X {3, 4} : k >= p[2]} = {<<line, 3>>}
        BY <2>11
      <4> QED
        BY <2>9, <4>1
    <3>3. tris' \in Seq(T) /\ Len(tris') = m + 1
      <4>1. <<a>> \in Seq(T) /\ Len(<<a>>) = 1
        BY <2>7
      <4>2. Len(t) = m
        BY <1>15, <2>7
      <4>3. t \o <<a>> \in Seq(T) /\ Len(t \o <<a>>) = Len(t) + Len(<<a>>)
        BY <2>7, <4>1, ConcatProperties
      <4> QED
        BY <3>1, <4>1, <4>2, <4>3
    <3>4. m + 1 <= 2 * (g + 1)
      BY <1>15
    <3> QED
      BY <1>18, <2>5, <2>7, <2>8, <3>2, <3>3, <3>4
  <2>12. CASE k >= 4
    <3>1. tris' = (t \o <<a>>) \o <<b>>
      <4>1. k >= 3
        BY <2>12
      <4> QED
        BY <2>4, <2>12, <4>1
    <3>2. Faced(line)' = (Faced(line) \cup {<<line, 3>>}) \cup {<<line, 4>>}
      <4>1. {p \in {line} \X {3, 4} : k >= p[2]} = {<<line, 3>>, <<line, 4>>}
        BY <2>12
      <4> QED
        BY <2>9, <4>1
    <3>3. tris' \in Seq(T) /\ Len(tris') = (m + 1) + 1
      <4>1. <<a>> \in Seq(T) /\ Len(<<a>>) = 1 /\ <<b>> \in Seq(T) /\ Len(<<b>>) = 1
        BY <2>7
      <4>2. Len(t) = m
        BY <1>15, <2>7
      <4>3. PICK u : u = t \o <<a>>
        OBVIOUS
      <4>4. u \in Seq(T) /\ Len(u) = Len(t) + Len(<<a>>)
        BY <2>7, <4>1, <4>3, ConcatProperties
      <4>5. u \o <<b>> \in Seq(T) /\ Len(u \o <<b>>) = Len(u) + Len(<<b>>)
        BY <4>1, <4>4, ConcatProperties
      <4> QED
        BY <3>1, <4>1, <4>2, <4>3, <4>4, <4>5
    <3>4. (m + 1) + 1 <= 2 * (g + 1)
      BY <1>15
    <3> QED
      BY <1>18, <2>5, <2>7, <2>8, <3>2, <3>3, <3>4
  <2> QED
    BY <2>10, <2>11, <2>12
<1> QED
  BY <1>19, <1>20

(* Every step, and none, keeps the invariant.                              *)
LEMMA ObjStep == ASSUME ObjAssumption, ObjInd, [O!Next]_(O!vars) PROVE ObjInd'
<1>1. CASE UNCHANGED O!vars
  <2>1. UNCHANGED <<model, counts, line, vi, ni, tris>>
    BY <1>1 DEF O!vars
  <2>2. \A kind : O!Lines(kind)' = O!Lines(kind)
    BY <2>1 DEF O!Lines
  <2>3. File' = File /\ Tallied' = Tallied /\ Faced(line)' = Faced(line)
    BY <2>1, <2>2 DEF File, Tallied, Faced
  <2>4. Second' = Second
    BY <2>1, <2>2, <2>3 DEF Second, Counted
  <2> QED
    BY <2>1, <2>3, <2>4 DEF ObjInd
<1> QED
  BY <1>1, ObjFirst, ObjSecond DEF O!Next

(* Such a mesh is right.                                                   *)
LEMMA ObjMeans == ASSUME ObjInd PROVE O!MeshRight
<1> DEFINE Counted3 == {p \in {i \in O!Lines("f") : i < line} \X {3, 4} : Len(model[p[1]].corners) >= p[2]}
<1> SUFFICES ASSUME line > 0, line \in DOMAIN model \/ tris # <<>>
             PROVE  /\ vi <= counts.verts + 1 /\ ni <= counts.norms + 1 /\ Len(tris) <= 2 * counts.faces
                    /\ \A t \in DOMAIN tris : \A k \in 1..3 :
                         tris[t][k][1] \in 0..(vi - 1) /\ tris[t][k][2] \in 0..(ni - 1)
                    /\ Len(tris) = O!Cardinality(Counted3)
  BY DEF O!MeshRight
<1>1. Second /\ counts = Tallied /\ File
  <2>1. Len(model) \in Nat /\ DOMAIN model = 1..Len(model)
    BY DEF ObjInd, File
  <2>2. line # 0
    OBVIOUS
  <2>3. line = Len(model) + 1 => line \notin DOMAIN model
    BY <2>1
  <2> QED
    BY <2>2, <2>3 DEF ObjInd
<1>2. /\ vi <= counts.verts + 1 /\ ni <= counts.norms + 1
      /\ Len(tris) = Cardinality(Faced(line)) /\ tris \in Meshes(vi, ni)
  BY <1>1 DEF Second
<1>3. Len(tris) <= 2 * counts.faces
  <2>1. PICK n \in Nat : n = Len(model)
    BY <1>1 DEF File
  <2>2. O!Lines("f") \in SUBSET (1..n)
    BY <1>1, <2>1, LinesAre
  <2>3. IsFiniteSet(1..n)
    BY FS_Interval
  <2>4. IsFiniteSet(O!Lines("f"))
    BY <2>2, <2>3, FS_Subset
  <2>5. Upto(O!Lines("f"), line) \subseteq O!Lines("f")
    BY DEF Upto
  <2>6. IsFiniteSet(Upto(O!Lines("f"), line))
    BY <2>4, <2>5, FS_Subset
  <2>7. PICK g \in Nat : g = Counted(O!Lines("f"))
    BY <2>6, FS_CardinalityType DEF Counted
  <2>8. PICK f \in Nat : f = counts.faces
    BY <1>1, <2>4, FS_CardinalityType DEF Tallied
  <2>9. PICK m \in Nat : m = Len(tris)
    BY <1>2 DEF Meshes
  <2>10. m <= 2 * g /\ g <= f
    BY <1>1, <2>7, <2>8, <2>9 DEF Second
  <2>11. m <= 2 * f
    BY <2>10
  <2> QED
    BY <2>8, <2>9, <2>11
<1>4. ASSUME NEW t \in DOMAIN tris, NEW k \in 1..3
      PROVE  tris[t][k][1] \in 0..(vi - 1) /\ tris[t][k][2] \in 0..(ni - 1)
  <2>1. PICK R : R = Refs(vi, ni)
    OBVIOUS
  <2>2. tris[t] \in R \X R \X R
    BY <1>2, <2>1 DEF Meshes
  <2>3. tris[t][k] \in R
    <3>1. k = 1 \/ k = 2 \/ k = 3
      OBVIOUS
    <3> QED
      BY <2>2, <3>1
  <2> QED
    BY <2>1, <2>3 DEF Refs
<1>5. Faced(line) = Counted3
  BY DEF Faced, Upto
<1>6. Len(tris) = O!Cardinality(Counted3)
  <2> HIDE DEF Counted3
  <2> QED
    BY <1>2, <1>5, CardinalityIs
<1> QED
  BY <1>2, <1>3, <1>4, <1>6

(* Every file gives the triangles of its faces, and these refer to what    *)
(* was read before them: the arrays that LoadOBJ() reserves are large      *)
(* enough whatever the order of the lines is.                              *)
THEOREM MeshAlwaysRight == ASSUME ObjAssumption PROVE O!Spec => []O!MeshRight
<1>1. O!Init => ObjInd
  BY ObjInit
<1>2. ObjInd /\ [O!Next]_(O!vars) => ObjInd'
  BY ObjStep
<1>3. ObjInd => O!MeshRight
  BY ObjMeans
<1> QED
  BY <1>1, <1>2, <1>3, PTL DEF O!Spec

-----------------------------------------------------------------------------
(* The keyboard and the mouse                                              *)

(* A move fits into a signed byte, and nobody types before both drivers    *)
(* are active.                                                             *)
InputAssumption ==
  /\ Byte \in Nat \ {0}
  /\ Moves \subseteq {m \in Int \X Int : /\ - Byte <= 2 * m[1] /\ 2 * m[1] < Byte
                                      /\ - Byte <= 2 * m[2] /\ 2 * m[2] < Byte}
  /\ EarlyInput = FALSE

(* The bytes q lead from state s to state t, each by a step of R.          *)
Leads(R, s, q, t) ==
  \E z : /\ z[1] = s /\ z[Len(q) + 1] = t
         /\ \A i \in 1..Len(q) : <<z[i], q[i], z[i + 1]>> \in R

(* No byte leads nowhere else.                                             *)
LEMMA LeadsNone == ASSUME NEW R, NEW s, NEW t, NEW q, Len(q) = 0 PROVE Leads(R, s, q, t) <=> s = t
<1>1. ASSUME Leads(R, s, q, t) PROVE s = t
  BY <1>1 DEF Leads
<1>2. ASSUME s = t PROVE Leads(R, s, q, t)
  <2>1. PICK z : z = [i \in {1} |-> s]
    OBVIOUS
  <2>2. z[1] = s /\ z[Len(q) + 1] = t /\ \A i \in 1..Len(q) : FALSE
    BY <1>2, <2>1
  <2> QED
    BY <2>2 DEF Leads
<1> QED
  BY <1>1, <1>2

(* One more byte leads one step further.                                   *)
LEMMA LeadsOn ==
  ASSUME NEW R, NEW s, NEW B, NEW q \in Seq(B), NEW t, NEW b \in B, NEW u, Leads(R, s, q, t), <<t, b, u>> \in R
  PROVE  Leads(R, s, q \o <<b>>, u)
<1>1. PICK n \in Nat : n = Len(q)
  OBVIOUS
<1>2. PICK z : z[1] = s /\ z[n + 1] = t /\ \A i \in 1..n : <<z[i], q[i], z[i + 1]>> \in R
  BY <1>1 DEF Leads
<1>3. PICK p : p = q \o <<b>>
  OBVIOUS
<1>4. Len(p) = n + 1 /\ p[n + 1] = b /\ \A i \in 1..n : p[i] = q[i]
  BY <1>1, <1>3
<1>5. PICK y : y = [i \in 1..(n + 2) |-> IF i <= n + 1 THEN z[i] ELSE u]
  OBVIOUS
<1>6. /\ \A i \in 1..(n + 1) : y[i] = z[i]
      /\ y[n + 2] = u
  BY <1>1, <1>5
<1>7. y[1] = s /\ y[Len(p) + 1] = u
  BY <1>1, <1>2, <1>4, <1>6
<1>8. ASSUME NEW i \in 1..Len(p)
      PROVE  <<y[i], p[i], y[i + 1]>> \in R
  <2>1. CASE i <= n
    <3>1. y[i] = z[i] /\ y[i + 1] = z[i + 1] /\ p[i] = q[i]
      BY <1>1, <1>4, <1>6, <2>1
    <3> QED
      BY <1>2, <2>1, <3>1, <1>1
  <2>2. CASE i = n + 1
    <3>1. y[i] = t /\ y[i + 1] = u /\ p[i] = b
      BY <1>1, <1>2, <1>4, <1>6, <2>2
    <3> QED
      BY <3>1
  <2> QED
    BY <1>1, <1>4, <2>1, <2>2
<1> QED
  BY <1>3, <1>7, <1>8 DEF Leads

(* The first byte leads to where the others go on from.                    *)
LEMMA LeadsHead ==
  ASSUME NEW R, NEW s, NEW B, NEW q \in Seq(B), NEW t, Leads(R, s, q, t), q # <<>>
  PROVE  \E u : <<s, Head(q), u>> \in R /\ Leads(R, u, Tail(q), t)
<1>1. PICK n \in Nat : n = Len(q) /\ n > 0
  <2>1. Len(q) \in Nat /\ Len(q) # 0
    BY EmptySeq
  <2> QED
    BY <2>1
<1>2. PICK z : z[1] = s /\ z[n + 1] = t /\ \A i \in 1..n : <<z[i], q[i], z[i + 1]>> \in R
  BY <1>1 DEF Leads
<1>3. PICK p : p = Tail(q)
  OBVIOUS
<1>4. Len(p) = n - 1 /\ Head(q) = q[1] /\ \A i \in 1..(n - 1) : p[i] = q[i + 1]
  BY <1>1, <1>3
<1>5. PICK y : y = [i \in 1..n |-> z[i + 1]]
  OBVIOUS
<1>6. \A i \in 1..n : y[i] = z[i + 1]
  BY <1>5
<1>7. y[1] = z[2] /\ y[Len(p) + 1] = t
  BY <1>1, <1>2, <1>4, <1>6
<1>8. ASSUME NEW i \in 1..Len(p)
      PROVE  <<y[i], p[i], y[i + 1]>> \in R
  <2>1. y[i] = z[i + 1] /\ y[i + 1] = z[(i + 1) + 1] /\ p[i] = q[i + 1] /\ i + 1 \in 1..n
    <3>1. i \in 1..(n - 1)
      BY <1>4
    <3>2. i \in 1..n /\ i + 1 \in 1..n
      BY <1>1, <3>1
    <3>3. y[i] = z[i + 1] /\ y[i + 1] = z[(i + 1) + 1]
      BY <1>6, <3>2
    <3>4. p[i] = q[i + 1]
      BY <1>4, <3>1
    <3> QED
      BY <3>2, <3>3, <3>4
  <2> QED
    BY <1>2, <2>1
<1>9. Leads(R, z[2], p, t)
  BY <1>7, <1>8 DEF Leads
<1>10. <<s, Head(q), z[2]>> \in R
  BY <1>1, <1>2, <1>4
<1> QED
  BY <1>3, <1>9, <1>10

(* The keys h that come without a prefix, and the modifiers among h.       *)
Codes == {42, 58, 30, 29}
Names == {"left shift", "left ctrl", "right ctrl"}
Plain(h) == {c \in Codes : <<c, FALSE>> \in h}
Held(h) == (IF <<42, FALSE>> \in h THEN {"left shift"} ELSE {})
           \cup (IF <<29, FALSE>> \in h THEN {"left ctrl"} ELSE {})
           \cup (IF <<29, TRUE>> \in h THEN {"right ctrl"} ELSE {})

(* The modifier of a scancode, and of one after a prefix.                  *)
Mod(b) == IF b = 42 THEN {"left shift"} ELSE IF b = 29 THEN {"left ctrl"} ELSE {}
RightMod == {"right ctrl"}

(* What a byte makes of a keyboard driver with the prefix x (1), the keys k    *)
(* and the modifiers m.                                                    *)
KeyStep(x, k, m, b) ==
  IF b = 224 THEN <<1, k, m>>
  ELSE IF x = 1 THEN <<0, k, IF b = 29 THEN m \cup RightMod ELSE IF b = 157 THEN m \ RightMod ELSE m>>
  ELSE IF b < 128 THEN <<0, k \cup {b}, m \cup Mod(b)>>
  ELSE <<0, k \ {b - 128}, m \ Mod(b - 128)>>

(* What the keyboard sends, the states of its driver, and its steps.       *)
KeyBytes == 0..255
KeyStates == {0, 1} \X (SUBSET Nat) \X (SUBSET Names)
KeyRel == {r \in KeyStates \X KeyBytes \X KeyStates : r[3] = KeyStep(r[1][1], r[1][2], r[1][3], r[2])}

(* The driver that knows the keys h as they are.                           *)
KeyTruth(h) == <<0, Plain(h), Held(h)>>
(* What the driver knows.                                                  *)
KeyNow == <<IF extended THEN 1 ELSE 0, keyStates, modifiers>>

(* The modifiers of a key.                                                 *)
LEMMA ModifierIs ==
  /\ \A b : I!Modifier(<<b, FALSE>>) = Mod(b)
  /\ I!Modifier(<<29, TRUE>>) = RightMod
<1>1. ASSUME NEW b PROVE I!Modifier(<<b, FALSE>>) = Mod(b)
  <2>1. <<b, FALSE>> = <<42, FALSE>> <=> b = 42
    OBVIOUS
  <2>2. <<b, FALSE>> = <<29, FALSE>> <=> b = 29
    OBVIOUS
  <2>3. <<b, FALSE>> # <<29, TRUE>>
    OBVIOUS
  <2>4. PICK k : k = <<b, FALSE>>
    OBVIOUS
  <2>5. /\ k = I!LeftShift <=> b = 42
        /\ k = I!LeftCtrl <=> b = 29
        /\ k # I!RightCtrl /\ I!LeftShift # I!LeftCtrl
    BY <2>1, <2>2, <2>3, <2>4 DEF I!LeftShift, I!LeftCtrl, I!RightCtrl
  <2>6. I!Modifier(k) = Mod(b)
    <3>1. CASE b = 42
      BY <2>5, <3>1 DEF I!Modifier, Mod
    <3>2. CASE b = 29
      <4>1. k = I!LeftCtrl /\ k # I!LeftShift /\ k # I!RightCtrl
        BY <2>5, <3>2
      <4>2. I!Modifier(k) = {"left ctrl"}
        BY <4>1 DEF I!Modifier
      <4>3. Mod(b) = {"left ctrl"}
        BY <3>2 DEF Mod
      <4> QED
        BY <4>2, <4>3
    <3>3. CASE b # 42 /\ b # 29
      BY <2>5, <3>3 DEF I!Modifier, Mod
    <3> QED
      BY <3>1, <3>2, <3>3
  <2> QED
    BY <2>4, <2>6
<1>2. I!Modifier(<<29, TRUE>>) = RightMod
  <2>1. <<29, TRUE>> # <<42, FALSE>> /\ <<29, TRUE>> # <<29, FALSE>>
    OBVIOUS
  <2> QED
    BY <2>1 DEF I!Modifier, I!LeftShift, I!LeftCtrl, I!RightCtrl, RightMod
<1> QED
  BY <1>1, <1>2

(* The modifier of a scancode is one.                                      *)
LEMMA ModIs == (\A b : Mod(b) \subseteq Names) /\ RightMod \subseteq Names
BY DEF Mod, RightMod, Names

(* A step of the keyboard driver is one of the relation.                   *)
LEMMA KeyRelIs ==
  ASSUME NEW x \in {0, 1}, NEW k \in SUBSET Nat, NEW m \in SUBSET Names, NEW b \in KeyBytes
  PROVE  /\ <<x, k, m>> \in KeyStates
         /\ KeyStep(x, k, m, b) \in KeyStates
         /\ <<<<x, k, m>>, b, KeyStep(x, k, m, b)>> \in KeyRel
<1>1. \A y \in {0, 1}, l \in SUBSET Nat, n \in SUBSET Names : <<y, l, n>> \in KeyStates
  <2> DEFINE F == {0, 1}
             P == SUBSET Nat
             Q == SUBSET Names
  <2> HIDE DEF F, P, Q
  <2>1. \A y \in F, l \in P, n \in Q : <<y, l, n>> \in F \X P \X Q
    OBVIOUS
  <2>2. F = {0, 1} /\ P = SUBSET Nat /\ Q = SUBSET Names
    BY DEF F, P, Q
  <2>3. KeyStates = F \X P \X Q
    BY <2>2 DEF KeyStates
  <2> QED
    BY <2>1, <2>2, <2>3
<1>2. KeyStep(x, k, m, b) \in KeyStates
  <2>1. CASE b = 224
    BY <1>1, <2>1 DEF KeyStep
  <2>2. CASE b # 224 /\ x = 1
    <3>1. m \cup RightMod \in SUBSET Names /\ m \ RightMod \in SUBSET Names
      BY ModIs
    <3> DEFINE n == IF b = 29 THEN m \cup RightMod ELSE IF b = 157 THEN m \ RightMod ELSE m
    <3>4. n \in SUBSET Names
      BY <3>1
    <3>3. KeyStep(x, k, m, b) = <<0, k, n>>
      BY <2>2 DEF KeyStep
    <3> HIDE DEF n
    <3> QED
      BY <1>1, <3>3, <3>4
  <2>3. CASE b # 224 /\ x # 1 /\ b < 128
    <3>1. m \cup Mod(b) \in SUBSET Names
      BY ModIs
    <3>2. k \cup {b} \in SUBSET Nat
      BY DEF KeyBytes
    <3>3. KeyStep(x, k, m, b) = <<0, k \cup {b}, m \cup Mod(b)>>
      BY <2>3 DEF KeyStep
    <3> QED
      BY <1>1, <3>1, <3>2, <3>3
  <2>4. CASE b # 224 /\ x # 1 /\ ~(b < 128)
    <3>1. m \ Mod(b - 128) \in SUBSET Names /\ k \ {b - 128} \in SUBSET Nat
      OBVIOUS
    <3>3. KeyStep(x, k, m, b) = <<0, k \ {b - 128}, m \ Mod(b - 128)>>
      BY <2>4 DEF KeyStep
    <3> QED
      BY <1>1, <3>1, <3>3
  <2> QED
    BY <2>1, <2>2, <2>3, <2>4
<1>3. <<x, k, m>> \in KeyStates
  BY <1>1
<1>4. PICK s : s = <<x, k, m>>
  OBVIOUS
<1>5. PICK t : t = KeyStep(x, k, m, b)
  OBVIOUS
<1>6. s[1] = x /\ s[2] = k /\ s[3] = m
  BY <1>4
<1>7. t = KeyStep(s[1], s[2], s[3], b)
  BY <1>5, <1>6
<1>8. <<s, b, t>> \in KeyStates \X KeyBytes \X KeyStates
  BY <1>2, <1>3, <1>4, <1>5
<1>9. <<s, b, t>> \in KeyRel
  BY <1>7, <1>8 DEF KeyRel
<1> QED
  BY <1>2, <1>3, <1>4, <1>5, <1>9

(* A key as the model has it.                                              *)
LEMMA KeysAre ==
  /\ I!Keys = {<<42, FALSE>>, <<58, FALSE>>, <<30, FALSE>>, <<29, FALSE>>, <<29, TRUE>>}
  /\ \A c \in Codes : <<c, FALSE>> # <<29, TRUE>>
<1>1. I!Keys = {<<42, FALSE>>, <<58, FALSE>>, <<30, FALSE>>, <<29, FALSE>>, <<29, TRUE>>}
  BY DEF I!Keys, I!LeftShift, I!CapsLock, I!Letter, I!LeftCtrl, I!RightCtrl
<1> QED
  BY <1>1

(* Which modifiers are held.                                               *)
LEMMA HeldHas ==
  ASSUME NEW g
  PROVE  /\ "left shift" \in Held(g) <=> <<42, FALSE>> \in g
         /\ "left ctrl" \in Held(g) <=> <<29, FALSE>> \in g
         /\ "right ctrl" \in Held(g) <=> <<29, TRUE>> \in g
         /\ Held(g) \subseteq Names
BY DEF Held, Names

(* Modifiers are the same when each is in both or in none.                 *)
LEMMA SameNames ==
  ASSUME NEW x \in SUBSET Names, NEW y \in SUBSET Names,
         "left shift" \in x <=> "left shift" \in y,
         "left ctrl" \in x <=> "left ctrl" \in y,
         "right ctrl" \in x <=> "right ctrl" \in y
  PROVE  x = y
<1>1. ASSUME NEW n \in Names
      PROVE  n \in x <=> n \in y
  <2>1. n = "left shift" \/ n = "left ctrl" \/ n = "right ctrl"
    BY DEF Names
  <2> QED
    BY <2>1
<1>2. x \subseteq Names /\ y \subseteq Names
  OBVIOUS
<1> QED
  BY <1>1, <1>2

(* What the driver should know when a key of the left hand is pressed or   *)
(* released.                                                               *)
LEMMA PlainKeys ==
  ASSUME NEW h \in SUBSET I!Keys, NEW c \in Codes
  PROVE  /\ Plain(h \cup {<<c, FALSE>>}) = Plain(h) \cup {c}
         /\ Held(h \cup {<<c, FALSE>>}) = Held(h) \cup Mod(c)
         /\ Plain(h \ {<<c, FALSE>>}) = Plain(h) \ {c}
         /\ Held(h \ {<<c, FALSE>>}) = Held(h) \ Mod(c)
<1>1. PICK k : k = <<c, FALSE>>
  OBVIOUS
<1>2. \A d : <<d, FALSE>> = k <=> d = c
  BY <1>1
<1>3. <<29, TRUE>> # k
  BY <1>1
<1>4. Plain(h \cup {k}) = Plain(h) \cup {c} /\ Plain(h \ {k}) = Plain(h) \ {c}
  <2>1. \A d \in Codes : <<d, FALSE>> \in h \cup {k} <=> <<d, FALSE>> \in h \/ d = c
    BY <1>2
  <2>2. \A d \in Codes : <<d, FALSE>> \in h \ {k} <=> <<d, FALSE>> \in h /\ d # c
    BY <1>2
  <2> QED
    BY <2>1, <2>2 DEF Plain
<1>5. Held(h \cup {k}) = Held(h) \cup Mod(c) /\ Held(h \ {k}) = Held(h) \ Mod(c)
  <2>1. /\ <<29, TRUE>> \in h \cup {k} <=> <<29, TRUE>> \in h
        /\ <<29, TRUE>> \in h \ {k} <=> <<29, TRUE>> \in h
    BY <1>3
  <2>2. /\ <<42, FALSE>> \in h \cup {k} <=> <<42, FALSE>> \in h \/ c = 42
        /\ <<42, FALSE>> \in h \ {k} <=> <<42, FALSE>> \in h /\ c # 42
    BY <1>2
  <2>3. /\ <<29, FALSE>> \in h \cup {k} <=> <<29, FALSE>> \in h \/ c = 29
        /\ <<29, FALSE>> \in h \ {k} <=> <<29, FALSE>> \in h /\ c # 29
    BY <1>2
  <2>4. CASE c = 42
    <3>1. Mod(c) = {"left shift"}
      BY <2>4 DEF Mod
    <3>2. PICK x \in SUBSET Names : x = Held(h)
      BY HeldHas
    <3>3. PICK y \in SUBSET Names : y = Held(h \cup {k})
      BY HeldHas
    <3>4. PICK z \in SUBSET Names : z = Held(h \ {k})
      BY HeldHas
    <3>5. /\ "left shift" \in x <=> <<42, FALSE>> \in h
          /\ "left ctrl" \in x <=> <<29, FALSE>> \in h
          /\ "right ctrl" \in x <=> <<29, TRUE>> \in h
      BY <3>2, HeldHas
    <3>6. /\ "left shift" \in y <=> <<42, FALSE>> \in h \/ c = 42
          /\ "left ctrl" \in y <=> <<29, FALSE>> \in h \/ c = 29
          /\ "right ctrl" \in y <=> <<29, TRUE>> \in h
      BY <2>1, <2>2, <2>3, <3>3, HeldHas
    <3>7. /\ "left shift" \in z <=> <<42, FALSE>> \in h /\ c # 42
          /\ "left ctrl" \in z <=> <<29, FALSE>> \in h /\ c # 29
          /\ "right ctrl" \in z <=> <<29, TRUE>> \in h
      BY <2>1, <2>2, <2>3, <3>4, HeldHas
    <3>8. x \cup {"left shift"} \in SUBSET Names /\ x \ {"left shift"} \in SUBSET Names
      BY DEF Names
    <3>9. y = x \cup {"left shift"}
      <4>1. PICK w \in SUBSET Names : w = x \cup {"left shift"}
        BY <3>8
      <4>2. /\ "left shift" \in y <=> "left shift" \in w
            /\ "left ctrl" \in y <=> "left ctrl" \in w
            /\ "right ctrl" \in y <=> "right ctrl" \in w
        <5>1. /\ "left shift" \in y
              /\ "left ctrl" \in y <=> "left ctrl" \in x
              /\ "right ctrl" \in y <=> "right ctrl" \in x
          <6>1. c # 29
            BY <2>4
          <6> QED
            BY <2>4, <3>5, <3>6, <6>1, Zenon
        <5>2. /\ "left shift" \in w
              /\ "left ctrl" \in w <=> "left ctrl" \in x
              /\ "right ctrl" \in w <=> "right ctrl" \in x
          BY <4>1
        <5> QED
          BY <5>1, <5>2
      <4> QED
        BY <4>1, <4>2, SameNames
    <3>10. z = x \ {"left shift"}
      <4>1. PICK w \in SUBSET Names : w = x \ {"left shift"}
        BY <3>8
      <4>2. /\ "left shift" \in z <=> "left shift" \in w
            /\ "left ctrl" \in z <=> "left ctrl" \in w
            /\ "right ctrl" \in z <=> "right ctrl" \in w
        <5>1. /\ "left shift" \notin z
              /\ "left ctrl" \in z <=> "left ctrl" \in x
              /\ "right ctrl" \in z <=> "right ctrl" \in x
          <6>1. c # 29
            BY <2>4
          <6> QED
            BY <2>4, <3>5, <3>7, <6>1, Zenon
        <5>2. /\ "left shift" \notin w
              /\ "left ctrl" \in w <=> "left ctrl" \in x
              /\ "right ctrl" \in w <=> "right ctrl" \in x
          BY <4>1
        <5> QED
          BY <5>1, <5>2
      <4> QED
        BY <4>1, <4>2, SameNames
    <3> QED
      BY <3>1, <3>2, <3>3, <3>4, <3>9, <3>10
  <2>5. CASE c = 29
    <3>1. Mod(c) = {"left ctrl"}
      BY <2>5 DEF Mod
    <3>2. PICK x \in SUBSET Names : x = Held(h)
      BY HeldHas
    <3>3. PICK y \in SUBSET Names : y = Held(h \cup {k})
      BY HeldHas
    <3>4. PICK z \in SUBSET Names : z = Held(h \ {k})
      BY HeldHas
    <3>5. /\ "left shift" \in x <=> <<42, FALSE>> \in h
          /\ "left ctrl" \in x <=> <<29, FALSE>> \in h
          /\ "right ctrl" \in x <=> <<29, TRUE>> \in h
      BY <3>2, HeldHas
    <3>6. /\ "left shift" \in y <=> <<42, FALSE>> \in h \/ c = 42
          /\ "left ctrl" \in y <=> <<29, FALSE>> \in h \/ c = 29
          /\ "right ctrl" \in y <=> <<29, TRUE>> \in h
      BY <2>1, <2>2, <2>3, <3>3, HeldHas
    <3>7. /\ "left shift" \in z <=> <<42, FALSE>> \in h /\ c # 42
          /\ "left ctrl" \in z <=> <<29, FALSE>> \in h /\ c # 29
          /\ "right ctrl" \in z <=> <<29, TRUE>> \in h
      BY <2>1, <2>2, <2>3, <3>4, HeldHas
    <3>8. x \cup {"left ctrl"} \in SUBSET Names /\ x \ {"left ctrl"} \in SUBSET Names
      BY DEF Names
    <3>9. y = x \cup {"left ctrl"}
      <4>1. PICK w \in SUBSET Names : w = x \cup {"left ctrl"}
        BY <3>8
      <4>2. /\ "left shift" \in y <=> "left shift" \in w
            /\ "left ctrl" \in y <=> "left ctrl" \in w
            /\ "right ctrl" \in y <=> "right ctrl" \in w
        <5>1. /\ "left ctrl" \in y
              /\ "left shift" \in y <=> "left shift" \in x
              /\ "right ctrl" \in y <=> "right ctrl" \in x
          <6>1. c # 42
            BY <2>5
          <6> QED
            BY <2>5, <3>5, <3>6, <6>1, Zenon
        <5>2. /\ "left ctrl" \in w
              /\ "left shift" \in w <=> "left shift" \in x
              /\ "right ctrl" \in w <=> "right ctrl" \in x
          BY <4>1
        <5> QED
          BY <5>1, <5>2
      <4> QED
        BY <4>1, <4>2, SameNames
    <3>10. z = x \ {"left ctrl"}
      <4>1. PICK w \in SUBSET Names : w = x \ {"left ctrl"}
        BY <3>8
      <4>2. /\ "left shift" \in z <=> "left shift" \in w
            /\ "left ctrl" \in z <=> "left ctrl" \in w
            /\ "right ctrl" \in z <=> "right ctrl" \in w
        <5>1. /\ "left ctrl" \notin z
              /\ "left shift" \in z <=> "left shift" \in x
              /\ "right ctrl" \in z <=> "right ctrl" \in x
          <6>1. c # 42
            BY <2>5
          <6> QED
            BY <2>5, <3>5, <3>7, <6>1, Zenon
        <5>2. /\ "left ctrl" \notin w
              /\ "left shift" \in w <=> "left shift" \in x
              /\ "right ctrl" \in w <=> "right ctrl" \in x
          BY <4>1
        <5> QED
          BY <5>1, <5>2
      <4> QED
        BY <4>1, <4>2, SameNames
    <3> QED
      BY <3>1, <3>2, <3>3, <3>4, <3>9, <3>10
  <2>6. CASE c # 42 /\ c # 29
    BY <2>1, <2>2, <2>3, <2>6 DEF Held, Mod
  <2> QED
    BY <2>4, <2>5, <2>6
<1> QED
  BY <1>1, <1>4, <1>5

(* The same for the right Ctrl key, which comes with a prefix.             *)
LEMMA PrefixedKey ==
  ASSUME NEW h \in SUBSET I!Keys
  PROVE  /\ Plain(h \cup {<<29, TRUE>>}) = Plain(h)
         /\ Held(h \cup {<<29, TRUE>>}) = Held(h) \cup RightMod
         /\ Plain(h \ {<<29, TRUE>>}) = Plain(h)
         /\ Held(h \ {<<29, TRUE>>}) = Held(h) \ RightMod
<1>1. PICK k : k = <<29, TRUE>>
  OBVIOUS
<1>2. \A d : <<d, FALSE>> # k
  BY <1>1
<1>3. \A d : /\ <<d, FALSE>> \in h \cup {k} <=> <<d, FALSE>> \in h
             /\ <<d, FALSE>> \in h \ {k} <=> <<d, FALSE>> \in h
  BY <1>2
<1>4. <<29, TRUE>> \in h \cup {k} /\ <<29, TRUE>> \notin h \ {k}
  BY <1>1
<1>5. Plain(h \cup {k}) = Plain(h) /\ Plain(h \ {k}) = Plain(h)
  BY <1>3 DEF Plain
<1>6. Held(h \cup {k}) = Held(h) \cup RightMod /\ Held(h \ {k}) = Held(h) \ RightMod
  BY <1>3, <1>4 DEF Held, RightMod
<1> QED
  BY <1>1, <1>5, <1>6

(* What is known is a state of the driver.                                 *)
LEMMA KeyTruthIs ==
  ASSUME NEW h
  PROVE  Plain(h) \in SUBSET Nat /\ Held(h) \in SUBSET Names
<1>1. Plain(h) \in SUBSET Nat
  <2>1. Codes \subseteq Nat
    BY DEF Codes
  <2>2. Plain(h) \subseteq Codes
    BY DEF Plain
  <2> QED
    BY <2>1, <2>2
<1>2. Held(h) \in SUBSET Names
  BY DEF Held, Names
<1> QED
  BY <1>1, <1>2

(* The bytes of a key lead from what was known to what is.                 *)
LEMMA KeysLead ==
  ASSUME NEW h \in SUBSET I!Keys, NEW key \in I!Keys, NEW s, NEW q \in Seq(KeyBytes),
         Leads(KeyRel, s, q, KeyTruth(h))
  PROVE  /\ q \o I!Send(key, FALSE) \in Seq(KeyBytes)
         /\ Leads(KeyRel, s, q \o I!Send(key, FALSE), KeyTruth(h \cup {key}))
         /\ q \o I!Send(key, TRUE) \in Seq(KeyBytes)
         /\ Leads(KeyRel, s, q \o I!Send(key, TRUE), KeyTruth(h \ {key}))
<1>1. PICK a \in SUBSET Nat : a = Plain(h)
  BY KeyTruthIs
<1>2. PICK m \in SUBSET Names : m = Held(h)
  BY KeyTruthIs
<1>3. Leads(KeyRel, s, q, <<0, a, m>>)
  BY <1>1, <1>2 DEF KeyTruth
<1>4. ASSUME NEW c \in Codes, key = <<c, FALSE>>
      PROVE  /\ q \o I!Send(key, FALSE) \in Seq(KeyBytes)
             /\ Leads(KeyRel, s, q \o I!Send(key, FALSE), KeyTruth(h \cup {key}))
             /\ q \o I!Send(key, TRUE) \in Seq(KeyBytes)
             /\ Leads(KeyRel, s, q \o I!Send(key, TRUE), KeyTruth(h \ {key}))
  <2>1. c \in KeyBytes /\ c + 128 \in KeyBytes /\ c < 128 /\ c # 224 /\ c + 128 # 224 /\ (c + 128) - 128 = c
    BY DEF Codes, KeyBytes
  <2>2. /\ KeyStep(0, a, m, c) = <<0, a \cup {c}, m \cup Mod(c)>>
        /\ KeyStep(0, a, m, c + 128) = <<0, a \ {c}, m \ Mod(c)>>
    <3>1. KeyStep(0, a, m, c) = <<0, a \cup {c}, m \cup Mod(c)>>
      BY <2>1 DEF KeyStep
    <3>2. PICK d \in KeyBytes : d = c + 128 /\ d - 128 = c /\ ~(d < 128) /\ d # 224
      BY <2>1 DEF KeyBytes
    <3>3. KeyStep(0, a, m, d) = <<0, a \ {d - 128}, m \ Mod(d - 128)>>
      BY <3>2 DEF KeyStep
    <3> QED
      BY <3>1, <3>2, <3>3
  <2>3. /\ KeyTruth(h \cup {key}) = KeyStep(0, a, m, c)
        /\ KeyTruth(h \ {key}) = KeyStep(0, a, m, c + 128)
    BY <1>1, <1>2, <1>4, <2>2, PlainKeys DEF KeyTruth
  <2>4. I!Send(key, FALSE) = <<c>> /\ I!Send(key, TRUE) = <<c + 128>>
    <3>1. key[1] = c /\ ~key[2]
      BY <1>4
    <3>3. c \in Nat /\ c + 128 \in Nat
      BY <2>1 DEF KeyBytes
    <3>2. c + 0 = c /\ <<>> \o <<c>> = <<c>> /\ <<>> \o <<c + 128>> = <<c + 128>>
      BY <3>3
    <3> QED
      BY <3>1, <3>2 DEF I!Send, I!Released
  <2>5. /\ <<<<0, a, m>>, c, KeyStep(0, a, m, c)>> \in KeyRel
        /\ <<<<0, a, m>>, c + 128, KeyStep(0, a, m, c + 128)>> \in KeyRel
    BY <2>1, KeyRelIs
  <2>6. /\ Leads(KeyRel, s, q \o <<c>>, KeyStep(0, a, m, c))
        /\ Leads(KeyRel, s, q \o <<c + 128>>, KeyStep(0, a, m, c + 128))
    BY <1>3, <2>1, <2>5, LeadsOn
  <2>7. q \o <<c>> \in Seq(KeyBytes) /\ q \o <<c + 128>> \in Seq(KeyBytes)
    BY <2>1
  <2> QED
    BY <2>3, <2>4, <2>6, <2>7
<1>5. CASE key = <<29, TRUE>>
  <2>1. 224 \in KeyBytes /\ 29 \in KeyBytes /\ 157 \in KeyBytes
    BY DEF KeyBytes
  <2>2. /\ KeyStep(0, a, m, 224) = <<1, a, m>>
        /\ KeyStep(1, a, m, 29) = <<0, a, m \cup RightMod>>
        /\ KeyStep(1, a, m, 157) = <<0, a, m \ RightMod>>
    BY DEF KeyStep
  <2>3. /\ KeyTruth(h \cup {key}) = KeyStep(1, a, m, 29)
        /\ KeyTruth(h \ {key}) = KeyStep(1, a, m, 157)
    BY <1>1, <1>2, <1>5, <2>2, PrefixedKey DEF KeyTruth
  <2>4. I!Send(key, FALSE) = <<224>> \o <<29>> /\ I!Send(key, TRUE) = <<224>> \o <<157>>
    <3>1. key[1] = 29 /\ key[2]
      BY <1>5
    <3> QED
      BY <3>1 DEF I!Send, I!Released, I!Prefix
  <2>5. /\ <<<<0, a, m>>, 224, <<1, a, m>>>> \in KeyRel
        /\ <<<<1, a, m>>, 29, KeyStep(1, a, m, 29)>> \in KeyRel
        /\ <<<<1, a, m>>, 157, KeyStep(1, a, m, 157)>> \in KeyRel
    <3>1. \A x \in {0, 1}, b \in KeyBytes : <<<<x, a, m>>, b, KeyStep(x, a, m, b)>> \in KeyRel
      BY KeyRelIs
    <3> HIDE DEF KeyBytes
    <3>2. 0 \in {0, 1} /\ 1 \in {0, 1}
      OBVIOUS
    <3>3. <<<<0, a, m>>, 224, KeyStep(0, a, m, 224)>> \in KeyRel
      BY <2>1, <3>1, <3>2
    <3>4. <<<<1, a, m>>, 29, KeyStep(1, a, m, 29)>> \in KeyRel
      BY <2>1, <3>1, <3>2
    <3>5. <<<<1, a, m>>, 157, KeyStep(1, a, m, 157)>> \in KeyRel
      BY <2>1, <3>1, <3>2
    <3> QED
      BY <2>2, <3>3, <3>4, <3>5
  <2>6. PICK p : p = q \o <<224>>
    OBVIOUS
  <2>7. p \in Seq(KeyBytes) /\ Leads(KeyRel, s, p, <<1, a, m>>)
    <3>1. Leads(KeyRel, s, p, <<1, a, m>>)
      <4>1. PICK t : t = <<0, a, m>>
        OBVIOUS
      <4>2. PICK u : u = <<1, a, m>>
        OBVIOUS
      <4>3. <<t, 224, u>> \in KeyRel
        BY <2>5, <4>1, <4>2
      <4>4. Leads(KeyRel, s, q, t)
        BY <1>3, <4>1
      <4>5. 224 \in KeyBytes
        BY <2>1
      <4>6. Leads(KeyRel, s, q \o <<224>>, u)
        BY <4>3, <4>4, <4>5, LeadsOn
      <4> QED
        BY <2>6, <4>2, <4>6
    <3>2. <<224>> \in Seq(KeyBytes)
      BY <2>1
    <3> QED
      BY <2>6, <3>1, <3>2
  <2>8. /\ Leads(KeyRel, s, p \o <<29>>, KeyStep(1, a, m, 29))
        /\ Leads(KeyRel, s, p \o <<157>>, KeyStep(1, a, m, 157))
    BY <2>1, <2>5, <2>7, LeadsOn
  <2>9. p \o <<29>> \in Seq(KeyBytes) /\ p \o <<157>> \in Seq(KeyBytes)
    BY <2>1, <2>7
  <2>10. q \o (<<224>> \o <<29>>) = p \o <<29>> /\ q \o (<<224>> \o <<157>>) = p \o <<157>>
    <3>1. <<224>> \in Seq(KeyBytes) /\ <<29>> \in Seq(KeyBytes) /\ <<157>> \in Seq(KeyBytes)
      BY <2>1
    <3> QED
      BY <2>6, <3>1, ConcatAssociative
  <2>11. q \o I!Send(key, FALSE) = p \o <<29>>
    BY <2>4, <2>10
  <2>12. q \o I!Send(key, TRUE) = p \o <<157>>
    BY <2>4, <2>10
  <2> QED
    BY <2>3, <2>8, <2>9, <2>11, <2>12
<1>6. (\E c \in Codes : key = <<c, FALSE>>) \/ key = <<29, TRUE>>
  BY KeysAre DEF Codes
<1> QED
  BY <1>4, <1>5, <1>6

(* What comes from the keyboard leads to the keys as they are.             *)
KeyWay ==
  IF out[1] = "keyboard"
    THEN \E s : <<KeyNow, out[2], s>> \in KeyRel /\ Leads(KeyRel, s, keyLine, KeyTruth(heldKeys))
    ELSE Leads(KeyRel, KeyNow, keyLine, KeyTruth(heldKeys))

(* What is known of the keyboard.                                          *)
KeyInd ==
  /\ heldKeys \in SUBSET I!Keys /\ keyLine \in Seq(KeyBytes)
  /\ extended \in BOOLEAN /\ keyStates \in SUBSET Nat /\ modifiers \in SUBSET Names
  /\ KeyWay

(* What the keyboard sends waits behind what it sent before.               *)
LEMMA KeyWaySent ==
  ASSUME KeyInd, NEW q \in Seq(KeyBytes), NEW h,
         \A s : Leads(KeyRel, s, keyLine, KeyTruth(heldKeys)) => Leads(KeyRel, s, q, KeyTruth(h)),
         keyLine' = q, heldKeys' = h, h \in SUBSET I!Keys,
         UNCHANGED <<out, extended, keyStates, modifiers>>
  PROVE  KeyInd'
<1>1. KeyNow' = KeyNow
  BY DEF KeyNow
<1>2. KeyTruth(heldKeys)' = KeyTruth(h)
  BY DEF KeyTruth, Plain, Held
<1>3. KeyWay'
  <2>1. CASE out[1] = "keyboard"
    <3>1. PICK s : <<KeyNow, out[2], s>> \in KeyRel /\ Leads(KeyRel, s, keyLine, KeyTruth(heldKeys))
      BY <2>1 DEF KeyInd, KeyWay
    <3>2. <<KeyNow', out'[2], s>> \in KeyRel /\ Leads(KeyRel, s, keyLine', KeyTruth(heldKeys)')
      BY <1>1, <1>2, <3>1
    <3> QED
      BY <2>1, <3>2 DEF KeyWay
  <2>2. CASE out[1] # "keyboard"
    <3>1. Leads(KeyRel, KeyNow', keyLine', KeyTruth(heldKeys)')
      BY <1>1, <1>2, <2>2 DEF KeyInd, KeyWay
    <3> QED
      BY <2>2, <3>1 DEF KeyWay
  <2> QED
    BY <2>1, <2>2
<1> QED
  BY <1>3 DEF KeyInd

(* Keys are pressed and released.                                          *)
LEMMA KeySent ==
  ASSUME KeyInd, NEW key \in I!Keys, I!PressKey(key) \/ I!ReleaseKey(key)
  PROVE  KeyInd'
<1>1. heldKeys \in SUBSET I!Keys /\ keyLine \in Seq(KeyBytes)
  BY DEF KeyInd
<1>2. CASE I!PressKey(key)
  <2>1. /\ keyLine' = keyLine \o I!Send(key, FALSE) /\ heldKeys' = heldKeys \cup {key}
        /\ UNCHANGED <<out, extended, keyStates, modifiers>>
    BY <1>2 DEF I!PressKey, I!Input, I!keyboard
  <2>2. PICK q : q = keyLine \o I!Send(key, FALSE)
    OBVIOUS
  <2>3. PICK h \in SUBSET I!Keys : h = heldKeys \cup {key}
    BY <1>1
  <2>4. ASSUME NEW s, Leads(KeyRel, s, keyLine, KeyTruth(heldKeys))
        PROVE  Leads(KeyRel, s, q, KeyTruth(h)) /\ q \in Seq(KeyBytes)
    BY <1>1, <2>2, <2>3, <2>4, KeysLead
  <2>5. \E s : Leads(KeyRel, s, keyLine, KeyTruth(heldKeys))
    BY DEF KeyInd, KeyWay
  <2>6. q \in Seq(KeyBytes)
    BY <2>4, <2>5
  <2> QED
    BY <2>1, <2>2, <2>3, <2>4, <2>6, KeyWaySent
<1>3. CASE I!ReleaseKey(key)
  <2>1. /\ keyLine' = keyLine \o I!Send(key, TRUE) /\ heldKeys' = heldKeys \ {key}
        /\ UNCHANGED <<out, extended, keyStates, modifiers>>
    BY <1>3 DEF I!ReleaseKey, I!Input, I!keyboard
  <2>2. PICK q : q = keyLine \o I!Send(key, TRUE)
    OBVIOUS
  <2>3. PICK h \in SUBSET I!Keys : h = heldKeys \ {key}
    BY <1>1
  <2>4. ASSUME NEW s, Leads(KeyRel, s, keyLine, KeyTruth(heldKeys))
        PROVE  Leads(KeyRel, s, q, KeyTruth(h)) /\ q \in Seq(KeyBytes)
    BY <1>1, <2>2, <2>3, <2>4, KeysLead
  <2>5. \E s : Leads(KeyRel, s, keyLine, KeyTruth(heldKeys))
    BY DEF KeyInd, KeyWay
  <2>6. q \in Seq(KeyBytes)
    BY <2>4, <2>5
  <2> QED
    BY <2>1, <2>2, <2>3, <2>4, <2>6, KeyWaySent
<1> QED
  BY <1>2, <1>3

(* The controller takes the next byte of the keyboard.                     *)
LEMMA KeyLoaded ==
  ASSUME KeyInd, I!Load("keyboard")
  PROVE  KeyInd'
<1>1. /\ out = <<"none", 0>> /\ keyLine # <<>> /\ out' = <<"keyboard", Head(keyLine)>>
      /\ keyLine' = Tail(keyLine) /\ UNCHANGED <<heldKeys, extended, keyStates, modifiers>>
  BY DEF I!Load, I!Empty, I!world, I!keyboard
<1>2. out[1] # "keyboard" /\ out'[1] = "keyboard" /\ out'[2] = Head(keyLine)
  BY <1>1
<1>3. KeyNow' = KeyNow
  BY <1>1 DEF KeyNow
<1>4. KeyTruth(heldKeys)' = KeyTruth(heldKeys)
  BY <1>1 DEF KeyTruth, Plain, Held
<1>5. keyLine \in Seq(KeyBytes) /\ Leads(KeyRel, KeyNow, keyLine, KeyTruth(heldKeys))
  BY <1>2 DEF KeyInd, KeyWay
<1>6. PICK s : <<KeyNow, Head(keyLine), s>> \in KeyRel /\ Leads(KeyRel, s, Tail(keyLine), KeyTruth(heldKeys))
  BY <1>1, <1>5, LeadsHead
<1>7. KeyWay'
  <2>1. <<KeyNow', out'[2], s>> \in KeyRel /\ Leads(KeyRel, s, keyLine', KeyTruth(heldKeys)')
    BY <1>1, <1>2, <1>3, <1>4, <1>6
  <2> QED
    BY <1>2, <2>1 DEF KeyWay
<1>8. keyLine' \in Seq(KeyBytes)
  BY <1>1, <1>5
<1> QED
  BY <1>1, <1>7, <1>8 DEF KeyInd

(* The keyboard driver takes a byte for what it is.                        *)
LEMMA KeyTaken ==
  ASSUME KeyInd, I!KeyboardInterrupt
  PROVE  KeyInd'
<1>1. out[1] = "keyboard" /\ out' = <<"none", 0>> /\ I!KeyByte(out[2]) /\ UNCHANGED <<heldKeys, keyLine>>
  BY DEF I!KeyboardInterrupt, I!Empty, I!world
<1>2. PICK s : <<KeyNow, out[2], s>> \in KeyRel /\ Leads(KeyRel, s, keyLine, KeyTruth(heldKeys))
  BY <1>1 DEF KeyInd, KeyWay
<1>3. PICK n : n = KeyNow
  OBVIOUS
<1>4. PICK b : b = out[2]
  OBVIOUS
<1>5. b \in KeyBytes /\ s \in KeyStates /\ n \in KeyStates /\ s = KeyStep(n[1], n[2], n[3], b)
  <2>1. PICK r : r = <<n, b, s>>
    OBVIOUS
  <2>2. r \in KeyRel
    BY <1>2, <1>3, <1>4, <2>1
  <2>3. r \in KeyStates \X KeyBytes \X KeyStates /\ r[3] = KeyStep(r[1][1], r[1][2], r[1][3], r[2])
    BY <2>2 DEF KeyRel
  <2>4. r[1] = n /\ r[2] = b /\ r[3] = s
    BY <2>1
  <2> QED
    BY <2>3, <2>4
<1>6. PICK x \in {0, 1} : x = IF extended THEN 1 ELSE 0
  OBVIOUS
<1>7. n[1] = x /\ n[2] = keyStates /\ n[3] = modifiers
  BY <1>3, <1>6 DEF KeyNow
<1>8. s = KeyStep(x, keyStates, modifiers, b)
  BY <1>5, <1>7
<1>9. s = KeyNow' /\ extended' \in BOOLEAN
  <2>1. CASE b = 224
    <3>1. extended' = TRUE /\ keyStates' = keyStates /\ modifiers' = modifiers
      BY <1>1, <1>4, <2>1 DEF I!KeyByte, I!Prefix
    <3> QED
      BY <1>8, <2>1, <3>1 DEF KeyStep, KeyNow
  <2>2. CASE b # 224 /\ extended
    <3>1. I!ExtendedKey(b) /\ x = 1
      BY <1>1, <1>4, <1>6, <2>2 DEF I!KeyByte, I!Prefix
    <3>2. extended' = FALSE /\ keyStates' = keyStates
      BY <3>1 DEF I!ExtendedKey
    <3>3. modifiers' = IF b = 29 THEN modifiers \cup RightMod ELSE IF b = 157 THEN modifiers \ RightMod ELSE modifiers
      <4>1. I!Modifier(I!RightCtrl) = RightMod
        BY ModifierIs DEF I!RightCtrl
      <4>2. 29 + I!Released = 157
        BY DEF I!Released
      <4>3. CASE b = 29
        BY <3>1, <4>1, <4>2, <4>3 DEF I!ExtendedKey
      <4>4. CASE b = 157
        BY <3>1, <4>1, <4>2, <4>4 DEF I!ExtendedKey
      <4>5. CASE b # 29 /\ b # 157
        BY <3>1, <4>1, <4>2, <4>5 DEF I!ExtendedKey
      <4> QED
        BY <4>3, <4>4, <4>5
    <3>4. s = <<0, keyStates, IF b = 29 THEN modifiers \cup RightMod ELSE IF b = 157 THEN modifiers \ RightMod ELSE modifiers>>
      BY <1>8, <2>2, <3>1 DEF KeyStep
    <3>5. KeyNow' = <<0, keyStates, modifiers'>>
      BY <3>2 DEF KeyNow
    <3> QED
      BY <3>2, <3>3, <3>4, <3>5
  <2>3. CASE b # 224 /\ ~extended /\ b < 128
    <3>1. I!KeyDown(b) /\ x = 0
      BY <1>1, <1>4, <1>6, <2>3 DEF I!KeyByte, I!Prefix, I!Released
    <3>2. extended' = extended /\ keyStates' = keyStates \cup {b} /\ modifiers' = modifiers \cup Mod(b)
      BY <3>1, ModifierIs DEF I!KeyDown
    <3>3. s = <<0, keyStates \cup {b}, modifiers \cup Mod(b)>>
      BY <1>8, <2>3, <3>1 DEF KeyStep
    <3>4. KeyNow' = <<0, keyStates', modifiers'>>
      BY <2>3, <3>2 DEF KeyNow
    <3>5. extended' \in BOOLEAN
      BY <3>2 DEF KeyInd
    <3>6. s = KeyNow'
      BY <3>2, <3>3, <3>4
    <3> QED
      BY <3>5, <3>6
  <2>4. CASE b # 224 /\ ~extended /\ ~(b < 128)
    <3>1. I!KeyUp(b) /\ x = 0
      BY <1>1, <1>4, <1>6, <2>4 DEF I!KeyByte, I!Prefix, I!Released
    <3>2. extended' = extended /\ keyStates' = keyStates \ {b - 128} /\ modifiers' = modifiers \ Mod(b - 128)
      BY <3>1, ModifierIs DEF I!KeyUp, I!Released
    <3>3. s = <<0, keyStates \ {b - 128}, modifiers \ Mod(b - 128)>>
      BY <1>8, <2>4, <3>1 DEF KeyStep
    <3>4. KeyNow' = <<0, keyStates', modifiers'>>
      BY <2>4, <3>2 DEF KeyNow
    <3>5. extended' \in BOOLEAN
      BY <3>2 DEF KeyInd
    <3>6. s = KeyNow'
      BY <3>2, <3>3, <3>4
    <3> QED
      BY <3>5, <3>6
  <2> QED
    BY <2>1, <2>2, <2>3, <2>4
<1>10. keyStates' \in SUBSET Nat /\ modifiers' \in SUBSET Names
  <2>1. s[2] = keyStates' /\ s[3] = modifiers'
    BY <1>9 DEF KeyNow
  <2>2. s[2] \in SUBSET Nat /\ s[3] \in SUBSET Names
    <3> DEFINE P == SUBSET Nat
               Q == SUBSET Names
    <3>1. s \in {0, 1} \X P \X Q
      BY <1>5 DEF KeyStates
    <3> HIDE DEF P, Q
    <3>2. s[2] \in P /\ s[3] \in Q
      BY <3>1
    <3> QED
      BY <3>2 DEF P, Q
  <2> QED
    BY <2>1, <2>2
<1>11. KeyTruth(heldKeys)' = KeyTruth(heldKeys)
  BY <1>1 DEF KeyTruth, Plain, Held
<1>12. KeyWay'
  <2>1. out'[1] # "keyboard"
    BY <1>1
  <2>2. Leads(KeyRel, KeyNow', keyLine', KeyTruth(heldKeys)')
    BY <1>1, <1>2, <1>9, <1>11
  <2> QED
    BY <2>1, <2>2 DEF KeyWay
<1> QED
  BY <1>1, <1>9, <1>10, <1>12 DEF KeyInd

(* When nothing waits, the driver knows the keys.                          *)
LEMMA KeysMean ==
  ASSUME KeyInd, keyLine = <<>>, out[1] # "keyboard"
  PROVE  I!KeysTrue
<1>1. Leads(KeyRel, KeyNow, keyLine, KeyTruth(heldKeys)) /\ Len(keyLine) = 0 /\ heldKeys \in SUBSET I!Keys
  BY DEF KeyInd, KeyWay
<1>2. KeyNow = KeyTruth(heldKeys)
  BY <1>1, LeadsNone
<1>3. keyStates = Plain(heldKeys) /\ modifiers = Held(heldKeys)
  BY <1>2 DEF KeyNow, KeyTruth
<1>4. Plain(heldKeys) = {k[1] : k \in {q \in heldKeys : ~q[2]}}
  <2>1. ASSUME NEW c \in Plain(heldKeys)
        PROVE  c \in {k[1] : k \in {q \in heldKeys : ~q[2]}}
    <3>1. PICK k \in heldKeys : k = <<c, FALSE>>
      BY <2>1 DEF Plain
    <3>2. k[1] = c /\ ~k[2]
      BY <3>1
    <3> QED
      BY <3>2
  <2>2. ASSUME NEW k \in heldKeys, ~k[2]
        PROVE  k[1] \in Plain(heldKeys)
    <3>1. k = <<42, FALSE>> \/ k = <<58, FALSE>> \/ k = <<30, FALSE>> \/ k = <<29, FALSE>> \/ k = <<29, TRUE>>
      BY <1>1, KeysAre
    <3>2. ASSUME k = <<29, TRUE>> PROVE FALSE
      <4>1. k[2]
        BY <3>2
      <4> QED
        BY <2>2, <4>1
    <3>3. \E c \in Codes : k = <<c, FALSE>>
      BY <3>1, <3>2 DEF Codes
    <3> QED
      BY <3>3 DEF Plain
  <2> QED
    BY <2>1, <2>2
<1>5. Held(heldKeys) = UNION {I!Modifier(k) : k \in heldKeys}
  <2>1. \A k \in heldKeys : k = <<42, FALSE>> \/ k = <<58, FALSE>> \/ k = <<30, FALSE>> \/ k = <<29, FALSE>> \/ k = <<29, TRUE>>
    BY <1>1, KeysAre
  <2>2. /\ I!Modifier(<<42, FALSE>>) = {"left shift"} /\ I!Modifier(<<29, FALSE>>) = {"left ctrl"}
        /\ I!Modifier(<<58, FALSE>>) = {} /\ I!Modifier(<<30, FALSE>>) = {}
        /\ I!Modifier(<<29, TRUE>>) = {"right ctrl"}
    <3>1. Mod(42) = {"left shift"} /\ Mod(29) = {"left ctrl"} /\ Mod(58) = {} /\ Mod(30) = {}
      BY DEF Mod
    <3>2. RightMod = {"right ctrl"}
      BY DEF RightMod
    <3> QED
      BY <3>1, <3>2, ModifierIs
  <2>3. ASSUME NEW n \in Held(heldKeys)
        PROVE  \E k \in heldKeys : n \in I!Modifier(k)
    <3>1. \/ n = "left shift" /\ <<42, FALSE>> \in heldKeys
          \/ n = "left ctrl" /\ <<29, FALSE>> \in heldKeys
          \/ n = "right ctrl" /\ <<29, TRUE>> \in heldKeys
      BY <2>3 DEF Held
    <3> QED
      BY <2>2, <3>1
  <2>4. ASSUME NEW k \in heldKeys, NEW n \in I!Modifier(k)
        PROVE  n \in Held(heldKeys)
    <3>1. \/ k = <<42, FALSE>> /\ n = "left shift"
          \/ k = <<29, FALSE>> /\ n = "left ctrl"
          \/ k = <<29, TRUE>> /\ n = "right ctrl"
      <4>1. k = <<42, FALSE>> => n = "left shift"
        BY <2>2
      <4>2. k = <<29, FALSE>> => n = "left ctrl"
        BY <2>2
      <4>3. k = <<29, TRUE>> => n = "right ctrl"
        BY <2>2
      <4>4. k # <<58, FALSE>> /\ k # <<30, FALSE>>
        BY <2>2
      <4> QED
        BY <2>1, <4>1, <4>2, <4>3, <4>4
    <3> QED
      BY <3>1, HeldHas
  <2> QED
    BY <2>3, <2>4
<1> QED
  BY <1>3, <1>4, <1>5 DEF I!KeysTrue

(* What the mouse sends and the drivers keep.                              *)
Buttons == SUBSET {1, 2}
Moving == Int \X Int
MouseBytes == Buttons \cup (0..(Byte - 1))

(* What a byte makes of a mouse driver with the packet p and the buttons   *)
(* o, when games and desktop were told the movements g and d, and the      *)
(* desktop the buttons w.                                                  *)
MouseStep(p, o, g, d, w, b) ==
  IF Len(p) = 2
    THEN LET delta == <<I!Signed(p[2]), - I!Signed(b)>>
         IN  <<<<>>, p[1], I!Plus(g, delta), I!Plus(d, delta), (w \ (o \ p[1])) \cup (p[1] \ o)>>
    ELSE <<Append(p, b), o, g, d, w>>

(* The third byte and the one before it are numbers, the first one is not. *)
ByteFits(p, b) == Len(p) = 2 => p[1] \in Buttons /\ p[2] \in 0..(Byte - 1) /\ b \in 0..(Byte - 1)

(* The states of the mouse driver, and its steps.                          *)
MouseStates == Seq(MouseBytes) \X Buttons \X Moving \X Moving \X Buttons
MouseRel ==
  {r \in MouseStates \X MouseBytes \X MouseStates :
     ByteFits(r[1][1], r[2]) /\ r[3] = MouseStep(r[1][1], r[1][2], r[1][3], r[1][4], r[1][5], r[2])}

(* The driver that knows the buttons o and the movement g, and what it     *)
(* does know.                                                              *)
MouseTruth(o, g) == <<<<>>, o, g, g, o>>
MouseNow == <<packet, buttons, I!Plus(polled, accumulated), deskMoved, deskDown>>

(* A movement as a signed byte is what it was.                             *)
LEMMA SignedIs ==
  ASSUME Byte \in Nat \ {0}, NEW m \in Int, - Byte <= 2 * m, 2 * m < Byte
  PROVE  m % Byte \in 0..(Byte - 1) /\ I!Signed(m % Byte) = m
<1>1. CASE m >= 0
  <2>1. m % Byte = m /\ m < Byte
    <3>1. PICK x \in Nat : x = m /\ x < Byte
      BY <1>1
    <3>2. x % Byte = x
      BY <3>1
    <3> QED
      BY <3>1, <3>2
  <2>2. ~(2 * m >= Byte)
    OBVIOUS
  <2> QED
    BY <1>1, <2>1, <2>2 DEF I!Signed
<1>2. CASE ~(m >= 0)
  <2>1. PICK x \in Nat : x = m + Byte /\ x < Byte /\ 2 * x >= Byte
    BY <1>2
  <2>2. m = x - Byte /\ (x - Byte) % Byte = x
    BY <2>1
  <2> QED
    BY <2>1, <2>2 DEF I!Signed
<1> QED
  BY <1>1, <1>2

(* Sums of movements.                                                      *)
LEMMA PlusIs ==
  /\ \A x, y \in Moving : I!Plus(x, y) \in Moving
  /\ \A x \in Moving : I!Plus(x, <<0, 0>>) = x
  /\ \A x, y, z \in Moving : I!Plus(x, I!Plus(y, z)) = I!Plus(I!Plus(x, y), z)
<1>1. \A x, y \in Moving : I!Plus(x, y) \in Moving
  BY DEF Moving, I!Plus
<1>2. ASSUME NEW x \in Moving PROVE I!Plus(x, <<0, 0>>) = x
  <2>1. x[1] \in Int /\ x[2] \in Int /\ x = <<x[1], x[2]>>
    BY DEF Moving
  <2>2. x[1] + 0 = x[1] /\ x[2] + 0 = x[2]
    BY <2>1
  <2> QED
    BY <2>1, <2>2 DEF I!Plus
<1>3. ASSUME NEW x \in Moving, NEW y \in Moving, NEW z \in Moving
      PROVE  I!Plus(x, I!Plus(y, z)) = I!Plus(I!Plus(x, y), z)
  <2>1. x[1] \in Int /\ x[2] \in Int /\ y[1] \in Int /\ y[2] \in Int /\ z[1] \in Int /\ z[2] \in Int
    BY DEF Moving
  <2>2. x[1] + (y[1] + z[1]) = (x[1] + y[1]) + z[1] /\ x[2] + (y[2] + z[2]) = (x[2] + y[2]) + z[2]
    BY <2>1
  <2> QED
    BY <2>2 DEF I!Plus
<1> QED
  BY <1>1, <1>2, <1>3

(* A step that leads to a state of the driver is one of the relation.      *)
LEMMA MouseRelIs ==
  ASSUME NEW p \in Seq(MouseBytes), NEW o \in Buttons, NEW g \in Moving, NEW d \in Moving, NEW w \in Buttons,
         NEW b \in MouseBytes, ByteFits(p, b),
         NEW p1 \in Seq(MouseBytes), NEW o1 \in Buttons, NEW g1 \in Moving, NEW d1 \in Moving, NEW w1 \in Buttons,
         MouseStep(p, o, g, d, w, b) = <<p1, o1, g1, d1, w1>>
  PROVE  <<<<p, o, g, d, w>>, b, <<p1, o1, g1, d1, w1>>>> \in MouseRel
<1> DEFINE P == Seq(MouseBytes)
           B == Buttons
           M == Moving
<1>1. /\ p \in P /\ o \in B /\ g \in M /\ d \in M /\ w \in B
      /\ p1 \in P /\ o1 \in B /\ g1 \in M /\ d1 \in M /\ w1 \in B
  OBVIOUS
<1>2. MouseStates = P \X B \X M \X M \X B
  BY DEF MouseStates
<1> HIDE DEF P, B, M
<1>3. PICK s : s = <<p, o, g, d, w>>
  OBVIOUS
<1>4. PICK t : t = <<p1, o1, g1, d1, w1>>
  OBVIOUS
<1>5. s \in MouseStates /\ t \in MouseStates
  BY <1>1, <1>2, <1>3, <1>4
<1>6. s[1] = p /\ s[2] = o /\ s[3] = g /\ s[4] = d /\ s[5] = w
  BY <1>3
<1>7. ByteFits(s[1], b) /\ t = MouseStep(s[1], s[2], s[3], s[4], s[5], b)
  BY <1>4, <1>6
<1>8. <<s, b, t>> \in MouseRel
  BY <1>5, <1>7 DEF MouseRel
<1> QED
  BY <1>3, <1>4, <1>8

(* What a step of the relation is about.                                   *)
LEMMA MouseRelHas ==
  ASSUME NEW n, NEW b, NEW s, <<n, b, s>> \in MouseRel
  PROVE  /\ n \in MouseStates /\ b \in MouseBytes /\ s \in MouseStates
         /\ ByteFits(n[1], b) /\ s = MouseStep(n[1], n[2], n[3], n[4], n[5], b)
<1>1. PICK r : r = <<n, b, s>>
  OBVIOUS
<1>2. r \in MouseRel
  BY <1>1
<1>3. /\ r \in MouseStates \X MouseBytes \X MouseStates
      /\ ByteFits(r[1][1], r[2]) /\ r[3] = MouseStep(r[1][1], r[1][2], r[1][3], r[1][4], r[1][5], r[2])
  BY <1>2 DEF MouseRel
<1>4. r[1] = n /\ r[2] = b /\ r[3] = s
  BY <1>1
<1> QED
  BY <1>3, <1>4

(* Three bytes, one after the other.                                       *)
LEMMA ThreeBytes ==
  ASSUME NEW S, NEW a \in S, NEW b \in S, NEW c \in S
  PROVE  Append(<<a>>, b) = <<a, b>> /\ <<a>> \o <<b>> = <<a, b>> /\ <<a, b>> \o <<c>> = <<a, b, c>>
<1>1. PICK s1 : s1 = <<a>>
  OBVIOUS
<1>2. s1 \in Seq(S) /\ Len(s1) = 1 /\ s1[1] = a
  BY <1>1
<1>3. PICK s2 : s2 = <<b>>
  OBVIOUS
<1>4. s2 \in Seq(S) /\ Len(s2) = 1 /\ s2[1] = b
  BY <1>3
<1>5. PICK s3 : s3 = <<c>>
  OBVIOUS
<1>6. s3 \in Seq(S) /\ Len(s3) = 1 /\ s3[1] = c
  BY <1>5
<1>7. PICK p : p = <<a, b>>
  OBVIOUS
<1>8. p \in Seq(S) /\ Len(p) = 2 /\ p[1] = a /\ p[2] = b
  BY <1>7
<1>9. PICK t : t = <<a, b, c>>
  OBVIOUS
<1>10. t \in Seq(S) /\ Len(t) = 3 /\ t[1] = a /\ t[2] = b /\ t[3] = c
  BY <1>9
<1>11. s1 \o s2 = p
  <2>1. PICK r : r = s1 \o s2
    OBVIOUS
  <2>2. r \in Seq(S) /\ Len(r) = 2 /\ r[1] = a /\ r[2] = b
    <3>1. r \in Seq(S) /\ Len(r) = 1 + 1
      BY <1>2, <1>4, <2>1, ConcatProperties
    <3>2. \A i \in 1..(1 + 1) : r[i] = IF i <= 1 THEN s1[i] ELSE s2[i - 1]
      <4>1. \A i \in 1..(Len(s1) + Len(s2)) : (s1 \o s2)[i] = IF i <= Len(s1) THEN s1[i] ELSE s2[i - Len(s1)]
        BY <1>2, <1>4, ConcatProperties
      <4> QED
        BY <1>2, <1>4, <2>1, <4>1
    <3>3. r[1] = s1[1] /\ r[2] = s2[1]
      BY <3>2
    <3> QED
      BY <1>2, <1>4, <3>1, <3>3
  <2>3. \A i \in 1..2 : r[i] = p[i]
    BY <1>8, <2>2
  <2> QED
    BY <1>8, <2>1, <2>2, <2>3, SameSequence
<1>12. p \o s3 = t
  <2>1. PICK r : r = p \o s3
    OBVIOUS
  <2>2. r \in Seq(S) /\ Len(r) = 3 /\ r[1] = a /\ r[2] = b /\ r[3] = c
    <3>1. r \in Seq(S) /\ Len(r) = 2 + 1
      BY <1>6, <1>8, <2>1, ConcatProperties
    <3>2. \A i \in 1..(2 + 1) : r[i] = IF i <= 2 THEN p[i] ELSE s3[i - 2]
      <4>1. \A i \in 1..(Len(p) + Len(s3)) : r[i] = IF i <= Len(p) THEN p[i] ELSE s3[i - Len(p)]
        <5>1. p \in Seq(S) /\ s3 \in Seq(S)
          BY <1>6, <1>8
        <5> QED
          BY <2>1, <5>1, ConcatProperties
      <4> QED
        BY <1>6, <1>8, <4>1
    <3>3. r[1] = p[1] /\ r[2] = p[2] /\ r[3] = s3[1]
      BY <3>2
    <3> QED
      BY <1>6, <1>8, <3>1, <3>3
  <2>3. \A i \in 1..3 : r[i] = t[i]
    BY <1>10, <2>2
  <2> QED
    BY <1>10, <2>1, <2>2, <2>3, SameSequence
<1>13. Append(s1, b) = p
  <2>1. PICK r : r = Append(s1, b)
    OBVIOUS
  <2>2. r \in Seq(S) /\ Len(r) = 2 /\ r[1] = a /\ r[2] = b
    <3>1. s1 \in Seq(S)
      BY <1>2
    <3>2. r \in Seq(S) /\ Len(r) = Len(s1) + 1
      BY <2>1, <3>1, AppendProperties
    <3>3. r[Len(s1) + 1] = b
      BY <2>1, <3>1, AppendProperties
    <3>4. \A i \in 1..Len(s1) : r[i] = s1[i]
      BY <2>1, <3>1, AppendProperties
    <3> QED
      BY <1>2, <3>2, <3>3, <3>4
  <2>3. \A i \in 1..2 : r[i] = p[i]
    BY <1>8, <2>2
  <2> QED
    BY <1>8, <2>1, <2>2, <2>3, SameSequence
<1> QED
  BY <1>1, <1>3, <1>5, <1>7, <1>9, <1>11, <1>12, <1>13

(* The bytes of a packet lead from what was known to what is.              *)
LEMMA MouseLeads ==
  ASSUME InputAssumption, NEW o \in Buttons, NEW g \in Moving, NEW m \in Moves, NEW down \in Buttons,
         NEW s, NEW q \in Seq(MouseBytes), Leads(MouseRel, s, q, MouseTruth(o, g))
  PROVE  /\ q \o <<down, m[1] % Byte, m[2] % Byte>> \in Seq(MouseBytes)
         /\ Leads(MouseRel, s, q \o <<down, m[1] % Byte, m[2] % Byte>>, MouseTruth(down, I!Plus(g, <<m[1], - m[2]>>)))
<1>1. /\ m[1] \in Int /\ - Byte <= 2 * m[1] /\ 2 * m[1] < Byte
      /\ m[2] \in Int /\ - Byte <= 2 * m[2] /\ 2 * m[2] < Byte
      /\ Byte \in Nat \ {0}
  BY DEF InputAssumption
<1>2. PICK a : a = m[1] % Byte
  OBVIOUS
<1>3. PICK c : c = m[2] % Byte
  OBVIOUS
<1>4. a \in 0..(Byte - 1) /\ I!Signed(a) = m[1] /\ c \in 0..(Byte - 1) /\ I!Signed(c) = m[2]
  BY <1>1, <1>2, <1>3, SignedIs
<1>5. down \in MouseBytes /\ a \in MouseBytes /\ c \in MouseBytes
  BY <1>4 DEF MouseBytes
<1>6. PICK h \in Moving : h = I!Plus(g, <<m[1], - m[2]>>)
  <2>1. <<m[1], - m[2]>> \in Moving
    BY <1>1 DEF Moving
  <2> QED
    BY <2>1, PlusIs
<1>7. <<>> \in Seq(MouseBytes) /\ <<down>> \in Seq(MouseBytes) /\ <<down, a>> \in Seq(MouseBytes)
  BY <1>5
<1>8. <<<<<<>>, o, g, g, o>>, down, <<<<down>>, o, g, g, o>>>> \in MouseRel
  <2>1. Len(<<>>) # 2 /\ Append(<<>>, down) = <<down>>
    OBVIOUS
  <2>2. MouseStep(<<>>, o, g, g, o, down) = <<<<down>>, o, g, g, o>>
    BY <2>1 DEF MouseStep
  <2>3. ByteFits(<<>>, down)
    BY <2>1 DEF ByteFits
  <2> QED
    BY <1>5, <1>7, <2>2, <2>3, MouseRelIs
<1>9. <<<<<<down>>, o, g, g, o>>, a, <<<<down, a>>, o, g, g, o>>>> \in MouseRel
  <2>1. Len(<<down>>) # 2 /\ Append(<<down>>, a) = <<down, a>>
    <3>1. Append(<<down>>, a) = <<down, a>>
      BY <1>5, ThreeBytes
    <3> QED
      BY <3>1
  <2>2. MouseStep(<<down>>, o, g, g, o, a) = <<<<down, a>>, o, g, g, o>>
    BY <2>1 DEF MouseStep
  <2>3. ByteFits(<<down>>, a)
    BY <2>1 DEF ByteFits
  <2> QED
    BY <1>5, <1>7, <2>2, <2>3, MouseRelIs
<1>10. <<<<<<down, a>>, o, g, g, o>>, c, <<<<>>, down, h, h, down>>>> \in MouseRel
  <2>1. PICK p \in Seq(MouseBytes) : p = <<down, a>> /\ Len(p) = 2 /\ p[1] = down /\ p[2] = a
    BY <1>7
  <2>2. (o \ (o \ down)) \cup (down \ o) = down
    OBVIOUS
  <2>3. MouseStep(p, o, g, g, o, c) = <<<<>>, down, h, h, down>>
    BY <1>4, <1>6, <2>1, <2>2 DEF MouseStep
  <2>4. ByteFits(p, c)
    BY <1>4, <2>1 DEF ByteFits
  <2>5. <<<<p, o, g, g, o>>, c, <<<<>>, down, h, h, down>>>> \in MouseRel
    BY <1>5, <1>7, <2>3, <2>4, MouseRelIs
  <2> QED
    BY <2>1, <2>5
<1>11. PICK q1 : q1 = q \o <<down>>
  OBVIOUS
<1>12. PICK q2 : q2 = q1 \o <<a>>
  OBVIOUS
<1>13. PICK q3 : q3 = q2 \o <<c>>
  OBVIOUS
<1>14. Leads(MouseRel, s, q, <<<<>>, o, g, g, o>>)
  BY DEF MouseTruth
<1>15. q1 \in Seq(MouseBytes) /\ Leads(MouseRel, s, q1, <<<<down>>, o, g, g, o>>)
  <2>1. q1 \in Seq(MouseBytes)
    BY <1>7, <1>11
  <2>2. Leads(MouseRel, s, q1, <<<<down>>, o, g, g, o>>)
    BY <1>5, <1>8, <1>11, <1>14, LeadsOn
  <2> QED
    BY <2>1, <2>2
<1>16. <<a>> \in Seq(MouseBytes) /\ <<c>> \in Seq(MouseBytes) /\ <<a, c>> \in Seq(MouseBytes)
  BY <1>5
<1>17. q2 \in Seq(MouseBytes) /\ Leads(MouseRel, s, q2, <<<<down, a>>, o, g, g, o>>)
  <2>1. q2 \in Seq(MouseBytes)
    BY <1>12, <1>15, <1>16
  <2>2. Leads(MouseRel, s, q2, <<<<down, a>>, o, g, g, o>>)
    BY <1>5, <1>9, <1>12, <1>15, LeadsOn
  <2> QED
    BY <2>1, <2>2
<1>18. q3 \in Seq(MouseBytes) /\ Leads(MouseRel, s, q3, <<<<>>, down, h, h, down>>)
  <2>1. q3 \in Seq(MouseBytes)
    BY <1>13, <1>16, <1>17
  <2>2. Leads(MouseRel, s, q3, <<<<>>, down, h, h, down>>)
    BY <1>5, <1>10, <1>13, <1>17, LeadsOn
  <2> QED
    BY <2>1, <2>2
<1>19. q3 = q \o <<down, a, c>>
  <2>1. q2 = q \o (<<down>> \o <<a>>)
    BY <1>7, <1>11, <1>12, <1>16, ConcatAssociative
  <2>2. <<down>> \o <<a>> = <<down, a>>
    BY <1>5, ThreeBytes
  <2>3. q3 = q \o (<<down, a>> \o <<c>>)
    BY <1>7, <1>13, <1>16, <2>1, <2>2, ConcatAssociative
  <2>4. <<down, a>> \o <<c>> = <<down, a, c>>
    BY <1>5, ThreeBytes
  <2> QED
    BY <2>3, <2>4
<1>20. MouseTruth(down, I!Plus(g, <<m[1], - m[2]>>)) = <<<<>>, down, h, h, down>>
  BY <1>6 DEF MouseTruth
<1> QED
  BY <1>2, <1>3, <1>18, <1>19, <1>20

(* What comes from the mouse leads to its buttons and moves as they are.   *)
MouseWay ==
  IF out[1] = "mouse"
    THEN \E s : <<MouseNow, out[2], s>> \in MouseRel /\ Leads(MouseRel, s, mouseLine, MouseTruth(clicked, moved))
    ELSE Leads(MouseRel, MouseNow, mouseLine, MouseTruth(clicked, moved))

(* What is known of the mouse.                                             *)
MouseInd ==
  /\ mouseLine \in Seq(MouseBytes) /\ packet \in Seq(MouseBytes)
  /\ buttons \in Buttons /\ deskDown \in Buttons /\ clicked \in Buttons
  /\ polled \in Moving /\ accumulated \in Moving /\ deskMoved \in Moving /\ moved \in Moving
  /\ MouseWay

(* The mouse is moved, or its buttons change.                              *)
LEMMA MouseSent ==
  ASSUME InputAssumption, MouseInd, NEW m \in Moves, NEW down \in Buttons, I!MoveMouse(m, down)
  PROVE  MouseInd'
<1>1. /\ clicked' = down /\ moved' = I!Plus(moved, <<m[1], - m[2]>>)
      /\ mouseLine' = mouseLine \o <<down, m[1] % Byte, m[2] % Byte>>
      /\ UNCHANGED <<out, packet, buttons, accumulated, deskMoved, deskDown, polled>>
  BY DEF I!MoveMouse, I!Input, I!mouse
<1>2. MouseNow' = MouseNow
  BY <1>1 DEF MouseNow, I!Plus
<1>3. MouseTruth(clicked, moved)' = MouseTruth(down, I!Plus(moved, <<m[1], - m[2]>>))
  BY <1>1 DEF MouseTruth
<1>4. ASSUME NEW s, Leads(MouseRel, s, mouseLine, MouseTruth(clicked, moved))
      PROVE  mouseLine' \in Seq(MouseBytes) /\ Leads(MouseRel, s, mouseLine', MouseTruth(clicked, moved)')
  <2>1. clicked \in Buttons /\ moved \in Moving /\ mouseLine \in Seq(MouseBytes)
    BY DEF MouseInd
  <2> QED
    BY <1>1, <1>3, <1>4, <2>1, MouseLeads
<1>5. moved' \in Moving
  <2>1. m[1] \in Int /\ m[2] \in Int
    BY DEF InputAssumption
  <2>2. <<m[1], - m[2]>> \in Moving /\ moved \in Moving
    BY <2>1 DEF Moving, MouseInd
  <2> QED
    BY <1>1, <2>2, PlusIs
<1>6. mouseLine' \in Seq(MouseBytes)
  <2>1. \E s : Leads(MouseRel, s, mouseLine, MouseTruth(clicked, moved))
    BY DEF MouseInd, MouseWay
  <2> QED
    BY <1>4, <2>1
<1>7. MouseWay'
  <2>1. CASE out[1] = "mouse"
    <3>1. PICK s : <<MouseNow, out[2], s>> \in MouseRel /\ Leads(MouseRel, s, mouseLine, MouseTruth(clicked, moved))
      BY <2>1 DEF MouseInd, MouseWay
    <3>2. <<MouseNow', out'[2], s>> \in MouseRel /\ Leads(MouseRel, s, mouseLine', MouseTruth(clicked, moved)')
      BY <1>1, <1>2, <1>4, <3>1
    <3> QED
      BY <1>1, <2>1, <3>2 DEF MouseWay
  <2>2. CASE out[1] # "mouse"
    <3>1. Leads(MouseRel, MouseNow', mouseLine', MouseTruth(clicked, moved)')
      BY <1>2, <1>4, <2>2 DEF MouseInd, MouseWay
    <3> QED
      BY <1>1, <2>2, <3>1 DEF MouseWay
  <2> QED
    BY <2>1, <2>2
<1> QED
  BY <1>1, <1>5, <1>6, <1>7 DEF MouseInd

(* The controller takes the next byte of the mouse.                        *)
LEMMA MouseLoaded ==
  ASSUME MouseInd, I!Load("mouse")
  PROVE  MouseInd'
<1>1. /\ out = <<"none", 0>> /\ mouseLine # <<>> /\ out' = <<"mouse", Head(mouseLine)>>
      /\ mouseLine' = Tail(mouseLine)
      /\ UNCHANGED <<clicked, moved, packet, buttons, accumulated, deskMoved, deskDown, polled>>
  BY DEF I!Load, I!Empty, I!world, I!mouse
<1>2. out[1] # "mouse" /\ out'[1] = "mouse" /\ out'[2] = Head(mouseLine)
  BY <1>1
<1>3. MouseNow' = MouseNow
  BY <1>1 DEF MouseNow, I!Plus
<1>4. MouseTruth(clicked, moved)' = MouseTruth(clicked, moved)
  BY <1>1 DEF MouseTruth
<1>5. mouseLine \in Seq(MouseBytes) /\ Leads(MouseRel, MouseNow, mouseLine, MouseTruth(clicked, moved))
  BY <1>2 DEF MouseInd, MouseWay
<1>6. PICK s : <<MouseNow, Head(mouseLine), s>> \in MouseRel /\ Leads(MouseRel, s, Tail(mouseLine), MouseTruth(clicked, moved))
  BY <1>1, <1>5, LeadsHead
<1>7. MouseWay'
  <2>1. <<MouseNow', out'[2], s>> \in MouseRel /\ Leads(MouseRel, s, mouseLine', MouseTruth(clicked, moved)')
    BY <1>1, <1>2, <1>3, <1>4, <1>6
  <2> QED
    BY <1>2, <2>1 DEF MouseWay
<1>8. mouseLine' \in Seq(MouseBytes)
  BY <1>1, <1>5
<1> QED
  BY <1>1, <1>7, <1>8 DEF MouseInd

(* The mouse driver takes a byte for what it is.                           *)
LEMMA MouseTaken ==
  ASSUME InputAssumption, MouseInd, I!MouseInterrupt
  PROVE  MouseInd'
<1>1. out[1] = "mouse" /\ out' = <<"none", 0>> /\ UNCHANGED <<clicked, moved, mouseLine, polled>>
  BY DEF I!MouseInterrupt, I!Empty, I!world
<1>2. PICK s : <<MouseNow, out[2], s>> \in MouseRel /\ Leads(MouseRel, s, mouseLine, MouseTruth(clicked, moved))
  BY <1>1 DEF MouseInd, MouseWay
<1>3. PICK g \in Moving : g = I!Plus(polled, accumulated)
  BY PlusIs DEF MouseInd
<1>4. PICK b : b = out[2]
  OBVIOUS
<1>5. b \in MouseBytes /\ ByteFits(packet, b) /\ s = MouseStep(packet, buttons, g, deskMoved, deskDown, b)
  <2>1. PICK n : n = MouseNow
    OBVIOUS
  <2>2. n[1] = packet /\ n[2] = buttons /\ n[3] = g /\ n[4] = deskMoved /\ n[5] = deskDown
    BY <1>3, <2>1 DEF MouseNow
  <2> QED
    BY <1>2, <1>4, <2>1, <2>2, MouseRelHas
<1>6. /\ packet \in Seq(MouseBytes) /\ buttons \in Buttons /\ deskDown \in Buttons
      /\ polled \in Moving /\ accumulated \in Moving /\ deskMoved \in Moving
  BY DEF MouseInd
<1>7. /\ s = MouseNow' /\ packet' \in Seq(MouseBytes) /\ buttons' \in Buttons /\ deskDown' \in Buttons
      /\ accumulated' \in Moving /\ deskMoved' \in Moving
  <2>1. CASE Len(packet) = 2
    <3>1. packet[1] \in Buttons /\ packet[2] \in 0..(Byte - 1) /\ b \in 0..(Byte - 1)
      BY <1>5, <2>1 DEF ByteFits
    <3>2. PICK p : p = Append(packet, b)
      OBVIOUS
    <3>3. p[1] = packet[1] /\ p[2] = packet[2] /\ p[3] = b
      <4>1. \A i \in 1..2 : p[i] = packet[i]
        BY <1>5, <1>6, <2>1, <3>2, AppendProperties
      <4>3. p[Len(packet) + 1] = b
        BY <1>5, <1>6, <3>2, AppendProperties
      <4>2. p[2 + 1] = b
        BY <2>1, <4>3
      <4> QED
        BY <4>1, <4>2
    <3>4. I!PacketComplete(p)
      BY <1>4, <2>1, <3>2 DEF I!MouseInterrupt
    <3>5. PICK delta : delta = <<I!Signed(packet[2]), - I!Signed(b)>>
      OBVIOUS
    <3>6. delta \in Moving
      <4>1. Byte \in Nat \ {0}
        BY DEF InputAssumption
      <4>2. \A x \in 0..(Byte - 1) : I!Signed(x) \in Int
        BY <4>1 DEF I!Signed
      <4>3. PICK v \in Int : v = I!Signed(packet[2])
        BY <3>1, <4>2
      <4>4. PICK w \in Int : w = I!Signed(b)
        BY <3>1, <4>2
      <4> QED
        BY <3>5, <4>3, <4>4 DEF Moving
    <3>7. /\ packet' = <<>> /\ buttons' = packet[1]
          /\ deskDown' = (deskDown \ (buttons \ packet[1])) \cup (packet[1] \ buttons)
          /\ IF delta # <<0, 0>> THEN /\ accumulated' = I!Plus(accumulated, delta)
                                      /\ deskMoved' = I!Plus(deskMoved, delta)
                                 ELSE UNCHANGED <<accumulated, deskMoved>>
      BY <3>3, <3>4, <3>5 DEF I!PacketComplete
    <3>8. accumulated' = I!Plus(accumulated, delta) /\ deskMoved' = I!Plus(deskMoved, delta)
      <4>1. CASE delta # <<0, 0>>
        BY <3>7, <4>1
      <4>2. CASE delta = <<0, 0>>
        BY <1>6, <3>7, <4>2, PlusIs
      <4> QED
        BY <4>1, <4>2
    <3>9. I!Plus(polled, accumulated)' = I!Plus(g, delta)
      <4>1. I!Plus(polled, accumulated)' = I!Plus(polled, I!Plus(accumulated, delta))
        BY <1>1, <3>8 DEF I!Plus
      <4> QED
        BY <1>3, <1>6, <3>6, <4>1, PlusIs
    <3>10. s = <<<<>>, packet[1], I!Plus(g, delta), I!Plus(deskMoved, delta),
                 (deskDown \ (buttons \ packet[1])) \cup (packet[1] \ buttons)>>
      BY <1>5, <2>1, <3>5 DEF MouseStep
    <3>11. s = MouseNow'
      BY <3>7, <3>8, <3>9, <3>10 DEF MouseNow
    <3>12. accumulated' \in Moving /\ deskMoved' \in Moving
      BY <1>6, <3>6, <3>8, PlusIs
    <3>13. packet' \in Seq(MouseBytes) /\ buttons' \in Buttons
      BY <3>1, <3>7
    <3>14. deskDown' \in Buttons
      BY <1>6, <3>1, <3>7 DEF Buttons
    <3> QED
      BY <3>11, <3>12, <3>13, <3>14
  <2>2. CASE Len(packet) # 2
    <3>1. packet' = Append(packet, b) /\ UNCHANGED <<buttons, accumulated, deskMoved, deskDown>>
      BY <1>4, <2>2 DEF I!MouseInterrupt
    <3>2. s = <<Append(packet, b), buttons, g, deskMoved, deskDown>>
      BY <1>5, <2>2 DEF MouseStep
    <3>3. I!Plus(polled, accumulated)' = g
      BY <1>1, <1>3, <3>1 DEF I!Plus
    <3>4. s = MouseNow'
      BY <3>1, <3>2, <3>3 DEF MouseNow
    <3>5. packet' \in Seq(MouseBytes)
      BY <1>5, <1>6, <3>1
    <3> QED
      BY <1>6, <3>1, <3>4, <3>5
  <2> QED
    BY <2>1, <2>2
<1>8. MouseTruth(clicked, moved)' = MouseTruth(clicked, moved)
  BY <1>1 DEF MouseTruth
<1>9. MouseWay'
  <2>1. out'[1] # "mouse"
    BY <1>1
  <2>2. Leads(MouseRel, MouseNow', mouseLine', MouseTruth(clicked, moved)')
    BY <1>1, <1>2, <1>7, <1>8
  <2> QED
    BY <2>1, <2>2 DEF MouseWay
<1> QED
  BY <1>1, <1>7, <1>9 DEF MouseInd

(* A game is told what it was not told yet.                                *)
LEMMA MousePolled ==
  ASSUME MouseInd, I!GetInput
  PROVE  MouseInd'
<1>1. /\ polled' = I!Plus(polled, accumulated) /\ accumulated' = <<0, 0>>
      /\ UNCHANGED <<clicked, moved, mouseLine, out, packet, buttons, deskMoved, deskDown>>
  BY DEF I!GetInput, I!world, I!controller
<1>2. PICK g \in Moving : g = I!Plus(polled, accumulated)
  BY PlusIs DEF MouseInd
<1>3. I!Plus(polled, accumulated)' = g
  <2>1. I!Plus(polled, accumulated)' = I!Plus(g, <<0, 0>>)
    BY <1>1, <1>2 DEF I!Plus
  <2> QED
    BY <1>2, <2>1, PlusIs
<1>4. MouseNow' = MouseNow
  BY <1>1, <1>2, <1>3 DEF MouseNow
<1>5. MouseTruth(clicked, moved)' = MouseTruth(clicked, moved)
  BY <1>1 DEF MouseTruth
<1>6. MouseWay'
  BY <1>1, <1>4, <1>5 DEF MouseInd, MouseWay
<1>7. polled' \in Moving /\ accumulated' \in Moving
  BY <1>1, <1>2 DEF Moving
<1> QED
  BY <1>1, <1>6, <1>7 DEF MouseInd

(* When nothing waits, everyone knows the mouse.                           *)
LEMMA MouseMeans ==
  ASSUME MouseInd, mouseLine = <<>>, out[1] # "mouse"
  PROVE  I!MouseTrue
<1>1. Leads(MouseRel, MouseNow, mouseLine, MouseTruth(clicked, moved)) /\ Len(mouseLine) = 0
  BY DEF MouseInd, MouseWay
<1>2. MouseNow = MouseTruth(clicked, moved)
  BY <1>1, LeadsNone
<1>3. buttons = clicked /\ I!Plus(polled, accumulated) = moved /\ deskMoved = moved /\ deskDown = clicked
  BY <1>2 DEF MouseNow, MouseTruth
<1> QED
  BY <1>3 DEF I!MouseTrue

(* Before both drivers are active, no key and no mouse was touched.        *)
Quiet ==
  /\ booted \in 0..2
  /\ booted < 2 => keyLine = <<>> /\ mouseLine = <<>> /\ out = <<"none", 0>>

(* The inductive invariant.                                                *)
InputInd == Quiet /\ KeyInd /\ MouseInd

(* In the beginning nothing is pressed and nothing known.                  *)
LEMMA InputInit == ASSUME InputAssumption, I!Init PROVE InputInd
<1>1. Quiet
  BY DEF I!Init, Quiet, I!Empty
<1>2. KeyInd
  <2>1. /\ heldKeys = {} /\ keyLine = <<>> /\ out = <<"none", 0>>
        /\ extended = FALSE /\ keyStates = {} /\ modifiers = {}
    BY DEF I!Init, I!Empty
  <2>2. KeyNow = <<0, {}, {}>>
    BY <2>1 DEF KeyNow
  <2>3. KeyTruth(heldKeys) = <<0, {}, {}>>
    BY <2>1 DEF KeyTruth, Plain, Held
  <2>4. out[1] # "keyboard" /\ Len(keyLine) = 0
    BY <2>1
  <2>5. KeyWay
    BY <2>2, <2>3, <2>4, LeadsNone DEF KeyWay
  <2>6. heldKeys \in SUBSET I!Keys /\ keyLine \in Seq(KeyBytes)
    BY <2>1
  <2>7. extended \in BOOLEAN
    BY <2>1
  <2>8. keyStates \in SUBSET Nat /\ modifiers \in SUBSET Names
    BY <2>1
  <2> QED
    BY <2>5, <2>6, <2>7, <2>8 DEF KeyInd
<1>3. MouseInd
  <2>1. /\ clicked = {} /\ moved = <<0, 0>> /\ mouseLine = <<>> /\ out = <<"none", 0>> /\ packet = <<>>
        /\ buttons = {} /\ accumulated = <<0, 0>> /\ deskMoved = <<0, 0>> /\ deskDown = {} /\ polled = <<0, 0>>
    BY DEF I!Init, I!Empty
  <2>2. I!Plus(polled, accumulated) = <<0, 0>>
    BY <2>1 DEF I!Plus
  <2>3. MouseNow = MouseTruth(clicked, moved)
    BY <2>1, <2>2 DEF MouseNow, MouseTruth
  <2>4. out[1] # "mouse" /\ Len(mouseLine) = 0
    BY <2>1
  <2>5. MouseWay
    BY <2>3, <2>4, LeadsNone DEF MouseWay
  <2>6. <<0, 0>> \in Moving /\ {} \in Buttons
    BY DEF Moving, Buttons
  <2> QED
    BY <2>1, <2>5, <2>6 DEF MouseInd
<1> QED
  BY <1>1, <1>2, <1>3 DEF InputInd

(* What is about one device is not about the other's steps.                *)
LEMMA KeysRest ==
  ASSUME KeyInd, UNCHANGED <<heldKeys, keyLine, extended, keyStates, modifiers>>,
         out' = out \/ (out[1] # "keyboard" /\ out'[1] # "keyboard")
  PROVE  KeyInd'
<1>1. KeyNow' = KeyNow
  BY DEF KeyNow
<1>2. KeyTruth(heldKeys)' = KeyTruth(heldKeys)
  BY DEF KeyTruth, Plain, Held
<1>3. KeyWay'
  BY <1>1, <1>2 DEF KeyInd, KeyWay
<1> QED
  BY <1>3 DEF KeyInd

(* The same for the mouse.                                                 *)
LEMMA MouseRests ==
  ASSUME MouseInd,
         UNCHANGED <<clicked, moved, mouseLine, packet, buttons, accumulated, deskMoved, deskDown, polled>>,
         out' = out \/ (out[1] # "mouse" /\ out'[1] # "mouse")
  PROVE  MouseInd'
<1>1. MouseNow' = MouseNow
  BY DEF MouseNow, I!Plus
<1>2. MouseTruth(clicked, moved)' = MouseTruth(clicked, moved)
  BY DEF MouseTruth
<1>3. MouseWay'
  BY <1>1, <1>2 DEF MouseInd, MouseWay
<1> QED
  BY <1>3 DEF MouseInd

(* Every step keeps the invariant.                                         *)
LEMMA InputMoves == ASSUME InputAssumption, InputInd, I!Next PROVE InputInd'
<1>1. KeyInd /\ MouseInd /\ Quiet
  BY DEF InputInd
<1>2. CASE I!ActivateMouse
  <2>1. booted = 0 /\ booted' = 1 /\ UNCHANGED <<I!world, I!controller, I!keyboard, I!mouse, polled>>
    BY <1>2 DEF I!ActivateMouse
  <2>2. Quiet'
    BY <1>1, <2>1 DEF Quiet, I!controller
  <2>3. KeyInd'
    BY <1>1, <2>1, KeysRest DEF I!world, I!controller, I!keyboard
  <2>4. MouseInd'
    BY <1>1, <2>1, MouseRests DEF I!world, I!controller, I!mouse
  <2> QED
    BY <2>2, <2>3, <2>4 DEF InputInd
<1>3. CASE I!ActivateKeyboard
  <2>1. /\ booted = 1 /\ booted' = 2 /\ out' = <<"none", 0>>
        /\ UNCHANGED <<I!world, keyLine, mouseLine, I!keyboard, I!mouse, polled>>
    BY <1>3 DEF I!ActivateKeyboard, I!Empty
  <2>2. out' = out
    BY <1>1, <2>1 DEF Quiet
  <2>3. Quiet'
    BY <2>1 DEF Quiet
  <2>4. KeyInd'
    BY <1>1, <2>1, <2>2, KeysRest DEF I!world, I!keyboard
  <2>5. MouseInd'
    BY <1>1, <2>1, <2>2, MouseRests DEF I!world, I!mouse
  <2> QED
    BY <2>3, <2>4, <2>5 DEF InputInd
<1>4. ASSUME NEW k \in I!Keys, I!PressKey(k) \/ I!ReleaseKey(k) PROVE InputInd'
  <2>1. booted = 2 /\ booted' = booted /\ UNCHANGED <<clicked, moved, mouseLine, out, I!mouse, polled>>
    BY <1>4 DEF I!PressKey, I!ReleaseKey, I!Input, InputAssumption
  <2>2. Quiet'
    BY <2>1 DEF Quiet
  <2>3. KeyInd'
    BY <1>1, <1>4, KeySent
  <2>4. MouseInd'
    BY <1>1, <2>1, MouseRests DEF I!mouse
  <2> QED
    BY <2>2, <2>3, <2>4 DEF InputInd
<1>5. ASSUME NEW m \in Moves, NEW down \in SUBSET {1, 2}, I!MoveMouse(m, down) PROVE InputInd'
  <2>1. booted = 2 /\ booted' = booted /\ UNCHANGED <<heldKeys, keyLine, out, I!keyboard>>
    BY <1>5 DEF I!MoveMouse, I!Input, InputAssumption
  <2>2. Quiet'
    BY <2>1 DEF Quiet
  <2>3. MouseInd'
    BY <1>1, <1>5, MouseSent DEF Buttons
  <2>4. KeyInd'
    BY <1>1, <2>1, KeysRest DEF I!keyboard
  <2> QED
    BY <2>2, <2>3, <2>4 DEF InputInd
<1>6. CASE I!Load("keyboard")
  <2>1. /\ out = <<"none", 0>> /\ keyLine # <<>> /\ out' = <<"keyboard", Head(keyLine)>> /\ mouseLine' = mouseLine
        /\ UNCHANGED <<I!boot, I!world, I!mouse, polled>>
    BY <1>6 DEF I!Load, I!Empty
  <2>2. Quiet'
    BY <1>1, <2>1 DEF Quiet, I!boot
  <2>3. KeyInd'
    BY <1>1, <1>6, KeyLoaded
  <2>4. out[1] # "mouse" /\ out'[1] # "mouse"
    BY <2>1
  <2>5. MouseInd'
    BY <1>1, <2>1, <2>4, MouseRests DEF I!world, I!mouse
  <2> QED
    BY <2>2, <2>3, <2>5 DEF InputInd
<1>7. CASE I!Load("mouse")
  <2>1. /\ out = <<"none", 0>> /\ mouseLine # <<>> /\ out' = <<"mouse", Head(mouseLine)>> /\ keyLine' = keyLine
        /\ UNCHANGED <<I!boot, I!world, I!keyboard>>
    BY <1>7 DEF I!Load, I!Empty
  <2>2. Quiet'
    BY <1>1, <2>1 DEF Quiet, I!boot
  <2>3. MouseInd'
    BY <1>1, <1>7, MouseLoaded
  <2>4. out[1] # "keyboard" /\ out'[1] # "keyboard"
    BY <2>1
  <2>5. KeyInd'
    BY <1>1, <2>1, <2>4, KeysRest DEF I!world, I!keyboard
  <2> QED
    BY <2>2, <2>3, <2>5 DEF InputInd
<1>8. CASE I!KeyboardInterrupt
  <2>1. /\ booted = 2 /\ out[1] = "keyboard" /\ out' = <<"none", 0>>
        /\ UNCHANGED <<I!boot, I!world, mouseLine, I!mouse, polled>>
    BY <1>8 DEF I!KeyboardInterrupt, I!Empty
  <2>2. Quiet'
    BY <2>1 DEF Quiet, I!boot
  <2>3. KeyInd'
    BY <1>1, <1>8, KeyTaken
  <2>4. out[1] # "mouse" /\ out'[1] # "mouse"
    BY <2>1
  <2>5. MouseInd'
    BY <1>1, <2>1, <2>4, MouseRests DEF I!world, I!mouse
  <2> QED
    BY <2>2, <2>3, <2>5 DEF InputInd
<1>9. CASE I!MouseInterrupt
  <2>1. /\ booted = 2 /\ out[1] = "mouse" /\ out' = <<"none", 0>>
        /\ UNCHANGED <<I!boot, I!world, keyLine, I!keyboard>>
    BY <1>9 DEF I!MouseInterrupt, I!Empty
  <2>2. Quiet'
    BY <2>1 DEF Quiet, I!boot
  <2>3. MouseInd'
    BY <1>1, <1>9, MouseTaken
  <2>4. out[1] # "keyboard" /\ out'[1] # "keyboard"
    BY <2>1
  <2>5. KeyInd'
    BY <1>1, <2>1, <2>4, KeysRest DEF I!world, I!keyboard
  <2> QED
    BY <2>2, <2>3, <2>5 DEF InputInd
<1>10. CASE I!GetInput
  <2>1. booted = 2 /\ UNCHANGED <<I!boot, I!world, I!controller, I!keyboard>>
    BY <1>10 DEF I!GetInput
  <2>2. Quiet'
    BY <2>1 DEF Quiet, I!boot
  <2>3. MouseInd'
    BY <1>1, <1>10, MousePolled
  <2>4. KeyInd'
    BY <1>1, <2>1, KeysRest DEF I!world, I!controller, I!keyboard
  <2> QED
    BY <2>2, <2>3, <2>4 DEF InputInd
<1> QED
  BY <1>2, <1>3, <1>4, <1>5, <1>6, <1>7, <1>8, <1>9, <1>10 DEF I!Next

(* And none does.                                                          *)
LEMMA InputStep == ASSUME InputAssumption, InputInd, [I!Next]_(I!vars) PROVE InputInd'
<1>1. CASE UNCHANGED I!vars
  <2>1. UNCHANGED <<booted, I!world, I!controller, I!keyboard, I!mouse, polled>>
    BY <1>1 DEF I!vars, I!boot
  <2>2. Quiet'
    BY <2>1 DEF InputInd, Quiet, I!controller
  <2>3. KeyInd'
    BY <2>1, KeysRest DEF InputInd, I!world, I!controller, I!keyboard
  <2>4. MouseInd'
    BY <2>1, MouseRests DEF InputInd, I!world, I!controller, I!mouse
  <2> QED
    BY <2>2, <2>3, <2>4 DEF InputInd
<1> QED
  BY <1>1, InputMoves

(* Then the keys, the buttons and the movement are known.                  *)
LEMMA InputMeans == ASSUME InputInd PROVE I!InputTrue
BY KeysMean, MouseMeans DEF InputInd, I!InputTrue

-----------------------------------------------------------------------------
(***************************************************************************)
(* The transfers together                                                  *)
(***************************************************************************)

(* What each component assumes is assumed of the transfers.                *)
LEMMA Assumed ==
  ASSUME Undisturbed
  PROVE  InputAssumption /\ AudioAssumption /\ WavAssumption /\ LogAssumption /\ ObjAssumption
<1>1. InputAssumption
  BY TransfersAssumption DEF Undisturbed, InputAssumption
<1>2. AudioAssumption
  BY TransfersAssumption DEF Undisturbed, AudioAssumption
<1>3. WavAssumption
  BY TransfersAssumption DEF WavAssumption
<1>4. LogAssumption
  BY TransfersAssumption DEF Undisturbed, LogAssumption
<1>5. ObjAssumption
  BY TransfersAssumption DEF ObjAssumption
<1> QED
  BY <1>1, <1>2, <1>3, <1>4, <1>5

(* The component that runs keeps its invariant.                            *)
TransfersInd ==
  /\ part = "input" => InputInd
  /\ part = "audio" => RingInd /\ SoundInd
  /\ part = "wav" => WavInd
  /\ part = "log" => LogInd
  /\ part = "obj" => ObjInd

(* A step of the transfers is one of the component that runs, or none.     *)
LEMMA OneRuns ==
  ASSUME [TransfersNext]_<<part, transferVars>>
  PROVE  /\ part' = part
         /\ part = "input" => [I!Next]_(I!vars)
         /\ part = "audio" => [A!Next]_(A!vars)
         /\ part = "wav" => [W!Next]_(W!vars)
         /\ part = "log" => [L!Next]_(L!vars)
         /\ part = "obj" => [O!Next]_(O!vars)
<1>1. CASE UNCHANGED <<part, transferVars>>
  <2>1. part' = part /\ UNCHANGED <<inputVars, audioVars, wavVars, logVars, objVars>>
    BY <1>1 DEF transferVars
  <2>2. UNCHANGED I!vars
    BY <2>1 DEF inputVars, I!vars, I!boot, I!world, I!controller, I!keyboard, I!mouse
  <2>3. UNCHANGED A!vars
    BY <2>1 DEF audioVars, A!vars, A!mixer, A!driver, A!hardware
  <2>4. UNCHANGED W!vars
    BY <2>1 DEF wavVars, W!vars
  <2>5. UNCHANGED L!vars
    BY <2>1 DEF logVars, L!vars, L!ring
  <2>6. UNCHANGED O!vars
    BY <2>1 DEF objVars, O!vars
  <2> QED
    BY <2>1, <2>2, <2>3, <2>4, <2>5, <2>6
<1>2. CASE TransfersNext
  <2>1. /\ part' = part
        /\ \/ part = "input" /\ I!Next
           \/ part = "audio" /\ A!Next
           \/ part = "wav" /\ W!Next
           \/ part = "log" /\ L!Next
           \/ part = "obj" /\ O!Next
    BY <1>2 DEF TransfersNext
  <2> QED
    BY <2>1
<1> QED
  BY <1>1, <1>2

(* What comes in is taken for what it is and what goes out arrives whole   *)
(* and in order, for every number and size of what is sent, every ring and *)
(* buffer, and every order of the interrupts, as long as the kernel's      *)
(* surroundings leave it the time it counts on (HandleInterrupt of the     *)
(* drivers, Wav::Load, LoadOBJ, WriteData, SerialPrint and FlushSerial).   *)
THEOREM TransfersAlwaysWhole == ASSUME Undisturbed PROVE TransfersSpec => []TransfersWhole
<1>1. InputAssumption /\ AudioAssumption /\ WavAssumption /\ LogAssumption /\ ObjAssumption
  BY Assumed
<1>2. TransfersInit => TransfersInd
  <2> SUFFICES ASSUME TransfersInit PROVE TransfersInd
    OBVIOUS
  <2>1. I!Init /\ A!Init /\ L!Init /\ (part = "wav" => W!Init) /\ (part = "obj" => O!Init)
    BY DEF TransfersInit
  <2> QED
    BY <1>1, <2>1, InputInit, RingInit, SoundInit, WavInit, LogInit, ObjInit DEF TransfersInd
<1>3. TransfersInd /\ [TransfersNext]_<<part, transferVars>> => TransfersInd'
  <2> SUFFICES ASSUME TransfersInd, [TransfersNext]_<<part, transferVars>> PROVE TransfersInd'
    OBVIOUS
  <2>1. /\ part' = part
        /\ part = "input" => [I!Next]_(I!vars)
        /\ part = "audio" => [A!Next]_(A!vars)
        /\ part = "wav" => [W!Next]_(W!vars)
        /\ part = "log" => [L!Next]_(L!vars)
        /\ part = "obj" => [O!Next]_(O!vars)
    BY OneRuns
  <2>2. part = "input" => InputInd'
    BY <1>1, <2>1, InputStep DEF TransfersInd
  <2>3. part = "audio" => RingInd' /\ SoundInd'
    BY <1>1, <2>1, RingStep, SoundStep DEF TransfersInd
  <2>4. part = "wav" => WavInd'
    BY <1>1, <2>1, WavStep DEF TransfersInd
  <2>5. part = "log" => LogInd'
    BY <1>1, <2>1, LogStep DEF TransfersInd
  <2>6. part = "obj" => ObjInd'
    BY <1>1, <2>1, ObjStep DEF TransfersInd
  <2> QED
    BY <2>1, <2>2, <2>3, <2>4, <2>5, <2>6 DEF TransfersInd
<1>4. TransfersInd => TransfersWhole
  BY <1>1, InputMeans, WavMeans, ObjMeans, SoundMeans, RingMeans, LogMeans DEF TransfersInd, TransfersWhole
<1> QED
  BY <1>2, <1>3, <1>4, PTL DEF TransfersSpec

-----------------------------------------------------------------------------
(* The disk that the machine starts from                                   *)

(* The entries of a partition table, and what is mounted.                  *)
TableEntries == [type : {"none", "fat", "other"}, start : Nat, length : Nat]
Mounts == [start : Nat, valid : BOOLEAN]

(* The drives that are there.                                              *)
Present == {d \in 1..4 : drives[d][1] = "disk" /\ Disk!Sectors(d) # 0}

(* A partition begins with a file system.                                  *)
Formatted(d) ==
  \A i \in DOMAIN table[d] : table[d][i].type = "fat" => table[d][i].start \in systems[d]

(* What each drive is and holds.                                           *)
DisksOK ==
  /\ \A d \in 1..4 : /\ drives[d] \in Answers
                     /\ table[d] \in Seq(TableEntries)
  /\ table \in [1..4 -> Seq(TableEntries)]
  /\ DOMAIN systems = 1..4

(* Where the boot is.                                                      *)
BootSteps == {"identify", "table", "initialize", "format 1", "format 2", "mount", "booted", "halted"}

(* The drive that was chosen is the first one.                             *)
Chosen == drive \in Present /\ \A d \in Present : drive <= d

(* The inductive invariant.                                                *)
DiskInd ==
  /\ DisksOK
  /\ drive \in 1..4 /\ step \in BootSteps
  /\ step = "identify" => \A d \in 1..(drive - 1) : d \notin Present
  /\ step \notin {"identify", "halted"} => Chosen
  /\ step = "halted" => Chosen \/ Present = {}
  /\ \A d \in 1..4 : d # drive \/ step \notin {"format 1", "format 2"} => Formatted(d)
  /\ step \in {"format 1", "format 2"} => table[drive] = Disk!Halves(Disk!Sectors(drive))
  /\ step = "format 2" => table[drive][1].start \in systems[drive]
  /\ step = "booted" => partitions # <<>> /\ partitions[1].valid

(* A disk's sectors are a number.                                          *)
LEMMA SectorsIs ==
  ASSUME DisksOK, NEW d \in 1..4
  PROVE  /\ Disk!Sectors(d) \in Nat
         /\ drives[d][1] = "disk" => Disk!Sectors(d) \in Reserved..(Wide - 1)
<1>1. drives[d] \in {<<"none", 0>>, <<"error", 0>>} \cup ({"disk"} \X (Reserved..(Wide - 1)))
  BY StartupAssumption DEF DisksOK, DisksUsable
<1>2. CASE drives[d] = <<"none", 0>>
  BY <1>2 DEF Disk!Sectors
<1>3. CASE drives[d] = <<"error", 0>>
  BY <1>3 DEF Disk!Sectors
<1>4. CASE drives[d] \in {"disk"} \X (Reserved..(Wide - 1))
  <2>1. drives[d][2] \in Reserved..(Wide - 1) /\ Reserved \in Nat
    BY <1>4, StartupAssumption DEF DisksUsable
  <2> QED
    BY <2>1 DEF Disk!Sectors
<1> QED
  BY <1>1, <1>2, <1>3, <1>4

(* Identify() finds the drives that are there.                             *)
LEMMA IdentifyIs ==
  ASSUME DisksOK, NEW d \in 1..4
  PROVE  Disk!Identify(d) # 0 <=> d \in Present
<1>1. d \in Disk!OnChannel(d)
  BY DEF Disk!OnChannel
<1>2. CASE drives[d][1] = "disk"
  <2>1. ~ \A e \in Disk!OnChannel(d) : drives[e][1] = "none"
    BY <1>1, <1>2
  <2> QED
    BY <1>2, <2>1 DEF Disk!Identify, Present
<1>3. CASE drives[d][1] # "disk"
  BY <1>3 DEF Disk!Identify, Present
<1> QED
  BY <1>2, <1>3

(* A number is its own rest of a greater one.                              *)
LEMMA SmallMod == ASSUME NEW x \in Nat, NEW w \in Nat, x < w PROVE x % w = x
OBVIOUS

(* The halves of a disk lie in it, one after the other.                    *)
LEMMA HalvesAre ==
  ASSUME NEW n \in Reserved..(Wide - 1)
  PROVE  /\ Disk!Halves(n) \in Seq(TableEntries) /\ Disk!Halves(n) # <<>>
         /\ DOMAIN Disk!Halves(n) = 1..4
         /\ \A i \in 1..4 : Disk!Halves(n)[i].type = "fat" => i \in {1, 2}
         /\ LET sectors(e) == e.start..(e.start + e.length - 1)
                h == Disk!Halves(n)
            IN  /\ \A i \in {1, 2} : sectors(h[i]) \subseteq Reserved..(n - 1)
                /\ sectors(h[1]) \cap sectors(h[2]) = {}
<1>1. Reserved \in Nat /\ Wide \in Nat /\ n \in Nat /\ Reserved <= n /\ n < Wide
  BY StartupAssumption DEF DisksUsable
<1>2. PICK a \in Nat : a = n - Reserved
  BY <1>1
<1>3. PICK p \in Nat : p = a \div 2 /\ p <= a
  BY <1>2
<1>4. (n - Reserved) % Wide = a /\ (Reserved + p) % Wide = Reserved + p /\ (a - p) % Wide = a - p
  <2>1. a < Wide /\ Reserved + p \in Nat /\ Reserved + p < Wide /\ a - p \in Nat /\ a - p < Wide
    BY <1>1, <1>2, <1>3
  <2> QED
    BY <1>1, <1>2, <2>1, SmallMod
<1>5. Disk!Halves(n) = <<[type |-> "fat", start |-> Reserved, length |-> p],
                         [type |-> "fat", start |-> Reserved + p, length |-> a - p],
                         [type |-> "none", start |-> 0, length |-> 0],
                         [type |-> "none", start |-> 0, length |-> 0]>>
  BY <1>3, <1>4 DEF Disk!Halves, Disk!Entry, Disk!Unused
<1>6. \A type \in {"none", "fat", "other"}, s \in Nat, l \in Nat : [type |-> type, start |-> s, length |-> l] \in TableEntries
  BY DEF TableEntries
<1>7. a - p \in Nat /\ Reserved + p \in Nat
  BY <1>1, <1>2, <1>3
<1>8. Disk!Halves(n) \in Seq(TableEntries) /\ DOMAIN Disk!Halves(n) = 1..4
  <2>1. PICK x \in TableEntries : x = [type |-> "fat", start |-> Reserved, length |-> p]
    BY <1>1, <1>3, <1>6
  <2>2. PICK y \in TableEntries : y = [type |-> "fat", start |-> Reserved + p, length |-> a - p]
    BY <1>6, <1>7
  <2>3. PICK z \in TableEntries : z = [type |-> "none", start |-> 0, length |-> 0]
    BY <1>6
  <2>4. Disk!Halves(n) = <<x, y, z, z>>
    BY <1>5, <2>1, <2>2, <2>3
  <2> QED
    BY <2>4
<1>9. \A i \in 1..4 : Disk!Halves(n)[i].type = "fat" => i \in {1, 2}
  BY <1>5
<1>10. \A x \in Reserved..(Reserved + p - 1) : x \in Reserved..(n - 1) /\ x \notin (Reserved + p)..(Reserved + p + (a - p) - 1)
  BY <1>1, <1>2, <1>3
<1>11. \A x \in (Reserved + p)..(Reserved + p + (a - p) - 1) : x \in Reserved..(n - 1)
  BY <1>1, <1>2, <1>3
<1>12. Disk!Halves(n)[1].start = Reserved /\ Disk!Halves(n)[1].length = p
  BY <1>5
<1>13. Disk!Halves(n)[2].start = Reserved + p /\ Disk!Halves(n)[2].length = a - p
  BY <1>5
<1>14. Disk!Halves(n) # <<>>
  BY <1>8
<1> QED
  BY <1>8, <1>9, <1>10, <1>11, <1>12, <1>13, <1>14

(* When every partition of a table begins with a file system, so does each *)
(* that is mounted.                                                        *)
LEMMA MountedIs ==
  ASSUME DisksOK, NEW d \in 1..4, Formatted(d)
  PROVE  /\ Disk!Mounted(table[d], d) \in Seq(Mounts)
         /\ \A i \in DOMAIN Disk!Mounted(table[d], d) : Disk!Mounted(table[d], d)[i].valid
<1> DEFINE t == table[d]
           Valid == {m \in Seq(Mounts) : \A i \in DOMAIN m : m[i].valid}
           Mount(i) == [start |-> t[i].start, valid |-> t[i].start \in systems[d]]
           join == [x \in (1..Len(t)) \X Valid |-> IF t[x[1]].type # "fat" THEN x[2] ELSE Append(x[2], Mount(x[1]))]
           Body(h) == [i \in 0..Len(t) |->
                         IF i = 0 THEN <<>>
                         ELSE IF t[i].type # "fat" THEN h[i - 1]
                         ELSE Append(h[i - 1], [start |-> t[i].start, valid |-> t[i].start \in systems[d]])]
           m == CHOOSE h : h = Body(h)
<1>1. PICK n \in Nat : n = Len(t)
  BY DEF DisksOK
<1>2. \A i \in 1..n : t[i] \in TableEntries
  BY <1>1 DEF DisksOK
<1>3. ASSUME NEW i \in 1..n, NEW r \in Valid
      PROVE  /\ join[<<i, r>>] = IF t[i].type # "fat" THEN r ELSE Append(r, Mount(i))
             /\ join[<<i, r>>] \in Valid
  <2>1. join[<<i, r>>] = IF t[i].type # "fat" THEN r ELSE Append(r, Mount(i))
    BY <1>1
  <2>2. CASE t[i].type # "fat"
    BY <2>1, <2>2
  <2>3. CASE t[i].type = "fat"
    <3>1. t[i].start \in Nat /\ t[i].start \in systems[d]
      BY <1>1, <1>2, <2>3 DEF TableEntries, Formatted
    <3>2. Mount(i) \in Mounts /\ Mount(i).valid
      BY <3>1 DEF Mounts
    <3>3. PICK x \in Mounts : x = Mount(i) /\ x.valid
      BY <3>2
    <3>4. Append(r, x) \in Seq(Mounts)
      OBVIOUS
    <3>5. ASSUME NEW k \in DOMAIN Append(r, x)
          PROVE  Append(r, x)[k].valid
      <4>1. PICK l \in Nat : l = Len(r) /\ DOMAIN r = 1..l
        OBVIOUS
      <4>2. k \in 1..l \/ k = l + 1
        BY <4>1
      <4>3. CASE k \in 1..l
        <5>1. Append(r, x)[k] = r[k]
          BY <4>1, <4>3
        <5> QED
          BY <4>1, <4>3, <5>1
      <4>4. CASE k = l + 1
        <5>1. Append(r, x)[k] = x
          BY <4>1, <4>4
        <5> QED
          BY <3>3, <5>1
      <4> QED
        BY <4>2, <4>3, <4>4
    <3>6. Append(r, x) \in Valid
      BY <3>4, <3>5
    <3> QED
      BY <2>1, <2>3, <3>3, <3>6
  <2> QED
    BY <2>2, <2>3, <2>1
<1>4. <<>> \in Valid
  OBVIOUS
<1>5. PICK g \in [0..n -> Valid] : Counts(g, n, <<>>, join)
  <2> HIDE DEF Valid, join
  <2>1. StepsIn(n, Valid, join)
    BY <1>3 DEF StepsIn
  <2> QED BY <1>4, <2>1, CountExists
<1>6. g = Body(g)
  <2>1. ASSUME NEW i \in 0..n
        PROVE  g[i] = IF i = 0 THEN <<>>
                      ELSE IF t[i].type # "fat" THEN g[i - 1]
                      ELSE Append(g[i - 1], [start |-> t[i].start, valid |-> t[i].start \in systems[d]])
    <3>1. CASE i = 0
      BY <1>5, <3>1 DEF Counts
    <3>2. CASE i # 0
      <4>1. i \in 1..n /\ g[i - 1] \in Valid
        BY <3>2
      <4>2. g[i] = join[<<i, g[i - 1]>>]
        BY <1>5, <4>1 DEF Counts
      <4> HIDE DEF join, Valid
      <4> QED
        BY <1>3, <3>2, <4>1, <4>2
    <3> QED
      BY <3>1, <3>2
  <2> HIDE DEF join, Valid
  <2> QED
    BY <1>1, <2>1
<1>7. m = Body(m)
  <2> HIDE DEF Body, Valid, join
  <2> QED BY <1>6
<1>8. \A i \in 0..n : m[i] \in Valid
  <2> DEFINE Q == {i \in 0..n : m[i] \in Valid}
  <2> HIDE DEF m
  <2>0. \A i \in 0..n : m[i] = IF i = 0 THEN <<>>
                      ELSE IF t[i].type # "fat" THEN m[i - 1]
                      ELSE Append(m[i - 1], Mount(i))
    BY <1>1, <1>7
  <2>1. 0 \in Q
    <3>0. 0 \in 0..n
      BY <1>1
    <3>1. m[0] = <<>>
      BY <2>0, <3>0
    <3> QED
      BY <1>4, <3>1
  <2>2. ASSUME NEW i \in 1..n, i - 1 \in Q
        PROVE  i \in Q
    <3>1. m[i - 1] \in Valid /\ i \in 0..n
      BY <2>2
    <3>2. m[i] = join[<<i, m[i - 1]>>]
      <4> HIDE DEF join, Valid, Mount
      <4> QED
        BY <1>3, <2>0, <3>1
    <3>3. join[<<i, m[i - 1]>>] \in Valid
      <4> HIDE DEF join, Valid, Mount
      <4> QED
        BY <1>3, <3>1
    <3> HIDE DEF join, Valid
    <3> QED
      BY <3>1, <3>2, <3>3
  <2>3. \A i \in 0..n : i \in Q
    <3> HIDE DEF Q
    <3> QED BY <2>1, <2>2, CountInd
  <2> QED
    BY <2>3
<1>9. Disk!Mounted(table[d], d) = m[n]
  BY <1>1 DEF Disk!Mounted
<1>10. m[n] \in Valid
  <2> HIDE DEF m, Valid
  <2>1. n \in 0..n
    BY <1>1
  <2> QED
    BY <1>8, <2>1
<1> HIDE DEF m
<1> QED
  BY <1>9, <1>10

(* In the beginning nothing was mounted.                                   *)
LEMMA DiskInit == ASSUME Disk!Init PROVE DiskInd
<1>1. PICK t \in Tables :
        /\ table = [d \in 1..4 |-> IF drives[d][1] = "disk" THEN t ELSE <<>>]
        /\ systems = [d \in 1..4 |-> IF drives[d][1] # "disk" THEN {}
                                     ELSE {t[i].start : i \in {j \in DOMAIN t : t[j].type = "fat"}}]
  BY DEF Disk!Init, Disk!Blank
<1>2. drives \in [1..4 -> Answers] /\ step = "identify" /\ drive = 1 /\ partitions = <<>>
  BY DEF Disk!Init
<1>3. t \in Seq(TableEntries)
  BY StartupAssumption DEF DisksUsable, TableEntries
<1>4. DisksOK
  <2>1. \A d \in 1..4 : (IF drives[d][1] = "disk" THEN t ELSE <<>>) \in Seq(TableEntries)
    BY <1>3
  <2> QED
    BY <1>1, <1>2, <2>1 DEF DisksOK
<1>5. ASSUME NEW d \in 1..4
      PROVE  Formatted(d)
  <2>1. CASE drives[d][1] = "disk"
    <3>1. table[d] = t /\ systems[d] = {t[i].start : i \in {j \in DOMAIN t : t[j].type = "fat"}}
      BY <1>1, <2>1
    <3> QED
      BY <3>1 DEF Formatted
  <2>2. CASE drives[d][1] # "disk"
    <3>1. table[d] = <<>>
      BY <1>1, <2>2
    <3> QED
      BY <3>1 DEF Formatted
  <2> QED
    BY <2>1, <2>2
<1> QED
  BY <1>2, <1>4, <1>5 DEF DiskInd, BootSteps

(* The next step of the boot.                                              *)
LEMMA DiskStep ==
  ASSUME DiskInd, EarlyFail = FALSE, [Disk!Next]_(Disk!vars)
  PROVE  DiskInd'
<1>1. CASE UNCHANGED Disk!vars
  BY <1>1 DEF DiskInd, DisksOK, Chosen, Present, Formatted, Disk!vars, Disk!disks, Disk!boot, Disk!Sectors, Disk!Halves
<1>2. ASSUME UNCHANGED Disk!disks
      PROVE  /\ DisksOK' /\ Present' = Present /\ \A d \in 1..4 : Formatted(d) => Formatted(d)'
             /\ \A d \in 1..4 : Disk!Sectors(d)' = Disk!Sectors(d)
  BY <1>2 DEF DiskInd, DisksOK, Present, Formatted, Disk!disks, Disk!Sectors
<1>9. drive \in 1..4
  BY DEF DiskInd
<1>3. CASE Disk!FindDrive
  <2>1. step = "identify" /\ UNCHANGED <<Disk!disks, partitions, fails>>
    BY <1>3 DEF Disk!FindDrive
  <2>2. /\ DisksOK' /\ Present' = Present /\ \A d \in 1..4 : Formatted(d)'
    BY <1>2, <2>1 DEF DiskInd
  <2>3. Disk!Identify(drive) # 0 <=> drive \in Present
    BY IdentifyIs DEF DiskInd
  <2>4. CASE Disk!Identify(drive) # 0
    <3>1. step' = "table" /\ drive' = drive
      BY <1>3, <2>4 DEF Disk!FindDrive
    <3>2. \A d \in Present : d \in 1..4 /\ d \notin 1..(drive - 1)
      BY <2>1 DEF DiskInd, Present
    <3>3. \A d \in Present : drive <= d
      BY <1>9, <3>2
    <3>4. Chosen'
      BY <2>2, <2>3, <2>4, <3>1, <3>3 DEF Chosen
    <3> QED
      BY <2>2, <3>1, <3>4 DEF DiskInd, BootSteps
  <2>5. CASE Disk!Identify(drive) = 0 /\ drive < 4
    <3>1. step' = step /\ drive' = drive + 1
      BY <1>3, <2>5 DEF Disk!FindDrive
    <3>2. \A d \in 1..(drive' - 1) : d \notin Present
      BY <2>1, <2>3, <2>5, <3>1 DEF DiskInd
    <3>3. drive' \in 1..4
      BY <1>9, <2>5, <3>1
    <3> QED
      BY <2>1, <2>2, <3>1, <3>2, <3>3 DEF DiskInd, BootSteps
  <2>6. CASE Disk!Identify(drive) = 0 /\ ~(drive < 4)
    <3>1. step' = "halted" /\ drive' = drive /\ drive = 4
      BY <1>3, <2>6 DEF Disk!FindDrive, DiskInd
    <3>2. \A d \in 1..4 : d \notin Present
      BY <2>1, <2>3, <2>6, <3>1 DEF DiskInd
    <3>3. Present = {}
      BY <3>2 DEF Present
    <3> QED
      BY <2>2, <3>1, <3>3 DEF DiskInd, BootSteps
  <2> QED
    BY <2>4, <2>5, <2>6
<1>4. CASE Disk!ReadPartitions
  <2>1. /\ step = "table" /\ step' \in {"mount", "initialize"}
        /\ UNCHANGED <<Disk!disks, drive, partitions, fails>>
    BY <1>4 DEF Disk!ReadPartitions
  <2>2. /\ DisksOK' /\ Present' = Present /\ \A d \in 1..4 : Formatted(d)'
    BY <1>2, <2>1 DEF DiskInd
  <2>3. Chosen'
    BY <2>1, <2>2 DEF DiskInd, Chosen
  <2> QED
    BY <2>1, <2>2, <2>3 DEF DiskInd, BootSteps
<1>5. CASE Disk!WriteTable
  <2>1. /\ step = "initialize" /\ step' = "format 1"
        /\ table' = [table EXCEPT ![drive] = Disk!Halves(Disk!Sectors(drive))]
        /\ UNCHANGED <<drives, systems, drive, partitions, fails>>
    BY <1>5 DEF Disk!WriteTable
  <2>2. Chosen
    BY <2>1 DEF DiskInd
  <2>3. Disk!Sectors(drive) \in Reserved..(Wide - 1)
    BY <2>2, SectorsIs DEF Chosen, Present, DiskInd
  <2>4. Disk!Halves(Disk!Sectors(drive)) \in Seq(TableEntries)
    BY <2>3, HalvesAre
  <2>5. DisksOK'
    BY <2>1, <2>4 DEF DiskInd, DisksOK
  <2>6. Present' = Present /\ Chosen' /\ Disk!Sectors(drive)' = Disk!Sectors(drive)
    BY <2>1, <2>2 DEF Present, Chosen, Disk!Sectors
  <2>7. table'[drive] = Disk!Halves(Disk!Sectors(drive)) /\ \A d \in 1..4 : d # drive => table'[d] = table[d]
    BY <2>1 DEF DiskInd, DisksOK
  <2>8. \A d \in 1..4 : d # drive => Formatted(d)'
    BY <2>1, <2>7 DEF DiskInd, Formatted
  <2>9. table'[drive'] = Disk!Halves(Disk!Sectors(drive))'
    BY <2>1, <2>6, <2>7 DEF Disk!Halves
  <2> QED
    BY <2>1, <2>5, <2>6, <2>8, <2>9 DEF DiskInd, BootSteps
<1>6. CASE Disk!FormatPartition
  <2>0. step \in {"format 1", "format 2"} /\ UNCHANGED <<drives, table, drive, partitions, fails>>
    BY <1>6 DEF Disk!FormatPartition
  <2>1. Chosen /\ drive \in 1..4
    BY <2>0 DEF DiskInd
  <2>2. PICK n \in {1, 2} :
          /\ n = IF step = "format 1" THEN 1 ELSE 2
          /\ systems' = [systems EXCEPT ![drive] = @ \cup {table[drive][n].start}]
    BY <1>6 DEF Disk!FormatPartition
  <2>3. /\ systems'[drive] = systems[drive] \cup {table[drive][n].start}
        /\ DOMAIN systems' = 1..4
        /\ \A d \in 1..4 : d # drive => systems'[d] = systems[d]
    BY <2>1, <2>2 DEF DiskInd, DisksOK
  <2>4. DisksOK' /\ Present' = Present /\ Chosen'
    BY <2>0, <2>1, <2>3 DEF DiskInd, DisksOK, Present, Chosen, Disk!Sectors
  <2>5. table'[drive'] = Disk!Halves(Disk!Sectors(drive))'
    BY <2>0 DEF DiskInd, Disk!Halves, Disk!Sectors
  <2>6. \A d \in 1..4 : d # drive => Formatted(d)'
    BY <2>0, <2>3 DEF DiskInd, Formatted
  <2>7. CASE step = "format 1"
    <3>1. step' = "format 2" /\ table'[drive'][1].start \in systems'[drive']
      BY <1>6, <2>0, <2>2, <2>3, <2>7 DEF Disk!FormatPartition
    <3>2. drive' \in 1..4 /\ step' \in BootSteps /\ step' # "booted" /\ step' # "halted" /\ step' # "identify"
      BY <1>9, <2>0, <3>1 DEF BootSteps
    <3>3. \A d \in 1..4 : d # drive' \/ step' \notin {"format 1", "format 2"} => Formatted(d)'
      BY <2>0, <2>6, <3>1
    <3> QED
      BY <2>4, <2>5, <3>1, <3>2, <3>3 DEF DiskInd
  <2>8. CASE step = "format 2"
    <3>1. step' = "halted" /\ n = 2
      BY <1>6, <2>0, <2>2, <2>8 DEF Disk!FormatPartition
    <3>2. table[drive][1].start \in systems'[drive] /\ table[drive][2].start \in systems'[drive]
      BY <2>3, <2>8, <3>1 DEF DiskInd
    <3>3. Disk!Sectors(drive) \in Reserved..(Wide - 1)
      BY <2>1, SectorsIs DEF Chosen, Present, DiskInd
    <3>4. /\ table[drive] = Disk!Halves(Disk!Sectors(drive))
          /\ DOMAIN table[drive] = 1..4
          /\ \A i \in 1..4 : table[drive][i].type = "fat" => i \in {1, 2}
      BY <2>8, <3>3, HalvesAre DEF DiskInd
    <3>5. Formatted(drive)'
      BY <2>0, <3>2, <3>4 DEF Formatted
    <3> QED
      BY <2>0, <2>1, <2>4, <2>6, <3>1, <3>5 DEF DiskInd, BootSteps
  <2> QED
    BY <2>0, <2>7, <2>8
<1>7. CASE Disk!MountPartitions
  <2>1. /\ step = "mount" /\ partitions' = Disk!Mounted(table[drive], drive)
        /\ step' = IF partitions' = <<>> THEN "halted" ELSE "booted"
        /\ UNCHANGED <<Disk!disks, drive, fails>>
    BY <1>7 DEF Disk!MountPartitions
  <2>2. /\ DisksOK' /\ Present' = Present /\ \A d \in 1..4 : Formatted(d)'
    BY <1>2, <2>1 DEF DiskInd
  <2>3. Chosen' /\ drive \in 1..4 /\ Formatted(drive)
    BY <2>1, <2>2 DEF DiskInd, Chosen
  <2>4. partitions' \in Seq(Mounts) /\ \A i \in DOMAIN partitions' : partitions'[i].valid
    BY <2>1, <2>3, MountedIs DEF DiskInd
  <2>5. partitions' # <<>> => 1 \in DOMAIN partitions'
    BY <2>4
  <2> QED
    BY <2>1, <2>2, <2>3, <2>4, <2>5 DEF DiskInd, BootSteps
<1>8. CASE Disk!Restart
  <2>1. /\ step \notin {"format 1", "format 2"} /\ step' = "identify" /\ drive' = 1 /\ partitions' = <<>>
        /\ UNCHANGED Disk!disks
    BY <1>8 DEF Disk!Restart
  <2>2. /\ DisksOK' /\ Present' = Present /\ \A d \in 1..4 : Formatted(d)'
    BY <1>2, <2>1 DEF DiskInd
  <2>3. drive' \in 1..4 /\ \A d \in 1..(drive' - 1) : d \notin Present'
    <3>1. drive' = 1
      BY <2>1
    <3>2. \A d \in 1..(drive' - 1) : FALSE
      BY <3>1
    <3> QED
      BY <3>1, <3>2
  <2>4. step' \in BootSteps
    BY <2>1 DEF BootSteps
  <2> QED
    BY <2>1, <2>2, <2>3, <2>4 DEF DiskInd
<1> QED
  BY <1>1, <1>3, <1>4, <1>5, <1>6, <1>7, <1>8 DEF Disk!Next

(* Then the system starts from the first disk.                             *)
LEMMA DiskMeans == ASSUME DiskInd PROVE Disk!BootsFromFirst
<1>1. step = "booted" => partitions[1].valid /\ Chosen
  BY DEF DiskInd
<1>2. ASSUME NEW d \in Present, table[d] = Disk!Halves(Disk!Sectors(d))
      PROVE  LET sectors(e) == e.start..(e.start + e.length - 1) IN
             /\ \A i \in {1, 2} : sectors(table[d][i]) \subseteq Reserved..(Disk!Sectors(d) - 1)
             /\ sectors(table[d][1]) \cap sectors(table[d][2]) = {}
  <2>1. d \in 1..4 /\ drives[d][1] = "disk"
    BY DEF Present
  <2>2. Disk!Sectors(d) \in Reserved..(Wide - 1)
    BY <2>1, SectorsIs DEF DiskInd
  <2> QED
    BY <1>2, <2>2, HalvesAre
<1>3. (step = "halted" /\ drive = 4 /\ Disk!Identify(4) = 0) => Present = {}
  <2>0. DisksOK
    BY DEF DiskInd
  <2>1. Disk!Identify(4) = 0 => 4 \notin Present
    <3>1. 4 \in 1..4
      OBVIOUS
    <3> QED
      BY <2>0, <3>1, IdentifyIs
  <2> QED
    BY <2>1 DEF DiskInd, Chosen
<1> QED
  BY <1>1, <1>2, <1>3 DEF Disk!BootsFromFirst, Present, Chosen

(* From whatever the disks hold, and wherever the power fails but while a  *)
(* blank disk is set up, the system comes up on the first disk, with a     *)
(* formatted partition (kernelMain(), ReadPartitions(), Initialize()).     *)
THEOREM BootsAlwaysFromFirst == ASSUME EarlyFail = FALSE PROVE Disk!Spec => []Disk!BootsFromFirst
<1>1. Disk!Init => DiskInd
  BY DiskInit
<1>2. DiskInd /\ [Disk!Next]_(Disk!vars) => DiskInd'
  BY DiskStep
<1>3. DiskInd => Disk!BootsFromFirst
  BY DiskMeans
<1> QED
  BY <1>1, <1>2, <1>3, PTL DEF Disk!Spec

-----------------------------------------------------------------------------
(* The drivers that are loaded                                             *)

(* Memory: a word at each address that was written.                        *)
MemoryType == UNION {[D -> Int] : D \in SUBSET Int}

(* Where the sections of f lie, between lo and hi: those that are loaded   *)
(* one after the other, and the other ones nowhere.                        *)
Placed(f, at, lo, hi) ==
  /\ at \in Seq(Nat) /\ Len(at) = Len(f.sections)
  /\ lo \in Nat /\ hi \in Nat /\ lo <= hi
  /\ \A s \in DOMAIN f.sections :
       IF f.sections[s].alloc THEN lo <= at[s] /\ at[s] + Len(f.sections[s].words) <= hi ELSE at[s] = 0
  /\ \A s, q \in DOMAIN f.sections :
       s < q /\ f.sections[s].alloc /\ f.sections[q].alloc => at[s] + Len(f.sections[s].words) <= at[q]

(* The words of a section, and their number.                               *)
LEMMA SectionsAre ==
  ASSUME NEW f, WellBuilt(f)
  PROVE  /\ Len(f.sections) \in Nat /\ DOMAIN f.sections = 1..Len(f.sections)
         /\ \A s \in DOMAIN f.sections :
              /\ f.sections[s].alloc \in BOOLEAN
              /\ f.sections[s].words \in Seq(Int)
              /\ Len(f.sections[s].words) \in Nat
              /\ DOMAIN f.sections[s].words = 1..Len(f.sections[s].words)
<1>1. f.sections \in Seq(ModuleSections)
  BY DEF WellBuilt
<1>2. Len(f.sections) \in Nat /\ DOMAIN f.sections = 1..Len(f.sections)
  BY <1>1
<1>3. \A s \in DOMAIN f.sections : f.sections[s] \in ModuleSections
  BY <1>1
<1>4. \A s \in DOMAIN f.sections : f.sections[s].alloc \in BOOLEAN /\ f.sections[s].words \in Seq(Int)
  BY <1>3 DEF ModuleSections
<1> QED
  BY <1>2, <1>4

(* kmalloc() gives each section that is loaded an area of its own.         *)
LEMMA AddressesAre ==
  ASSUME NEW f, WellBuilt(f), heapEnd \in Nat
  PROVE  Placed(f, Drv!AddressesOf(f).at, heapEnd, Drv!AddressesOf(f).next)
<1> DEFINE R == [next : Nat, at : Seq(Nat)]
           Ext(i, r) == IF f.sections[i].alloc
                          THEN [next |-> r.next + Len(f.sections[i].words), at |-> Append(r.at, r.next)]
                          ELSE [next |-> r.next, at |-> Append(r.at, 0)]
           first == [next |-> heapEnd, at |-> <<>>]
           join == [x \in (1..Len(f.sections)) \X R |-> Ext(x[1], x[2])]
           Body(h) == [i \in 0..Len(f.sections) |->
                         IF i = 0 THEN [next |-> heapEnd, at |-> <<>>]
                         ELSE LET s == f.sections[i]
                              IN  IF s.alloc
                                    THEN [next |-> h[i - 1].next + Len(s.words),
                                          at |-> Append(h[i - 1].at, h[i - 1].next)]
                                    ELSE [next |-> h[i - 1].next, at |-> Append(h[i - 1].at, 0)]]
           a == CHOOSE h : h = Body(h)
<1>1. PICK n \in Nat : n = Len(f.sections)
  BY SectionsAre
<1>2. \A i \in 1..n : f.sections[i].alloc \in BOOLEAN /\ Len(f.sections[i].words) \in Nat
  BY <1>1, SectionsAre
<1>3. ASSUME NEW i \in 1..n, NEW r \in R
      PROVE  Ext(i, r) \in R
  <2>1. r.next \in Nat /\ r.at \in Seq(Nat)
    OBVIOUS
  <2>2. Append(r.at, r.next) \in Seq(Nat) /\ Append(r.at, 0) \in Seq(Nat)
    BY <2>1
  <2>3. r.next + Len(f.sections[i].words) \in Nat
    <3>1. PICK l \in Nat : l = Len(f.sections[i].words)
      BY <1>2
    <3>2. r.next + l \in Nat
      BY <2>1
    <3> QED
      BY <3>1, <3>2
  <2> QED
    BY <2>1, <2>2, <2>3
<1>4. first \in R
  OBVIOUS
<1>5. StepsIn(n, R, join)
  <2> HIDE DEF R, Ext
  <2>1. \A i \in 1..n, r \in R : join[<<i, r>>] = Ext(i, r)
    BY <1>1
  <2> HIDE DEF join
  <2> QED
    BY <1>3, <2>1 DEF StepsIn
<1>6. PICK g \in [0..n -> R] : Counts(g, n, first, join)
  <2> HIDE DEF R, join, first
  <2> QED BY <1>4, <1>5, CountExists
<1>7. \A i \in 1..n : g[i] = Ext(i, g[i - 1])
  <2> HIDE DEF R, Ext, first
  <2>1. \A i \in 1..n : g[i - 1] \in R
    OBVIOUS
  <2>2. \A i \in 1..n : join[<<i, g[i - 1]>>] = Ext(i, g[i - 1])
    BY <1>1, <2>1
  <2> HIDE DEF join
  <2> QED
    BY <1>6, <2>2 DEF Counts
<1>8. g[0] = first
  BY <1>6 DEF Counts
<1>9. g = Body(g)
  <2>1. \A i \in 0..n : g[i] = Body(g)[i]
    <3>1. \A i \in 0..n : Body(g)[i] = IF i = 0 THEN first ELSE Ext(i, g[i - 1])
      BY <1>1
    <3> HIDE DEF Body, Ext, first, R
    <3>2. \A i \in 0..n : i = 0 \/ i \in 1..n
      OBVIOUS
    <3>3. \A i \in 0..n : i = 0 => g[i] = Body(g)[i]
      BY <1>8, <3>1
    <3>4. \A i \in 1..n : g[i] = Body(g)[i]
      <4>1. \A i \in 1..n : i \in 0..n /\ i # 0
        OBVIOUS
      <4> QED
        BY <1>7, <3>1, <4>1
    <3> QED
      BY <3>2, <3>3, <3>4
  <2>2. DOMAIN g = 0..n /\ DOMAIN Body(g) = 0..n /\ Body(g) = [i \in 0..n |-> Body(g)[i]]
    BY <1>1
  <2> HIDE DEF Body
  <2>3. g = [i \in 0..n |-> g[i]]
    OBVIOUS
  <2> QED
    BY <2>1, <2>2, <2>3
<1>10. a = Body(a)
  <2> HIDE DEF Body
  <2> QED BY <1>9
<1>11. /\ a[0] = first
       /\ \A i \in 1..n : a[i] = Ext(i, a[i - 1])
  <2> HIDE DEF a
  <2>1. \A i \in 0..n : Body(a)[i] = IF i = 0 THEN first ELSE Ext(i, a[i - 1])
    BY <1>1
  <2>2. \A i \in 0..n : a[i] = IF i = 0 THEN first ELSE Ext(i, a[i - 1])
    <3> HIDE DEF Body, Ext, first
    <3> QED BY <1>10, <2>1
  <2> HIDE DEF Body, Ext, first
  <2>3. 0 \in 0..n /\ \A i \in 1..n : i \in 0..n /\ i # 0
    OBVIOUS
  <2> QED
    BY <2>2, <2>3
<1> HIDE DEF a
<1> DEFINE Good(i) ==
             /\ a[i] \in R /\ Len(a[i].at) = i
             /\ heapEnd <= a[i].next
             /\ \A s \in 1..i :
                  IF f.sections[s].alloc
                    THEN heapEnd <= a[i].at[s] /\ a[i].at[s] + Len(f.sections[s].words) <= a[i].next
                    ELSE a[i].at[s] = 0
             /\ \A s, q \in 1..i :
                  s < q /\ f.sections[s].alloc /\ f.sections[q].alloc =>
                    a[i].at[s] + Len(f.sections[s].words) <= a[i].at[q]
           Q == {i \in 0..n : Good(i)}
<1>12. 0 \in Q
  <2>1. a[0].at = <<>> /\ a[0].next = heapEnd /\ a[0] \in R
    BY <1>4, <1>11
  <2>2. Good(0)
    BY <2>1
  <2> QED
    BY <2>2
<1>13. ASSUME NEW i \in 1..n, i - 1 \in Q
       PROVE  i \in Q
  <2>1. Good(i - 1)
    BY <1>13
  <2>2. a[i] = Ext(i, a[i - 1])
    BY <1>11
  <2>3. PICK b \in Seq(Nat), x \in Nat : b = a[i - 1].at /\ x = a[i - 1].next
    BY <2>1
  <2>4. Len(b) = i - 1 /\ heapEnd <= x
    BY <2>1, <2>3
  <2>5. PICK l \in Nat : l = Len(f.sections[i].words)
    BY <1>2
  <2>6. a[i] \in R
    <3> HIDE DEF R, Ext
    <3> QED BY <1>3, <2>1, <2>2
  <2>7. ASSUME NEW y \in Nat, NEW c, c = Append(b, y)
        PROVE  /\ Len(c) = i /\ c[i] = y
               /\ \A s \in 1..(i - 1) : c[s] = b[s]
    BY <2>4, <2>7
  <2>8. \A s \in 1..(i - 1) : b[s] \in Nat /\ Len(f.sections[s].words) \in Nat
    <3>1. \A s \in 1..(i - 1) : s \in 1..n
      OBVIOUS
    <3>2. DOMAIN b = 1..(i - 1)
      <4>1. Len(b) = i - 1
        BY <2>4
      <4> QED
        BY <4>1
    <3>3. \A s \in DOMAIN b : b[s] \in Nat
      OBVIOUS
    <3> QED
      BY <1>2, <3>1, <3>2, <3>3
  <2>9. /\ \A s \in 1..(i - 1) :
                  IF f.sections[s].alloc
                    THEN heapEnd <= b[s] /\ b[s] + Len(f.sections[s].words) <= x
                    ELSE b[s] = 0
        /\ \A s, q \in 1..(i - 1) :
                  s < q /\ f.sections[s].alloc /\ f.sections[q].alloc =>
                    b[s] + Len(f.sections[s].words) <= b[q]
    BY <2>1, <2>3
  <2>10. CASE f.sections[i].alloc
    <3>0. a[i] = [next |-> x + l, at |-> Append(b, x)]
      BY <2>2, <2>3, <2>5, <2>10
    <3>1. a[i].next = x + l /\ a[i].at = Append(b, x)
      BY <3>0
    <3>2. PICK c \in Seq(Nat) : c = a[i].at
      BY <2>6
    <3>3. Len(c) = i /\ c[i] = x /\ \A s \in 1..(i - 1) : c[s] = b[s]
      <4>1. c = Append(b, x)
        BY <3>1, <3>2
      <4> HIDE DEF R
      <4> QED
        BY <2>7, <4>1
    <3>4. \A s \in 1..i : IF f.sections[s].alloc
                    THEN heapEnd <= c[s] /\ c[s] + Len(f.sections[s].words) <= x + l
                    ELSE c[s] = 0
      <4>1. \A s \in 1..i : s = i \/ s \in 1..(i - 1)
        OBVIOUS
      <4>2. \A s \in 1..i : IF f.sections[s].alloc
                    THEN heapEnd <= c[s] /\ c[s] + Len(f.sections[s].words) <= x + l
                    ELSE c[s] = 0
        <5>1. \A s \in 1..(i - 1) : c[s] = b[s]
          BY <3>3
        <5>2. \A s \in 1..(i - 1) : f.sections[s].alloc =>
                 heapEnd <= c[s] /\ c[s] + Len(f.sections[s].words) <= x + l
          <6> SUFFICES ASSUME NEW s \in 1..(i - 1), f.sections[s].alloc
                       PROVE  heapEnd <= c[s] /\ c[s] + Len(f.sections[s].words) <= x + l
            OBVIOUS
          <6>1. PICK y \in Nat, m \in Nat : y = b[s] /\ m = Len(f.sections[s].words)
            BY <2>8
          <6>2. heapEnd <= y /\ y + m <= x
            BY <2>9, <6>1
          <6>3. y + m <= x + l
            BY <6>2
          <6> QED
            BY <5>1, <6>1, <6>2, <6>3
        <5>3. \A s \in 1..(i - 1) : ~f.sections[s].alloc => c[s] = 0
          BY <2>9, <5>1
        <5>4. heapEnd <= c[i] /\ c[i] + Len(f.sections[i].words) <= x + l
          BY <2>4, <2>5, <3>3
        <5> QED
          BY <2>10, <4>1, <5>2, <5>3, <5>4
      <4> QED
        BY <4>2
    <3>5. \A s, q \in 1..i :
                  s < q /\ f.sections[s].alloc /\ f.sections[q].alloc =>
                    c[s] + Len(f.sections[s].words) <= c[q]
      <4>1. \A s, q \in 1..i : s < q => s \in 1..(i - 1) /\ (q = i \/ q \in 1..(i - 1))
        OBVIOUS
      <4> QED
        BY <2>9, <3>3, <4>1
    <3>6. heapEnd <= x + l
      BY <2>4
    <3>7. Good(i)
      <4> HIDE DEF R
      <4>1. a[i].at = c /\ a[i].next = x + l
        BY <3>1, <3>2
      <4> QED
        BY <2>6, <3>3, <3>4, <3>5, <3>6, <4>1
    <3> QED
      BY <3>7
  <2>11. CASE ~f.sections[i].alloc
    <3>0. a[i] = [next |-> x, at |-> Append(b, 0)]
      BY <2>2, <2>3, <2>5, <2>11
    <3>1. a[i].next = x /\ a[i].at = Append(b, 0)
      BY <3>0
    <3>2. PICK c \in Seq(Nat) : c = a[i].at
      BY <2>6
    <3>3. Len(c) = i /\ c[i] = 0 /\ \A s \in 1..(i - 1) : c[s] = b[s]
      <4>1. c = Append(b, 0)
        BY <3>1, <3>2
      <4> HIDE DEF R
      <4> QED
        BY <2>7, <4>1
    <3>4. \A s \in 1..i : IF f.sections[s].alloc
                    THEN heapEnd <= c[s] /\ c[s] + Len(f.sections[s].words) <= x
                    ELSE c[s] = 0
      <4>1. \A s \in 1..i : s = i \/ s \in 1..(i - 1)
        OBVIOUS
      <4> QED
        BY <2>9, <2>11, <3>3, <4>1
    <3>5. \A s, q \in 1..i :
                  s < q /\ f.sections[s].alloc /\ f.sections[q].alloc =>
                    c[s] + Len(f.sections[s].words) <= c[q]
      <4>1. \A s, q \in 1..i : s < q => s \in 1..(i - 1) /\ (q = i \/ q \in 1..(i - 1))
        OBVIOUS
      <4>2. \A s, q \in 1..(i - 1) : c[s] = b[s] /\ c[q] = b[q]
        BY <3>3
      <4>3. \A q \in 1..i : f.sections[q].alloc => q # i
        BY <2>11
      <4> QED
        BY <2>9, <4>1, <4>2, <4>3
    <3>7. Good(i)
      <4> HIDE DEF R
      <4>1. a[i].at = c /\ a[i].next = x
        BY <3>1, <3>2
      <4> QED
        BY <2>4, <2>6, <3>3, <3>4, <3>5, <4>1
    <3> QED
      BY <3>7
  <2> QED
    BY <2>10, <2>11
<1>14. n \in Q
  <2> HIDE DEF Q
  <2>1. \A i \in 0..n : i \in Q
    BY <1>12, <1>13, CountInd
  <2>2. n \in 0..n
    OBVIOUS
  <2> QED
    BY <2>1, <2>2
<1>15. Drv!AddressesOf(f) = a[n]
  BY <1>1 DEF Drv!AddressesOf, a
<1>16. Good(n)
  BY <1>14
<1>17. PICK b \in Seq(Nat), x \in Nat : b = a[n].at /\ x = a[n].next
  BY <1>16
<1>18. /\ Len(b) = n /\ heapEnd <= x
       /\ \A s \in 1..n : IF f.sections[s].alloc
                    THEN heapEnd <= b[s] /\ b[s] + Len(f.sections[s].words) <= x
                    ELSE b[s] = 0
       /\ \A s, q \in 1..n :
                  s < q /\ f.sections[s].alloc /\ f.sections[q].alloc =>
                    b[s] + Len(f.sections[s].words) <= b[q]
  BY <1>16, <1>17
<1>19. DOMAIN f.sections = 1..n
  BY <1>1, SectionsAre
<1>20. Placed(f, b, heapEnd, x)
  BY <1>1, <1>18, <1>19 DEF Placed
<1> QED
  BY <1>15, <1>17, <1>20

(* Two words of sections that are loaded are in one place only when they   *)
(* are one.                                                                *)
LEMMA PlacedApart ==
  ASSUME NEW f, WellBuilt(f), NEW at, NEW lo, NEW hi, Placed(f, at, lo, hi),
         NEW s \in DOMAIN f.sections, f.sections[s].alloc, NEW w \in DOMAIN f.sections[s].words,
         NEW q \in DOMAIN f.sections, f.sections[q].alloc, NEW v \in DOMAIN f.sections[q].words
  PROVE  /\ at[s] + w - 1 \in Nat /\ lo <= at[s] + w - 1 /\ at[s] + w - 1 < hi
         /\ at[s] + w - 1 = at[q] + v - 1 => s = q /\ w = v
<1>1. /\ s \in Nat /\ q \in Nat /\ at[s] \in Nat /\ at[q] \in Nat
  <2>1. DOMAIN f.sections = 1..Len(f.sections) /\ Len(f.sections) \in Nat
    BY SectionsAre
  <2>2. at \in Seq(Nat) /\ Len(at) = Len(f.sections)
    BY DEF Placed
  <2> QED
    BY <2>1, <2>2
<1>2. PICK m \in Nat, n \in Nat : m = Len(f.sections[s].words) /\ n = Len(f.sections[q].words)
  BY SectionsAre
<1>3. w \in 1..m /\ v \in 1..n
  BY <1>2, SectionsAre
<1>4. lo \in Nat /\ hi \in Nat /\ lo <= at[s] /\ at[s] + m <= hi
  BY <1>2 DEF Placed
<1>5. /\ s < q => at[s] + m <= at[q]
      /\ q < s => at[q] + n <= at[s]
  BY <1>2 DEF Placed
<1>6. PICK a \in Nat, b \in Nat : a = at[s] /\ b = at[q]
  BY <1>1
<1>7. a + w - 1 \in Nat /\ lo <= a + w - 1 /\ a + w - 1 < hi
  BY <1>3, <1>4, <1>6
<1>8. a + w - 1 = b + v - 1 => s = q
  BY <1>1, <1>3, <1>5, <1>6
<1>9. s = q /\ a + w - 1 = b + v - 1 => w = v
  BY <1>3, <1>6
<1> QED
  BY <1>6, <1>7, <1>8, <1>9

(* The words of the sections that are loaded, where they lie.              *)
LEMMA ImageIs ==
  ASSUME NEW f, WellBuilt(f), NEW at, NEW lo, NEW hi, Placed(f, at, lo, hi)
  PROVE  /\ Drv!Image(f, at) \in MemoryType
         /\ DOMAIN Drv!Image(f, at) \subseteq lo..(hi - 1)
         /\ \A s \in DOMAIN f.sections : f.sections[s].alloc => \A w \in DOMAIN f.sections[s].words :
              /\ at[s] + w - 1 \in DOMAIN Drv!Image(f, at)
              /\ Drv!Image(f, at)[at[s] + w - 1] = f.sections[s].words[w]
<1> DEFINE inside(i) == {<<at[i] + w - 1, f.sections[i].words[w]>> : w \in DOMAIN f.sections[i].words}
           cells == UNION {inside(i) : i \in {j \in DOMAIN f.sections : f.sections[j].alloc}}
           At(p) == CHOOSE c \in cells : c[1] = p
           places == {c[1] : c \in cells}
<1>1. Drv!Image(f, at) = [p \in places |-> At(p)[2]]
  BY DEF Drv!Image
<1>2. ASSUME NEW c \in cells
      PROVE  \E s \in DOMAIN f.sections : f.sections[s].alloc /\ \E w \in DOMAIN f.sections[s].words :
               c[1] = at[s] + w - 1 /\ c[2] = f.sections[s].words[w]
  OBVIOUS
<1>3. ASSUME NEW s \in DOMAIN f.sections, f.sections[s].alloc, NEW w \in DOMAIN f.sections[s].words
      PROVE  \E c \in cells : c[1] = at[s] + w - 1 /\ c[2] = f.sections[s].words[w]
  <2>1. <<at[s] + w - 1, f.sections[s].words[w]>> \in cells
    BY <1>3
  <2> HIDE DEF cells
  <2>2. PICK c : c = <<at[s] + w - 1, f.sections[s].words[w]>>
    OBVIOUS
  <2> QED
    BY <2>1, <2>2
<1> HIDE DEF cells
<1>4. ASSUME NEW s \in DOMAIN f.sections, f.sections[s].alloc, NEW w \in DOMAIN f.sections[s].words
      PROVE  at[s] + w - 1 \in places /\ At(at[s] + w - 1)[2] = f.sections[s].words[w]
  <2>1. PICK p : p = at[s] + w - 1
    OBVIOUS
  <2>2. \E c \in cells : c[1] = p
    BY <1>3, <1>4, <2>1
  <2>3. At(p) \in cells /\ At(p)[1] = p
    BY <2>2
  <2> HIDE DEF At
  <2>4. PICK q \in DOMAIN f.sections : f.sections[q].alloc /\ \E v \in DOMAIN f.sections[q].words :
          At(p)[1] = at[q] + v - 1 /\ At(p)[2] = f.sections[q].words[v]
    BY <1>2, <2>3
  <2>8. PICK v \in DOMAIN f.sections[q].words :
          At(p)[1] = at[q] + v - 1 /\ At(p)[2] = f.sections[q].words[v]
    BY <2>4
  <2>5. at[s] + w - 1 = at[q] + v - 1
    BY <2>1, <2>3, <2>8
  <2>6. s = q /\ w = v
    BY <1>4, <2>4, <2>5, PlacedApart
  <2>7. p \in places
    BY <2>2
  <2> HIDE DEF places
  <2> QED
    BY <2>1, <2>6, <2>7, <2>8
<1>5. ASSUME NEW p \in places
      PROVE  p \in lo..(hi - 1) /\ At(p)[2] \in Int
  <2>1. PICK c \in cells : c[1] = p
    OBVIOUS
  <2>2. PICK s \in DOMAIN f.sections : f.sections[s].alloc /\ \E w \in DOMAIN f.sections[s].words :
          c[1] = at[s] + w - 1
    BY <1>2
  <2>8. PICK w \in DOMAIN f.sections[s].words : c[1] = at[s] + w - 1
    BY <2>2
  <2>3. At(p)[2] = f.sections[s].words[w]
    BY <1>4, <2>1, <2>2, <2>8
  <2>4. p \in Nat /\ lo <= p /\ p < hi
    BY <2>1, <2>2, <2>8, PlacedApart
  <2>5. f.sections[s].words \in Seq(Int)
    BY SectionsAre
  <2>6. f.sections[s].words[w] \in Int
    BY <2>5
  <2>7. lo \in Nat /\ hi \in Nat
    BY DEF Placed
  <2> QED
    BY <2>3, <2>4, <2>6, <2>7
<1> HIDE DEF places, At
<1>6. [p \in places |-> At(p)[2]] \in [places -> Int] /\ places \in SUBSET Int
  <2>1. places \subseteq Int
    <3>1. lo \in Nat /\ hi \in Nat
      BY DEF Placed
    <3> QED
      BY <1>5, <3>1
  <2> QED
    BY <1>5, <2>1
<1>7. Drv!Image(f, at) \in MemoryType
  BY <1>1, <1>6 DEF MemoryType
<1>8. DOMAIN Drv!Image(f, at) = places
  BY <1>1
<1> QED
  BY <1>1, <1>4, <1>5, <1>7, <1>8

(* Relocation r of f is one of word w of section s.                        *)
Hits(f, r, s, w) == f.relocations[r].section = s /\ f.relocations[r].offset = w - 1

(* Where it is made, and what is added there.                              *)
Target(f, at, r) == at[f.relocations[r].section] + f.relocations[r].offset
Added(f, at, r) ==
  Drv!SymbolValue(f, at, f.relocations[r].symbol)
    - (IF f.relocations[r].type = "relative" THEN Target(f, at, r) ELSE 0)

(* The relocations of a file.                                              *)
LEMMA RelocationsAre ==
  ASSUME NEW f, WellBuilt(f)
  PROVE  /\ Len(f.relocations) \in Nat /\ DOMAIN f.relocations = 1..Len(f.relocations)
         /\ \A r \in DOMAIN f.relocations :
              /\ f.relocations[r] \in ModuleRelocations
              /\ f.relocations[r].section \in DOMAIN f.sections
              /\ f.relocations[r].symbol \in DOMAIN f.symbols
              /\ f.relocations[r].offset \in Nat
              /\ f.relocations[r].offset < Len(f.sections[f.relocations[r].section].words)
<1>1. f.relocations \in Seq(ModuleRelocations)
  BY DEF WellBuilt
<1>2. Len(f.relocations) \in Nat /\ DOMAIN f.relocations = 1..Len(f.relocations)
  BY <1>1
<1>3. \A r \in DOMAIN f.relocations : f.relocations[r] \in ModuleRelocations
  BY <1>1
<1>4. \A r \in DOMAIN f.relocations : f.relocations[r].offset \in Nat
  BY <1>3 DEF ModuleRelocations
<1> QED
  BY <1>2, <1>3, <1>4 DEF WellBuilt

(* The value of a symbol is an address.                                    *)
LEMMA SymbolValueIs ==
  ASSUME NEW f, WellBuilt(f), NEW at, NEW lo, NEW hi, Placed(f, at, lo, hi), NEW n \in DOMAIN f.symbols
  PROVE  Drv!SymbolValue(f, at, n) \in Int
<1>1. f.symbols[n] \in ModuleSymbols /\ f.symbols[n].section \in 0..Len(f.sections)
  BY DEF WellBuilt
<1>2. f.symbols[n].value \in Int
  BY <1>1 DEF ModuleSymbols
<1>3. CASE f.symbols[n].section = 0
  BY <1>3, StartupAssumption DEF Drv!SymbolValue, DriversUsable
<1>4. CASE f.symbols[n].section # 0
  <2>1. Len(f.sections) \in Nat
    BY SectionsAre
  <2>2. f.symbols[n].section \in 1..Len(f.sections)
    BY <1>1, <1>4, <2>1
  <2>3. at[f.symbols[n].section] \in Nat
    BY <2>1, <2>2 DEF Placed
  <2>4. PICK a \in Nat, v \in Int : a = at[f.symbols[n].section] /\ v = f.symbols[n].value
    BY <1>2, <2>3
  <2>5. a + v \in Int
    BY <2>4
  <2> QED
    BY <1>4, <2>4, <2>5 DEF Drv!SymbolValue
<1> QED
  BY <1>3, <1>4

(* A relocation is made in its word, or below the heap.                    *)
LEMMA TargetIs ==
  ASSUME NEW f, WellBuilt(f), NEW at, NEW lo, NEW hi, Placed(f, at, lo, hi), HeapStart <= lo,
         NEW r \in DOMAIN f.relocations
  PROVE  /\ Target(f, at, r) \in Nat /\ Added(f, at, r) \in Int
         /\ Target(f, at, r) < HeapStart \/ Target(f, at, r) \in lo..(hi - 1)
         /\ \A s \in DOMAIN f.sections : f.sections[s].alloc => \A w \in DOMAIN f.sections[s].words :
              Target(f, at, r) = at[s] + w - 1 <=> Hits(f, r, s, w)
<1>1. PICK q, o : q = f.relocations[r].section /\ o = f.relocations[r].offset
  OBVIOUS
<1>2. q \in DOMAIN f.sections /\ o \in Nat /\ o < Len(f.sections[q].words)
  BY <1>1, RelocationsAre
<1>3. PICK a \in Nat : a = at[q]
  <2>1. at \in Seq(Nat) /\ Len(at) = Len(f.sections)
    BY DEF Placed
  <2>2. DOMAIN f.sections = 1..Len(f.sections)
    BY SectionsAre
  <2> QED
    BY <1>2, <2>1, <2>2
<1>4. Target(f, at, r) = a + o
  BY <1>1, <1>3 DEF Target
<1>5. a + o \in Nat
  BY <1>2
<1>6. Added(f, at, r) \in Int
  <2>1. PICK v \in Int : v = Drv!SymbolValue(f, at, f.relocations[r].symbol)
    BY RelocationsAre, SymbolValueIs
  <2>2. PICK x \in Int : x = IF f.relocations[r].type = "relative" THEN Target(f, at, r) ELSE 0
    BY <1>4, <1>5
  <2>3. v - x \in Int
    OBVIOUS
  <2> QED
    BY <2>1, <2>2, <2>3 DEF Added
<1>7. HeapStart \in Nat /\ lo \in Nat /\ hi \in Nat
  BY StartupAssumption DEF DriversUsable, Placed
<1>8. PICK l \in Nat : l = Len(f.sections[q].words)
  BY <1>2, SectionsAre
<1>9. CASE f.sections[q].alloc
  <2>1. o + 1 \in DOMAIN f.sections[q].words
    <3>1. DOMAIN f.sections[q].words = 1..l
      BY <1>2, <1>8, SectionsAre
    <3> QED
      BY <1>2, <1>8, <3>1
  <2>2. at[q] + (o + 1) - 1 = a + o
    BY <1>2, <1>3
  <2>3. lo <= a + o /\ a + o < hi
    BY <1>2, <1>9, <2>1, <2>2, PlacedApart
  <2>4. ASSUME NEW s \in DOMAIN f.sections, f.sections[s].alloc, NEW w \in DOMAIN f.sections[s].words
        PROVE  a + o = at[s] + w - 1 <=> q = s /\ o = w - 1
    <3>1. at[q] + (o + 1) - 1 = at[s] + w - 1 => q = s /\ o + 1 = w
      BY <1>2, <1>9, <2>1, <2>4, PlacedApart
    <3>2. o + 1 = w => o = w - 1
      BY <1>2
    <3>3. w \in Nat
      <4>1. DOMAIN f.sections[s].words = 1..Len(f.sections[s].words)
        BY SectionsAre
      <4> QED
        BY <4>1
    <3>4. q = s /\ o = w - 1 => a + o = at[s] + w - 1
      BY <1>2, <1>3, <3>3
    <3> QED
      BY <2>2, <3>1, <3>2, <3>4
  <2>5. a + o \in lo..(hi - 1)
    BY <1>5, <1>7, <2>3
  <2> QED
    BY <1>1, <1>4, <1>5, <1>6, <2>4, <2>5 DEF Hits
<1>10. CASE ~f.sections[q].alloc
  <2>1. a = 0
    BY <1>2, <1>3, <1>10 DEF Placed
  <2>2. l <= HeapStart
    BY <1>2, <1>8, <1>10 DEF WellBuilt
  <2>3. a + o < HeapStart
    BY <1>2, <1>7, <1>8, <2>1, <2>2
  <2>4. ASSUME NEW s \in DOMAIN f.sections, f.sections[s].alloc, NEW w \in DOMAIN f.sections[s].words
        PROVE  a + o # at[s] + w - 1 /\ q # s
    <3>1. PICK p \in Nat : p = at[s] + w - 1 /\ lo <= p
      BY <2>4, PlacedApart
    <3>2. a + o # p
      BY <1>5, <1>7, <2>3, <3>1
    <3> QED
      BY <1>10, <2>4, <3>1, <3>2
  <2> QED
    BY <1>1, <1>4, <1>5, <1>6, <2>3, <2>4 DEF Hits
<1> QED
  BY <1>9, <1>10, <1>2, SectionsAre

(* The addresses and the words of a memory.                                *)
LEMMA MemoryIs ==
  ASSUME NEW c \in MemoryType
  PROVE  DOMAIN c \subseteq Int /\ \A p \in DOMAIN c : c[p] \in Int
<1>1. PICK D \in SUBSET Int : c \in [D -> Int]
  BY DEF MemoryType
<1> QED
  BY <1>1

(* What a relocation does to the memory.                                   *)
LEMMA PatchedIs ==
  ASSUME NEW f, WellBuilt(f), NEW at, NEW lo, NEW hi, Placed(f, at, lo, hi), HeapStart <= lo,
         NEW r \in DOMAIN f.relocations, NEW c \in MemoryType, NEW d, d = Drv!Patched(f, at, c, f.relocations[r])
  PROVE  /\ d \in MemoryType
         /\ \A p \in DOMAIN c : p \in DOMAIN d /\ (p # Target(f, at, r) => d[p] = c[p])
         /\ Target(f, at, r) \in DOMAIN c => d[Target(f, at, r)] = c[Target(f, at, r)] + Added(f, at, r)
<1> DEFINE D == DOMAIN c \cup {Target(f, at, r)}
           At(p) == IF p = Target(f, at, r) THEN Drv!Word(c, p) + Added(f, at, r) ELSE Drv!Word(c, p)
<1>1. d = [p \in D |-> At(p)]
  BY DEF Drv!Patched, Target, Added
<1>2. Target(f, at, r) \in Nat /\ Added(f, at, r) \in Int
  BY TargetIs
<1>3. D \in SUBSET Int
  BY <1>2, MemoryIs
<1>4. \A p \in D : Drv!Word(c, p) \in Int
  BY MemoryIs DEF Drv!Word
<1>5. \A p \in D : At(p) \in Int
  <2> HIDE DEF D
  <2> QED
    BY <1>2, <1>4
<1>6. [p \in D |-> At(p)] \in [D -> Int]
  <2> HIDE DEF D, At
  <2> QED
    BY <1>5
<1>7. d \in MemoryType
  <2> HIDE DEF D, At
  <2> QED
    BY <1>1, <1>3, <1>6 DEF MemoryType
<1>8. \A p \in DOMAIN c : Drv!Word(c, p) = c[p] /\ p \in D
  BY DEF Drv!Word
<1>9. \A p \in D : d[p] = At(p) /\ p \in DOMAIN d
  <2> HIDE DEF D, At
  <2> QED
    BY <1>1
<1> QED
  <2> HIDE DEF D
  <2> QED
    BY <1>7, <1>8, <1>9

(* When a module is linked, each of its words is that of the file, with    *)
(* what its relocation adds, and the areas of the others are as before.    *)
LEMMA LinkedIs ==
  ASSUME NEW f, WellBuilt(f), NEW at, NEW lo, NEW hi, Placed(f, at, lo, hi), HeapStart <= lo,
         memory \in MemoryType, NEW d, d = Drv!Linked(f, at)
  PROVE  /\ d \in MemoryType
         /\ \A p \in DOMAIN memory : HeapStart <= p /\ p \notin lo..(hi - 1) => p \in DOMAIN d /\ d[p] = memory[p]
         /\ \A s \in DOMAIN f.sections : f.sections[s].alloc => \A w \in DOMAIN f.sections[s].words :
              /\ at[s] + w - 1 \in DOMAIN d
              /\ (\A r \in DOMAIN f.relocations : ~Hits(f, r, s, w)) => d[at[s] + w - 1] = f.sections[s].words[w]
              /\ \A r \in DOMAIN f.relocations : Hits(f, r, s, w) =>
                   d[at[s] + w - 1] = f.sections[s].words[w] + Added(f, at, r)
<1> DEFINE rels == f.relocations
           R == MemoryType
           image == Drv!Image(f, at)
           first == [p \in DOMAIN memory \cup DOMAIN image |->
                       IF p \in DOMAIN image THEN image[p] ELSE memory[p]]
           join == [x \in (1..Len(rels)) \X R |-> Drv!Patched(f, at, x[2], rels[x[1]])]
           Body(h) == [i \in 0..Len(rels) |->
                         IF i = 0 THEN first ELSE Drv!Patched(f, at, h[i - 1], rels[i])]
           m == CHOOSE h : h = Body(h)
<1>1. PICK n \in Nat : n = Len(rels) /\ DOMAIN rels = 1..n
  BY RelocationsAre
<1>2. \A i \in 1..n, c \in R : Drv!Patched(f, at, c, rels[i]) \in R
  BY <1>1, PatchedIs
<1>3. HeapStart \in Nat /\ lo \in Nat /\ hi \in Nat
  BY StartupAssumption DEF DriversUsable, Placed
<1>4. /\ image \in MemoryType
      /\ DOMAIN image \subseteq lo..(hi - 1)
      /\ \A s \in DOMAIN f.sections : f.sections[s].alloc => \A w \in DOMAIN f.sections[s].words :
              /\ at[s] + w - 1 \in DOMAIN image
              /\ image[at[s] + w - 1] = f.sections[s].words[w]
  BY ImageIs
<1> HIDE DEF image
<1>5. first \in R
  <2>1. DOMAIN memory \cup DOMAIN image \in SUBSET Int
    BY <1>4, MemoryIs
  <2>2. \A p \in DOMAIN memory \cup DOMAIN image : (IF p \in DOMAIN image THEN image[p] ELSE memory[p]) \in Int
    BY <1>4, MemoryIs
  <2>3. first \in [DOMAIN memory \cup DOMAIN image -> Int]
    BY <2>2
  <2> HIDE DEF first
  <2> QED
    BY <2>1, <2>3 DEF MemoryType
<1>6. \A p \in DOMAIN memory \cup DOMAIN image :
        p \in DOMAIN first /\ first[p] = IF p \in DOMAIN image THEN image[p] ELSE memory[p]
  OBVIOUS
<1> HIDE DEF first, R
<1>7. \A i \in 1..n, c \in R : join[<<i, c>>] = Drv!Patched(f, at, c, rels[i])
  BY <1>1
<1> HIDE DEF join
<1>8. StepsIn(n, R, join)
  BY <1>2, <1>7 DEF StepsIn
<1>9. PICK g \in [0..n -> R] : Counts(g, n, first, join)
  BY <1>5, <1>8, CountExists
<1>10. g = Body(g)
  <2>1. ASSUME NEW i \in 0..n
        PROVE  g[i] = IF i = 0 THEN first ELSE Drv!Patched(f, at, g[i - 1], rels[i])
    <3>1. CASE i = 0
      BY <1>9, <3>1 DEF Counts
    <3>2. CASE i # 0
      <4>1. i \in 1..n /\ i - 1 \in 0..n
        BY <3>2
      <4>2. g[i - 1] \in R
        BY <4>1
      <4>3. g[i] = join[<<i, g[i - 1]>>]
        BY <1>9, <4>1 DEF Counts
      <4> QED
        BY <1>7, <3>2, <4>1, <4>2, <4>3
    <3> QED
      BY <3>1, <3>2
  <2>2. g = [i \in 0..n |-> g[i]]
    OBVIOUS
  <2>3. Body(g) = [i \in 0..n |-> IF i = 0 THEN first ELSE Drv!Patched(f, at, g[i - 1], rels[i])]
    BY <1>1
  <2> HIDE DEF Body
  <2> QED
    BY <2>1, <2>2, <2>3
<1>11. m = Body(m)
  <2> HIDE DEF Body
  <2> QED BY <1>10
<1>12. d = m[n]
  BY <1>1 DEF Drv!Linked, image, first
<1> HIDE DEF m
<1>13. m[0] = first /\ \A i \in 1..n : m[i] = Drv!Patched(f, at, m[i - 1], rels[i])
  <2>1. \A i \in 0..n : m[i] = IF i = 0 THEN first ELSE Drv!Patched(f, at, m[i - 1], rels[i])
    <3>1. \A i \in 0..n : Body(m)[i] = IF i = 0 THEN first ELSE Drv!Patched(f, at, m[i - 1], rels[i])
      BY <1>1
    <3> HIDE DEF Body
    <3> QED
      BY <1>11, <3>1
  <2>2. 0 \in 0..n /\ \A i \in 1..n : i \in 0..n /\ i # 0
    OBVIOUS
  <2> HIDE DEF Body
  <2> QED
    BY <2>1, <2>2
<1> HIDE DEF Body
<1> DEFINE
     Kept(c) == \A p \in DOMAIN memory : HeapStart <= p /\ p \notin lo..(hi - 1) => p \in DOMAIN c /\ c[p] = memory[p]
     Made(i, c, s, w) ==
       /\ at[s] + w - 1 \in DOMAIN c
       /\ (\A r \in 1..i : ~Hits(f, r, s, w)) => c[at[s] + w - 1] = f.sections[s].words[w]
       /\ \A r \in 1..i : Hits(f, r, s, w) => c[at[s] + w - 1] = f.sections[s].words[w] + Added(f, at, r)
     Good(i) ==
       /\ m[i] \in R /\ Kept(m[i])
       /\ \A s \in DOMAIN f.sections : f.sections[s].alloc => \A w \in DOMAIN f.sections[s].words : Made(i, m[i], s, w)
     Q == {i \in 0..n : Good(i)}
<1>14. 0 \in Q
  <2>1. Kept(first)
    <3>1. \A p \in DOMAIN memory : p \notin lo..(hi - 1) => p \notin DOMAIN image
      BY <1>4
    <3> QED
      BY <1>6, <3>1
  <2>2. ASSUME NEW s \in DOMAIN f.sections, f.sections[s].alloc, NEW w \in DOMAIN f.sections[s].words
        PROVE  Made(0, first, s, w)
    <3>1. at[s] + w - 1 \in DOMAIN first /\ first[at[s] + w - 1] = f.sections[s].words[w]
      BY <1>4, <1>6, <2>2
    <3>2. \A r \in 1..0 : FALSE
      OBVIOUS
    <3> QED
      BY <3>1, <3>2
  <2> HIDE DEF Kept, Made
  <2>3. Good(0)
    BY <1>5, <1>13, <2>1, <2>2
  <2>4. 0 \in 0..n
    OBVIOUS
  <2> HIDE DEF Good
  <2> QED
    BY <2>3, <2>4
<1>15. ASSUME NEW i \in 1..n, i - 1 \in Q
       PROVE  i \in Q
  <2>1. Good(i - 1) /\ i \in 0..n /\ i \in DOMAIN rels
    BY <1>1, <1>15
  <2>2. PICK c \in R : c = m[i - 1]
    BY <2>1
  <2>3. PICK e : e = m[i]
    OBVIOUS
  <2>4. e = Drv!Patched(f, at, c, f.relocations[i])
    BY <1>13, <2>2, <2>3
  <2>5. PICK t, x : t = Target(f, at, i) /\ x = Added(f, at, i)
    OBVIOUS
  <2>6. /\ e \in MemoryType
        /\ \A p \in DOMAIN c : p \in DOMAIN e /\ (p # t => e[p] = c[p])
        /\ t \in DOMAIN c => e[t] = c[t] + x
    BY <2>1, <2>2, <2>4, <2>5, PatchedIs DEF R
  <2>7. /\ t \in Nat /\ x \in Int
        /\ t < HeapStart \/ t \in lo..(hi - 1)
        /\ \A s \in DOMAIN f.sections : f.sections[s].alloc => \A w \in DOMAIN f.sections[s].words :
              t = at[s] + w - 1 <=> Hits(f, i, s, w)
    BY <2>1, <2>5, TargetIs
  <2>8. Kept(e)
    <3> SUFFICES ASSUME NEW p \in DOMAIN memory, HeapStart <= p, p \notin lo..(hi - 1)
                 PROVE  p \in DOMAIN e /\ e[p] = memory[p]
      OBVIOUS
    <3>1. p \in DOMAIN c /\ c[p] = memory[p]
      BY <2>1, <2>2
    <3>2. p # t
      <4>1. p \in Int
        BY DEF MemoryType
      <4> QED
        BY <1>3, <2>7, <4>1
    <3> QED
      BY <2>6, <3>1, <3>2
  <2>9. ASSUME NEW s \in DOMAIN f.sections, f.sections[s].alloc, NEW w \in DOMAIN f.sections[s].words
        PROVE  Made(i, e, s, w)
    <3>1. Made(i - 1, c, s, w)
      BY <2>1, <2>2, <2>9
    <3>2. PICK p : p = at[s] + w - 1
      OBVIOUS
    <3>3. p \in DOMAIN c /\ p \in DOMAIN e
      BY <2>6, <3>1, <3>2
    <3>4. \A r \in 1..i : r = i \/ r \in 1..(i - 1)
      OBVIOUS
    <3>5. \A r \in 1..(i - 1) : r \in 1..i /\ r # i /\ r \in DOMAIN rels
      BY <1>1
    <3>6. i \in 1..i
      OBVIOUS
    <3>7. CASE Hits(f, i, s, w)
      <4>1. p = t
        BY <2>7, <2>9, <3>2, <3>7
      <4>2. \A r \in 1..(i - 1) : ~Hits(f, r, s, w)
        <5>1. \A r, q \in DOMAIN f.relocations :
                 f.relocations[r].section = f.relocations[q].section
                   /\ f.relocations[r].offset = f.relocations[q].offset => r = q
          BY DEF WellBuilt
        <5> QED
          BY <2>1, <3>5, <3>7, <5>1 DEF Hits
      <4>3. c[p] = f.sections[s].words[w]
        BY <3>1, <3>2, <4>2
      <4>4. e[p] = f.sections[s].words[w] + Added(f, at, i)
        BY <2>5, <2>6, <3>3, <4>1, <4>3
      <4>5. \A r \in 1..i : Hits(f, r, s, w) => r = i
        BY <3>4, <4>2
      <4> QED
        BY <3>2, <3>3, <3>6, <3>7, <4>4, <4>5
    <3>8. CASE ~Hits(f, i, s, w)
      <4>1. p # t
        BY <2>7, <2>9, <3>2, <3>8
      <4>2. e[p] = c[p]
        BY <2>6, <3>3, <4>1
      <4>3. \A r \in 1..i : Hits(f, r, s, w) => r \in 1..(i - 1)
        BY <3>4, <3>8
      <4> QED
        BY <3>1, <3>2, <3>3, <3>5, <4>2, <4>3
    <3> QED
      BY <3>7, <3>8
  <2> HIDE DEF Kept, Made
  <2>10. Good(i)
    BY <2>3, <2>6, <2>8, <2>9 DEF R
  <2> HIDE DEF Good
  <2> QED
    BY <2>1, <2>10
<1>16. n \in Q
  <2> HIDE DEF Q
  <2>1. \A i \in 0..n : i \in Q
    BY <1>14, <1>15, CountInd
  <2>2. n \in 0..n
    OBVIOUS
  <2> QED
    BY <2>1, <2>2
<1>17. Good(n)
  BY <1>16
<1> QED
  BY <1>1, <1>12, <1>17 DEF R

(* The entry of a module is the address of its CreateDriverInstance().     *)
LEMMA EntryIs ==
  ASSUME NEW f, WellBuilt(f), NEW at, NEW lo, NEW hi, Placed(f, at, lo, hi)
  PROVE  /\ Drv!EntryOf(f, at) \in Int
         /\ Drv!EntryOf(f, at) # 0 => \E n \in DOMAIN f.symbols :
              /\ f.symbols[n].name = Drv!EntryName /\ f.symbols[n].section # 0
              /\ Drv!EntryOf(f, at) = at[f.symbols[n].section] + f.symbols[n].value
<1> DEFINE named == {i \in DOMAIN f.symbols :
                       f.symbols[i].name \in {Drv!EntryName, Drv!LongerName} /\ f.symbols[i].section # 0}
           First(i) == \A j \in named : i <= j
<1>1. Drv!EntryOf(f, at) = IF named = {} THEN 0 ELSE Drv!SymbolValue(f, at, CHOOSE i \in named : First(i))
  BY DEF Drv!EntryOf
<1>2. f.symbols \in Seq(ModuleSymbols)
  BY DEF WellBuilt
<1>3. PICK l \in Nat : DOMAIN f.symbols = 1..l
  BY <1>2
<1>4. named \in SUBSET Nat
  BY <1>3
<1>5. CASE named = {}
  BY <1>1, <1>5
<1>6. CASE named # {}
  <2>1. \E i \in named : First(i)
    <3> HIDE DEF named
    <3> QED
      BY <1>4, <1>6, MinOfNats
  <2>2. PICK n \in named : n = CHOOSE i \in named : First(i)
    <3> HIDE DEF named, First
    <3> QED
      BY <2>1
  <2>3. Drv!EntryOf(f, at) = Drv!SymbolValue(f, at, n)
    <3> HIDE DEF named, First
    <3> QED
      BY <1>1, <1>6, <2>2
  <2>4. n \in DOMAIN f.symbols /\ f.symbols[n].section # 0
    OBVIOUS
  <2>5. f.symbols[n].name = Drv!EntryName
    BY DEF WellBuilt
  <2>6. Drv!SymbolValue(f, at, n) \in Int
    BY <2>4, SymbolValueIs
  <2>7. Drv!SymbolValue(f, at, n) = at[f.symbols[n].section] + f.symbols[n].value
    BY <2>4 DEF Drv!SymbolValue
  <2> QED
    BY <2>3, <2>4, <2>5, <2>6, <2>7
<1> QED
  BY <1>5, <1>6

(* A module in memory: m lies between lo and hi, each of its words is that *)
(* of the file with what a relocation adds, and its entry is the right one.*)
Modules == [file : DriverFiles, at : Seq(Nat), entry : Int]
WordsIn(m, cells) ==
  \A s \in DOMAIN m.file.sections : m.file.sections[s].alloc => \A w \in DOMAIN m.file.sections[s].words :
    /\ m.at[s] + w - 1 \in DOMAIN cells
    /\ (\A r \in DOMAIN m.file.relocations : ~Hits(m.file, r, s, w)) =>
         cells[m.at[s] + w - 1] = m.file.sections[s].words[w]
    /\ \A r \in DOMAIN m.file.relocations : Hits(m.file, r, s, w) =>
         cells[m.at[s] + w - 1] = m.file.sections[s].words[w] + Added(m.file, m.at, r)
EntryRight(m) ==
  m.entry # 0 => \E n \in DOMAIN m.file.symbols :
    /\ m.file.symbols[n].name = Drv!EntryName /\ m.file.symbols[n].section # 0
    /\ m.entry = m.at[m.file.symbols[n].section] + m.file.symbols[n].value
Kept(m, cells, end) ==
  /\ \E lo, hi \in Nat : Placed(m.file, m.at, lo, hi) /\ HeapStart <= lo /\ hi <= end
  /\ WordsIn(m, cells) /\ EntryRight(m)
MemoryInd ==
  /\ heapEnd \in Nat /\ HeapStart <= heapEnd
  /\ memory \in MemoryType /\ modules \in Seq(Modules)
  /\ \A i \in DOMAIN modules : Kept(modules[i], memory, heapEnd)

(* A module keeps its words when those in its areas stay.                  *)
LEMMA WordsStay ==
  ASSUME NEW m, WellBuilt(m.file), NEW lo, NEW hi, Placed(m.file, m.at, lo, hi), HeapStart <= lo,
         NEW c, NEW d, WordsIn(m, c),
         \A p \in DOMAIN c : p \in lo..(hi - 1) => p \in DOMAIN d /\ d[p] = c[p]
  PROVE  WordsIn(m, d)
<1>1. lo \in Nat /\ hi \in Nat
  BY DEF Placed
<1> SUFFICES ASSUME NEW s \in DOMAIN m.file.sections, m.file.sections[s].alloc,
                    NEW w \in DOMAIN m.file.sections[s].words
             PROVE  m.at[s] + w - 1 \in DOMAIN d /\ d[m.at[s] + w - 1] = c[m.at[s] + w - 1]
  BY DEF WordsIn
<1>2. PICK p : p = m.at[s] + w - 1
  OBVIOUS
<1>3. p \in Nat /\ lo <= p /\ p < hi
  BY <1>2, PlacedApart
<1>4. p \in lo..(hi - 1)
  BY <1>1, <1>3
<1>5. p \in DOMAIN c
  BY <1>2 DEF WordsIn
<1> QED
  BY <1>2, <1>4, <1>5

(* LoadDriver() leaves the modules that are loaded as they are.            *)
LEMMA LoadDriverKeeps ==
  ASSUME MemoryInd, NEW f \in DriverFiles, Drv!LoadDriver(f)
  PROVE  MemoryInd'
<1>1. WellBuilt(f) /\ HeapStart \in Nat
  BY StartupAssumption DEF DriversUsable
<1>2. CASE ~f.relocatable
  BY <1>2 DEF Drv!LoadDriver, Drv!place, MemoryInd
<1>3. CASE f.relocatable
  <2>1. PICK at : at = Drv!AddressesOf(f).at
    OBVIOUS
  <2>2. PICK next : next = Drv!AddressesOf(f).next
    OBVIOUS
  <2>3. Placed(f, at, heapEnd, next) /\ heapEnd \in Nat /\ next \in Nat /\ heapEnd <= next /\ HeapStart <= heapEnd
    <3>1. heapEnd \in Nat /\ HeapStart <= heapEnd
      BY DEF MemoryInd
    <3>2. Placed(f, at, heapEnd, next)
      BY <1>1, <2>1, <2>2, <3>1, AddressesAre
    <3> QED
      BY <3>1, <3>2 DEF Placed
  <2>4. PICK m : m = [file |-> f, at |-> at, entry |-> Drv!EntryOf(f, at)]
    OBVIOUS
  <2>5. memory' = Drv!Linked(f, at) /\ heapEnd' = next /\ modules' = Append(modules, m)
    BY <1>3, <2>1, <2>2, <2>4 DEF Drv!LoadDriver
  <2>6. m \in Modules /\ m.file = f /\ m.at = at
    <3>1. Drv!EntryOf(f, at) \in Int
      BY <1>1, <2>3, EntryIs
    <3>2. at \in Seq(Nat)
      BY <2>3 DEF Placed
    <3> QED
      BY <2>4, <3>1, <3>2 DEF Modules
  <2>7. /\ memory' \in MemoryType
        /\ \A p \in DOMAIN memory : HeapStart <= p /\ p \notin heapEnd..(next - 1) =>
             p \in DOMAIN memory' /\ memory'[p] = memory[p]
        /\ \A s \in DOMAIN f.sections : f.sections[s].alloc => \A w \in DOMAIN f.sections[s].words :
              /\ at[s] + w - 1 \in DOMAIN memory'
              /\ (\A r \in DOMAIN f.relocations : ~Hits(f, r, s, w)) => memory'[at[s] + w - 1] = f.sections[s].words[w]
              /\ \A r \in DOMAIN f.relocations : Hits(f, r, s, w) =>
                   memory'[at[s] + w - 1] = f.sections[s].words[w] + Added(f, at, r)
    <3>1. memory \in MemoryType
      BY DEF MemoryInd
    <3>2. PICK d : d = Drv!Linked(f, at)
      OBVIOUS
    <3>3. memory' = d
      BY <2>5, <3>2
    <3> HIDE DEF Drv!Linked
    <3> QED
      BY <1>1, <2>3, <3>1, <3>2, <3>3, LinkedIs
  <2>8. Kept(m, memory', heapEnd')
    <3>1. WordsIn(m, memory')
      BY <2>6, <2>7 DEF WordsIn
    <3>2. EntryRight(m)
      <4>1. m.entry = Drv!EntryOf(f, at)
        BY <2>4
      <4> QED
        BY <1>1, <2>3, <2>6, <4>1, EntryIs DEF EntryRight
    <3>3. Placed(m.file, m.at, heapEnd, next) /\ next <= heapEnd'
      BY <2>3, <2>5, <2>6
    <3> QED
      BY <2>3, <3>1, <3>2, <3>3 DEF Kept
  <2>9. ASSUME NEW i \in DOMAIN modules
        PROVE  Kept(modules[i], memory', heapEnd')
    <3>1. Kept(modules[i], memory, heapEnd) /\ modules[i] \in Modules
      BY DEF MemoryInd
    <3>2. PICK n : n = modules[i]
      OBVIOUS
    <3>3. PICK lo \in Nat, hi \in Nat : Placed(n.file, n.at, lo, hi) /\ HeapStart <= lo /\ hi <= heapEnd
      BY <3>1, <3>2 DEF Kept
    <3>4. WellBuilt(n.file)
      BY <3>1, <3>2, StartupAssumption DEF DriversUsable, Modules
    <3>5. ASSUME NEW p \in DOMAIN memory, p \in lo..(hi - 1)
          PROVE  p \in DOMAIN memory' /\ memory'[p] = memory[p]
      <4>1. HeapStart <= p /\ p \notin heapEnd..(next - 1)
        BY <1>1, <2>3, <3>3, <3>5
      <4> QED
        BY <2>7, <4>1
    <3>6. WordsIn(n, memory)
      BY <3>1, <3>2 DEF Kept
    <3>7. WordsIn(n, memory')
      <4>1. PICK c, d : c = memory /\ d = memory'
        OBVIOUS
      <4>2. \A p \in DOMAIN c : p \in lo..(hi - 1) => p \in DOMAIN d /\ d[p] = c[p]
        BY <3>5, <4>1
      <4>3. WordsIn(n, d)
        <5>1. WordsIn(n, c)
          BY <3>6, <4>1
        <5> QED
          BY <3>3, <3>4, <4>2, <5>1, WordsStay
      <4> QED
        BY <4>1, <4>3
    <3>8. hi <= heapEnd'
      BY <2>3, <2>5, <3>3
    <3> QED
      BY <3>1, <3>2, <3>3, <3>7, <3>8 DEF Kept
  <2>10. /\ modules' \in Seq(Modules)
         /\ \A i \in DOMAIN modules' : modules'[i] = m \/ (i \in DOMAIN modules /\ modules'[i] = modules[i])
    <3>1. modules \in Seq(Modules)
      BY DEF MemoryInd
    <3>2. \A i \in 1..(Len(modules) + 1) : i \in 1..Len(modules) \/ i = Len(modules) + 1
      BY <3>1
    <3> QED
      BY <2>5, <2>6, <3>1, <3>2
  <2>11. \A i \in DOMAIN modules' : Kept(modules'[i], memory', heapEnd')
    BY <2>8, <2>9, <2>10
  <2>12. heapEnd' \in Nat /\ HeapStart <= heapEnd'
    BY <1>1, <2>3, <2>5
  <2> QED
    BY <2>7, <2>10, <2>11, <2>12 DEF MemoryInd
<1> QED
  BY <1>2, <1>3

(* Then every module in memory is whole.                                   *)
LEMMA MemoryMeans == ASSUME MemoryInd PROVE Drv!ModulesWhole
<1> SUFFICES ASSUME NEW i \in DOMAIN modules
             PROVE  Drv!ModuleWhole(modules[i])
  BY DEF Drv!ModulesWhole
<1>1. PICK m \in Modules : m = modules[i] /\ Kept(m, memory, heapEnd)
  BY DEF MemoryInd
<1>2. PICK f : f = m.file /\ WellBuilt(f)
  BY StartupAssumption DEF DriversUsable, Modules
<1>3. PICK lo \in Nat, hi \in Nat : Placed(f, m.at, lo, hi) /\ HeapStart <= lo
  BY <1>1, <1>2 DEF Kept
<1>4. WordsIn(m, memory) /\ EntryRight(m)
  BY <1>1 DEF Kept
<1> DEFINE home(n) == LET s == m.file.symbols[n] IN m.at[s.section] + s.value
           aim(n) == IF m.file.symbols[n].section # 0 THEN home(n) ELSE Exported[m.file.symbols[n].name]
           known(n) == m.file.symbols[n].section # 0 \/ m.file.symbols[n].name \in DOMAIN Exported
           here(s, w) == {r \in DOMAIN m.file.relocations :
                            m.file.relocations[r].section = s /\ m.file.relocations[r].offset = w - 1}
<1>5. \A n : known(n) => Drv!SymbolValue(f, m.at, n) = aim(n)
  BY <1>2 DEF Drv!SymbolValue
<1>6. ASSUME NEW s \in DOMAIN f.sections, f.sections[s].alloc, NEW w \in DOMAIN f.sections[s].words,
             NEW r \in DOMAIN f.relocations, Hits(f, r, s, w), known(f.relocations[r].symbol)
      PROVE  memory[m.at[s] + w - 1] - f.sections[s].words[w] =
               IF f.relocations[r].type = "relative" THEN aim(f.relocations[r].symbol) - (m.at[s] + w - 1)
               ELSE aim(f.relocations[r].symbol)
  <2>1. memory[m.at[s] + w - 1] = f.sections[s].words[w] + Added(f, m.at, r)
    BY <1>2, <1>4, <1>6 DEF WordsIn
  <2>2. Target(f, m.at, r) = m.at[s] + w - 1
    BY <1>2, <1>3, <1>6, TargetIs
  <2>3. PICK t \in Nat, x \in Int : t = m.at[s] + w - 1 /\ x = Added(f, m.at, r)
    BY <1>2, <1>3, <2>2, TargetIs
  <2>4. PICK y \in Int : y = f.sections[s].words[w]
    <3>1. f.sections[s].words \in Seq(Int)
      BY <1>2, SectionsAre
    <3> QED
      BY <3>1
  <2>5. PICK v \in Int : v = Drv!SymbolValue(f, m.at, f.relocations[r].symbol)
    BY <1>2, <1>3, RelocationsAre, SymbolValueIs
  <2>6. v = aim(f.relocations[r].symbol)
    BY <1>5, <1>6, <2>5
  <2>7. x = v - (IF f.relocations[r].type = "relative" THEN t ELSE 0)
    BY <2>2, <2>3, <2>5 DEF Added
  <2>8. x = IF f.relocations[r].type = "relative" THEN v - t ELSE v
    BY <2>7
  <2>9. (y + x) - y = x
    OBVIOUS
  <2> HIDE DEF aim, known
  <2> QED
    BY <2>1, <2>3, <2>4, <2>6, <2>8, <2>9
<1>7. ASSUME NEW s \in DOMAIN f.sections, f.sections[s].alloc, NEW w \in DOMAIN f.sections[s].words,
             {r \in DOMAIN f.relocations : Hits(f, r, s, w)} = {}
      PROVE  memory[m.at[s] + w - 1] = f.sections[s].words[w]
  BY <1>2, <1>4, <1>7 DEF WordsIn
<1>8. m.entry # 0 => \E n \in DOMAIN f.symbols : f.symbols[n].name = Drv!EntryName /\ m.entry = home(n)
  BY <1>2, <1>4 DEF EntryRight
<1>9. ASSUME NEW s \in DOMAIN m.file.sections, m.file.sections[s].alloc,
             NEW w \in DOMAIN m.file.sections[s].words
      PROVE  /\ here(s, w) = {} => memory[m.at[s] + w - 1] = m.file.sections[s].words[w]
             /\ \A r \in here(s, w) : known(m.file.relocations[r].symbol) =>
                  memory[m.at[s] + w - 1] - m.file.sections[s].words[w] =
                    IF m.file.relocations[r].type = "relative"
                      THEN aim(m.file.relocations[r].symbol) - (m.at[s] + w - 1)
                      ELSE aim(m.file.relocations[r].symbol)
  <2>1. here(s, w) = {r \in DOMAIN f.relocations : Hits(f, r, s, w)}
    BY <1>2 DEF Hits
  <2>2. s \in DOMAIN f.sections /\ f.sections[s].alloc /\ w \in DOMAIN f.sections[s].words
    BY <1>2, <1>9
  <2>3. \A r \in here(s, w) : r \in DOMAIN f.relocations /\ Hits(f, r, s, w)
    BY <2>1
  <2> HIDE DEF here, aim, known
  <2>4. here(s, w) = {} => memory[m.at[s] + w - 1] = m.file.sections[s].words[w]
    BY <1>2, <1>7, <2>1, <2>2
  <2>5. \A r \in here(s, w) : known(m.file.relocations[r].symbol) =>
                  memory[m.at[s] + w - 1] - m.file.sections[s].words[w] =
                    IF m.file.relocations[r].type = "relative"
                      THEN aim(m.file.relocations[r].symbol) - (m.at[s] + w - 1)
                      ELSE aim(m.file.relocations[r].symbol)
    BY <1>2, <1>6, <2>2, <2>3
  <2> QED
    BY <2>4, <2>5
<1>10. m.entry # 0 => \E n \in DOMAIN m.file.symbols :
         m.file.symbols[n].name = Drv!EntryName /\ m.entry = home(n)
  BY <1>2, <1>8
<1>11. Drv!ModuleWhole(m)
  BY <1>9, <1>10 DEF Drv!ModuleWhole
<1> QED
  BY <1>1, <1>11

(* The manager's drivers: one is activated only when its device is there,  *)
(* and all of those are when the machine runs; and what the display and    *)
(* the mixer are on.                                                       *)
Kinds == {f.kind : f \in DriverFiles} \cup {"mouse", "keyboard"}
ManagerInd ==
  /\ drivers \in Seq(Kinds) /\ activated \in Seq({0, 1}) /\ Len(activated) = Len(drivers)
  /\ \A i \in 1..Len(drivers) : activated[i] = 1 => Drv!HasDevice(drivers[i])
  /\ display \in 0..Len(drivers) /\ mixer \in 0..Len(drivers)
  /\ display # 0 => drivers[display] = "display" /\ activated[display] = 1
  /\ mixer # 0 => drivers[mixer] = "audio" /\ activated[mixer] = 1 /\ handler = mixer
DriversInd ==
  /\ bgaFile \in DriverFiles /\ audioFile \in DriverFiles
  /\ stage \in {"display", "audio", "input", "activate", "running"}
  /\ MemoryInd /\ ManagerInd
  /\ stage = "display" => display = 0
  /\ stage \in {"display", "audio"} => mixer = 0
  /\ stage = "running" => \A i \in 1..Len(drivers) : Drv!HasDevice(drivers[i]) => activated[i] = 1

(* In the beginning nothing is loaded.                                     *)
LEMMA DriversInit == ASSUME Drv!Init PROVE DriversInd
<1>1. bgaFile \in DriverFiles /\ audioFile \in DriverFiles /\ stage = "display"
  BY DEF Drv!Init
<1>2. memory = <<>> /\ heapEnd = HeapStart /\ modules = <<>> /\ drivers = <<>> /\ activated = <<>>
  BY DEF Drv!Init
<1>3. display = 0 /\ mixer = 0
  BY DEF Drv!Init
<1>4. MemoryInd
  <2>1. HeapStart \in Nat
    BY StartupAssumption DEF DriversUsable
  <2>2. memory \in MemoryType
    <3>1. {} \in SUBSET Int /\ <<>> \in [{} -> Int]
      OBVIOUS
    <3> QED
      BY <1>2, <3>1 DEF MemoryType
  <2>3. modules \in Seq(Modules) /\ DOMAIN modules = {}
    BY <1>2
  <2> QED
    BY <1>2, <2>1, <2>2, <2>3 DEF MemoryInd
<1>5. ManagerInd
  <2>1. drivers \in Seq(Kinds) /\ activated \in Seq({0, 1}) /\ Len(activated) = 0 /\ Len(drivers) = 0
    BY <1>2
  <2>2. \A i \in 1..0 : FALSE
    OBVIOUS
  <2> QED
    BY <1>3, <2>1, <2>2 DEF ManagerInd
<1> QED
  BY <1>1, <1>3, <1>4, <1>5 DEF DriversInd

(* The devices on the bus stay where they are.                             *)
LEMMA DevicesStay ==
  ASSUME bus' = bus, NEW k
  PROVE  Drv!HasDevice(k)' <=> Drv!HasDevice(k)
<1>1. \A id : Drv!FindHardwareDevice(id)' = Drv!FindHardwareDevice(id)
  BY DEF Drv!FindHardwareDevice, Drv!Found, Drv!FunctionsOf
<1>2. Drv!FindDisplay' = Drv!FindDisplay
  <2> DEFINE there == {i \in DOMAIN Drv!Bga : Drv!FindHardwareDevice(Drv!Bga[i]) # Drv!Nothing}
             F(T) == IF T = {} THEN Drv!Nothing ELSE Drv!Bga[CHOOSE i \in T : \A j \in T : i <= j]
  <2>1. there' = there
    BY <1>1 DEF Drv!Bga, Drv!Nothing
  <2>2. Drv!FindDisplay = F(there)
    BY DEF Drv!FindDisplay
  <2>3. Drv!FindDisplay' = F(there')
    BY DEF Drv!FindDisplay, Drv!Bga, Drv!Nothing
  <2>4. PICK T : T = there
    OBVIOUS
  <2>5. there' = T
    BY <2>1, <2>4
  <2> HIDE DEF there
  <2>6. F(there') = F(T) /\ F(there) = F(T)
    BY <2>4, <2>5
  <2> QED
    BY <2>2, <2>3, <2>6
<1> QED
  BY <1>1, <1>2 DEF Drv!HasDevice

(* One driver more in the manager.                                         *)
LEMMA InstanceAddedIs ==
  ASSUME ManagerInd, NEW k \in Kinds, NEW a \in {0, 1}, drivers' = Append(drivers, k),
         activated' = Append(activated, a)
  PROVE  /\ drivers' \in Seq(Kinds) /\ activated' \in Seq({0, 1})
         /\ Len(drivers) \in Nat /\ Len(drivers') = Len(drivers) + 1 /\ Len(activated') = Len(drivers')
         /\ \A i \in 1..Len(drivers) : drivers'[i] = drivers[i] /\ activated'[i] = activated[i]
         /\ drivers'[Len(drivers')] = k /\ activated'[Len(drivers')] = a
         /\ drivers' # drivers
<1>1. PICK n \in Nat : n = Len(drivers)
  BY DEF ManagerInd
<1>2. ASSUME NEW S, NEW s \in Seq(S), NEW x \in S, Len(s) = n, NEW t, t = Append(s, x)
      PROVE  /\ t \in Seq(S) /\ Len(t) = n + 1
             /\ \A i \in 1..n : t[i] = s[i]
             /\ t[n + 1] = x
  BY <1>2
<1>3. drivers \in Seq(Kinds) /\ activated \in Seq({0, 1}) /\ Len(activated) = n
  BY <1>1 DEF ManagerInd
<1>4. /\ drivers' \in Seq(Kinds) /\ Len(drivers') = n + 1
      /\ \A i \in 1..n : drivers'[i] = drivers[i]
      /\ drivers'[n + 1] = k
  <2>1. PICK K : K = Kinds
    OBVIOUS
  <2>5. PICK c : c = drivers'
    OBVIOUS
  <2>2. PICK b \in Seq(K), x \in K : b = drivers /\ x = k
    BY <1>3, <2>1
  <2>3. Len(b) = n /\ c = Append(b, x)
    BY <1>1, <2>2, <2>5
  <2>4. /\ c \in Seq(K) /\ Len(c) = n + 1
        /\ \A i \in 1..n : c[i] = b[i]
        /\ c[n + 1] = x
    BY <1>2, <2>3
  <2> QED
    BY <2>1, <2>2, <2>4, <2>5
<1>5. /\ activated' \in Seq({0, 1}) /\ Len(activated') = n + 1
      /\ \A i \in 1..n : activated'[i] = activated[i]
      /\ activated'[n + 1] = a
  BY <1>2, <1>3
<1>6. drivers' # drivers
  <2>1. n + 1 # n
    OBVIOUS
  <2> QED
    BY <1>1, <1>4, <2>1
<1> QED
  BY <1>1, <1>4, <1>5, <1>6

(* An instance in the manager is activated when its device is there.       *)
LEMMA InstallKeeps ==
  ASSUME MemoryInd, ManagerInd, bus' = bus, NEW f \in DriverFiles, Drv!Install(f)
  PROVE  /\ MemoryInd'
         /\ UNCHANGED Drv!manager
            \/ /\ drivers' = Append(drivers, f.kind)
               /\ activated' = Append(activated, IF Drv!HasDevice(f.kind) THEN 1 ELSE 0)
               /\ handler' = IF f.kind = "audio" /\ Drv!HasDevice(f.kind) THEN Len(drivers) + 1 ELSE handler
<1>1. MemoryInd'
  BY LoadDriverKeeps DEF Drv!Install
<1> QED
  BY <1>1 DEF Drv!Install

(* What was there before is as it was, with one driver more.               *)
LEMMA OneMoreKeeps ==
  ASSUME ManagerInd, bus' = bus, NEW k \in Kinds,
         drivers' = Append(drivers, k),
         activated' = Append(activated, IF Drv!HasDevice(k) THEN 1 ELSE 0)
  PROVE  /\ drivers' \in Seq(Kinds) /\ activated' \in Seq({0, 1}) /\ Len(activated') = Len(drivers')
         /\ Len(drivers) \in Nat /\ Len(drivers') = Len(drivers) + 1
         /\ \A i \in 1..Len(drivers) : drivers'[i] = drivers[i] /\ activated'[i] = activated[i]
         /\ drivers'[Len(drivers')] = k
         /\ Drv!HasDevice(k) => activated'[Len(drivers')] = 1
         /\ drivers' # drivers
         /\ \A i \in 1..Len(drivers') : activated'[i] = 1 => Drv!HasDevice(drivers[i])'
<1>1. PICK a \in {0, 1} : a = IF Drv!HasDevice(k) THEN 1 ELSE 0
  OBVIOUS
<1>2. activated' = Append(activated, a)
  BY <1>1
<1>3. /\ drivers' \in Seq(Kinds) /\ activated' \in Seq({0, 1})
      /\ Len(drivers) \in Nat /\ Len(drivers') = Len(drivers) + 1 /\ Len(activated') = Len(drivers')
      /\ \A i \in 1..Len(drivers) : drivers'[i] = drivers[i] /\ activated'[i] = activated[i]
      /\ drivers'[Len(drivers')] = k /\ activated'[Len(drivers')] = a
      /\ drivers' # drivers
  BY <1>2, InstanceAddedIs
<1>4. \A i \in 1..Len(drivers') : i \in 1..Len(drivers) \/ i = Len(drivers')
  BY <1>3
<1>5. ASSUME NEW i \in 1..Len(drivers'), activated'[i] = 1
      PROVE  Drv!HasDevice(drivers[i])'
  <2>1. PICK x : x = drivers'[i]
    OBVIOUS
  <2>2. Drv!HasDevice(x)
    <3>1. CASE i \in 1..Len(drivers)
      BY <1>3, <1>5, <2>1, <3>1 DEF ManagerInd
    <3>2. CASE i = Len(drivers')
      <4>1. a = 1
        BY <1>3, <1>5, <3>2
      <4>2. Drv!HasDevice(k)
        <5>1. ~Drv!HasDevice(k) => a = 0
          BY <1>1
        <5>2. a # 0
          BY <4>1
        <5> QED
          BY <5>1, <5>2
      <4> QED
        BY <1>3, <2>1, <3>2, <4>2
    <3> QED
      BY <1>4, <3>1, <3>2
  <2>3. Drv!HasDevice(x)'
    BY <2>2, DevicesStay
  <2> QED
    BY <2>1, <2>3
<1> QED
  BY <1>1, <1>3, <1>5

(* A driver that draws is put in place.                                    *)
LEMMA LoadDisplayKeeps == ASSUME DriversInd, Drv!LoadDisplay PROVE DriversInd'
<1>1. /\ stage = "display" /\ stage' = "audio"
      /\ bus' = bus /\ bgaFile' = bgaFile /\ audioFile' = audioFile
  BY DEF Drv!LoadDisplay
<1>2. /\ bgaFile \in DriverFiles /\ audioFile \in DriverFiles
      /\ MemoryInd /\ ManagerInd /\ display = 0 /\ mixer = 0
  BY <1>1 DEF DriversInd
<1>3. mixer' = mixer
  BY DEF Drv!LoadDisplay, Drv!manager
<1>4. CASE UNCHANGED <<Drv!place, Drv!manager>>
  <2>1. MemoryInd'
    BY <1>2, <1>4 DEF MemoryInd, Drv!place
  <2>2. ManagerInd'
    <3>1. \A k : Drv!HasDevice(k)' <=> Drv!HasDevice(k)
      BY <1>1, DevicesStay
    <3>2. drivers' = drivers /\ activated' = activated /\ display' = 0 /\ mixer' = 0
      BY <1>2, <1>4 DEF Drv!manager
    <3>3. \A i \in 1..Len(drivers') : activated'[i] = 1 => Drv!HasDevice(drivers[i])'
      BY <1>2, <3>1, <3>2 DEF ManagerInd
    <3> QED
      BY <1>2, <3>2, <3>3 DEF ManagerInd
  <2>3. mixer' = 0
    BY <1>2, <1>3
  <2> QED
    BY <1>1, <1>2, <2>1, <2>2, <2>3 DEF DriversInd
<1>5. CASE /\ Drv!FindDisplay # Drv!Nothing /\ Drv!Install(bgaFile)
           /\ display' = IF drivers' # drivers /\ bgaFile.kind = "display" THEN Len(drivers') ELSE display
  <2>1. PICK k \in Kinds : k = bgaFile.kind
    BY <1>2 DEF Kinds
  <2>2. /\ MemoryInd'
        /\ UNCHANGED Drv!manager
           \/ /\ drivers' = Append(drivers, k)
              /\ activated' = Append(activated, IF Drv!HasDevice(k) THEN 1 ELSE 0)
    <3>1. PICK f \in DriverFiles : f = bgaFile
      BY <1>2
    <3> QED
      BY <1>1, <1>2, <1>5, <2>1, <3>1, InstallKeeps
  <2>3. CASE UNCHANGED Drv!manager
    <3>1. \A x : Drv!HasDevice(x)' <=> Drv!HasDevice(x)
      BY <1>1, DevicesStay
    <3>2. drivers' = drivers /\ activated' = activated /\ display' = 0 /\ mixer' = 0
      BY <1>2, <1>3, <2>3 DEF Drv!manager
    <3>3. \A i \in 1..Len(drivers') : activated'[i] = 1 => Drv!HasDevice(drivers[i])'
      BY <1>2, <3>1, <3>2 DEF ManagerInd
    <3>4. ManagerInd'
      BY <1>2, <3>2, <3>3 DEF ManagerInd
    <3> QED
      BY <1>1, <1>2, <2>2, <3>2, <3>4 DEF DriversInd
  <2>4. CASE /\ drivers' = Append(drivers, k)
             /\ activated' = Append(activated, IF Drv!HasDevice(k) THEN 1 ELSE 0)
    <3>1. /\ drivers' \in Seq(Kinds) /\ activated' \in Seq({0, 1}) /\ Len(activated') = Len(drivers')
          /\ Len(drivers) \in Nat /\ Len(drivers') = Len(drivers) + 1
          /\ drivers'[Len(drivers')] = k
          /\ Drv!HasDevice(k) => activated'[Len(drivers')] = 1
          /\ drivers' # drivers
          /\ \A i \in 1..Len(drivers') : activated'[i] = 1 => Drv!HasDevice(drivers[i])'
      BY <1>1, <1>2, <2>4, OneMoreKeeps
    <3>2. k = "display" => Drv!HasDevice(k)
      BY <1>5 DEF Drv!HasDevice
    <3>3. display' = IF k = "display" THEN Len(drivers') ELSE 0
      BY <1>2, <1>5, <2>1, <3>1
    <3>4. /\ display' \in 0..Len(drivers')
          /\ display' # 0 => drivers'[display'] = "display" /\ activated'[display'] = 1
      BY <3>1, <3>2, <3>3
    <3>5. mixer' = 0 /\ mixer' \in 0..Len(drivers')
      BY <1>2, <1>3, <3>1
    <3>6. ManagerInd'
      BY <3>1, <3>4, <3>5 DEF ManagerInd
    <3> QED
      BY <1>1, <1>2, <2>2, <3>5, <3>6 DEF DriversInd
  <2> QED
    BY <2>2, <2>3, <2>4
<1> QED
  BY <1>4, <1>5 DEF Drv!LoadDisplay

(* A driver of sound gets a mixer.                                         *)
LEMMA LoadAudioKeeps == ASSUME DriversInd, Drv!LoadAudio PROVE DriversInd'
<1>1. /\ stage = "audio" /\ stage' = "input"
      /\ bus' = bus /\ bgaFile' = bgaFile /\ audioFile' = audioFile
  BY DEF Drv!LoadAudio
<1>2. /\ bgaFile \in DriverFiles /\ audioFile \in DriverFiles
      /\ MemoryInd /\ ManagerInd /\ mixer = 0
  BY <1>1 DEF DriversInd
<1>3. display' = display
  BY DEF Drv!LoadAudio, Drv!manager
<1>4. ASSUME UNCHANGED <<drivers, activated, mixer>>
      PROVE  ManagerInd'
    <3>1. \A k : Drv!HasDevice(k)' <=> Drv!HasDevice(k)
      BY <1>1, DevicesStay
    <3>2. drivers' = drivers /\ activated' = activated /\ display' = display /\ mixer' = 0
      BY <1>2, <1>3, <1>4
    <3>3. \A i \in 1..Len(drivers') : activated'[i] = 1 => Drv!HasDevice(drivers[i])'
      BY <1>2, <3>1, <3>2 DEF ManagerInd
    <3>4. mixer' \in 0..Len(drivers')
      BY <1>2, <3>2 DEF ManagerInd
    <3> QED
      BY <1>2, <3>2, <3>3, <3>4 DEF ManagerInd
<1>5. CASE UNCHANGED <<Drv!place, Drv!manager>>
  <2>1. MemoryInd'
    BY <1>2, <1>5 DEF MemoryInd, Drv!place
  <2>2. ManagerInd'
    BY <1>4, <1>5 DEF Drv!manager
  <2> QED
    BY <1>1, <1>2, <2>1, <2>2 DEF DriversInd
<1>6. CASE /\ Drv!FindHardwareDevice(Drv!Audio) # Drv!Nothing /\ Drv!Install(audioFile)
           /\ mixer' = IF drivers' # drivers /\ audioFile.kind = "audio" THEN Len(drivers') ELSE mixer
  <2>1. PICK k \in Kinds : k = audioFile.kind
    BY <1>2 DEF Kinds
  <2>2. /\ MemoryInd'
        /\ UNCHANGED Drv!manager
           \/ /\ drivers' = Append(drivers, k)
              /\ activated' = Append(activated, IF Drv!HasDevice(k) THEN 1 ELSE 0)
              /\ handler' = IF k = "audio" /\ Drv!HasDevice(k) THEN Len(drivers) + 1 ELSE handler
    <3>1. PICK f \in DriverFiles : f = audioFile
      BY <1>2
    <3> QED
      BY <1>1, <1>2, <1>6, <2>1, <3>1, InstallKeeps
  <2>3. CASE UNCHANGED Drv!manager
    <3>1. ManagerInd'
      BY <1>4, <2>3 DEF Drv!manager
    <3> QED
      BY <1>1, <1>2, <2>2, <3>1 DEF DriversInd
  <2>4. CASE /\ drivers' = Append(drivers, k)
             /\ activated' = Append(activated, IF Drv!HasDevice(k) THEN 1 ELSE 0)
             /\ handler' = IF k = "audio" /\ Drv!HasDevice(k) THEN Len(drivers) + 1 ELSE handler
    <3>1. /\ drivers' \in Seq(Kinds) /\ activated' \in Seq({0, 1}) /\ Len(activated') = Len(drivers')
          /\ Len(drivers) \in Nat /\ Len(drivers') = Len(drivers) + 1
          /\ \A i \in 1..Len(drivers) : drivers'[i] = drivers[i] /\ activated'[i] = activated[i]
          /\ drivers'[Len(drivers')] = k
          /\ Drv!HasDevice(k) => activated'[Len(drivers')] = 1
          /\ drivers' # drivers
          /\ \A i \in 1..Len(drivers') : activated'[i] = 1 => Drv!HasDevice(drivers[i])'
      BY <1>1, <1>2, <2>4, OneMoreKeeps
    <3>2. k = "audio" => Drv!HasDevice(k)
      BY <1>6 DEF Drv!HasDevice
    <3>3. mixer' = IF k = "audio" THEN Len(drivers') ELSE 0
      BY <1>2, <1>6, <2>1, <3>1
    <3>4. k = "audio" => handler' = Len(drivers')
      BY <2>4, <3>1, <3>2
    <3>5. /\ mixer' \in 0..Len(drivers')
          /\ mixer' # 0 => drivers'[mixer'] = "audio" /\ activated'[mixer'] = 1 /\ handler' = mixer'
      BY <3>1, <3>2, <3>3, <3>4
    <3>6. /\ display' \in 0..Len(drivers')
          /\ display' # 0 => drivers'[display'] = "display" /\ activated'[display'] = 1
      <4>1. display \in 0..Len(drivers) /\ (display # 0 => drivers[display] = "display" /\ activated[display] = 1)
        BY <1>2 DEF ManagerInd
      <4>2. display # 0 => display \in 1..Len(drivers)
        BY <3>1, <4>1
      <4> QED
        BY <1>3, <3>1, <4>1, <4>2
    <3>7. ManagerInd'
      BY <3>1, <3>5, <3>6 DEF ManagerInd
    <3> QED
      BY <1>1, <1>2, <2>2, <3>7 DEF DriversInd
  <2> QED
    BY <2>2, <2>3, <2>4
<1> QED
  BY <1>5, <1>6 DEF Drv!LoadAudio

(* The mouse and the keyboard are added.                                   *)
LEMMA AddInputKeeps == ASSUME DriversInd, Drv!AddInput PROVE DriversInd'
<1>1. /\ stage = "input" /\ stage' = "activate"
      /\ drivers' = drivers \o <<"mouse", "keyboard">> /\ activated' = activated \o <<0, 0>>
      /\ UNCHANGED <<bus, bgaFile, audioFile, display, mixer, handler>>
  BY DEF Drv!AddInput
<1>2. UNCHANGED <<memory, heapEnd, modules>>
  BY DEF Drv!AddInput, Drv!place
<1>3. PICK n \in Nat : n = Len(drivers)
  BY DEF DriversInd, ManagerInd
<1>4. drivers \in Seq(Kinds) /\ activated \in Seq({0, 1}) /\ Len(activated) = n
  BY <1>3 DEF DriversInd, ManagerInd
<1>5. /\ drivers' \in Seq(Kinds) /\ Len(drivers') = n + 2
      /\ \A i \in 1..n : drivers'[i] = drivers[i]
  <2>1. PICK K : K = Kinds
    OBVIOUS
  <2>2. PICK b \in Seq(K), x \in K, y \in K : b = drivers /\ x = "mouse" /\ y = "keyboard"
    <3>1. drivers \in Seq(K)
      BY <1>4, <2>1
    <3>2. "mouse" \in K /\ "keyboard" \in K
      BY <2>1 DEF Kinds
    <3> QED
      BY <3>1, <3>2
  <2>3. PICK c : c = b \o <<x, y>>
    OBVIOUS
  <2>4. Len(b) = n /\ <<x, y>> \in Seq(K) /\ Len(<<x, y>>) = 2
    BY <1>3, <2>2
  <2>5. c \in Seq(K)
    BY <2>3, <2>4
  <2>6. Len(c) = n + 2
    BY <2>3, <2>4
  <2>7. \A i \in 1..n : c[i] = b[i]
    BY <2>3, <2>4
  <2>8. c = drivers'
    BY <1>1, <2>2, <2>3
  <2> QED
    BY <2>1, <2>2, <2>5, <2>6, <2>7, <2>8
<1>6. /\ activated' \in Seq({0, 1}) /\ Len(activated') = n + 2
      /\ \A i \in 1..n : activated'[i] = activated[i]
      /\ activated'[n + 1] = 0 /\ activated'[n + 2] = 0
  BY <1>1, <1>4
<1>7. \A i \in 1..(n + 2) : i \in 1..n \/ i = n + 1 \/ i = n + 2
  OBVIOUS
<1>8. \A i \in 1..(n + 2) : activated'[i] = 1 => Drv!HasDevice(drivers[i])'
  <2> SUFFICES ASSUME NEW i \in 1..(n + 2), activated'[i] = 1
               PROVE  Drv!HasDevice(drivers[i])'
    OBVIOUS
  <2>1. i \in 1..n
    BY <1>6, <1>7
  <2>2. PICK x : x = drivers[i]
    OBVIOUS
  <2>3. x = drivers'[i]
    BY <1>5, <2>1, <2>2
  <2>4. Drv!HasDevice(x)
    BY <1>3, <1>6, <2>1, <2>2 DEF DriversInd, ManagerInd
  <2>5. Drv!HasDevice(x)'
    BY <1>1, <2>4, DevicesStay
  <2> QED
    BY <2>3, <2>5
<1>9. /\ display' \in 0..(n + 2) /\ mixer' \in 0..(n + 2)
      /\ display' # 0 => drivers'[display'] = "display" /\ activated'[display'] = 1
      /\ mixer' # 0 => drivers'[mixer'] = "audio" /\ activated'[mixer'] = 1 /\ handler' = mixer'
  <2>1. /\ display \in 0..n /\ mixer \in 0..n
        /\ display # 0 => drivers[display] = "display" /\ activated[display] = 1
        /\ mixer # 0 => drivers[mixer] = "audio" /\ activated[mixer] = 1 /\ handler = mixer
    BY <1>3 DEF DriversInd, ManagerInd
  <2>2. (display # 0 => display \in 1..n) /\ (mixer # 0 => mixer \in 1..n)
    BY <2>1
  <2>3. display \in 0..(n + 2) /\ mixer \in 0..(n + 2)
    BY <2>1
  <2> QED
    BY <1>1, <1>5, <1>6, <2>1, <2>2, <2>3
<1>10. ManagerInd'
  BY <1>5, <1>6, <1>8, <1>9 DEF ManagerInd
<1>11. MemoryInd'
  BY <1>2 DEF DriversInd, MemoryInd
<1> QED
  BY <1>1, <1>10, <1>11 DEF DriversInd

(* Every driver whose device is there is activated that was not before.    *)
LEMMA ActivateAllKeeps == ASSUME DriversInd, Drv!ActivateAll PROVE DriversInd'
<1>1. /\ stage' = "running"
      /\ activated' = [i \in DOMAIN drivers |->
            IF i \in Drv!ToActivate /\ Drv!HasDevice(drivers[i]) THEN activated[i] + 1 ELSE activated[i]]
      /\ UNCHANGED <<bus, bgaFile, audioFile, drivers, display, mixer, handler>>
  BY DEF Drv!ActivateAll
<1>2. UNCHANGED <<memory, heapEnd, modules>>
  BY DEF Drv!ActivateAll, Drv!place
<1>3. PICK n \in Nat : n = Len(drivers)
  BY DEF DriversInd, ManagerInd
<1>4. /\ drivers \in Seq(Kinds) /\ DOMAIN drivers = 1..n
      /\ activated \in Seq({0, 1}) /\ Len(activated) = n
  BY <1>3 DEF DriversInd, ManagerInd
<1>5. ASSUME NEW i \in 1..n
      PROVE  /\ activated'[i] \in {0, 1}
             /\ activated[i] = 1 => activated'[i] = 1
             /\ activated'[i] = 1 => Drv!HasDevice(drivers[i])
             /\ Drv!HasDevice(drivers[i]) => activated'[i] = 1
  <2>1. PICK a \in {0, 1} : a = activated[i]
    BY <1>4
  <2>2. PICK h \in BOOLEAN : h <=> Drv!HasDevice(drivers[i])
    OBVIOUS
  <2>3. i \in Drv!ToActivate <=> a = 0
    BY <1>4, <2>1 DEF Drv!ToActivate
  <2>4. activated'[i] = IF a = 0 /\ h THEN a + 1 ELSE a
    BY <1>1, <1>4, <2>1, <2>2, <2>3
  <2>5. a = 1 => h
    BY <1>3, <2>1, <2>2 DEF DriversInd, ManagerInd
  <2>6. /\ activated'[i] \in {0, 1}
        /\ a = 1 => activated'[i] = 1
        /\ activated'[i] = 1 => h
        /\ h => activated'[i] = 1
    BY <2>4, <2>5
  <2> QED
    BY <2>1, <2>2, <2>6
<1>6. activated' \in Seq({0, 1}) /\ Len(activated') = n
  <2>1. activated' = [i \in 1..n |-> activated'[i]]
    BY <1>1, <1>4
  <2>2. activated' \in [1..n -> {0, 1}]
    BY <1>5, <2>1
  <2> QED
    BY <2>2
<1>7. \A k : Drv!HasDevice(k)' <=> Drv!HasDevice(k)
  BY <1>1, DevicesStay
<1>8. drivers' = drivers /\ Len(drivers') = n
  BY <1>1, <1>3
<1>9. \A i \in 1..n : /\ activated'[i] = 1 => Drv!HasDevice(drivers[i])'
                      /\ Drv!HasDevice(drivers[i])' => activated'[i] = 1
  <2> SUFFICES ASSUME NEW i \in 1..n
               PROVE  activated'[i] = 1 <=> Drv!HasDevice(drivers[i])'
    OBVIOUS
  <2>1. PICK x : x = drivers[i] /\ x = drivers'[i]
    BY <1>8
  <2>2. activated'[i] = 1 <=> Drv!HasDevice(x)
    BY <1>5, <2>1
  <2>3. activated'[i] = 1 <=> Drv!HasDevice(x)'
    BY <1>7, <2>2
  <2> QED
    BY <2>1, <2>3
<1>10. /\ display' \in 0..n /\ mixer' \in 0..n
       /\ display' # 0 => drivers'[display'] = "display" /\ activated'[display'] = 1
       /\ mixer' # 0 => drivers'[mixer'] = "audio" /\ activated'[mixer'] = 1 /\ handler' = mixer'
  <2>1. /\ display \in 0..n /\ mixer \in 0..n
        /\ display # 0 => drivers[display] = "display" /\ activated[display] = 1
        /\ mixer # 0 => drivers[mixer] = "audio" /\ activated[mixer] = 1 /\ handler = mixer
    BY <1>3 DEF DriversInd, ManagerInd
  <2>2. (display # 0 => display \in 1..n) /\ (mixer # 0 => mixer \in 1..n)
    BY <2>1
  <2> QED
    BY <1>1, <1>5, <2>1, <2>2
<1>11. ManagerInd'
  BY <1>4, <1>6, <1>8, <1>9, <1>10 DEF ManagerInd
<1>12. MemoryInd'
  BY <1>2 DEF DriversInd, MemoryInd
<1> QED
  BY <1>1, <1>8, <1>9, <1>11, <1>12 DEF DriversInd

(* Every step, and none, keeps the invariant.                              *)
LEMMA DriversStep == ASSUME DriversInd, [Drv!Next]_(Drv!vars) PROVE DriversInd'
<1>1. CASE UNCHANGED Drv!vars
  <2>1. UNCHANGED <<bus, bgaFile, audioFile, stage, memory, heapEnd, modules>>
    BY <1>1 DEF Drv!vars, Drv!place
  <2>2. UNCHANGED <<drivers, activated, display, mixer, handler>>
    BY <1>1 DEF Drv!vars, Drv!manager
  <2>3. MemoryInd'
    BY <2>1 DEF DriversInd, MemoryInd
  <2>4. \A i : Drv!HasDevice(drivers[i])' <=> Drv!HasDevice(drivers[i])
    <3> SUFFICES ASSUME NEW i PROVE Drv!HasDevice(drivers[i])' <=> Drv!HasDevice(drivers[i])
      OBVIOUS
    <3>1. PICK x : x = drivers[i] /\ x = drivers'[i]
      BY <2>2
    <3>2. Drv!HasDevice(x)' <=> Drv!HasDevice(x)
      BY <2>1, DevicesStay
    <3> QED
      BY <3>1, <3>2
  <2>5. ManagerInd'
    BY <2>2, <2>4 DEF DriversInd, ManagerInd
  <2> QED
    BY <2>1, <2>2, <2>3, <2>4, <2>5 DEF DriversInd
<1>2. CASE Drv!Next
  BY <1>2, LoadDisplayKeeps, LoadAudioKeeps, AddInputKeeps, ActivateAllKeeps DEF Drv!Next
<1> QED
  BY <1>1, <1>2

(* Then the drivers are ready when the machine runs.                       *)
LEMMA DriversMeans == ASSUME DriversInd PROVE Drv!DriversReady
<1>1. Drv!ModulesWhole
  BY MemoryMeans DEF DriversInd
<1>2. ASSUME stage = "running", NEW i \in DOMAIN drivers
      PROVE  activated[i] = IF Drv!HasDevice(drivers[i]) THEN 1 ELSE 0
  <2>1. i \in 1..Len(drivers) /\ activated[i] \in {0, 1}
    <3>1. drivers \in Seq(Kinds) /\ activated \in Seq({0, 1}) /\ Len(activated) = Len(drivers)
      BY DEF DriversInd, ManagerInd
    <3>2. i \in 1..Len(drivers)
      BY <3>1
    <3> QED
      BY <3>1, <3>2
  <2>2. activated[i] = 1 <=> Drv!HasDevice(drivers[i])
    BY <1>2, <2>1 DEF DriversInd, ManagerInd
  <2> QED
    BY <2>1, <2>2
<1>3. /\ display # 0 => drivers[display] = "display" /\ activated[display] = 1
      /\ mixer # 0 => drivers[mixer] = "audio" /\ activated[mixer] = 1 /\ handler = mixer
  BY DEF DriversInd, ManagerInd
<1> QED
  BY <1>1, <1>2, <1>3 DEF Drv!DriversReady

(* Whatever devices are on the bus and whatever drivers are in the files,  *)
(* each module is linked as its file says, wherever kmalloc() puts it, and *)
(* the drivers of the devices that are there are active, once, and in      *)
(* their place (init_pci(), LoadDriver(), ActivateAll()).                  *)
THEOREM DriversAlwaysReady == Drv!Spec => []Drv!DriversReady
<1>1. Drv!Init => DriversInd
  BY DriversInit
<1>2. DriversInd /\ [Drv!Next]_(Drv!vars) => DriversInd'
  BY DriversStep
<1>3. DriversInd => Drv!DriversReady
  BY DriversMeans
<1> QED
  BY <1>1, <1>2, <1>3, PTL DEF Drv!Spec

-----------------------------------------------------------------------------
(* The report of a fault                                                   *)

(* The lines of a map that are taken as symbols; and s holds those of the  *)
(* first n lines, in their order.                                          *)
Taken == {"symbol", "wrapped section"}
TakenIn(m, n, s) ==
  /\ s \in Seq(MapLines)
  /\ \E pos \in [1..Len(s) -> 1..n] :
       /\ \A k \in 1..Len(s) : s[k] = m[pos[k]] /\ s[k].kind \in Taken
       /\ \A k, l \in 1..Len(s) : k < l => pos[k] < pos[l]
       /\ \A i \in 1..n : m[i].kind \in Taken => \E k \in 1..Len(s) : pos[k] = i

(* One line more that is taken, or is not.                                 *)
LEMMA TakenMore ==
  ASSUME NEW m \in Seq(MapLines), NEW i \in 1..Len(m), NEW s, TakenIn(m, i - 1, s), m[i].kind \in Taken
  PROVE  TakenIn(m, i, Append(s, m[i]))
<1>1. i \in Nat /\ m[i] \in MapLines
  OBVIOUS
<1>2. PICK n \in Nat : n = Len(s) /\ s \in Seq(MapLines)
  BY DEF TakenIn
<1>3. PICK pos \in [1..n -> 1..(i - 1)] :
        /\ \A k \in 1..n : s[k] = m[pos[k]] /\ s[k].kind \in Taken
        /\ \A k, l \in 1..n : k < l => pos[k] < pos[l]
        /\ \A j \in 1..(i - 1) : m[j].kind \in Taken => \E k \in 1..n : pos[k] = j
  BY <1>2 DEF TakenIn
<1>4. PICK t \in Seq(MapLines) : t = Append(s, m[i])
  <2>1. PICK x \in MapLines : x = m[i]
    BY <1>1
  <2>2. Append(s, x) \in Seq(MapLines)
    BY <1>2
  <2> QED
    BY <2>1, <2>2
<1>5. PICK l \in Nat : l = Len(t)
  BY <1>4
<1>16. l = n + 1
  BY <1>1, <1>2, <1>4, <1>5
<1>15. t[l] = m[i] /\ \A k \in 1..n : t[k] = s[k]
  BY <1>1, <1>2, <1>4, <1>5, <1>16
<1> DEFINE npos == [k \in 1..l |-> IF k = l THEN i ELSE pos[k]]
<1>6. \A k \in 1..l : k = l \/ k \in 1..n
  BY <1>16
<1>7. \A k \in 1..n : pos[k] \in 1..(i - 1) /\ pos[k] \in 1..i /\ pos[k] < i
  <2>1. \A k \in 1..n : pos[k] \in 1..(i - 1)
    OBVIOUS
  <2> QED
    BY <1>1, <2>1
<1>8. \A k \in 1..n : npos[k] = pos[k] /\ k \in 1..l
  BY <1>16
<1>9. npos[l] = i /\ l \in 1..l /\ i \in 1..i
  BY <1>16
<1>10. npos \in [1..l -> 1..i]
  <2>1. \A k \in 1..l : npos[k] \in 1..i
    BY <1>6, <1>7, <1>8, <1>9
  <2> QED
    BY <2>1
<1> HIDE DEF npos
<1>11. \A k \in 1..l : t[k] = m[npos[k]] /\ t[k].kind \in Taken
  BY <1>3, <1>6, <1>15, <1>8, <1>9
<1>12. \A k, q \in 1..l : k < q => npos[k] < npos[q]
  <2> SUFFICES ASSUME NEW k \in 1..l, NEW q \in 1..l, k < q
               PROVE  npos[k] < npos[q]
    OBVIOUS
  <2>1. k \in 1..n
    BY <1>16
  <2>2. CASE q = l
    BY <1>7, <1>8, <1>9, <2>1, <2>2
  <2>3. CASE q \in 1..n
    BY <1>3, <1>8, <2>1, <2>3
  <2> QED
    BY <1>6, <2>2, <2>3
<1>13. \A j \in 1..i : m[j].kind \in Taken => \E k \in 1..l : npos[k] = j
  <2>1. \A j \in 1..i : j = i \/ j \in 1..(i - 1)
    BY <1>1
  <2> QED
    BY <1>3, <1>8, <1>9, <2>1
<1>14. TakenIn(m, i, t)
  BY <1>5, <1>10, <1>11, <1>12, <1>13 DEF TakenIn
<1> QED
  BY <1>4, <1>14

(* A line of another kind changes nothing.                                 *)
LEMMA TakenSame ==
  ASSUME NEW m \in Seq(MapLines), NEW i \in 1..Len(m), NEW s, TakenIn(m, i - 1, s), m[i].kind \notin Taken
  PROVE  TakenIn(m, i, s)
<1>1. i \in Nat
  OBVIOUS
<1>2. PICK n \in Nat : n = Len(s) /\ s \in Seq(MapLines)
  BY DEF TakenIn
<1>3. PICK pos \in [1..n -> 1..(i - 1)] :
        /\ \A k \in 1..n : s[k] = m[pos[k]] /\ s[k].kind \in Taken
        /\ \A k, l \in 1..n : k < l => pos[k] < pos[l]
        /\ \A j \in 1..(i - 1) : m[j].kind \in Taken => \E k \in 1..n : pos[k] = j
  BY <1>2 DEF TakenIn
<1>4. pos \in [1..n -> 1..i]
  <2>1. 1..(i - 1) \subseteq 1..i
    BY <1>1
  <2> QED
    BY <2>1
<1>5. \A j \in 1..i : m[j].kind \in Taken => j \in 1..(i - 1)
  <2>1. \A j \in 1..i : j = i \/ j \in 1..(i - 1)
    BY <1>1
  <2> QED
    BY <2>1
<1>6. \E p \in [1..n -> 1..i] :
        /\ \A k \in 1..n : s[k] = m[p[k]] /\ s[k].kind \in Taken
        /\ \A k, l \in 1..n : k < l => p[k] < p[l]
        /\ \A j \in 1..i : m[j].kind \in Taken => \E k \in 1..n : p[k] = j
  BY <1>3, <1>4, <1>5
<1>7. s \in Seq(MapLines)
  BY <1>2
<1> QED
  <2> SUFFICES /\ s \in Seq(MapLines)
               /\ \E p \in [1..Len(s) -> 1..i] :
                    /\ \A k \in 1..Len(s) : s[k] = m[p[k]] /\ s[k].kind \in Taken
                    /\ \A k, l \in 1..Len(s) : k < l => p[k] < p[l]
                    /\ \A j \in 1..i : m[j].kind \in Taken => \E k \in 1..Len(s) : p[k] = j
    BY DEF TakenIn
  <2>1. Len(s) = n
    BY <1>2
  <2> HIDE DEF Taken
  <2>2. PICK p \in [1..n -> 1..i] :
          /\ \A k \in 1..n : s[k] = m[p[k]] /\ s[k].kind \in Taken
          /\ \A k, l \in 1..n : k < l => p[k] < p[l]
          /\ \A j \in 1..i : m[j].kind \in Taken => \E k \in 1..n : p[k] = j
    BY <1>6
  <2>3. p \in [1..Len(s) -> 1..i]
    BY <2>1
  <2>4. \A k \in 1..Len(s) : s[k] = m[p[k]] /\ s[k].kind \in Taken
    BY <2>1, <2>2
  <2>5. \A k, l \in 1..Len(s) : k < l => p[k] < p[l]
    BY <2>1, <2>2
  <2>6. \A j \in 1..i : m[j].kind \in Taken => \E k \in 1..Len(s) : p[k] = j
    BY <2>1, <2>2
  <2> QED
    BY <1>7, <2>3, <2>4, <2>5, <2>6

(* Load() takes every line of a symbol, in their order.                    *)
LEMMA SymbolsAre ==
  ASSUME NEW m \in Seq(MapLines)
  PROVE  TakenIn(m, Len(m), Pan!Symbols(m))
<1> DEFINE R == Seq(MapLines)
           Ext(i, r) == IF m[i].kind \in {"symbol", "wrapped section"} THEN Append(r, m[i]) ELSE r
           join == [x \in (1..Len(m)) \X R |-> Ext(x[1], x[2])]
           Body(h) == [i \in 0..Len(m) |->
                         IF i = 0 THEN <<>>
                         ELSE IF m[i].kind \in {"symbol", "wrapped section"} THEN Append(h[i - 1], m[i])
                         ELSE h[i - 1]]
           a == CHOOSE h : h = Body(h)
<1>1. PICK n \in Nat : n = Len(m)
  OBVIOUS
<1>2. ASSUME NEW i \in 1..n, NEW r \in R
      PROVE  Ext(i, r) \in R
  <2>1. m[i] \in MapLines
    BY <1>1
  <2>2. Append(r, m[i]) \in R
    BY <2>1
  <2> QED
    BY <2>2
<1>3. <<>> \in R
  OBVIOUS
<1>4. \A i \in 1..n, r \in R : join[<<i, r>>] = Ext(i, r)
  BY <1>1
<1> HIDE DEF R, Ext, join
<1>5. StepsIn(n, R, join)
  BY <1>2, <1>4 DEF StepsIn
<1>6. PICK g \in [0..n -> R] : Counts(g, n, <<>>, join)
  BY <1>3, <1>5, CountExists
<1>7. \A i \in 0..n : g[i] = IF i = 0 THEN <<>> ELSE Ext(i, g[i - 1])
  <2> SUFFICES ASSUME NEW i \in 0..n PROVE g[i] = IF i = 0 THEN <<>> ELSE Ext(i, g[i - 1])
    OBVIOUS
  <2>1. CASE i = 0
    BY <1>6, <2>1 DEF Counts
  <2>2. CASE i # 0
    <3>1. i \in 1..n /\ i - 1 \in 0..n
      BY <2>2
    <3>2. g[i - 1] \in R
      BY <3>1
    <3>3. g[i] = join[<<i, g[i - 1]>>]
      BY <1>6, <3>1 DEF Counts
    <3> QED
      BY <1>4, <2>2, <3>1, <3>2, <3>3
  <2> QED
    BY <2>1, <2>2
<1>8. \A h : Body(h) = [i \in 0..n |-> IF i = 0 THEN <<>> ELSE Ext(i, h[i - 1])]
  BY <1>1 DEF Ext
<1> HIDE DEF Body
<1>9. g = Body(g)
  <2>1. g = [i \in 0..n |-> g[i]]
    OBVIOUS
  <2> QED
    BY <1>7, <1>8, <2>1
<1>10. a = Body(a)
  BY <1>9
<1>11. Pan!Symbols(m) = a[n]
  BY <1>1 DEF Pan!Symbols, Body
<1> HIDE DEF a
<1>12. \A i \in 0..n : a[i] = IF i = 0 THEN <<>> ELSE Ext(i, a[i - 1])
  <2>1. \A i \in 0..n : Body(a)[i] = IF i = 0 THEN <<>> ELSE Ext(i, a[i - 1])
    BY <1>8
  <2> QED
    BY <1>10, <2>1
<1> DEFINE Q == {i \in 0..n : TakenIn(m, i, a[i])}
<1>13. 0 \in Q
  <2>1. 0 \in 0..n /\ a[0] = <<>>
    BY <1>12
  <2>2. TakenIn(m, 0, <<>>)
    <3>1. <<>> \in Seq(MapLines) /\ Len(<<>>) = 0
      OBVIOUS
    <3>2. \A k \in 1..0 : FALSE
      OBVIOUS
    <3>3. [k \in 1..0 |-> k] \in [1..0 -> 1..0]
      OBVIOUS
    <3>4. \E pos \in [1..0 -> 1..0] : TRUE
      BY <3>3
    <3> QED
      BY <3>1, <3>2, <3>4 DEF TakenIn
  <2> QED
    BY <2>1, <2>2
<1>14. ASSUME NEW i \in 1..n, i - 1 \in Q
       PROVE  i \in Q
  <2>1. TakenIn(m, i - 1, a[i - 1]) /\ i \in 0..n /\ i # 0 /\ i \in 1..Len(m)
    BY <1>1, <1>14
  <2>2. a[i] = IF m[i].kind \in Taken THEN Append(a[i - 1], m[i]) ELSE a[i - 1]
    BY <1>12, <2>1 DEF Ext, Taken
  <2>3. TakenIn(m, i, a[i])
    BY <2>1, <2>2, TakenMore, TakenSame
  <2> QED
    BY <2>1, <2>3
<1>15. n \in Q
  <2> HIDE DEF Q
  <2>1. \A i \in 0..n : i \in Q
    BY <1>13, <1>14, CountInd
  <2>2. n \in 0..n
    OBVIOUS
  <2> QED
    BY <2>1, <2>2
<1> QED
  BY <1>1, <1>11, <1>15

(* A set of numbers up to n that is not empty has a greatest one.          *)
LEMMA MaxOfRange ==
  ASSUME NEW n \in Nat, NEW K, K \subseteq 1..n, K # {}
  PROVE  \E m \in K : \A i \in K : i <= m
<1> DEFINE J == {n - i : i \in K}
<1>1. J \in SUBSET Nat /\ J # {}
  <2>1. \A i \in K : n - i \in Nat
    OBVIOUS
  <2>2. PICK i : i \in K
    OBVIOUS
  <2>3. n - i \in J
    BY <2>2
  <2> QED
    BY <2>1, <2>3
<1>2. PICK k \in J : \A j \in J : k <= j
  <2> HIDE DEF J
  <2> QED
    BY <1>1, MinOfNats
<1>3. PICK m \in K : k = n - m
  OBVIOUS
<1>4. \A i \in K : n - m <= n - i
  BY <1>2, <1>3
<1>5. m \in 1..n /\ \A i \in K : i \in 1..n
  OBVIOUS
<1>6. \A i \in K : i <= m
  BY <1>4, <1>5
<1> QED
  BY <1>6

(* Line f of the map is a function, the nearest one at or below an address.*)
FunctionAt(m, f, eip) ==
  /\ f \in DOMAIN m /\ m[f].kind = "symbol" /\ m[f].addr <= eip
  /\ \A j \in DOMAIN m : m[j].kind = "symbol" /\ m[j].addr <= eip => m[j].addr <= m[f].addr

(* Lookup() gives the name of that function or none, also when sections    *)
(* were taken for symbols.                                                 *)
LEMMA LookupIs ==
  ASSUME mapFile \in MapFiles, symbolIndex \in {<<>>, Pan!Symbols(mapFile)}, NEW eip \in Int
  PROVE  /\ Pan!Lookup(eip) \in Seq(STRING)
         /\ Pan!Lookup(eip) # Pan!None =>
              \E f \in DOMAIN mapFile : FunctionAt(mapFile, f, eip) /\ mapFile[f].name = Pan!Lookup(eip)[1]
<1> DEFINE below == {i \in DOMAIN symbolIndex : symbolIndex[i].addr <= eip}
           near == {i \in below : \A j \in below : symbolIndex[j].addr <= symbolIndex[i].addr}
           Newest(i) == \A j \in near : j <= i
           best == CHOOSE i \in near : Newest(i)
<1>1. Pan!Lookup(eip) = IF near = {} \/ eip - symbolIndex[best].addr > FarAway THEN Pan!None
                        ELSE <<symbolIndex[best].name>>
  BY DEF Pan!Lookup
<1>2. Pan!None \in Seq(STRING)
  BY DEF Pan!None
<1>3. CASE near = {}
  BY <1>1, <1>2, <1>3
<1>4. CASE near # {}
  <2>1. symbolIndex = Pan!Symbols(mapFile)
    <3>1. symbolIndex = <<>> => DOMAIN symbolIndex = {}
      OBVIOUS
    <3>2. symbolIndex # <<>>
      BY <1>4, <3>1
    <3> QED
      BY <3>2
  <2>2. mapFile \in Seq(MapLines)
    BY StartupAssumption DEF FaultsUsable
  <2>3. TakenIn(mapFile, Len(mapFile), symbolIndex)
    BY <2>1, <2>2, SymbolsAre
  <2>4. PICK n \in Nat : n = Len(symbolIndex) /\ symbolIndex \in Seq(MapLines)
    BY <2>3 DEF TakenIn
  <2>5. PICK l \in Nat : l = Len(mapFile)
    BY <2>2
  <2>15. \A i \in DOMAIN mapFile : mapFile[i].kind = "wrapped section" =>
             \E j \in DOMAIN mapFile : i < j /\ mapFile[j].kind = "symbol" /\ mapFile[j].addr = mapFile[i].addr
    BY StartupAssumption DEF FaultsUsable
  <2>6. PICK pos \in [1..n -> 1..l] :
          /\ \A k \in 1..n : symbolIndex[k] = mapFile[pos[k]] /\ symbolIndex[k].kind \in Taken
          /\ \A k, q \in 1..n : k < q => pos[k] < pos[q]
          /\ \A i \in 1..l : mapFile[i].kind \in Taken => \E k \in 1..n : pos[k] = i
    BY <2>3, <2>4, <2>5 DEF TakenIn
  <2>7. DOMAIN symbolIndex = 1..n /\ DOMAIN mapFile = 1..l
    <3>1. DOMAIN symbolIndex = 1..n
      BY <2>4
    <3>2. DOMAIN mapFile = 1..l
      BY <2>2, <2>5
    <3> QED
      BY <3>1, <3>2
  <2>8. \A i \in 1..l : mapFile[i].addr \in Int /\ mapFile[i].name \in STRING
    <3>1. \A i \in 1..l : mapFile[i] \in MapLines
      BY <2>2, <2>5
    <3> QED
      BY <3>1 DEF MapLines
  <2>9. near \subseteq 1..n
    BY <2>7
  <2>10. PICK b : b = best /\ b \in near /\ Newest(b)
    <3>1. \E i \in near : Newest(i)
      <4> HIDE DEF near
      <4> QED
        BY <1>4, <2>9, MaxOfRange
    <3> HIDE DEF near, Newest
    <3> QED
      BY <3>1
  <2>11. PICK f \in 1..l : f = pos[b] /\ symbolIndex[b] = mapFile[f]
    <3>1. b \in 1..n
      BY <2>9, <2>10
    <3>2. pos[b] \in 1..l
      BY <3>1
    <3> QED
      BY <2>6, <3>1, <3>2
  <2>12. /\ b \in 1..n /\ mapFile[f].addr <= eip
         /\ \A k \in 1..n : symbolIndex[k].addr <= eip => symbolIndex[k].addr <= mapFile[f].addr
    BY <2>7, <2>10, <2>11
  <2>13. ASSUME NEW k \in 1..n, symbolIndex[k].addr = mapFile[f].addr
         PROVE  k <= b
    <3>1. k \in near
      BY <2>7, <2>12, <2>13
    <3> HIDE DEF near
    <3> QED
      BY <2>10, <3>1
  <2>14. mapFile[f].kind = "symbol"
    <3>1. mapFile[f].kind \in Taken
      BY <2>6, <2>11, <2>12
    <3>2. ASSUME mapFile[f].kind = "wrapped section"
          PROVE  FALSE
      <4>1. PICK j \in 1..l : f < j /\ mapFile[j].kind = "symbol" /\ mapFile[j].addr = mapFile[f].addr
        BY <2>7, <2>15, <3>2
      <4>2. PICK k \in 1..n : pos[k] = j
        BY <2>6, <4>1 DEF Taken
      <4>3. k <= b
        BY <2>6, <2>13, <4>1, <4>2
      <4>4. pos[k] <= pos[b]
        <5>1. pos[k] \in 1..l /\ pos[b] \in 1..l
          BY <2>12
        <5>2. k = b \/ k < b
          BY <2>12, <4>3
        <5> QED
          BY <2>6, <2>12, <5>1, <5>2
      <4> QED
        BY <2>11, <4>1, <4>2, <4>4
    <3> QED
      BY <3>1, <3>2 DEF Taken
  <2>16. FunctionAt(mapFile, f, eip)
    <3>1. \A j \in 1..l : mapFile[j].kind = "symbol" /\ mapFile[j].addr <= eip => mapFile[j].addr <= mapFile[f].addr
      <4> SUFFICES ASSUME NEW j \in 1..l, mapFile[j].kind = "symbol", mapFile[j].addr <= eip
                   PROVE  mapFile[j].addr <= mapFile[f].addr
        OBVIOUS
      <4>1. PICK k \in 1..n : pos[k] = j
        BY <2>6 DEF Taken
      <4>2. symbolIndex[k] = mapFile[j]
        BY <2>6, <4>1
      <4> QED
        BY <2>12, <4>2
    <3> QED
      BY <2>7, <2>12, <2>14, <3>1 DEF FunctionAt
  <2>17. symbolIndex[best].name = mapFile[f].name
    <3> HIDE DEF best, near, Newest
    <3> QED
      BY <2>10, <2>11
  <2>18. Pan!Lookup(eip) \in {Pan!None, <<mapFile[f].name>>}
    <3> HIDE DEF best, near
    <3> QED
      BY <1>1, <2>17
  <2>19. <<mapFile[f].name>> \in Seq(STRING) /\ <<mapFile[f].name>>[1] = mapFile[f].name
    BY <2>8
  <2> QED
    <3> HIDE DEF best, near, Newest, below
    <3> QED
      BY <1>2, <2>7, <2>16, <2>18, <2>19
<1> QED
  BY <1>3, <1>4

(* The lines of a trace, and those that show the frames of stack s from    *)
(* address `from' on; the next one is at address at.                       *)
TraceLines == Int \X Seq(STRING)
Along(s, from, lines) ==
  /\ lines \in Seq(TraceLines)
  /\ \E path \in [1..Len(lines) -> DOMAIN s] :
       /\ lines # <<>> => path[1] = from
       /\ \A i \in 1..(Len(lines) - 1) : path[i + 1] = s[path[i]][1]
       /\ \A i \in 1..Len(lines) : lines[i][1] = s[path[i]][2]
Walked(s, from, at, lines) ==
  /\ lines \in Seq(TraceLines)
  /\ \E path \in [1..Len(lines) -> DOMAIN s] :
       /\ lines # <<>> => path[1] = from
       /\ \A i \in 1..(Len(lines) - 1) : path[i + 1] = s[path[i]][1]
       /\ \A i \in 1..Len(lines) : lines[i][1] = s[path[i]][2]
       /\ at \in DOMAIN s => at = IF lines = <<>> THEN from ELSE s[path[Len(lines)]][1]

(* No line shows a walk that has not begun.                                *)
LEMMA NothingWalked ==
  ASSUME NEW s, NEW from
  PROVE  Walked(s, from, from, <<>>)
<1>1. <<>> \in Seq(TraceLines) /\ Len(<<>>) = 0
  OBVIOUS
<1>2. \A i \in 1..0 : FALSE
  OBVIOUS
<1>3. \A i \in 1..(0 - 1) : FALSE
  OBVIOUS
<1>4. [i \in 1..0 |-> i] \in [1..0 -> DOMAIN s]
  OBVIOUS
<1> QED
  BY <1>1, <1>2, <1>3, <1>4 DEF Walked

(* One frame more.                                                         *)
LEMMA WalkedOn ==
  ASSUME NEW s, NEW from, NEW at \in DOMAIN s, NEW lines, Walked(s, from, at, lines),
         NEW to, to = s[at][1], NEW eip \in Int, eip = s[at][2], NEW name \in Seq(STRING),
         NEW t, t = Append(lines, <<eip, name>>)
  PROVE  /\ Walked(s, from, to, t)
         /\ t[Len(lines) + 1] = <<eip, name>>
         /\ \A i \in 1..Len(lines) : t[i] = lines[i]
         /\ Len(t) = Len(lines) + 1
<1>1. PICK n \in Nat : n = Len(lines) /\ lines \in Seq(TraceLines)
  BY DEF Walked
<1>2. PICK path \in [1..n -> DOMAIN s] :
       /\ lines # <<>> => path[1] = from
       /\ \A i \in 1..(n - 1) : path[i + 1] = s[path[i]][1]
       /\ \A i \in 1..n : lines[i][1] = s[path[i]][2]
       /\ at = IF lines = <<>> THEN from ELSE s[path[n]][1]
  BY <1>1 DEF Walked
<1>3. PICK x \in TraceLines : x = <<eip, name>>
  BY DEF TraceLines
<1>4. x[1] = s[at][2]
  BY <1>3
<1>18. Append(lines, x) \in Seq(TraceLines)
  BY <1>1
<1>5. t \in Seq(TraceLines) /\ t = Append(lines, x)
  BY <1>3, <1>18
<1>6. PICK l \in Nat : l = Len(t)
  BY <1>5
<1>7. l = n + 1 /\ t[n + 1] = x /\ \A i \in 1..n : t[i] = lines[i]
  <2>1. l = n + 1
    BY <1>1, <1>5, <1>6
  <2>2. t[n + 1] = x
    BY <1>1, <1>5
  <2>3. ASSUME NEW i \in 1..n
        PROVE  t[i] = lines[i]
    BY <1>1, <1>5
  <2> QED
    BY <2>1, <2>2, <2>3
<1>8. (lines = <<>> <=> n = 0) /\ t # <<>>
  BY <1>1, <1>5
<1> DEFINE way == [i \in 1..l |-> IF i = l THEN at ELSE path[i]]
<1>9. \A i \in 1..l : i = l \/ i \in 1..n
  BY <1>7
<1>10. \A i \in 1..n : way[i] = path[i] /\ i \in 1..l
  BY <1>7
<1>11. way[l] = at /\ l \in 1..l
  BY <1>7
<1>12. way \in [1..l -> DOMAIN s]
  <2>1. \A i \in 1..n : path[i] \in DOMAIN s
    OBVIOUS
  <2>2. \A i \in 1..l : way[i] \in DOMAIN s
    BY <1>9, <1>10, <1>11, <2>1
  <2> QED
    BY <2>2
<1> HIDE DEF way
<1>13. way[1] = from
  <2>1. CASE n = 0
    <3>1. l = 1
      BY <1>7, <2>1
    <3> QED
      BY <1>2, <1>8, <1>11, <2>1, <3>1
  <2>2. CASE n # 0
    <3>1. 1 \in 1..n
      BY <2>2
    <3> QED
      BY <1>2, <1>8, <1>10, <2>2, <3>1
  <2> QED
    BY <2>1, <2>2
<1>14. \A i \in 1..(l - 1) : way[i + 1] = s[way[i]][1]
  <2> SUFFICES ASSUME NEW i \in 1..n PROVE way[i + 1] = s[way[i]][1]
    BY <1>7
  <2>1. CASE i = n
    <3>1. n # 0 /\ i + 1 = l /\ n \in 1..n
      BY <1>7, <2>1
    <3>2. at = s[path[n]][1]
      BY <1>2, <1>8, <3>1
    <3> QED
      BY <1>10, <1>11, <2>1, <3>1, <3>2
  <2>2. CASE i # n
    <3>1. i \in 1..(n - 1) /\ i + 1 \in 1..n
      BY <2>2
    <3> QED
      BY <1>2, <1>10, <3>1
  <2> QED
    BY <2>1, <2>2
<1>15. \A i \in 1..l : t[i][1] = s[way[i]][2]
  BY <1>2, <1>4, <1>7, <1>9, <1>10, <1>11
<1>16. to \in DOMAIN s => to = IF t = <<>> THEN from ELSE s[way[l]][1]
  BY <1>8, <1>11
<1>17. Walked(s, from, to, t)
  BY <1>5, <1>6, <1>12, <1>13, <1>14, <1>15, <1>16 DEF Walked
<1> QED
  BY <1>1, <1>3, <1>5, <1>6, <1>7, <1>17

(* A walk that ends is one, too.                                           *)
LEMMA WalkedEnds ==
  ASSUME NEW s, NEW from, NEW at, NEW to, NEW lines, Walked(s, from, at, lines), to \notin DOMAIN s
  PROVE  Walked(s, from, to, lines)
BY DEF Walked

(* What a walk shows are frames of the stack.                              *)
LEMMA WalkedAlong ==
  ASSUME NEW s, NEW from, NEW at, NEW lines, Walked(s, from, at, lines)
  PROVE  Along(s, from, lines)
BY DEF Walked, Along

(* What a trace of the kernel and one of a program show.                   *)
Named(lines) ==
  \A i \in 1..Len(lines) : lines[i][2] # Pan!None =>
    \E f \in DOMAIN mapFile : FunctionAt(mapFile, f, lines[i][1]) /\ mapFile[f].name = lines[i][2][1]
Unnamed(lines) == \A i \in 1..Len(lines) : lines[i][2] = Pan!None
KernelLines(lines) == Along(stack, 1, lines) /\ Len(lines) <= KernelFrames /\ Named(lines)
UserLines(lines) == Along(userStack, UserTop, lines) /\ Len(lines) <= UserFrames /\ Unnamed(lines)

(* KernelTrace() follows the frames of the stack, and gives their names.   *)
LEMMA KernelTraceIs ==
  ASSUME stack \in KernelStacks, mapFile \in MapFiles, symbolIndex \in {<<>>, Pan!Symbols(mapFile)}
  PROVE  KernelLines(Pan!KernelTrace)
<1> DEFINE R == {p \in [at : Int, lines : Seq(TraceLines)] :
                   /\ p.at \in LowFrame..(HighFrame - 1) => p.at \in DOMAIN stack
                   /\ Walked(stack, 1, p.at, p.lines) /\ Named(p.lines)}
           More(p) == [at |-> stack[p.at][1],
                       lines |-> Append(p.lines, <<stack[p.at][2], Pan!Lookup(stack[p.at][2])>>)]
           Ext(p) == IF p.at < LowFrame \/ p.at >= HighFrame THEN p ELSE More(p)
           first == [at |-> 1, lines |-> <<>>]
           join == [x \in (1..KernelFrames) \X R |-> Ext(x[2])]
           Body(h) == [i \in 0..KernelFrames |->
                         IF i = 0 THEN first
                         ELSE LET p == h[i - 1]
                              IN  IF p.at < LowFrame \/ p.at >= HighFrame THEN p
                                  ELSE [at |-> stack[p.at][1],
                                        lines |-> Append(p.lines, <<stack[p.at][2], Pan!Lookup(stack[p.at][2])>>)]]
           a == CHOOSE h : h = Body(h)
<1>1. PICK n \in Nat : n = KernelFrames
  BY StartupAssumption DEF FaultsUsable
<1>2. LowFrame \in Int /\ HighFrame \in Int
  BY StartupAssumption DEF FaultsUsable
<1>3. /\ 1 \in DOMAIN stack
      /\ \A b \in DOMAIN stack : /\ b \in Int /\ stack[b] \in Int \X Int
                                 /\ stack[b][1] \in LowFrame..(HighFrame - 1) => stack[b][1] \in DOMAIN stack
  BY StartupAssumption DEF FaultsUsable
<1>4. ASSUME NEW p \in R, p.at \in DOMAIN stack
      PROVE  More(p) \in R /\ Len(More(p).lines) = Len(p.lines) + 1
  <2>1. PICK b, ls : b = p.at /\ ls = p.lines
    OBVIOUS
  <2>2. b \in DOMAIN stack /\ ls \in Seq(TraceLines) /\ Walked(stack, 1, b, ls) /\ Named(ls)
    BY <1>4, <2>1
  <2>3. PICK to \in Int, eip \in Int : to = stack[b][1] /\ eip = stack[b][2]
    BY <1>3, <2>2
  <2>4. PICK name \in Seq(STRING) : name = Pan!Lookup(eip)
    BY LookupIs
  <2>5. PICK t : t = Append(ls, <<eip, name>>)
    OBVIOUS
  <2>6. /\ Walked(stack, 1, to, t)
        /\ t[Len(ls) + 1] = <<eip, name>>
        /\ \A i \in 1..Len(ls) : t[i] = ls[i]
        /\ Len(t) = Len(ls) + 1
    <3> HIDE DEF R, More, Ext, join, Body, first, a
    <3>1. b \in DOMAIN stack
      BY <2>2
    <3>2. Walked(stack, 1, b, ls)
      BY <2>2
    <3>3. to = stack[b][1]
      BY <2>3
    <3>4. eip = stack[b][2]
      BY <2>3
    <3>5. Walked(stack, 1, to, t)
      BY <2>5, <3>1, <3>2, <3>3, <3>4, WalkedOn
    <3>6. /\ t[Len(ls) + 1] = <<eip, name>>
          /\ \A i \in 1..Len(ls) : t[i] = ls[i]
          /\ Len(t) = Len(ls) + 1
      BY <2>5, <3>1, <3>2, <3>3, <3>4, WalkedOn
    <3> QED
      BY <3>5, <3>6
  <2>7. t \in Seq(TraceLines)
    BY <2>6 DEF Walked
  <2>8. Named(t)
    <3> SUFFICES ASSUME NEW i \in 1..Len(t), t[i][2] # Pan!None
                 PROVE  \E f \in DOMAIN mapFile : FunctionAt(mapFile, f, t[i][1]) /\ mapFile[f].name = t[i][2][1]
      BY DEF Named
    <3>1. PICK l \in Nat : l = Len(ls)
      BY <2>2
    <3>2. i = l + 1 \/ i \in 1..l
      BY <2>6, <3>1
    <3>3. CASE i = l + 1
      <4>1. t[i] = <<eip, name>>
        BY <2>6, <3>1, <3>3
      <4>2. t[i][1] = eip /\ t[i][2] = name
        BY <4>1
      <4>3. Pan!Lookup(eip) # Pan!None
        BY <2>4, <4>2
      <4>4. \E f \in DOMAIN mapFile : FunctionAt(mapFile, f, eip) /\ mapFile[f].name = Pan!Lookup(eip)[1]
        BY <4>3, LookupIs
      <4> QED
        BY <2>4, <4>2, <4>4
    <3>4. CASE i \in 1..l
      <4>1. t[i] = ls[i]
        BY <2>6, <3>1, <3>4
      <4>2. ls[i][2] # Pan!None
        BY <4>1
      <4>3. \E f \in DOMAIN mapFile : FunctionAt(mapFile, f, ls[i][1]) /\ mapFile[f].name = ls[i][2][1]
        BY <2>2, <3>1, <3>4, <4>2 DEF Named
      <4> QED
        BY <4>1, <4>3
    <3> QED
      BY <3>2, <3>3, <3>4
  <2>9. More(p) = [at |-> to, lines |-> t]
    BY <2>1, <2>3, <2>4, <2>5
  <2>10. to \in LowFrame..(HighFrame - 1) => to \in DOMAIN stack
    BY <1>3, <2>2, <2>3
  <2>11. [at |-> to, lines |-> t] \in R
    <3>1. PICK q \in [at : Int, lines : Seq(TraceLines)] : q = [at |-> to, lines |-> t]
      BY <2>7
    <3>2. q.at = to /\ q.lines = t
      BY <3>1
    <3>3. q \in R
      BY <2>6, <2>8, <2>10, <3>2
    <3> HIDE DEF R
    <3> QED
      BY <3>1, <3>3
  <2> HIDE DEF R, More
  <2> QED
    BY <2>1, <2>6, <2>9, <2>11
<1>5. ASSUME NEW p \in R
      PROVE  Ext(p) \in R /\ (Len(Ext(p).lines) = Len(p.lines) \/ Len(Ext(p).lines) = Len(p.lines) + 1)
  <2>1. CASE p.at < LowFrame \/ p.at >= HighFrame
    <3>1. Ext(p) = p
      BY <2>1
    <3> HIDE DEF R, Ext
    <3> QED
      BY <3>1
  <2>2. CASE ~(p.at < LowFrame \/ p.at >= HighFrame)
    <3>1. p.at \in LowFrame..(HighFrame - 1)
      BY <1>2, <2>2
    <3>2. p.at \in DOMAIN stack
      BY <3>1
    <3>3. Ext(p) = More(p)
      BY <2>2
    <3> HIDE DEF R, Ext, More
    <3> QED
      BY <1>4, <3>2, <3>3
  <2> QED
    BY <2>1, <2>2
<1>6. first \in R
  <2>1. PICK q \in [at : Int, lines : Seq(TraceLines)] : q = first
    <3>1. <<>> \in Seq(TraceLines)
      OBVIOUS
    <3>2. PICK e \in Seq(TraceLines) : e = <<>>
      BY <3>1
    <3>3. [at |-> 1, lines |-> e] \in [at : Int, lines : Seq(TraceLines)]
      OBVIOUS
    <3> QED
      BY <3>2, <3>3
  <2>2. q.at = 1 /\ q.lines = <<>>
    BY <2>1
  <2>3. Walked(stack, 1, 1, <<>>)
    BY NothingWalked
  <2>4. Named(<<>>)
    <3>1. Len(<<>>) = 0 /\ \A i \in 1..0 : FALSE
      OBVIOUS
    <3> QED
      BY <3>1 DEF Named
  <2>5. q \in R
    BY <1>3, <2>2, <2>3, <2>4
  <2> HIDE DEF R
  <2> QED
    BY <2>1, <2>5
<1>7. \A i \in 1..n, p \in R : join[<<i, p>>] = Ext(p)
  <2> HIDE DEF R, Ext
  <2> QED
    BY <1>1
<1>8. \A h : Body(h) = [i \in 0..n |-> IF i = 0 THEN first ELSE Ext(h[i - 1])]
  BY <1>1
<1>9. \A p \in R : p.lines \in Seq(TraceLines) /\ Walked(stack, 1, p.at, p.lines) /\ Named(p.lines)
  OBVIOUS
<1>10. Len(first.lines) = 0
  OBVIOUS
<1>11. Pan!KernelTrace = a[n].lines
  BY <1>1 DEF Pan!KernelTrace
<1> HIDE DEF R, Ext, join, Body, first
<1>12. StepsIn(n, R, join)
  BY <1>5, <1>7 DEF StepsIn
<1>13. PICK g \in [0..n -> R] : Counts(g, n, first, join)
  BY <1>6, <1>12, CountExists
<1>14. \A i \in 0..n : g[i] = IF i = 0 THEN first ELSE Ext(g[i - 1])
  <2> SUFFICES ASSUME NEW i \in 0..n PROVE g[i] = IF i = 0 THEN first ELSE Ext(g[i - 1])
    OBVIOUS
  <2>1. CASE i = 0
    BY <1>13, <2>1 DEF Counts
  <2>2. CASE i # 0
    <3>1. i \in 1..n /\ i - 1 \in 0..n
      BY <2>2
    <3>2. g[i - 1] \in R
      BY <3>1
    <3>3. g[i] = join[<<i, g[i - 1]>>]
      BY <1>13, <3>1 DEF Counts
    <3> QED
      BY <1>7, <2>2, <3>1, <3>2, <3>3
  <2> QED
    BY <2>1, <2>2
<1>15. g = Body(g)
  <2>1. g = [i \in 0..n |-> g[i]]
    OBVIOUS
  <2> QED
    BY <1>8, <1>14, <2>1
<1>16. a = Body(a)
  BY <1>15
<1> HIDE DEF a
<1>17. \A i \in 0..n : a[i] = IF i = 0 THEN first ELSE Ext(a[i - 1])
  <2>1. \A i \in 0..n : Body(a)[i] = IF i = 0 THEN first ELSE Ext(a[i - 1])
    BY <1>8
  <2> QED
    BY <1>16, <2>1
<1> DEFINE Q == {i \in 0..n : a[i] \in R /\ Len(a[i].lines) <= i}
<1>18. 0 \in Q
  <2>1. 0 \in 0..n
    OBVIOUS
  <2>2. a[0] = first
    BY <1>17, <2>1
  <2> QED
    BY <1>6, <1>10, <2>1, <2>2
<1>19. ASSUME NEW i \in 1..n, i - 1 \in Q
       PROVE  i \in Q
  <2>1. PICK p \in R : p = a[i - 1] /\ Len(p.lines) <= i - 1
    BY <1>19
  <2>2. i \in 0..n /\ i # 0 /\ a[i] = Ext(p)
    BY <1>17, <2>1
  <2>3. Len(p.lines) \in Nat
    BY <1>9
  <2>4. a[i] \in R /\ Len(a[i].lines) <= i
    BY <1>5, <2>1, <2>2, <2>3
  <2> QED
    BY <2>2, <2>4
<1>20. n \in Q
  <2> HIDE DEF Q
  <2>1. \A i \in 0..n : i \in Q
    BY <1>18, <1>19, CountInd
  <2>2. n \in 0..n
    OBVIOUS
  <2> QED
    BY <2>1, <2>2
<1>21. a[n] \in R /\ Len(a[n].lines) <= n
  BY <1>20
<1> QED
  BY <1>1, <1>9, <1>11, <1>21, WalkedAlong DEF KernelLines

(* So does UserTrace(), which has no names to give.                        *)
LEMMA UserTraceIs ==
  ASSUME userStack \in UserStacks
  PROVE  UserLines(Pan!UserTrace)
<1> DEFINE R == {p \in [at : Int, lines : Seq(TraceLines)] :
                   Walked(userStack, UserTop, p.at, p.lines) /\ Unnamed(p.lines)}
           More(p) == [at |-> userStack[p.at][1], lines |-> Append(p.lines, <<userStack[p.at][2], Pan!None>>)]
           Ext(p) == IF p.at \notin DOMAIN userStack THEN p
                     ELSE IF userStack[p.at][2] = 0 THEN [p EXCEPT !.at = 0]
                     ELSE More(p)
           first == [at |-> UserTop, lines |-> <<>>]
           join == [x \in (1..UserFrames) \X R |-> Ext(x[2])]
           Body(h) == [i \in 0..UserFrames |->
                         IF i = 0 THEN first
                         ELSE LET p == h[i - 1]
                              IN  IF p.at \notin DOMAIN userStack THEN p
                                  ELSE IF userStack[p.at][2] = 0 THEN [p EXCEPT !.at = 0]
                                  ELSE [at |-> userStack[p.at][1],
                                        lines |-> Append(p.lines, <<userStack[p.at][2], Pan!None>>)]]
           a == CHOOSE h : h = Body(h)
<1>1. PICK n \in Nat : n = UserFrames
  BY StartupAssumption DEF FaultsUsable
<1>2. UserTop \in Int
  BY StartupAssumption DEF FaultsUsable
<1>3. 0 \notin DOMAIN userStack /\ \A b \in DOMAIN userStack : b \in Int /\ userStack[b] \in Int \X Int
  BY StartupAssumption DEF FaultsUsable
<1>4. ASSUME NEW p \in R, p.at \in DOMAIN userStack
      PROVE  More(p) \in R /\ Len(More(p).lines) = Len(p.lines) + 1
  <2>1. PICK b, ls : b = p.at /\ ls = p.lines
    OBVIOUS
  <2>2. b \in DOMAIN userStack /\ ls \in Seq(TraceLines) /\ Walked(userStack, UserTop, b, ls) /\ Unnamed(ls)
    BY <1>4, <2>1
  <2>3. PICK to \in Int, eip \in Int : to = userStack[b][1] /\ eip = userStack[b][2]
    BY <1>3, <2>2
  <2>4. PICK name \in Seq(STRING) : name = Pan!None
    <3>1. <<>> \in Seq(STRING)
      OBVIOUS
    <3> QED
      BY <3>1 DEF Pan!None
  <2>5. PICK t : t = Append(ls, <<eip, name>>)
    OBVIOUS
  <2>6. /\ Walked(userStack, UserTop, to, t)
        /\ t[Len(ls) + 1] = <<eip, name>>
        /\ \A i \in 1..Len(ls) : t[i] = ls[i]
        /\ Len(t) = Len(ls) + 1
    <3> HIDE DEF R, More, Ext, join, Body, first, a
    <3>1. b \in DOMAIN userStack
      BY <2>2
    <3>2. Walked(userStack, UserTop, b, ls)
      BY <2>2
    <3>3. to = userStack[b][1]
      BY <2>3
    <3>4. eip = userStack[b][2]
      BY <2>3
    <3>5. Walked(userStack, UserTop, to, t)
      BY <2>5, <3>1, <3>2, <3>3, <3>4, WalkedOn
    <3>6. /\ t[Len(ls) + 1] = <<eip, name>>
          /\ \A i \in 1..Len(ls) : t[i] = ls[i]
          /\ Len(t) = Len(ls) + 1
      BY <2>5, <3>1, <3>2, <3>3, <3>4, WalkedOn
    <3> QED
      BY <3>5, <3>6
  <2>7. t \in Seq(TraceLines)
    BY <2>6 DEF Walked
  <2>8. Unnamed(t)
    <3> SUFFICES ASSUME NEW i \in 1..Len(t)
                 PROVE  t[i][2] = Pan!None
      BY DEF Unnamed
    <3>1. PICK l \in Nat : l = Len(ls)
      BY <2>2
    <3>2. i = l + 1 \/ i \in 1..l
      BY <2>6, <3>1
    <3>3. CASE i = l + 1
      <4>1. t[i] = <<eip, name>>
        BY <2>6, <3>1, <3>3
      <4> QED
        BY <2>4, <4>1
    <3>4. CASE i \in 1..l
      BY <2>2, <2>6, <3>1, <3>4 DEF Unnamed
    <3> QED
      BY <3>2, <3>3, <3>4
  <2>9. More(p) = [at |-> to, lines |-> t]
    BY <2>1, <2>3, <2>4, <2>5
  <2>11. [at |-> to, lines |-> t] \in R
    <3>1. PICK q \in [at : Int, lines : Seq(TraceLines)] : q = [at |-> to, lines |-> t]
      BY <2>7
    <3>2. q.at = to /\ q.lines = t
      BY <3>1
    <3>3. q \in R
      BY <2>6, <2>8, <3>2
    <3> HIDE DEF R
    <3> QED
      BY <3>1, <3>3
  <2> HIDE DEF R, More
  <2> QED
    BY <2>1, <2>6, <2>9, <2>11
<1>5. ASSUME NEW p \in R
      PROVE  Ext(p) \in R /\ (Len(Ext(p).lines) = Len(p.lines) \/ Len(Ext(p).lines) = Len(p.lines) + 1)
  <2>1. CASE p.at \notin DOMAIN userStack
    <3>1. Ext(p) = p
      BY <2>1
    <3> HIDE DEF R, Ext
    <3> QED
      BY <3>1
  <2>2. CASE p.at \in DOMAIN userStack /\ userStack[p.at][2] = 0
    <3>1. PICK b, ls : b = p.at /\ ls = p.lines
      OBVIOUS
    <3>2. ls \in Seq(TraceLines) /\ Walked(userStack, UserTop, b, ls) /\ Unnamed(ls)
      BY <3>1
    <3>3. Walked(userStack, UserTop, 0, ls)
      BY <1>3, <3>2, WalkedEnds
    <3>4. PICK q \in [at : Int, lines : Seq(TraceLines)] : q = [at |-> 0, lines |-> ls]
      <4>1. PICK e \in Seq(TraceLines) : e = ls
        BY <3>2
      <4>2. [at |-> 0, lines |-> e] \in [at : Int, lines : Seq(TraceLines)]
        OBVIOUS
      <4> QED
        BY <4>1, <4>2
    <3>5. Ext(p) = q
      <4>1. p = [at |-> b, lines |-> ls]
        BY <3>1
      <4>2. [p EXCEPT !.at = 0] = [at |-> 0, lines |-> ls]
        BY <4>1
      <4> QED
        BY <2>2, <3>4, <4>2
    <3>6. q.at = 0 /\ q.lines = ls
      BY <3>4
    <3>7. q \in R
      BY <3>2, <3>3, <3>6
    <3> HIDE DEF R, Ext
    <3> QED
      BY <3>1, <3>5, <3>6, <3>7
  <2>3. CASE p.at \in DOMAIN userStack /\ userStack[p.at][2] # 0
    <3>1. Ext(p) = More(p)
      BY <2>3
    <3> HIDE DEF R, Ext, More
    <3> QED
      BY <1>4, <2>3, <3>1
  <2> QED
    BY <2>1, <2>2, <2>3
<1>6. first \in R
  <2>1. PICK q \in [at : Int, lines : Seq(TraceLines)] : q = first
    <3>1. <<>> \in Seq(TraceLines)
      OBVIOUS
    <3>2. PICK e \in Seq(TraceLines) : e = <<>>
      BY <3>1
    <3>3. [at |-> UserTop, lines |-> e] \in [at : Int, lines : Seq(TraceLines)]
      BY <1>2
    <3> QED
      BY <3>2, <3>3
  <2>2. q.at = UserTop /\ q.lines = <<>>
    BY <2>1
  <2>3. Walked(userStack, UserTop, UserTop, <<>>)
    BY NothingWalked
  <2>4. Unnamed(<<>>)
    <3>1. Len(<<>>) = 0 /\ \A i \in 1..0 : FALSE
      OBVIOUS
    <3> QED
      BY <3>1 DEF Unnamed
  <2>5. q \in R
    BY <2>2, <2>3, <2>4
  <2> HIDE DEF R
  <2> QED
    BY <2>1, <2>5
<1>7. \A i \in 1..n, p \in R : join[<<i, p>>] = Ext(p)
  <2> HIDE DEF R, Ext
  <2> QED
    BY <1>1
<1>8. \A h : Body(h) = [i \in 0..n |-> IF i = 0 THEN first ELSE Ext(h[i - 1])]
  BY <1>1
<1>9. \A p \in R : p.lines \in Seq(TraceLines) /\ Walked(userStack, UserTop, p.at, p.lines) /\ Unnamed(p.lines)
  OBVIOUS
<1>10. Len(first.lines) = 0
  OBVIOUS
<1>11. Pan!UserTrace = a[n].lines
  BY <1>1 DEF Pan!UserTrace
<1> HIDE DEF R, Ext, join, Body, first
<1>12. StepsIn(n, R, join)
  BY <1>5, <1>7 DEF StepsIn
<1>13. PICK g \in [0..n -> R] : Counts(g, n, first, join)
  BY <1>6, <1>12, CountExists
<1>14. \A i \in 0..n : g[i] = IF i = 0 THEN first ELSE Ext(g[i - 1])
  <2> SUFFICES ASSUME NEW i \in 0..n PROVE g[i] = IF i = 0 THEN first ELSE Ext(g[i - 1])
    OBVIOUS
  <2>1. CASE i = 0
    BY <1>13, <2>1 DEF Counts
  <2>2. CASE i # 0
    <3>1. i \in 1..n /\ i - 1 \in 0..n
      BY <2>2
    <3>2. g[i - 1] \in R
      BY <3>1
    <3>3. g[i] = join[<<i, g[i - 1]>>]
      BY <1>13, <3>1 DEF Counts
    <3> QED
      BY <1>7, <2>2, <3>1, <3>2, <3>3
  <2> QED
    BY <2>1, <2>2
<1>15. g = Body(g)
  <2>1. g = [i \in 0..n |-> g[i]]
    OBVIOUS
  <2> QED
    BY <1>8, <1>14, <2>1
<1>16. a = Body(a)
  BY <1>15
<1> HIDE DEF a
<1>17. \A i \in 0..n : a[i] = IF i = 0 THEN first ELSE Ext(a[i - 1])
  <2>1. \A i \in 0..n : Body(a)[i] = IF i = 0 THEN first ELSE Ext(a[i - 1])
    BY <1>8
  <2> QED
    BY <1>16, <2>1
<1> DEFINE Q == {i \in 0..n : a[i] \in R /\ Len(a[i].lines) <= i}
<1>18. 0 \in Q
  <2>1. 0 \in 0..n
    OBVIOUS
  <2>2. a[0] = first
    BY <1>17, <2>1
  <2> QED
    BY <1>6, <1>10, <2>1, <2>2
<1>19. ASSUME NEW i \in 1..n, i - 1 \in Q
       PROVE  i \in Q
  <2>1. PICK p \in R : p = a[i - 1] /\ Len(p.lines) <= i - 1
    BY <1>19
  <2>2. i \in 0..n /\ i # 0 /\ a[i] = Ext(p)
    BY <1>17, <2>1
  <2>3. Len(p.lines) \in Nat
    BY <1>9
  <2>4. a[i] \in R /\ Len(a[i].lines) <= i
    BY <1>5, <2>1, <2>2, <2>3
  <2> QED
    BY <2>2, <2>4
<1>20. n \in Q
  <2> HIDE DEF Q
  <2>1. \A i \in 0..n : i \in Q
    BY <1>18, <1>19, CountInd
  <2>2. n \in 0..n
    OBVIOUS
  <2> QED
    BY <2>1, <2>2
<1>21. a[n] \in R /\ Len(a[n].lines) <= n
  BY <1>20
<1> QED
  BY <1>1, <1>9, <1>11, <1>21, WalkedAlong DEF UserLines

(* The places of the steps that matter.                                    *)
LEMMA StepsAre ==
  /\ Len(Pan!BootSteps) = 21 /\ Len(Pan!PanicSteps) = 13
  /\ \A i \in 1..21 : Pan!BootSteps[i] = "interrupts" => i = 13
  /\ \A i \in 1..13 : /\ Pan!PanicSteps[i] = "kernel trace" => i = 2
                      /\ Pan!PanicSteps[i] = "user trace" => i = 7
  /\ Pan!PanicSteps[13] = "reboot"
<1>1. Len(Pan!BootSteps) = 21 /\ Len(Pan!PanicSteps) = 13 /\ Pan!PanicSteps[13] = "reboot"
  BY DEF Pan!BootSteps, Pan!PanicSteps
<1>2. ASSUME NEW i \in 1..21, Pan!BootSteps[i] = "interrupts"
      PROVE  i = 13
  <2>1. /\ Pan!BootSteps[1] # "interrupts" /\ Pan!BootSteps[2] # "interrupts" /\ Pan!BootSteps[3] # "interrupts"
        /\ Pan!BootSteps[4] # "interrupts" /\ Pan!BootSteps[5] # "interrupts" /\ Pan!BootSteps[6] # "interrupts"
        /\ Pan!BootSteps[7] # "interrupts" /\ Pan!BootSteps[8] # "interrupts" /\ Pan!BootSteps[9] # "interrupts"
        /\ Pan!BootSteps[10] # "interrupts" /\ Pan!BootSteps[11] # "interrupts" /\ Pan!BootSteps[12] # "interrupts"
        /\ Pan!BootSteps[14] # "interrupts" /\ Pan!BootSteps[15] # "interrupts" /\ Pan!BootSteps[16] # "interrupts"
        /\ Pan!BootSteps[17] # "interrupts" /\ Pan!BootSteps[18] # "interrupts" /\ Pan!BootSteps[19] # "interrupts"
        /\ Pan!BootSteps[20] # "interrupts" /\ Pan!BootSteps[21] # "interrupts"
    BY DEF Pan!BootSteps
  <2> QED
    BY <1>2, <2>1
<1>3. ASSUME NEW i \in 1..13
      PROVE  /\ Pan!PanicSteps[i] = "kernel trace" => i = 2
             /\ Pan!PanicSteps[i] = "user trace" => i = 7
  <2>1. /\ Pan!PanicSteps[1] = "report" /\ Pan!PanicSteps[2] = "kernel trace" /\ Pan!PanicSteps[3] = "flush"
        /\ Pan!PanicSteps[4] = "deactivate" /\ Pan!PanicSteps[5] = "directory" /\ Pan!PanicSteps[6] = "font"
        /\ Pan!PanicSteps[7] = "user trace" /\ Pan!PanicSteps[8] = "fill" /\ Pan!PanicSteps[9] = "bitmap"
        /\ Pan!PanicSteps[10] = "text" /\ Pan!PanicSteps[11] = "registers" /\ Pan!PanicSteps[12] = "show"
        /\ Pan!PanicSteps[13] = "reboot"
    BY DEF Pan!PanicSteps
  <2>2. \/ i = 1 \/ i = 2 \/ i = 3 \/ i = 4 \/ i = 5 \/ i = 6 \/ i = 7
        \/ i = 8 \/ i = 9 \/ i = 10 \/ i = 11 \/ i = 12 \/ i = 13
    OBVIOUS
  <2>3. i = 2 \/ Pan!PanicSteps[i] # "kernel trace"
    BY <2>1, <2>2
  <2>4. i = 7 \/ Pan!PanicSteps[i] # "user trace"
    BY <2>1, <2>2
  <2> QED
    BY <2>3, <2>4
<1> QED
  BY <1>1, <1>2, <1>3

(* All that the report of a fault uses is made when there are interrupts.  *)
LEMMA NeedsMade ==
  ASSUME made \in 13..21, NEW s
  PROVE  Pan!Needs(s) \subseteq Pan!Made(made)
<1>1. Pan!Needs(s) \subseteq {"paging", "interrupts", "font", "screen", "partition", "memory"}
  BY DEF Pan!Needs
<1>2. /\ Pan!BootSteps[2] = "memory" /\ Pan!BootSteps[4] = "paging" /\ Pan!BootSteps[6] = "partition"
      /\ Pan!BootSteps[8] = "screen" /\ Pan!BootSteps[10] = "font" /\ Pan!BootSteps[13] = "interrupts"
  BY DEF Pan!BootSteps
<1>3. /\ 2 \in 1..made /\ 4 \in 1..made /\ 6 \in 1..made /\ 8 \in 1..made /\ 10 \in 1..made /\ 13 \in 1..made
  OBVIOUS
<1>4. \A i \in 1..made : Pan!BootSteps[i] \in Pan!Made(made)
  BY DEF Pan!Made
<1>5. /\ "memory" \in Pan!Made(made) /\ "paging" \in Pan!Made(made) /\ "partition" \in Pan!Made(made)
      /\ "screen" \in Pan!Made(made) /\ "font" \in Pan!Made(made) /\ "interrupts" \in Pan!Made(made)
  BY <1>2, <1>3, <1>4
<1> QED
  BY <1>1, <1>5

(* The trace so far is one of the kernel and one of the program, and a     *)
(* fault is only caught when what the report of it uses is there.          *)
TraceInd ==
  \E k, u \in Seq(TraceLines) :
    /\ trace = k \o u /\ KernelLines(k) /\ UserLines(u)
    /\ panicked < 2 => k = <<>>
    /\ panicked < 7 => u = <<>>
PanicInd ==
  /\ mode \in {"boot", "runs", "panic", "halted", "reset"}
  /\ made \in 0..21 /\ (mode = "boot" => made < 21)
  /\ panicked \in 0..13 /\ (mode \in {"boot", "runs"} => panicked = 0)
  /\ activeInstance \in BOOLEAN /\ (activeInstance => made >= 13)
  /\ mapFile \in MapFiles /\ symbolIndex \in {<<>>, Pan!Symbols(mapFile)}
  /\ mode = "panic" => made >= 13 /\ panicked < 13 /\ stack \in KernelStacks /\ userStack \in UserStacks
  /\ TraceInd

(* No line is a trace of both.                                             *)
LEMMA NoLines == KernelLines(<<>>) /\ UserLines(<<>>) /\ <<>> \in Seq(TraceLines)
<1>1. Along(stack, 1, <<>>) /\ Along(userStack, UserTop, <<>>)
  BY NothingWalked, WalkedAlong
<1>2. Len(<<>>) = 0 /\ \A i \in 1..0 : FALSE
  OBVIOUS
<1>3. 0 <= KernelFrames /\ 0 <= UserFrames
  <2>1. KernelFrames \in Nat /\ UserFrames \in Nat
    BY StartupAssumption DEF FaultsUsable
  <2> QED
    BY <2>1
<1>4. <<>> \in Seq(TraceLines)
  OBVIOUS
<1> QED
  BY <1>1, <1>2, <1>3, <1>4 DEF KernelLines, UserLines, Named, Unnamed

(* Nor is it after a step.                                                 *)
LEMMA NoLinesNext == KernelLines(<<>>)' /\ UserLines(<<>>)' /\ <<>> \in Seq(TraceLines)
<1>1. Along(stack', 1, <<>>) /\ Along(userStack', UserTop, <<>>)
  BY NothingWalked, WalkedAlong
<1>2. Len(<<>>) = 0 /\ \A i \in 1..0 : FALSE
  OBVIOUS
<1>3. 0 <= KernelFrames /\ 0 <= UserFrames
  <2>1. KernelFrames \in Nat /\ UserFrames \in Nat
    BY StartupAssumption DEF FaultsUsable
  <2> QED
    BY <2>1
<1>4. <<>> \in Seq(TraceLines)
  OBVIOUS
<1> QED
  BY <1>1, <1>2, <1>3, <1>4 DEF KernelLines, UserLines, Named, Unnamed

(* No trace is one so far.                                                 *)
LEMMA NoTrace == ASSUME trace = <<>> PROVE TraceInd
<1>1. <<>> \o <<>> = <<>>
  OBVIOUS
<1> QED
  BY <1>1, NoLines DEF TraceInd

(* Before the report begins there is no trace.                             *)
LEMMA TraceEmpty == ASSUME TraceInd, panicked = 0 PROVE trace = <<>>
<1>1. PICK k, u : trace = k \o u /\ k = <<>> /\ u = <<>>
  BY DEF TraceInd
<1> QED
  BY <1>1

(* No trace is one so far after a step, either.                            *)
LEMMA NoTraceNext == ASSUME trace' = <<>> PROVE TraceInd'
<1>1. <<>> \o <<>> = <<>>
  OBVIOUS
<1>2. KernelLines(<<>>)' /\ UserLines(<<>>)' /\ <<>> \in Seq(TraceLines)
  BY NoLinesNext
<1> QED
  BY <1>1, <1>2 DEF TraceInd

(* In the beginning nothing is made, and nothing has failed.               *)
LEMMA PanicInit == ASSUME Pan!Init PROVE PanicInd
<1>1. trace = <<>> /\ made = 0 /\ mode = "boot" /\ panicked = 0 /\ activeInstance = FALSE
  BY DEF Pan!Init
<1>2. mapFile \in MapFiles /\ symbolIndex = <<>>
  BY DEF Pan!Init
<1>3. TraceInd
  BY <1>1, NoTrace
<1>4. made \in 0..21 /\ made < 21 /\ panicked \in 0..13 /\ panicked = 0
  BY <1>1
<1>5. activeInstance \in BOOLEAN /\ ~activeInstance
  BY <1>1
<1>6. mode \in {"boot", "runs", "panic", "halted", "reset"} /\ mode # "panic"
  BY <1>1
<1> QED
  BY <1>2, <1>3, <1>4, <1>5, <1>6 DEF PanicInd

(* A trace stays one while the fault is the same.                          *)
LEMMA LinesStay ==
  ASSUME UNCHANGED <<stack, userStack, mapFile>>, NEW k
  PROVE  (KernelLines(k)' <=> KernelLines(k)) /\ (UserLines(k)' <=> UserLines(k))
BY DEF KernelLines, UserLines, Named, Unnamed

(* The next thing is made.                                                 *)
LEMMA BootKeeps == ASSUME PanicInd, Pan!Boot PROVE PanicInd'
<1>1. /\ mode = "boot" /\ made' = made + 1 /\ UNCHANGED <<mapFile, panicked, trace>>
      /\ mode' \in {"boot", "runs"} /\ (mode' = "boot" => made' # 21)
  BY StepsAre DEF Pan!Boot
<1>2. made \in 0..20 /\ made' \in 1..21 /\ (mode' = "boot" => made' < 21)
  BY <1>1 DEF PanicInd
<1>3. symbolIndex' \in {<<>>, Pan!Symbols(mapFile')}
  <2>1. symbolIndex \in {<<>>, Pan!Symbols(mapFile)} /\ symbolIndex' \in {Pan!Symbols(mapFile), symbolIndex}
    BY DEF Pan!Boot, PanicInd
  <2> QED
    BY <1>1, <2>1
<1>4. activeInstance' \in BOOLEAN /\ (activeInstance' => made' >= 13)
  <2>1. activeInstance' = (activeInstance \/ Pan!BootSteps[made'] = "interrupts")
    BY DEF Pan!Boot
  <2>2. activeInstance => made' >= 13
    BY <1>1, <1>2 DEF PanicInd
  <2>3. Pan!BootSteps[made'] = "interrupts" => made' >= 13
    <3>1. PICK m \in 1..21 : m = made'
      BY <1>2
    <3>2. Pan!BootSteps[m] = "interrupts" => m = 13
      BY StepsAre
    <3> QED
      BY <3>1, <3>2
  <2> QED
    BY <2>1, <2>2, <2>3
<1>5. trace' = <<>>
  BY <1>1, TraceEmpty DEF PanicInd
<1>6. TraceInd'
  BY <1>5, NoTraceNext
<1>7. panicked' = 0 /\ mapFile' \in MapFiles
  BY <1>1 DEF PanicInd
<1>8. mode' # "panic" /\ made' \in 0..21 /\ panicked' \in 0..13
  BY <1>1, <1>2, <1>7
<1> QED
  BY <1>1, <1>2, <1>3, <1>4, <1>6, <1>7, <1>8 DEF PanicInd

(* A fault is caught when a system is there, or resets the machine.        *)
LEMMA FaultKeeps ==
  ASSUME PanicInd, NEW k \in KernelStacks, NEW u \in UserStacks, NEW byUser \in BOOLEAN, Pan!Fault(k, u, byUser)
  PROVE  PanicInd'
<1>1. /\ mode \in {"boot", "runs"} /\ mode' = IF activeInstance THEN "panic" ELSE "reset"
      /\ UNCHANGED <<made, mapFile, symbolIndex, activeInstance, panicked, trace>>
      /\ stack' = k /\ userStack' = u
  BY DEF Pan!Fault
<1>2. panicked = 0 /\ trace = <<>>
  BY <1>1, TraceEmpty DEF PanicInd
<1>3. TraceInd'
  BY <1>1, <1>2, NoTraceNext
<1>4. mode' = "panic" => activeInstance
  BY <1>1
<1>5. mode' \in {"panic", "reset"}
  BY <1>1
<1>6. symbolIndex' \in {<<>>, Pan!Symbols(mapFile')}
  BY <1>1 DEF PanicInd
<1> QED
  BY <1>1, <1>2, <1>3, <1>4, <1>5, <1>6 DEF PanicInd

(* A fault of the report itself begins a report without a trace.           *)
LEMMA ReportFaultKeeps ==
  ASSUME PanicInd, NEW k \in KernelStacks, Pan!ReportFault(k)
  PROVE  PanicInd'
<1>1. /\ mode = "panic" /\ activeInstance
      /\ UNCHANGED <<made, mapFile, symbolIndex, activeInstance, mode, userStack>>
      /\ panicked' = 0 /\ trace' = <<>> /\ stack' = k
  BY DEF Pan!ReportFault
<1>2. TraceInd'
  BY <1>1, NoTraceNext
<1>3. panicked' \in 0..13 /\ panicked' < 13
  BY <1>1
<1>4. symbolIndex' \in {<<>>, Pan!Symbols(mapFile')}
  BY <1>1 DEF PanicInd
<1> QED
  BY <1>1, <1>2, <1>3, <1>4 DEF PanicInd

(* When the two traces are taken, and the last step.                       *)
LEMMA StepIs ==
  ASSUME panicked \in 0..12, mode = "panic"
  PROVE  /\ Pan!Step("kernel trace") => panicked = 1
         /\ Pan!Step("user trace") => panicked = 6
         /\ panicked = 12 => Pan!Step("reboot")
<1>1. PICK i \in 1..13 : i = panicked + 1
  OBVIOUS
<1>2. \A s : Pan!Step(s) <=> Pan!PanicSteps[i] = s
  BY <1>1 DEF Pan!Step
<1>3. /\ Pan!PanicSteps[i] = "kernel trace" => i = 2
      /\ Pan!PanicSteps[i] = "user trace" => i = 7
  BY StepsAre
<1>4. i = 13 => Pan!PanicSteps[i] = "reboot"
  BY StepsAre
<1>5. (i = 2 => panicked = 1) /\ (i = 7 => panicked = 6) /\ (panicked = 12 => i = 13)
  BY <1>1
<1> QED
  BY <1>2, <1>3, <1>4, <1>5

(* The next step of the report.                                            *)
LEMMA PanicKeeps == ASSUME PanicInd, Pan!Panic PROVE PanicInd'
<1>1. /\ mode = "panic" /\ panicked' = panicked + 1
      /\ UNCHANGED <<made, mapFile, symbolIndex, stack, userStack, user>>
  BY DEF Pan!Panic, Pan!fault
<1>2. /\ panicked \in 0..12 /\ made >= 13 /\ stack \in KernelStacks /\ userStack \in UserStacks
      /\ mapFile \in MapFiles /\ symbolIndex \in {<<>>, Pan!Symbols(mapFile)}
  BY <1>1 DEF PanicInd
<1>3. mode' \in {"panic", "reset"} /\ (mode' = "panic" => panicked' < 13)
  <2>1. mode' = IF Pan!Step("reboot") THEN "reset" ELSE "panic"
    BY DEF Pan!Panic
  <2>2. panicked = 12 => Pan!Step("reboot")
    BY <1>1, <1>2, StepIs
  <2> QED
    BY <1>1, <1>2, <2>1, <2>2
<1>4. activeInstance' \in BOOLEAN /\ (activeInstance' => made' >= 13)
  <2>1. activeInstance' = (activeInstance /\ ~Pan!Step("deactivate"))
    BY DEF Pan!Panic
  <2> QED
    BY <1>1, <1>2, <2>1
<1>5. PICK k \in Seq(TraceLines), u \in Seq(TraceLines) :
        /\ trace = k \o u /\ KernelLines(k) /\ UserLines(u)
        /\ panicked < 2 => k = <<>>
        /\ panicked < 7 => u = <<>>
  BY DEF PanicInd, TraceInd
<1>6. \A ls : (KernelLines(ls)' <=> KernelLines(ls)) /\ (UserLines(ls)' <=> UserLines(ls))
  BY <1>1, LinesStay
<1>10. ASSUME TraceInd' PROVE PanicInd'
  <2>1. made' \in 0..21 /\ made' >= 13 /\ panicked' \in 0..13
    BY <1>1, <1>2 DEF PanicInd
  <2>2. mode' # "boot" /\ mode' # "runs"
    BY <1>3
  <2>3. mapFile' \in MapFiles /\ symbolIndex' \in {<<>>, Pan!Symbols(mapFile')}
    BY <1>1, <1>2
  <2>4. stack' \in KernelStacks /\ userStack' \in UserStacks
    BY <1>1, <1>2
  <2> QED
    BY <1>3, <1>4, <1>10, <2>1, <2>2, <2>3, <2>4 DEF PanicInd
<1>7. CASE Pan!Step("kernel trace")
  <2>1. panicked = 1
    BY <1>1, <1>2, <1>7, StepIs
  <2>2. PICK n : n = Pan!KernelTrace
    OBVIOUS
  <2>3. KernelLines(n) /\ n \in Seq(TraceLines)
    <3>1. KernelLines(n)
      BY <1>2, <2>2, KernelTraceIs
    <3> QED
      BY <3>1 DEF KernelLines, Along
  <2>4. trace' = n \o <<>>
    <3>1. trace' = trace \o n
      BY <1>7, <2>2 DEF Pan!Panic
    <3>2. trace = <<>> \o <<>>
      BY <1>5, <2>1
    <3> QED
      BY <2>3, <3>1, <3>2
  <2>5. panicked' = 2 /\ ~(panicked' < 2)
    BY <1>1, <2>1
  <2>6. TraceInd'
    BY <1>6, <2>3, <2>4, <2>5, NoLines DEF TraceInd
  <2> QED
    BY <1>10, <2>6
<1>8. CASE Pan!Step("user trace") /\ user
  <2>1. panicked = 6
    BY <1>1, <1>2, <1>8, StepIs
  <2>2. PICK n : n = Pan!UserTrace
    OBVIOUS
  <2>3. UserLines(n) /\ n \in Seq(TraceLines)
    <3>1. UserLines(n)
      BY <1>2, <2>2, UserTraceIs
    <3> QED
      BY <3>1 DEF UserLines, Along
  <2>4. trace' = k \o n
    <3>1. ~Pan!Step("kernel trace")
      <4>1. panicked # 1
        BY <2>1
      <4> QED
        BY <1>1, <1>2, <4>1, StepIs
    <3>2. trace' = trace \o n
      BY <1>8, <2>2, <3>1 DEF Pan!Panic
    <3>3. trace = k \o <<>>
      BY <1>5, <2>1
    <3>4. k \o <<>> = k
      OBVIOUS
    <3> QED
      BY <3>2, <3>3, <3>4
  <2>5. panicked' = 7 /\ ~(panicked' < 7) /\ ~(panicked' < 2)
    BY <1>1, <2>1
  <2>6. TraceInd'
    BY <1>5, <1>6, <2>3, <2>4, <2>5 DEF TraceInd
  <2> QED
    BY <1>10, <2>6
<1>9. CASE ~Pan!Step("kernel trace") /\ ~(Pan!Step("user trace") /\ user)
  <2>1. trace' = trace
    BY <1>9 DEF Pan!Panic
  <2>2. /\ panicked' < 2 => panicked < 2
        /\ panicked' < 7 => panicked < 7
    BY <1>1, <1>2
  <2>3. TraceInd'
    BY <1>5, <1>6, <2>1, <2>2 DEF TraceInd
  <2> QED
    BY <1>10, <2>3
<1> QED
  BY <1>7, <1>8, <1>9

(* Every step, and none, keeps the invariant.                              *)
LEMMA PanicStep == ASSUME PanicInd, [Pan!Next]_(Pan!vars) PROVE PanicInd'
<1>1. ASSUME UNCHANGED <<made, mapFile, symbolIndex, panicked, stack, userStack, user, trace>>, mode' \in {mode, "halted"},
             activeInstance' = activeInstance
      PROVE  PanicInd'
  <2>1. TraceInd'
    <3>1. PICK k \in Seq(TraceLines), u \in Seq(TraceLines) :
            /\ trace = k \o u /\ KernelLines(k) /\ UserLines(u)
            /\ panicked < 2 => k = <<>>
            /\ panicked < 7 => u = <<>>
      BY DEF PanicInd, TraceInd
    <3>2. KernelLines(k)' /\ UserLines(u)'
      BY <1>1, <3>1, LinesStay
    <3> QED
      BY <1>1, <3>1, <3>2 DEF TraceInd
  <2> QED
    BY <1>1, <2>1 DEF PanicInd
<1>2. CASE UNCHANGED Pan!vars
  BY <1>1, <1>2 DEF Pan!vars, Pan!fault
<1>3. CASE Pan!NestedFault
  BY <1>1, <1>3 DEF Pan!NestedFault, Pan!fault
<1>4. CASE Pan!StartAgain
  <2>1. /\ mode' = "boot" /\ made' = 0 /\ symbolIndex' = <<>>
        /\ activeInstance' = FALSE /\ panicked' = 0 /\ trace' = <<>> /\ mapFile' = mapFile
    BY <1>4 DEF Pan!StartAgain
  <2>2. TraceInd'
    BY <2>1, NoTraceNext
  <2>3. made' \in 0..21 /\ made' < 21 /\ panicked' \in 0..13 /\ panicked' = 0
    BY <2>1
  <2>4. activeInstance' \in BOOLEAN /\ ~activeInstance'
    BY <2>1
  <2>5. mode' \in {"boot", "runs", "panic", "halted", "reset"} /\ mode' # "panic"
    BY <2>1
  <2>6. mapFile' \in MapFiles /\ symbolIndex' \in {<<>>, Pan!Symbols(mapFile')}
    BY <2>1 DEF PanicInd
  <2> QED
    BY <2>2, <2>3, <2>4, <2>5, <2>6 DEF PanicInd
<1> QED
  BY <1>2, <1>3, <1>4, BootKeeps, FaultKeeps, ReportFaultKeeps, PanicKeeps DEF Pan!Next

(* The two parts of a sequence that was put together.                      *)
LEMMA SplitIs ==
  ASSUME NEW S, NEW k \in Seq(S), NEW u \in Seq(S), NEW t, t = k \o u
  PROVE  /\ Len(k) \in 0..Len(t) /\ Len(t) - Len(k) = Len(u)
         /\ SubSeq(t, 1, Len(k)) = k /\ SubSeq(t, Len(k) + 1, Len(t)) = u
         /\ \A i \in 1..Len(k) : t[i] = k[i]
         /\ \A i \in (Len(k) + 1)..Len(t) : i - Len(k) \in 1..Len(u) /\ t[i] = u[i - Len(k)]
<1>1. PICK m \in Nat, n \in Nat : m = Len(k) /\ n = Len(u)
  OBVIOUS
<1>2. /\ t \in Seq(S) /\ Len(t) = m + n
      /\ \A i \in 1..m : t[i] = k[i]
      /\ \A i \in (m + 1)..(m + n) : t[i] = u[i - m]
  <2>1. t \in Seq(S)
    OBVIOUS
  <2>2. Len(t) = m + n
    BY <1>1
  <2>3. \A i \in 1..m : t[i] = k[i]
    BY <1>1
  <2>4. \A i \in (m + 1)..(m + n) : t[i] = u[i - m]
    BY <1>1
  <2> QED
    BY <2>1, <2>2, <2>3, <2>4
<1>3. SubSeq(t, 1, m) = k
  <2>1. PICK v : v = SubSeq(t, 1, m)
    OBVIOUS
  <2>2. v \in Seq(S) /\ Len(v) = m /\ \A i \in 1..m : v[i] = t[i]
    BY <1>2, <2>1
  <2> QED
    BY <1>1, <1>2, <2>1, <2>2
<1>4. SubSeq(t, m + 1, m + n) = u
  <2>1. PICK v : v = SubSeq(t, m + 1, m + n)
    OBVIOUS
  <2>2. v \in Seq(S) /\ Len(v) = n /\ \A i \in 1..n : v[i] = t[m + i]
    BY <1>2, <2>1
  <2>3. \A i \in 1..n : m + i \in (m + 1)..(m + n) /\ (m + i) - m = i
    OBVIOUS
  <2>4. \A i \in 1..n : v[i] = u[i]
    BY <1>2, <2>2, <2>3
  <2>5. u = v
    <3>1. v \in [1..n -> S] /\ u \in [1..n -> S]
      BY <1>1, <2>2
    <3> QED
      BY <2>4, <3>1
  <2> QED
    BY <2>1, <2>5
<1>5. \A i \in (m + 1)..(m + n) : i - m \in 1..n
  OBVIOUS
<1>6. m \in 0..(m + n) /\ (m + n) - m = n
  OBVIOUS
<1> QED
  BY <1>1, <1>2, <1>3, <1>4, <1>5, <1>6

(* A report that is complete has all of its lines.                         *)
LEMMA PanicMeans == ASSUME PanicInd PROVE Pan!FaultReported
<1> DEFINE
     follows(s, lines, from) ==
        \E path \in [1..Len(lines) -> DOMAIN s] :
          /\ lines # <<>> => path[1] = from
          /\ \A i \in 1..(Len(lines) - 1) : path[i + 1] = s[path[i]][1]
          /\ \A i \in DOMAIN lines : lines[i][1] = s[path[i]][2]
     functions == {i \in DOMAIN mapFile : mapFile[i].kind = "symbol"}
     within(i, eip) == /\ mapFile[i].addr <= eip
                       /\ \A j \in functions : mapFile[j].addr <= eip => mapFile[j].addr <= mapFile[i].addr
     kernelLines(n) == SubSeq(trace, 1, n)
     userLines(n) == SubSeq(trace, n + 1, Len(trace))
<1>1. (mode = "panic" /\ panicked < Len(Pan!PanicSteps)) =>
        Pan!Needs(Pan!PanicSteps[panicked + 1]) \subseteq Pan!Made(made)
  <2>1. mode = "panic" => made \in 13..21
    BY DEF PanicInd
  <2> QED
    BY <2>1, NeedsMade
<1>2. PICK k \in Seq(TraceLines), u \in Seq(TraceLines) : trace = k \o u /\ KernelLines(k) /\ UserLines(u)
  BY DEF PanicInd, TraceInd
<1>3. \A s, from, lines : Along(s, from, lines) => follows(s, lines, from)
  <2> SUFFICES ASSUME NEW s, NEW from, NEW lines, Along(s, from, lines)
               PROVE  follows(s, lines, from)
    OBVIOUS
  <2>1. DOMAIN lines = 1..Len(lines)
    <3>1. lines \in Seq(TraceLines)
      BY DEF Along
    <3> QED
      BY <3>1
  <2> QED
    BY <2>1 DEF Along
<1>4. \A f, eip : FunctionAt(mapFile, f, eip) => f \in functions /\ within(f, eip)
  BY DEF FunctionAt
<1>5. PICK n : n = Len(k)
  OBVIOUS
<1>6. /\ n \in 0..Len(trace) /\ Len(trace) - n = Len(u)
      /\ kernelLines(n) = k /\ userLines(n) = u
      /\ \A i \in 1..n : trace[i] = k[i]
      /\ \A i \in (n + 1)..Len(trace) : i - n \in 1..Len(u) /\ trace[i] = u[i - n]
  BY <1>2, <1>5, SplitIs
<1> HIDE DEF kernelLines, userLines, follows, functions, within
<1>7. follows(stack, kernelLines(n), 1) /\ follows(userStack, userLines(n), UserTop)
  BY <1>2, <1>3, <1>6 DEF KernelLines, UserLines
<1>8. n <= KernelFrames /\ Len(trace) - n <= UserFrames
  BY <1>2, <1>5, <1>6 DEF KernelLines, UserLines
<1>9. ASSUME NEW i \in 1..n, trace[i][2] # Pan!None
      PROVE  \E f \in functions : mapFile[f].name = trace[i][2][1] /\ within(f, trace[i][1])
  <2>1. trace[i] = k[i] /\ i \in 1..Len(k)
    BY <1>5, <1>6
  <2>2. PICK f \in DOMAIN mapFile : FunctionAt(mapFile, f, k[i][1]) /\ mapFile[f].name = k[i][2][1]
    BY <1>2, <1>9, <2>1 DEF KernelLines, Named
  <2> QED
    BY <1>4, <2>1, <2>2
<1>10. \A i \in (n + 1)..Len(trace) : trace[i][2] = Pan!None
  BY <1>2, <1>6 DEF UserLines, Unnamed
<1>11. \E m \in 0..Len(trace) :
           /\ follows(stack, kernelLines(m), 1) /\ follows(userStack, userLines(m), UserTop)
           /\ m <= KernelFrames /\ Len(trace) - m <= UserFrames
           /\ \A i \in 1..m : trace[i][2] # Pan!None =>
                \E f \in functions : mapFile[f].name = trace[i][2][1] /\ within(f, trace[i][1])
           /\ \A i \in (m + 1)..Len(trace) : trace[i][2] = Pan!None
  BY <1>6, <1>7, <1>8, <1>9, <1>10
<1> QED
  BY <1>1, <1>11 DEF Pan!FaultReported, follows, functions, within, kernelLines, userLines

(* Whenever a fault is caught, whatever the stack and the map hold, all    *)
(* that its report uses is there, and the trace shows the frames with the  *)
(* functions they are in (DohandleException(), PrintStackTrace()).         *)
THEOREM FaultsAlwaysReported == Pan!Spec => []Pan!FaultReported
<1>1. Pan!Init => PanicInd
  BY PanicInit
<1>2. PanicInd /\ [Pan!Next]_(Pan!vars) => PanicInd'
  BY PanicStep
<1>3. PanicInd => Pan!FaultReported
  BY PanicMeans
<1> QED
  BY <1>1, <1>2, <1>3, PTL DEF Pan!Spec

-----------------------------------------------------------------------------
(* The start                                                               *)

(* The part that runs is as it should be.                                  *)
StartupInd ==
  /\ starting = "disk" => DiskInd
  /\ starting = "drivers" => DriversInd
  /\ starting = "panic" => PanicInd

(* The part that was chosen makes a step, or none does.                    *)
LEMMA StartupRuns ==
  ASSUME [StartupNext]_startupVars
  PROVE  /\ starting' = starting
         /\ starting = "disk" => [Disk!Next]_(Disk!vars)
         /\ starting = "drivers" => [Drv!Next]_(Drv!vars)
         /\ starting = "panic" => [Pan!Next]_(Pan!vars)
<1>1. CASE UNCHANGED startupVars
  <2>1. starting' = starting
    BY <1>1 DEF startupVars
  <2>2. UNCHANGED Disk!vars
    BY <1>1 DEF startupVars, diskVars, Disk!vars, Disk!disks, Disk!boot
  <2>3. UNCHANGED Drv!vars
    BY <1>1 DEF startupVars, driverVars, Drv!vars, Drv!place, Drv!manager
  <2>4. UNCHANGED Pan!vars
    BY <1>1 DEF startupVars, panicVars, Pan!vars, Pan!fault
  <2> QED
    BY <2>1, <2>2, <2>3, <2>4
<1>2. CASE starting = "disk" /\ Disk!Next /\ UNCHANGED <<starting, driverVars, panicVars>>
  BY <1>2
<1>3. CASE starting = "drivers" /\ Drv!Next /\ UNCHANGED <<starting, diskVars, panicVars>>
  BY <1>3
<1>4. CASE starting = "panic" /\ Pan!Next /\ UNCHANGED <<starting, diskVars, driverVars>>
  BY <1>4
<1> QED
  BY <1>1, <1>2, <1>3, <1>4 DEF StartupNext

(* The boot comes to a system that can be used, for every disk, bus, file  *)
(* of a driver and fault, when the power does not fail while a blank disk  *)
(* is set up (kernelMain(), init_pci(), DohandleException()).              *)
THEOREM BootAlwaysRight == ASSUME EarlyFail = FALSE PROVE StartupSpec => []BootRight
<1>1. StartupInit => StartupInd
  BY DiskInit, DriversInit, PanicInit DEF StartupInit, StartupInd
<1>2. StartupInd /\ [StartupNext]_startupVars => StartupInd'
  <2> SUFFICES ASSUME StartupInd, [StartupNext]_startupVars PROVE StartupInd'
    OBVIOUS
  <2>1. /\ starting' = starting
        /\ starting = "disk" => [Disk!Next]_(Disk!vars)
        /\ starting = "drivers" => [Drv!Next]_(Drv!vars)
        /\ starting = "panic" => [Pan!Next]_(Pan!vars)
    BY StartupRuns
  <2>2. starting = "disk" => DiskInd'
    BY <2>1, DiskStep DEF StartupInd
  <2>3. starting = "drivers" => DriversInd'
    BY <2>1, DriversStep DEF StartupInd
  <2>4. starting = "panic" => PanicInd'
    BY <2>1, PanicStep DEF StartupInd
  <2> QED
    BY <2>1, <2>2, <2>3, <2>4 DEF StartupInd
<1>3. StartupInd => BootRight
  BY DiskMeans, DriversMeans, PanicMeans DEF StartupInd, BootRight
<1> QED
  BY <1>1, <1>2, <1>3, PTL DEF StartupSpec
=============================================================================
