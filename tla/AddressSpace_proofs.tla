------------------------- MODULE AddressSpace_proofs -------------------------
(***************************************************************************)
(* Frames and address spaces, for every size of RAM, layout of the address *)
(* space and number of processes and threads: each frame in use has one    *)
(* owner, the count of frames is exact, every thread has its whole stack   *)
(* and sbrk delivers what it promises, whichever allocation fails.         *)
(***************************************************************************)
EXTENDS AddressSpace, QueueLemmas, FiniteSetTheorems

(* The frames before the region that the boot frees are taken for ever,    *)
(* and are not counted.                                                    *)
Reserved == 0 .. RegionAt - 1

Counted(m) ==
  /\ m \in [taken : SUBSET Bits, used : Nat]
  /\ Reserved \subseteq m.taken
  /\ m.used + RegionAt = Cardinality(m.taken)

(* The pages of a process apart from X, and all its frames.                *)
UsedBy(pr, X) == {v \in Page \ X : IsMapped(pr, v)}
Mine(pr, X) == {pr.pages[v] : v \in UsedBy(pr, X)} \union TableFrames(pr) \union {pr.dir}

Apart(pr, X) ==
  /\ \A v, w \in UsedBy(pr, X) : pr.pages[v] = pr.pages[w] => v = w
  /\ \A i, j \in Table : pr.tables[i] # None /\ pr.tables[i] = pr.tables[j] => i = j
  /\ \A v \in UsedBy(pr, X) : \A i \in Table : pr.pages[v] # pr.tables[i]
  /\ \A v \in UsedBy(pr, X) : pr.pages[v] # pr.dir
  /\ \A i \in Table : pr.tables[i] # pr.dir

Own(m, pr, X) ==
  /\ Apart(pr, X)
  /\ Mine(pr, X) \subseteq m.taken \ (kernel \union Reserved)

(* The thread that is being made, and the pages that do not count when the *)
(* stacks of the threads T do.                                             *)
Making(p) == IF task.op = "stack" /\ task.pid = p THEN {task.tid} ELSE {}
Beside(T) == {Trampoline} \union UNION {StackOf(t) : t \in Tid \ T}
Excluded(p) == Beside(procs[p].threads \union Making(p))

Owns(p) == IF p \in LivePids THEN Mine(procs[p], Excluded(p)) ELSE {}
----------------------------------------------------------------------------
(* The boot, before there are processes.                                   *)
Booting ==
  /\ boot = "pmm_init" => mem = [taken |-> {}, used |-> 0]
  /\ boot = "init_region" => mem = [taken |-> 0 .. Frames - 1, used |-> Frames]
  /\ boot \notin {"pmm_init", "init_region"} => Counted(mem)
  /\ boot \in {"paging", "up"} => kernel # {} /\ kernel \subseteq mem.taken \ Reserved
  /\ boot = "heap" => mem.taken = Reserved
  /\ boot # "up" => task = Idle /\ \A p \in Pid : procs[p] = Gone
  /\ \A p \in Pid : p >= nextPid => procs[p] = Gone

(* What a process uses is its own.                                         *)
Spaces ==
  /\ \A p \in LivePids : Own(mem, procs[p], Excluded(p))
  /\ \A p, q \in LivePids : p # q => Owns(p) \intersect Owns(q) = {}

(* Stacks are whole, under way, or not begun.                              *)
StacksOf(pr, next) ==
  /\ \A t \in pr.threads : t < next /\ \A v \in StackOf(t) : IsMapped(pr, v)
  /\ \A t \in Tid : t >= next => \A v \in StackOf(t) : ~IsMapped(pr, v)

StackTask ==
  task.op = "stack" =>
    /\ task.tid < nextTid /\ task.tid \notin procs[task.pid].threads
    /\ task.page \in StackOf(task.tid)
    /\ \A v \in StackOf(task.tid) : IsMapped(procs[task.pid], v) <=> v < task.page
    /\ task.then = "headers" => task.image \in ImageSizes

Stacks == (\A p \in LivePids : StacksOf(procs[p], nextTid)) /\ StackTask

(* Programs and heaps lie below the trampoline.                            *)
HeapOf(pr) == pr.heapEnd <= pr.heapMax /\ pr.heapMax <= Trampoline * PageSize

HeapTask ==
  /\ task.op = "image" =>
       ImageAt <= task.page /\ task.page <= task.end /\ task.end + InitialHeap + HeapRoom <= Trampoline
  /\ task.op = "heap" =>
       /\ ImageAt <= task.start /\ task.start <= task.page /\ task.page <= task.start + InitialHeap
       /\ task.start + InitialHeap + HeapRoom <= Trampoline
  /\ task.op = "sbrk" =>
       /\ task.brk <= procs[task.pid].heapMax /\ task.page <= Trampoline
       /\ \A v \in RoundUp(procs[task.pid].heapEnd) .. task.page - 1 : IsMapped(procs[task.pid], v)

Heaps == (\A p \in LivePids : HeapOf(procs[p])) /\ HeapTask

(* The inductive invariant.                                                *)
Ind == TypeOK /\ Booting /\ Spaces /\ Stacks /\ Heaps
----------------------------------------------------------------------------
(* Numbers.                                                                *)
LEMMA Products ==
  ASSUME NEW S \in Nat, NEW a \in Int, NEW b \in Int, a < b
  PROVE  a * S + S <= b * S
<1>1. (b - a - 1) * S >= 0
  <2>1. b - a - 1 >= 0
    OBVIOUS
  <2> QED
    BY <2>1
<1>2. (b - a - 1) * S = b * S - a * S - S
  OBVIOUS
<1> QED
  BY <1>1, <1>2

(* Division rounds down.                                                   *)
LEMMA Quotients ==
  ASSUME NEW S \in Nat \ {0}, NEW a \in Nat
  PROVE  /\ a \div S \in Nat /\ (a \div S) * S <= a /\ a < (a \div S) * S + S
OBVIOUS

(* ... and keeps the order.                                                *)
LEMMA QuotientsGrow ==
  ASSUME NEW S \in Nat \ {0}, NEW a \in Nat, NEW b \in Nat, a <= b
  PROVE  a \div S <= b \div S
<1> DEFINE x == a \div S
           y == b \div S
<1>1. /\ x \in Nat /\ x * S <= a
      /\ y \in Nat /\ b < y * S + S
  BY Quotients
<1> HIDE DEF x, y
<1>2. y < x => y * S + S <= x * S
  BY Products, <1>1
<1> QED
  BY <1>1, <1>2 DEF x, y

(* A heap that ends at or below a page's start has its pages below it.     *)
LEMMA RoundUpIs ==
  ASSUME NEW b \in Nat
  PROVE  /\ RoundUp(b) \in Nat
         /\ \A k \in Nat : b <= k * PageSize => RoundUp(b) <= k
<1> DEFINE S == PageSize
           x == (b + S - 1) \div S
<1>0. S \in Nat \ {0}
  BY SpaceAssumption
<1>1. x \in Nat /\ x * S <= b + S - 1
  BY <1>0, Quotients
<1> HIDE DEF x, S
<1>2. ASSUME NEW k \in Nat, b <= k * S, k < x
      PROVE  FALSE
  <2>1. k * S + S <= x * S
    BY <1>0, <1>1, <1>2, Products
  <2>2. k * S \in Int /\ x * S \in Int
    BY <1>0, <1>1
  <2> QED
    BY <1>0, <1>1, <1>2, <2>1, <2>2
<1>3. \A k \in Nat : b <= k * S => x <= k
  BY <1>1, <1>2
<1> QED
  BY <1>1, <1>3 DEF RoundUp, x, S

(* Where the bitmap, the kernel heap and the region lie.                   *)
LEMMA RegionIs ==
  /\ RegionAt \in Nat /\ HeapAt \in Nat /\ 1 <= RegionAt /\ RegionAt <= HeapAt
  /\ RegionAt <= Frames /\ HeapEnd < Frames /\ Frames \in Nat \ {0}
  /\ HeapEnd \in Nat /\ LowFrames \in 1 .. Frames
<1>1. /\ Frames \in Nat \ {0} /\ FrameBits \in Nat \ {0} /\ BitmapAt \in Nat \ {0} /\ HeapEnd \in Nat
      /\ LowFrames \in 1 .. Frames
  BY MemoryAssumption
<1>2. Frames + FrameBits - 1 \in Nat /\ Frames <= Frames + FrameBits - 1
  BY <1>1
<1>3. /\ Frames \div FrameBits \in Nat /\ (Frames + FrameBits - 1) \div FrameBits \in Nat
      /\ Frames \div FrameBits <= (Frames + FrameBits - 1) \div FrameBits
  BY <1>1, <1>2, Quotients, QuotientsGrow
<1> QED
  BY <1>1, <1>3, LayoutAssumption DEF RegionAt, HeapAt

(* The stacks of different threads are apart, above the trampoline.        *)
LEMMA StackPlaces ==
  ASSUME NEW t \in Tid
  PROVE  /\ StackBase(t) \in Int /\ Trampoline < StackBase(t)
         /\ StackBase(t) + StackPages <= StackTop
         /\ StackOf(t) \subseteq Page \ {Trampoline}
         /\ \A u \in Tid : u # t => StackOf(t) \intersect StackOf(u) = {}
<1> DEFINE S == StackPages
<1>1. S \in Nat \ {0} /\ MaxTid \in Nat /\ t \in 1 .. MaxTid /\ StackTop \in Nat /\ Trampoline \in 0 .. StackTop - 1
  BY SpaceAssumption DEF Tid, Page
<1> HIDE DEF S
<1>2. \A u \in 1 .. MaxTid : u * S \in Nat /\ (u + 1) * S \in Nat /\ (u + 1) * S = u * S + S
  BY <1>1
<1>3. \A u \in 1 .. MaxTid : StackBase(u) = StackTop - (u + 1) * S /\ StackBase(u) \in Int
  BY <1>1, <1>2 DEF StackBase, S
<1>4. \A a, b \in 1 .. MaxTid : a < b => StackBase(b) + S <= StackBase(a)
  <2> TAKE a, b \in 1 .. MaxTid
  <2>1. a < b => (a + 1) * S + S <= (b + 1) * S
    <3>1. a + 1 \in Int /\ b + 1 \in Int
      OBVIOUS
    <3>2. a < b => a + 1 < b + 1
      OBVIOUS
    <3> QED
      BY <1>1, <3>1, <3>2, Products
  <2> QED
    BY <1>1, <1>2, <1>3, <2>1
<1>5. MaxTid \in 1 .. MaxTid /\ Trampoline < StackBase(MaxTid)
  BY <1>1, LayoutAssumption
<1>6. Trampoline < StackBase(t)
  BY <1>1, <1>3, <1>4, <1>5
<1>7. StackBase(t) + S <= StackTop
  BY <1>1, <1>2, <1>3
<1>8. StackOf(t) = StackBase(t) .. StackBase(t) + S - 1
  BY DEF StackOf, S
<1>9. StackOf(t) \subseteq Page \ {Trampoline}
  BY <1>1, <1>3, <1>6, <1>7, <1>8 DEF Page
<1>10. ASSUME NEW u \in Tid, u # t, NEW v \in StackOf(t), v \in StackOf(u)
       PROVE  FALSE
  <2>1. u \in 1 .. MaxTid /\ StackOf(u) = StackBase(u) .. StackBase(u) + S - 1
    BY DEF StackOf, S, Tid
  <2>2. StackBase(u) + S <= StackBase(t) \/ StackBase(t) + S <= StackBase(u)
    BY <1>1, <1>4, <1>10, <2>1
  <2> QED
    BY <1>1, <1>3, <1>8, <1>10, <2>1, <2>2
<1>11. \A u \in Tid : u # t => StackOf(t) \intersect StackOf(u) = {}
  BY <1>10
<1>12. StackBase(t) \in Int
  BY <1>1, <1>3
<1> QED
  BY <1>6, <1>7, <1>9, <1>11, <1>12 DEF S
----------------------------------------------------------------------------
(* Frames.                                                                 *)
LEMMA BitsFinite ==
  ASSUME NEW T \in SUBSET Bits
  PROVE  IsFiniteSet(T) /\ Cardinality(T) \in Nat
<1>1. 0 \in Int /\ Frames + RegionAt - 1 \in Int
  BY RegionIs
<1>2. IsFiniteSet(Bits)
  BY <1>1, FS_Interval DEF Bits
<1> QED
  BY <1>2, FS_Subset, FS_CardinalityType

(* A free frame is taken, and the count stays exact.                       *)
LEMMA TakeCounts ==
  ASSUME NEW m, Counted(m), NEW f \in Free(m)
  PROVE  /\ Counted(Take(m, f)) /\ f \in Bits /\ f \notin m.taken
         /\ Take(m, f).taken = m.taken \union {f}
<1>1. m.taken \in SUBSET Bits /\ m.used \in Nat /\ f \in Bits /\ f \notin m.taken
  BY DEF Counted, Free
<1>2. Cardinality(m.taken \union {f}) = Cardinality(m.taken) + 1
  BY <1>1, BitsFinite, FS_AddElement
<1>3. Take(m, f) = [taken |-> m.taken \union {f}, used |-> m.used + 1]
  BY DEF Take
<1>4. Take(m, f) \in [taken : SUBSET Bits, used : Nat]
  BY <1>1, <1>3
<1>5. Take(m, f).taken = m.taken \union {f} /\ Take(m, f).used = m.used + 1
  BY <1>3
<1>6. m.used + 1 + RegionAt = Cardinality(m.taken) + 1
  BY <1>1, RegionIs DEF Counted
<1> QED
  BY <1>1, <1>2, <1>4, <1>5, <1>6 DEF Counted

(* Taken frames go back, and the count stays exact.                        *)
LEMMA GiveCounts ==
  ASSUME NEW m, Counted(m), NEW fs, fs \subseteq m.taken \ Reserved
  PROVE  Counted(Give(m, fs)) /\ Give(m, fs).taken = m.taken \ fs
<1>1. m.taken \in SUBSET Bits /\ m.used \in Nat /\ m.used + RegionAt = Cardinality(m.taken)
      /\ fs \in SUBSET Bits
  BY DEF Counted
<1>2. Give(m, fs) = [taken |-> m.taken \ fs, used |-> m.used - Cardinality(fs)]
  BY DEF Give
<1>3. /\ IsFiniteSet(m.taken) /\ Cardinality(m.taken) \in Nat
      /\ IsFiniteSet(fs) /\ Cardinality(fs) \in Nat
  BY <1>1, BitsFinite
<1>4. m.taken \intersect fs = fs
  OBVIOUS
<1>5. Cardinality(m.taken \ fs) = Cardinality(m.taken) - Cardinality(fs)
  BY <1>3, <1>4, FS_Difference
<1>6. Reserved \subseteq m.taken \ fs
  BY DEF Counted
<1>7. RegionAt <= Cardinality(m.taken \ fs)
  <2>1. 0 \in Int /\ RegionAt - 1 \in Int
    BY RegionIs
  <2>2. Cardinality(Reserved) = RegionAt
    BY <2>1, FS_Interval, RegionIs DEF Reserved
  <2>3. m.taken \ fs \in SUBSET Bits
    BY <1>1
  <2> QED
    BY <1>6, <2>2, <2>3, BitsFinite, FS_Subset
<1>8. m.used - Cardinality(fs) \in Nat /\ (m.used - Cardinality(fs)) + RegionAt = Cardinality(m.taken \ fs)
  BY <1>1, <1>3, <1>5, <1>7, RegionIs
<1>9. Give(m, fs) \in [taken : SUBSET Bits, used : Nat]
  BY <1>1, <1>2, <1>8
<1> QED
  BY <1>2, <1>6, <1>8, <1>9 DEF Counted

(* A frame from low memory was free, is of RAM and not reserved.           *)
LEMMA AllocLowIs ==
  ASSUME NEW m, Counted(m), AllocLow(m) # None
  PROVE  AllocLow(m) \in Free(m) /\ AllocLow(m) \in Frame \ Reserved
<1> DEFINE low == {f \in Free(m) : f < LowFrames}
<1>1. low # {} /\ AllocLow(m) = Min(low)
  BY DEF AllocLow
<1>2. low \in SUBSET Nat
  BY RegionIs DEF Free, Bits
<1>3. Min(low) \in low
  BY <1>1, <1>2, MinOfNats
<1> QED
  BY <1>1, <1>3, RegionIs DEF Free, Bits, Counted, Frame

(* A frame from any memory was free and is not reserved; it may be a bit   *)
(* past the end of RAM.                                                    *)
LEMMA AllocIs ==
  ASSUME NEW m, Counted(m), Alloc(m) # None
  PROVE  Alloc(m) \in Free(m) /\ Alloc(m) \in Nat \ Reserved
<1>1. Free(m) # {} /\ Alloc(m) = Min(Free(m))
  BY DEF Alloc
<1>2. Free(m) \in SUBSET Nat
  BY RegionIs DEF Free, Bits
<1>3. Min(Free(m)) \in Free(m)
  BY <1>1, <1>2, MinOfNats
<1> QED
  BY <1>1, <1>2, <1>3 DEF Free, Counted

(* The kernel's last frame is one of its own.                              *)
LEMMA TrampolineFrameIs ==
  ASSUME kernel \subseteq Frame, kernel # {}
  PROVE  TrampolineFrame \in kernel
<1> DEFINE d == {Frames - f : f \in kernel}
<1>0. \A f \in kernel : f \in Int /\ Frames - f \in Nat
  BY RegionIs DEF Frame
<1>1. d \in SUBSET Nat /\ d # {}
  BY <1>0
<1>2. Min(d) \in d /\ \A i \in d : Min(d) <= i
  BY <1>1, MinOfNats
<1>3. PICK f \in kernel : Min(d) = Frames - f
  BY <1>2
<1>4. \A g \in kernel : f >= g
  <2> TAKE g \in kernel
  <2>1. Frames - f <= Frames - g
    BY <1>2, <1>3
  <2> QED
    BY <1>0, <2>1, RegionIs
<1> QED
  BY <1>4 DEF TrampolineFrame, Max
----------------------------------------------------------------------------
(* Processes.                                                              *)
With(pr, v, g) == [pr EXCEPT !.pages[v] = g]
WithTable(pr, v, g, i, t) == [pr EXCEPT !.pages[v] = g, !.tables[i] = t]

(* The rest of a process.                                                  *)
SameRest(pr, q) ==
  /\ q.dir = pr.dir /\ q.threads = pr.threads /\ q.heapStart = pr.heapStart
  /\ q.heapEnd = pr.heapEnd /\ q.heapMax = pr.heapMax

(* A page table entry changes, and nothing else.                           *)
LEMMA WithIs ==
  ASSUME NEW pr \in Process, NEW v \in Page, NEW g \in Entry
  PROVE  /\ With(pr, v, g) \in Process
         /\ With(pr, v, g).pages = [pr.pages EXCEPT ![v] = g]
         /\ With(pr, v, g).tables = pr.tables
         /\ SameRest(pr, With(pr, v, g))
<1> DEFINE P == [pr.pages EXCEPT ![v] = g]
           q == [pr EXCEPT !.pages = P]
<1>1. P \in [Page -> Entry]
  BY DEF Process
<1>2. With(pr, v, g) = q
  BY DEF With
<1> HIDE DEF P
<1>3. q \in Process
  BY <1>1 DEF Process
<1>4. q.pages = P /\ q.tables = pr.tables /\ SameRest(pr, q)
  BY DEF Process, SameRest
<1> HIDE DEF q
<1> QED
  BY <1>2, <1>3, <1>4 DEF P

(* An entry and its table change, and nothing else.                        *)
LEMMA WithTableIs ==
  ASSUME NEW pr \in Process, NEW v \in Page, NEW g \in Entry, NEW i \in Table, NEW t \in Entry
  PROVE  /\ WithTable(pr, v, g, i, t) \in Process
         /\ WithTable(pr, v, g, i, t).pages = [pr.pages EXCEPT ![v] = g]
         /\ WithTable(pr, v, g, i, t).tables = [pr.tables EXCEPT ![i] = t]
         /\ SameRest(pr, WithTable(pr, v, g, i, t))
<1> DEFINE q == With(pr, v, g)
           T == [q.tables EXCEPT ![i] = t]
           u == [q EXCEPT !.tables = T]
<1>1. q \in Process /\ q.pages = [pr.pages EXCEPT ![v] = g] /\ q.tables = pr.tables /\ SameRest(pr, q)
  BY WithIs
<1>2. WithTable(pr, v, g, i, t) = u
  BY DEF WithTable, With
<1> HIDE DEF q
<1>3. T \in [Table -> Entry]
  BY <1>1 DEF Process
<1> HIDE DEF T
<1>4. u \in Process
  BY <1>1, <1>3 DEF Process
<1>5. u.pages = q.pages /\ u.tables = T /\ SameRest(q, u)
  BY <1>1 DEF Process, SameRest
<1> HIDE DEF u
<1> QED
  BY <1>1, <1>2, <1>4, <1>5 DEF T, SameRest

(* Two records with the same frames outside X.                             *)
SameFrames(pr, q) == q.dir = pr.dir /\ q.tables = pr.tables /\ q.pages = pr.pages

(* What a process owns depends on its frames alone.                        *)
LEMMA SameFramesOwn ==
  ASSUME NEW m, NEW pr, NEW q, NEW X, SameFrames(pr, q)
  PROVE  (Own(m, pr, X) <=> Own(m, q, X)) /\ Mine(q, X) = Mine(pr, X)
BY DEF SameFrames, Own, Apart, Mine, UsedBy, TableFrames, IsMapped

(* What is no longer used needs no owner.                                  *)
LEMMA OwnLess ==
  ASSUME NEW m, NEW pr, NEW X, NEW Y, UsedBy(pr, Y) \subseteq UsedBy(pr, X), Own(m, pr, X)
  PROVE  Own(m, pr, Y) /\ Mine(pr, Y) \subseteq Mine(pr, X)
<1>1. Mine(pr, Y) \subseteq Mine(pr, X)
  BY DEF Mine
<1>2. Apart(pr, Y)
  BY DEF Own, Apart
<1> QED
  BY <1>1, <1>2 DEF Own

(* More frames are taken, or ones that the process does not use go back.   *)
LEMMA OwnOther ==
  ASSUME NEW m, NEW n, NEW pr, NEW X, Own(m, pr, X), Mine(pr, X) \subseteq n.taken
  PROVE  Own(n, pr, X)
BY DEF Own

(* The three ends of MapPage().                                            *)
LEMMA MapPageIs ==
  ASSUME NEW m, Counted(m), NEW pr \in Process, NEW v \in Page, NEW g
  PROVE  LET r == MapPage(m, pr, v, g)
             i == TableOf(v)
         IN  \/ /\ r = [ok |-> FALSE, mem |-> m, proc |-> pr]
                /\ pr.tables[i] = None
             \/ /\ r = [ok |-> TRUE, mem |-> m, proc |-> With(pr, v, g)]
                /\ pr.tables[i] # None
             \/ /\ pr.tables[i] = None
                /\ \E t \in Free(m) \intersect (Frame \ Reserved) :
                     r = [ok |-> TRUE, mem |-> Take(m, t),
                          proc |-> WithTable(pr, v, g, i, t)]
<1> DEFINE i == TableOf(v)
           t == AllocLow(m)
<1>1. CASE pr.tables[i] # None
  BY <1>1 DEF MapPage, With
<1>2. CASE pr.tables[i] = None /\ t = None
  BY <1>2 DEF MapPage
<1>3. CASE pr.tables[i] = None /\ t # None
  <2>1. t \in Free(m) \intersect (Frame \ Reserved)
    BY <1>3, AllocLowIs
  <2>2. [[pr EXCEPT !.pages[v] = g] EXCEPT !.tables[i] = t] = WithTable(pr, v, g, i, t)
    BY DEF WithTable
  <2> QED
    BY <1>3, <2>1, <2>2 DEF MapPage, With
<1> QED
  BY <1>1, <1>2, <1>3

(* A page is mapped to a frame of its own, to none, or where it is not     *)
(* counted as used.                                                        *)
LEMMA MapPageKeeps ==
  ASSUME NEW m, Counted(m), kernel \subseteq m.taken,
         NEW pr \in Process, NEW X, Own(m, pr, X), NEW v \in Page, NEW g \in Entry,
         \/ v \in X \/ g \in {None, 0}
         \/ g \in m.taken \ (kernel \union Reserved \union Mine(pr, X))
  PROVE  LET r == MapPage(m, pr, v, g) IN
         /\ r.ok \in BOOLEAN
         /\ Counted(r.mem) /\ m.taken \subseteq r.mem.taken
         /\ r.proc \in Process /\ Own(r.mem, r.proc, X)
         /\ Mine(r.proc, X) \subseteq Mine(pr, X) \union (r.mem.taken \ m.taken) \union ({g} \ (IF v \in X THEN {g} ELSE {}))
         /\ r.ok => r.proc.pages = [pr.pages EXCEPT ![v] = g]
         /\ ~r.ok => r.mem = m /\ r.proc = pr
         /\ r.proc.dir = pr.dir /\ r.proc.threads = pr.threads
         /\ r.proc.heapStart = pr.heapStart /\ r.proc.heapEnd = pr.heapEnd /\ r.proc.heapMax = pr.heapMax
<1> DEFINE r == MapPage(m, pr, v, g)
           i == TableOf(v)
           Goal(x) ==
             /\ x.ok \in BOOLEAN
             /\ Counted(x.mem) /\ m.taken \subseteq x.mem.taken
             /\ x.proc \in Process /\ Own(x.mem, x.proc, X)
             /\ Mine(x.proc, X) \subseteq Mine(pr, X) \union (x.mem.taken \ m.taken) \union ({g} \ (IF v \in X THEN {g} ELSE {}))
             /\ x.ok => x.proc.pages = [pr.pages EXCEPT ![v] = g]
             /\ ~x.ok => x.mem = m /\ x.proc = pr
             /\ x.proc.dir = pr.dir /\ x.proc.threads = pr.threads
             /\ x.proc.heapStart = pr.heapStart /\ x.proc.heapEnd = pr.heapEnd /\ x.proc.heapMax = pr.heapMax
<1>0. /\ pr.pages \in [Page -> Entry] /\ pr.tables \in [Table -> Entry] /\ pr.dir \in Frame
      /\ i \in Table
  BY DEF Process, Table, TableOf
<1>1. ASSUME r = [ok |-> FALSE, mem |-> m, proc |-> pr]
      PROVE  Goal(r)
  BY <1>1
<1>2. ASSUME r = [ok |-> TRUE, mem |-> m, proc |-> With(pr, v, g)], pr.tables[i] # None
      PROVE  Goal(r)
  <2> DEFINE q == r.proc
  <2>1. /\ r.ok = TRUE /\ r.mem = m /\ q \in Process
        /\ q.pages = [pr.pages EXCEPT ![v] = g] /\ q.tables = pr.tables /\ q.dir = pr.dir
        /\ q.threads = pr.threads
        /\ q.heapStart = pr.heapStart /\ q.heapEnd = pr.heapEnd /\ q.heapMax = pr.heapMax
    BY <1>0, <1>2, WithIs DEF SameRest
  <2> HIDE DEF r
  <2>2. /\ \A w \in UsedBy(q, X) : w # v => w \in UsedBy(pr, X) /\ q.pages[w] = pr.pages[w]
        /\ v \in UsedBy(q, X) => v \notin X /\ q.pages[v] = g /\ g \notin {None, 0}
    BY <1>0, <2>1 DEF UsedBy, IsMapped
  <2>3. TableFrames(q) = TableFrames(pr)
    BY <2>1 DEF TableFrames
  <2>4. Mine(q, X) \subseteq Mine(pr, X) \union ({g} \ (IF v \in X THEN {g} ELSE {}))
    BY <2>1, <2>2, <2>3 DEF Mine
  <2>5. v \in UsedBy(q, X) => g \in m.taken \ (kernel \union Reserved \union Mine(pr, X))
    BY <2>2
  <2>6. Mine(q, X) \subseteq m.taken \ (kernel \union Reserved)
    BY <2>1, <2>2, <2>3, <2>5 DEF Mine, Own
  <2>7. Apart(q, X)
    <3>1. \A a, b \in UsedBy(q, X) : q.pages[a] = q.pages[b] => a = b
      BY <2>2, <2>5 DEF Own, Apart, Mine
    <3>2. \A a \in UsedBy(q, X) : \A j \in Table : q.pages[a] # q.tables[j]
      BY <2>1, <2>2, <2>5 DEF Own, Apart, Mine, TableFrames
    <3>3. \A a \in UsedBy(q, X) : q.pages[a] # q.dir
      BY <2>1, <2>2, <2>5 DEF Own, Apart, Mine
    <3> QED
      BY <2>1, <3>1, <3>2, <3>3 DEF Own, Apart
  <2> QED
    BY <2>1, <2>4, <2>6, <2>7 DEF r, Own
<1>3. ASSUME pr.tables[i] = None, NEW t \in Free(m) \intersect (Frame \ Reserved),
             r = [ok |-> TRUE, mem |-> Take(m, t), proc |-> WithTable(pr, v, g, i, t)]
      PROVE  Goal(r)
  <2> DEFINE q == r.proc
  <2>0. t \in Entry /\ t # None
    BY RegionIs DEF Entry, Frame, None
  <2>1. /\ r.ok = TRUE /\ r.mem = Take(m, t) /\ q \in Process
        /\ q.pages = [pr.pages EXCEPT ![v] = g] /\ q.tables = [pr.tables EXCEPT ![i] = t] /\ q.dir = pr.dir
        /\ q.threads = pr.threads
        /\ q.heapStart = pr.heapStart /\ q.heapEnd = pr.heapEnd /\ q.heapMax = pr.heapMax
    BY <1>0, <1>3, <2>0, WithTableIs DEF SameRest
  <2>a. Counted(r.mem) /\ t \notin m.taken /\ r.mem.taken = m.taken \union {t}
    BY <2>1, TakeCounts
  <2> HIDE DEF r
  <2>2. /\ \A w \in UsedBy(q, X) : w # v => w \in UsedBy(pr, X) /\ q.pages[w] = pr.pages[w]
        /\ v \in UsedBy(q, X) => v \notin X /\ q.pages[v] = g /\ g \notin {None, 0}
    BY <1>0, <2>1 DEF UsedBy, IsMapped
  <2>3. /\ q.tables[i] = t /\ \A j \in Table \ {i} : q.tables[j] = pr.tables[j]
        /\ TableFrames(q) \subseteq TableFrames(pr) \union {t}
    BY <1>0, <2>1 DEF TableFrames
  <2>4. Mine(q, X) \subseteq Mine(pr, X) \union {t} \union ({g} \ (IF v \in X THEN {g} ELSE {}))
    BY <2>1, <2>2, <2>3 DEF Mine
  <2>5. v \in UsedBy(q, X) => g \in m.taken \ (kernel \union Reserved \union Mine(pr, X))
    BY <2>2
  <2>6. t \notin Mine(pr, X) /\ t \notin kernel \union Reserved
    BY <2>a DEF Own
  <2>7. Mine(q, X) \subseteq r.mem.taken \ (kernel \union Reserved)
    BY <2>1, <2>2, <2>3, <2>5, <2>6, <2>a DEF Mine, Own
  <2>8. Apart(q, X)
    <3>1. \A a, b \in UsedBy(q, X) : q.pages[a] = q.pages[b] => a = b
      BY <2>2, <2>5 DEF Own, Apart, Mine
    <3>2. \A a \in UsedBy(q, X) : q.pages[a] \in m.taken
      BY <2>2, <2>5 DEF Own, Mine
    <3>3. \A a \in UsedBy(q, X) : \A j \in Table \ {i} : q.pages[a] # q.tables[j]
      <4>1. \A a \in UsedBy(q, X), j \in Table \ {i} : q.pages[a] # None
        BY DEF UsedBy, IsMapped
      <4> QED
        BY <2>2, <2>3, <2>5, <4>1 DEF Own, Apart, Mine, TableFrames
    <3>4. \A a \in UsedBy(q, X) : q.pages[a] # q.dir
      BY <2>1, <2>2, <2>5 DEF Own, Apart, Mine
    <3>5. \A j \in Table \ {i} : q.tables[j] # t
      BY <2>0, <2>3, <2>6 DEF Mine, TableFrames
    <3>6. t # q.dir
      BY <2>1, <2>6 DEF Mine
    <3>7. \A a, b \in Table : q.tables[a] # None /\ q.tables[a] = q.tables[b] => a = b
      BY <2>3, <3>5 DEF Own, Apart
    <3>8. \A a \in UsedBy(q, X) : \A j \in Table : q.pages[a] # q.tables[j]
      BY <2>3, <2>a, <3>2, <3>3
    <3>9. \A j \in Table : q.tables[j] # q.dir
      BY <2>1, <2>3, <3>6 DEF Own, Apart
    <3> QED
      BY <3>1, <3>4, <3>7, <3>8, <3>9 DEF Apart
  <2> QED
    BY <2>1, <2>4, <2>7, <2>8, <2>a DEF r, Own
<1> QED
  <2>1. \/ r = [ok |-> FALSE, mem |-> m, proc |-> pr]
        \/ r = [ok |-> TRUE, mem |-> m, proc |-> With(pr, v, g)] /\ pr.tables[i] # None
        \/ pr.tables[i] = None /\
           \E t \in Free(m) \intersect (Frame \ Reserved) :
             r = [ok |-> TRUE, mem |-> Take(m, t), proc |-> WithTable(pr, v, g, i, t)]
    BY MapPageIs
  <2> HIDE DEF r, Goal
  <2>2. Goal(r)
    BY <1>1, <1>2, <1>3, <2>1
  <2> QED
    BY <2>2 DEF Goal, r
----------------------------------------------------------------------------
(* The boot.                                                               *)
LEMMA InitInd == Init => Ind
<1> SUFFICES ASSUME Init PROVE Ind
  OBVIOUS
<1>1. /\ boot = "pmm_init" /\ mem = [taken |-> {}, used |-> 0] /\ kernel = {}
      /\ procs = [p \in Pid |-> Gone] /\ task = Idle /\ nextPid = 1 /\ nextTid = 1
  BY DEF Init, MemoryInit
<1>2. /\ MaxPid \in Nat /\ MaxTid \in Nat
  BY SpaceAssumption
<1>3. \A p \in Pid : procs[p] = Gone /\ ~procs[p].live
  BY <1>1 DEF Gone
<1>4. LivePids = {}
  BY <1>3 DEF LivePids
<1>5. TypeOK
  BY <1>1, <1>2, <1>3 DEF TypeOK, BootSteps, Task
<1>6. Booting
  BY <1>1, <1>3 DEF Booting
<1>7. Spaces /\ Stacks /\ Heaps
  BY <1>1, <1>4 DEF Spaces, Stacks, Heaps, StackTask, HeapTask, Idle
<1> QED
  BY <1>5, <1>6, <1>7 DEF Ind

(* There is no process while the machine boots.                            *)
LEMMA NoSpaces ==
  ASSUME Ind, boot # "up", UNCHANGED spaceVars
  PROVE  /\ Spaces' /\ Stacks' /\ Heaps' /\ task' = Idle /\ \A p \in Pid : procs'[p] = Gone
         /\ procs' \in [Pid -> Process \union {Gone}]
         /\ task' \in Task /\ (task' \notin {Idle, Undefined} => task'.pid \in LivePids')
         /\ nextPid' \in 1 .. MaxPid + 1 /\ nextTid' \in 1 .. MaxTid + 1
<1>1. /\ procs' = procs /\ task' = task /\ nextPid' = nextPid /\ nextTid' = nextTid
      /\ task = Idle /\ \A p \in Pid : procs[p] = Gone
  BY DEF spaceVars, Ind, Booting
<1>2. LivePids' = {}
  BY <1>1 DEF LivePids, Gone
<1>3. Spaces' /\ Stacks' /\ Heaps'
  BY <1>1, <1>2 DEF Spaces, Stacks, Heaps, StackTask, HeapTask, Idle
<1> QED
  BY <1>1, <1>3 DEF Ind, TypeOK

(* pmm_init() keeps the invariant.                                         *)
LEMMA PmmInitKeeps ==
  ASSUME Ind, PmmInit, UNCHANGED spaceVars
  PROVE  Ind'
<1>1. /\ boot = "pmm_init" /\ boot' = "init_region" /\ kernel' = kernel
      /\ mem' = [taken |-> 0 .. Frames - 1, used |-> Frames]
  BY DEF PmmInit
<1>2. mem'.taken \subseteq Bits /\ mem'.used \in Nat
  BY <1>1, RegionIs DEF Bits
<1>3. TypeOK'
  BY <1>1, <1>2, NoSpaces DEF TypeOK, BootSteps, Ind
<1>4. Booting'
  BY <1>1, NoSpaces DEF Booting
<1> QED
  BY <1>1, <1>3, <1>4, NoSpaces DEF Ind

(* pmm_init_region() leaves exactly the reserved frames taken, though it   *)
(* clears bits past the end of RAM.                                        *)
LEMMA InitRegionKeeps ==
  ASSUME Ind, InitRegion, UNCHANGED spaceVars
  PROVE  Ind'
<1>1. /\ boot = "init_region" /\ boot' = "heap" /\ kernel' = kernel
      /\ mem' = [taken |-> mem.taken \ (RegionAt .. RegionAt + Frames - 1), used |-> mem.used - Frames]
      /\ mem = [taken |-> 0 .. Frames - 1, used |-> Frames]
  BY DEF InitRegion, Ind, Booting
<1>2. mem'.used = 0
  BY <1>1, RegionIs
<1>3. mem'.taken = Reserved
  <2>1. mem'.taken = (0 .. Frames - 1) \ (RegionAt .. RegionAt + Frames - 1)
    BY <1>1
  <2> QED
    BY <2>1, RegionIs DEF Reserved
<1>4. Cardinality(Reserved) = RegionAt
  <2>1. 0 \in Int /\ RegionAt - 1 \in Int
    BY RegionIs
  <2> QED
    BY <2>1, FS_Interval, RegionIs DEF Reserved
<1>5. Reserved \subseteq Bits
  BY RegionIs DEF Reserved, Bits
<1>6. mem' = [taken |-> Reserved, used |-> 0]
  BY <1>1, <1>2, <1>3
<1>7. mem' \in [taken : SUBSET Bits, used : Nat]
  BY <1>5, <1>6
<1>8. Counted(mem)'
  BY <1>2, <1>3, <1>4, <1>7, RegionIs DEF Counted
<1>9. TypeOK'
  BY <1>1, <1>5, <1>6, NoSpaces DEF TypeOK, BootSteps, Ind
<1>10. Booting'
  BY <1>1, <1>3, <1>8, NoSpaces DEF Booting
<1> QED
  BY <1>1, <1>9, <1>10, NoSpaces DEF Ind

(* The kernel heap is the first run of free frames, and ends in RAM.       *)
LEMMA AllocHeapKeeps ==
  ASSUME Ind, AllocHeap, UNCHANGED spaceVars
  PROVE  Ind'
<1> DEFINE n == HeapEnd - HeapAt
           runs == AllocBlocks(mem, n)
           heap == Min(runs) .. Min(runs) + n - 1
<1>1. boot = "heap" /\ Counted(mem) /\ mem.taken = Reserved
  BY DEF AllocHeap, Ind, Booting
<1>2. CASE boot' = "halted" /\ UNCHANGED <<mem, kernel>>
  <2>1. TypeOK'
    BY <1>1, <1>2, NoSpaces DEF TypeOK, BootSteps, Ind
  <2>2. Booting'
    BY <1>1, <1>2, NoSpaces DEF Booting, Counted
  <2> QED
    BY <1>1, <2>1, <2>2, NoSpaces DEF Ind
<1>3. ASSUME n > 0, runs # {}, boot' = "paging", kernel' = heap,
             mem' = [taken |-> mem.taken \union heap, used |-> mem.used + n]
      PROVE  Ind'
  <2>1. n \in Nat /\ n < Frames
    BY <1>3, RegionIs
  <2>2. runs = Runs(mem, n)
    BY <1>3 DEF AllocBlocks
  <2>3. Free(mem) \in SUBSET Nat /\ \A f \in Free(mem) : f >= RegionAt
    BY <1>1, RegionIs DEF Free, Bits, Counted, Reserved
  <2>4. runs \in SUBSET Nat
    BY <2>2, <2>3 DEF Runs
  <2>5. Min(runs) \in runs /\ \A i \in runs : Min(runs) <= i
    BY <1>3, <2>4, MinOfNats
  <2> DEFINE a == Min(runs)
  <2> HIDE DEF a, runs
  <2>6. a \in Free(mem) /\ a .. a + n - 1 \subseteq Free(mem) /\ a \in Nat /\ RegionAt <= a
    BY <2>2, <2>3, <2>5 DEF Runs, a
  <2>7. RegionAt \in runs
    <3>1. Free(mem) = RegionAt .. Frames + RegionAt - 1
      BY <1>1, RegionIs DEF Free, Bits, Reserved
    <3>2. RegionAt .. RegionAt + n - 1 \subseteq RegionAt .. Frames + RegionAt - 1
      BY <2>1, RegionIs
    <3> QED
      BY <2>2, <3>1, <3>2, RegionIs DEF Runs
  <2>8. a <= RegionAt
    BY <2>5, <2>7 DEF a
  <2>9. a + n - 1 < Frames
    BY <2>1, <2>6, <2>8, RegionIs
  <2>10. heap = a .. a + n - 1
    BY DEF a
  <2> HIDE DEF n, heap
  <2>11. heap \subseteq Frame /\ heap \subseteq Free(mem) /\ heap # {}
    <3>1. heap \subseteq Frame
      BY <2>1, <2>6, <2>9, <2>10, RegionIs DEF Frame
    <3>2. a \in heap
      BY <1>3, <2>1, <2>6, <2>10
    <3> QED
      BY <2>6, <2>10, <3>1, <3>2
  <2>12. Cardinality(heap) = n
    <3>1. a \in Int /\ a + n - 1 \in Int /\ a <= a + n - 1
      BY <1>3, <2>1, <2>6
    <3>2. Cardinality(heap) = (a + n - 1) - a + 1
      BY <2>10, <3>1, FS_Interval
    <3> QED
      BY <2>1, <2>6, <3>2
  <2>13. Cardinality(mem.taken \union heap) = Cardinality(mem.taken) + n
    <3>1. mem.taken \in SUBSET Bits /\ heap \in SUBSET Bits /\ mem.taken \intersect heap = {}
      BY <1>1, <2>11 DEF Counted, Free
    <3>2. Cardinality(mem.taken \union heap) = Cardinality(mem.taken) + Cardinality(heap) - Cardinality(mem.taken \intersect heap)
      BY <3>1, BitsFinite, FS_Union
    <3>3. Cardinality(mem.taken \intersect heap) = 0
      BY <3>1, FS_EmptySet
    <3>4. Cardinality(mem.taken) \in Nat
      BY <3>1, BitsFinite
    <3> QED
      BY <2>1, <2>12, <3>2, <3>3, <3>4
  <2>14. mem'.taken = mem.taken \union heap /\ mem'.used = mem.used + n
    BY <1>3
  <2>15. mem' \in [taken : SUBSET Bits, used : Nat]
    <3>1. mem.taken \union heap \in SUBSET Bits /\ mem.used + n \in Nat
      BY <1>1, <2>1, <2>11 DEF Counted, Free
    <3> QED
      BY <1>3, <3>1
  <2>16. Counted(mem)'
    <3>1. mem'.used + RegionAt = Cardinality(mem'.taken)
      BY <1>1, <2>1, <2>13, <2>14, RegionIs DEF Counted
    <3> QED
      BY <1>1, <2>14, <2>15, <3>1 DEF Counted
  <2>17. kernel' # {} /\ kernel' \subseteq mem'.taken \ Reserved
    BY <1>1, <1>3, <2>11, <2>14 DEF Counted, Free
  <2>18. TypeOK'
    BY <1>3, <2>11, <2>15, NoSpaces, <1>1 DEF TypeOK, BootSteps, Ind
  <2>19. Booting'
    BY <1>1, <1>3, <2>16, <2>17, NoSpaces DEF Booting
  <2> QED
    BY <1>1, <2>18, <2>19, NoSpaces DEF Ind
<1> QED
  BY <1>2, <1>3, RegionIs DEF AllocHeap

(* Paging::Activate() and the trampoline take low frames.                  *)
LEMMA KernelFrameKeeps ==
  ASSUME Ind, KernelFrame, UNCHANGED spaceVars
  PROVE  Ind'
<1>1. boot = "paging" /\ Counted(mem) /\ kernel # {} /\ kernel \subseteq mem.taken \ Reserved
      /\ kernel \subseteq Frame
  BY DEF KernelFrame, Ind, Booting, TypeOK
<1>2. ASSUME boot' \in {"up", "halted"}, UNCHANGED <<mem, kernel>>
      PROVE  Ind'
  <2>1. Spaces' /\ Stacks' /\ Heaps'
    BY <1>1, NoSpaces
  <2>2. TypeOK'
    BY <1>1, <1>2, NoSpaces DEF TypeOK, BootSteps, Ind
  <2>3. Booting'
    BY <1>1, <1>2, NoSpaces DEF Booting, Counted
  <2> QED
    BY <2>1, <2>2, <2>3 DEF Ind
<1>3. ASSUME AllocLow(mem) # None, mem' = Take(mem, AllocLow(mem)),
             kernel' = kernel \union {AllocLow(mem)}, boot' = boot
      PROVE  Ind'
  <2>1. PICK f : f = AllocLow(mem)
    OBVIOUS
  <2>2. f \in Free(mem) /\ f \in Frame \ Reserved
    BY <1>1, <1>3, <2>1, AllocLowIs
  <2>3. Counted(Take(mem, f)) /\ Take(mem, f).taken = mem.taken \union {f}
    BY <1>1, <2>2, TakeCounts
  <2>4. Counted(mem)' /\ mem'.taken = mem.taken \union {f}
    BY <1>3, <2>1, <2>3 DEF Counted
  <2>5. kernel' = kernel \union {f}
    BY <1>3, <2>1
  <2>6. TypeOK'
    <3>1. mem'.taken \subseteq Bits /\ mem'.used \in Nat
      BY <2>4 DEF Counted
    <3> QED
      BY <1>1, <1>3, <2>2, <2>5, <3>1, NoSpaces DEF TypeOK, BootSteps, Ind
  <2>7. Booting'
    BY <1>1, <1>3, <2>2, <2>4, <2>5, NoSpaces DEF Booting
  <2> QED
    BY <1>1, <2>6, <2>7, NoSpaces DEF Ind
<1> QED
  BY <1>2, <1>3 DEF KernelFrame

(* The boot keeps the invariant.                                           *)
LEMMA BootKeeps ==
  ASSUME Ind, BootStep
  PROVE  Ind'
BY PmmInitKeeps, InitRegionKeeps, AllocHeapKeeps, KernelFrameKeeps DEF BootStep, Boot
----------------------------------------------------------------------------
(* One process changes.                                                    *)
LEMMA LiveIs ==
  ASSUME TypeOK, NEW p \in Pid
  PROVE  /\ p \in LivePids <=> procs[p] \in Process
         /\ p \notin LivePids <=> procs[p] = Gone
<1>1. procs[p] = Gone \/ procs[p] \in Process
  BY DEF TypeOK
<1>2. ~Gone.live
  BY DEF Gone
<1>3. \A pr \in Process : pr.live = TRUE
  BY DEF Process
<1> QED
  BY <1>1, <1>2, <1>3 DEF LivePids

(* Nobody else's frames are touched by a process that gives back only      *)
(* frames of its own and takes only free ones.                             *)
LEMMA SpacesKeep ==
  ASSUME Ind, kernel' = kernel, NEW p \in Pid,
         \A q \in Pid \ {p} : procs'[q] = procs[q] /\ Making(q)' = Making(q),
         mem.taken \ Owns(p) \subseteq mem'.taken,
         p \in LivePids' => /\ Own(mem, procs[p], Excluded(p))'
                            /\ Owns(p)' \subseteq Owns(p) \union (mem'.taken \ mem.taken)
  PROVE  Spaces'
<1>1. ASSUME NEW q \in Pid, q # p
      PROVE  /\ q \in LivePids' <=> q \in LivePids
             /\ Excluded(q)' = Excluded(q) /\ Owns(q)' = Owns(q)
             /\ procs'[q] = procs[q]
  <2>1. procs'[q] = procs[q] /\ Making(q)' = Making(q)
    BY <1>1
  <2>2. Excluded(q)' = Excluded(q)
    BY <2>1 DEF Excluded
  <2>3. q \in LivePids' <=> q \in LivePids
    BY <2>1 DEF LivePids
  <2> QED
    BY <2>1, <2>2, <2>3 DEF Owns
<1>2. \A q \in LivePids : Owns(q) \subseteq mem.taken /\ q \in Pid
  BY DEF Ind, Spaces, Own, Owns, LivePids
<1>3. \A q \in LivePids : p \in LivePids /\ q # p => Owns(q) \intersect Owns(p) = {}
  BY DEF Ind, Spaces
<1>4. p \notin LivePids => Owns(p) = {}
  BY DEF Owns
<1>5. \A q \in LivePids \ {p} : Owns(q) \intersect Owns(p) = {}
  BY <1>3, <1>4
<1>6. ASSUME NEW q \in LivePids', q # p
      PROVE  Own(mem, procs[q], Excluded(q))' /\ Owns(q)' \subseteq mem.taken \ Owns(p)
             /\ Owns(q)' = Owns(q) /\ q \in LivePids
  <2>1. q \in Pid
    BY <1>6 DEF LivePids
  <2>2. q \in LivePids /\ Excluded(q)' = Excluded(q) /\ Owns(q)' = Owns(q) /\ procs'[q] = procs[q]
    BY <1>1, <1>6, <2>1
  <2>3. Own(mem, procs[q], Excluded(q)) /\ Owns(q) = Mine(procs[q], Excluded(q))
    BY <2>2 DEF Ind, Spaces, Owns
  <2>4. Owns(q) \subseteq mem.taken \ Owns(p)
    BY <1>2, <1>5, <1>6, <2>2
  <2> QED
    BY <2>2, <2>3, <2>4 DEF Own
<1>7. \A q \in LivePids' : Own(mem, procs[q], Excluded(q))'
  BY <1>6
<1>8. ASSUME NEW a \in LivePids', NEW b \in LivePids', a # b
      PROVE  Owns(a)' \intersect Owns(b)' = {}
  <2>1. CASE a # p /\ b # p
    BY <1>6, <1>8, <2>1 DEF Ind, Spaces
  <2>2. CASE a = p
    BY <1>6, <1>8, <2>2
  <2>3. CASE b = p
    BY <1>6, <1>8, <2>3
  <2> QED
    BY <2>1, <2>2, <2>3
<1> QED
  BY <1>7, <1>8 DEF Spaces

(* A step of the running system keeps the invariant if it keeps the part   *)
(* of the one process it changes.                                          *)
LEMMA StepKeeps ==
  ASSUME Ind, boot = "up", boot' = boot, kernel' = kernel, Counted(mem)',
         NEW p \in Pid,
         \A q \in Pid \ {p} : procs'[q] = procs[q] /\ Making(q)' = Making(q),
         procs' \in [Pid -> Process \union {Gone}],
         task' \in Task, task' \notin {Idle, Undefined} => task'.pid \in LivePids',
         nextPid' \in nextPid .. MaxPid + 1, p < nextPid',
         nextTid' \in nextTid .. MaxTid + 1,
         mem.taken \ Owns(p) \subseteq mem'.taken,
         p \in LivePids' => /\ Own(mem, procs[p], Excluded(p))'
                            /\ Owns(p)' \subseteq Owns(p) \union (mem'.taken \ mem.taken)
                            /\ StacksOf(procs[p], nextTid)' /\ HeapOf(procs[p])',
         StackTask', HeapTask'
  PROVE  Ind'
<1>0. /\ nextPid \in 1 .. MaxPid + 1 /\ nextTid \in 1 .. MaxTid + 1
      /\ MaxPid \in Nat /\ MaxTid \in Nat
  BY SpaceAssumption DEF Ind, TypeOK
<1>1. Spaces'
  BY SpacesKeep
<1>2. kernel \subseteq mem'.taken \ Reserved /\ kernel # {}
  <2>1. kernel \subseteq mem.taken \ Reserved /\ kernel # {}
    BY DEF Ind, Booting
  <2>2. Owns(p) \intersect kernel = {}
    BY DEF Ind, Spaces, Own, Owns
  <2> QED
    BY <2>1, <2>2
<1>3. TypeOK'
  <2>1. mem'.taken \subseteq Bits /\ mem'.used \in Nat
    BY DEF Counted
  <2>3. nextPid' \in 1 .. MaxPid + 1 /\ nextTid' \in 1 .. MaxTid + 1
    BY <1>0
  <2>4. boot' \in BootSteps /\ kernel' \subseteq Frame
    BY DEF Ind, TypeOK
  <2> QED
    BY <2>1, <2>3, <2>4 DEF TypeOK
<1>4. Booting'
  <2>1. \A q \in Pid : q >= nextPid' => procs'[q] = Gone
    <3> TAKE q \in Pid
    <3>1. q \in Int /\ p \in Int
      BY DEF Pid
    <3>2. CASE q = p
      BY <1>0, <3>1, <3>2
    <3>3. CASE q # p
      BY <1>0, <3>1, <3>3 DEF Ind, Booting
    <3> QED
      BY <3>2, <3>3
  <2> QED
    BY <1>2, <2>1 DEF Booting
<1>5. Stacks'
  <2>1. ASSUME NEW q \in LivePids', q # p
        PROVE  StacksOf(procs[q], nextTid)'
    <3>1. procs'[q] = procs[q] /\ q \in LivePids
      BY <2>1 DEF LivePids
    <3>2. StacksOf(procs[q], nextTid) /\ procs[q] \in Process
      BY <3>1, LiveIs DEF Ind, Stacks, LivePids
    <3>3. \A t \in Tid : t \in Int
      BY DEF Tid
    <3>4. procs[q].threads \subseteq Tid
      BY <3>2 DEF Process
    <3>5. \A t \in procs[q].threads : t < nextTid'
      BY <1>0, <3>2, <3>3, <3>4 DEF StacksOf
    <3>6. \A t \in Tid : t >= nextTid' => t >= nextTid
      BY <1>0, <3>3
    <3> QED
      BY <3>1, <3>2, <3>5, <3>6 DEF StacksOf
  <2> QED
    BY <2>1 DEF Stacks
<1>6. Heaps'
  <2>1. ASSUME NEW q \in LivePids', q # p
        PROVE  HeapOf(procs[q])'
    <3>1. procs'[q] = procs[q] /\ q \in LivePids
      BY <2>1 DEF LivePids
    <3> QED
      BY <3>1 DEF Ind, Heaps, HeapOf
  <2> QED
    BY <2>1 DEF Heaps
<1> QED
  BY <1>1, <1>3, <1>4, <1>5, <1>6 DEF Ind

(* What is known while a task is under way.                                *)
LEMMA Working ==
  ASSUME Ind, task \notin {Idle, Undefined}
  PROVE  /\ boot = "up" /\ task.pid \in LivePids /\ task.pid \in Pid /\ task.pid < nextPid
         /\ nextPid \in nextPid .. MaxPid + 1 /\ nextTid \in nextTid .. MaxTid + 1
<1>1. task.pid \in LivePids /\ task.pid \in Pid
  BY DEF Ind, TypeOK, LivePids
<1>2. boot = "up"
  BY DEF Ind, Booting
<1>3. procs[task.pid] # Gone
  BY <1>1 DEF LivePids, Gone
<1>4. nextPid \in 1 .. MaxPid + 1 /\ nextTid \in 1 .. MaxTid + 1 /\ MaxPid \in Nat /\ MaxTid \in Nat
  BY SpaceAssumption DEF Ind, TypeOK
<1>5. task.pid < nextPid
  BY <1>1, <1>3, <1>4 DEF Ind, Booting, Pid
<1> QED
  BY <1>1, <1>2, <1>4, <1>5

(* What is known of a process that has not ended.                          *)
LEMMA Living ==
  ASSUME Ind, boot = "up", NEW p \in LivePids
  PROVE  /\ p \in Pid /\ procs[p] \in Process /\ Counted(mem) /\ p < nextPid
         /\ kernel \subseteq mem.taken \ Reserved
         /\ Own(mem, procs[p], Excluded(p)) /\ Owns(p) = Mine(procs[p], Excluded(p))
         /\ StacksOf(procs[p], nextTid) /\ HeapOf(procs[p])
<1>1. p \in Pid
  BY DEF LivePids
<1>2. procs[p] \in Process /\ procs[p] # Gone
  BY <1>1, LiveIs DEF Ind
<1>3. p < nextPid
  <2>1. nextPid \in 1 .. MaxPid + 1 /\ MaxPid \in Nat
    BY SpaceAssumption DEF Ind, TypeOK
  <2> QED
    BY <1>1, <1>2, <2>1 DEF Ind, Booting, Pid
<1> QED
  BY <1>1, <1>2, <1>3 DEF Ind, Booting, Spaces, Stacks, Heaps, Owns

(* A step that changes no process and no frame, outside the making of      *)
(* stacks.                                                                 *)
LEMMA OtherTaskKeeps ==
  ASSUME Ind, task \notin {Idle, Undefined}, task.op # "stack",
         UNCHANGED <<boot, mem, kernel, procs, nextPid, nextTid>>,
         task' \in Task, task'.op # "stack",
         task' \notin {Idle, Undefined} => task'.pid = task.pid,
         HeapTask'
  PROVE  Ind'
<1>1. PICK p : p = task.pid
  OBVIOUS
<1>2. p \in LivePids /\ p \in Pid /\ boot = "up" /\ p < nextPid
  BY <1>1, Working
<1>3. \A q \in Pid : Making(q)' = {} /\ Making(q) = {} /\ procs'[q] = procs[q]
  BY DEF Making
<1>4. LivePids' = LivePids
  BY DEF LivePids
<1>5. Excluded(p)' = Excluded(p) /\ Owns(p)' = Owns(p)
  BY <1>2, <1>3, <1>4 DEF Excluded, Owns
<1>6. /\ Own(mem, procs[p], Excluded(p))' /\ StacksOf(procs[p], nextTid)' /\ HeapOf(procs[p])'
      /\ Counted(mem)'
  BY <1>2, <1>5, Living DEF Own, StacksOf, HeapOf, Counted
<1>a. procs' \in [Pid -> Process \union {Gone}]
  BY DEF Ind, TypeOK
<1>7. StackTask'
  BY DEF StackTask
<1>8. nextPid' \in nextPid .. MaxPid + 1 /\ nextTid' \in nextTid .. MaxTid + 1 /\ p < nextPid'
  BY <1>2, Working
<1>9. task' \notin {Idle, Undefined} => task'.pid \in LivePids'
  BY <1>1, <1>2, <1>4
<1>10. boot' = boot /\ kernel' = kernel
  OBVIOUS
<1>11. mem.taken \ Owns(p) \subseteq mem'.taken /\ Owns(p)' \subseteq Owns(p) \union (mem'.taken \ mem.taken)
  BY <1>5
<1> QED
  BY <1>2, <1>3, <1>6, <1>a, <1>7, <1>8, <1>9, <1>10, <1>11, StepKeeps

(* The fields of the task under way.                                       *)
LEMMA TaskIs ==
  ASSUME TypeOK
  PROVE  /\ task.op = "headers" => task \in [op : {"headers"}, pid : Pid, image : ImageSizes]
         /\ task.op = "stack" => task \in [op : {"stack"}, pid : Pid, tid : Tid, page : Page,
                                           then : {"idle", "headers"}, image : ImageSizes \union {0}]
         /\ task.op = "image" => task \in [op : {"image"}, pid : Pid, page : Page, end : Page]
         /\ task.op = "heap" => task \in [op : {"heap"}, pid : Pid, start : Page, page : Page]
         /\ task.op = "sbrk" => task \in [op : {"sbrk"}, pid : Pid, page : Page, brk : Nat]
         /\ task.op \notin {"idle", "undefined"} => task \notin {Idle, Undefined}
BY DEF TypeOK, Task, Idle, Undefined

(* loadELF() gives up on the headers.                                      *)
LEMMA HeadersUnreadKeeps ==
  ASSUME Ind, HeadersUnread
  PROVE  Ind'
<1>1. task.op = "headers" /\ task \notin {Idle, Undefined}
  BY TaskIs DEF HeadersUnread, Ind
<1>2. task' = Idle /\ UNCHANGED <<boot, mem, kernel, procs, nextPid, nextTid>>
  BY DEF HeadersUnread
<1>3. task' \in Task /\ task'.op # "stack" /\ HeapTask'
  BY <1>2 DEF Task, Idle, HeapTask
<1> QED
  BY <1>1, <1>2, <1>3, OtherTaskKeeps

(* loadELF() goes on to the program.                                       *)
LEMMA HeadersReadKeeps ==
  ASSUME Ind, HeadersRead
  PROVE  Ind'
<1>1. /\ task.op = "headers" /\ task \notin {Idle, Undefined}
      /\ task \in [op : {"headers"}, pid : Pid, image : ImageSizes]
  BY TaskIs DEF HeadersRead, Ind
<1>2. /\ task' = [op |-> "image", pid |-> task.pid, page |-> ImageAt, end |-> ImageAt + task.image]
      /\ UNCHANGED <<boot, mem, kernel, procs, nextPid, nextTid>>
  BY DEF HeadersRead
<1>3. PICK n \in ImageSizes : n = task.image
  BY <1>1
<1>4. /\ n \in Nat /\ ImageAt \in Nat /\ ImageAt + n + InitialHeap + HeapRoom <= Trampoline
      /\ InitialHeap \in Nat /\ HeapRoom \in Nat /\ Trampoline \in 0 .. StackTop - 1 /\ StackTop \in Nat
  BY LayoutAssumption, SpaceAssumption DEF Page
<1>5. ImageAt \in Page /\ ImageAt + n \in Page /\ ImageAt <= ImageAt + n
  BY <1>4 DEF Page
<1>6. task' \in Task /\ task'.op = "image" /\ task'.pid = task.pid
  BY <1>1, <1>2, <1>3, <1>5 DEF Task
<1>7. task'.page = ImageAt /\ task'.end = ImageAt + n
  BY <1>2, <1>3
<1>8. HeapTask'
  BY <1>4, <1>5, <1>6, <1>7 DEF HeapTask
<1> QED
  BY <1>1, <1>2, <1>6, <1>8, OtherTaskKeeps

(* loadELF() goes on to the heap.                                          *)
LEMMA ImageLoadedKeeps ==
  ASSUME Ind, ImageLoaded
  PROVE  Ind'
<1>1. /\ task.op = "image" /\ task \notin {Idle, Undefined}
      /\ task \in [op : {"image"}, pid : Pid, page : Page, end : Page]
  BY TaskIs DEF ImageLoaded, Ind
<1>2. /\ task' = [op |-> "heap", pid |-> task.pid, start |-> task.end, page |-> task.end]
      /\ UNCHANGED <<boot, mem, kernel, procs, nextPid, nextTid>>
  BY DEF ImageLoaded
<1>3. PICK e \in Page : e = task.end
  BY <1>1
<1>4. ImageAt <= task.page /\ task.page = e /\ e + InitialHeap + HeapRoom <= Trampoline
  BY <1>1, <1>3 DEF ImageLoaded, Ind, Heaps, HeapTask
<1>5. e \in Nat /\ InitialHeap \in Nat /\ e <= e + InitialHeap
  BY SpaceAssumption DEF Page
<1>6. task' \in Task /\ task'.op = "heap" /\ task'.pid = task.pid
  BY <1>1, <1>2, <1>3 DEF Task
<1>7. task'.page = e /\ task'.start = e
  BY <1>2, <1>3
<1>8. HeapTask'
  BY <1>4, <1>5, <1>6, <1>7 DEF HeapTask
<1> QED
  BY <1>1, <1>2, <1>6, <1>8, OtherTaskKeeps
----------------------------------------------------------------------------
(* A page with a frame of its own.                                         *)
LEMMA TakeMapIs ==
  ASSUME NEW m, Counted(m), kernel \subseteq m.taken, NEW pr \in Process, NEW X, Own(m, pr, X),
         NEW v \in Page, NEW f \in Free(m), f \in Frame \ Reserved,
         NEW r, r = MapPage(Take(m, f), pr, v, f)
  PROVE  /\ r.ok \in BOOLEAN /\ Counted(r.mem) /\ m.taken \union {f} \subseteq r.mem.taken
         /\ r.proc \in Process /\ Own(r.mem, r.proc, X)
         /\ Mine(r.proc, X) \subseteq Mine(pr, X) \union (r.mem.taken \ m.taken)
         /\ r.ok => IsMapped(r.proc, v)
         /\ \A w \in Page \ {v} : IsMapped(r.proc, w) <=> IsMapped(pr, w)
         /\ ~r.ok => r.mem = Take(m, f) /\ r.proc = pr
         /\ r.proc.dir = pr.dir /\ r.proc.threads = pr.threads
         /\ r.proc.heapStart = pr.heapStart /\ r.proc.heapEnd = pr.heapEnd /\ r.proc.heapMax = pr.heapMax
<1>1. PICK n : n = Take(m, f)
  OBVIOUS
<1>2. Counted(n) /\ f \notin m.taken /\ n.taken = m.taken \union {f}
  BY <1>1, TakeCounts
<1>3. Own(n, pr, X)
  BY <1>2 DEF Own
<1>4. f \in n.taken \ (kernel \union Reserved \union Mine(pr, X)) /\ f \in Entry /\ kernel \subseteq n.taken
  BY <1>2 DEF Own, Entry
<1>5. r = MapPage(n, pr, v, f)
  BY <1>1
<1>6. /\ r.ok \in BOOLEAN
      /\ Counted(r.mem) /\ n.taken \subseteq r.mem.taken
      /\ r.proc \in Process /\ Own(r.mem, r.proc, X)
      /\ Mine(r.proc, X) \subseteq Mine(pr, X) \union (r.mem.taken \ n.taken) \union ({f} \ (IF v \in X THEN {f} ELSE {}))
      /\ r.ok => r.proc.pages = [pr.pages EXCEPT ![v] = f]
      /\ ~r.ok => r.mem = n /\ r.proc = pr
      /\ r.proc.dir = pr.dir /\ r.proc.threads = pr.threads
      /\ r.proc.heapStart = pr.heapStart /\ r.proc.heapEnd = pr.heapEnd /\ r.proc.heapMax = pr.heapMax
  BY <1>2, <1>3, <1>4, <1>5, MapPageKeeps
<1>7. Mine(r.proc, X) \subseteq Mine(pr, X) \union (r.mem.taken \ m.taken)
  BY <1>2, <1>6
<1>8. f \notin {None, 0}
  <2>1. 0 \in Reserved
    BY RegionIs DEF Reserved
  <2> QED
    BY <2>1, RegionIs DEF Frame, None
<1>9. pr.pages \in [Page -> Entry]
  BY DEF Process
<1>10. /\ r.ok => IsMapped(r.proc, v)
       /\ \A w \in Page \ {v} : IsMapped(r.proc, w) <=> IsMapped(pr, w)
  BY <1>6, <1>8, <1>9 DEF IsMapped
<1> QED
  BY <1>1, <1>2, <1>6, <1>7, <1>10

(* A process changes below the trampoline, and keeps its threads.          *)
LEMMA GrowKeeps ==
  ASSUME Ind, boot = "up", UNCHANGED <<boot, kernel, nextPid, nextTid>>,
         NEW p \in LivePids, task.op # "stack", task'.op # "stack",
         Counted(mem)', mem.taken \subseteq mem'.taken,
         \A q \in Pid \ {p} : procs'[q] = procs[q],
         procs' \in [Pid -> Process \union {Gone}],
         procs'[p] \in Process, procs'[p].threads = procs[p].threads,
         Own(mem', procs'[p], Excluded(p)),
         Mine(procs'[p], Excluded(p)) \subseteq Owns(p) \union (mem'.taken \ mem.taken),
         \A w \in Page : w > Trampoline => (IsMapped(procs'[p], w) <=> IsMapped(procs[p], w)),
         HeapOf(procs'[p]), HeapTask',
         task' \in Task, task' \notin {Idle, Undefined} => task'.pid = p
  PROVE  Ind'
<1>1. p \in Pid /\ p < nextPid /\ procs[p] \in Process /\ StacksOf(procs[p], nextTid)
  BY Living
<1>2. \A q \in Pid : Making(q)' = {} /\ Making(q) = {}
  BY DEF Making
<1>3. Excluded(p)' = Excluded(p)
  BY <1>1, <1>2 DEF Excluded
<1>4. p \in LivePids'
  <2>1. procs'[p].live = TRUE
    BY DEF Process
  <2> QED
    BY <1>1, <2>1 DEF LivePids
<1>5. Owns(p)' = Mine(procs'[p], Excluded(p))
  BY <1>3, <1>4 DEF Owns
<1>6. Own(mem, procs[p], Excluded(p))'
  BY <1>3 DEF Own
<1>7. StacksOf(procs[p], nextTid)'
  <2>1. \A t \in Tid : \A v \in StackOf(t) : v \in Page /\ v > Trampoline
    <3> TAKE t \in Tid
    <3>1. /\ StackBase(t) \in Int /\ Trampoline < StackBase(t) /\ StackOf(t) \subseteq Page
      BY StackPlaces
    <3>2. Trampoline \in Int /\ StackPages \in Int
      BY SpaceAssumption DEF Page
    <3>3. \A v \in StackOf(t) : v \in Int /\ StackBase(t) <= v
      BY <3>1, <3>2 DEF StackOf
    <3> QED
      BY <3>1, <3>2, <3>3
  <2>2. procs[p].threads \subseteq Tid
    BY <1>1 DEF Process
  <2>3. \A t \in Tid : \A v \in StackOf(t) : IsMapped(procs'[p], v) <=> IsMapped(procs[p], v)
    BY <2>1
  <2> QED
    BY <1>1, <2>2, <2>3 DEF StacksOf
<1>8. StackTask'
  BY DEF StackTask
<1>9. nextPid' \in nextPid .. MaxPid + 1 /\ nextTid' \in nextTid .. MaxTid + 1 /\ p < nextPid'
  <2>1. nextPid \in 1 .. MaxPid + 1 /\ nextTid \in 1 .. MaxTid + 1 /\ MaxPid \in Nat /\ MaxTid \in Nat
    BY SpaceAssumption DEF Ind, TypeOK
  <2> QED
    BY <1>1, <2>1
<1>10. task' \notin {Idle, Undefined} => task'.pid \in LivePids'
  BY <1>4
<1>11. mem.taken \ Owns(p) \subseteq mem'.taken /\ Owns(p)' \subseteq Owns(p) \union (mem'.taken \ mem.taken)
  BY <1>5
<1>12. HeapOf(procs[p])'
  BY DEF HeapOf
<1> QED
  BY <1>1, <1>2, <1>6, <1>7, <1>8, <1>9, <1>10, <1>11, <1>12, StepKeeps

(* ... with the page that the task of p maps.                              *)
LEMMA PageKeeps ==
  ASSUME Ind, boot = "up", UNCHANGED <<boot, kernel, nextPid, nextTid>>,
         NEW p \in LivePids, task.op # "stack", task'.op # "stack",
         NEW v \in Page, v < Trampoline,
         NEW m, Counted(m), mem.taken \subseteq m.taken, mem' = m,
         NEW pr, pr \in Process, Own(m, pr, Excluded(p)),
         Mine(pr, Excluded(p)) \subseteq Owns(p) \union (m.taken \ mem.taken),
         procs' = [procs EXCEPT ![p] = pr],
         pr.threads = procs[p].threads, pr.heapEnd = procs[p].heapEnd, pr.heapMax = procs[p].heapMax,
         \A w \in Page \ {v} : IsMapped(pr, w) <=> IsMapped(procs[p], w),
         task' \in Task, task' \notin {Idle, Undefined} => task'.pid = p,
         HeapTask'
  PROVE  Ind'
<1>1. p \in Pid /\ HeapOf(procs[p])
  BY Living
<1>2. /\ procs'[p] = pr /\ \A q \in Pid \ {p} : procs'[q] = procs[q]
      /\ procs' \in [Pid -> Process \union {Gone}]
  BY <1>1 DEF Ind, TypeOK
<1>3. Counted(mem)'
  BY DEF Counted
<1>4. \A w \in Page : w > Trampoline => w # v
  BY SpaceAssumption DEF Page
<1>5. HeapOf(procs'[p]) /\ \A w \in Page : w > Trampoline => (IsMapped(procs'[p], w) <=> IsMapped(procs[p], w))
  BY <1>1, <1>2, <1>4 DEF HeapOf
<1>6. /\ procs'[p] \in Process /\ procs'[p].threads = procs[p].threads
      /\ Own(mem', procs'[p], Excluded(p))
      /\ Mine(procs'[p], Excluded(p)) \subseteq Owns(p) \union (mem'.taken \ mem.taken)
  BY <1>2
<1>7. mem.taken \subseteq mem'.taken
  OBVIOUS
<1> QED
  BY <1>2, <1>3, <1>5, <1>6, <1>7, GrowKeeps

(* ... or with its task alone.                                             *)
LEMMA TaskKeeps ==
  ASSUME Ind, task \notin {Idle, Undefined}, task.op # "stack", task'.op # "stack",
         UNCHANGED <<boot, kernel, nextPid, nextTid, procs>>,
         Counted(mem)', mem.taken \subseteq mem'.taken,
         task' \in Task, task' \notin {Idle, Undefined} => task'.pid = task.pid,
         HeapTask'
  PROVE  Ind'
<1>1. PICK p : p = task.pid
  OBVIOUS
<1>2. p \in LivePids /\ boot = "up"
  BY <1>1, Working
<1>3. procs[p] \in Process /\ Own(mem, procs[p], Excluded(p)) /\ HeapOf(procs[p])
      /\ Owns(p) = Mine(procs[p], Excluded(p))
  BY <1>2, Living
<1>4. Own(mem', procs'[p], Excluded(p))
  BY <1>3 DEF Own
<1>5. procs' \in [Pid -> Process \union {Gone}]
  BY DEF Ind, TypeOK
<1> QED
  BY <1>1, <1>2, <1>3, <1>4, <1>5, GrowKeeps

(* A page of a segment.                                                    *)
LEMMA ImagePageKeeps ==
  ASSUME Ind, ImagePage
  PROVE  Ind'
<1>1. /\ task.op = "image" /\ task \notin {Idle, Undefined}
      /\ task \in [op : {"image"}, pid : Pid, page : Page, end : Page]
  BY TaskIs DEF ImagePage, Ind
<1>2. PICK p : p = task.pid
  OBVIOUS
<1>3. PICK v : v = task.page
  OBVIOUS
<1>4. PICK e \in Page : e = task.end
  BY <1>1
<1>5. PICK f : f = AllocLow(mem)
  OBVIOUS
<1>6. PICK r : r = MapPage(Take(mem, f), procs[p], v, f)
  OBVIOUS
<1>7. p \in LivePids /\ p \in Pid /\ boot = "up" /\ v \in Page
  BY <1>1, <1>2, <1>3, Working
<1>8. /\ v < e /\ UNCHANGED <<boot, kernel, nextPid, nextTid>>
      /\ IF f = None THEN task' = Idle /\ UNCHANGED <<mem, procs>>
         ELSE /\ mem' = r.mem
              /\ procs' = [procs EXCEPT ![p] = r.proc]
              /\ task' = [task EXCEPT !.page = v + 1]
  BY <1>2, <1>3, <1>4, <1>5, <1>6 DEF ImagePage, SetProc
<1>9. /\ ImageAt <= v /\ v <= e /\ e + InitialHeap + HeapRoom <= Trampoline
      /\ InitialHeap \in Nat /\ HeapRoom \in Nat /\ ImageAt \in Nat /\ v \in Nat /\ e \in Nat /\ Trampoline \in Nat
      /\ StackTop \in Nat /\ e < StackTop
  BY <1>1, <1>3, <1>4, SpaceAssumption DEF Ind, Heaps, HeapTask, Page
<1>10. CASE f = None
  <2>1. task' \in Task /\ task' = Idle /\ task'.op # "stack" /\ HeapTask'
    BY <1>8, <1>10 DEF Task, Idle, HeapTask
  <2>2. Counted(mem)'
    BY <1>7, <1>8, <1>10, Living DEF Counted
  <2> QED
    BY <1>1, <1>8, <1>10, <2>1, <2>2, TaskKeeps
<1>11. CASE f # None
  <2>1. /\ procs[p] \in Process /\ Counted(mem) /\ kernel \subseteq mem.taken
        /\ Own(mem, procs[p], Excluded(p)) /\ Owns(p) = Mine(procs[p], Excluded(p))
    BY <1>7, Living
  <2>2. f \in Free(mem) /\ f \in Frame \ Reserved
    BY <1>5, <1>11, <2>1, AllocLowIs
  <2>3. /\ Counted(r.mem) /\ mem.taken \subseteq r.mem.taken
        /\ r.proc \in Process /\ Own(r.mem, r.proc, Excluded(p))
        /\ Mine(r.proc, Excluded(p)) \subseteq Owns(p) \union (r.mem.taken \ mem.taken)
        /\ \A w \in Page \ {v} : IsMapped(r.proc, w) <=> IsMapped(procs[p], w)
        /\ r.proc.threads = procs[p].threads
        /\ r.proc.heapEnd = procs[p].heapEnd /\ r.proc.heapMax = procs[p].heapMax
    BY <1>6, <1>7, <2>1, <2>2, TakeMapIs
  <2>4. v + 1 \in Page /\ v + 1 <= e /\ ImageAt <= v + 1 /\ v < Trampoline
    <3>1. v < e
      BY <1>8
    <3> QED
      BY <1>9, <3>1 DEF Page
  <2>5. /\ task' \in [op : {"image"}, pid : Pid, page : Page, end : Page]
        /\ task'.op = "image" /\ task'.pid = p /\ task'.page = v + 1 /\ task'.end = e
    BY <1>1, <1>2, <1>4, <1>8, <1>11, <2>4
  <2>6. task' \in Task
    BY <2>5 DEF Task
  <2>7. HeapTask'
    BY <1>9, <2>4, <2>5 DEF HeapTask
  <2> QED
    BY <1>1, <1>7, <1>8, <1>11, <2>3, <2>4, <2>5, <2>6, <2>7, PageKeeps
<1> QED
  BY <1>10, <1>11

(* A page of the first heap, with no frame, one of RAM, or a bit past its  *)
(* end.                                                                    *)
LEMMA HeapPageKeeps ==
  ASSUME Ind, HeapPage
  PROVE  Ind'
<1>1. /\ task.op = "heap" /\ task \notin {Idle, Undefined}
      /\ task \in [op : {"heap"}, pid : Pid, start : Page, page : Page]
  BY TaskIs DEF HeapPage, Ind
<1>2. PICK p : p = task.pid
  OBVIOUS
<1>3. PICK v : v = task.page
  OBVIOUS
<1>4. PICK s \in Page : s = task.start
  BY <1>1
<1>5. PICK f : f = Alloc(mem)
  OBVIOUS
<1>6. PICK r : r = MapPage(IF f = None THEN mem ELSE Take(mem, f), procs[p], v, IF f = None THEN 0 ELSE f)
  OBVIOUS
<1>7. p \in LivePids /\ p \in Pid /\ boot = "up" /\ v \in Page
  BY <1>1, <1>2, <1>3, Working
<1>8. /\ v < s + InitialHeap /\ UNCHANGED <<boot, kernel, nextPid, nextTid>>
      /\ IF f >= Frames THEN task' = Undefined /\ mem' = Take(mem, f) /\ UNCHANGED procs
         ELSE /\ task' = [task EXCEPT !.page = v + 1]
              /\ mem' = r.mem
              /\ procs' = [procs EXCEPT ![p] = r.proc]
  BY <1>2, <1>3, <1>4, <1>5, <1>6 DEF HeapPage, SetProc
<1>9. /\ ImageAt <= s /\ s <= v /\ v <= s + InitialHeap /\ s + InitialHeap + HeapRoom <= Trampoline
      /\ InitialHeap \in Nat /\ HeapRoom \in Nat /\ ImageAt \in Nat /\ v \in Nat /\ s \in Nat /\ Trampoline \in Nat
      /\ StackTop \in Nat /\ Trampoline < StackTop
  BY <1>1, <1>3, <1>4, SpaceAssumption DEF Ind, Heaps, HeapTask, Page
<1>a. /\ procs[p] \in Process /\ Counted(mem) /\ kernel \subseteq mem.taken
      /\ Own(mem, procs[p], Excluded(p)) /\ Owns(p) = Mine(procs[p], Excluded(p))
  BY <1>7, Living
<1>b. f # None => f \in Free(mem) /\ f \in Nat \ Reserved
  BY <1>5, <1>a, AllocIs
<1>10. CASE f >= Frames
  <2>1. task' \in Task /\ task' = Undefined /\ task'.op # "stack" /\ HeapTask'
    BY <1>8, <1>10 DEF Task, Undefined, HeapTask
  <2>2. f # None
    BY <1>10, RegionIs DEF None
  <2>3. Counted(Take(mem, f)) /\ mem.taken \subseteq Take(mem, f).taken
    BY <1>a, <1>b, <2>2, TakeCounts
  <2>4. Counted(mem)' /\ mem.taken \subseteq mem'.taken
    BY <1>8, <1>10, <2>3 DEF Counted
  <2> QED
    BY <1>1, <1>8, <1>10, <2>1, <2>4, TaskKeeps
<1>11. CASE ~(f >= Frames)
  <2> DEFINE Goal ==
        /\ Counted(r.mem) /\ mem.taken \subseteq r.mem.taken
        /\ r.proc \in Process /\ Own(r.mem, r.proc, Excluded(p))
        /\ Mine(r.proc, Excluded(p)) \subseteq Owns(p) \union (r.mem.taken \ mem.taken)
        /\ \A w \in Page \ {v} : IsMapped(r.proc, w) <=> IsMapped(procs[p], w)
        /\ r.proc.threads = procs[p].threads
        /\ r.proc.heapEnd = procs[p].heapEnd /\ r.proc.heapMax = procs[p].heapMax
  <2>1. ASSUME f # None PROVE Goal
    <3>1. f \in Free(mem) /\ f \in Frame \ Reserved
      BY <1>11, <1>b, <2>1, RegionIs DEF Frame
    <3>2. r = MapPage(Take(mem, f), procs[p], v, f)
      BY <1>6, <2>1
    <3> QED
      BY <1>7, <1>a, <3>1, <3>2, TakeMapIs
  <2>2. ASSUME f = None PROVE Goal
    <3>1. r = MapPage(mem, procs[p], v, 0) /\ 0 \in Entry /\ 0 \in {None, 0}
      BY <1>6, <2>2, RegionIs DEF Entry, Frame
    <3>2. /\ r.ok \in BOOLEAN
          /\ Counted(r.mem) /\ mem.taken \subseteq r.mem.taken
          /\ r.proc \in Process /\ Own(r.mem, r.proc, Excluded(p))
          /\ Mine(r.proc, Excluded(p)) \subseteq Mine(procs[p], Excluded(p)) \union (r.mem.taken \ mem.taken)
               \union ({0} \ (IF v \in Excluded(p) THEN {0} ELSE {}))
          /\ r.ok => r.proc.pages = [procs[p].pages EXCEPT ![v] = 0]
          /\ ~r.ok => r.mem = mem /\ r.proc = procs[p]
          /\ r.proc.threads = procs[p].threads
          /\ r.proc.heapEnd = procs[p].heapEnd /\ r.proc.heapMax = procs[p].heapMax
      BY <1>7, <1>a, <3>1, MapPageKeeps
    <3>3. 0 \in Reserved
      BY RegionIs DEF Reserved
    <3>4. 0 \notin Mine(r.proc, Excluded(p))
      BY <3>2, <3>3 DEF Own
    <3>5. procs[p].pages \in [Page -> Entry]
      BY <1>a DEF Process
    <3>6. \A w \in Page \ {v} : IsMapped(r.proc, w) <=> IsMapped(procs[p], w)
      BY <3>2, <3>5 DEF IsMapped
    <3> QED
      BY <1>a, <3>2, <3>4, <3>6
  <2>3. Goal
    BY <2>1, <2>2
  <2>4. v < Trampoline /\ v + 1 \in Page /\ v + 1 <= s + InitialHeap /\ s <= v + 1
    <3>1. v < s + InitialHeap
      BY <1>8
    <3> QED
      BY <1>9, <3>1 DEF Page
  <2>5. /\ task' \in [op : {"heap"}, pid : Pid, start : Page, page : Page]
        /\ task'.op = "heap" /\ task'.pid = p /\ task'.page = v + 1 /\ task'.start = s
    BY <1>1, <1>2, <1>4, <1>8, <1>11, <2>4
  <2>6. task' \in Task
    BY <2>5 DEF Task
  <2>7. HeapTask'
    BY <1>9, <2>4, <2>5 DEF HeapTask
  <2> QED
    BY <1>1, <1>7, <1>8, <1>11, <2>3, <2>4, <2>5, <2>6, <2>7, PageKeeps
<1> QED
  BY <1>10, <1>11

(* What a growing heap asks for lies below the trampoline.                 *)
LEMMA RoomIs ==
  ASSUME NEW pr \in Process, HeapOf(pr), NEW b \in Nat, b <= pr.heapMax
  PROVE  RoundUp(b) \in Nat /\ RoundUp(b) <= Trampoline
<1>1. Trampoline \in Nat /\ pr.heapMax \in Nat /\ PageSize \in Nat /\ Trampoline * PageSize \in Nat
  BY SpaceAssumption DEF Page, Process
<1>2. b <= Trampoline * PageSize
  BY <1>1 DEF HeapOf
<1> QED
  BY <1>1, <1>2, RoundUpIs

(* A page of a growing heap, for each end of its allocations.              *)
LEMMA SbrkPageKeeps ==
  ASSUME Ind, SbrkPage
  PROVE  Ind'
<1>1. /\ task.op = "sbrk" /\ task \notin {Idle, Undefined}
      /\ task \in [op : {"sbrk"}, pid : Pid, page : Page, brk : Nat]
  BY TaskIs DEF SbrkPage, Ind
<1>2. PICK p : p = task.pid
  OBVIOUS
<1>3. PICK v : v = task.page
  OBVIOUS
<1>4. PICK b \in Nat : b = task.brk
  BY <1>1
<1>5. PICK f : f = Alloc(mem)
  OBVIOUS
<1>6. PICK r : r = MapPage(Take(mem, f), procs[p], v, f)
  OBVIOUS
<1>7. p \in LivePids /\ p \in Pid /\ boot = "up" /\ v \in Page
  BY <1>1, <1>2, <1>3, Working
<1>8. /\ v < RoundUp(b) /\ UNCHANGED <<boot, kernel, nextPid, nextTid>>
      /\ IF ~NeedsPage(procs[p], v)
         THEN task' = [task EXCEPT !.page = v + 1] /\ UNCHANGED <<mem, procs>>
         ELSE IF f = None THEN task' = Idle /\ UNCHANGED <<mem, procs>>
         ELSE IF f >= Frames THEN task' = Undefined /\ mem' = Take(mem, f) /\ UNCHANGED procs
         ELSE IF ~r.ok THEN task' = Idle /\ mem' = Give(r.mem, {f}) /\ UNCHANGED procs
         ELSE /\ task' = [task EXCEPT !.page = v + 1]
              /\ mem' = r.mem
              /\ procs' = [procs EXCEPT ![p] = r.proc]
  BY <1>2, <1>3, <1>4, <1>5, <1>6 DEF SbrkPage, SetProc
<1>9. /\ procs[p] \in Process /\ Counted(mem) /\ kernel \subseteq mem.taken \ Reserved
      /\ Own(mem, procs[p], Excluded(p)) /\ Owns(p) = Mine(procs[p], Excluded(p)) /\ HeapOf(procs[p])
  BY <1>7, Living
<1>10. /\ b <= procs[p].heapMax /\ v <= Trampoline
       /\ \A w \in RoundUp(procs[p].heapEnd) .. v - 1 : IsMapped(procs[p], w)
  BY <1>1, <1>2, <1>3, <1>4 DEF Ind, Heaps, HeapTask
<1>11. RoundUp(b) \in Nat /\ RoundUp(b) <= Trampoline /\ RoundUp(procs[p].heapEnd) \in Nat
  <2>1. procs[p].heapEnd \in Nat
    BY <1>9 DEF Process
  <2> QED
    BY <1>9, <1>10, <2>1, RoomIs, RoundUpIs
<1>12. /\ v \in Nat /\ v < Trampoline /\ v + 1 \in Page /\ v + 1 <= Trampoline
  <2>1. v < RoundUp(b)
    BY <1>8
  <2>2. v \in Nat /\ Trampoline \in Nat /\ StackTop \in Nat /\ Trampoline < StackTop
    BY <1>7, SpaceAssumption DEF Page
  <2> QED
    BY <1>11, <2>1, <2>2 DEF Page
<1>13. ASSUME task' = Idle \/ task' = Undefined
       PROVE  task' \in Task /\ task'.op # "stack" /\ HeapTask'
  BY <1>13 DEF Task, Idle, Undefined, HeapTask
<1>14. f # None => f \in Free(mem) /\ f \in Nat \ Reserved
  BY <1>5, <1>9, AllocIs
<1>15. ASSUME task' = [task EXCEPT !.page = v + 1], NEW pr, procs'[p] = pr,
              pr.heapMax = procs[p].heapMax, pr.heapEnd = procs[p].heapEnd, IsMapped(pr, v),
              \A w \in Page \ {v} : IsMapped(pr, w) <=> IsMapped(procs[p], w)
       PROVE  /\ task' \in Task /\ task'.op # "stack" /\ task'.pid = p /\ HeapTask'
  <2>1. /\ task' \in [op : {"sbrk"}, pid : Pid, page : Page, brk : Nat]
        /\ task'.op = "sbrk" /\ task'.pid = p /\ task'.page = v + 1 /\ task'.brk = b
    BY <1>1, <1>2, <1>4, <1>12, <1>15
  <2>2. task' \in Task
    BY <2>1 DEF Task
  <2>3. \A w \in RoundUp(pr.heapEnd) .. (v + 1) - 1 : IsMapped(pr, w)
    <3> TAKE w \in RoundUp(pr.heapEnd) .. (v + 1) - 1
    <3>1. w = v \/ w \in RoundUp(procs[p].heapEnd) .. v - 1
      BY <1>11, <1>12, <1>15
    <3>2. w \in Page
      BY <1>7, <1>11, <1>12, <1>15, SpaceAssumption DEF Page
    <3> QED
      BY <1>10, <1>15, <3>1, <3>2
  <2>4. HeapTask'
    BY <1>10, <1>12, <1>15, <2>1, <2>3 DEF HeapTask
  <2> QED
    BY <2>1, <2>2, <2>4
<1>16. CASE ~NeedsPage(procs[p], v)
  <2>1. task' = [task EXCEPT !.page = v + 1] /\ UNCHANGED <<mem, procs>> /\ IsMapped(procs[p], v)
    BY <1>8, <1>16 DEF NeedsPage
  <2>2. /\ task' \in Task /\ task'.op # "stack" /\ task'.pid = p /\ HeapTask'
    BY <1>15, <2>1
  <2>3. Counted(mem)'
    BY <1>9, <2>1 DEF Counted
  <2> QED
    BY <1>1, <1>2, <1>8, <2>1, <2>2, <2>3, TaskKeeps
<1>17. CASE NeedsPage(procs[p], v) /\ f = None
  <2>1. task' = Idle /\ UNCHANGED <<mem, procs>>
    BY <1>8, <1>17
  <2>2. Counted(mem)'
    BY <1>9, <2>1 DEF Counted
  <2> QED
    BY <1>1, <1>8, <1>13, <2>1, <2>2, TaskKeeps
<1>18. CASE NeedsPage(procs[p], v) /\ f # None /\ f >= Frames
  <2>1. task' = Undefined /\ mem' = Take(mem, f) /\ UNCHANGED procs
    BY <1>8, <1>18
  <2>2. Counted(Take(mem, f)) /\ mem.taken \subseteq Take(mem, f).taken
    BY <1>9, <1>14, <1>18, TakeCounts
  <2>3. Counted(mem)' /\ mem.taken \subseteq mem'.taken
    BY <2>1, <2>2 DEF Counted
  <2> QED
    BY <1>1, <1>8, <1>13, <2>1, <2>3, TaskKeeps
<1>19. CASE NeedsPage(procs[p], v) /\ f # None /\ ~(f >= Frames)
  <2>1. f \in Free(mem) /\ f \in Frame \ Reserved
    BY <1>14, <1>19, RegionIs DEF Frame
  <2>2. /\ r.ok \in BOOLEAN /\ Counted(r.mem) /\ mem.taken \union {f} \subseteq r.mem.taken
        /\ r.proc \in Process /\ Own(r.mem, r.proc, Excluded(p))
        /\ Mine(r.proc, Excluded(p)) \subseteq Owns(p) \union (r.mem.taken \ mem.taken)
        /\ r.ok => IsMapped(r.proc, v)
        /\ \A w \in Page \ {v} : IsMapped(r.proc, w) <=> IsMapped(procs[p], w)
        /\ ~r.ok => r.mem = Take(mem, f) /\ r.proc = procs[p]
        /\ r.proc.threads = procs[p].threads
        /\ r.proc.heapEnd = procs[p].heapEnd /\ r.proc.heapMax = procs[p].heapMax
    BY <1>6, <1>7, <1>9, <2>1, TakeMapIs
  <2>3. CASE ~r.ok
    <3>1. task' = Idle /\ mem' = Give(r.mem, {f}) /\ UNCHANGED procs
      BY <1>8, <1>19, <2>3
    <3>2. f \notin mem.taken /\ r.mem.taken = mem.taken \union {f}
      BY <1>9, <2>1, <2>2, <2>3, TakeCounts
    <3>3. Counted(Give(r.mem, {f})) /\ Give(r.mem, {f}).taken = r.mem.taken \ {f}
      BY <2>1, <2>2, <3>2, GiveCounts
    <3>4. Counted(mem)' /\ mem.taken \subseteq mem'.taken
      BY <3>1, <3>2, <3>3 DEF Counted
    <3> QED
      BY <1>1, <1>8, <1>13, <3>1, <3>4, TaskKeeps
  <2>4. CASE r.ok
    <3>1. task' = [task EXCEPT !.page = v + 1] /\ mem' = r.mem /\ procs' = [procs EXCEPT ![p] = r.proc]
      BY <1>8, <1>19, <2>4
    <3>2. procs'[p] = r.proc
      BY <1>7, <3>1 DEF Ind, TypeOK
    <3>3. /\ task' \in Task /\ task'.op # "stack" /\ task'.pid = p /\ HeapTask'
      BY <1>15, <2>2, <2>4, <3>1, <3>2
    <3> QED
      BY <1>1, <1>7, <1>8, <1>12, <2>2, <3>1, <3>3, PageKeeps
  <2> QED
    BY <2>2, <2>3, <2>4
<1> QED
  BY <1>16, <1>17, <1>18, <1>19

(* A process keeps its frames and threads, and its heap's end moves.       *)
LEMMA HeapEndKeeps ==
  ASSUME Ind, boot = "up", UNCHANGED <<boot, mem, kernel, nextPid, nextTid>>,
         NEW p \in LivePids, task.op # "stack", task' = Idle,
         NEW q \in Process, procs' = [procs EXCEPT ![p] = q],
         SameFrames(procs[p], q), q.threads = procs[p].threads, HeapOf(q)
  PROVE  Ind'
<1>1. /\ p \in Pid /\ Counted(mem) /\ Own(mem, procs[p], Excluded(p))
      /\ Owns(p) = Mine(procs[p], Excluded(p))
  BY Living
<1>2. /\ procs'[p] = q /\ \A w \in Pid \ {p} : procs'[w] = procs[w]
      /\ procs' \in [Pid -> Process \union {Gone}]
  BY <1>1 DEF Ind, TypeOK
<1>3. Own(mem, q, Excluded(p)) /\ Mine(q, Excluded(p)) = Owns(p)
  BY <1>1, SameFramesOwn
<1>4. Own(mem', procs'[p], Excluded(p)) /\ Mine(procs'[p], Excluded(p)) = Owns(p)
  BY <1>2, <1>3 DEF Own
<1>5. task' \in Task /\ task'.op # "stack" /\ HeapTask'
  BY DEF Task, Idle, HeapTask
<1>6. Counted(mem)' /\ mem.taken \subseteq mem'.taken
  BY <1>1 DEF Counted
<1>7. \A w \in Page : IsMapped(procs'[p], w) <=> IsMapped(procs[p], w)
  BY <1>2 DEF IsMapped, SameFrames
<1>8. procs'[p] \in Process /\ procs'[p].threads = procs[p].threads /\ HeapOf(procs'[p])
  BY <1>2
<1> QED
  BY <1>2, <1>4, <1>5, <1>6, <1>7, <1>8, GrowKeeps

(* The first heap is there.                                                *)
LEMMA HeapSetKeeps ==
  ASSUME Ind, HeapSet
  PROVE  Ind'
<1>1. /\ task.op = "heap" /\ task \notin {Idle, Undefined}
      /\ task \in [op : {"heap"}, pid : Pid, start : Page, page : Page]
  BY TaskIs DEF HeapSet, Ind
<1>2. PICK p : p = task.pid
  OBVIOUS
<1>3. PICK s \in Page : s = task.start
  BY <1>1
<1>4. PICK pr : pr = procs[p]
  OBVIOUS
<1>5. p \in LivePids /\ p \in Pid /\ boot = "up" /\ pr \in Process
  BY <1>1, <1>2, <1>4, Working, Living
<1> DEFINE q == [pr EXCEPT !.image = s - ImageAt, !.heapStart = s * PageSize,
                           !.heapEnd = (s + InitialHeap) * PageSize,
                           !.heapMax = ((s + InitialHeap) + HeapRoom) * PageSize]
<1>6. /\ procs' = [procs EXCEPT ![p] = q] /\ task' = Idle
      /\ UNCHANGED <<boot, mem, kernel, nextPid, nextTid>>
  BY <1>2, <1>3, <1>4 DEF HeapSet, SetProc
<1>7. /\ ImageAt <= s /\ s + InitialHeap + HeapRoom <= Trampoline
      /\ InitialHeap \in Nat /\ HeapRoom \in Nat /\ ImageAt \in Nat /\ s \in Nat /\ Trampoline \in Nat
      /\ PageSize \in Nat
  BY <1>1, <1>3, SpaceAssumption DEF Ind, Heaps, HeapTask, Page
<1>8. PICK a \in Nat : a = s + InitialHeap
  BY <1>7
<1>9. PICK b \in Nat : b = a + HeapRoom
  BY <1>7, <1>8
<1>10. s * PageSize \in Nat /\ a * PageSize \in Nat /\ b * PageSize \in Nat /\ s - ImageAt \in Nat
  BY <1>7, <1>8, <1>9
<1>11. a * PageSize <= b * PageSize /\ b * PageSize <= Trampoline * PageSize
  <2>1. \A x, y \in Nat : x <= y => x * PageSize <= y * PageSize
    <3> TAKE x, y \in Nat
    <3>1. x \in Int /\ y \in Int /\ x * PageSize \in Nat /\ y * PageSize \in Nat
      BY <1>7
    <3>2. x < y => x * PageSize + PageSize <= y * PageSize
      BY <1>7, <3>1, Products
    <3>3. x <= y => x < y \/ x = y
      BY <3>1
    <3>4. CASE x = y
      BY <3>1, <3>4
    <3>5. CASE x < y
      BY <1>7, <3>1, <3>2, <3>5
    <3> QED
      BY <3>1, <3>3, <3>4, <3>5
  <2>2. a <= b /\ b <= Trampoline
    BY <1>7, <1>8, <1>9
  <2> QED
    BY <1>7, <2>1, <2>2
<1> HIDE DEF q
<1>12. PICK h \in Nat, c \in Nat, d \in Nat, i \in Nat :
         h = s * PageSize /\ c = a * PageSize /\ d = b * PageSize /\ i = s - ImageAt
  BY <1>10
<1>13. q = [pr EXCEPT !.image = i, !.heapStart = h, !.heapEnd = c, !.heapMax = d]
  BY <1>8, <1>9, <1>12 DEF q
<1>14. /\ q \in Process /\ SameFrames(pr, q) /\ q.threads = pr.threads
       /\ q.heapEnd = c /\ q.heapMax = d
  BY <1>5, <1>13 DEF Process, SameFrames
<1>15. HeapOf(q)
  BY <1>11, <1>12, <1>14 DEF HeapOf
<1> QED
  BY <1>1, <1>4, <1>5, <1>6, <1>14, <1>15, HeapEndKeeps

(* The heap's end moves up.                                                *)
LEMMA SbrkDoneKeeps ==
  ASSUME Ind, SbrkDone
  PROVE  Ind'
<1>1. /\ task.op = "sbrk" /\ task \notin {Idle, Undefined}
      /\ task \in [op : {"sbrk"}, pid : Pid, page : Page, brk : Nat]
  BY TaskIs DEF SbrkDone, Ind
<1>2. PICK p : p = task.pid
  OBVIOUS
<1>3. PICK b \in Nat : b = task.brk
  BY <1>1
<1>4. PICK pr : pr = procs[p]
  OBVIOUS
<1>5. p \in LivePids /\ p \in Pid /\ boot = "up" /\ pr \in Process /\ HeapOf(pr)
  BY <1>1, <1>2, <1>4, Working, Living
<1> DEFINE q == [pr EXCEPT !.heapEnd = b]
<1>6. /\ procs' = [procs EXCEPT ![p] = q] /\ task' = Idle
      /\ UNCHANGED <<boot, mem, kernel, nextPid, nextTid>>
  BY <1>2, <1>3, <1>4 DEF SbrkDone, SetProc
<1>7. b <= pr.heapMax
  BY <1>1, <1>2, <1>3, <1>4 DEF Ind, Heaps, HeapTask
<1>8. /\ q \in Process /\ SameFrames(pr, q) /\ q.threads = pr.threads
      /\ q.heapEnd = b /\ q.heapMax = pr.heapMax
  BY <1>5 DEF Process, SameFrames
<1>9. HeapOf(q)
  BY <1>5, <1>7, <1>8 DEF HeapOf
<1> QED
  BY <1>1, <1>4, <1>5, <1>6, <1>8, <1>9, HeapEndKeeps

(* sys_sbrk, at once or page by page.                                      *)
LEMMA SbrkKeeps ==
  ASSUME Ind, NEW p \in Pid, NEW n \in Increments, Sbrk(p, n)
  PROVE  Ind'
<1>1. /\ boot = "up" /\ task = Idle /\ p \in LivePids
      /\ UNCHANGED <<boot, mem, kernel, nextPid, nextTid>>
  BY DEF Sbrk
<1>2. PICK pr : pr = procs[p]
  OBVIOUS
<1>3. /\ pr \in Process /\ HeapOf(pr) /\ Counted(mem)
      /\ Own(mem, procs[p], Excluded(p)) /\ Owns(p) = Mine(procs[p], Excluded(p))
  BY <1>1, <1>2, Living
<1>4. PICK old \in Nat : old = pr.heapEnd
  BY <1>3 DEF Process
<1>5. n \in Int
  BY SpaceAssumption
<1>6. PICK new \in Nat : new = old + n
  BY <1>2, <1>4, <1>5 DEF Sbrk
<1>7. \/ n <= 0 /\ procs' = [procs EXCEPT ![p] = [pr EXCEPT !.heapEnd = new]] /\ UNCHANGED task
      \/ /\ n > 0 /\ new <= pr.heapMax /\ UNCHANGED procs
         /\ task' = [op |-> "sbrk", pid |-> p, page |-> RoundUp(old), brk |-> new]
  BY <1>2, <1>4, <1>6 DEF Sbrk, SetProc
<1>8. CASE n <= 0 /\ procs' = [procs EXCEPT ![p] = [pr EXCEPT !.heapEnd = new]] /\ UNCHANGED task
  <2> DEFINE q == [pr EXCEPT !.heapEnd = new]
  <2>1. /\ q \in Process /\ SameFrames(pr, q) /\ q.threads = pr.threads
        /\ q.heapEnd = new /\ q.heapMax = pr.heapMax
    BY <1>3 DEF Process, SameFrames
  <2>2. pr.heapMax \in Nat
    BY <1>3 DEF Process
  <2>3. HeapOf(q)
    <3>1. old <= pr.heapMax
      BY <1>3, <1>4 DEF HeapOf
    <3>2. new <= pr.heapMax
      BY <1>5, <1>6, <1>8, <2>2, <3>1
    <3> QED
      BY <1>3, <2>1, <3>2 DEF HeapOf
  <2>4. task' = Idle /\ task.op # "stack"
    BY <1>1, <1>8 DEF Idle
  <2> QED
    BY <1>1, <1>2, <1>8, <2>1, <2>3, <2>4, HeapEndKeeps
<1>9. CASE /\ n > 0 /\ new <= pr.heapMax /\ UNCHANGED procs
           /\ task' = [op |-> "sbrk", pid |-> p, page |-> RoundUp(old), brk |-> new]
  <2>1. RoundUp(old) \in Nat /\ RoundUp(old) <= Trampoline
    <3>1. old <= pr.heapMax
      BY <1>3, <1>4 DEF HeapOf
    <3> QED
      BY <1>3, <3>1, RoomIs
  <2>2. PICK v : v = RoundUp(old)
    OBVIOUS
  <2>3. v \in Page
    BY <2>1, <2>2, SpaceAssumption DEF Page
  <2>4. /\ task' \in [op : {"sbrk"}, pid : Pid, page : Page, brk : Nat]
        /\ task'.op = "sbrk" /\ task'.pid = p /\ task'.page = v /\ task'.brk = new
    BY <1>9, <2>2, <2>3
  <2>5. task' \in Task
    BY <2>4 DEF Task
  <2>6. HeapTask'
    <3>1. procs'[p] = pr /\ RoundUp(procs'[p].heapEnd) = v
      BY <1>2, <1>4, <1>9, <2>2
    <3>2. v .. v - 1 = {}
      BY <2>1, <2>2
    <3> QED
      BY <1>9, <2>1, <2>2, <2>4, <3>1, <3>2 DEF HeapTask
  <2>7. Own(mem', procs'[p], Excluded(p)) /\ Mine(procs'[p], Excluded(p)) = Owns(p)
    BY <1>1, <1>3, <1>9 DEF Own
  <2>8. Counted(mem)' /\ mem.taken \subseteq mem'.taken
    BY <1>1, <1>3 DEF Counted
  <2>9. procs' \in [Pid -> Process \union {Gone}]
    BY <1>9 DEF Ind, TypeOK
  <2>10. task.op # "stack" /\ task'.op # "stack"
    BY <1>1, <2>4 DEF Idle
  <2>11. \A q \in Pid \ {p} : procs'[q] = procs[q]
    BY <1>9
  <2>12. procs'[p] \in Process /\ procs'[p].threads = procs[p].threads /\ HeapOf(procs'[p])
    BY <1>2, <1>3, <1>9
  <2>13. \A w \in Page : w > Trampoline => (IsMapped(procs'[p], w) <=> IsMapped(procs[p], w))
    BY <1>9
  <2> QED
    BY <1>1, <2>4, <2>5, <2>6, <2>7, <2>8, <2>9, <2>10, <2>11, <2>12, <2>13, GrowKeeps
<1> QED
  BY <1>7, <1>8, <1>9
----------------------------------------------------------------------------
(* The counters stay in their ranges.                                      *)
LEMMA CountersIs ==
  ASSUME Ind
  PROVE  /\ MaxPid \in Nat /\ MaxTid \in Nat
         /\ nextPid \in 1 .. MaxPid + 1 /\ nextTid \in 1 .. MaxTid + 1
BY SpaceAssumption DEF Ind, TypeOK

(* A process's pages above a stack that is not beside it are its own.      *)
LEMMA BesideIs ==
  ASSUME NEW T \in SUBSET Tid, NEW t \in T
  PROVE  StackOf(t) \intersect Beside(T) = {}
<1>1. \A u \in Tid \ T : StackOf(t) \intersect StackOf(u) = {}
  BY StackPlaces
<1>2. Trampoline \notin StackOf(t)
  BY StackPlaces
<1> QED
  BY <1>1, <1>2 DEF Beside

(* A thread ends: its stack no longer counts as used.                      *)
LEMMA ExitThreadKeeps ==
  ASSUME Ind, NEW p \in Pid, NEW t \in Tid, ExitThread(p, t)
  PROVE  Ind'
<1>1. /\ boot = "up" /\ task = Idle /\ p \in LivePids /\ t \in procs[p].threads
      /\ UNCHANGED <<boot, mem, kernel, task, nextPid, nextTid>>
  BY DEF ExitThread
<1>2. PICK pr : pr = procs[p]
  OBVIOUS
<1>3. /\ pr \in Process /\ HeapOf(pr) /\ Counted(mem) /\ p < nextPid /\ StacksOf(pr, nextTid)
      /\ Own(mem, pr, Excluded(p)) /\ Owns(p) = Mine(pr, Excluded(p))
  BY <1>1, <1>2, Living
<1> DEFINE q == [pr EXCEPT !.threads = @ \ {t}]
<1>4. procs' = [procs EXCEPT ![p] = q]
  BY <1>2 DEF ExitThread, SetProc
<1>5. /\ q \in Process /\ SameFrames(pr, q) /\ q.threads = pr.threads \ {t}
      /\ q.heapEnd = pr.heapEnd /\ q.heapMax = pr.heapMax
  BY <1>3 DEF Process, SameFrames
<1> HIDE DEF q
<1>6. /\ procs'[p] = q /\ \A w \in Pid \ {p} : procs'[w] = procs[w]
      /\ procs' \in [Pid -> Process \union {Gone}]
  BY <1>4, <1>5 DEF Ind, TypeOK
<1>7. \A w \in Pid : Making(w) = {} /\ Making(w)' = {}
  BY <1>1 DEF Making, Idle
<1>8. PICK X : X = Excluded(p)
  OBVIOUS
<1>9. PICK Y : Y = Beside(pr.threads \ {t})
  OBVIOUS
<1>10. Excluded(p)' = Y /\ X \subseteq Y
  <2>1. Excluded(p)' = Y
    BY <1>5, <1>6, <1>7, <1>9 DEF Excluded
  <2>2. X = Beside(pr.threads)
    BY <1>2, <1>7, <1>8 DEF Excluded
  <2> QED
    BY <1>9, <2>1, <2>2 DEF Beside
<1>11. UsedBy(pr, Y) \subseteq UsedBy(pr, X)
  BY <1>10 DEF UsedBy
<1>12. Own(mem, pr, Y) /\ Mine(pr, Y) \subseteq Mine(pr, X)
  BY <1>3, <1>8, <1>11, OwnLess
<1>13. Own(mem, q, Y) /\ Mine(q, Y) \subseteq Mine(pr, X)
  BY <1>5, <1>12, SameFramesOwn
<1>14. p \in LivePids'
  BY <1>5, <1>6 DEF LivePids, Process
<1>15. Own(mem, procs[p], Excluded(p))' /\ Owns(p)' \subseteq Owns(p)
  <2>1. Owns(p)' = Mine(q, Y)
    BY <1>6, <1>10, <1>14 DEF Owns
  <2>2. Own(mem, procs[p], Excluded(p))'
    BY <1>1, <1>6, <1>10, <1>13 DEF Own
  <2> QED
    BY <1>3, <1>8, <1>13, <2>1, <2>2
<1>16. StacksOf(procs[p], nextTid)' /\ HeapOf(procs[p])'
  BY <1>1, <1>3, <1>5, <1>6 DEF StacksOf, HeapOf, SameFrames, IsMapped
<1>17. StackTask' /\ HeapTask' /\ task' \in Task /\ task' \in {Idle, Undefined}
  BY <1>1 DEF StackTask, HeapTask, Idle, Task
<1>18. Counted(mem)' /\ mem' = mem /\ boot' = boot /\ kernel' = kernel
  BY <1>1, <1>3 DEF Counted
<1>19. nextPid' \in nextPid .. MaxPid + 1 /\ nextTid' \in nextTid .. MaxTid + 1 /\ p < nextPid'
  BY <1>1, <1>3, CountersIs
<1> QED
  BY <1>1, <1>6, <1>7, <1>15, <1>16, <1>17, <1>18, <1>19, StepKeeps

(* KillProcess() frees what the process owns, and nothing else.            *)
LEMMA FreedIs ==
  ASSUME NEW m, NEW pr \in Process, HeapOf(pr), Own(m, pr, Beside(pr.threads))
  PROVE  Freed(pr) \subseteq Mine(pr, Beside(pr.threads))
<1> DEFINE X == Beside(pr.threads)
<1>1. ASSUME NEW v \in KillPages(pr)
      PROVE  v \in Page /\ v \notin X
  <2>1. CASE \E t \in pr.threads : v \in StackOf(t)
    <3>1. PICK t \in pr.threads : v \in StackOf(t)
      BY <2>1
    <3>2. pr.threads \in SUBSET Tid /\ t \in Tid
      BY DEF Process
    <3>3. StackOf(t) \intersect X = {}
      BY <3>2, BesideIs
    <3>4. StackOf(t) \subseteq Page
      BY <3>2, StackPlaces
    <3> QED
      BY <3>1, <3>3, <3>4
  <2>2. CASE v \in HeapPages(pr)
    <3>1. v \in Page /\ v * PageSize < pr.heapEnd
      BY <2>2 DEF HeapPages
    <3>2. v \in Nat /\ Trampoline \in Nat /\ PageSize \in Nat /\ pr.heapEnd \in Nat /\ pr.heapMax \in Nat
      BY <3>1, SpaceAssumption DEF Page, Process
    <3>3. v * PageSize \in Nat /\ Trampoline * PageSize \in Nat
      BY <3>2
    <3>4. v * PageSize < Trampoline * PageSize
      BY <3>1, <3>2, <3>3 DEF HeapOf
    <3>5. Trampoline < v => Trampoline * PageSize + PageSize <= v * PageSize
      BY <3>2, Products
    <3>6. v < Trampoline
      BY <3>2, <3>3, <3>4, <3>5
    <3>7. \A t \in Tid : v \notin StackOf(t)
      <4> TAKE t \in Tid
      <4>1. StackBase(t) \in Int /\ Trampoline < StackBase(t) /\ StackPages \in Int
        BY StackPlaces, SpaceAssumption
      <4> QED
        BY <3>2, <3>6, <4>1 DEF StackOf
    <3> QED
      BY <3>1, <3>2, <3>6, <3>7 DEF Beside
  <2>3. (\E t \in pr.threads : v \in StackOf(t)) \/ v \in HeapPages(pr)
    BY <1>1 DEF KillPages
  <2> QED
    BY <2>1, <2>2, <2>3
<1>2. ASSUME NEW v \in KillPages(pr), pr.pages[v] \notin {None, 0}
      PROVE  pr.pages[v] \in Mine(pr, X)
  BY <1>1, <1>2 DEF Mine, UsedBy, IsMapped
<1> QED
  BY <1>2 DEF Freed, Mine

(* A process ends: only frames of its own go back.                         *)
LEMMA KillProcessKeeps ==
  ASSUME Ind, NEW p \in Pid, KillProcess(p)
  PROVE  Ind'
<1>1. /\ boot = "up" /\ task = Idle /\ p \in LivePids /\ procs' = [procs EXCEPT ![p] = Gone]
      /\ mem' = Give(mem, Freed(procs[p]))
      /\ UNCHANGED <<boot, kernel, task, nextPid, nextTid>>
  BY DEF KillProcess, SetProc
<1>2. PICK pr : pr = procs[p]
  OBVIOUS
<1>3. \A w \in Pid : Making(w) = {} /\ Making(w)' = {}
  BY <1>1 DEF Making, Idle
<1>4. Excluded(p) = Beside(pr.threads)
  BY <1>2, <1>3 DEF Excluded
<1>5. /\ pr \in Process /\ HeapOf(pr) /\ Counted(mem) /\ p < nextPid
      /\ Own(mem, pr, Beside(pr.threads)) /\ Owns(p) = Mine(pr, Beside(pr.threads))
  BY <1>1, <1>2, <1>4, Living
<1>6. Freed(pr) \subseteq Owns(p) /\ Freed(pr) \subseteq mem.taken \ Reserved
  BY <1>5, FreedIs DEF Own
<1>7. Counted(Give(mem, Freed(pr))) /\ Give(mem, Freed(pr)).taken = mem.taken \ Freed(pr)
  BY <1>5, <1>6, GiveCounts
<1>8. Counted(mem)' /\ mem.taken \ Owns(p) \subseteq mem'.taken
  BY <1>1, <1>2, <1>6, <1>7 DEF Counted
<1>9. /\ procs'[p] = Gone /\ \A w \in Pid \ {p} : procs'[w] = procs[w]
      /\ procs' \in [Pid -> Process \union {Gone}]
  BY <1>1 DEF Ind, TypeOK
<1>10. p \notin LivePids'
  BY <1>9 DEF LivePids, Gone
<1>11. StackTask' /\ HeapTask' /\ task' \in Task /\ task' \in {Idle, Undefined}
  BY <1>1 DEF StackTask, HeapTask, Idle, Task
<1>12. nextPid' \in nextPid .. MaxPid + 1 /\ nextTid' \in nextTid .. MaxTid + 1 /\ p < nextPid'
  BY <1>1, <1>5, CountersIs
<1> QED
  BY <1>1, <1>3, <1>8, <1>9, <1>10, <1>11, <1>12, StepKeeps

(* A thread is begun: its stack is empty, so nothing more is used.         *)
LEMMA CloneThreadKeeps ==
  ASSUME Ind, NEW p \in Pid, CloneThread(p)
  PROVE  Ind'
<1>1. PICK t : t = nextTid
  OBVIOUS
<1>2. /\ boot = "up" /\ task = Idle /\ t <= MaxTid /\ p \in LivePids /\ nextTid' = t + 1
      /\ task' = [op |-> "stack", pid |-> p, tid |-> t, page |-> StackBase(t), then |-> "idle", image |-> 0]
      /\ UNCHANGED <<boot, mem, kernel, procs, nextPid>>
  BY <1>1 DEF CloneThread
<1>3. t \in Tid
  BY <1>1, <1>2, CountersIs DEF Tid
<1>4. PICK pr : pr = procs[p]
  OBVIOUS
<1>5. /\ pr \in Process /\ HeapOf(pr) /\ Counted(mem) /\ p < nextPid /\ StacksOf(pr, t)
      /\ Own(mem, pr, Excluded(p)) /\ Owns(p) = Mine(pr, Excluded(p))
  BY <1>1, <1>2, <1>4, Living
<1>6. \A w \in Pid : Making(w) = {}
  BY <1>2 DEF Making, Idle
<1>7. /\ task' \in [op : {"stack"}, pid : Pid, tid : Tid, page : Page,
                    then : {"idle", "headers"}, image : ImageSizes \union {0}]
      /\ task'.op = "stack" /\ task'.pid = p /\ task'.tid = t /\ task'.page = StackBase(t)
      /\ task'.then = "idle" /\ StackBase(t) \in StackOf(t)
  <2>1. StackBase(t) \in StackOf(t) /\ StackOf(t) \subseteq Page
    <3>1. StackBase(t) \in Int /\ StackPages \in Nat \ {0}
      BY <1>3, StackPlaces, SpaceAssumption
    <3>2. StackBase(t) \in StackOf(t)
      BY <3>1 DEF StackOf
    <3> QED
      BY <1>3, <3>2, StackPlaces
  <2> QED
    BY <1>2, <1>3, <2>1
<1>8. Making(p)' = {t} /\ \A w \in Pid \ {p} : Making(w)' = {}
  BY <1>7 DEF Making
<1>9. PICK X : X = Beside(pr.threads)
  OBVIOUS
<1>10. PICK Y : Y = Beside(pr.threads \union {t})
  OBVIOUS
<1>11. Excluded(p) = X /\ Excluded(p)' = Y
  BY <1>2, <1>4, <1>6, <1>8, <1>9, <1>10 DEF Excluded
<1>12. X \subseteq Y \union StackOf(t)
  BY <1>9, <1>10 DEF Beside
<1>13. \A v \in StackOf(t) : ~IsMapped(pr, v)
  <2>1. t >= t
    BY <1>3 DEF Tid
  <2> QED
    BY <1>3, <1>5, <2>1 DEF StacksOf
<1>14. UsedBy(pr, Y) \subseteq UsedBy(pr, X)
  BY <1>12, <1>13 DEF UsedBy
<1>15. Own(mem, pr, Y) /\ Mine(pr, Y) \subseteq Mine(pr, X)
  BY <1>5, <1>11, <1>14, OwnLess
<1>16. p \in LivePids'
  BY <1>2 DEF LivePids
<1>17. Own(mem, procs[p], Excluded(p))' /\ Owns(p)' \subseteq Owns(p)
  <2>1. Owns(p)' = Mine(pr, Y)
    BY <1>2, <1>4, <1>11, <1>16 DEF Owns
  <2>2. Own(mem, procs[p], Excluded(p))'
    BY <1>2, <1>4, <1>11, <1>15 DEF Own
  <2> QED
    BY <1>5, <1>11, <1>15, <2>1, <2>2
<1>18. StacksOf(procs[p], nextTid)' /\ HeapOf(procs[p])'
  <2>1. \A u \in Tid : u \in Int
    BY DEF Tid
  <2>2. pr.threads \subseteq Tid
    BY <1>5 DEF Process
  <2>3. StacksOf(pr, t + 1)
    BY <1>3, <1>5, <2>1, <2>2 DEF StacksOf
  <2> QED
    BY <1>2, <1>4, <1>5, <2>3
<1>19. StackTask'
  <2>1. t \notin pr.threads
    BY <1>3, <1>5 DEF StacksOf, Tid
  <2>2. \A v \in StackOf(t) : ~(v < StackBase(t))
    <3>1. StackBase(t) \in Int /\ StackPages \in Nat
      BY <1>3, StackPlaces, SpaceAssumption
    <3> QED
      BY <3>1 DEF StackOf
  <2>3. t < nextTid'
    BY <1>2, <1>3 DEF Tid
  <2> QED
    BY <1>2, <1>4, <1>7, <1>13, <2>1, <2>2, <2>3 DEF StackTask
<1>20. HeapTask' /\ task' \in Task
  BY <1>7 DEF HeapTask, Task
<1>21. Counted(mem)' /\ mem' = mem /\ boot' = boot /\ kernel' = kernel
  BY <1>2, <1>5 DEF Counted
<1>22. nextPid' \in nextPid .. MaxPid + 1 /\ nextTid' \in nextTid .. MaxTid + 1 /\ p < nextPid'
  BY <1>1, <1>2, <1>5, CountersIs
<1>23. procs' \in [Pid -> Process \union {Gone}] /\ \A w \in Pid \ {p} : procs'[w] = procs[w]
  BY <1>2 DEF Ind, TypeOK
<1> QED
  BY <1>2, <1>6, <1>7, <1>8, <1>16, <1>17, <1>18, <1>19, <1>20, <1>21, <1>22, <1>23, StepKeeps

(* A directory alone.                                                      *)
LEMMA NewProcessIs ==
  ASSUME NEW dir \in Frame
  PROVE  /\ NewProcess(dir) \in Process /\ NewProcess(dir).threads = {}
         /\ NewProcess(dir).heapEnd = 0 /\ NewProcess(dir).heapMax = 0
         /\ \A v \in Page : ~IsMapped(NewProcess(dir), v)
         /\ \A X : Mine(NewProcess(dir), X) = {dir} /\ Apart(NewProcess(dir), X)
<1> DEFINE q == NewProcess(dir)
<1>0. None \in Entry /\ dir # None
  BY RegionIs DEF Entry, Frame, None
<1>1. q = [live |-> TRUE, dir |-> dir,
           tables |-> [i \in Table |-> None], pages |-> [v \in Page |-> None],
           threads |-> {}, image |-> 0, heapStart |-> 0, heapEnd |-> 0, heapMax |-> 0]
  BY DEF NewProcess
<1> HIDE DEF q
<1>2. q \in Process /\ q.threads = {} /\ q.heapEnd = 0 /\ q.heapMax = 0 /\ q.dir = dir
  BY <1>0, <1>1 DEF Process
<1>3. /\ \A v \in Page : q.pages[v] = None
      /\ \A i \in Table : q.tables[i] = None
  BY <1>1
<1>4. \A v \in Page : ~IsMapped(q, v)
  BY <1>3 DEF IsMapped
<1>5. ASSUME NEW X
      PROVE  Mine(q, X) = {dir} /\ Apart(q, X)
  <2>1. UsedBy(q, X) = {} /\ TableFrames(q) = {}
    BY <1>3, <1>4 DEF UsedBy, TableFrames
  <2>2. Mine(q, X) = {dir}
    BY <1>2, <2>1 DEF Mine
  <2>3. Apart(q, X)
    BY <1>0, <1>2, <1>3, <2>1 DEF Apart
  <2> QED
    BY <2>2, <2>3
<1> QED
  BY <1>2, <1>4, <1>5 DEF q

(* A process is begun, with a directory or without.                        *)
LEMMA CreateProcessKeeps ==
  ASSUME Ind, NEW n \in ImageSizes, CreateProcess(n)
  PROVE  Ind'
<1>1. PICK p : p = nextPid
  OBVIOUS
<1>2. PICK t : t = nextTid
  OBVIOUS
<1>3. PICK dir : dir = AllocLow(mem)
  OBVIOUS
<1>4. PICK r : r = MapPage(Take(mem, dir), NewProcess(dir), Trampoline, TrampolineFrame)
  OBVIOUS
<1>5. /\ boot = "up" /\ task = Idle /\ p <= MaxPid /\ t <= MaxTid
      /\ nextPid' = p + 1 /\ nextTid' = t + 1 /\ UNCHANGED <<boot, kernel>>
      /\ IF dir = None THEN task' = Undefined /\ UNCHANGED <<mem, procs>>
         ELSE /\ mem' = r.mem
              /\ procs' = [procs EXCEPT ![p] = r.proc]
              /\ task' = [op |-> "stack", pid |-> p, tid |-> t, page |-> StackBase(t),
                          then |-> "headers", image |-> n]
  BY <1>1, <1>2, <1>3, <1>4 DEF CreateProcess, SetProc
<1>6. /\ p \in Pid /\ t \in Tid
      /\ nextPid' \in nextPid .. MaxPid + 1 /\ nextTid' \in nextTid .. MaxTid + 1 /\ p < nextPid'
  BY <1>1, <1>2, <1>5, CountersIs DEF Pid, Tid
<1>7. procs[p] = Gone /\ p \notin LivePids /\ Owns(p) = {}
  <2>1. p >= nextPid
    BY <1>1, CountersIs
  <2>2. procs[p] = Gone
    BY <1>6, <2>1 DEF Ind, Booting
  <2> QED
    BY <2>2 DEF LivePids, Owns, Gone
<1>8. Counted(mem) /\ kernel \subseteq mem.taken \ Reserved /\ kernel # {} /\ kernel \subseteq Frame
  BY <1>5 DEF Ind, Booting, TypeOK
<1>9. \A w \in Pid : Making(w) = {}
  BY <1>5 DEF Making, Idle
<1>10. CASE dir = None
  <2>1. task' = Undefined /\ UNCHANGED <<mem, procs>>
    BY <1>5, <1>10
  <2>2. \A w \in Pid : Making(w)' = {}
    BY <2>1 DEF Making, Undefined
  <2>3. p \notin LivePids'
    BY <1>7, <2>1 DEF LivePids
  <2>4. StackTask' /\ HeapTask' /\ task' \in Task /\ task' \in {Idle, Undefined}
    BY <2>1 DEF StackTask, HeapTask, Undefined, Task
  <2>5. Counted(mem)' /\ mem' = mem /\ boot' = boot /\ kernel' = kernel
    BY <1>5, <1>8, <2>1 DEF Counted
  <2>6. procs' \in [Pid -> Process \union {Gone}] /\ \A w \in Pid : procs'[w] = procs[w]
    BY <2>1 DEF Ind, TypeOK
  <2> QED
    BY <1>5, <1>6, <1>9, <2>2, <2>3, <2>4, <2>5, <2>6, StepKeeps
<1>11. CASE dir # None
  <2>1. dir \in Free(mem) /\ dir \in Frame \ Reserved
    BY <1>3, <1>8, <1>11, AllocLowIs
  <2>2. PICK m : m = Take(mem, dir)
    OBVIOUS
  <2>3. Counted(m) /\ dir \notin mem.taken /\ m.taken = mem.taken \union {dir}
    BY <1>8, <2>1, <2>2, TakeCounts
  <2>4. PICK new : new = NewProcess(dir)
    OBVIOUS
  <2>5. PICK X : X = Beside({t})
    OBVIOUS
  <2>6. /\ new \in Process /\ new.threads = {} /\ new.heapEnd = 0 /\ new.heapMax = 0
        /\ \A v \in Page : ~IsMapped(new, v)
        /\ Mine(new, X) = {dir} /\ Apart(new, X)
    BY <2>1, <2>4, NewProcessIs
  <2>7. Own(m, new, X)
    BY <1>8, <2>1, <2>3, <2>6 DEF Own
  <2>8. TrampolineFrame \in Entry /\ Trampoline \in Page /\ Trampoline \in X
    BY <1>8, <2>5, TrampolineFrameIs, SpaceAssumption DEF Entry, Beside
  <2>9. r = MapPage(m, new, Trampoline, TrampolineFrame)
    BY <1>4, <2>2, <2>4
  <2>10. PICK g : g = TrampolineFrame
    OBVIOUS
  <2>11. /\ r.ok \in BOOLEAN
         /\ Counted(r.mem) /\ m.taken \subseteq r.mem.taken
         /\ r.proc \in Process /\ Own(r.mem, r.proc, X)
         /\ Mine(r.proc, X) \subseteq Mine(new, X) \union (r.mem.taken \ m.taken) \union ({g} \ (IF Trampoline \in X THEN {g} ELSE {}))
         /\ r.ok => r.proc.pages = [new.pages EXCEPT ![Trampoline] = g]
         /\ ~r.ok => r.mem = m /\ r.proc = new
         /\ r.proc.threads = new.threads
         /\ r.proc.heapEnd = new.heapEnd /\ r.proc.heapMax = new.heapMax
    <3>1. kernel \subseteq m.taken
      BY <1>8, <2>3
    <3> QED
      BY <2>3, <2>6, <2>7, <2>8, <2>9, <2>10, <3>1, MapPageKeeps
  <2>12. Mine(r.proc, X) \subseteq r.mem.taken \ mem.taken
    BY <2>3, <2>6, <2>8, <2>11
  <2>13. \A v \in Page \ {Trampoline} : ~IsMapped(r.proc, v)
    <3>1. new.pages \in [Page -> Entry]
      BY <2>6 DEF Process
    <3> QED
      BY <2>6, <2>8, <2>11, <3>1 DEF IsMapped
  <2>14. /\ mem' = r.mem /\ procs' = [procs EXCEPT ![p] = r.proc]
         /\ task' = [op |-> "stack", pid |-> p, tid |-> t, page |-> StackBase(t),
                     then |-> "headers", image |-> n]
    BY <1>5, <1>11
  <2>15. /\ procs'[p] = r.proc /\ \A w \in Pid \ {p} : procs'[w] = procs[w]
         /\ procs' \in [Pid -> Process \union {Gone}]
    BY <1>6, <2>11, <2>14 DEF Ind, TypeOK
  <2>16. StackBase(t) \in StackOf(t) /\ StackOf(t) \subseteq Page \ {Trampoline}
         /\ \A v \in StackOf(t) : ~(v < StackBase(t))
    <3>1. StackBase(t) \in Int /\ StackPages \in Nat \ {0}
      BY <1>6, StackPlaces, SpaceAssumption
    <3>2. StackBase(t) \in StackOf(t) /\ \A v \in StackOf(t) : ~(v < StackBase(t))
      BY <3>1 DEF StackOf
    <3> QED
      BY <1>6, <3>2, StackPlaces
  <2>17. /\ task' \in [op : {"stack"}, pid : Pid, tid : Tid, page : Page,
                       then : {"idle", "headers"}, image : ImageSizes \union {0}]
         /\ task'.op = "stack" /\ task'.pid = p /\ task'.tid = t /\ task'.page = StackBase(t)
         /\ task'.image = n
    BY <1>6, <2>14, <2>16
  <2>18. Making(p)' = {t} /\ \A w \in Pid \ {p} : Making(w)' = {}
    BY <2>17 DEF Making
  <2>19. Excluded(p)' = X
    <3>1. r.proc.threads \union {t} = {t}
      BY <2>6, <2>11
    <3> QED
      BY <2>5, <2>15, <2>18, <3>1 DEF Excluded
  <2>20. p \in LivePids'
    BY <1>6, <2>11, <2>15 DEF LivePids, Process
  <2>21. Own(mem, procs[p], Excluded(p))' /\ Owns(p)' \subseteq mem'.taken \ mem.taken
    <3>1. Owns(p)' = Mine(r.proc, X)
      BY <2>15, <2>19, <2>20 DEF Owns
    <3>2. Own(mem, procs[p], Excluded(p))'
      BY <1>5, <2>11, <2>14, <2>15, <2>19 DEF Own
    <3> QED
      BY <2>12, <2>14, <3>1, <3>2
  <2>22. \A u \in Tid : \A v \in StackOf(u) : ~IsMapped(r.proc, v)
    BY <2>13, StackPlaces
  <2>23. StacksOf(procs[p], nextTid)' /\ HeapOf(procs[p])'
    <3>1. StacksOf(r.proc, t + 1)
      BY <2>6, <2>11, <2>22 DEF StacksOf
    <3>2. Trampoline \in Nat /\ PageSize \in Nat
      BY SpaceAssumption DEF Page
    <3>3. Trampoline * PageSize \in Nat
      BY <3>2
    <3>4. HeapOf(r.proc)
      BY <2>6, <2>11, <3>3 DEF HeapOf
    <3> QED
      BY <1>5, <2>15, <3>1, <3>4 DEF HeapOf
  <2>24. StackTask'
    <3>1. t \notin procs'[p].threads /\ t < nextTid' /\ t \in Int
      BY <1>5, <1>6, <2>6, <2>11, <2>15 DEF Tid
    <3> QED
      BY <1>6, <2>15, <2>16, <2>17, <2>22, <3>1 DEF StackTask
  <2>25. HeapTask' /\ task' \in Task
    BY <2>17 DEF HeapTask, Task
  <2>26. Counted(mem)' /\ mem.taken \subseteq mem'.taken /\ boot' = boot /\ kernel' = kernel
    BY <1>5, <2>3, <2>11, <2>14 DEF Counted
  <2> QED
    BY <1>5, <1>6, <1>7, <1>9, <2>15, <2>17, <2>18, <2>20, <2>21, <2>23, <2>24, <2>25, <2>26, StepKeeps
<1> QED
  BY <1>10, <1>11

(* A page of a stack: on a failure the pages before it go back and their   *)
(* entries no longer count.                                                *)
LEMMA StackPageKeeps ==
  ASSUME Ind, StackPage
  PROVE  Ind'
<1>1. /\ task.op = "stack" /\ task \notin {Idle, Undefined}
      /\ task \in [op : {"stack"}, pid : Pid, tid : Tid, page : Page,
                   then : {"idle", "headers"}, image : ImageSizes \union {0}]
  BY TaskIs DEF StackPage, Ind
<1>2. PICK p : p = task.pid
  OBVIOUS
<1>3. PICK v : v = task.page
  OBVIOUS
<1>4. PICK t \in Tid : t = task.tid
  BY <1>1
<1>5. PICK pr : pr = procs[p]
  OBVIOUS
<1>6. PICK f : f = AllocLow(mem)
  OBVIOUS
<1>7. PICK r : r = MapPage(Take(mem, f), pr, v, f)
  OBVIOUS
<1>8. PICK back : back = {pr.pages[w] : w \in StackBase(t) .. v - 1} \ {None, 0}
  OBVIOUS
<1>9. PICK X : X = Beside(pr.threads \union {t})
  OBVIOUS
<1>10. /\ Making(p) = {t} /\ \A w \in Pid \ {p} : Making(w) = {}
       /\ Excluded(p) = X
  BY <1>1, <1>2, <1>4, <1>5, <1>9 DEF Making, Excluded
<1>11. /\ p \in LivePids /\ p \in Pid /\ boot = "up" /\ v \in Page /\ p < nextPid
  BY <1>1, <1>2, <1>3, Working
<1>12. /\ pr \in Process /\ HeapOf(pr) /\ Counted(mem) /\ StacksOf(pr, nextTid)
       /\ kernel \subseteq mem.taken \ Reserved
       /\ Own(mem, pr, X) /\ Owns(p) = Mine(pr, X)
  BY <1>5, <1>10, <1>11, Living
<1>13. /\ t < nextTid /\ t \notin pr.threads /\ v \in StackOf(t)
       /\ \A w \in StackOf(t) : IsMapped(pr, w) <=> w < v
  BY <1>1, <1>2, <1>3, <1>4, <1>5 DEF Ind, Stacks, StackTask
<1>14. /\ UNCHANGED <<boot, kernel, nextPid, nextTid>>
       /\ \/ /\ f = None
             /\ mem' = Give(mem, back)
             /\ task' = AfterStack
             /\ UNCHANGED procs
          \/ /\ f # None /\ ~r.ok
             /\ mem' = Give(Give(r.mem, {f}), back)
             /\ task' = AfterStack
             /\ UNCHANGED procs
          \/ /\ f # None /\ r.ok /\ ~LastPage(v)
             /\ mem' = r.mem
             /\ procs' = [procs EXCEPT ![p] = r.proc]
             /\ task' = [task EXCEPT !.page = v + 1]
          \/ /\ f # None /\ r.ok /\ LastPage(v)
             /\ mem' = r.mem
             /\ procs' = [procs EXCEPT ![p] = [r.proc EXCEPT !.threads = @ \union {t}]]
             /\ task' = AfterStack
  BY <1>2, <1>3, <1>4, <1>5, <1>6, <1>7, <1>8 DEF StackPage, SetProc, MappedStack
<1>15. /\ StackBase(t) \in Int /\ StackPages \in Nat \ {0} /\ v \in Int
       /\ StackOf(t) = StackBase(t) .. StackBase(t) + StackPages - 1
       /\ StackOf(t) \subseteq Page /\ StackOf(t) \intersect X = {}
       /\ StackBase(t) <= v /\ v <= StackBase(t) + StackPages - 1
  <2>1. pr.threads \union {t} \in SUBSET Tid /\ t \in pr.threads \union {t}
    BY <1>12 DEF Process
  <2>2. StackOf(t) \intersect X = {}
    BY <1>9, <2>1, BesideIs
  <2>3. StackBase(t) \in Int /\ StackPages \in Nat \ {0} /\ StackOf(t) \subseteq Page
    BY StackPlaces, SpaceAssumption
  <2>4. StackOf(t) = StackBase(t) .. StackBase(t) + StackPages - 1
    BY DEF StackOf
  <2> QED
    BY <1>13, <2>2, <2>3, <2>4
<1>16. nextPid' \in nextPid .. MaxPid + 1 /\ nextTid' \in nextTid .. MaxTid + 1 /\ p < nextPid'
  BY <1>11, <1>14, CountersIs
<1>17. ASSUME task' = AfterStack
       PROVE  /\ task' \in Task /\ StackTask' /\ HeapTask' /\ (task' \notin {Idle, Undefined} => task'.pid = p)
              /\ \A w \in Pid : Making(w)' = {}
  <2>1. CASE task.then = "idle"
    <3>1. task' = Idle
      BY <1>17, <2>1 DEF AfterStack
    <3> QED
      BY <3>1 DEF Task, StackTask, HeapTask, Making, Idle
  <2>2. CASE task.then # "idle"
    <3>1. task.then = "headers"
      BY <1>1, <2>2
    <3>2. PICK n \in ImageSizes : n = task.image
      BY <1>1, <3>1 DEF Ind, Stacks, StackTask
    <3>3. task' = [op |-> "headers", pid |-> p, image |-> n]
      BY <1>2, <1>17, <2>2, <3>2 DEF AfterStack
    <3>4. task' \in [op : {"headers"}, pid : Pid, image : ImageSizes] /\ task'.op = "headers" /\ task'.pid = p
      BY <1>11, <3>3
    <3> QED
      BY <3>4 DEF Task, StackTask, HeapTask, Making
  <2> QED
    BY <2>1, <2>2
<1>18. /\ back \subseteq Mine(pr, X) /\ back \subseteq mem.taken \ Reserved
       /\ \A w \in UsedBy(pr, X) : pr.pages[w] \in back <=> w \in StackOf(t)
       /\ \A i \in Table : pr.tables[i] \notin back
       /\ pr.dir \notin back
  <2>1. StackBase(t) .. v - 1 \subseteq StackOf(t)
    BY <1>15
  <2>2. \A w \in StackBase(t) .. v - 1 : w \in UsedBy(pr, X)
    <3> TAKE w \in StackBase(t) .. v - 1
    <3>1. w \in StackOf(t) /\ w < v
      BY <1>15, <2>1
    <3> QED
      BY <1>13, <1>15, <3>1 DEF UsedBy
  <2>3. \A g \in back : \E w \in UsedBy(pr, X) : w \in StackOf(t) /\ pr.pages[w] = g
    BY <1>8, <2>1, <2>2
  <2>4. back \subseteq Mine(pr, X)
    BY <2>3 DEF Mine
  <2>5. \A w \in UsedBy(pr, X) : pr.pages[w] \in back => w \in StackOf(t)
    BY <1>12, <2>3 DEF Own, Apart
  <2>6. \A w \in UsedBy(pr, X) : w \in StackOf(t) => pr.pages[w] \in back
    <3> TAKE w \in UsedBy(pr, X)
    <3>1. ASSUME w \in StackOf(t) PROVE w \in StackBase(t) .. v - 1
      <4>1. w < v
        BY <1>13, <3>1 DEF UsedBy
      <4> QED
        BY <1>15, <3>1, <4>1
    <3>2. pr.pages[w] \notin {None, 0}
      BY DEF UsedBy, IsMapped
    <3> QED
      BY <1>8, <3>1, <3>2
  <2>7. (\A i \in Table : pr.tables[i] \notin back) /\ pr.dir \notin back
    BY <1>12, <2>3 DEF Own, Apart
  <2>8. back \subseteq mem.taken \ Reserved
    BY <1>12, <2>4 DEF Own
  <2> QED
    BY <2>4, <2>5, <2>6, <2>7, <2>8
<1>19. ASSUME task' = AfterStack, UNCHANGED procs, Counted(mem)', mem'.taken = mem.taken \ back
       PROVE  Ind'
  <2>1. PICK Y : Y = Beside(pr.threads)
    OBVIOUS
  <2>2. Excluded(p)' = Y
    BY <1>5, <1>11, <1>17, <1>19, <2>1 DEF Excluded
  <2>3. Y = X \union StackOf(t)
    BY <1>9, <1>13, <2>1 DEF Beside
  <2>4. UsedBy(pr, Y) \subseteq UsedBy(pr, X) /\ \A w \in UsedBy(pr, Y) : pr.pages[w] \notin back
    BY <1>18, <2>3 DEF UsedBy
  <2>5. Own(mem, pr, Y) /\ Mine(pr, Y) \subseteq Mine(pr, X)
    BY <1>12, <2>4, OwnLess
  <2>6. Mine(pr, Y) \intersect back = {}
    <3>1. \A g \in TableFrames(pr) : g \notin back
      BY <1>18 DEF TableFrames
    <3> QED
      BY <1>18, <2>4, <3>1 DEF Mine
  <2>7. Mine(pr, Y) \subseteq mem'.taken \ (kernel \union Reserved)
    BY <1>19, <2>5, <2>6 DEF Own
  <2>8. p \in LivePids'
    BY <1>11, <1>19 DEF LivePids
  <2>9. Own(mem, procs[p], Excluded(p))' /\ Owns(p)' \subseteq Owns(p)
    <3>1. Owns(p)' = Mine(pr, Y)
      BY <1>5, <1>19, <2>2, <2>8 DEF Owns
    <3>2. Own(mem, procs[p], Excluded(p))'
      BY <1>5, <1>14, <1>19, <2>2, <2>5, <2>7 DEF Own
    <3> QED
      BY <1>12, <2>5, <3>1, <3>2
  <2>10. StacksOf(procs[p], nextTid)' /\ HeapOf(procs[p])'
    BY <1>5, <1>12, <1>14, <1>19 DEF StacksOf, HeapOf
  <2>11. mem.taken \ Owns(p) \subseteq mem'.taken
    BY <1>12, <1>18, <1>19
  <2>12. procs' \in [Pid -> Process \union {Gone}]
    BY <1>19 DEF Ind, TypeOK
  <2> QED
    BY <1>10, <1>11, <1>14, <1>16, <1>17, <1>19, <2>8, <2>9, <2>10, <2>11, <2>12, StepKeeps
<1>20. f # None => f \in Free(mem) /\ f \in Frame \ Reserved
  BY <1>6, <1>12, AllocLowIs
<1>21. CASE f = None
  <2>1. mem' = Give(mem, back) /\ task' = AfterStack /\ UNCHANGED procs
    BY <1>14, <1>21
  <2>2. Counted(Give(mem, back)) /\ Give(mem, back).taken = mem.taken \ back
    BY <1>12, <1>18, GiveCounts
  <2>3. Counted(mem)' /\ mem'.taken = mem.taken \ back
    BY <2>1, <2>2 DEF Counted
  <2> QED
    BY <1>19, <2>1, <2>3
<1>22. ASSUME f # None
       PROVE  /\ r.ok \in BOOLEAN /\ Counted(r.mem) /\ mem.taken \union {f} \subseteq r.mem.taken
              /\ r.proc \in Process /\ Own(r.mem, r.proc, X)
              /\ Mine(r.proc, X) \subseteq Mine(pr, X) \union (r.mem.taken \ mem.taken)
              /\ r.ok => IsMapped(r.proc, v)
              /\ \A w \in Page \ {v} : IsMapped(r.proc, w) <=> IsMapped(pr, w)
              /\ ~r.ok => r.mem = Take(mem, f) /\ r.proc = pr
              /\ r.proc.threads = pr.threads
              /\ r.proc.heapEnd = pr.heapEnd /\ r.proc.heapMax = pr.heapMax
  BY <1>7, <1>11, <1>12, <1>20, <1>22, TakeMapIs
<1>23. CASE f # None /\ ~r.ok
  <2>1. mem' = Give(Give(r.mem, {f}), back) /\ task' = AfterStack /\ UNCHANGED procs
    BY <1>14, <1>23
  <2>2. r.mem = Take(mem, f) /\ Counted(r.mem) /\ f \notin mem.taken /\ f \notin Reserved
        /\ r.mem.taken = mem.taken \union {f}
    BY <1>12, <1>20, <1>22, <1>23, TakeCounts
  <2>3. PICK m : m = Give(r.mem, {f})
    OBVIOUS
  <2>4. Counted(m) /\ m.taken = mem.taken
    <3>1. {f} \subseteq r.mem.taken \ Reserved
      BY <2>2
    <3>2. Counted(m) /\ m.taken = r.mem.taken \ {f}
      BY <2>2, <2>3, <3>1, GiveCounts
    <3> QED
      BY <2>2, <3>2
  <2>5. Counted(Give(m, back)) /\ Give(m, back).taken = mem.taken \ back
    BY <1>18, <2>4, GiveCounts
  <2>6. Counted(mem)' /\ mem'.taken = mem.taken \ back
    BY <2>1, <2>3, <2>5 DEF Counted
  <2> QED
    BY <1>19, <2>1, <2>6
<1>24. ASSUME f # None, r.ok, NEW q \in Process, procs' = [procs EXCEPT ![p] = q],
              SameFrames(r.proc, q), q.heapEnd = pr.heapEnd, q.heapMax = pr.heapMax,
              q.threads \subseteq pr.threads \union {t}, q.threads = pr.threads \/ LastPage(v),
              mem' = r.mem, q.threads \union Making(p)' = pr.threads \union {t},
              \A w \in Pid \ {p} : Making(w)' = {},
              task' \in Task, task' \notin {Idle, Undefined} => task'.pid = p,
              StackTask', HeapTask'
       PROVE  Ind'
  <2>1. /\ procs'[p] = q /\ \A w \in Pid \ {p} : procs'[w] = procs[w]
        /\ procs' \in [Pid -> Process \union {Gone}]
    BY <1>11, <1>24 DEF Ind, TypeOK
  <2>2. Excluded(p)' = X
    BY <1>9, <1>24, <2>1 DEF Excluded
  <2>3. p \in LivePids'
    BY <1>11, <2>1 DEF LivePids, Process
  <2>4. Own(r.mem, q, X) /\ Mine(q, X) = Mine(r.proc, X)
    BY <1>22, <1>24, SameFramesOwn
  <2>5. Own(mem, procs[p], Excluded(p))' /\ Owns(p)' \subseteq Owns(p) \union (mem'.taken \ mem.taken)
    <3>1. Owns(p)' = Mine(q, X)
      BY <2>1, <2>2, <2>3 DEF Owns
    <3>2. Own(mem, procs[p], Excluded(p))'
      BY <1>14, <1>24, <2>1, <2>2, <2>4 DEF Own
    <3> QED
      BY <1>12, <1>22, <1>24, <2>4, <3>1, <3>2
  <2>6. /\ IsMapped(q, v) /\ \A w \in Page \ {v} : IsMapped(q, w) <=> IsMapped(pr, w)
    BY <1>22, <1>24 DEF SameFrames, IsMapped
  <2>7. StacksOf(q, nextTid)
    <3>1. ASSUME NEW u \in pr.threads
          PROVE  u < nextTid /\ \A w \in StackOf(u) : IsMapped(q, w)
      <4>1. u \in Tid /\ StackOf(u) \subseteq Page
        BY <1>12, StackPlaces DEF Process
      <4>2. u < nextTid /\ \A w \in StackOf(u) : IsMapped(pr, w)
        BY <1>12 DEF StacksOf
      <4> QED
        BY <2>6, <4>1, <4>2
    <3>2. ASSUME LastPage(v)
          PROVE  \A w \in StackOf(t) : IsMapped(q, w)
      <4> TAKE w \in StackOf(t)
      <4>1. v = StackBase(t) + StackPages - 1
        BY <1>4, <1>15, <3>2 DEF LastPage
      <4>2. w = v \/ w < v
        BY <1>15, <4>1
      <4>3. w \in Page
        BY <1>15
      <4> QED
        BY <1>13, <2>6, <4>2, <4>3
    <3>3. ASSUME NEW u \in Tid, u >= nextTid, NEW w \in StackOf(u)
          PROVE  ~IsMapped(q, w)
      <4>1. u # t
        BY <1>13, <3>3, CountersIs DEF Tid
      <4>2. StackOf(u) \intersect StackOf(t) = {} /\ StackOf(u) \subseteq Page
        BY <3>3, <4>1, StackPlaces
      <4>3. ~IsMapped(pr, w)
        BY <1>12, <3>3 DEF StacksOf
      <4> QED
        BY <1>13, <2>6, <3>3, <4>2, <4>3
    <3>4. \A u \in q.threads : u \in pr.threads \/ (u = t /\ LastPage(v))
      BY <1>24
    <3>5. \A u \in q.threads : u < nextTid /\ \A w \in StackOf(u) : IsMapped(q, w)
      BY <1>13, <3>1, <3>2, <3>4
    <3> QED
      BY <3>3, <3>5 DEF StacksOf
  <2>8. StacksOf(procs[p], nextTid)' /\ HeapOf(procs[p])'
    BY <1>12, <1>14, <1>24, <2>1, <2>7 DEF HeapOf
  <2>9. Counted(mem)' /\ mem.taken \subseteq mem'.taken
    BY <1>22, <1>24 DEF Counted
  <2>10. boot' = boot /\ kernel' = kernel
    BY <1>14
  <2>11. task' \in Task /\ (task' \notin {Idle, Undefined} => task'.pid \in LivePids') /\ StackTask' /\ HeapTask'
    BY <1>24, <2>3
  <2>12. \A w \in Pid \ {p} : procs'[w] = procs[w] /\ Making(w)' = Making(w)
    BY <1>10, <1>24, <2>1
  <2>13. mem.taken \ Owns(p) \subseteq mem'.taken
    BY <2>9
  <2> QED
    BY <1>11, <1>16, <2>1, <2>3, <2>5, <2>8, <2>9, <2>10, <2>11, <2>12, <2>13, StepKeeps
<1>25. CASE f # None /\ r.ok /\ ~LastPage(v)
  <2>1. mem' = r.mem /\ procs' = [procs EXCEPT ![p] = r.proc] /\ task' = [task EXCEPT !.page = v + 1]
    BY <1>14, <1>25
  <2>2. v + 1 \in StackOf(t) /\ v + 1 \in Page
    <3>1. v # StackBase(t) + StackPages - 1
      BY <1>4, <1>15, <1>25 DEF LastPage
    <3>2. v + 1 \in StackBase(t) .. StackBase(t) + StackPages - 1
      BY <1>15, <3>1
    <3> QED
      BY <1>15, <3>2
  <2>3. /\ task' \in [op : {"stack"}, pid : Pid, tid : Tid, page : Page,
                      then : {"idle", "headers"}, image : ImageSizes \union {0}]
        /\ task'.op = "stack" /\ task'.pid = p /\ task'.tid = t /\ task'.page = v + 1
        /\ task'.then = task.then /\ task'.image = task.image
    BY <1>1, <1>2, <1>4, <2>1, <2>2
  <2>4. Making(p)' = {t} /\ \A w \in Pid \ {p} : Making(w)' = {}
    BY <2>3 DEF Making
  <2>5. task' \in Task /\ HeapTask'
    BY <2>3 DEF Task, HeapTask
  <2>6. /\ r.proc \in Process /\ r.proc.threads = pr.threads
        /\ r.proc.heapEnd = pr.heapEnd /\ r.proc.heapMax = pr.heapMax /\ SameFrames(r.proc, r.proc)
    BY <1>22, <1>25 DEF SameFrames
  <2>7. procs'[p] = r.proc
    BY <1>11, <2>1 DEF Ind, TypeOK
  <2>8. StackTask'
    <3>1. \A w \in StackOf(t) : IsMapped(r.proc, w) <=> w < v + 1
      <4> TAKE w \in StackOf(t)
      <4>1. w \in Page /\ w \in Int
        BY <1>15
      <4>2. CASE w = v
        BY <1>15, <1>22, <1>25, <4>2
      <4>3. CASE w # v
        <5>1. IsMapped(r.proc, w) <=> IsMapped(pr, w)
          BY <1>22, <1>25, <4>1, <4>3
        <5>2. w < v <=> w < v + 1
          BY <1>15, <4>1, <4>3
        <5> QED
          BY <1>13, <5>1, <5>2
      <4> QED
        BY <4>2, <4>3
    <3>2. task.then = "headers" => task.image \in ImageSizes
      BY <1>1 DEF Ind, Stacks, StackTask
    <3> QED
      BY <1>13, <1>14, <2>2, <2>3, <2>6, <2>7, <3>1, <3>2 DEF StackTask
  <2>9. r.proc.threads \union Making(p)' = pr.threads \union {t}
    BY <2>4, <2>6
  <2>10. \A w \in Pid \ {p} : Making(w)' = {}
    BY <2>4
  <2>11. PICK q \in Process : q = r.proc
    BY <2>6
  <2>12. /\ procs' = [procs EXCEPT ![p] = q] /\ SameFrames(r.proc, q)
         /\ q.heapEnd = pr.heapEnd /\ q.heapMax = pr.heapMax /\ q.threads = pr.threads
         /\ q.threads \subseteq pr.threads \union {t} /\ mem' = r.mem
    BY <2>1, <2>6, <2>11
  <2>13. q.threads \union Making(p)' = pr.threads \union {t}
    BY <2>9, <2>11
  <2>14. task' \notin {Idle, Undefined} => task'.pid = p
    BY <2>3
  <2>15. f # None /\ r.ok
    BY <1>25
  <2> QED
    BY <1>24, <2>5, <2>8, <2>10, <2>12, <2>13, <2>14, <2>15
<1>26. CASE f # None /\ r.ok /\ LastPage(v)
  <2> DEFINE q == [r.proc EXCEPT !.threads = @ \union {t}]
  <2>1. mem' = r.mem /\ procs' = [procs EXCEPT ![p] = q] /\ task' = AfterStack
    BY <1>14, <1>26
  <2>2. /\ q \in Process /\ q.threads = pr.threads \union {t} /\ SameFrames(r.proc, q)
        /\ q.heapEnd = pr.heapEnd /\ q.heapMax = pr.heapMax
    BY <1>22, <1>26 DEF Process, SameFrames
  <2> HIDE DEF q
  <2>3. /\ task' \in Task /\ StackTask' /\ HeapTask' /\ (task' \notin {Idle, Undefined} => task'.pid = p)
        /\ \A w \in Pid : Making(w)' = {}
    BY <1>17, <2>1
  <2>4. q.threads \union Making(p)' = pr.threads \union {t}
    BY <1>11, <2>2, <2>3
  <2>5. \A w \in Pid \ {p} : Making(w)' = {}
    BY <2>3
  <2> QED
    BY <1>24, <1>26, <2>1, <2>2, <2>3, <2>4, <2>5
<1> QED
  BY <1>14, <1>21, <1>23, <1>25, <1>26

(* Every step keeps the invariant.                                         *)
LEMMA NextInd ==
  ASSUME Ind, [Next]_vars
  PROVE  Ind'
<1>1. CASE UNCHANGED vars
  <2>1. UNCHANGED <<boot, mem, kernel, procs, task, nextPid, nextTid>>
    BY <1>1 DEF vars, spaceVars
  <2>2. LivePids' = LivePids /\ \A p \in Pid : Excluded(p)' = Excluded(p)
    BY <2>1 DEF LivePids, Excluded, Making
  <2>3. \A p \in Pid : Owns(p)' = Owns(p) /\ (Own(mem, procs[p], Excluded(p))' <=> Own(mem, procs[p], Excluded(p)))
    BY <2>1, <2>2 DEF Owns, Own
  <2>4. TypeOK' /\ Booting'
    BY <2>1, <2>2 DEF Ind, TypeOK, Booting, Counted
  <2>5. Spaces'
    BY <2>2, <2>3 DEF Ind, Spaces, LivePids
  <2>6. Stacks' /\ Heaps'
    BY <2>1, <2>2 DEF Ind, Stacks, Heaps, StackTask, HeapTask, StacksOf, HeapOf
  <2> QED
    BY <2>4, <2>5, <2>6 DEF Ind
<1>2. CASE Next
  BY <1>2, BootKeeps, CreateProcessKeeps, CloneThreadKeeps, StackPageKeeps, HeadersUnreadKeeps,
     HeadersReadKeeps, ImagePageKeeps, ImageLoadedKeeps, HeapPageKeeps, HeapSetKeeps, SbrkKeeps,
     SbrkPageKeeps, SbrkDoneKeeps, ExitThreadKeeps, KillProcessKeeps DEF Next
<1> QED
  BY <1>1, <1>2

(* The invariant holds always.                                             *)
LEMMA AlwaysInd == Spec => []Ind
<1>1. Init => Ind
  BY InitInd
<1>2. Ind /\ [Next]_vars => Ind'
  BY NextInd
<1> QED
  BY <1>1, <1>2, PTL DEF Spec
----------------------------------------------------------------------------
(* As many values as arguments.                                            *)
LEMMA ImageCounts ==
  ASSUME NEW S, IsFiniteSet(S), NEW f, \A x, y \in S : f[x] = f[y] => x = y
  PROVE  /\ IsFiniteSet({f[x] : x \in S}) /\ Cardinality({f[x] : x \in S}) = Cardinality(S)
<1> DEFINE T == {f[x] : x \in S}
           g == [x \in S |-> f[x]]
<1>1. g \in Bijection(S, T)
  BY DEF Bijection, Injection, Surjection, IsInjective
<1>2. ExistsBijection(S, T)
  BY <1>1 DEF ExistsBijection
<1> QED
  BY <1>2, FS_Bijection

(* Frames in places of their own are as many as the places.                *)
LEMMA OwnedCounts ==
  ASSUME NEW pr \in Process, NEW X, Apart(pr, X)
  PROVE  Cardinality(Mine(pr, X)) =
           Cardinality(UsedBy(pr, X)) + Cardinality({i \in Table : pr.tables[i] # None}) + 1
<1> DEFINE U == UsedBy(pr, X)
           I == {i \in Table : pr.tables[i] # None}
           A == {pr.pages[v] : v \in U}
           B == {pr.tables[i] : i \in I}
<1>1. IsFiniteSet(Page)
  <2>1. 0 \in Int /\ StackTop - 1 \in Int
    BY SpaceAssumption
  <2> QED
    BY <2>1, FS_Interval DEF Page
<1>2. IsFiniteSet(U)
  <2>1. U \in SUBSET Page
    BY DEF UsedBy
  <2> QED
    BY <1>1, <2>1, FS_Subset
<1>3. IsFiniteSet(Table)
  <2>1. \A v \in Page : v \in Nat /\ v <= StackTop
    BY SpaceAssumption DEF Page
  <2>2. \A v \in Page : v \div PerTable \in Nat /\ v \div PerTable <= StackTop
    <3> TAKE v \in Page
    <3>1. PerTable \in Nat \ {0} /\ v \in Nat /\ v <= StackTop /\ StackTop \in Nat
      BY <2>1, SpaceAssumption
    <3> QED
      BY <3>1
  <2>3. Table \in SUBSET Nat /\ \A i \in Table : i <= StackTop
    BY <2>2 DEF Table
  <2> QED
    BY <2>3, SpaceAssumption, FS_BoundedSetOfNaturals
<1>4. IsFiniteSet(I)
  <2>1. I \in SUBSET Table
    OBVIOUS
  <2> QED
    BY <1>3, <2>1, FS_Subset
<1>5. IsFiniteSet(A) /\ Cardinality(A) = Cardinality(U)
  <2>1. \A x, y \in U : pr.pages[x] = pr.pages[y] => x = y
    BY DEF Apart
  <2> QED
    BY <1>2, <2>1, ImageCounts
<1>6. IsFiniteSet(B) /\ Cardinality(B) = Cardinality(I)
  <2>1. \A x, y \in I : pr.tables[x] = pr.tables[y] => x = y
    BY DEF Apart
  <2> QED
    BY <1>4, <2>1, ImageCounts
<1>7. A \intersect B = {} /\ pr.dir \notin A \union B
  BY DEF Apart
<1>8. Mine(pr, X) = (A \union B) \union {pr.dir}
  <2>1. TableFrames(pr) = B
    BY DEF TableFrames
  <2> QED
    BY <2>1 DEF Mine
<1> HIDE DEF U, I, A, B
<1>9. /\ IsFiniteSet(A \union B)
      /\ Cardinality(A \union B) = Cardinality(A) + Cardinality(B) - Cardinality(A \intersect B)
  BY <1>5, <1>6, FS_Union
<1>10. Cardinality(A \intersect B) = 0
  BY <1>7, FS_EmptySet
<1>11. Cardinality((A \union B) \union {pr.dir}) = Cardinality(A \union B) + 1
  BY <1>7, <1>9, FS_AddElement
<1>12. Cardinality(A) \in Nat /\ Cardinality(B) \in Nat
  BY <1>5, <1>6, FS_CardinalityType
<1>13. Cardinality(Mine(pr, X)) = Cardinality(U) + Cardinality(I) + 1
  BY <1>5, <1>6, <1>8, <1>9, <1>10, <1>11, <1>12
<1> QED
  BY <1>13 DEF U, I

(* What OneOwner says a process owns is what the invariant says.           *)
LEMMA OwnedIs ==
  ASSUME NEW p \in LivePids
  PROVE  InUse(p) = UsedBy(procs[p], Excluded(p)) /\ Owned(p) = Owns(p)
<1>1. Excluded(p) = {Trampoline} \union Abandoned(p)
  BY DEF Excluded, Beside, Abandoned, Making
<1>2. InUse(p) = UsedBy(procs[p], Excluded(p))
  BY <1>1 DEF InUse, UsedBy
<1> QED
  BY <1>2 DEF Owned, Owns, Mine

(* There are processes only after the boot.                                *)
LEMMA IndUp ==
  ASSUME Ind, NEW p \in LivePids
  PROVE  boot = "up"
BY DEF Ind, Booting, LivePids, Gone

(* The invariant gives OneOwner.                                           *)
LEMMA IndOwner ==
  ASSUME Ind
  PROVE  OneOwner
<1> SUFFICES ASSUME NEW p \in LivePids
             PROVE  /\ Owned(p) \subseteq mem.taken \ kernel
                    /\ \A q \in LivePids \ {p} : Owned(p) \intersect Owned(q) = {}
                    /\ Cardinality(Owned(p)) =
                         Cardinality(InUse(p)) + Cardinality({i \in Table : procs[p].tables[i] # None}) + 1
  BY DEF OneOwner
<1>1. /\ procs[p] \in Process /\ Own(mem, procs[p], Excluded(p)) /\ Owns(p) = Mine(procs[p], Excluded(p))
  BY IndUp, Living
<1>2. Owned(p) \subseteq mem.taken \ kernel
  BY <1>1, OwnedIs DEF Own
<1>3. \A q \in LivePids \ {p} : Owned(p) \intersect Owned(q) = {}
  BY OwnedIs DEF Ind, Spaces
<1>4. Cardinality(Mine(procs[p], Excluded(p))) =
        Cardinality(UsedBy(procs[p], Excluded(p))) + Cardinality({i \in Table : procs[p].tables[i] # None}) + 1
  BY <1>1, OwnedCounts DEF Own
<1> QED
  BY <1>1, <1>2, <1>3, <1>4, OwnedIs

(* The step that moves the end of a heap up.                               *)
LEMMA SbrkStep ==
  ASSUME Ind, Next, NEW p \in LivePids, procs'[p].live, task.op = "sbrk",
         procs'[p].heapEnd > procs[p].heapEnd
  PROVE  \A v \in RoundUp(procs[p].heapEnd) .. RoundUp(procs'[p].heapEnd) - 1 : IsMapped(procs'[p], v)
<1>1. /\ task \notin {Idle, Undefined}
      /\ task \in [op : {"sbrk"}, pid : Pid, page : Page, brk : Nat]
  BY TaskIs DEF Ind
<1>2. boot = "up" /\ p \in Pid /\ procs[p] \in Process /\ procs[p].heapEnd \in Nat
  BY IndUp, Living DEF Process
<1>3. procs'[p] # procs[p]
  BY <1>2
<1>4. SbrkPage \/ SbrkDone
  <2>1. ~BootStep
    BY <1>3 DEF BootStep, spaceVars
  <2>2. \A n \in ImageSizes : ~CreateProcess(n)
    BY <1>1 DEF CreateProcess
  <2>3. \A q \in Pid : ~CloneThread(q) /\ ~KillProcess(q)
    BY <1>1 DEF CloneThread, KillProcess
  <2>4. /\ ~StackPage /\ ~HeadersUnread /\ ~HeadersRead /\ ~ImagePage /\ ~ImageLoaded
        /\ ~HeapPage /\ ~HeapSet
    BY DEF StackPage, HeadersUnread, HeadersRead, ImagePage, ImageLoaded, HeapPage, HeapSet
  <2>5. \A q \in Pid, n \in Increments : ~Sbrk(q, n)
    BY <1>1 DEF Sbrk
  <2>6. \A q \in Pid, t \in Tid : ~ExitThread(q, t)
    BY <1>1 DEF ExitThread
  <2> QED
    BY <2>1, <2>2, <2>3, <2>4, <2>5, <2>6 DEF Next
<1>5. ~SbrkPage
  <2> SUFFICES ASSUME SbrkPage PROVE FALSE
    OBVIOUS
  <2>1. PICK w : w = task.pid
    OBVIOUS
  <2>a. PICK v : v = task.page
    OBVIOUS
  <2>3. PICK f : f = Alloc(mem)
    OBVIOUS
  <2>b. PICK r : r = MapPage(Take(mem, f), procs[w], v, f)
    OBVIOUS
  <2>c. \/ UNCHANGED procs
        \/ f # None /\ ~(f >= Frames) /\ procs' = [procs EXCEPT ![w] = r.proc]
    BY <2>1, <2>3, <2>a, <2>b DEF SbrkPage, SetProc
  <2>d. f # None /\ ~(f >= Frames) /\ procs' = [procs EXCEPT ![w] = r.proc]
    BY <1>3, <2>c
  <2>2. w = p
    BY <1>2, <1>3, <2>d DEF Ind, TypeOK
  <2>4. /\ Counted(mem) /\ kernel \subseteq mem.taken /\ Own(mem, procs[p], Excluded(p))
    BY <1>2, Living
  <2>5. f \in Free(mem) /\ f \in Frame \ Reserved
    <3>1. f \in Free(mem) /\ f \in Nat \ Reserved
      BY <2>d, <2>3, <2>4, AllocIs
    <3> QED
      BY <2>d, <3>1, RegionIs DEF Frame
  <2>7. v \in Page /\ r = MapPage(Take(mem, f), procs[p], v, f)
    BY <1>1, <2>2, <2>a, <2>b
  <2>8. r.proc.heapEnd = procs[p].heapEnd
    BY <1>2, <2>4, <2>5, <2>7, TakeMapIs
  <2>9. procs'[p] = r.proc
    BY <1>2, <2>2, <2>d DEF Ind, TypeOK
  <2> QED
    BY <1>2, <2>8, <2>9
<1>6. SbrkDone
  BY <1>4, <1>5
<1>7. /\ procs' = [procs EXCEPT ![task.pid] = [procs[task.pid] EXCEPT !.heapEnd = task.brk]]
      /\ task.page >= RoundUp(task.brk)
  BY <1>6 DEF SbrkDone, SetProc
<1>8. task.pid = p
  BY <1>3, <1>7 DEF Ind, TypeOK
<1>9. PICK b \in Nat : b = task.brk
  BY <1>1
<1>10. PICK v \in Page : v = task.page
  BY <1>1
<1>11. procs'[p].heapEnd = b /\ procs'[p].pages = procs[p].pages
  <2>1. procs'[p] = [procs[p] EXCEPT !.heapEnd = b]
    BY <1>2, <1>7, <1>8, <1>9 DEF Ind, TypeOK
  <2> QED
    BY <1>2, <2>1 DEF Process
<1>12. \A w \in RoundUp(procs[p].heapEnd) .. v - 1 : IsMapped(procs[p], w)
  BY <1>8, <1>10 DEF Ind, Heaps, HeapTask
<1>13. RoundUp(procs[p].heapEnd) \in Nat /\ RoundUp(b) \in Nat /\ RoundUp(b) <= v /\ v \in Nat
  BY <1>2, <1>7, <1>9, <1>10, RoundUpIs DEF Page
<1>14. \A w \in RoundUp(procs[p].heapEnd) .. RoundUp(b) - 1 : IsMapped(procs[p], w)
  BY <1>12, <1>13
<1> QED
  BY <1>11, <1>14 DEF IsMapped
----------------------------------------------------------------------------
(* Every variable keeps its type: used_blocks never wraps below zero, and  *)
(* the path under way is one of a process that has not ended.              *)
THEOREM SpaceTypeCorrect == Spec => []TypeOK
<1>1. Ind => TypeOK
  BY DEF Ind
<1> QED
  BY <1>1, AlwaysInd, PTL

(* used_blocks counts the bits that are set, but for the reserved ones: no *)
(* frame is freed twice, or freed when it is not taken, whatever fails.    *)
THEOREM CountAlwaysExact == Spec => []CountExact
<1>1. Ind => CountExact
  BY DEF Ind, Booting, CountExact, Counted
<1> QED
  BY <1>1, AlwaysInd, PTL

(* Every frame that a process uses is taken, not the kernel's, and in one  *)
(* place of one process.                                                   *)
THEOREM FramesHaveOneOwner == Spec => []OneOwner
<1>1. Ind => OneOwner
  BY IndOwner
<1> QED
  BY <1>1, AlwaysInd, PTL

(* Every thread on its process's list has its whole stack.                 *)
THEOREM StackAlwaysReady == Spec => []StackReady
<1>1. Ind => StackReady
  BY DEF Ind, Stacks, StacksOf, StackReady
<1> QED
  BY <1>1, AlwaysInd, PTL

(* When sbrk moves the end of the heap up, every page it passes is mapped. *)
THEOREM SbrkAlwaysDelivers == Spec => SbrkDelivers
<1> DEFINE A == \A p \in LivePids :
                  procs'[p].live /\ task.op = "sbrk" /\ procs'[p].heapEnd > procs[p].heapEnd =>
                    \A v \in RoundUp(procs[p].heapEnd) .. RoundUp(procs'[p].heapEnd) - 1 :
                      IsMapped(procs'[p], v)
<1>1. Ind /\ [Next]_vars => [A]_vars
  BY SbrkStep
<1>2. Spec => [][A]_vars
  BY <1>1, AlwaysInd, PTL DEF Spec
<1> QED
  BY <1>2 DEF SbrkDelivers
=============================================================================
