---------------------------- MODULE AddressSpace ----------------------------
(***************************************************************************)
(* User address spaces: which frames a process gets, from loadELF(),       *)
(* CreateThread() and sbrk, and which ones KillProcess() gives back        *)
(* (core/scheduler.cpp, core/paging.cpp, core/elf.cpp, core/syscalls.cpp). *)
(*                                                                         *)
(* A kernel path runs to its end with interrupts off, so only one is ever  *)
(* under way: task says which, and a step of it allocates one page.        *)
(*                                                                         *)
(* Pages are virtual page numbers of the user part of the address space,   *)
(* and PageSize is the number of sbrk units in a page.                     *)
(***************************************************************************)
EXTENDS PhysicalMemory

CONSTANTS
  MaxPid, MaxTid,    (* bounds: processes and threads ever created          *)
  PerTable,          (* the pages of a page table                           *)
  StackTop,          (* the page after the stacks: USER_STACK_VIRT_TOP      *)
  StackPages,        (* USER_STACK_PAGES                                    *)
  Trampoline,        (* the page of USER_EXIT_TRAMPOLINE_VIRT               *)
  ImageAt,           (* the first page of a program                         *)
  ImageSizes,        (* bound: the pages that programs have                 *)
  InitialHeap,       (* HEAP_PAGE_COUNT                                     *)
  HeapRoom,          (* the pages a heap may grow by                        *)
  PageSize,
  Increments         (* bound: what user programs ask of sbrk               *)

Pid == 1 .. MaxPid
Tid == 1 .. MaxTid
Page == 0 .. StackTop - 1
Frame == 0 .. Frames - 1

ASSUME SpaceAssumption ==
  /\ MaxPid \in Nat /\ MaxTid \in Nat
  /\ PerTable \in Nat \ {0} /\ PageSize \in Nat \ {0}
  /\ StackPages \in Nat \ {0} /\ InitialHeap \in Nat /\ HeapRoom \in Nat
  /\ StackTop \in Nat /\ Trampoline \in Page
  /\ ImageAt \in Nat /\ ImageSizes \subseteq Nat
  /\ Increments \subseteq Int

VARIABLES
  procs,     (* the processes, by pid: a record, or Gone                     *)
  task,      (* the kernel path under way                                    *)
  nextPid,   (* _pidCounter                                                  *)
  nextTid    (* _tidCounter                                                  *)

spaceVars == <<procs, task, nextPid, nextTid>>
vars == <<boot, mem, kernel, spaceVars>>

Table == {v \div PerTable : v \in Page}
TableOf(v) == v \div PerTable

Gone == [live |-> FALSE]

(* A process: its directory, its tables, what its page tables say, the     *)
(* threads on its list, its program's pages and its heap.                  *)
NewProcess(dir) ==
  [live |-> TRUE, dir |-> dir,
   tables |-> [i \in Table |-> None], pages |-> [v \in Page |-> None],
   threads |-> {}, image |-> 0, heapStart |-> 0, heapEnd |-> 0, heapMax |-> 0]

LivePids == {p \in Pid : procs[p].live}

Idle == [op |-> "idle"]
Undefined == [op |-> "undefined"]

(* The stack of thread t. *)
StackBase(t) == StackTop - (t + 1) * StackPages
StackOf(t) == StackBase(t) .. StackBase(t) + StackPages - 1

RoundUp(b) == (b + PageSize - 1) \div PageSize
----------------------------------------------------------------------------
(* GetPhysicalAddress(), for a whole page; 0 and None are both "not here". *)
IsMapped(pr, v) == pr.pages[v] \notin {None, 0}

(* MapPage(): a table that is not there yet costs a low frame. *)
MapPage(m, pr, v, f) ==
  LET i == TableOf(v)
      entry == [pr EXCEPT !.pages[v] = f]
      t == AllocLow(m)
  IN
  IF pr.tables[i] # None THEN [ok |-> TRUE, mem |-> m, proc |-> entry]
  ELSE IF t = None THEN [ok |-> FALSE, mem |-> m, proc |-> pr]
  ELSE [ok |-> TRUE, mem |-> Take(m, t), proc |-> [entry EXCEPT !.tables[i] = t]]

(* The frame that the scheduler's constructor takes, last of the kernel's. *)
TrampolineFrame == Max(kernel)

(* The parts of RAM and of the address space do not overlap: the kernel    *)
(* and its bitmap fit in RAM, its heap ends below the last frame, and      *)
(* programs with all of their heap end below the trampoline, which is      *)
(* below the stacks.                                                       *)
ASSUME LayoutAssumption ==
  /\ RegionAt <= Frames /\ HeapEnd < Frames
  /\ \A n \in ImageSizes : ImageAt + n + InitialHeap + HeapRoom <= Trampoline
  /\ Trampoline < StackBase(MaxTid)

(* A process's entry is replaced. *)
SetProc(p, pr) == procs' = [procs EXCEPT ![p] = pr]
----------------------------------------------------------------------------
(* CreateProcess() as loadELF() calls it: a directory, and the trampoline  *)
(* page, which may fail unnoticed. Without a frame for the directory the   *)
(* kernel goes on with address 0 for it.                                   *)
CreateProcess(n) ==
  LET dir == AllocLow(mem) IN
  /\ boot = "up" /\ task = Idle /\ nextPid <= MaxPid /\ nextTid <= MaxTid
  /\ nextPid' = nextPid + 1
  /\ nextTid' = nextTid + 1
  /\ IF dir = None THEN task' = Undefined /\ UNCHANGED <<mem, procs>>
     ELSE LET r == MapPage(Take(mem, dir), NewProcess(dir), Trampoline, TrampolineFrame) IN
          /\ mem' = r.mem
          /\ SetProc(nextPid, r.proc)
          /\ task' = [op |-> "stack", pid |-> nextPid, tid |-> nextTid,
                      page |-> StackBase(nextTid), then |-> "headers", image |-> n]
  /\ UNCHANGED <<boot, kernel>>

(* CreateThread() by a thread of a user process: sys_clone, or the         *)
(* registration of an event handler.                                       *)
CloneThread(p) ==
  /\ boot = "up" /\ task = Idle /\ nextTid <= MaxTid
  /\ p \in LivePids /\ procs[p].threads # {}
  /\ nextTid' = nextTid + 1
  /\ task' = [op |-> "stack", pid |-> p, tid |-> nextTid,
              page |-> StackBase(nextTid), then |-> "idle", image |-> 0]
  /\ UNCHANGED <<boot, mem, kernel, procs, nextPid>>

(* What comes after CreateThread(), whether it worked or not. *)
AfterStack ==
  IF task.then = "idle" THEN Idle
  ELSE [op |-> "headers", pid |-> task.pid, image |-> task.image]

(* The pages of a stack that has failed at its page v go back; the page    *)
(* tables keep their entries.                                              *)
MappedStack(pr, v) == {pr.pages[w] : w \in StackBase(task.tid) .. v - 1} \ {None, 0}

(* The last page of the stack under way. Mutant: one page too early. *)
LastPageEarly(v) == v + 1 >= StackBase(task.tid) + StackPages - 1
LastPage(v) == v + 1 = StackBase(task.tid) + StackPages

(* The next page of a user stack. *)
StackPage ==
  LET p == task.pid
      v == task.page
      f == AllocLow(mem)
      r == MapPage(Take(mem, f), procs[p], v, f)
      back == MappedStack(procs[p], v)
  IN
  /\ task.op = "stack"
  /\ \/ /\ f = None
        /\ mem' = Give(mem, back)
        /\ task' = AfterStack
        /\ UNCHANGED procs
     \/ /\ f # None /\ ~r.ok
        /\ mem' = Give(Give(r.mem, {f}), back)
        /\ task' = AfterStack
        /\ UNCHANGED procs
     \/ /\ f # None /\ r.ok /\ ~LastPage(v)
        /\ mem' = r.mem
        /\ SetProc(p, r.proc)
        /\ task' = [task EXCEPT !.page = v + 1]
     \/ /\ f # None /\ r.ok /\ LastPage(v)
        /\ mem' = r.mem
        /\ SetProc(p, [r.proc EXCEPT !.threads = @ \union {task.tid}])
        /\ task' = AfterStack
  /\ UNCHANGED <<boot, kernel, nextPid, nextTid>>
----------------------------------------------------------------------------
(* The program headers cannot be read: loadELF() leaves the process and    *)
(* its thread as they are.                                                 *)
HeadersUnread ==
  /\ task.op = "headers"
  /\ task' = Idle
  /\ UNCHANGED <<boot, mem, kernel, procs, nextPid, nextTid>>

HeadersRead ==
  /\ task.op = "headers"
  /\ task' = [op |-> "image", pid |-> task.pid, page |-> ImageAt, end |-> ImageAt + task.image]
  /\ UNCHANGED <<boot, mem, kernel, procs, nextPid, nextTid>>

(* The next page of a segment. Out of low memory, loadELF() gives up; a    *)
(* page that cannot be mapped loses its frame.                             *)
ImagePage ==
  LET p == task.pid
      v == task.page
      f == AllocLow(mem)
      r == MapPage(Take(mem, f), procs[p], v, f)
  IN
  /\ task.op = "image" /\ v < task.end
  /\ IF f = None THEN task' = Idle /\ UNCHANGED <<mem, procs>>
     ELSE /\ mem' = r.mem
          /\ SetProc(p, r.proc)
          /\ task' = [task EXCEPT !.page = v + 1]
  /\ UNCHANGED <<boot, kernel, nextPid, nextTid>>

ImageLoaded ==
  /\ task.op = "image" /\ task.page = task.end
  /\ task' = [op |-> "heap", pid |-> task.pid, start |-> task.end, page |-> task.end]
  /\ UNCHANGED <<boot, mem, kernel, procs, nextPid, nextTid>>

(* The next page of the first heap, from any memory; neither failure is    *)
(* looked at. A frame that does not exist is the end of what is modelled.  *)
HeapPage ==
  LET p == task.pid
      v == task.page
      f == Alloc(mem)
      frame == IF f = None THEN 0 ELSE f
      r == MapPage(IF f = None THEN mem ELSE Take(mem, f), procs[p], v, frame)
  IN
  /\ task.op = "heap" /\ v < task.start + InitialHeap
  /\ IF f >= Frames
       THEN task' = Undefined /\ mem' = Take(mem, f) /\ UNCHANGED procs
     ELSE /\ task' = [task EXCEPT !.page = v + 1]
          /\ mem' = r.mem
          /\ SetProc(p, r.proc)
  /\ UNCHANGED <<boot, kernel, nextPid, nextTid>>

HeapSet ==
  LET p == task.pid
      end == task.start + InitialHeap
  IN
  /\ task.op = "heap" /\ task.page = end
  /\ SetProc(p, [procs[p] EXCEPT !.image = task.start - ImageAt,
                                 !.heapStart = task.start * PageSize,
                                 !.heapEnd = end * PageSize,
                                 !.heapMax = (end + HeapRoom) * PageSize])
  /\ task' = Idle
  /\ UNCHANGED <<boot, mem, kernel, nextPid, nextTid>>
----------------------------------------------------------------------------
(* sys_sbrk: a request that does not grow the heap is done at once, one    *)
(* that is too large is refused. Bound: no request shrinks the heap below  *)
(* address 0, where the code's unsigned sum would wrap.                    *)
Sbrk(p, n) ==
  LET old == procs[p].heapEnd
      new == old + n
  IN
  /\ boot = "up" /\ task = Idle
  /\ p \in LivePids /\ procs[p].threads # {} /\ new >= 0
  /\ \/ /\ n <= 0
        /\ SetProc(p, [procs[p] EXCEPT !.heapEnd = new])
        /\ UNCHANGED task
     \/ /\ n > 0 /\ new <= procs[p].heapMax
        /\ task' = [op |-> "sbrk", pid |-> p, page |-> RoundUp(old), brk |-> new]
        /\ UNCHANGED procs
  /\ UNCHANGED <<boot, mem, kernel, nextPid, nextTid>>

(* The next page of a growing heap. One that is there already is kept.     *)
(* A failure leaves the pages before it mapped and the heap's end as it    *)
(* was. Mutant: a page counts as there when its page table is.             *)
NeedsPageByTable(pr, v) == pr.tables[TableOf(v)] = None
NeedsPage(pr, v) == ~IsMapped(pr, v)

SbrkPage ==
  LET p == task.pid
      v == task.page
      f == Alloc(mem)
      r == MapPage(Take(mem, f), procs[p], v, f)
  IN
  /\ task.op = "sbrk" /\ v < RoundUp(task.brk)
  /\ IF ~NeedsPage(procs[p], v)
     THEN task' = [task EXCEPT !.page = v + 1] /\ UNCHANGED <<mem, procs>>
     ELSE IF f = None THEN task' = Idle /\ UNCHANGED <<mem, procs>>
     ELSE IF f >= Frames
       THEN task' = Undefined /\ mem' = Take(mem, f) /\ UNCHANGED procs
     ELSE IF ~r.ok THEN task' = Idle /\ mem' = Give(r.mem, {f}) /\ UNCHANGED procs
     ELSE /\ task' = [task EXCEPT !.page = v + 1]
          /\ mem' = r.mem
          /\ SetProc(p, r.proc)
  /\ UNCHANGED <<boot, kernel, nextPid, nextTid>>

SbrkDone ==
  /\ task.op = "sbrk" /\ task.page >= RoundUp(task.brk)
  /\ SetProc(task.pid, [procs[task.pid] EXCEPT !.heapEnd = task.brk])
  /\ task' = Idle
  /\ UNCHANGED <<boot, mem, kernel, nextPid, nextTid>>
----------------------------------------------------------------------------
(* A thread that is not the last of its process exits: its stack stays     *)
(* mapped and its frames stay taken.                                       *)
ExitThread(p, t) ==
  /\ boot = "up" /\ task = Idle
  /\ p \in LivePids /\ t \in procs[p].threads /\ procs[p].threads # {t}
  /\ SetProc(p, [procs[p] EXCEPT !.threads = @ \ {t}])
  /\ UNCHANGED <<boot, mem, kernel, task, nextPid, nextTid>>

(* The frames that KillProcess() gives back: the stacks of the threads on  *)
(* the list, the heap, the tables and the directory. Mutant: everything    *)
(* that is mapped.                                                         *)
HeapPages(pr) == {v \in Page : pr.heapStart <= v * PageSize /\ v * PageSize < pr.heapEnd}

KillPages(pr) == (UNION {StackOf(t) : t \in pr.threads}) \union HeapPages(pr)

TableFrames(pr) == {pr.tables[i] : i \in Table} \ {None}

FreedMapped(pr) ==
  ({pr.pages[v] : v \in Page} \union TableFrames(pr) \union {pr.dir}) \ {None, 0}
Freed(pr) ==
  ({pr.pages[v] : v \in KillPages(pr)} \union TableFrames(pr) \union {pr.dir}) \ {None, 0}

(* The last thread of a process exits: KillProcess(). *)
KillProcess(p) ==
  /\ boot = "up" /\ task = Idle
  /\ p \in LivePids /\ Cardinality(procs[p].threads) = 1
  /\ mem' = Give(mem, Freed(procs[p]))
  /\ SetProc(p, Gone)
  /\ UNCHANGED <<boot, kernel, task, nextPid, nextTid>>
----------------------------------------------------------------------------
Init ==
  /\ MemoryInit
  /\ procs = [p \in Pid |-> Gone]
  /\ task = Idle
  /\ nextPid = 1
  /\ nextTid = 1

BootStep == Boot /\ UNCHANGED spaceVars

Next ==
  \/ BootStep
  \/ \E n \in ImageSizes : CreateProcess(n)
  \/ \E p \in Pid : CloneThread(p)
  \/ StackPage
  \/ HeadersUnread \/ HeadersRead \/ ImagePage \/ ImageLoaded \/ HeapPage \/ HeapSet
  \/ \E p \in Pid, n \in Increments : Sbrk(p, n)
  \/ SbrkPage \/ SbrkDone
  \/ \E p \in Pid, t \in Tid : ExitThread(p, t)
  \/ \E p \in Pid : KillProcess(p)

Spec == Init /\ [][Next]_vars
----------------------------------------------------------------------------
Entry == Frame \union {None}

Process ==
  [live : {TRUE}, dir : Frame, tables : [Table -> Entry], pages : [Page -> Entry],
   threads : SUBSET Tid, image : Nat, heapStart : Nat, heapEnd : Nat, heapMax : Nat]

Task ==
  {Idle, Undefined}
    \union [op : {"stack"}, pid : Pid, tid : Tid, page : Page,
            then : {"idle", "headers"}, image : ImageSizes \union {0}]
    \union [op : {"headers"}, pid : Pid, image : ImageSizes]
    \union [op : {"image"}, pid : Pid, page : Page, end : Page]
    \union [op : {"heap"}, pid : Pid, start : Page, page : Page]
    \union [op : {"sbrk"}, pid : Pid, page : Page, brk : Nat]

(* Every variable has its type, used_blocks never wraps below zero, and    *)
(* the task under way is one of a process that has not ended.              *)
TypeOK ==
  /\ boot \in BootSteps
  /\ mem.taken \subseteq Bits /\ mem.used \in Nat
  /\ kernel \subseteq Frame
  /\ procs \in [Pid -> Process \union {Gone}]
  /\ task \in Task
  /\ task \notin {Idle, Undefined} => task.pid \in LivePids
  /\ nextPid \in 1 .. MaxPid + 1 /\ nextTid \in 1 .. MaxTid + 1

(* used_blocks counts the bits that are set, but for the ones of the       *)
(* frames before the region: no path frees a frame twice, or one that is   *)
(* not taken, whichever allocation fails and in whatever order processes   *)
(* grow and end.                                                           *)
CountExact ==
  boot \in {"heap", "paging", "up"} => mem.used + RegionAt = Cardinality(mem.taken)

(* The stacks that are on no list: of threads that have exited, or whose   *)
(* creation failed. Their page table entries stay.                         *)
Abandoned(p) ==
  LET making == IF task.op = "stack" /\ task.pid = p THEN {task.tid} ELSE {} IN
  UNION {StackOf(t) : t \in Tid \ (procs[p].threads \union making)}

(* The pages a process goes on to use. *)
InUse(p) == {v \in Page \ ({Trampoline} \union Abandoned(p)) : IsMapped(procs[p], v)}

Owned(p) ==
  {procs[p].pages[v] : v \in InUse(p)} \union TableFrames(procs[p]) \union {procs[p].dir}

(* Every frame a process uses is its own: taken, not the kernel's, in one  *)
(* place of one process, while processes grow, fail half way and end       *)
(* around it.                                                              *)
OneOwner ==
  \A p \in LivePids :
    /\ Owned(p) \subseteq mem.taken \ kernel
    /\ \A q \in LivePids \ {p} : Owned(p) \intersect Owned(q) = {}
    /\ Cardinality(Owned(p)) =
         Cardinality(InUse(p)) + Cardinality({i \in Table : procs[p].tables[i] # None}) + 1

(* A thread on its process's list has its whole stack, whatever failed     *)
(* while others were made.                                                 *)
StackReady ==
  \A p \in LivePids : \A t \in procs[p].threads : \A v \in StackOf(t) : IsMapped(procs[p], v)

(* When sbrk moves the end of the heap up, every page it passes is there,  *)
(* after any earlier growth that failed half way, or shrinking.            *)
SbrkDelivers ==
  [][\A p \in LivePids :
       procs'[p].live /\ task.op = "sbrk" /\ procs'[p].heapEnd > procs[p].heapEnd =>
         \A v \in RoundUp(procs[p].heapEnd) .. RoundUp(procs'[p].heapEnd) - 1 :
           IsMapped(procs'[p], v)]_vars
=============================================================================
