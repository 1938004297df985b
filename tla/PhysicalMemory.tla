--------------------------- MODULE PhysicalMemory ---------------------------
(***************************************************************************)
(* Physical frames: the bitmap of core/pmm.cpp and the boot steps of       *)
(* kernel.cpp and core/paging.cpp that set it up.                          *)
(*                                                                         *)
(* A frame is its number. The bitmap lies in frames of its own, one bit    *)
(* for each frame of RAM, and the kernel heap comes after it.              *)
(***************************************************************************)
EXTENDS Integers, FiniteSets, FiniteSetsExt

CONSTANTS
  Frames,        (* g_pmm_info.max_blocks, the frames of RAM                 *)
  LowFrames,     (* the frames below 256 MB, which the kernel can write to   *)
  FrameBits,     (* the bits of the bitmap that one frame holds              *)
  BitmapAt,      (* the frame of heap_start_addr                             *)
  HeapEnd,       (* safe_limit: where the kernel heap is to end              *)
  KernelFrames   (* the directory and tables of Activate(), the trampoline   *)

ASSUME MemoryAssumption ==
  /\ Frames \in Nat /\ LowFrames \in 1 .. Frames /\ FrameBits \in Nat \ {0}
  /\ BitmapAt \in Nat \ {0} /\ HeapEnd \in Nat /\ KernelFrames \in Nat

VARIABLES
  boot,      (* the step of kernelMain() that comes next                     *)
  mem,       (* the frames whose bit is set, and used_blocks                 *)
  kernel     (* the frames the kernel has taken for itself                   *)

None == -1   (* no frame *)

BootSteps == {"pmm_init", "init_region", "heap", "paging", "up", "halted"}
----------------------------------------------------------------------------
(* The page that pmm_init_region() starts with, and the one the kernel     *)
(* heap is to start at: the same if the bitmap ends on a page boundary.    *)
RegionAt == BitmapAt + Frames \div FrameBits
HeapAt == BitmapAt + (Frames + FrameBits - 1) \div FrameBits

BitmapFrames == BitmapAt .. HeapAt - 1

(* The bits that the boot gives a value: pmm_init_region() is given the    *)
(* end of RAM as the size of its region, and clears bits past the last     *)
(* frame.                                                                  *)
Bits == 0 .. Frames + RegionAt - 1

Free(m) == Bits \ m.taken

Take(m, f) == [taken |-> m.taken \union {f}, used |-> m.used + 1]

(* pmm_free_block(), once or for a set of frames. Mutants: used_blocks is  *)
(* left alone; it goes down twice.                                         *)
GiveUncounted(m, fs) == [m EXCEPT !.taken = @ \ fs]
GiveTwice(m, fs) == [taken |-> m.taken \ fs, used |-> m.used - 2 * Cardinality(fs)]
Give(m, fs) == [taken |-> m.taken \ fs, used |-> m.used - Cardinality(fs)]

(* The guard of every allocation. *)
NoneLeft(m) == Frames - m.used <= 0

(* pmm_mmap_first_free_low(): the first free frame below 256 MB. *)
AllocLow(m) ==
  LET low == {f \in Free(m) : f < LowFrames} IN
  IF NoneLeft(m) \/ low = {} THEN None ELSE Min(low)

(* pmm_alloc_block(). *)
Alloc(m) == IF NoneLeft(m) \/ Free(m) = {} THEN None ELSE Min(Free(m))

(* pmm_alloc_blocks(). The search skips a word whose bits are all set      *)
(* without starting its count again; at boot, its only use, no such word   *)
(* comes after a free frame, and it returns the first run.                 *)
Runs(m, n) == {f \in Free(m) : f .. f + n - 1 \subseteq Free(m)}

AllocBlocks(m, n) == IF Frames - m.used <= n \/ n = 0 THEN {} ELSE Runs(m, n)
----------------------------------------------------------------------------
MemoryInit ==
  /\ boot = "pmm_init"
  /\ mem = [taken |-> {}, used |-> 0]
  /\ kernel = {}

(* pmm_init(): every frame is in use. *)
PmmInit ==
  /\ boot = "pmm_init"
  /\ boot' = "init_region"
  /\ mem' = [taken |-> 0 .. Frames - 1, used |-> Frames]
  /\ UNCHANGED kernel

(* pmm_init_region(): the rest of RAM is free, and as many bits after it   *)
(* as there are frames before it.                                          *)
InitRegion ==
  /\ boot = "init_region"
  /\ boot' = "heap"
  /\ mem' = [taken |-> mem.taken \ (RegionAt .. RegionAt + Frames - 1),
             used |-> mem.used - Frames]
  /\ UNCHANGED kernel

(* The rest of init_memory(): the kernel heap. *)
AllocHeap ==
  LET n == HeapEnd - HeapAt
      runs == AllocBlocks(mem, n)
  IN
  /\ boot = "heap"
  /\ IF n <= 0 \/ runs = {} THEN boot' = "halted" /\ UNCHANGED <<mem, kernel>>
     ELSE LET heap == Min(runs) .. Min(runs) + n - 1 IN
          /\ boot' = "paging"
          /\ mem' = [taken |-> mem.taken \union heap, used |-> mem.used + n]
          /\ kernel' = heap

(* Paging::Activate() and the trampoline of the scheduler's constructor,   *)
(* one frame at a time.                                                    *)
KernelFrame ==
  LET f == AllocLow(mem)
      left == HeapEnd - HeapAt + KernelFrames - Cardinality(kernel)
  IN
  /\ boot = "paging"
  /\ \/ left = 0 /\ boot' = "up" /\ UNCHANGED <<mem, kernel>>
     \/ left > 0 /\ f = None /\ boot' = "halted" /\ UNCHANGED <<mem, kernel>>
     \/ /\ left > 0 /\ f # None
        /\ mem' = Take(mem, f)
        /\ kernel' = kernel \union {f}
        /\ UNCHANGED boot

Boot == PmmInit \/ InitRegion \/ AllocHeap \/ KernelFrame
----------------------------------------------------------------------------
(* No frame of the bitmap is ever handed out: kernel.cpp:130 says of the   *)
(* region it frees "Mark FREE Region, but SKIP the bitmap!".               *)
BitmapKept == boot \notin {"pmm_init", "init_region"} => BitmapFrames \subseteq mem.taken \ kernel
=============================================================================
