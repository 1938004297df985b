# Verification of Hashx86

TLA+ modules, TLC configurations and TLAPS proofs about the Hashx86 kernel: a
32-bit operating system in C++ and assembly with round-robin threads, paging,
ELF programs, a widget GUI, a FAT32 disk and dynamic drivers. The repository has
no tests, and its hardest behaviour, interrupts that come between two
instructions, exits in the middle of a system call, memory that runs out half
way, is out of reach of running it by hand.

`PROJECT.json` maps every definition to the lines it models; the paths below are
relative to `src/`.

## The system

One processor, one kernel address range shared by all processes (0-256 MB and
3-4 GB identity-mapped), and one lock: the interrupt flag. A kernel path runs
inside `InterruptManager::handleInterrupt`, whose `InterruptGuard` keeps
interrupts off until it returns, so paths exclude each other; what interleaves
is the order in which they come, the few instructions before and after the
guard, and the kernel's own threads (the desktop's drawing loop, the idle task),
which run with interrupts on. The file system and the boot do not fear other
threads but a stop of the machine between two writes to the disk.

| component | state | operations | talks to |
|---|---|---|---|
| Scheduler (`core/scheduler.cpp`) | ready, blocked queues, TCBs, PCBs, `currentThread`, CR3, `tss.esp0` | CreateProcess, CreateThread, Sleep, WakeThread, ExitCurrentThread, KillProcess, Schedule | called by system calls, the timer, GUI events; calls the heap, paging and PMM |
| Interrupt entry (`asm/common_handler.asm`, `core/interrupts.cpp`) | the byte `interruptnumber`, kernel stacks, the interrupt flag | stubs, common handler, guard, stack switch, the report of a fault | every handler |
| Kernel heap (`core/memory.cpp`) | block list, `kbrk` pointer | kmalloc, kfree, krealloc | everyone |
| Physical memory (`core/pmm.cpp`), paging, ELF loader, sbrk | bitmap, `used_blocks`, directories, tables, heap bounds | alloc, free, MapPage, loadELF, sbrk, freeing in KillProcess | scheduler, system calls, boot |
| System calls (`core/syscalls.cpp`) | owner of the screen | exit, clone, sleep, sbrk, input, files, Hcall | scheduler, paging, GUI, file system |
| GUI (`gui/`) | widgets with dirty flags and caches, tabs, focus, event handlers and their queues | clicks in the mouse interrupt; `Hgui` calls of programs; the drawing loop | scheduler (`WakeThread`), ELF loader, graphics |
| File system (`core/filesystem/`) | partition table, FAT, directories, open files | open, read, create, write, delete, make directory, format, mount | ATA |
| Audio (`core/drivers/AudioMixer.cpp`, `drivers/ac97.cpp`, `audio/wav.cpp`) | streams, ring of buffers | PlayBuffer in a thread, Update in the timer, the device's interrupt | timer |
| Mouse, keyboard (`core/drivers/`) | packet offset, buttons, key state | byte interrupts; `Hsys_getInput` | GUI, games |
| Kernel log and console (`debug.cpp`, `console.cpp`) | ring of characters; cells and cursor | printf, FlushSerial | everyone |
| Drivers, PCI, symbols (`core/drivers/`, `core/pci.cpp`) | loaded modules, driver list, symbol table | find, load, link, activate, look up | boot, mixer, graphics, fault report |
| Graphics (`gui/renderer/nina.cpp`, `GraphicsDriver.cpp`, fonts, bitmaps) | buffers of pixels | fill, frame, round, copy, write | widgets |
| User programs (`user_prog/`) | the library's heap and widget tree; the game's models and image | kmalloc, printf, event loop; LoadOBJ, DrawTriangle | system calls |

What is hard, and what has to hold:

- **Scheduler.** A thread sleeps without leaving the processor, is woken before
  it has, or exits in the middle of a call: no thread may be lost, repeated on a
  queue, scheduled after its deletion, or run in another's address space; every
  thread must run again.
- **Interrupt entry.** An interrupt on the way in or out of another: the number
  handled is the one that occurred, each thread comes back on its own stack.
- **Kernel heap, user heap.** The region ends in the middle of a request: no
  overlap, no block that cannot be freed or reused.
- **Physical memory and address spaces.** The frame that is missing may be any
  page of a stack, a program, a heap or a table: no frame with two owners, an
  exact count, no thread with half a stack.
- **GUI.** Events for programs that are gone, or not ready yet; a program that
  ends in two halves while its window is clicked; who owns the screen; a widget
  that changes while the desktop is being drawn.
- **File system.** A stop between two writes; a full disk; clusters with one owner.
- **Devices.** A byte or an interrupt that is lost, or stands for two; a ring
  that two actors move.
- **Boot.** The power fails, or a fault is caught, at any step of it.

`hazards` in `PROJECT.json` lists each at its line, with the properties that
cover it or the reason that none does.

## Modules

| module | models |
|---|---|
| `ThreadLife` | what the scheduler promises: births, switches and exits of threads, ends of processes |
| `Scheduler` | `core/scheduler.cpp` and the paths that call it; implements `ThreadLife` |
| `QueueLemmas`, `Scheduler_proofs` | lemmas about queues, and the scheduler's theorems |
| `Allocator` | what an allocator promises: areas handed out and taken back, apart from each other |
| `KHeap`, `KHeap_proofs` | `core/memory.cpp`; implements `Allocator`; its theorems |
| `PhysicalMemory` | `core/pmm.cpp` and the memory steps of `kernel.cpp`'s boot |
| `AddressSpace`, `AddressSpace_proofs` | on top of it: processes' directories, tables, stacks, programs and heaps; its theorems |
| `InterruptEntry`, `InterruptEntry_proofs` | `asm/common_handler.asm`, the gates, the guard, the stack switch; its theorems |
| `FileTree` | what the file system promises: a tree that changes in single steps, or not at all |
| `Fat32`, `Fat32Invariant`, `Fat32_proofs` | `core/filesystem/FAT32.cpp`, `File.cpp`; implements `FileTree`; its theorems |
| `Desktop`, `Desktop_proofs` | windows, tabs, focus, events and screen in `gui/`, with the user's side of them; its theorems, and those of `Displays` |
| `Screen` | dirty flags and caches of the widgets, the drawing loop in `kernel.cpp` |
| `Console` | the text screen of `console.cpp` |
| `Displays` | `Screen` and `Console` in one specification |
| `Drawing` | the pixels that `nina.cpp`, `GraphicsDriver.cpp`, fonts and `bmp.cpp` write |
| `Log` | `printf()` of kernel and library, and the ring of serial output |
| `Input` | mouse, keyboard and `Hsys_getInput` |
| `Audio`, `WavFile` | mixer, AC97 driver and device; the loader of sounds |
| `UserHeap` | the heap of the user library |
| `ObjFile`, `Renderer` | the game's loader of models and its rasterizer |
| `Transfers` | `Input`, `Audio`, `WavFile`, `Log` and `ObjFile` in one specification |
| `BootDisk` | ATA identification, the partition table, the choice of the boot partition |
| `Drivers` | PCI search, module loader and linker, hand-over to display and mixer |
| `Panic` | what an exception leads to, at any moment of the boot, and the names in its trace |
| `Startup` | `BootDisk`, `Drivers` and `Panic` in one specification |
| `Parts_proofs` | the theorems of `UserHeap`, `Transfers` and `Startup` |
| `MC*` | the bounds of the runs; `MCParts` also puts the modules from `Screen` on into one run |

**Scheduler.** One action per kernel path (`Clone`, `RegisterHandler`, `Sleep`,
`WakeThread`, `ExitThread`, `KillProcess`, `LaunchProgram`, which the start menu
runs in the mouse interrupt), except `Schedule()`: its loop over `blockedQueue`
changes the queue it counts, so each iteration is a step (`ScanBlocked`) and
then `Dispatch` or `DispatchIdle` ends it. Time is relative, `left[t]` ticks to
go. `Sleep` only marks the thread, as the code does; the next timer interrupt
puts it on a queue. That window is what the two configurations differ in:
`WakeRunning` says whether an event may arrive inside it. When a deleted TCB is
used the model stops (`phase` says so), as nothing can be said after it.

**KHeap.** Addresses are numbers and a block is its header, its data and its
size; `kbrk` only moves up. `Kmalloc` reserves its area twice, since
`allocate_new_block` takes one that `kmalloc` at once replaces, and each of its
`kbrk` calls can be the one that fails, which leaves a block without data on the
list. Nothing in the kernel calls `aligned_kmalloc`, and it is left out.

**PhysicalMemory and AddressSpace.** A frame is its number; `mem` is the set of
bits and the counter, which the code keeps apart and which may disagree. The boot
is four steps; after it a `task` is the kernel path under way, one page per
step, with each failure the code looks for and those it does not. Steps of two
paths do not mix: the loader and the system calls run inside an interrupt.
`Freed` is exactly what `KillProcess()` gives back, with what it forgets.
What is written past the end of RAM is not modelled: `task` is then `Undefined`.
`LayoutAssumption` is the memory map of the headers: bitmap and kernel heap fit in
RAM, programs with all of their heap end below the trampoline, which is below the
stacks.

**InterruptEntry.** The interrupts under way on each kernel stack, each with how
far it has come: vectored, its number stored, pushed, handled, leaving (the
guard is over, the stack not yet switched), resumed. Handlers keep only what
they do to the stacks: the timer and an exit choose another thread, anything
else returns.

**Fat32.** An operation is a `job`: what it still has to write, with one write of
a sector per step; searches and reads happen in the step that uses them. `PowerLoss`
can come between any two steps, once, and leaves the disk as it is. A cluster is one
sector, so that a directory of two entries grows; one file is open at a time, and
the format of a mounted partition is one step. Data is not bytes but the path and
the place they belong to, so that a cluster which keeps a former owner's bytes is
seen. Names are shortened to the stored form character by character, since two
paths can have the same stored name. Files put on the disk from outside have no
cluster, as an empty file written by another system.

**Desktop.** A program is its pid, with the state of its main thread and of its
event thread; each system call, mouse interrupt and exit is one step, as each
runs with interrupts off. `CleanUp` is all that `Handle_sys_exit()` does when the
last thread of a process went. `press` keeps what the button was pressed on, as
the code does by `isPressed`. Programs make their calls in the order in which the
library makes them, so that an event loop has its handler and a button its window
in the table.

**Screen.** A picture is only up to date or not: a widget's cache against its
state, its parent's against its own, the monitor against the back buffer. The
desktop's thread takes several steps per round, and system calls and mouse
interrupts come between any two of them.

**Input.** Bytes wait on one line per device and come through one output buffer;
the drivers' start-up takes several steps. A byte has `Byte` values so that the
sign bits of a packet, its overflow and its reach are in the model.

**Audio.** A sample is its sound and its index. The timer, the device at the end
of a buffer, and its interrupt are separate steps, and `WriteData()` and
`OnInterrupt()` count `buffersOccupied` in both.

**Log, Console, Drawing, ObjFile, Renderer, WavFile.** The result of the code
against what it should be, stated without its arithmetic: the ring against the
list of what was put in, the text screen against a page of paper that is long
enough, a figure against the set of its pixels, a frame against the nearest
triangle at each pixel, the loaded arrays against the lines of a file. Machine
integers keep a width where the code depends on it.

**UserHeap.** A request looks for a block in one step and takes it or makes one in
the next, as a timer interrupt can come between. It takes its area twice, as the
kernel's does.

**BootDisk, Drivers, Panic.** The boot as a sequence of steps in the order of
`kernelMain()`, with a power failure, or a fault, at any of them, and what is
then there. Modules keep their words, symbols and relocations, so that where a
section lies decides what a relocation writes.

## Runs

| run | configuration | states | shows |
|---|---|---|---|
| `scheduler_as_built` | 4 threads, 2 user processes, sleeps 0, 1, 3 | 530,000 | with events at any time: no lost thread, exact lists, live CR3, own context, refinement of `ThreadLife` |
| `scheduler_quiet` | the same, no event in the window | 83,000 | exact queues, no deleted TCB, punctual sleep, and every thread runs again |
| `scheduler_stale` | as built | - | a deleted TCB is scheduled |
| `kernel_heap` | a region of 28, requests of 1 and 3, headers of 2 | 3,900 | held areas are apart, found by `kfree`, none leaks; refinement of `Allocator` |
| `address_space` | 26 frames, 20 of them low; 3 processes, 4 threads; programs of 1 page, stacks of 2 | 400,000 | one owner per frame, exact count, whole stacks, sbrk delivers |
| `bitmap_overlap` | a bitmap that ends inside a page | - | its last page becomes the kernel heap's first |
| `interrupt_entry` | 2 user threads and the idle one, timer and mouse | 71,000 | own number, own stack, a way back for every thread |
| `interrupt_byte` | the same, with interrupts between the stub and the push | - | a system call handled as another interrupt |
| `trap_gate` | as `interrupt_entry` | - | system calls run with interrupts off |
| `file_system` | 4 clusters of 2 entries or 2 bytes; 4 paths, two of them with one stored name; files of 0 and 3 bytes | 59,000 | one owner per cluster at every moment, nothing lost unless an operation was cut short, files keep and deliver their bytes; refinement of `FileTree` |
| `desktop` | 2 programs with windows, 2 games, 1 tab, 2 events | 441,000 | windows and tabs have a live event thread, the focus is on top, the screen comes back, every event is taken |
| `parts` | one of the modules from `Screen` on, chosen at the start | 931,000 | see below |

Every property of a passing run has a mutant, a plausible slip in one
definition, that makes TLC find it violated. Each is found well inside the
bounds.

The modules that `MCParts` puts together share no state, so the initial state
chooses one of them and every step is a step of it; its five invariants name the
properties of the modules by what they are about. Four of them are stated where the
theorems need them, in modules that `MCParts` extends: `HeldApart` in `UserHeap`,
`TransfersWhole` in `Transfers`, `BootRight` in `Startup` and `ShownRight` in
`Displays`.

| invariant | of | says |
|---|---|---|
| `ShownRight` | `Screen!ScreenCurrent` | when the desktop's thread goes to sleep, the monitor shows every widget as it is |
| | `Console!ScreenShowsPage` | the text screen shows the end of what was printed, and the cursor where it goes on |
| `PicturesRight` | `Drawing!DrawnRight` | a call writes all that is visible of its figure, picture or text, nothing outside the buffer, and under the conditions below no other pixel |
| | `Renderer!FrameRight` | every pixel shows the nearest polygon that covers it, or the sky |
| | `Log!NumberPrinted` | a number is printed as itself within its buffer |
| `TransfersWhole` | `Input!InputTrue` | keys, buttons and movement are known as they are once the lines are quiet |
| | `WavFile!WavParsed` | the loader never takes the inside of a chunk for a header, and loads the right samples |
| | `ObjFile!MeshRight` | the arrays hold what the file says, and no more than was counted |
| | `Audio!SoundWhole`, `RingExact` | a sound is heard in order, once; the driver counts what the device has yet to play |
| | `Log!LogInOrder` | what is sent is what was put into the ring |
| `HeldApart` | `UserHeap!HeldApart` | areas lie in pages that were given, apart from each other and from the headers |
| `BootRight` | `BootDisk!BootsFromFirst` | the system starts from a formatted partition of the first disk, or halts for want of one |
| | `Drivers!DriversReady` | drivers are linked, activated once, and in their place |
| | `Panic!FaultReported` | a report has all that it uses, and the trace names the right functions |

`DrawnRight` compares the pixels of each call with the figure it stands for, in three
parts. What is visible is drawn, for every call but the sides of a rounded outline
whose corners begin before the buffer. Nothing is written outside the buffer, but
for a bitmap or a character that begins left of it. And no other pixel of the buffer
is written, if the call meets the condition for its operation:

| operation | no other pixel is written if |
|---|---|
| circles (up to one pixel at the edge), lines, `DrawBitmapToBuffer`, `PutPixel` | always |
| `FillRectangle`, `GraphicsDriver::DrawBitmap` | it does not end left of the buffer or above it (`Meets`) |
| `DrawRectangle` | some of it is in the buffer (`Touches`) |
| `FillRoundedRectangle` | its corners fit, and begin in the buffer (`Fits`, `Begins`) |
| `DrawRoundedRectangle` | its corners fit (`Fits`) |
| `NINA::DrawBitmap`, text | no bitmap or character begins left of the buffer |

Where a condition fails the code draws too much, as "What disagrees" says, and TLC
finds it as soon as the condition is dropped. A filled rectangle, or a bitmap on the
screen, that ends left of the buffer still stays in its own rows, and one that ends
above it in its own columns (`StaysIn`). Rounded rectangles
whose corners do not fit are drawn, and compared only with the buffer. A character of
a text is compared with its bitmap at the place that `Font::getStringLength()` of
the line before it and the line height give.

Some constants of these modules say whether something may happen that breaks the
property named with it. The runs leave them FALSE (one thread for `Threads`), so
the property is shown of everything else; with TRUE (two threads) TLC finds the
behaviour, and each is listed under "What disagrees".

| constant | allows | breaks |
|---|---|---|
| `Scheduler.WakeRunning` | an event between a `Sleep()` and the next tick | `NoStaleSchedule` (its own run) |
| `InterruptEntry.EntryWindow` | a hardware interrupt between the stub of int 0x80 and the push of its number | `NumberIsOwn` (its own run) |
| `Desktop.EarlyClose` | a click on a window's close button while the program's main thread is still running | `WindowsOwned` |
| `Input.EarlyInput` | input before both drivers are active | `InputTrue` |
| `Audio.MergedInterrupts` | the end of a buffer before the last one's interrupt was taken | `RingExact` |
| `Log.IdleInterrupted` | a `printf()` inside the idle task's `FlushSerial()` | `LogInOrder` |
| `BootDisk.EarlyFail` | a power failure while a blank disk is set up | `BootsFromFirst` |
| `UserHeap.Threads` | two threads in one heap | `HeldApart` |

The bounds. *Threads and processes*: what goes wrong in the scheduler takes a
thread, the handler it wakes, and one more that runs in between; four threads
leave the desktop, a program, its handler and a clone, or two programs. Sleeps
of 0, 1 and 3 are due before and at the next tick and late enough that all sleep
at once. `QueueCap` 3 lets a handler be queued twice with another thread: the
entries can only be repeated by events, and the second is the one that breaks
something. *Heap*: 28 units hold three blocks of either size and end in each of
the three calls of a request. *Frames*: the low frames hold one process and most
of a second, so that each allocation of the second can be the one that fails,
for every order in which the first grows, adds threads and ends; a page table
covers four pages, so stacks, programs and heaps both share tables and cross
them. *Interrupts*: two user threads exit one after the other, which gives the
deepest nesting an exit can cause; with a third (6.8 million states) the same
properties hold.

*Files*: four clusters are the root, a second cluster for it, and two more, so
that a file, a subdirectory and the growth of either compete for the last one and
each of the writes of an operation can be the one that finds the disk full; two
entries per cluster make a directory of a subdirectory's size (its two dots) grow
with its first file; three bytes take two clusters, so chains are built, walked
and freed. `FormatEnd` 4 leaves one entry of the FAT as it was, as formatting
does on a disk whose FAT is longer than what is cleared. The power fails once:
what a second failure adds is the same stop on a disk that has lost clusters.
*Desktop*: two programs with one tab between them, so that one has a window
without a tab; two games, so that the screen can be taken from its owner; two
events, so that one is taken while another waits. *Parts*: each module's bounds
are in `MCParts` beside the reason: a sound longer than a half, as long and
shorter, with two slots; a log of one more number than the ring holds; figures
from left and above the buffer to right and below it; triangles in front of the
eye, behind it and across; a page of text longer than the screen; every list of up
to four chunks, and of up to four lines of a model; disks blank, partitioned, of
another system, too small; a bus with two devices of one or two functions; faults
at each step of the boot with stacks that end, turn back or lead away.

Fairness. Two runs have a liveness property. For `EveryThreadRuns`, `FairSpec` of
`Scheduler` asks for weak fairness of `TimerInterrupt`, as the PIT runs freely
and interrupts are on whenever a thread executes, and of `Schedule`, as its code
is a loop over a finite queue. Programs, the mouse and `WakeThread` owe nothing.
For `EventsTaken`, `Spec` of `Desktop` asks for weak fairness of the main thread
of each program with a window, of its exit and of its event thread, which is what
`EveryThreadRuns` gives of the scheduler: the programs of the repository do not
block between these steps. A game may keep the screen for ever and the mouse may
rest, or click for ever; since the last event is taken first, the property is
about a mouse that is left alone at some time.

`CHECK_DEADLOCK FALSE` is set for `address_space`, `file_system` and `parts`. The
address space stops when its processes and threads are used up, at a halt of the
boot, and where a write past RAM begins; the file system where a program
writes to a directory as if it were a file (`WriteDirectory`), as nothing can be
said of the disk after that; the parts end when a call returned, a
file was read, or the bounds on inputs and failures are used up.

## What disagrees

- **A deleted thread is scheduled** (`scheduler_stale`). Two events in the window
  after a `Sleep()` put the handler on `readyQueue` twice; its exit removes one
  entry. `scheduler.cpp:305` says that `Schedule()` is kept from dangling
  pointers.
- **The bitmap's last page is given away** (`bitmap_overlap`). `kernel.cpp:130`
  says the freed region skips the bitmap; it starts in the page of its tail,
  unless the bitmap ends on a page boundary.
- **An interrupt gets another's number** (`interrupt_byte`). The stubs pass it
  through one byte of memory, and int 0x80's gate leaves interrupts on.
- **System calls do hold up interrupts** (`trap_gate`). `interrupts.cpp:140-142`
  says they do not; `InterruptGuard` in `handleInterrupt` makes them.

Behaviour that a run finds when a constant is set, or that a definition states as
it is; these have no run of their own.

- *Closing early* (`EarlyClose`). When a window is closed while its program's main
  thread still runs, the event thread exits alone: its handler, window and tab
  stay, and the next click wakes a deleted thread (`button.cpp:111`).
- *Two threads in a heap* (`Threads`). The user library has no lock
  (`libhx86/Hx86/memory.cpp:152`): one block is handed to both.
- *Merged interrupts* (`MergedInterrupts`). One interrupt for two finished buffers
  lowers `buffersOccupied` by one (`ac97.cpp:127`), and the ring is short of a
  buffer for ever.
- *A lost byte* (`EarlyInput`). Input before the mouse driver is active loses a
  byte, and every later packet is read shifted (`mouse.cpp:91`).
- *A shared read position* (`IdleInterrupted`). A character is sent twice, or the
  ring seems full (`debug.cpp:40`).
- *A half-made disk* (`EarlyFail`). After a power failure between the partition
  table and its file systems the next boot mounts a partition that was never
  formatted (`msdospart.cpp:77`).
- *Desktop.* A window opens at the bottom of the stack while its tab becomes the
  active one. A click between the kernel's `AddChild` and the program's own
  bookkeeping is dropped. Events are taken last first. The taskbar is said not to
  be in `childrenList` (`desktop.cpp:54`), and is from the first click in the start
  menu on. `RemoveAppByPID()` removes one widget of several. Mouse events
  go to the hidden desktop while a game has the screen.
- *Files.* Writing to the path of a directory writes over its entries. A file
  that cannot be put into a full directory leaves its first cluster taken
  (`FAT32.cpp:431`).
- *Graphics.* `GraphicsDriver::DrawBitmap` of a bitmap that ends left of the screen or
  above it compares a negative sum with the unsigned width or height
  (`GraphicsDriver.cpp:83`, `:89`), so that its end is beyond the bitmap's, and the
  screen shows what lies behind it in memory; a program may create a window at such
  a place (`Hgui.cpp:112`, `window.cpp:84`). `NINA::DrawBitmap` does not clip on the left; `FillRectangle` of a
  rectangle wholly to the left fills rows, by its unsigned comparison
  (`nina.cpp:134`); `DrawRectangle` with nothing in the buffer draws a line at its
  side; `DrawRoundedRectangle` leaves out a side that begins before the buffer
  (`nina.cpp:194`). No caller in the repository gives the functions of `nina.cpp` a negative place: a label
  too wide for its button gets a large positive one (`button.cpp:84`), and is not drawn.
  Before a character that the font does not have, the width of a text includes the
  kerning of "?", which drawing leaves out (`font.cpp:55`, `nina.cpp:416`).
- *Input.* Under Caps Lock, Shift does not change digits either; Caps Lock toggles
  again on each repeat; extended keys are never in `keyStates`; movement beyond
  what a signed byte holds wraps.
- *Sound.* A sound is dropped when all slots are busy; a looping stream would be
  read beyond its end (`AudioMixer.cpp:77`, no caller asks for one); a size near
  2^32 in a chunk of a WAV file loops.
- *Text.* The library's `printf()` writes "-" alone for the least integer and cuts
  at 255 characters.
- *User heap.* A request takes its area twice; `worst_fit` is a first fit; an
  aligned area is never found again by its `delete`.
- *Boot.* `Identify()` waits for ever for a busy drive. A disk of fewer than 63
  sectors wraps in `Initialize()` (`msdospart.cpp:31`).
- *Drivers.* Relocations of sections that are not loaded are written from address 0
  on (`ModuleLoader.cpp:139`, `147`; `drivers/Makefile` builds with `-g`). A symbol
  that the kernel does not export links to 0, and the driver starts. The entry is
  matched by the beginning of its name.
- *Symbols.* `KernelSymbolResolver.cpp:112` speaks of 100 KB and compares with
  1 MB; a section's line that the linker wrapped is taken for a symbol.
- *Faults.* A fault in a program resets the whole machine; one inside the report
  begins the report again while `activeInstance` is set (`interrupts.cpp:206`), and
  after that halts the machine, though the screen says that it restarts.

## Proofs

All theorems hold for every value of the constants that satisfies the modules'
assumptions (`BoundsAssumption`, `HeapAssumption`, and the like: naturals and
finite bounds, no size fixed).

**Scheduler_proofs.** `TypeCorrect`, `NoThreadIsLost`, `MembershipAlwaysExact`,
`DirectoryAlwaysAlive`, `ContextIsOwn`, `SchedulerImplementsThreadLife`. The
inductive invariant `Ind` adds to the properties what they rest on: which tids
and pids are born (`Births`), that a live thread's process is on the list and
the running thread is live (`Owners`), that the scan counts no more than the
queue holds (`ScanBound`), and that a handler belongs to its process
(`HandlerOwned`). `NoThreadIsLost` is not inductive alone: that removing one
entry keeps a thread on its queue needs the exit to be of the owner of the
processor. The refinement needs `MembershipExact`, since `LastThread` counts the
list and `ThreadLife` the threads.

Assuming that no event reaches a handler in the window (the second part of the
module): `QueuesAreDisciplined`, `ScheduleIsNeverStale`, `NoSleeperIsOverdue`,
`SleepIsRespected`. `Quiet` adds to `Ind` that entries are not repeated and in
the right state, and `ScanDone`: what the scan has passed is not due, stated by
how many entries are left, which is what the loop of `Schedule()` relies on.

**KHeap_proofs.** `HeapTypeCorrect`, `HeldIsApart`, `UseAlwaysExact`,
`HeapImplementsAllocator`. The invariant `Heap(u, list, H)` is
stated of a `kbrk` pointer, a block list and the areas held, since `krealloc`
goes through a heap in between: blocks lie in order below the pointer, a block
without data is never free, what is held is the data of a block in use, and no
two blocks share it.

**InterruptEntry_proofs.** `NumberIsAlwaysOwn`, `AlwaysOnOwnStack`,
`AlwaysResumable`, `StacksBounded`, assuming `EntryWindow = FALSE`, for any finite
number of threads (each has a stack in the kernel heap) and any devices. None is
inductive alone: a thread that exits leaves the interrupts under way on its stack
to the thread that is taken next, which may exit itself, so a context can lie on
any stack. The invariant `IInv` says by whom: there is a
function from the stacks in use to living threads (`Chains`): a living thread holds
its own stack and those of the threads that exited to it, each of which leads to
the next, so that a switch, an exit or a return moves a whole chain. `Frames` says
what each interrupt under way can have under it, and `Processor` what holds between interrupts. The bound on a
stack is not inductive either, as an exit makes one interrupt more possible on a
stack that is deep already, and only later: `Depths` counts the stacks that are out
of use instead of the threads that exited. A stack goes out of use at the moment
its exit has been gone on from with interrupts enabled, which is what it pays for.

**Desktop_proofs.** `DesktopTypeCorrect`, `WindowsAlwaysOwned`,
`FocusAlwaysOnTop`, `ScreenComesBack`, assuming `EarlyClose = FALSE`, for any
programs, tabs and queues. The invariant `Ind` relates how far the two threads of
a program have come (`Course`: a handler exists as long as the event thread lives,
and a close event means that the main thread has ended) to what is on the desktop
(`Windows`: a window is there from `show()` to the end of the event thread, a tab
only with its window, and a program that shows nothing has no focus). Without
`Course`, `WindowsOwned` is not kept: it is the end of the main thread before the
event thread's that makes one exit remove everything.

`ShownAlwaysRight` is about the two components of `Displays`, for any windows and a
text screen of any size but an empty one. That nothing which can be seen is old when
the desktop's thread goes to sleep rests on what is marked (`ScreenInd`): an old
cache is marked, and of a widget whose old copy is still in its window, the taskbar
or the menu, that parent is marked (`Marked`); so is the desktop, or nothing visible
is old (`Fresh`), or a program has the screen. A drawing takes marks only from what
it draws (`StillMarked`), which is what lets the windows, the clock's tick, the
taskbar and the menu be taken one after the other (`WindowsDrawn`, `ClockTicked`,
`BarDrawn`, `MenuIsDrawn`). The starting point is that marking a widget marks it up
to the desktop (`PathIs`, `KeptMore`): with `MarkThemOnly` the invariant is lost.
Interrupts need no case of their own between the steps of the loop, as `ScreenInd`
says what holds at each `pc`.

For the text screen, `ConsoleInd` says that row `r` of the memory shows the line of
the page that is as far from the end as `r` is from the cursor's row, and blanks
after its last character. Each step is a line feed or a character, with a scroll if
it leaves the last row; that the memory's places are those of rows and columns, each
once, is the one piece of arithmetic (`CellIs`).

**AddressSpace_proofs.** `SpaceTypeCorrect`, `CountAlwaysExact`,
`FramesHaveOneOwner`, `StackAlwaysReady`, `SbrkAlwaysDelivers`, for any size of
RAM, any layout that satisfies `LayoutAssumption` and any number of processes and
threads. The invariant `Ind` says of each process that its pages, tables and
directory are different frames, taken, and neither the kernel's nor before the
region (`Own`), and that two processes share none (`Spaces`); of stacks, that
the one under way is mapped exactly up to the page it has come to and one that is
not begun not at all (`Stacks`), without which a thread that is made could bring
old entries back into use; of heaps, that they end below the trampoline
(`Heaps`), without which sbrk or `KillProcess()` could reach the stacks. The
frames before the region stay taken for ever (`Reserved`), which keeps frame 0,
the code's "not here", out of every process. `MapPageKeeps` is the lemma on which
the steps rest, and `StepKeeps` reduces a step to the one process it changes.

**Fat32_proofs.** `InvCorrect`, `TypeCorrect`, `OwnerCorrect`, `ContentsCorrect`,
`ReadsCorrect`, `TreeInvCorrect`, `LeaksCorrect` and `TreeImplemented`, for any number
of clusters, slots and bytes, any set of paths, and a format that clears any part of
the FAT. They assume `GeometryAssumption` (the FAT
has an entry for the root), `NamesAssumption` (capitals make no dots, so that no
name is that of a dot entry) and `HostAssumption` (what was copied from outside
fits in one cluster of the root, under different names). The properties speak of what a search of the
disk finds, so none says what a write does to the rest of it. The invariant `Inv`
does: there is a table `t`, for each first cluster a row with its kind, its path and
its chain, such that (`Tidy`) the chains end and share no cluster (`Table`), each
live entry of a directory's chain names the row of its path, no two name the same
(`Listed`), and a file's clusters hold what its path was given (`Held`). The table
is not computed from the disk: a step gives the next one, by adding, extending
or removing a row, and that is why a chain that is being freed, or a cluster that is
not linked yet, is in no one's way. `JobOK` is what an operation has prepared for
each of its writes, for example that the cluster an entry will name is marked,
zeroed and no row's. That a directory is empty before it is deleted is not needed
for `Inv`: the rows of what it held would stay in the table, without a path to them.

That nothing leaks takes the other direction, `TreeInv`, which adds to `Inv`
that the ends of a directory come last and its live entries have different names
(`InOrder`, `Distinct`, which is why the search before a create, and the first free
entry, matter), that every row but the root is named by an entry (`Whole`, for which
`DeleteDirectory()` has to check that it is empty), and that every marked cluster is
a row's or the one the operation under way holds (`Kept`). `LeaksCorrect` then follows
a row's path up to the root, by induction on its length (`DirsReached`), and the
recursion of `Directories` is shown to end with a set that holds all its own
directories (`DirectoriesClosed`).

That the file system implements `FileTree` (`TreeImplemented`) follows from
`TreeInv` in three steps. A search of a path finds an entry just if it is in a live
slot with its name in the directory of the table above it (`LiesFound`, by induction
along the path, and `FoundLies`). So what a step does to the tree is seen in its live
slots: of the steps that write a directory, each but four leaves all of them as they
are (`Grown`, `StillTree`), and those four change one slot, with which the paths
other than its own keep their nodes (`OthersAlike`, `RewriteStays`). Last, what the
one path finds before and after is what `FileTree` says: a new entry has a parent
(`ParentFound`), and nothing is found under a directory that is removed, since each
beginning of a path that is found is a directory with a live slot (`DirsAbove`).

The first part of `Fat32_proofs` shows that a search returns a slot of the table (`Lookup`), that it
does not see writes outside directories (`LookupKept`), and what each kind of
write does to a tidy disk (`AddRow`, `GrowRow`, `DropRow`). The recursive
functions `Chain`, `Directory`, `ResolvePath` and `Directories` are unfolded by
`RecursionExists` of `QueueLemmas`: a recursion whose argument shrinks by some measure has a
solution, which is proved by induction over sets.

**Parts_proofs.** `HeldAlwaysApart`, assuming `OneThread` (the library has no
lock), for any sizes and any end of the heap; and `TransfersAlwaysWhole`, assuming
`Undisturbed` (`EarlyInput`, `MergedInterrupts` and `IdleInterrupted` are FALSE: with
any of them TLC finds what is listed under "What disagrees"), for any sounds, files,
moves, numbers and sizes of rings. What it is put together from, `RingAlwaysExact`,
`SoundAlwaysWhole`, `LogAlwaysInOrder`, `WavAlwaysParsed` and `MeshAlwaysRight`, are
theorems about the modules' own specifications. So are `BootsAlwaysFromFirst`,
`DriversAlwaysReady` and `FaultsAlwaysReported`, from which `BootAlwaysRight` is put
together, for any drives, tables, buses, driver files, maps and stacks. It assumes
that `EarlyFail` is FALSE, and of the constants (`StartupAssumption`, which TLC
evaluates for the run's) what the code takes for granted:

- a disk has the 63 sectors that come before its first partition, and a number of
  them that fits the machine's integers (smaller ones are under "What
  disagrees");
- a driver's file is what `g++ -c` makes: symbols and relocations lie in sections that
  are there, no word has two relocations, no name begins with that of the entry and
  goes on, and what is written for sections that are not loaded stays below the heap;
- in the map, the line of a section that the linker wrapped has the address of a
  function that follows; the frames of the kernel's stack lead to frames of it or out
  of the kernel, and nothing is mapped at address 0.

None of the properties is inductive:

- *The user's heap.* `HeapIn` is stated, as the kernel heap's `Heap`, of a list of
  blocks, what is held and the pointer, since a request goes through a heap in
  between; `RequestOK` says that a block which was found is still free when it is
  taken, which is where one thread is needed.
- *The ring of sound.* What the driver counts depends on what the device is doing:
  off, it has played nothing; playing, it has what lies from `civ` to `lvi`; halted,
  nothing (`Off`, `Playing`, `Halted`). An interrupt that waits is one buffer that
  was played and is still counted, and there are never more than two.
- *The sound.* What was heard of a sound, then what lies ahead in the halves, is an
  interval of its samples that ends where its stream goes on (`Wholly`). That the
  halves take turns needs the ring to have an even number of entries; that none
  is overwritten needs the invariant of the ring.
- *The log.* What was accepted is what was sent and then the ring, read from
  `readHead` as a sequence (`LogInd`); a ring that is full drops what is put in.
- *WAV files.* The position is the sum of the chunks before some chunk, and none
  of these decided anything (`WavInd`).
- *Models.* After the first pass the counts are those of the lines; in the second,
  what is written is what the lines so far have (`Second`).
- *Keyboard and mouse.* The bytes that are under way, taken one after the other by
  the driver, lead from what it knows to what is true (`KeyWay`, `MouseWay`). So a
  packet may be cut anywhere by the other device's bytes. That the sum of three bytes
  gives the movement back is arithmetic modulo `Byte`, for every `Byte`.

- *The disk.* Where the boot is says what was found: the drives before the current
  one are not there, the one that was chosen is the first, and every partition of a
  table that a later boot may find was formatted (`Formatted`), but for the disk that
  is being set up (`DiskInd`). What is mounted is a recursion over the table.
- *Drivers.* A module is placed section by section (`Placed`), and its relocations are
  made one after the other, each in its own word; what was made of the first of them
  is kept by the rest, and everything below `heapEnd` is kept by the modules that are
  loaded later (`Kept`). Written from address 0, a relocation of a section that is
  not loaded stays below the heap: it changes no module.
- *Faults.* `Load()` is a recursion over the map's lines whose result is those of the
  symbols in their order (`TakenIn`); the last of the nearest is a function, because
  a wrapped section comes before the function at its address (`LookupIs`); a trace
  grows by a frame or ends (`Walked`), and what a report needs was made by the time
  that `activeInstance` is set.

Left to TLC: `EveryThreadRuns` and `EventsTaken`, as liveness is out of the
prover's reach; and `PicturesRight` of the `parts` run, which compares what nested
loops over pixels, edges and digits compute with a definition of the result, in
products and quotients that the solver does not decide.

## Not modelled

Left out because no property is about it:

- What a frame, a pixel or a message contains, apart from where it belongs;
  colours and blending; the game's camera, its culling of triangles that face away
  (`Renderer3D.cpp:177-183`) and its floating point (coordinates are exact in
  `Renderer`); what the memory viewer draws.
- The PIC and other device registers; access flags of pages.
- Message boxes, which no program opens, the text in an input box, and the
  position of a window that is dragged.
- `aligned_kmalloc`, looping streams and int 0x2E (`interrupts.cpp:274`), which
  nothing calls; listings of directories, which only print; system calls that only
  read a value.
- Strings and 64-bit arithmetic (`utils/`), and the build files.

Left out though the code can do it, so that the properties say nothing of it:

- *Failures.* `kmalloc` that fails for a thread's stack or TCB, which
  `CreateThread` does not look at (`scheduler.cpp:126`), for a module
  (`ModuleLoader.cpp:86`) or for a sound. The loader writes to address 0 after a
  `MapPage` that failed (`elf.cpp:91-97`); the model goes on with the page as not
  there. Reads and writes of a sector succeed: a boot whose read of the partition
  table fails uses what was on the stack (`msdospart.cpp:90`). A sound's file that
  ends inside its format chunk or in the header of a chunk.
- *Limits.* Machines with less than 256 MB, where `pmm.cpp:60-86` hands out frames
  past the end of RAM (`MemoryAssumption` leaves them out), and what a write past
  it does. The wrap of `timerTicks` after 2^32 ms (`LongUptime` has it, no run sets
  it), and of the break for a large negative increment (`syscalls.cpp:159`). The
  cut of a name at 11 characters in `ResolvePath()`.
- *Memory in use.* A heap's memory that is reused while an exited thread still runs
  on it (`PROJECT.json` has the hazard).
- *The desktop.* `desktop.cpp:265` gives widgets the pointer's old position as it was
  before it was kept on the screen, and a release goes to every child under the
  pointer (`widget.cpp:212-217`): the model ends one press. `Hgui.cpp:62` looks at
  the wrong variable for null; here the widget that it is about is in the table.

## Plan

1. `ExitStack`: `InterruptEntry` with a heap that hands a freed stack out again,
   for the hazard at `scheduler.cpp:322`.
2. The composition of `Desktop` with `Scheduler`: `WakeThread` of an event thread,
   with the window after a `Sleep()`, and events lost or repeated by it.
3. `Fat32` with two open files, and the failure of a sector's write.
4. Proofs: `NumberPrinted` and `DrawnRight` of `PicturesRight`, operation by operation.
