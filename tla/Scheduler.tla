------------------------------ MODULE Scheduler ------------------------------
(***************************************************************************)
(* The round-robin scheduler of Hashx86 (core/scheduler.cpp) with the      *)
(* interrupt paths that call it: the timer, the syscalls sleep, clone,     *)
(* exit and Hcall/regEventH, the start menu that loads a program, and the  *)
(* GUI event that wakes a handler thread.                                  *)
(*                                                                         *)
(* Every kernel path runs with interrupts disabled, so an operation is one *)
(* step, except Schedule(), whose loop takes a step per iteration (phase   *)
(* is then "scan", and nothing interleaves).                               *)
(*                                                                         *)
(* Time is relative: left[t] is wakeTime - timerTicks, 0 once it is due.   *)
(* wakeTime is a uint32_t: when uptime has passed 2^32 ms the sum is below *)
(* timerTicks at once, which is LongUptime = TRUE.                         *)
(***************************************************************************)
EXTENDS Integers, FiniteSets, SequencesExt

CONSTANTS
  MaxTid,      (* bound: threads created in a behaviour, the desktop's is 1 *)
  MaxPid,      (* bound: user processes created; the kernel's pid is 0      *)
  SleepTimes,  (* arguments of Sleep(), in timer ticks                      *)
  QueueCap,    (* bound: an event arrives only if readyQueue is shorter     *)
  LongUptime,  (* timerTicks has passed 2^32                                *)
  WakeRunning  (* an event may arrive while its handler is still on the     *)
               (* CPU, between its Sleep() and the next timer interrupt     *)

ASSUME BoundsAssumption ==
  /\ MaxTid \in Nat \ {0}
  /\ MaxPid \in Nat
  /\ SleepTimes \subseteq Nat
  /\ QueueCap \in Nat
  /\ LongUptime \in BOOLEAN
  /\ WakeRunning \in BOOLEAN

NoThread == -1      (* currentThread == nullptr, handler->thread == nullptr *)
Idle == 0           (* idleThread: the first TCB, tid 0, in no queue        *)
Tid == 1 .. MaxTid
DesktopTid == 1
KernelPid == 0
Pid == 0 .. MaxPid

VARIABLES
  state,              (* THREAD_STATE_* of a TCB; FREED once it is deleted  *)
  parent,             (* the process a TCB points to                        *)
  left,               (* ticks until a BLOCKED thread is due                *)
  threads,            (* the TCBs on a process's list                       *)
  globalProcessList,  (* the processes that exist (its order is not used)   *)
  tidCounter,         (* _tidCounter                                        *)
  pidCounter,         (* _pidCounter                                        *)
  readyQueue,
  blockedQueue,
  currentThread,
  cr3,                (* the process whose page directory is loaded         *)
  esp0,               (* the thread whose kernel stack the TSS points to    *)
  handler,            (* the thread of a process's GUI event handler        *)
  phase,              (* where the kernel is: see Phases                    *)
  scanLeft            (* iterations left of Schedule()'s loop               *)

tcbVars == <<state, parent, left, threads>>
procVars == <<globalProcessList, handler>>
counterVars == <<tidCounter, pidCounter>>
queueVars == <<readyQueue, blockedQueue>>
cpuVars == <<currentThread, cr3, esp0>>
vars == <<tcbVars, procVars, counterVars, queueVars, cpuVars, phase, scanLeft>>

States == {"NEW", "READY", "RUNNING", "BLOCKED", "FREED"}

(* "user": interrupts are on and currentThread executes; "scan": inside    *)
(* Schedule(); "stale_schedule" and "stale_wake": Schedule() or            *)
(* WakeThread() has used a deleted TCB, and what follows is not modelled.  *)
Phases == {"user", "scan", "stale_schedule", "stale_wake"}

Live(t) == state[t] \in {"READY", "RUNNING", "BLOCKED"}

(* A user thread is executing and can enter the kernel by int 0x80. *)
UserRuns == phase = "user" /\ currentThread \in Tid /\ parent[currentThread] # KernelPid

Init ==
  /\ state = [t \in Tid |-> IF t = DesktopTid THEN "READY" ELSE "NEW"]
  /\ parent = [t \in Tid |-> KernelPid]
  /\ left = [t \in Tid |-> 0]
  /\ threads = [p \in Pid |-> IF p = KernelPid THEN {DesktopTid} ELSE {}]
  /\ globalProcessList = {KernelPid}
  /\ tidCounter = DesktopTid + 1
  /\ pidCounter = KernelPid + 1
  /\ readyQueue = <<DesktopTid>>
  /\ blockedQueue = <<>>
  /\ currentThread = NoThread
  /\ cr3 = KernelPid
  /\ esp0 = NoThread
  /\ handler = [p \in Pid |-> NoThread]
  /\ phase = "user"
  /\ scanLeft = 0
----------------------------------------------------------------------------
(* CreateThread(p): a TCB for the next tid. Without memory for its stack   *)
(* the TCB is deleted again and the tid is used up.                        *)
CreateThread(p, hasMemory) ==
  LET t == tidCounter IN
  /\ tidCounter <= MaxTid
  /\ tidCounter' = tidCounter + 1
  /\ parent' = [parent EXCEPT ![t] = p]
  /\ state' = [state EXCEPT ![t] = IF hasMemory THEN "READY" ELSE "FREED"]
  /\ threads' = IF hasMemory THEN [threads EXCEPT ![p] = @ \union {t}] ELSE threads
  /\ readyQueue' = IF hasMemory THEN Append(readyQueue, t) ELSE readyQueue

(* The start menu runs ELFLoader::loadELF in the mouse interrupt, whatever *)
(* thread it interrupts; CreateProcess does not look at what CreateThread  *)
(* returned.                                                               *)
LaunchProgram ==
  /\ phase = "user"
  /\ pidCounter <= MaxPid
  /\ pidCounter' = pidCounter + 1
  /\ \E hasMemory \in BOOLEAN : CreateThread(pidCounter, hasMemory)
  /\ globalProcessList' = globalProcessList \union {pidCounter}
  /\ UNCHANGED <<left, handler, blockedQueue, cpuVars, phase, scanLeft>>

(* sys_clone. *)
Clone ==
  /\ UserRuns
  /\ \E hasMemory \in BOOLEAN : CreateThread(parent[currentThread], hasMemory)
  /\ UNCHANGED <<left, procVars, pidCounter, blockedQueue, cpuVars, phase, scanLeft>>

(* Hcall/regEventH: a thread for GUI events, registered with the desktop   *)
(* as nullptr if it could not be created. A program registers one.         *)
RegisterHandler ==
  LET p == parent[currentThread] IN
  /\ UserRuns
  /\ handler[p] = NoThread
  /\ \E hasMemory \in BOOLEAN :
       /\ CreateThread(p, hasMemory)
       /\ handler' = [handler EXCEPT ![p] = IF hasMemory THEN tidCounter ELSE NoThread]
  /\ UNCHANGED <<left, globalProcessList, pidCounter, blockedQueue, cpuVars, phase, scanLeft>>

(* Sleep(ms) marks the running thread and returns to it: nothing yields.   *)
(* Called by sys_sleep, by EVENT/GET on an empty queue, and by the desktop.*)
Sleep(ms) ==
  /\ phase = "user"
  /\ currentThread \in Tid
  /\ state' = [state EXCEPT ![currentThread] = "BLOCKED"]
  /\ left' = [left EXCEPT ![currentThread] = IF LongUptime THEN 0 ELSE ms]
  /\ UNCHANGED <<parent, threads, procVars, counterVars, queueVars, cpuVars, phase, scanLeft>>

(* Mutants: an event that forgets one of the two queues. *)
WakeThreadUnqueued(p) ==
  LET t == handler[p] IN
  /\ phase = "user"
  /\ t # NoThread
  /\ WakeRunning \/ t # currentThread
  /\ state[t] = "BLOCKED"
  /\ state' = [state EXCEPT ![t] = "READY"]
  /\ left' = [left EXCEPT ![t] = 0]
  /\ blockedQueue' = RemoveFirst(blockedQueue, t)
  /\ UNCHANGED <<parent, threads, procVars, counterVars, readyQueue, cpuVars, phase, scanLeft>>

WakeThreadStillBlocked(p) ==
  LET t == handler[p] IN
  /\ phase = "user"
  /\ t # NoThread
  /\ WakeRunning \/ t # currentThread
  /\ Len(readyQueue) < QueueCap
  /\ state[t] = "BLOCKED"
  /\ state' = [state EXCEPT ![t] = "READY"]
  /\ left' = [left EXCEPT ![t] = 0]
  /\ readyQueue' = Append(readyQueue, t)
  /\ UNCHANGED <<parent, threads, procVars, counterVars, blockedQueue, cpuVars, phase, scanLeft>>

(* A click or a window close: the mouse interrupt calls WakeThread on the  *)
(* handler thread of process p.                                            *)
WakeThread(p) ==
  LET t == handler[p] IN
  /\ phase = "user"
  /\ t # NoThread
  /\ WakeRunning \/ t # currentThread
  /\ Len(readyQueue) < QueueCap
  /\ state[t] = "BLOCKED"
  /\ state' = [state EXCEPT ![t] = "READY"]
  /\ left' = [left EXCEPT ![t] = 0]
  /\ blockedQueue' = RemoveFirst(blockedQueue, t)
  /\ readyQueue' = Append(readyQueue, t)
  /\ UNCHANGED <<parent, threads, procVars, counterVars, cpuVars, phase, scanLeft>>

(* The handler thread has exited alone and its TCB is deleted, but the     *)
(* desktop still holds it.                                                 *)
WakeStale(p) ==
  /\ phase = "user"
  /\ handler[p] # NoThread
  /\ ~Live(handler[p])
  /\ phase' = "stale_wake"
  /\ UNCHANGED <<tcbVars, procVars, counterVars, queueVars, cpuVars, scanLeft>>
----------------------------------------------------------------------------
(* Mutant: the process's list keeps the TCB. *)
TerminateThreadKeepsMember(t) ==
  /\ currentThread' = IF t = currentThread THEN NoThread ELSE currentThread
  /\ state' = [state EXCEPT ![t] = "FREED"]
  /\ readyQueue' = RemoveFirst(readyQueue, t)
  /\ blockedQueue' = RemoveFirst(blockedQueue, t)
  /\ UNCHANGED <<parent, left, threads>>

(* TerminateThread(t), on the lists it changes. *)
TerminateThread(t) ==
  /\ currentThread' = IF t = currentThread THEN NoThread ELSE currentThread
  /\ state' = [state EXCEPT ![t] = "FREED"]
  /\ readyQueue' = RemoveFirst(readyQueue, t)
  /\ blockedQueue' = RemoveFirst(blockedQueue, t)
  /\ threads' = [threads EXCEPT ![parent[t]] = @ \ {t}]
  /\ UNCHANGED <<parent, left>>

(* sys_exit counts the threads on the process's list. Mutant: off by one. *)
LastThreadOffByOne(p) == Cardinality(threads[p]) <= 2
LastThread(p) == Cardinality(threads[p]) <= 1

(* The address space of process p is left before it is freed. Mutant: not. *)
StayInDirectory(p) == cr3
LeaveDirectory(p) == IF cr3 = p THEN KernelPid ELSE cr3

(* sys_exit of a thread that is not the last of its process; the interrupt *)
(* handler finds currentThread null and calls Schedule().                  *)
ExitThread ==
  /\ UserRuns
  /\ ~LastThread(parent[currentThread])
  /\ TerminateThread(currentThread)
  /\ phase' = "scan"
  /\ scanLeft' = Len(blockedQueue')
  /\ UNCHANGED <<procVars, counterVars, cr3, esp0>>

(* sys_exit of the last thread: KillProcess() leaves the address space it  *)
(* is about to free, terminates the one thread on the list and frees the   *)
(* process; RemoveAppByPID then removes its event handler.                 *)
KillProcess ==
  LET p == parent[currentThread] IN
  /\ UserRuns
  /\ LastThread(p)
  /\ TerminateThread(currentThread)
  /\ cr3' = LeaveDirectory(p)
  /\ globalProcessList' = globalProcessList \ {p}
  /\ handler' = [handler EXCEPT ![p] = NoThread]
  /\ phase' = "scan"
  /\ scanLeft' = Len(blockedQueue')
  /\ UNCHANGED <<counterVars, esp0>>
----------------------------------------------------------------------------
(* One tick less to wait. Mutant: past the due time the count goes on. *)
TickUnfloored(n) == n - 1
Tick(n) == IF n > 0 THEN n - 1 ELSE 0

(* The timer interrupt: one more tick, and the first part of Schedule(),   *)
(* which puts the thread that was running on a queue. A thread that has    *)
(* been woken since its Sleep() is READY, and is on readyQueue already.    *)
TimerInterrupt ==
  LET t == currentThread IN
  /\ phase = "user"
  /\ left' = [u \in Tid |-> Tick(left[u])]
  /\ IF t \in Tid /\ state[t] = "RUNNING"
     THEN /\ state' = [state EXCEPT ![t] = "READY"]
          /\ readyQueue' = Append(readyQueue, t)
     ELSE UNCHANGED <<state, readyQueue>>
  /\ blockedQueue' = IF t \in Tid /\ state[t] = "BLOCKED"
                     THEN Append(blockedQueue, t) ELSE blockedQueue
  /\ phase' = "scan"
  /\ scanLeft' = Len(blockedQueue')
  /\ UNCHANGED <<parent, threads, procVars, counterVars, cpuVars>>

(* A sleeper's time has come. Mutants: a tick early; the wrong state.      *)
DueEarly(t) == state[t] = "BLOCKED" /\ left[t] <= 1
DueIfReady(t) == state[t] = "READY" /\ left[t] = 0
Due(t) == state[t] = "BLOCKED" /\ left[t] = 0

(* Mutant: the loop ends at the first thread it wakes. *)
ScanBlockedFirstOnly ==
  LET t == Head(blockedQueue) IN
  /\ phase = "scan" /\ scanLeft > 0
  /\ Live(t)
  /\ scanLeft' = IF Due(t) THEN 0 ELSE scanLeft - 1
  /\ state' = IF Due(t) THEN [state EXCEPT ![t] = "READY"] ELSE state
  /\ readyQueue' = IF Due(t) THEN Append(readyQueue, t) ELSE readyQueue
  /\ blockedQueue' = IF Due(t) THEN Tail(blockedQueue) ELSE Append(Tail(blockedQueue), t)
  /\ UNCHANGED <<parent, left, threads, procVars, counterVars, cpuVars, phase>>

(* One iteration of the loop over blockedQueue: a thread that is due moves *)
(* to readyQueue, any other goes to the back.                              *)
ScanBlocked ==
  LET t == Head(blockedQueue) IN
  /\ phase = "scan" /\ scanLeft > 0
  /\ Live(t)
  /\ scanLeft' = scanLeft - 1
  /\ state' = IF Due(t) THEN [state EXCEPT ![t] = "READY"] ELSE state
  /\ readyQueue' = IF Due(t) THEN Append(readyQueue, t) ELSE readyQueue
  /\ blockedQueue' = IF Due(t) THEN Tail(blockedQueue) ELSE Append(Tail(blockedQueue), t)
  /\ UNCHANGED <<parent, left, threads, procVars, counterVars, cpuVars, phase>>

(* Mutant: the idle thread stays in the address space that is loaded. *)
DispatchIdleAnywhere ==
  /\ phase = "scan" /\ scanLeft = 0
  /\ readyQueue = <<>>
  /\ currentThread' = Idle
  /\ phase' = "user"
  /\ UNCHANGED <<tcbVars, procVars, counterVars, queueVars, cr3, esp0, scanLeft>>

(* Nothing is runnable: the idle thread, in the kernel's address space. It *)
(* needs no kernel stack of its own, and the TSS is left alone.            *)
DispatchIdle ==
  /\ phase = "scan" /\ scanLeft = 0
  /\ readyQueue = <<>>
  /\ currentThread' = Idle
  /\ cr3' = KernelPid
  /\ phase' = "user"
  /\ UNCHANGED <<tcbVars, procVars, counterVars, queueVars, esp0, scanLeft>>

(* The head of readyQueue gets the CPU, its own kernel stack and its own   *)
(* address space.                                                          *)
Dispatch ==
  LET t == Head(readyQueue) IN
  /\ phase = "scan" /\ scanLeft = 0
  /\ readyQueue # <<>>
  /\ Live(t)
  /\ readyQueue' = Tail(readyQueue)
  /\ state' = [state EXCEPT ![t] = "RUNNING"]
  /\ currentThread' = t
  /\ esp0' = t
  /\ cr3' = parent[t]
  /\ phase' = "user"
  /\ UNCHANGED <<parent, left, threads, procVars, counterVars, blockedQueue, scanLeft>>

(* Schedule() takes a TCB that has been deleted from one of the queues.    *)
ScheduleStale ==
  /\ phase = "scan"
  /\ IF scanLeft > 0 THEN ~Live(Head(blockedQueue))
                     ELSE readyQueue # <<>> /\ ~Live(Head(readyQueue))
  /\ phase' = "stale_schedule"
  /\ UNCHANGED <<tcbVars, procVars, counterVars, queueVars, cpuVars, scanLeft>>

(* After the use of a deleted TCB anything may happen: the model stops.    *)
Undefined == phase \in {"stale_schedule", "stale_wake"} /\ UNCHANGED vars

Schedule == ScanBlocked \/ DispatchIdle \/ Dispatch \/ ScheduleStale

Next ==
  \/ LaunchProgram
  \/ Clone
  \/ RegisterHandler
  \/ \E ms \in SleepTimes : Sleep(ms)
  \/ \E p \in Pid : WakeThread(p) \/ WakeStale(p)
  \/ ExitThread
  \/ KillProcess
  \/ TimerInterrupt
  \/ Schedule
  \/ Undefined

Spec == Init /\ [][Next]_vars

(* The timer is a free-running periodic interrupt, enabled whenever a      *)
(* thread executes, and the code of Schedule() always completes. Programs  *)
(* and the mouse owe nothing.                                              *)
FairSpec == Spec /\ WF_vars(TimerInterrupt) /\ WF_vars(Schedule)
----------------------------------------------------------------------------
(* Every variable has its type. *)
TypeOK ==
  /\ state \in [Tid -> States]
  /\ parent \in [Tid -> Pid]
  /\ left \in [Tid -> Nat]
  /\ threads \in [Pid -> SUBSET Tid]
  /\ globalProcessList \subseteq Pid
  /\ tidCounter \in 2 .. MaxTid + 1
  /\ pidCounter \in 1 .. MaxPid + 1
  /\ readyQueue \in Seq(Tid)
  /\ blockedQueue \in Seq(Tid)
  /\ currentThread \in Tid \union {Idle, NoThread}
  /\ cr3 \in Pid
  /\ esp0 \in Tid \union {NoThread}
  /\ handler \in [Pid -> Tid \union {NoThread}]
  /\ phase \in Phases
  /\ scanLeft \in Nat

(* No thread is ever lost: whatever order sleeps, events, ticks and exits  *)
(* come in, a READY thread is on readyQueue, a BLOCKED one is on           *)
(* blockedQueue or still has the CPU it went to sleep on, and only the     *)
(* owner of the CPU is RUNNING. (Sleep() puts the thread on no queue and   *)
(* relies on the next Schedule() to do it.)                                *)
NoLostThread ==
  \A t \in Tid :
    /\ state[t] = "READY" => t \in ToSet(readyQueue)
    /\ state[t] = "BLOCKED" =>
         t \in ToSet(blockedQueue) \/ (t = currentThread /\ phase \in {"user", "stale_wake"})
    /\ state[t] = "RUNNING" => t = currentThread /\ phase \in {"user", "stale_wake"}

(* A process's thread list holds exactly its threads that have not exited, *)
(* and a process with a thread exists: KillProcess() never iterates over a *)
(* dangling TCB (scheduler.cpp, the comment in TerminateThread), and no    *)
(* thread outlives its process.                                            *)
MembershipExact ==
  \A p \in Pid :
    /\ threads[p] = {t \in Tid : Live(t) /\ parent[t] = p}
    /\ threads[p] # {} => p \in globalProcessList

(* The page directory in CR3 is never that of a process that has been      *)
(* freed, even while Schedule() runs after KillProcess().                  *)
DirectoryAlive == cr3 \in globalProcessList

(* A thread executes in the address space of its own process and enters    *)
(* the kernel on its own stack; the idle thread in the kernel's space.     *)
OwnContext ==
  phase = "user" =>
    /\ currentThread \in Tid =>
         Live(currentThread) /\ cr3 = parent[currentThread] /\ esp0 = currentThread
    /\ currentThread \notin Tid => cr3 = KernelPid

(* After Schedule() no thread that is due is left sleeping: the running    *)
(* thread is put on blockedQueue before the queue is scanned, and the scan *)
(* reaches every entry although it adds entries itself.                    *)
NoOverdueSleeper ==
  phase = "user" =>
    \A t \in Tid \ {currentThread} : state[t] = "BLOCKED" => left[t] > 0

(* A thread leaves BLOCKED before its time only by exiting, or by an event *)
(* for it if it is its process's event handler.                            *)
SleepRespected ==
  [][\A t \in Tid :
       state[t] = "BLOCKED" /\ state'[t] \in {"READY", "RUNNING"} =>
         left[t] = 0 \/ handler[parent[t]] = t]_vars

(* The queues as scheduler.h describes them ("Runnable threads", "Sleeping *)
(* threads"): no entry is repeated, readyQueue holds READY threads and     *)
(* blockedQueue BLOCKED ones, and the running thread is on neither.        *)
QueueDiscipline ==
  /\ IsInjective(readyQueue) /\ IsInjective(blockedQueue)
  /\ \A t \in ToSet(readyQueue) : state[t] = "READY"
  /\ \A t \in ToSet(blockedQueue) : state[t] = "BLOCKED"
  /\ phase = "user" => currentThread \notin ToSet(readyQueue) \union ToSet(blockedQueue)

(* Schedule() never dereferences a deleted TCB: TerminateThread takes the  *)
(* thread off every queue and clears currentThread for this.               *)
NoStaleSchedule == phase # "stale_schedule"

(* Every thread gets the CPU again, unless it exits: a sleeper is woken    *)
(* and a runnable thread is not starved by threads that keep sleeping,     *)
(* being woken and creating others.                                        *)
EveryThreadRuns ==
  \A t \in Tid :
    Live(t) ~> (state[t] \in {"RUNNING", "FREED"} \/ phase \in {"stale_schedule", "stale_wake"})

(* The scheduler implements ThreadLife: its lists, queues and phases come  *)
(* down to births, switches and exits.                                     *)
Life == INSTANCE ThreadLife WITH
  Threads <- Tid, Processes <- Pid, Kernel <- KernelPid, Desktop <- DesktopTid,
  IdleTask <- Idle, Nobody <- NoThread,
  alive <- globalProcessList,
  ended <- (0 .. pidCounter - 1) \ globalProcessList,
  members <- threads,
  exited <- {t \in Tid : state[t] = "FREED"},
  cpu <- currentThread

ImplementsThreadLife == Life!LifeSpec
=============================================================================
