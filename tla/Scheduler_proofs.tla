-------------------------- MODULE Scheduler_proofs --------------------------
(* Theorems about Scheduler, for every number of threads and processes and *)
(* every set of sleep times.                                               *)
EXTENDS Scheduler, QueueLemmas, FiniteSetTheorems

USE DEF Tid, Pid, NoThread, Idle, DesktopTid, KernelPid, LastThread, LeaveDirectory

(* A TCB is NEW exactly until its tid is handed out, and a process does    *)
(* not exist before its pid is.                                            *)
Births ==
  /\ \A t \in Tid : state[t] = "NEW" <=> t >= tidCounter
  /\ \A p \in globalProcessList : p < pidCounter

(* The kernel's process is never freed, and no deleted TCB has the CPU.    *)
Owners ==
  /\ KernelPid \in globalProcessList
  /\ currentThread \in Tid => Live(currentThread)

(* Schedule()'s loop pops no more entries than blockedQueue holds.         *)
ScanBound == phase = "scan" => scanLeft <= Len(blockedQueue)

(* An event handler is a thread of the process it is registered for.       *)
HandlerOwned ==
  \A p \in Pid : handler[p] # NoThread =>
                   parent[handler[p]] = p /\ state[handler[p]] # "NEW"

Ind ==
  /\ TypeOK /\ Births /\ Owners /\ ScanBound /\ HandlerOwned
  /\ NoLostThread /\ MembershipExact /\ DirectoryAlive /\ OwnContext

LEMMA IndInit == Init => Ind
<1> SUFFICES ASSUME Init PROVE Ind
  OBVIOUS
<1> USE BoundsAssumption DEF Init
<1>1. readyQueue \in Seq(Tid) /\ blockedQueue \in Seq(Tid) /\ ToSet(readyQueue) = {DesktopTid}
  BY DEF ToSet
<1>2. TypeOK
  BY <1>1 DEF TypeOK, States, Phases
<1>3. Births /\ Owners /\ ScanBound /\ HandlerOwned /\ DirectoryAlive /\ OwnContext
  BY DEF Births, Owners, ScanBound, HandlerOwned, DirectoryAlive, OwnContext, Live
<1>4. NoLostThread
  BY <1>1 DEF NoLostThread
<1>5. MembershipExact
  BY DEF MembershipExact, Live
<1>6. QED
  BY <1>2, <1>3, <1>4, <1>5 DEF Ind
----------------------------------------------------------------------------
(* CreateThread keeps the invariant for every caller: whatever else the    *)
(* caller does to the process list and to the handlers.                    *)
LEMMA CreateThreadKeepsInd ==
  ASSUME Ind, NEW p \in Pid, NEW hasMemory \in BOOLEAN,
         CreateThread(p, hasMemory),
         UNCHANGED <<left, blockedQueue, cpuVars, phase, scanLeft>>,
         globalProcessList \subseteq globalProcessList',
         p \in globalProcessList',
         globalProcessList' \subseteq Pid,
         pidCounter' \in 1 .. MaxPid + 1,
         \A q \in globalProcessList' : q < pidCounter',
         handler' \in [Pid -> Tid \union {NoThread}],
         \A q \in Pid : \/ handler'[q] = handler[q]
                        \/ handler'[q] = NoThread
                        \/ handler'[q] = tidCounter /\ q = p
  PROVE  Ind'
<1> DEFINE t == tidCounter
           st == IF hasMemory THEN "READY" ELSE "FREED"
<1> USE BoundsAssumption DEF Ind
<1>1. /\ t \in Tid /\ tidCounter' = t + 1 /\ tidCounter' \in 2 .. MaxTid + 1
      /\ state[t] = "NEW"
      /\ state' = [state EXCEPT ![t] = st]
      /\ parent' = [parent EXCEPT ![t] = p]
  BY DEF CreateThread, TypeOK, Births
<1>2. /\ \A u \in Tid \ {t} : state'[u] = state[u] /\ parent'[u] = parent[u]
      /\ state'[t] = st /\ parent'[t] = p
  BY <1>1 DEF TypeOK
<1>3. /\ readyQueue' \in Seq(Tid)
      /\ hasMemory => ToSet(readyQueue') = ToSet(readyQueue) \union {t}
      /\ ~hasMemory => ToSet(readyQueue') = ToSet(readyQueue)
  <2>1. CASE hasMemory
    <3>1. readyQueue' = Append(readyQueue, t)
      BY <2>1 DEF CreateThread
    <3>2. readyQueue \in Seq(Tid) /\ t \in Tid
      BY <1>1 DEF TypeOK
    <3> HIDE DEF t
    <3>3. QED
      BY <2>1, <3>1, <3>2, AppendEntries
  <2>2. CASE ~hasMemory
    BY <2>2 DEF CreateThread, TypeOK
  <2>3. QED
    BY <2>1, <2>2
<1>3a. threads' \in [Pid -> SUBSET Tid] /\ st \in States
  BY <1>1 DEF TypeOK, CreateThread, States
<1>4. TypeOK'
  BY <1>1, <1>3, <1>3a DEF TypeOK, cpuVars, Phases
<1>5. Births'
  BY <1>1, <1>2 DEF Births, TypeOK
<1>6. \A u \in Tid \ {t} : Live(u)' <=> Live(u)
  BY <1>2 DEF Live
<1>6a. \A u \in Tid : u = t => ~Live(u) /\ (hasMemory => Live(u)') /\ (~hasMemory => ~Live(u)')
  BY <1>1, <1>2 DEF Live
<1>7. Owners' /\ ScanBound'
  BY <1>6, <1>6a DEF Owners, ScanBound, cpuVars
<1>8. HandlerOwned'
  BY <1>1, <1>2 DEF HandlerOwned, TypeOK
<1>9. NoLostThread'
  BY <1>1, <1>2, <1>3 DEF NoLostThread, cpuVars
<1>10. MembershipExact'
  <2>1. threads' = IF hasMemory THEN [threads EXCEPT ![p] = @ \union {t}] ELSE threads
    BY DEF CreateThread
  <2>2. ASSUME NEW q \in Pid
        PROVE  /\ threads'[q] = {u \in Tid : Live(u)' /\ parent'[u] = q}
               /\ threads'[q] # {} => q \in globalProcessList'
    <3>1. threads[q] = {u \in Tid : Live(u) /\ parent[u] = q}
      BY DEF MembershipExact
    <3>2. CASE hasMemory /\ q = p
      <4>1. threads'[q] = threads[q] \union {t}
        BY <2>1, <3>2 DEF TypeOK
      <4>2. QED
        BY <1>1, <1>2, <1>6, <1>6a, <3>1, <3>2, <4>1
    <3>3. CASE ~(hasMemory /\ q = p)
      <4>1. threads'[q] = threads[q]
        BY <2>1, <3>3 DEF TypeOK
      <4>2. QED
        BY <1>1, <1>2, <1>6, <1>6a, <3>1, <3>3, <4>1 DEF MembershipExact
    <3>4. QED
      BY <3>2, <3>3
  <2>3. QED
    BY <2>2 DEF MembershipExact, Live
<1>11. DirectoryAlive' /\ OwnContext'
  BY <1>2, <1>6, <1>6a DEF DirectoryAlive, OwnContext, cpuVars
<1>12. QED
  BY <1>4, <1>5, <1>7, <1>8, <1>9, <1>10, <1>11 DEF Ind

(* TerminateThread of the running thread, with what ExitThread and         *)
(* KillProcess do after it.                                                *)
LEMMA TerminateKeepsInd ==
  ASSUME Ind, UserRuns, TerminateThread(currentThread),
         phase' = "scan", scanLeft' = Len(blockedQueue'),
         UNCHANGED <<counterVars, esp0>>,
         cr3' \in globalProcessList',
         globalProcessList' \subseteq globalProcessList,
         KernelPid \in globalProcessList',
         \A q \in Pid : q \in globalProcessList \ globalProcessList' =>
                          threads[q] = {currentThread},
         handler' \in [Pid -> Tid \union {NoThread}],
         \A q \in Pid : handler'[q] \in {handler[q], NoThread}
  PROVE  Ind'
<1> DEFINE t == currentThread
<1> USE BoundsAssumption DEF Ind
<1>1. t \in Tid /\ phase = "user" /\ Live(t) /\ parent[t] \in Pid
  BY DEF UserRuns, Owners, TypeOK
<1>2. /\ \A u \in Tid \ {t} : state'[u] = state[u]
      /\ state'[t] = "FREED" /\ state' \in [Tid -> States] /\ parent' = parent
      /\ currentThread' = NoThread
  BY <1>1 DEF TerminateThread, TypeOK, States
<1>3. /\ readyQueue' \in Seq(Tid) /\ blockedQueue' \in Seq(Tid)
      /\ ToSet(readyQueue) \ {t} \subseteq ToSet(readyQueue')
      /\ ToSet(blockedQueue) \ {t} \subseteq ToSet(blockedQueue')
  BY RemoveEntries DEF TerminateThread, TypeOK
<1>4. /\ \A q \in Pid : threads'[q] = threads[q] \ {t}
      /\ threads' \in [Pid -> SUBSET Tid]
  <2>1. threads' = [threads EXCEPT ![parent[t]] = @ \ {t}]
    BY DEF TerminateThread
  <2>2. \A q \in Pid \ {parent[t]} : t \notin threads[q]
    BY <1>1 DEF MembershipExact
  <2>3. QED
    BY <1>1, <2>1, <2>2 DEF TypeOK
<1>5. Len(blockedQueue') \in Nat
  BY <1>3
<1>6. TypeOK'
  BY <1>2, <1>3, <1>4, <1>5 DEF TypeOK, TerminateThread, counterVars, Phases
<1>7. Births'
  BY <1>1, <1>2 DEF Births, counterVars, Live, TypeOK
<1>8. \A u \in Tid : Live(u)' <=> Live(u) /\ u # t
  BY <1>2 DEF Live
<1>9. Owners' /\ ScanBound' /\ OwnContext' /\ DirectoryAlive'
  BY <1>2, <1>5 DEF Owners, ScanBound, OwnContext, DirectoryAlive
<1>10. HandlerOwned'
  BY <1>2 DEF HandlerOwned, TypeOK
<1>11. NoLostThread'
  BY <1>1, <1>2, <1>3 DEF NoLostThread
<1>12. MembershipExact'
  <2>1. ASSUME NEW q \in Pid
        PROVE  /\ threads'[q] = {u \in Tid : Live(u)' /\ parent'[u] = q}
               /\ threads'[q] # {} => q \in globalProcessList'
    BY <1>2, <1>4, <1>8 DEF MembershipExact
  <2>2. QED
    BY <2>1 DEF MembershipExact, Live
<1>13. QED
  BY <1>6, <1>7, <1>9, <1>10, <1>11, <1>12 DEF Ind
----------------------------------------------------------------------------
LEMMA OnlyMember ==
  ASSUME NEW S \in SUBSET Tid, NEW x \in S, Cardinality(S) <= 1
  PROVE  S = {x}
<1>1. IsFiniteSet(S)
  <2>1. IsFiniteSet(Tid)
    BY BoundsAssumption, FS_Interval
  <2>2. QED
    BY <2>1, FS_Subset
<1>2. ASSUME NEW y \in S, y # x
      PROVE  FALSE
  <2>1. IsFiniteSet({x}) /\ Cardinality({x}) = 1
    BY FS_Singleton
  <2>2. Cardinality({x} \union {y}) = 2
    BY <1>2, <2>1, FS_AddElement
  <2>3. Cardinality({x} \union {y}) <= Cardinality(S) /\ Cardinality(S) \in Nat
    BY <1>1, <1>2, FS_Subset, FS_CardinalityType
  <2>4. QED
    BY <2>2, <2>3
<1>3. QED
  BY <1>2

LEMMA IndStep == Ind /\ [Next]_vars => Ind'
<1> SUFFICES ASSUME Ind, [Next]_vars PROVE Ind'
  OBVIOUS
<1> USE BoundsAssumption
<1>1. CASE LaunchProgram
  <2>1. PICK hasMemory \in BOOLEAN : CreateThread(pidCounter, hasMemory)
    BY <1>1 DEF LaunchProgram
  <2>2. pidCounter \in Pid /\ pidCounter' = pidCounter + 1 /\ pidCounter' \in 1 .. MaxPid + 1
    BY <1>1 DEF LaunchProgram, Ind, TypeOK
  <2>3. globalProcessList' = globalProcessList \union {pidCounter} /\ handler' = handler
    BY <1>1 DEF LaunchProgram
  <2>4. \A q \in globalProcessList' : q < pidCounter'
    BY <2>2, <2>3 DEF Ind, Births, TypeOK
  <2>5. UNCHANGED <<left, blockedQueue, cpuVars, phase, scanLeft>>
    BY <1>1 DEF LaunchProgram
  <2>6. QED
    BY <2>1, <2>2, <2>3, <2>4, <2>5, CreateThreadKeepsInd DEF Ind, TypeOK
<1>2. CASE Clone
  <2>1. PICK hasMemory \in BOOLEAN : CreateThread(parent[currentThread], hasMemory)
    BY <1>2 DEF Clone
  <2>2. parent[currentThread] \in Pid /\ parent[currentThread] \in globalProcessList
    BY <1>2 DEF Clone, UserRuns, Ind, TypeOK, Owners, MembershipExact
  <2>3. UNCHANGED <<left, blockedQueue, cpuVars, phase, scanLeft, globalProcessList, handler, pidCounter>>
    BY <1>2 DEF Clone, procVars
  <2>4. QED
    BY <2>1, <2>2, <2>3, CreateThreadKeepsInd DEF Ind, TypeOK, Births
<1>3. CASE RegisterHandler
  <2> DEFINE p == parent[currentThread]
  <2>1. PICK hasMemory \in BOOLEAN :
          /\ CreateThread(p, hasMemory)
          /\ handler' = [handler EXCEPT ![p] = IF hasMemory THEN tidCounter ELSE NoThread]
    BY <1>3 DEF RegisterHandler
  <2>2. p \in Pid /\ p \in globalProcessList
    BY <1>3 DEF RegisterHandler, UserRuns, Ind, TypeOK, Owners, MembershipExact
  <2>3. UNCHANGED <<left, blockedQueue, cpuVars, phase, scanLeft, globalProcessList, pidCounter>>
    BY <1>3 DEF RegisterHandler
  <2>4. tidCounter \in Tid
    BY <2>1 DEF CreateThread, Ind, TypeOK
  <2>5. /\ handler' \in [Pid -> Tid \union {NoThread}]
        /\ \A q \in Pid : \/ handler'[q] = handler[q]
                          \/ handler'[q] = NoThread
                          \/ handler'[q] = tidCounter /\ q = p
    BY <2>1, <2>2, <2>4 DEF Ind, TypeOK
  <2>6. QED
    BY <2>1, <2>2, <2>3, <2>5, CreateThreadKeepsInd DEF Ind, TypeOK, Births
<1>4. ASSUME NEW ms \in SleepTimes, Sleep(ms)
      PROVE  Ind'
  <2> DEFINE late == IF LongUptime THEN 0 ELSE ms
  <2>1. /\ currentThread \in Tid /\ phase = "user" /\ late \in Nat
        /\ \A u \in Tid \ {currentThread} : state'[u] = state[u]
        /\ state'[currentThread] = "BLOCKED" /\ state' \in [Tid -> States]
        /\ left' \in [Tid -> Nat]
    BY <1>4 DEF Sleep, Ind, TypeOK, States
  <2>2. UNCHANGED <<parent, threads, globalProcessList, handler, tidCounter, pidCounter,
                    readyQueue, blockedQueue, currentThread, cr3, esp0, phase, scanLeft>>
    BY <1>4 DEF Sleep, procVars, counterVars, queueVars, cpuVars
  <2>3. \A u \in Tid : Live(u)' <=> Live(u)
    BY <2>1 DEF Live, Ind, Owners
  <2>4. TypeOK'
    BY <2>1, <2>2 DEF Ind, TypeOK
  <2>5. Births' /\ Owners' /\ ScanBound' /\ HandlerOwned'
    BY <2>1, <2>2, <2>3 DEF Ind, TypeOK, Births, Owners, ScanBound, HandlerOwned, Live
  <2>6. NoLostThread' /\ DirectoryAlive' /\ OwnContext'
    BY <2>1, <2>2, <2>3 DEF Ind, NoLostThread, DirectoryAlive, OwnContext
  <2>7. MembershipExact'
    BY <2>2, <2>3 DEF Ind, MembershipExact, Live
  <2>8. QED
    BY <2>4, <2>5, <2>6, <2>7 DEF Ind
<1>5. ASSUME NEW p \in Pid, WakeThread(p)
      PROVE  Ind'
  <2> DEFINE t == handler[p]
  <2>1. /\ t \in Tid /\ phase = "user" /\ state[t] = "BLOCKED"
        /\ \A u \in Tid \ {t} : state'[u] = state[u]
        /\ state'[t] = "READY" /\ state' \in [Tid -> States]
        /\ left' \in [Tid -> Nat]
    BY <1>5 DEF WakeThread, Ind, TypeOK, States
  <2>2. UNCHANGED <<parent, threads, globalProcessList, handler, tidCounter, pidCounter,
                    currentThread, cr3, esp0, phase, scanLeft>>
    BY <1>5 DEF WakeThread, procVars, counterVars, cpuVars
  <2>3. \A u \in Tid : Live(u)' <=> Live(u)
    BY <2>1 DEF Live
  <2>3a. \A u \in Tid : state'[u] = "NEW" <=> state[u] = "NEW"
    BY <2>1
  <2>4. /\ readyQueue' \in Seq(Tid) /\ ToSet(readyQueue') = ToSet(readyQueue) \union {t}
        /\ blockedQueue' \in Seq(Tid) /\ ToSet(blockedQueue) \ {t} \subseteq ToSet(blockedQueue')
    <3>1. /\ readyQueue' = Append(readyQueue, t) /\ readyQueue \in Seq(Tid) /\ t \in Tid
          /\ blockedQueue' = RemoveFirst(blockedQueue, t) /\ blockedQueue \in Seq(Tid)
      BY <1>5, <2>1 DEF WakeThread, Ind, TypeOK
    <3> HIDE DEF t
    <3>2. readyQueue' \in Seq(Tid) /\ ToSet(readyQueue') = ToSet(readyQueue) \union {t}
      BY <3>1, AppendEntries
    <3>3. blockedQueue' \in Seq(Tid) /\ ToSet(blockedQueue) \ {t} \subseteq ToSet(blockedQueue')
      BY <3>1, RemoveEntries
    <3>4. QED
      BY <3>2, <3>3
  <2>5. TypeOK'
    BY <2>1, <2>2, <2>4 DEF Ind, TypeOK
  <2>6. Births' /\ HandlerOwned'
    BY <2>2, <2>3a DEF Ind, TypeOK, Births, HandlerOwned
  <2>6a. Owners' /\ ScanBound'
    BY <2>1, <2>2, <2>3 DEF Ind, Owners, ScanBound
  <2>7. NoLostThread' /\ DirectoryAlive' /\ OwnContext'
    BY <2>1, <2>2, <2>3, <2>4 DEF Ind, NoLostThread, DirectoryAlive, OwnContext
  <2>8. MembershipExact'
    BY <2>2, <2>3 DEF Ind, MembershipExact, Live
  <2>9. QED
    BY <2>5, <2>6, <2>6a, <2>7, <2>8 DEF Ind
<1>6. ASSUME NEW p \in Pid, WakeStale(p)
      PROVE  Ind'
  BY <1>6 DEF WakeStale, tcbVars, procVars, counterVars, queueVars, cpuVars, Ind, TypeOK, Phases,
     Births, Owners, ScanBound, HandlerOwned, NoLostThread, MembershipExact, DirectoryAlive,
     OwnContext, Live
<1>7. CASE ExitThread
  <2>1. /\ UserRuns /\ TerminateThread(currentThread)
        /\ phase' = "scan" /\ scanLeft' = Len(blockedQueue')
        /\ UNCHANGED <<counterVars, esp0, cr3, globalProcessList, handler>>
    BY <1>7 DEF ExitThread, procVars
  <2>2. /\ cr3' \in globalProcessList' /\ KernelPid \in globalProcessList'
        /\ handler' \in [Pid -> Tid \union {NoThread}]
    BY <2>1 DEF Ind, DirectoryAlive, Owners, TypeOK
  <2>3. QED
    BY <2>1, <2>2, TerminateKeepsInd
<1>8. CASE KillProcess
  <2> DEFINE p == parent[currentThread]
  <2>1. /\ UserRuns /\ TerminateThread(currentThread)
        /\ phase' = "scan" /\ scanLeft' = Len(blockedQueue')
        /\ UNCHANGED <<counterVars, esp0>>
        /\ globalProcessList' = globalProcessList \ {p}
        /\ cr3' = IF cr3 = p THEN KernelPid ELSE cr3
        /\ handler' = [handler EXCEPT ![p] = NoThread]
        /\ Cardinality(threads[p]) <= 1
    BY <1>8 DEF KillProcess
  <2>2. p \in Pid /\ p # KernelPid /\ currentThread \in threads[p] /\ threads[p] \in SUBSET Tid
    BY <2>1 DEF UserRuns, Ind, TypeOK, Owners, MembershipExact
  <2>3. threads[p] = {currentThread}
    BY <2>1, <2>2, OnlyMember
  <2>4. /\ cr3' \in globalProcessList' /\ KernelPid \in globalProcessList'
        /\ globalProcessList' \subseteq globalProcessList
    BY <2>1, <2>2 DEF Ind, DirectoryAlive, Owners
  <2>5. /\ handler' \in [Pid -> Tid \union {NoThread}]
        /\ \A q \in Pid : handler'[q] \in {handler[q], NoThread}
    BY <2>1, <2>2 DEF Ind, TypeOK
  <2>6. \A q \in Pid : q \in globalProcessList \ globalProcessList' => threads[q] = {currentThread}
    BY <2>1, <2>3
  <2>7. QED
    BY <2>1, <2>4, <2>5, <2>6, TerminateKeepsInd
<1>9. CASE TimerInterrupt
  <2> DEFINE t == currentThread
  <2>1. /\ phase = "user" /\ phase' = "scan" /\ scanLeft' = Len(blockedQueue')
        /\ UNCHANGED <<parent, threads, globalProcessList, handler, tidCounter, pidCounter,
                       currentThread, cr3, esp0>>
        /\ left' \in [Tid -> Nat]
    BY <1>9 DEF TimerInterrupt, Tick, Ind, TypeOK, procVars, counterVars, cpuVars
  <2>2. /\ \A u \in Tid : state'[u] = state[u] \/ (u = t /\ state[u] = "RUNNING" /\ state'[u] = "READY")
        /\ state' \in [Tid -> States]
    BY <1>9 DEF TimerInterrupt, Tick, Ind, TypeOK, States
  <2>3. /\ readyQueue' \in Seq(Tid)
        /\ ToSet(readyQueue') = IF t \in Tid /\ state[t] = "RUNNING"
                                THEN ToSet(readyQueue) \union {t} ELSE ToSet(readyQueue)
    <3>1. readyQueue \in Seq(Tid)
      BY DEF Ind, TypeOK
    <3>2. CASE t \in Tid /\ state[t] = "RUNNING"
      <4>1. readyQueue' = Append(readyQueue, t)
        BY <1>9, <3>2 DEF TimerInterrupt
      <4> HIDE DEF t
      <4>2. QED
        BY <3>1, <3>2, <4>1, AppendEntries
    <3>3. CASE ~(t \in Tid /\ state[t] = "RUNNING")
      BY <1>9, <3>1, <3>3 DEF TimerInterrupt
    <3>4. QED
      BY <3>2, <3>3
  <2>4. /\ blockedQueue' \in Seq(Tid)
        /\ ToSet(blockedQueue') = IF t \in Tid /\ state[t] = "BLOCKED"
                                  THEN ToSet(blockedQueue) \union {t} ELSE ToSet(blockedQueue)
    <3>1. blockedQueue \in Seq(Tid)
      BY DEF Ind, TypeOK
    <3>2. CASE t \in Tid /\ state[t] = "BLOCKED"
      BY <1>9, <3>1, <3>2, AppendEntries DEF TimerInterrupt
    <3>3. CASE ~(t \in Tid /\ state[t] = "BLOCKED")
      BY <1>9, <3>1, <3>3 DEF TimerInterrupt
    <3>4. QED
      BY <3>2, <3>3
  <2>5. Len(blockedQueue') \in Nat
    BY <2>4
  <2>6. TypeOK'
    BY <2>1, <2>2, <2>3, <2>4, <2>5 DEF Ind, TypeOK, Phases
  <2>7. \A u \in Tid : Live(u)' <=> Live(u)
    BY <2>2 DEF Live
  <2>8. Births'
    BY <2>1, <2>2 DEF Ind, Births
  <2>9. Owners' /\ ScanBound' /\ DirectoryAlive' /\ OwnContext'
    BY <2>1, <2>5, <2>7 DEF Ind, Owners, ScanBound, DirectoryAlive, OwnContext
  <2>10. HandlerOwned'
    BY <2>1, <2>2 DEF Ind, TypeOK, HandlerOwned
  <2>11. NoLostThread'
    <3>1. ASSUME NEW u \in Tid
          PROVE  /\ state'[u] = "READY" => u \in ToSet(readyQueue')
                 /\ state'[u] = "BLOCKED" => u \in ToSet(blockedQueue')
                 /\ state'[u] # "RUNNING"
      <4>1. state[u] = "RUNNING" => u = t /\ state'[u] = "READY"
        BY <1>9, <2>1 DEF Ind, NoLostThread, TimerInterrupt, TypeOK
      <4>2. QED
        BY <2>1, <2>2, <2>3, <2>4, <4>1 DEF Ind, NoLostThread
    <3>2. QED
      BY <3>1 DEF NoLostThread
  <2>12. MembershipExact'
    BY <2>1, <2>7 DEF Ind, MembershipExact, Live
  <2>13. QED
    BY <2>6, <2>8, <2>9, <2>10, <2>11, <2>12 DEF Ind
<1>10. CASE ScanBlocked
  <2> DEFINE t == Head(blockedQueue)
             due == state[t] = "BLOCKED" /\ left[t] = 0
  <2>1. /\ phase = "scan" /\ scanLeft' = scanLeft - 1 /\ scanLeft' \in Nat
        /\ Live(t) /\ blockedQueue # <<>>
        /\ UNCHANGED <<parent, left, threads, globalProcessList, handler, tidCounter, pidCounter,
                       currentThread, cr3, esp0, phase>>
    BY <1>10 DEF ScanBlocked, Due, Ind, TypeOK, ScanBound, procVars, counterVars, cpuVars
  <2>2. /\ t \in Tid /\ Tail(blockedQueue) \in Seq(Tid) /\ Len(Tail(blockedQueue)) = Len(blockedQueue) - 1
        /\ ToSet(blockedQueue) = {t} \union ToSet(Tail(blockedQueue))
    BY <2>1, PopEntries DEF Ind, TypeOK
  <2>3. /\ state' \in [Tid -> States]
        /\ \A u \in Tid \ {t} : state'[u] = state[u]
        /\ state'[t] = IF due THEN "READY" ELSE state[t]
    BY <1>10, <2>2 DEF ScanBlocked, Due, Ind, TypeOK, States
  <2>4. /\ readyQueue' \in Seq(Tid)
        /\ ToSet(readyQueue) \subseteq ToSet(readyQueue')
        /\ due => t \in ToSet(readyQueue')
    <3>1. CASE due
      BY <1>10, <2>2, <3>1, AppendEntries DEF ScanBlocked, Due, Ind, TypeOK
    <3>2. CASE ~due
      BY <1>10, <3>2 DEF ScanBlocked, Due, Ind, TypeOK
    <3>3. QED
      BY <3>1, <3>2
  <2>5. /\ blockedQueue' \in Seq(Tid) /\ scanLeft' <= Len(blockedQueue')
        /\ ToSet(blockedQueue) \ {t} \subseteq ToSet(blockedQueue')
        /\ ~due => t \in ToSet(blockedQueue')
    <3>1. scanLeft <= Len(blockedQueue) /\ scanLeft \in Nat /\ Len(blockedQueue) \in Nat
      BY <2>1 DEF Ind, ScanBound, TypeOK
    <3>2. CASE due
      <4>1. blockedQueue' = Tail(blockedQueue)
        BY <1>10, <3>2 DEF ScanBlocked, Due
      <4>2. QED
        BY <2>1, <2>2, <3>1, <3>2, <4>1
    <3>3. CASE ~due
      <4>1. blockedQueue' = Append(Tail(blockedQueue), t)
        BY <1>10, <3>3 DEF ScanBlocked, Due
      <4>2. Len(blockedQueue') = Len(blockedQueue)
        BY <2>2, <3>1, <4>1
      <4>3. blockedQueue' \in Seq(Tid) /\ ToSet(blockedQueue') = ToSet(Tail(blockedQueue)) \union {t}
        <5> DEFINE rest == Tail(blockedQueue)
        <5>1. t \in Tid /\ rest \in Seq(Tid) /\ blockedQueue' = Append(rest, t)
          BY <2>2, <4>1
        <5> HIDE DEF t, rest
        <5>2. blockedQueue' \in Seq(Tid) /\ ToSet(blockedQueue') = ToSet(rest) \union {t}
          BY <5>1, AppendEntries
        <5>3. QED
          BY <5>2 DEF rest
      <4>4. QED
        BY <2>1, <2>2, <3>1, <4>2, <4>3
    <3>4. QED
      BY <3>2, <3>3
  <2>6. TypeOK'
    BY <2>1, <2>3, <2>4, <2>5 DEF Ind, TypeOK
  <2>7. \A u \in Tid : Live(u)' <=> Live(u)
    BY <2>3 DEF Live
  <2>8. Births' /\ HandlerOwned'
    <3>1. \A u \in Tid : state'[u] = "NEW" <=> state[u] = "NEW"
      BY <2>3
    <3>2. QED
      BY <2>1, <3>1 DEF Ind, TypeOK, Births, HandlerOwned
  <2>9. Owners' /\ ScanBound' /\ DirectoryAlive' /\ OwnContext'
    BY <2>1, <2>5, <2>7 DEF Ind, Owners, ScanBound, DirectoryAlive, OwnContext
  <2>10. NoLostThread'
    BY <2>1, <2>3, <2>4, <2>5 DEF Ind, NoLostThread
  <2>11. MembershipExact'
    BY <2>1, <2>7 DEF Ind, MembershipExact, Live
  <2>12. QED
    BY <2>6, <2>8, <2>9, <2>10, <2>11 DEF Ind
<1>11. CASE DispatchIdle
  <2>1. /\ phase = "scan" /\ phase' = "user" /\ currentThread' = Idle /\ cr3' = KernelPid
        /\ UNCHANGED <<state, parent, left, threads, globalProcessList, handler, tidCounter,
                       pidCounter, readyQueue, blockedQueue, esp0, scanLeft>>
    BY <1>11 DEF DispatchIdle, tcbVars, procVars, counterVars, queueVars
  <2>2. TypeOK'
    BY <2>1 DEF Ind, TypeOK, Phases
  <2>3. Births' /\ HandlerOwned' /\ Owners' /\ ScanBound' /\ DirectoryAlive' /\ OwnContext'
    BY <2>1 DEF Ind, Births, HandlerOwned, Owners, ScanBound, DirectoryAlive, OwnContext
  <2>4. NoLostThread'
    BY <2>1 DEF Ind, NoLostThread
  <2>5. MembershipExact'
    BY <2>1 DEF Ind, MembershipExact, Live
  <2>6. QED
    BY <2>2, <2>3, <2>4, <2>5 DEF Ind
<1>12. CASE Dispatch
  <2> DEFINE t == Head(readyQueue)
  <2>1. /\ phase = "scan" /\ phase' = "user" /\ readyQueue # <<>> /\ Live(t)
        /\ currentThread' = t /\ cr3' = parent[t] /\ esp0' = t
        /\ readyQueue' = Tail(readyQueue)
        /\ state' = [state EXCEPT ![t] = "RUNNING"]
        /\ UNCHANGED <<parent, left, threads, globalProcessList, handler, tidCounter,
                       pidCounter, blockedQueue, scanLeft>>
    BY <1>12 DEF Dispatch, procVars, counterVars
  <2>2. /\ t \in Tid /\ Tail(readyQueue) \in Seq(Tid)
        /\ ToSet(readyQueue) = {t} \union ToSet(Tail(readyQueue))
    BY <2>1, PopEntries DEF Ind, TypeOK
  <2>3. /\ state' \in [Tid -> States] /\ state'[t] = "RUNNING"
        /\ \A u \in Tid \ {t} : state'[u] = state[u]
    BY <2>1, <2>2 DEF Ind, TypeOK, States
  <2>4. \A u \in Tid : Live(u)' <=> Live(u)
    BY <2>1, <2>3 DEF Live
  <2>5. parent[t] \in Pid /\ parent[t] \in globalProcessList
    BY <2>1, <2>2 DEF Ind, TypeOK, MembershipExact
  <2>6. TypeOK'
    BY <2>1, <2>2, <2>3, <2>5 DEF Ind, TypeOK, Phases
  <2>7. Births' /\ HandlerOwned'
    BY <2>1, <2>2, <2>3 DEF Ind, TypeOK, Births, HandlerOwned, Live
  <2>8. Owners' /\ ScanBound' /\ DirectoryAlive' /\ OwnContext'
    BY <2>1, <2>2, <2>3, <2>4, <2>5 DEF Ind, Owners, ScanBound, DirectoryAlive, OwnContext, Live
  <2>9. NoLostThread'
    BY <2>1, <2>2, <2>3 DEF Ind, NoLostThread
  <2>10. MembershipExact'
    BY <2>1, <2>4 DEF Ind, MembershipExact, Live
  <2>11. QED
    BY <2>6, <2>7, <2>8, <2>9, <2>10 DEF Ind
<1>13. CASE ScheduleStale
  <2>1. /\ phase = "scan" /\ phase' = "stale_schedule"
        /\ UNCHANGED <<tcbVars, procVars, counterVars, queueVars, cpuVars, scanLeft>>
    BY <1>13 DEF ScheduleStale
  <2>2. QED
    BY <2>1 DEF tcbVars, procVars, counterVars, queueVars, cpuVars, Ind, TypeOK, Phases,
       Births, Owners, ScanBound, HandlerOwned, NoLostThread, MembershipExact, DirectoryAlive,
       OwnContext, Live
<1>14. CASE UNCHANGED vars
  BY <1>14 DEF vars, tcbVars, procVars, counterVars, queueVars, cpuVars, Ind, TypeOK, Phases,
     Births, Owners, ScanBound, HandlerOwned, NoLostThread, MembershipExact, DirectoryAlive,
     OwnContext, Live
<1>15. QED
  BY <1>1, <1>2, <1>3, <1>4, <1>5, <1>6, <1>7, <1>8, <1>9, <1>10, <1>11, <1>12, <1>13, <1>14
     DEF Next, Schedule, Undefined
----------------------------------------------------------------------------
LEMMA IndAlways == Spec => []Ind
BY IndInit, IndStep, PTL DEF Spec

(* Every variable keeps its type, whatever the scheduler's callers do.     *)
THEOREM TypeCorrect == Spec => []TypeOK
BY IndAlways, PTL DEF Ind

(* No order of sleeps, events, ticks and exits loses a thread: a READY     *)
(* thread is on readyQueue and a BLOCKED one on blockedQueue or still on   *)
(* the CPU it went to sleep on. The stale queue entries that a wake-up     *)
(* during a Sleep() leaves behind do not break this.                       *)
THEOREM NoThreadIsLost == Spec => []NoLostThread
BY IndAlways, PTL DEF Ind

(* The thread list of a process is exactly its threads that have not       *)
(* exited, and none of them outlives the process.                          *)
THEOREM MembershipAlwaysExact == Spec => []MembershipExact
BY IndAlways, PTL DEF Ind

(* CR3 never holds the page directory of a process that has been freed.    *)
THEOREM DirectoryAlwaysAlive == Spec => []DirectoryAlive
BY IndAlways, PTL DEF Ind

(* Whatever thread executes has its own address space and kernel stack.    *)
THEOREM ContextIsOwn == Spec => []OwnContext
BY IndAlways, PTL DEF Ind
----------------------------------------------------------------------------
(* The refinement of ThreadLife. The abstract variables are functions of   *)
(* the concrete ones, so the invariant above is all a step needs.          *)

Exited == {t \in Tid : state[t] = "FREED"}
Ended == (0 .. pidCounter - 1) \ globalProcessList

(* The identity CreateThread takes has not been used before. *)
LEMMA FreshThread ==
  ASSUME Ind, NEW p \in Pid, NEW hasMemory \in BOOLEAN, CreateThread(p, hasMemory)
  PROVE  /\ tidCounter \in Tid /\ tidCounter \in Life!Unborn
         /\ hasMemory => /\ threads' = [threads EXCEPT ![p] = @ \union {tidCounter}]
                         /\ Exited' = Exited
         /\ ~hasMemory => /\ threads' = threads
                          /\ Exited' = Exited \union {tidCounter}
<1>1. /\ tidCounter \in Tid /\ state[tidCounter] = "NEW"
      /\ state' = [state EXCEPT ![tidCounter] = IF hasMemory THEN "READY" ELSE "FREED"]
  BY BoundsAssumption DEF CreateThread, Ind, TypeOK, Births
<1>2. \A q \in Pid : tidCounter \notin threads[q]
  BY <1>1 DEF Ind, MembershipExact, Live
<1>3. tidCounter \in Life!Unborn
  BY <1>1, <1>2 DEF Life!Unborn
<1>4. CASE hasMemory
  BY <1>1, <1>3, <1>4 DEF CreateThread, Exited, Ind, TypeOK
<1>5. CASE ~hasMemory
  BY <1>1, <1>3, <1>5 DEF CreateThread, Exited, Ind, TypeOK
<1>6. QED
  BY <1>4, <1>5

(* TerminateThread of the running thread takes it from its process's list. *)
LEMMA ExitMaps ==
  ASSUME Ind, UserRuns, TerminateThread(currentThread)
  PROVE  LET p == parent[currentThread] IN
           /\ p \in Pid /\ p \in globalProcessList
           /\ currentThread \in threads[p]
           /\ threads' = [threads EXCEPT ![p] = @ \ {currentThread}]
           /\ Exited' = Exited \union {currentThread}
           /\ currentThread' = NoThread
<1>1. currentThread \in Tid /\ Live(currentThread) /\ parent[currentThread] \in Pid
  BY DEF Ind, UserRuns, Owners, TypeOK
<1>2. currentThread \in threads[parent[currentThread]] /\ parent[currentThread] \in globalProcessList
  BY <1>1 DEF Ind, MembershipExact
<1>3. \A u \in Tid : state'[u] = IF u = currentThread THEN "FREED" ELSE state[u]
  BY <1>1 DEF TerminateThread, Ind, TypeOK
<1>4. Exited' = Exited \union {currentThread}
  BY <1>1, <1>3 DEF Exited
<1>5. QED
  BY <1>1, <1>2, <1>4 DEF TerminateThread

LEMMA LifeStart == Init => Life!LifeInit
<1>1. ASSUME Init PROVE Life!LifeInit
  BY <1>1, BoundsAssumption DEF Init, Life!LifeInit
<1>2. QED
  BY <1>1

LEMMA LifeStep == Ind /\ [Next]_vars => [Life!LifeNext]_(Life!lifeVars)
<1> SUFFICES ASSUME Ind, [Next]_vars PROVE [Life!LifeNext]_(Life!lifeVars)
  OBVIOUS
<1> USE BoundsAssumption
<1>1. CASE LaunchProgram
  <2>1. PICK hasMemory \in BOOLEAN : CreateThread(pidCounter, hasMemory)
    BY <1>1 DEF LaunchProgram
  <2>1a. PICK p \in Pid : p = pidCounter
    BY <1>1 DEF LaunchProgram, Ind, TypeOK
  <2>1b. PICK t \in Tid : t = tidCounter
    BY <1>1, <2>1, <2>1a, FreshThread
  <2>2. /\ pidCounter \in Pid /\ pidCounter' = pidCounter + 1 /\ currentThread' = currentThread
        /\ globalProcessList' = globalProcessList \union {pidCounter}
    BY <1>1 DEF LaunchProgram, Ind, TypeOK, cpuVars
  <2>3. pidCounter \notin globalProcessList /\ threads[pidCounter] = {}
    BY <2>2 DEF Ind, Births, TypeOK, MembershipExact
  <2>4. pidCounter \in Life!Unused
    BY <2>2, <2>3 DEF Life!Unused
  <2>5. Ended' = Ended
    BY <2>2, <2>3 DEF Ended, Ind, TypeOK
  <2>6. /\ t \in Life!Unborn
        /\ \/ threads' = [threads EXCEPT ![p] = {t}] /\ Exited' = Exited
           \/ threads' = threads /\ Exited' = Exited \union {t}
    BY <2>1, <2>1a, <2>1b, <2>3, FreshThread
  <2>7. Life!StartProcess(p, t)
    BY <2>1a, <2>2, <2>4, <2>5, <2>6 DEF Life!StartProcess, Exited, Ended
  <2>8. QED
    BY <2>7 DEF Life!LifeNext
<1>2. ASSUME UserRuns, NEW hasMemory \in BOOLEAN, CreateThread(parent[currentThread], hasMemory),
             UNCHANGED <<globalProcessList, pidCounter, currentThread>>
      PROVE  Life!LifeNext
  <2>1. PICK p \in Pid : p = parent[currentThread]
    BY <1>2 DEF UserRuns, Ind, TypeOK
  <2>2. p \in globalProcessList /\ currentThread \in threads[p]
    BY <1>2, <2>1 DEF UserRuns, Ind, TypeOK, Owners, MembershipExact
  <2>3. PICK t \in Tid : t = tidCounter
    BY <1>2, <2>1, FreshThread
  <2>4. Life!StartThread(p, t)
    BY <1>2, <2>1, <2>2, <2>3, FreshThread DEF Life!StartThread, Exited
  <2>5. QED
    BY <2>4 DEF Life!LifeNext
<1>3. CASE Clone
  BY <1>2, <1>3 DEF Clone, procVars, cpuVars
<1>4. CASE RegisterHandler
  BY <1>2, <1>4 DEF RegisterHandler, cpuVars
<1>5. CASE ExitThread
  <2>0. PICK p \in Pid : p = parent[currentThread]
    BY <1>5 DEF ExitThread, UserRuns, Ind, TypeOK
  <2>1. /\ UserRuns /\ TerminateThread(currentThread) /\ ~(Cardinality(threads[p]) <= 1)
        /\ UNCHANGED <<globalProcessList, pidCounter>>
    BY <1>5, <2>0 DEF ExitThread, procVars, counterVars
  <2>2. threads[p] # {currentThread}
    <3>1. Cardinality({currentThread}) = 1
      BY FS_Singleton
    <3>2. QED
      BY <2>1, <3>1
  <2>3. Life!Exit(p)
    BY <2>0, <2>1, <2>2, ExitMaps DEF Life!Exit, Exited
  <2>4. QED
    BY <2>3 DEF Life!LifeNext
<1>6. CASE KillProcess
  <2>0. PICK p \in Pid : p = parent[currentThread]
    BY <1>6 DEF KillProcess, UserRuns, Ind, TypeOK
  <2>1. /\ UserRuns /\ TerminateThread(currentThread) /\ Cardinality(threads[p]) <= 1
        /\ globalProcessList' = globalProcessList \ {p}
        /\ pidCounter' = pidCounter
    BY <1>6, <2>0 DEF KillProcess, counterVars
  <2>2. /\ p \in globalProcessList /\ currentThread \in threads[p]
        /\ threads[p] \in SUBSET Tid
    BY <2>0, <2>1, ExitMaps DEF Ind, TypeOK
  <2>3. threads[p] = {currentThread}
    BY <2>1, <2>2, OnlyMember
  <2>4. p \in 0 .. pidCounter - 1
    BY <2>2 DEF Ind, Births, TypeOK
  <2>5. Ended' = Ended \union {p}
    BY <2>1, <2>2, <2>4 DEF Ended
  <2>6. Life!Exit(p)
    BY <2>0, <2>1, <2>2, <2>3, <2>5, ExitMaps DEF Life!Exit, Exited, Ended
  <2>7. QED
    BY <2>6 DEF Life!LifeNext
<1>7. CASE DispatchIdle
  <2>1. Life!SwitchTo(Idle)
    BY <1>7 DEF DispatchIdle, Life!SwitchTo, tcbVars, procVars, counterVars
  <2>2. QED
    BY <2>1 DEF Life!LifeNext
<1>8. CASE Dispatch
  <2> DEFINE t == Head(readyQueue)
  <2>1. t \in Tid
    BY <1>8, PopEntries DEF Dispatch, Ind, TypeOK
  <2>2. parent[t] \in globalProcessList /\ t \in threads[parent[t]]
    BY <1>8, <2>1 DEF Dispatch, Ind, TypeOK, MembershipExact
  <2>3. /\ currentThread' = t
        /\ UNCHANGED <<globalProcessList, pidCounter, threads>>
        /\ \A u \in Tid : state'[u] = "FREED" <=> state[u] = "FREED"
    BY <1>8, <2>1 DEF Dispatch, procVars, counterVars, Live, Ind, TypeOK
  <2>4. Exited' = Exited
    BY <2>3 DEF Exited
  <2>5. Life!SwitchTo(t)
    BY <2>2, <2>3, <2>4 DEF Life!SwitchTo, Exited
  <2>6. QED
    BY <2>1, <2>5 DEF Life!LifeNext
<1>9. ASSUME UNCHANGED <<globalProcessList, pidCounter, threads, currentThread>>,
             \A u \in Tid : state'[u] = "FREED" <=> state[u] = "FREED"
      PROVE  UNCHANGED Life!lifeVars
  <2>1. Exited' = Exited
    BY <1>9 DEF Exited
  <2>2. QED
    BY <1>9, <2>1 DEF Life!lifeVars, Exited
<1>10. ASSUME NEW ms \in SleepTimes, Sleep(ms)
       PROVE  UNCHANGED Life!lifeVars
  BY <1>9, <1>10 DEF Sleep, procVars, counterVars, cpuVars, Ind, TypeOK, Owners, Live
<1>11. ASSUME NEW p \in Pid, WakeThread(p) \/ WakeStale(p)
       PROVE  UNCHANGED Life!lifeVars
  BY <1>9, <1>11 DEF WakeThread, WakeStale, tcbVars, procVars, counterVars, cpuVars, Ind, TypeOK
<1>12. CASE TimerInterrupt
  BY <1>9, <1>12 DEF TimerInterrupt, procVars, counterVars, cpuVars, Ind, TypeOK
<1>13. CASE ScanBlocked
  BY <1>9, <1>13 DEF ScanBlocked, Due, procVars, counterVars, cpuVars, Ind, TypeOK
<1>14. CASE ScheduleStale \/ UNCHANGED vars
  BY <1>9, <1>14 DEF ScheduleStale, vars, tcbVars, procVars, counterVars, cpuVars
<1>15. QED
  BY <1>1, <1>3, <1>4, <1>5, <1>6, <1>7, <1>8, <1>10, <1>11, <1>12, <1>13, <1>14
     DEF Next, Schedule, Undefined

(* The scheduler implements ThreadLife, for every number of threads and    *)
(* processes: threads are born into one process, leave only by exiting     *)
(* while they run, and a process ends with its last thread.                *)
THEOREM SchedulerImplementsThreadLife == Spec => ImplementsThreadLife
BY LifeStart, LifeStep, IndAlways, PTL DEF Spec, ImplementsThreadLife, Life!LifeSpec

-----------------------------------------------------------------------------
(* What holds of the scheduler when no event arrives for a handler that is *)
(* still on the CPU after its Sleep() (WakeRunning = FALSE): its queues    *)
(* are what scheduler.h says, Schedule() never meets a deleted TCB, and    *)
(* sleeping keeps its promise in both directions.                          *)

HIDE DEF Tid, Pid, NoThread, Idle, DesktopTid, KernelPid, LastThread, LeaveDirectory

(* Only due entries are left of the scan: what has been passed over, and   *)
(* outside Schedule() everything on blockedQueue, has time to wait.        *)
ScanDone ==
  /\ phase = "user" => \A t \in ToSet(blockedQueue) : left[t] > 0
  /\ phase = "scan" => \A i \in scanLeft + 1 .. Len(blockedQueue) : left[blockedQueue[i]] > 0

Quiet == Ind /\ QueueDiscipline /\ ScanDone /\ NoStaleSchedule

LEMMA QuietInit == Init => Quiet
<1> SUFFICES ASSUME Init PROVE Quiet
  OBVIOUS
<1>1. readyQueue = <<1>> /\ blockedQueue = <<>> /\ state[1] = "READY" /\ currentThread = -1
      /\ phase = "user"
  BY BoundsAssumption DEF Init, Tid, DesktopTid, NoThread
<1>2. ToSet(readyQueue) = {1} /\ ToSet(blockedQueue) = {}
  BY <1>1 DEF ToSet
<1>3. IsInjective(readyQueue) /\ IsInjective(blockedQueue)
  BY <1>1 DEF IsInjective
<1>4. QED
  BY <1>1, <1>2, <1>3, IndInit DEF Quiet, QueueDiscipline, ScanDone, NoStaleSchedule

(* In user mode the running thread is RUNNING, or BLOCKED by its own       *)
(* Sleep(), and every other sleeper is on blockedQueue.                    *)
LEMMA RunningState ==
  ASSUME Quiet, phase = "user", currentThread \in Tid
  PROVE  /\ state[currentThread] \in {"RUNNING", "BLOCKED"}
         /\ currentThread \notin ToSet(readyQueue) \union ToSet(blockedQueue)
BY DEF Quiet, Ind, Owners, Live, NoLostThread, QueueDiscipline

(* A new TCB is on no queue yet. *)
LEMMA CreateThreadKeepsQuiet ==
  ASSUME Quiet, Ind', NEW p \in Pid, NEW hasMemory \in BOOLEAN,
         CreateThread(p, hasMemory), phase = "user",
         UNCHANGED <<left, blockedQueue, cpuVars, phase, scanLeft>>
  PROVE  Quiet'
<1>1. PICK t \in Tid : t = tidCounter
  BY FreshThread DEF Quiet
<1>2. /\ state[t] = "NEW" /\ state' = [state EXCEPT ![t] = IF hasMemory THEN "READY" ELSE "FREED"]
      /\ readyQueue' = IF hasMemory THEN Append(readyQueue, t) ELSE readyQueue
      /\ UNCHANGED <<left, blockedQueue, currentThread, phase, scanLeft>>
  BY <1>1 DEF CreateThread, Quiet, Ind, TypeOK, Births, cpuVars
<1>3. t \notin ToSet(readyQueue) /\ t \notin ToSet(blockedQueue)
  BY <1>2 DEF Quiet, QueueDiscipline
<1>4. /\ \A u \in Tid \ {t} : state'[u] = state[u]
      /\ hasMemory => state'[t] = "READY"
  BY <1>2 DEF Quiet, Ind, TypeOK
<1>5. readyQueue \in Seq(Tid) /\ ToSet(readyQueue) \subseteq Tid /\ ToSet(blockedQueue) \subseteq Tid
  BY DEF Quiet, Ind, TypeOK, ToSet
<1>6. /\ IsInjective(readyQueue')
      /\ hasMemory => ToSet(readyQueue') = ToSet(readyQueue) \union {t}
      /\ ~hasMemory => ToSet(readyQueue') = ToSet(readyQueue)
  BY <1>2, <1>3, <1>5, AppendInjective2, AppendEntries DEF Quiet, QueueDiscipline
<1>7. currentThread # t
  BY <1>2 DEF Quiet, Ind, Owners, Live
<1>8. QueueDiscipline'
  BY <1>2, <1>3, <1>4, <1>5, <1>6, <1>7 DEF Quiet, QueueDiscipline
<1>9. ScanDone' /\ NoStaleSchedule'
  BY <1>2 DEF Quiet, ScanDone, NoStaleSchedule
<1>10. QED
  BY <1>8, <1>9 DEF Quiet

(* A running thread is on no queue, so TerminateThread changes none.       *)
LEMMA TerminateKeepsQuiet ==
  ASSUME Quiet, Ind', UserRuns, TerminateThread(currentThread),
         phase' = "scan", scanLeft' = Len(blockedQueue')
  PROVE  Quiet'
<1>1. PICK t \in Tid : t = currentThread
  BY DEF UserRuns
<1>2. /\ t \notin ToSet(readyQueue) /\ t \notin ToSet(blockedQueue)
      /\ readyQueue' = RemoveFirst(readyQueue, t) /\ blockedQueue' = RemoveFirst(blockedQueue, t)
      /\ \A u \in Tid \ {t} : state'[u] = state[u]
  BY <1>1, RunningState DEF UserRuns, TerminateThread, Quiet, Ind, TypeOK
<1>3. /\ readyQueue \in Seq(Tid) /\ blockedQueue \in Seq(Tid)
      /\ ToSet(readyQueue) \subseteq Tid /\ ToSet(blockedQueue) \subseteq Tid
      /\ IsInjective(readyQueue) /\ IsInjective(blockedQueue)
  BY DEF Quiet, Ind, TypeOK, QueueDiscipline, ToSet
<1>4. /\ IsInjective(readyQueue') /\ ToSet(readyQueue') = ToSet(readyQueue)
      /\ IsInjective(blockedQueue') /\ ToSet(blockedQueue') = ToSet(blockedQueue)
  <2>1. IsInjective(readyQueue') /\ ToSet(readyQueue') = ToSet(readyQueue) \ {t}
    BY <1>2, <1>3, RemoveInjective
  <2>2. IsInjective(blockedQueue') /\ ToSet(blockedQueue') = ToSet(blockedQueue) \ {t}
    BY <1>2, <1>3, RemoveInjective
  <2>3. QED
    BY <1>2, <2>1, <2>2
<1>5. QueueDiscipline'
  BY <1>2, <1>3, <1>4 DEF Quiet, QueueDiscipline
<1>6. ScanDone' /\ NoStaleSchedule'
  <2>1. Len(blockedQueue') \in Nat
    BY DEF Ind, TypeOK
  <2>2. scanLeft' + 1 .. Len(blockedQueue') = {}
    BY <2>1
  <2>3. QED
    BY <2>2 DEF ScanDone, NoStaleSchedule
<1>7. QED
  BY <1>5, <1>6 DEF Quiet

LEMMA QuietStep == ~WakeRunning /\ Quiet /\ [Next]_vars => Quiet'
<1> SUFFICES ASSUME ~WakeRunning, Quiet, [Next]_vars PROVE Quiet'
  OBVIOUS
<1>0. Ind'
  BY IndStep DEF Quiet
<1>0a. /\ readyQueue \in Seq(Tid) /\ blockedQueue \in Seq(Tid)
       /\ ToSet(readyQueue) \subseteq Tid /\ ToSet(blockedQueue) \subseteq Tid
       /\ IsInjective(readyQueue) /\ IsInjective(blockedQueue)
       /\ state \in [Tid -> States] /\ left \in [Tid -> Nat]
  BY DEF Quiet, Ind, TypeOK, QueueDiscipline, ToSet
<1>1. CASE LaunchProgram
  <2>1. PICK hasMemory \in BOOLEAN : CreateThread(pidCounter, hasMemory)
    BY <1>1 DEF LaunchProgram
  <2>2. pidCounter \in Pid /\ phase = "user" /\ UNCHANGED <<left, blockedQueue, cpuVars, phase, scanLeft>>
    BY <1>1, BoundsAssumption DEF LaunchProgram, Quiet, Ind, TypeOK, Pid
  <2>3. QED
    BY <1>0, <2>1, <2>2, CreateThreadKeepsQuiet
<1>2. CASE Clone \/ RegisterHandler
  <2>1. PICK hasMemory \in BOOLEAN : CreateThread(parent[currentThread], hasMemory)
    BY <1>2 DEF Clone, RegisterHandler
  <2>2. /\ parent[currentThread] \in Pid /\ phase = "user"
        /\ UNCHANGED <<left, blockedQueue, cpuVars, phase, scanLeft>>
    BY <1>2 DEF Clone, RegisterHandler, UserRuns, Quiet, Ind, TypeOK
  <2>3. QED
    BY <1>0, <2>1, <2>2, CreateThreadKeepsQuiet
<1>3. ASSUME NEW ms \in SleepTimes, Sleep(ms)
      PROVE  Quiet'
  <2>1. PICK t \in Tid : t = currentThread
    BY <1>3 DEF Sleep
  <2>2. /\ t \notin ToSet(readyQueue) /\ t \notin ToSet(blockedQueue) /\ phase = "user"
        /\ \A u \in Tid \ {t} : state'[u] = state[u] /\ left'[u] = left[u]
        /\ UNCHANGED <<readyQueue, blockedQueue, currentThread, phase, scanLeft>>
    BY <1>0a, <1>3, <2>1, RunningState DEF Sleep, queueVars, cpuVars
  <2>3. QueueDiscipline'
    BY <1>0a, <2>2 DEF Quiet, QueueDiscipline
  <2>4. ScanDone' /\ NoStaleSchedule'
    BY <1>0a, <2>2 DEF Quiet, ScanDone, NoStaleSchedule
  <2>5. QED
    BY <1>0, <2>3, <2>4 DEF Quiet
<1>4. ASSUME NEW p \in Pid, WakeThread(p)
      PROVE  Quiet'
  <2>1. PICK t \in Tid : t = handler[p]
    BY <1>4 DEF WakeThread, Quiet, Ind, TypeOK
  <2>2. /\ phase = "user" /\ t # currentThread /\ state[t] = "BLOCKED" /\ state'[t] = "READY"
        /\ \A u \in Tid \ {t} : state'[u] = state[u] /\ left'[u] = left[u]
        /\ readyQueue' = Append(readyQueue, t) /\ blockedQueue' = RemoveFirst(blockedQueue, t)
        /\ UNCHANGED <<currentThread, phase, scanLeft>>
    BY <1>0a, <1>4, <2>1 DEF WakeThread, cpuVars
  <2>3. t \notin ToSet(readyQueue)
    BY <2>2 DEF Quiet, QueueDiscipline
  <2>4. /\ IsInjective(readyQueue') /\ ToSet(readyQueue') = ToSet(readyQueue) \union {t}
        /\ IsInjective(blockedQueue') /\ ToSet(blockedQueue') = ToSet(blockedQueue) \ {t}
    BY <1>0a, <2>2, <2>3, AppendInjective2, AppendEntries, RemoveInjective
  <2>5. QueueDiscipline'
    BY <1>0a, <2>2, <2>4 DEF Quiet, QueueDiscipline
  <2>6. ScanDone' /\ NoStaleSchedule'
    BY <1>0a, <2>2, <2>4 DEF Quiet, ScanDone, NoStaleSchedule
  <2>7. QED
    BY <1>0, <2>5, <2>6 DEF Quiet
<1>5. ASSUME NEW p \in Pid, WakeStale(p)
      PROVE  Quiet'
  BY <1>0, <1>5 DEF WakeStale, tcbVars, queueVars, cpuVars, Quiet, QueueDiscipline, ScanDone, NoStaleSchedule
<1>6. CASE ExitThread \/ KillProcess
  BY <1>0, <1>6, TerminateKeepsQuiet DEF ExitThread, KillProcess
<1>7. CASE TimerInterrupt
  <2> DEFINE t == currentThread
  <2>1. /\ phase = "user" /\ phase' = "scan" /\ scanLeft' = Len(blockedQueue')
        /\ currentThread' = t
        /\ scanLeft' \in Nat
    BY <1>0, <1>7 DEF TimerInterrupt, cpuVars, Ind, TypeOK
  <2>2. scanLeft' + 1 .. Len(blockedQueue') = {}
    BY <2>1
  <2>3. ScanDone' /\ NoStaleSchedule'
    BY <2>1, <2>2 DEF ScanDone, NoStaleSchedule
  <2>4. QueueDiscipline'
    <3>1. CASE t \in Tid /\ state[t] = "RUNNING"
      <4>1. PICK u \in Tid : u = t
        BY <3>1
      <4>2. /\ u \notin ToSet(readyQueue) /\ u \notin ToSet(blockedQueue)
            /\ readyQueue' = Append(readyQueue, u) /\ blockedQueue' = blockedQueue
            /\ \A v \in Tid \ {u} : state'[v] = state[v]
            /\ state'[u] = "READY"
        BY <1>0a, <1>7, <2>1, <3>1, <4>1, RunningState DEF TimerInterrupt
      <4>3. IsInjective(readyQueue') /\ ToSet(readyQueue') = ToSet(readyQueue) \union {u}
        BY <1>0a, <4>2, AppendInjective2, AppendEntries
      <4>4. QED
        BY <1>0a, <2>1, <4>2, <4>3 DEF Quiet, QueueDiscipline
    <3>2. CASE t \in Tid /\ state[t] = "BLOCKED"
      <4>1. PICK u \in Tid : u = t
        BY <3>2
      <4>2. /\ u \notin ToSet(readyQueue) /\ u \notin ToSet(blockedQueue)
            /\ readyQueue' = readyQueue /\ blockedQueue' = Append(blockedQueue, u)
            /\ state' = state /\ state[u] = "BLOCKED"
        BY <1>7, <2>1, <3>2, <4>1, RunningState DEF TimerInterrupt
      <4>3. IsInjective(blockedQueue') /\ ToSet(blockedQueue') = ToSet(blockedQueue) \union {u}
        BY <1>0a, <4>2, AppendInjective2, AppendEntries
      <4>4. QED
        BY <1>0a, <2>1, <4>2, <4>3 DEF Quiet, QueueDiscipline
    <3>3. CASE t \notin Tid
      BY <1>7, <2>1, <3>3 DEF TimerInterrupt, Quiet, QueueDiscipline
    <3>4. QED
      BY <2>1, <3>1, <3>2, <3>3, RunningState
  <2>5. QED
    BY <1>0, <2>3, <2>4 DEF Quiet
<1>8. CASE ScanBlocked
  <2> DEFINE n == Len(blockedQueue)
  <2>1. PICK t \in Tid : t = Head(blockedQueue)
    BY <1>8, PopEntries DEF ScanBlocked, Due, Quiet, Ind, TypeOK, ScanBound
  <2>2. /\ blockedQueue # <<>> /\ scanLeft \in Nat \ {0} /\ scanLeft <= n /\ n \in Nat
        /\ phase = "scan" /\ phase' = "scan" /\ scanLeft' = scanLeft - 1
        /\ left' = left /\ currentThread' = currentThread
    BY <1>8 DEF ScanBlocked, Due, Quiet, Ind, TypeOK, ScanBound, cpuVars
  <2>3. /\ Tail(blockedQueue) \in Seq(Tid) /\ IsInjective(Tail(blockedQueue))
        /\ ToSet(Tail(blockedQueue)) = ToSet(blockedQueue) \ {t}
        /\ t \in ToSet(blockedQueue)
        /\ Len(Tail(blockedQueue)) = n - 1
        /\ \A i \in 1 .. n - 1 : Tail(blockedQueue)[i] = blockedQueue[i + 1]
    BY <1>0a, <2>1, <2>2, PopInjective, PopEntries
  <2>4. state[t] = "BLOCKED" /\ t \notin ToSet(readyQueue)
    BY <2>3 DEF Quiet, QueueDiscipline
  <2>5. \A i \in scanLeft + 1 .. n : left[blockedQueue[i]] > 0
    BY <2>2 DEF Quiet, ScanDone
  <2>6. CASE left[t] = 0
    <3>1. /\ readyQueue' = Append(readyQueue, t) /\ blockedQueue' = Tail(blockedQueue)
          /\ state'[t] = "READY" /\ \A u \in Tid \ {t} : state'[u] = state[u]
      BY <1>0a, <1>8, <2>1, <2>4, <2>6 DEF ScanBlocked, Due
    <3>2. IsInjective(readyQueue') /\ ToSet(readyQueue') = ToSet(readyQueue) \union {t}
      BY <1>0a, <2>4, <3>1, AppendInjective2, AppendEntries
    <3>3. QueueDiscipline'
      BY <1>0a, <2>2, <2>3, <3>1, <3>2 DEF Quiet, QueueDiscipline
    <3>4. ASSUME NEW i \in scanLeft' + 1 .. Len(blockedQueue')
          PROVE  left'[blockedQueue'[i]] > 0
      <4>1. i + 1 \in scanLeft + 1 .. n /\ i \in 1 .. n - 1
        BY <2>2, <2>3, <3>1
      <4>2. QED
        BY <2>2, <2>3, <2>5, <3>1, <4>1
    <3>5. QED
      BY <1>0, <2>2, <3>3, <3>4 DEF Quiet, ScanDone, NoStaleSchedule
  <2>7. CASE left[t] # 0
    <3>1. /\ readyQueue' = readyQueue /\ blockedQueue' = Append(Tail(blockedQueue), t)
          /\ state' = state
      BY <1>8, <2>1, <2>7 DEF ScanBlocked, Due
    <3>2. /\ IsInjective(blockedQueue') /\ ToSet(blockedQueue') = ToSet(Tail(blockedQueue)) \union {t}
          /\ Len(blockedQueue') = n /\ blockedQueue'[n] = t
          /\ \A i \in 1 .. n - 1 : blockedQueue'[i] = blockedQueue[i + 1]
      <4> DEFINE rest == Tail(blockedQueue)
      <4>1. rest \in Seq(Tid) /\ IsInjective(rest) /\ t \notin ToSet(rest) /\ Len(rest) = n - 1
            /\ blockedQueue' = Append(rest, t) /\ \A i \in 1 .. n - 1 : rest[i] = blockedQueue[i + 1]
        BY <2>3, <3>1
      <4> HIDE DEF rest
      <4>2. IsInjective(blockedQueue') /\ ToSet(blockedQueue') = ToSet(rest) \union {t}
        BY <4>1, AppendInjective2, AppendEntries
      <4>3. Len(blockedQueue') = n /\ blockedQueue'[n] = t /\ \A i \in 1 .. n - 1 : blockedQueue'[i] = rest[i]
        BY <2>2, <4>1
      <4>4. QED
        BY <4>1, <4>2, <4>3 DEF rest
    <3>3. QueueDiscipline'
      BY <1>0a, <2>2, <2>3, <3>1, <3>2 DEF Quiet, QueueDiscipline
    <3>4. ASSUME NEW i \in scanLeft' + 1 .. Len(blockedQueue')
          PROVE  left'[blockedQueue'[i]] > 0
      <4>1. CASE i = n
        BY <1>0a, <2>2, <2>7, <3>2, <4>1
      <4>2. CASE i # n
        <5>1. i + 1 \in scanLeft + 1 .. n /\ i \in 1 .. n - 1
          BY <2>2, <3>2, <4>2
        <5>2. QED
          BY <2>2, <2>5, <3>2, <5>1
      <4>3. QED
        BY <4>1, <4>2
    <3>5. QED
      BY <1>0, <2>2, <3>3, <3>4 DEF Quiet, ScanDone, NoStaleSchedule
  <2>8. QED
    BY <2>6, <2>7
<1>9. ASSUME phase = "scan", scanLeft = 0, phase' = "user",
             UNCHANGED <<left, blockedQueue>>
      PROVE  ScanDone' /\ NoStaleSchedule'
  <2>1. \A i \in 1 .. Len(blockedQueue) : left[blockedQueue[i]] > 0
    BY <1>9 DEF Quiet, ScanDone
  <2>2. \A t \in ToSet(blockedQueue) : left[t] > 0
    BY <1>0a, <2>1 DEF ToSet
  <2>3. QED
    BY <1>9, <2>2 DEF ScanDone, NoStaleSchedule
<1>10. CASE DispatchIdle
  <2>1. QueueDiscipline'
    BY <1>0a, <1>10 DEF DispatchIdle, Quiet, QueueDiscipline, tcbVars, queueVars, Idle, Tid
  <2>2. QED
    BY <1>0, <1>9, <1>10, <2>1 DEF DispatchIdle, Quiet, tcbVars, queueVars
<1>11. CASE Dispatch
  <2>1. PICK t \in Tid : t = Head(readyQueue)
    BY <1>0a, <1>11, PopEntries DEF Dispatch
  <2>2. /\ readyQueue' = Tail(readyQueue) /\ blockedQueue' = blockedQueue /\ currentThread' = t
        /\ \A u \in Tid \ {t} : state'[u] = state[u]
        /\ phase = "scan" /\ scanLeft = 0 /\ phase' = "user" /\ left' = left
    BY <1>0a, <1>11, <2>1 DEF Dispatch
  <2>3. /\ IsInjective(readyQueue') /\ ToSet(readyQueue') = ToSet(readyQueue) \ {t}
        /\ t \in ToSet(readyQueue)
    BY <1>0a, <1>11, <2>1, <2>2, PopInjective, PopEntries DEF Dispatch
  <2>4. t \notin ToSet(blockedQueue)
    BY <2>3 DEF Quiet, QueueDiscipline
  <2>5. QueueDiscipline'
    BY <1>0a, <2>2, <2>3, <2>4 DEF Quiet, QueueDiscipline
  <2>6. QED
    BY <1>0, <1>9, <2>2, <2>5 DEF Quiet
<1>12. ASSUME ScheduleStale PROVE FALSE
  <2>1. CASE scanLeft > 0
    <3>1. blockedQueue # <<>>
      BY <1>12, <2>1 DEF ScheduleStale, Quiet, Ind, TypeOK, ScanBound
    <3>2. Head(blockedQueue) \in ToSet(blockedQueue)
      BY <1>0a, <3>1, PopEntries
    <3>3. QED
      BY <1>12, <2>1, <3>2 DEF ScheduleStale, Quiet, QueueDiscipline, Live
  <2>2. CASE ~(scanLeft > 0)
    <3>1. Head(readyQueue) \in ToSet(readyQueue)
      BY <1>0a, <1>12, <2>2, PopEntries DEF ScheduleStale
    <3>2. QED
      BY <1>12, <2>2, <3>1 DEF ScheduleStale, Quiet, QueueDiscipline, Live
  <2>3. QED
    BY <2>1, <2>2
<1>13. CASE UNCHANGED vars
  BY <1>0, <1>13 DEF vars, tcbVars, queueVars, cpuVars, Quiet, QueueDiscipline, ScanDone, NoStaleSchedule
<1>14. QED
  BY <1>1, <1>2, <1>3, <1>4, <1>5, <1>6, <1>7, <1>8, <1>10, <1>11, <1>12, <1>13
     DEF Next, Schedule, Undefined
----------------------------------------------------------------------------
LEMMA QuietAlways == ASSUME ~WakeRunning PROVE Spec => []Quiet
<1>1. Quiet /\ [Next]_vars => Quiet'
  BY QuietStep
<1>2. QED
  BY <1>1, QuietInit, PTL DEF Spec

(* The queues hold each thread at most once, READY ones on readyQueue,     *)
(* BLOCKED ones on blockedQueue and the running one on neither, as long as *)
(* no event catches a handler between its Sleep() and the next tick.       *)
THEOREM QueuesAreDisciplined == ASSUME ~WakeRunning PROVE Spec => []QueueDiscipline
BY QuietAlways, PTL DEF Quiet

(* Under the same condition Schedule() never dereferences a deleted TCB,   *)
(* whichever thread exits when.                                            *)
THEOREM ScheduleIsNeverStale == ASSUME ~WakeRunning PROVE Spec => []NoStaleSchedule
BY QuietAlways, PTL DEF Quiet

(* Under the same condition no thread sleeps past the tick it is due at,   *)
(* although the scan of blockedQueue changes the queue it scans.           *)
THEOREM NoSleeperIsOverdue == ASSUME ~WakeRunning PROVE Spec => []NoOverdueSleeper
<1>1. Quiet => NoOverdueSleeper
  BY DEF Quiet, Ind, NoLostThread, ScanDone, NoOverdueSleeper
<1>2. QED
  BY <1>1, QuietAlways, PTL

(* Under the same condition a sleeper is woken before its time only as the *)
(* event handler of its process.                                           *)
THEOREM SleepIsRespected == ASSUME ~WakeRunning PROVE Spec => SleepRespected
<1> DEFINE Respects ==
      \A t \in Tid :
        state[t] = "BLOCKED" /\ state'[t] \in {"READY", "RUNNING"} =>
          left[t] = 0 \/ handler[parent[t]] = t
<1>1. Quiet /\ [Next]_vars => [Respects]_vars
  <2> SUFFICES ASSUME Quiet, Next, NEW t \in Tid,
                      state[t] = "BLOCKED", state'[t] \in {"READY", "RUNNING"}
               PROVE  left[t] = 0 \/ handler[parent[t]] = t
    OBVIOUS
  <2>1. state \in [Tid -> States]
    BY DEF Quiet, Ind, TypeOK
  <2>2. ASSUME NEW p \in Pid, NEW hasMemory \in BOOLEAN, CreateThread(p, hasMemory) PROVE FALSE
    <3>1. tidCounter \in Tid /\ state[tidCounter] = "NEW"
      BY <2>2, FreshThread DEF CreateThread, Quiet, Ind, TypeOK, Births
    <3>2. t = tidCounter \/ state'[t] = state[t]
      BY <2>1, <2>2 DEF CreateThread
    <3>3. QED
      BY <3>1, <3>2
  <2>3. pidCounter <= MaxPid => pidCounter \in Pid
    BY BoundsAssumption DEF Quiet, Ind, TypeOK, Pid
  <2>4. currentThread \in Tid => parent[currentThread] \in Pid
    BY DEF Quiet, Ind, TypeOK
  <2>5. ~LaunchProgram /\ ~Clone /\ ~RegisterHandler
    BY <2>2, <2>3, <2>4 DEF LaunchProgram, Clone, RegisterHandler, UserRuns
  <2>6. \A ms \in SleepTimes : ~Sleep(ms)
    BY <2>1 DEF Sleep
  <2>7. ~ExitThread /\ ~KillProcess
    BY <2>1 DEF ExitThread, KillProcess, TerminateThread
  <2>8. ~TimerInterrupt
    BY <2>1 DEF TimerInterrupt
  <2>9. ASSUME NEW p \in Pid, WakeThread(p)
        PROVE  handler[parent[t]] = t
    BY <2>1, <2>9 DEF WakeThread, Quiet, Ind, TypeOK, HandlerOwned
  <2>10. CASE ScanBlocked
    BY <2>1, <2>10 DEF ScanBlocked, Due
  <2>11. ~Dispatch
    <3>1. Dispatch => state[Head(readyQueue)] = "READY"
      BY PopEntries DEF Dispatch, Quiet, Ind, TypeOK, QueueDiscipline
    <3>2. QED
      BY <2>1, <3>1 DEF Dispatch
  <2>12. ~DispatchIdle /\ ~ScheduleStale /\ ~Undefined /\ \A p \in Pid : ~WakeStale(p)
    BY DEF DispatchIdle, ScheduleStale, Undefined, WakeStale, vars, tcbVars
  <2>13. QED
    BY <2>5, <2>6, <2>7, <2>8, <2>9, <2>10, <2>11, <2>12 DEF Next, Schedule
<1>2. QED
  BY <1>1, QuietAlways, PTL DEF Spec, SleepRespected
=============================================================================
