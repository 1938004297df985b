--------------------------- MODULE InterruptEntry ---------------------------
(***************************************************************************)
(* The way into the kernel and out of it, instruction by instruction where *)
(* an interrupt can come between: the stubs and intr_common_handler of     *)
(* asm/common_handler.asm, the InterruptGuard of handleInterrupt(), and    *)
(* the stack switch after it (core/interrupts.cpp, core/Iguard.h).         *)
(*                                                                         *)
(* int 0x80 comes through a trap gate, which leaves interrupts enabled;    *)
(* hardware interrupts come through interrupt gates. Which thread runs     *)
(* next is left open: module Scheduler says. That the stack of a thread    *)
(* that exited is handed out again while it is in use is not modelled.     *)
(***************************************************************************)
EXTENDS Integers, Sequences, FiniteSets

CONSTANTS
  Thread,        (* the threads, each with a kernel stack                    *)
  Idle,          (* idleThread, which runs in the kernel: no system calls    *)
  Irq,           (* the numbers of the hardware interrupts                   *)
  Timer,         (* the one of the timer, HWInterruptOffset                  *)
  Syscall,       (* the one of int 0x80                                      *)
  EntryWindow    (* bound: whether hardware interrupts come between the      *)
                 (* instructions of a system call's entry                    *)

None == 0        (* no number: what the byte of the stubs begins with        *)

ASSUME EntryAssumption ==
  /\ IsFiniteSet(Thread)
  /\ Idle \in Thread /\ Timer \in Irq /\ Syscall \notin Irq
  /\ None \notin Irq \union {Syscall}
  /\ EntryWindow \in BOOLEAN

VARIABLES
  enabled,   (* the interrupt flag                                          *)
  byte,      (* interruptnumber, the byte in the stubs' data section        *)
  esp,       (* the thread whose kernel stack is in use                     *)
  esp0,      (* g_tss.esp0: the one whose stack user code is left for       *)
  stack,     (* what is on each kernel stack: interrupts that are under way *)
  context,   (* each thread's context: a frame of some stack                *)
  current,   (* currentThread                                               *)
  alive      (* the threads that have not exited                            *)

vars == <<enabled, byte, esp, esp0, stack, context, current, alive>>

(* A frame of a stack, numbered from its bottom. *)
Place == [owner : Thread, depth : Nat]
NoPlace == [owner |-> Idle, depth |-> 0]

(* An interrupt under way: the number that occurred, the one that          *)
(* handleInterrupt() is given, how far it has come, the interrupt flag     *)
(* that iret restores, wasEnabled of the guard, and the context it leaves  *)
(* by.                                                                     *)
Number == Irq \union {Syscall, None}
Interrupt ==
  [number : Number, given : Number, flag : BOOLEAN, wasEnabled : BOOLEAN, next : Place,
   stage : {"vectored", "stored", "pushed", "handled", "leaving", "resumed"}]

Outside == stack[esp] = <<>>
Top == stack[esp][Len(stack[esp])]
Here == [owner |-> esp, depth |-> Len(stack[esp])]
At(stage) == ~Outside /\ Top.stage = stage
SetTop(i) == stack' = [stack EXCEPT ![esp][Len(stack[esp])] = i]

(* CreateThread() makes up the frame that a new thread resumes from. *)
MadeUp ==
  [number |-> None, given |-> None, flag |-> TRUE, wasEnabled |-> TRUE, next |-> NoPlace,
   stage |-> "leaving"]

Init ==
  /\ enabled = TRUE /\ byte = None
  /\ \E t \in Thread \ {Idle} :
       /\ esp = t /\ esp0 = t /\ current = t
       /\ stack = [u \in Thread |-> IF u = t THEN <<>> ELSE <<MadeUp>>]
  /\ context = [u \in Thread |-> [owner |-> u, depth |-> 1]]
  /\ alive = Thread
----------------------------------------------------------------------------
(* The CPU takes the stack of the TSS on the way from user mode, and goes  *)
(* on with the one it has on the way from the kernel.                      *)
Landing == IF Outside /\ current # Idle THEN esp0 ELSE esp

Vector(n) ==
  /\ stack' = [stack EXCEPT ![Landing] = Append(@,
       [number |-> n, given |-> None, flag |-> enabled, wasEnabled |-> FALSE,
        next |-> NoPlace, stage |-> "vectored"])]
  /\ esp' = Landing
  /\ UNCHANGED <<byte, esp0, context, current, alive>>

(* The flag behind the gate of a hardware interrupt. Mutant: a trap gate.  *)
BehindTrapGate == enabled
BehindGate == FALSE

(* Whether a system call is on its way to handleInterrupt(). *)
Entering == ~Outside /\ Top.number = Syscall /\ Top.stage \in {"vectored", "stored"}

HardwareInterrupt(n) ==
  /\ enabled
  /\ Entering => EntryWindow
  /\ Vector(n)
  /\ enabled' = BehindGate

(* int 0x80 of user code: its gate leaves the flag alone. *)
SystemCall ==
  /\ Outside /\ current # Idle
  /\ Vector(Syscall)
  /\ UNCHANGED enabled

(* mov byte [interruptnumber] *)
StoreNumber ==
  /\ At("vectored")
  /\ byte' = Top.number
  /\ SetTop([Top EXCEPT !.stage = "stored"])
  /\ UNCHANGED <<enabled, esp, esp0, context, current, alive>>

(* push dword [interruptnumber] *)
PushNumber ==
  /\ At("stored")
  /\ SetTop([Top EXCEPT !.stage = "pushed", !.given = byte])
  /\ UNCHANGED <<enabled, byte, esp, esp0, context, current, alive>>
----------------------------------------------------------------------------
(* InterruptGuard: interrupts are off while handleInterrupt() runs. *)
Guard ==
  /\ At("pushed")
  /\ SetTop([Top EXCEPT !.stage = "handled", !.wasEnabled = enabled])
  /\ enabled' = FALSE
  /\ UNCHANGED <<byte, esp, esp0, context, current, alive>>

(* ~InterruptGuard. Mutant: it always enables interrupts. *)
AlwaysEnabled == TRUE
Restored == Top.wasEnabled

(* handleInterrupt() returns p; its guard restores the flag before the     *)
(* stack is switched.                                                      *)
Leave(p) ==
  /\ SetTop([Top EXCEPT !.stage = "leaving", !.next = p])
  /\ enabled' = Restored
  /\ UNCHANGED <<byte, esp>>

(* The TSS after t was taken: idleThread leaves it as it is. Mutant: every *)
(* thread does.                                                            *)
OldTss(t) == esp0
NewTss(t) == IF t = Idle THEN esp0 ELSE t

(* Schedule() goes on with a living thread. *)
Take(t) == current' = t /\ esp0' = NewTss(t)

(* Mutant: the context is where the thread began, not where it is. *)
ContextOld == context
ContextHere == [context EXCEPT ![current] = Here]

HandleTimer ==
  /\ At("handled") /\ Top.given = Timer
  /\ context' = ContextHere
  /\ \E t \in alive : Take(t) /\ Leave(context'[t])
  /\ UNCHANGED alive

(* Any other device, and a system call that does not end its thread. *)
HandleOther ==
  /\ At("handled") /\ Top.given # Timer
  /\ Leave(Here)
  /\ UNCHANGED <<esp0, context, current, alive>>

(* sys_exit: the thread is gone, its whole process with it when it was the *)
(* last; Schedule() saves nothing.                                         *)
HandleExit ==
  /\ At("handled") /\ Top.given = Syscall
  /\ \E gone \in SUBSET (alive \ {Idle}) : current \in gone /\ alive' = alive \ gone
  /\ \E t \in alive' : Take(t) /\ Leave(context[t])
  /\ UNCHANGED context
----------------------------------------------------------------------------
(* mov esp, eax: what was above the context on its stack is lost. *)
SwitchStack ==
  LET p == Top.next
      frames == SubSeq(stack[p.owner], 1, p.depth)
  IN
  /\ At("leaving") /\ p # NoPlace
  /\ esp' = p.owner
  /\ stack' = [stack EXCEPT ![p.owner] = [frames EXCEPT ![p.depth].stage = "resumed"]]
  /\ UNCHANGED <<enabled, byte, esp0, context, current, alive>>

(* iret *)
Return ==
  /\ At("resumed")
  /\ enabled' = Top.flag
  /\ stack' = [stack EXCEPT ![esp] = SubSeq(@, 1, Len(@) - 1)]
  /\ UNCHANGED <<byte, esp, esp0, context, current, alive>>

Next ==
  \/ \E n \in Irq : HardwareInterrupt(n)
  \/ SystemCall
  \/ StoreNumber \/ PushNumber \/ Guard
  \/ HandleTimer \/ HandleOther \/ HandleExit
  \/ SwitchStack \/ Return

Spec == Init /\ [][Next]_vars
----------------------------------------------------------------------------
(* Every variable has its type, and at most two interrupts are under way   *)
(* on a kernel stack, one more for each thread that exited: one that a     *)
(* thread's exit goes on to is on its way out with interrupts enabled, and *)
(* another can come on top of it.                                          *)
TypeOK ==
  /\ enabled \in BOOLEAN /\ byte \in Number
  /\ {esp, esp0, current} \subseteq Thread /\ alive \subseteq Thread
  /\ \A t \in Thread : stack[t] \in Seq(Interrupt) /\ Len(stack[t]) <= 2 + Cardinality(Thread \ alive)
  /\ context \in [Thread -> Place]

(* handleInterrupt() is given the number of the interrupt it is called     *)
(* for: include/core/interrupts.h:213 says of its parameter "The interrupt *)
(* number that occurred."                                                  *)
NumberIsOwn ==
  \A t \in Thread : \A d \in 1 .. Len(stack[t]) :
    stack[t][d].given \in {None, stack[t][d].number}

(* Interrupts stay enabled while a system call is handled:                 *)
(* core/interrupts.cpp:140-142 says of the trap gate of int 0x80 "so       *)
(* interrupts remain enabled", so that a long system call does not hold up *)
(* the timer and the scheduler.                                            *)
SyscallsInterruptible == At("handled") /\ Top.number = Syscall => enabled

(* A thread that is out of the kernel is currentThread, on its own stack,  *)
(* which the TSS names if it can be in user mode, and with interrupts      *)
(* enabled: whatever came on its way out, or on that of another's exit.    *)
OwnStack ==
  Outside =>
    /\ esp = current /\ current \in alive /\ enabled
    /\ current # Idle => esp0 = current

(* The context of a thread that waits is an interrupt that is still on a   *)
(* stack, where it left the kernel, and no other thread's: Schedule() can  *)
(* go back to it. Of a thread taken on the way out of another's exit it    *)
(* may be on the stack of the thread that exited.                          *)
Waiting == alive \ {current}

Resumable ==
  /\ \A t \in Waiting :
       /\ context[t].depth \in 1 .. Len(stack[context[t].owner])
       /\ stack[context[t].owner][context[t].depth].stage = "leaving"
  /\ \A t, u \in Waiting : context[t] = context[u] => t = u
=============================================================================
