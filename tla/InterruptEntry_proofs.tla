------------------------ MODULE InterruptEntry_proofs ------------------------
(***************************************************************************)
(* Proofs about the interrupt entry, as long as no hardware interrupt      *)
(* comes between the instructions of a system call's entry: the number is  *)
(* then the right one, and every thread finds its way out of the kernel,   *)
(* also over the stacks of threads that exited.                            *)
(***************************************************************************)
EXTENDS InterruptEntry, FiniteSetTheorems, TLAPS

TypeInv ==
  /\ enabled \in BOOLEAN /\ byte \in Number
  /\ esp \in Thread /\ esp0 \in Thread /\ current \in Thread /\ alive \subseteq Thread
  /\ stack \in [Thread -> Seq(Interrupt)]
  /\ context \in [Thread -> Place]

(* Between the timer's choice of another thread and the stack switch.      *)
Switching == At("leaving") /\ Top.number \in Irq /\ Top.next.owner # esp

(* What holds of each interrupt under way, at depth k of the stack of s:   *)
(* one that can be interrupted is a system call or on its way out, and one *)
(* that leaves leaves to where it is, except those that Chains speaks of.  *)
FrameOK(s, k) ==
  LET f    == stack[s][k]
      last == k = Len(stack[s])
      top  == s = esp /\ last
  IN  /\ f.flag = TRUE
      /\ f.given \in {None, f.number}
      /\ f.number = Syscall => k = 1
      /\ f.number = None => f.stage \in {"leaving", "resumed"} /\ f.next.depth = 0
      /\ f.stage \in {"vectored", "stored", "handled"} => top
      /\ f.stage = "stored" => byte = f.number
      /\ f.stage \in {"pushed", "handled"} => f.given = f.number
      /\ f.stage = "handled" => ~enabled
      /\ f.number \in Irq /\ f.stage \in {"vectored", "stored", "pushed"} => top /\ ~enabled
      /\ f.number \in Irq /\ f.stage = "handled" => ~f.wasEnabled
      /\ f.number \in Irq /\ f.stage = "leaving" /\ top => ~enabled
      /\ ~last => f.stage = "resumed" \/ (f.number = Syscall /\ f.stage \in {"pushed", "leaving"})
      /\ f.stage = "leaving" /\ (~last \/ (s = esp /\ ~Switching)) =>
           (s \notin alive /\ k = 1) \/ f.next = [owner |-> s, depth |-> k]

Frames == \A s \in Thread : \A k \in 1 .. Len(stack[s]) : FrameOK(s, k)

(* A place that a thread can go back to: the last interrupt of a stack,    *)
(* and never the exit at the bottom of the stack of one that is gone.      *)
Ready(p) ==
  /\ p.depth >= 1 /\ p.depth = Len(stack[p.owner])
  /\ p.owner \in alive \/ p.depth >= 2
  /\ stack[p.owner][p.depth].stage = "leaving"

(* The stack that a thread is on, or goes to next.                         *)
Base == IF Switching THEN Top.next.owner ELSE esp
BaseOf(t) == IF t = current THEN Base ELSE context[t].owner

(* Every stack in use is held by one living thread: its own, and those of  *)
(* threads that exited to it, each of which leads to the next.             *)
Chains(used, holder) ==
  /\ alive \subseteq used
  /\ \A t \in alive : holder[t] = t
  /\ \A s \in used : holder[s] \in alive
  /\ \A s \in used \ alive :
       /\ Len(stack[s]) >= 1
       /\ stack[s][1].number = Syscall /\ stack[s][1].stage = "leaving"
       /\ Ready(stack[s][1].next)
       /\ stack[s][1].next.owner \in used \ {s}
       /\ holder[stack[s][1].next.owner] = holder[s]
  /\ \A r, s \in used \ alive : stack[r][1].next.owner = stack[s][1].next.owner => r = s
  /\ \A t \in alive :
       /\ BaseOf(t) \in used /\ holder[BaseOf(t)] = t
       /\ \A s \in used \ alive : stack[s][1].next.owner # BaseOf(t)
  /\ \A t \in alive \ {current} : Ready(context[t])
  /\ Switching => Ready(Top.next)

Processor ==
  /\ Outside => enabled
  /\ current \in alive
  /\ current # Idle => esp0 = current

(* How far the stacks grow: a stack that is out of use paid for one more   *)
(* interrupt, when the exit on it went on with interrupts enabled.         *)
Depths(used) ==
  /\ \A s \in Thread : Len(stack[s]) <= 2 + Cardinality(Thread \ used)
  /\ enabled => Len(stack[esp]) <= 1 + Cardinality(Thread \ used)

Core == TypeInv /\ Frames /\ Processor
IInv ==
  /\ Core
  /\ \E used \in SUBSET Thread : \E holder \in [Thread -> Thread] :
       Chains(used, holder) /\ Depths(used)
----------------------------------------------------------------------------
(* What the operations on the stacks do.                                   *)
LEMMA TopOfStack ==
  ASSUME TypeInv, ~Outside
  PROVE  Len(stack[esp]) \in Nat /\ Len(stack[esp]) >= 1 /\ Top \in Interrupt /\ Here \in Place
BY DEF TypeInv, Outside, Top, Here, Place

(* The interrupt on top of the stack in use is replaced.                   *)
LEMMA SetTopEffect ==
  ASSUME TypeInv, ~Outside, NEW i \in Interrupt, SetTop(i)
  PROVE  /\ stack' \in [Thread -> Seq(Interrupt)]
         /\ \A s \in Thread : Len(stack'[s]) = Len(stack[s])
         /\ \A s \in Thread : \A k \in 1 .. Len(stack[s]) :
              stack'[s][k] = IF s = esp /\ k = Len(stack[esp]) THEN i ELSE stack[s][k]
         /\ \A s \in Thread : s # esp => stack'[s] = stack[s]
<1> DEFINE new == [stack[esp] EXCEPT ![Len(stack[esp])] = i]
<1>1. stack[esp] \in Seq(Interrupt) /\ esp \in Thread
  BY DEF TypeInv
<1>2. Len(stack[esp]) \in 1 .. Len(stack[esp])
  BY TopOfStack, <1>1
<1>3. /\ new \in Seq(Interrupt) /\ Len(new) = Len(stack[esp])
      /\ \A k \in 1 .. Len(stack[esp]) : new[k] = IF k = Len(stack[esp]) THEN i ELSE stack[esp][k]
  BY <1>1, <1>2
<1>4. stack' = [stack EXCEPT ![esp] = new]
  BY DEF SetTop
<1>5. /\ stack'[esp] = new
      /\ \A s \in Thread : s # esp => stack'[s] = stack[s]
      /\ stack' \in [Thread -> Seq(Interrupt)]
  BY <1>1, <1>3, <1>4 DEF TypeInv
<1> QED
  BY <1>1, <1>3, <1>5

(* An interrupt is pushed onto the stack in use.                           *)
LEMMA PushEffect ==
  ASSUME TypeInv, NEW i \in Interrupt, stack' = [stack EXCEPT ![esp] = Append(@, i)]
  PROVE  /\ stack' \in [Thread -> Seq(Interrupt)]
         /\ Len(stack'[esp]) = Len(stack[esp]) + 1
         /\ stack'[esp][Len(stack[esp]) + 1] = i
         /\ \A k \in 1 .. Len(stack[esp]) : stack'[esp][k] = stack[esp][k]
         /\ \A s \in Thread : s # esp => stack'[s] = stack[s]
<1>1. stack[esp] \in Seq(Interrupt) /\ esp \in Thread
  BY DEF TypeInv
<1>2. stack'[esp] = Append(stack[esp], i)
  BY <1>1 DEF TypeInv
<1>3. \A s \in Thread : s # esp => stack'[s] = stack[s]
  BY DEF TypeInv
<1>4. stack' \in [Thread -> Seq(Interrupt)]
  BY <1>1 DEF TypeInv
<1> QED
  BY <1>1, <1>2, <1>3, <1>4

(* The interrupt on top of the stack in use is taken off.                  *)
LEMMA PopEffect ==
  ASSUME TypeInv, ~Outside, stack' = [stack EXCEPT ![esp] = SubSeq(@, 1, Len(@) - 1)]
  PROVE  /\ stack' \in [Thread -> Seq(Interrupt)]
         /\ Len(stack'[esp]) = Len(stack[esp]) - 1
         /\ \A k \in 1 .. (Len(stack[esp]) - 1) : stack'[esp][k] = stack[esp][k]
         /\ \A s \in Thread : s # esp => stack'[s] = stack[s]
<1>1. stack[esp] \in Seq(Interrupt) /\ esp \in Thread /\ Len(stack[esp]) \in Nat /\ Len(stack[esp]) >= 1
  BY TopOfStack DEF TypeInv
<1>2. stack'[esp] = SubSeq(stack[esp], 1, Len(stack[esp]) - 1)
  BY <1>1 DEF TypeInv
<1>3. \A s \in Thread : s # esp => stack'[s] = stack[s]
  BY DEF TypeInv
<1>4. /\ SubSeq(stack[esp], 1, Len(stack[esp]) - 1) \in Seq(Interrupt)
      /\ Len(SubSeq(stack[esp], 1, Len(stack[esp]) - 1)) = Len(stack[esp]) - 1
      /\ \A k \in 1 .. (Len(stack[esp]) - 1) :
           SubSeq(stack[esp], 1, Len(stack[esp]) - 1)[k] = stack[esp][k]
  BY <1>1
<1>5. stack' \in [Thread -> Seq(Interrupt)]
  BY <1>1, <1>4 DEF TypeInv
<1> QED
  BY <1>1, <1>2, <1>3, <1>4, <1>5

(* A place is gone back to.                                                *)
LEMMA ResumeEffect ==
  ASSUME TypeInv, NEW p \in Place, Ready(p),
         stack' = [stack EXCEPT ![p.owner] =
                     [SubSeq(stack[p.owner], 1, p.depth) EXCEPT ![p.depth].stage = "resumed"]]
  PROVE  /\ stack' \in [Thread -> Seq(Interrupt)]
         /\ \A s \in Thread : Len(stack'[s]) = Len(stack[s])
         /\ \A s \in Thread : s # p.owner => stack'[s] = stack[s]
         /\ \A k \in 1 .. Len(stack[p.owner]) :
              stack'[p.owner][k] = IF k = p.depth THEN [stack[p.owner][k] EXCEPT !.stage = "resumed"]
                                   ELSE stack[p.owner][k]
<1> DEFINE old == stack[p.owner]
           i == [old[p.depth] EXCEPT !.stage = "resumed"]
           new == [old EXCEPT ![p.depth] = i]
<1>1. old \in Seq(Interrupt) /\ p.owner \in Thread /\ p.depth = Len(old) /\ p.depth \in 1 .. Len(old)
  BY DEF TypeInv, Place, Ready
<1>2. SubSeq(old, 1, p.depth) = old
  BY <1>1
<1>3. stack' = [stack EXCEPT ![p.owner] = new]
  BY <1>2
<1>4. old[p.depth] \in Interrupt
  BY <1>1
<1>5. i \in Interrupt
  BY <1>4 DEF Interrupt
<1>6. /\ new \in Seq(Interrupt) /\ Len(new) = Len(old)
      /\ \A k \in 1 .. Len(old) : new[k] = IF k = p.depth THEN i ELSE old[k]
  BY <1>1, <1>5
<1>7. /\ stack'[p.owner] = new
      /\ \A s \in Thread : s # p.owner => stack'[s] = stack[s]
      /\ stack' \in [Thread -> Seq(Interrupt)]
  BY <1>1, <1>3, <1>6 DEF TypeInv
<1> QED
  BY <1>1, <1>6, <1>7

(* Between two kernel paths the processor is on the stack of the thread    *)
(* that runs, so that the CPU lands on the stack it is on.                 *)
LEMMA LandsWhereItIs ==
  ASSUME TypeInv, Processor, Outside => esp = current
  PROVE  Landing = esp
BY DEF Landing, Processor

(* A thread that has left the kernel is on its own stack.                  *)
LEMMA OutsideOnOwnStack ==
  ASSUME TypeInv, NEW used \in SUBSET Thread, NEW holder \in [Thread -> Thread],
         Chains(used, holder), Processor, Outside
  PROVE  esp = current
<1>1. Len(stack[esp]) = 0 /\ ~Switching
  BY DEF Outside, Switching, At, TypeInv
<1>2. esp \in used /\ holder[esp] = current
  BY <1>1 DEF Chains, BaseOf, Base, Processor
<1>3. esp \in alive
  BY <1>1, <1>2 DEF Chains
<1> QED
  BY <1>2, <1>3 DEF Chains

(* The number of stacks out of use, and what it is after more are.         *)
LEMMA OutOfUse ==
  ASSUME NEW used \in SUBSET Thread
  PROVE  /\ Cardinality(Thread \ used) \in Nat
         /\ \A more \in SUBSET used : Cardinality(Thread \ used) <= Cardinality(Thread \ more)
         /\ \A s \in used : Cardinality(Thread \ (used \ {s})) = Cardinality(Thread \ used) + 1
<1>1. IsFiniteSet(Thread)
  BY EntryAssumption
<1>2. \A x \in SUBSET Thread : IsFiniteSet(Thread \ x)
  BY <1>1, FS_Difference
<1>3. Cardinality(Thread \ used) \in Nat
  BY <1>2, FS_CardinalityType
<1>4. ASSUME NEW more \in SUBSET used
      PROVE  Cardinality(Thread \ used) <= Cardinality(Thread \ more)
  <2>1. Thread \ used \subseteq Thread \ more /\ IsFiniteSet(Thread \ more)
    BY <1>2
  <2> QED
    BY <2>1, FS_Subset
<1>5. ASSUME NEW s \in used
      PROVE  Cardinality(Thread \ (used \ {s})) = Cardinality(Thread \ used) + 1
  <2>1. Thread \ (used \ {s}) = (Thread \ used) \union {s} /\ s \notin Thread \ used
    OBVIOUS
  <2>2. Cardinality((Thread \ used) \union {s}) = Cardinality(Thread \ used) + 1
    BY <1>2, <2>1, FS_AddElement
  <2> QED
    BY <2>1, <2>2
<1> QED
  BY <1>3, <1>4, <1>5

(* A step that pushes nothing keeps to the depths, unless it enables       *)
(* interrupts on top of others.                                            *)
LEMMA DepthsKept ==
  ASSUME TypeInv, NEW used \in SUBSET Thread, NEW used2 \in SUBSET used, Depths(used),
         esp' = esp, \A s \in Thread : Len(stack'[s]) = Len(stack[s]),
         enabled' => enabled \/ Len(stack[esp]) <= 1
  PROVE  Depths(used2)'
<1> DEFINE c == Cardinality(Thread \ used)
           d == Cardinality(Thread \ used2)
<1>1. c \in Nat /\ d \in Nat /\ c <= d
  BY OutOfUse
<1>2. esp \in Thread /\ \A s \in Thread : Len(stack[s]) \in Nat
  BY DEF TypeInv
<1>3. (\A s \in Thread : Len(stack[s]) <= 2 + c) /\ (enabled => Len(stack[esp]) <= 1 + c)
  BY DEF Depths
<1> HIDE DEF c, d
<1>4. (\A s \in Thread : Len(stack'[s]) <= 2 + d) /\ (enabled' => Len(stack'[esp']) <= 1 + d)
  BY <1>1, <1>2, <1>3
<1> QED
  BY <1>4 DEF Depths, d

(* The frames that a step does not touch, and are not where it is.         *)
LEMMA OtherFrames ==
  ASSUME Frames, alive' \subseteq alive,
         NEW s \in Thread, NEW k \in 1 .. Len(stack[s]),
         stack'[s][k] = stack[s][k], k = Len(stack'[s]) <=> k = Len(stack[s]),
         ~(s = esp /\ k = Len(stack[s])), ~(s = esp' /\ k = Len(stack'[s]))
  PROVE  FrameOK(s, k)'
<1>1. FrameOK(s, k)
  BY DEF Frames
<1> QED
  BY <1>1 DEF FrameOK

(* A step on the stack in use that switches to no other thread leaves the  *)
(* chains as they are.                                                     *)
LEMMA ChainsKept ==
  ASSUME TypeInv, NEW used \in SUBSET Thread, NEW holder \in [Thread -> Thread],
         Chains(used, holder), Processor,
         esp' = esp, current' = current, alive' = alive, context' = context,
         ~Switching, ~Switching', \A s \in Thread : s # esp => stack'[s] = stack[s],
         esp \notin alive => Len(stack'[esp]) >= 1 /\ stack'[esp][1] = stack[esp][1]
  PROVE  Chains(used, holder)'
<1> USE DEF Processor
<1>1. Base = esp /\ Base' = esp
  BY DEF Base
<1>2. \A t \in alive : BaseOf(t)' = BaseOf(t)
  BY <1>1 DEF BaseOf
<1>3. \A s \in used \ alive : stack'[s][1] = stack[s][1] /\ (Len(stack[s]) >= 1 => Len(stack'[s]) >= 1)
  OBVIOUS
<1>4. ASSUME NEW p \in Place, Ready(p), p.owner # esp PROVE Ready(p)'
  BY <1>4 DEF Ready, Place
<1>5. esp \in used /\ holder[esp] = current /\ \A s \in used \ alive : stack[s][1].next.owner # esp
  BY <1>1 DEF Chains, BaseOf
<1>6. \A s \in used \ alive : Ready(stack[s][1].next)'
  <2> TAKE s \in used \ alive
  <2>1. Ready(stack[s][1].next) /\ Len(stack[s]) >= 1
    BY DEF Chains
  <2>2. stack[s][1].next \in Place
    <3>1. s \in Thread /\ stack[s] \in Seq(Interrupt)
      BY DEF TypeInv
    <3>2. stack[s][1] \in Interrupt
      BY <2>1, <3>1
    <3> QED
      BY <3>2 DEF Interrupt
  <2>3. stack[s][1].next.owner # esp
    BY <1>5
  <2> QED
    BY <1>3, <2>1, <2>2, <2>3 DEF Ready, Place
<1>7. \A t \in alive \ {current} : Ready(context[t])'
  <2> TAKE t \in alive \ {current}
  <2>1. Ready(context[t]) /\ context[t] \in Place
    BY DEF Chains, TypeInv
  <2>2. holder[context[t].owner] = t
    BY DEF Chains, BaseOf
  <2> QED
    BY <1>4, <1>5, <2>1, <2>2
<1> HIDE DEF Processor
<1> QED
  BY <1>2, <1>3, <1>6, <1>7 DEF Chains

(* A frame that is ready is where a leaving interrupt leads.               *)
LEMMA WaysOut ==
  ASSUME Core, NEW used \in SUBSET Thread, NEW holder \in [Thread -> Thread],
         Chains(used, holder), At("leaving"), ~Switching
  PROVE  \/ Top.next = Here
         \/ esp \in used \ alive /\ Len(stack[esp]) = 1
<1>1. ~Outside
  BY DEF At
<1>2. Len(stack[esp]) \in 1 .. Len(stack[esp]) /\ esp \in Thread
  BY <1>1, TopOfStack DEF Core, TypeInv
<1>3. FrameOK(esp, Len(stack[esp]))
  BY <1>2 DEF Core, Frames
<1>4. esp \in used
  BY DEF Chains, BaseOf, Base, Core, Processor
<1> QED
  BY <1>3, <1>4 DEF FrameOK, At, Top, Here

----------------------------------------------------------------------------
(* What must hold of an interrupt i on top of the stack in use.            *)
TopOK(i, newByte, newEnabled) ==
  /\ i.flag = TRUE
  /\ i.given \in {None, i.number}
  /\ i.number # None /\ i.stage # "resumed"
  /\ i.stage = "stored" => newByte = i.number
  /\ i.stage \in {"pushed", "handled"} => i.given = i.number
  /\ i.stage = "handled" => ~newEnabled
  /\ i.number \in Irq /\ i.stage \in {"vectored", "stored", "pushed", "leaving"} => ~newEnabled
  /\ i.number \in Irq /\ i.stage = "handled" => ~i.wasEnabled
  /\ i.stage = "leaving" => i.next = Here

(* A step of the interrupt on top keeps the invariant.                     *)
LEMMA TopChanges ==
  ASSUME Core, NEW used \in SUBSET Thread, NEW holder \in [Thread -> Thread],
         Chains(used, holder), Depths(used), ~Outside, Top.stage # "leaving",
         NEW i \in Interrupt, SetTop(i), i.number = Top.number,
         byte' \in Number, enabled' \in BOOLEAN, TopOK(i, byte', enabled'),
         esp' = esp, esp0' = esp0, current' = current, alive' = alive, context' = context
  PROVE  IInv'
<1> DEFINE n == Len(stack[esp])
<1>1. n \in Nat /\ n >= 1 /\ esp \in Thread /\ TypeInv /\ Frames /\ Processor
  BY TopOfStack DEF Core, TypeInv
<1>2. /\ stack' \in [Thread -> Seq(Interrupt)]
      /\ \A s \in Thread : Len(stack'[s]) = Len(stack[s])
      /\ \A s \in Thread : \A k \in 1 .. Len(stack[s]) :
           stack'[s][k] = IF s = esp /\ k = n THEN i ELSE stack[s][k]
      /\ \A s \in Thread : s # esp => stack'[s] = stack[s]
  BY SetTopEffect, <1>1
<1>3. ~Outside' /\ Top' = i
  <2>1. Len(stack'[esp]) = n /\ stack'[esp][n] = i
    BY <1>1, <1>2
  <2> QED
    BY <1>1, <2>1 DEF Outside, Top
<1>4. ~Switching /\ ~Switching'
  BY <1>3 DEF Switching, At, TopOK, Here
<1>5. TypeInv'
  BY <1>1, <1>2 DEF TypeInv
<1>6. Processor'
  BY <1>1, <1>3 DEF Processor
<1>7. esp \in used /\ holder[esp] = current
  BY <1>1, <1>4 DEF Chains, BaseOf, Base, Processor
<1>8. esp \notin alive => Len(stack'[esp]) >= 1 /\ stack'[esp][1] = stack[esp][1]
  <2>0. 1 \in 1 .. n /\ Len(stack'[esp]) = n
    BY <1>1, <1>2
  <2>3. n # 1 => stack'[esp][1] = stack[esp][1]
    BY <1>1, <1>2, <2>0
  <2> SUFFICES ASSUME esp \notin alive PROVE n # 1
    BY <1>1, <2>0, <2>3
  <2>1. stack[esp][1].stage = "leaving"
    BY <1>7 DEF Chains
  <2> QED
    BY <2>1 DEF Top
<1>9. Chains(used, holder)'
  BY ChainsKept, <1>1, <1>2, <1>4, <1>8
<1>10. Frames'
  <2> SUFFICES ASSUME NEW s \in Thread, NEW k \in 1 .. Len(stack[s]) PROVE FrameOK(s, k)'
    BY <1>2 DEF Frames
  <2>1. CASE ~(s = esp /\ k = n)
    BY OtherFrames, <1>1, <1>2, <2>1
  <2>2. CASE s = esp /\ k = n
    <3>1. stack'[s][k] = i /\ k = Len(stack'[s]) /\ s = esp'
      BY <1>1, <1>2, <2>2
    <3>2. FrameOK(esp, n) /\ stack[esp][n] = Top
      BY <1>1 DEF Frames, Top
    <3>3. i.number = Syscall => k = 1
      BY <2>2, <3>2 DEF FrameOK
    <3>4. i.stage = "leaving" => i.next = [owner |-> s, depth |-> k]
      BY <2>2 DEF TopOK, Here
    <3> QED
      BY <3>1, <3>3, <3>4 DEF FrameOK, TopOK
  <2> QED
    BY <2>1, <2>2
<1>11. Depths(used)'
  <2>1. enabled' => Len(stack[esp]) <= 1
    <3>1. FrameOK(esp, n) /\ stack[esp][n] = Top
      BY <1>1 DEF Frames, Top
    <3>2. enabled' => i.number = Syscall
      BY DEF TopOK, Interrupt, Number
    <3> QED
      BY <1>1, <3>1, <3>2 DEF FrameOK
  <2> QED
    BY <1>1, <1>2, <2>1, DepthsKept
<1> QED
  BY <1>5, <1>6, <1>9, <1>10, <1>11 DEF IInv, Core

(* The byte holds the number of the interrupt on top.                      *)
LEMMA StoreNumberKeeps ==
  ASSUME Core, NEW used \in SUBSET Thread, NEW holder \in [Thread -> Thread],
         Chains(used, holder), Depths(used), StoreNumber
  PROVE  IInv'
<1> DEFINE i == [Top EXCEPT !.stage = "stored"]
<1>1. ~Outside /\ Top.stage = "vectored" /\ TypeInv
  BY DEF StoreNumber, At, Core
<1>2. Top \in Interrupt /\ Len(stack[esp]) \in 1 .. Len(stack[esp]) /\ esp \in Thread
  BY <1>1, TopOfStack DEF TypeInv
<1>8. Top.number \in Number
  BY <1>2 DEF Interrupt
<1>3. FrameOK(esp, Len(stack[esp])) /\ stack[esp][Len(stack[esp])] = Top
  BY <1>2 DEF Core, Frames, Top
<1>4. i \in Interrupt
  BY <1>2 DEF Interrupt
<1>5. /\ i.stage = "stored" /\ i.number = Top.number /\ i.flag = Top.flag
      /\ i.given = Top.given /\ i.wasEnabled = Top.wasEnabled /\ i.next = Top.next
  BY <1>2 DEF Interrupt
<1>6. TopOK(i, byte', enabled')
  BY <1>1, <1>3, <1>5 DEF TopOK, FrameOK, StoreNumber
<1>7. byte' \in Number /\ enabled' \in BOOLEAN /\ SetTop(i)
  BY <1>1, <1>8 DEF StoreNumber, TypeInv
<1> HIDE DEF i
<1> QED
  BY TopChanges, <1>1, <1>4, <1>5, <1>6, <1>7 DEF StoreNumber

(* The number pushed is that of the interrupt on top.                      *)
LEMMA PushNumberKeeps ==
  ASSUME Core, NEW used \in SUBSET Thread, NEW holder \in [Thread -> Thread],
         Chains(used, holder), Depths(used), PushNumber
  PROVE  IInv'
<1> DEFINE i == [Top EXCEPT !.stage = "pushed", !.given = byte]
<1>1. ~Outside /\ Top.stage = "stored" /\ TypeInv
  BY DEF PushNumber, At, Core
<1>2. Top \in Interrupt /\ Len(stack[esp]) \in 1 .. Len(stack[esp]) /\ esp \in Thread
  BY <1>1, TopOfStack DEF TypeInv
<1>3. FrameOK(esp, Len(stack[esp])) /\ stack[esp][Len(stack[esp])] = Top
  BY <1>2 DEF Core, Frames, Top
<1>4. i \in Interrupt
  BY <1>1, <1>2 DEF Interrupt, TypeInv
<1>5. /\ i.stage = "pushed" /\ i.number = Top.number /\ i.flag = Top.flag
      /\ i.given = byte /\ i.wasEnabled = Top.wasEnabled /\ i.next = Top.next
  BY <1>2 DEF Interrupt
<1>6. TopOK(i, byte', enabled')
  BY <1>1, <1>3, <1>5 DEF TopOK, FrameOK, PushNumber
<1>7. byte' \in Number /\ enabled' \in BOOLEAN /\ SetTop(i)
  BY <1>1 DEF PushNumber, TypeInv
<1> HIDE DEF i
<1> QED
  BY TopChanges, <1>1, <1>4, <1>5, <1>6, <1>7 DEF PushNumber

(* The guard turns interrupts off.                                         *)
LEMMA GuardKeeps ==
  ASSUME Core, NEW used \in SUBSET Thread, NEW holder \in [Thread -> Thread],
         Chains(used, holder), Depths(used), Guard
  PROVE  IInv'
<1> DEFINE i == [Top EXCEPT !.stage = "handled", !.wasEnabled = enabled]
<1>1. ~Outside /\ Top.stage = "pushed" /\ TypeInv
  BY DEF Guard, At, Core
<1>2. Top \in Interrupt /\ Len(stack[esp]) \in 1 .. Len(stack[esp]) /\ esp \in Thread
  BY <1>1, TopOfStack DEF TypeInv
<1>3. FrameOK(esp, Len(stack[esp])) /\ stack[esp][Len(stack[esp])] = Top
  BY <1>2 DEF Core, Frames, Top
<1>4. i \in Interrupt
  BY <1>1, <1>2 DEF Interrupt, TypeInv
<1>5. /\ i.stage = "handled" /\ i.number = Top.number /\ i.flag = Top.flag
      /\ i.given = Top.given /\ i.wasEnabled = enabled /\ i.next = Top.next
  BY <1>2 DEF Interrupt
<1>6. TopOK(i, byte', enabled')
  BY <1>1, <1>3, <1>5 DEF TopOK, FrameOK, Guard
<1>7. byte' \in Number /\ enabled' \in BOOLEAN /\ SetTop(i)
  BY <1>1 DEF Guard, TypeInv
<1> HIDE DEF i
<1> QED
  BY TopChanges, <1>1, <1>4, <1>5, <1>6, <1>7 DEF Guard

(* A handler that switches to no other thread leaves to where it is.       *)
LEMMA HandleOtherKeeps ==
  ASSUME Core, NEW used \in SUBSET Thread, NEW holder \in [Thread -> Thread],
         Chains(used, holder), Depths(used), HandleOther
  PROVE  IInv'
<1> DEFINE i == [Top EXCEPT !.stage = "leaving", !.next = Here]
<1>1. ~Outside /\ Top.stage = "handled" /\ TypeInv
  BY DEF HandleOther, At, Core
<1>2. Top \in Interrupt /\ Here \in Place /\ Len(stack[esp]) \in 1 .. Len(stack[esp]) /\ esp \in Thread
  BY <1>1, TopOfStack DEF TypeInv
<1>3. FrameOK(esp, Len(stack[esp])) /\ stack[esp][Len(stack[esp])] = Top
  BY <1>2 DEF Core, Frames, Top
<1>4. i \in Interrupt
  BY <1>2 DEF Interrupt
<1>5. /\ i.stage = "leaving" /\ i.number = Top.number /\ i.flag = Top.flag
      /\ i.given = Top.given /\ i.wasEnabled = Top.wasEnabled /\ i.next = Here
  BY <1>2 DEF Interrupt
<1>6. enabled' = Top.wasEnabled /\ SetTop(i)
  BY DEF HandleOther, Leave, Restored
<1>7. TopOK(i, byte', enabled')
  BY <1>1, <1>3, <1>5, <1>6 DEF TopOK, FrameOK
<1>8. byte' \in Number /\ enabled' \in BOOLEAN
  BY <1>1, <1>2, <1>6 DEF HandleOther, Leave, TypeInv, Interrupt
<1> HIDE DEF i
<1> QED
  BY TopChanges, <1>1, <1>4, <1>5, <1>6, <1>7, <1>8 DEF HandleOther, Leave

----------------------------------------------------------------------------
(* The CPU pushes an interrupt onto the stack it is on.                    *)
LEMMA VectorKeeps ==
  ASSUME Core, NEW used \in SUBSET Thread, NEW holder \in [Thread -> Thread],
         Chains(used, holder), Depths(used), NEW n \in Irq \union {Syscall}, Vector(n),
         enabled, enabled' \in BOOLEAN,
         n \in Irq => ~enabled' /\ ~Entering, n = Syscall => Outside
  PROVE  IInv'
<1> DEFINE m == Len(stack[esp])
           i == [number |-> n, given |-> None, flag |-> enabled, wasEnabled |-> FALSE,
                 next |-> NoPlace, stage |-> "vectored"]
<1>1. TypeInv /\ Frames /\ Processor /\ esp \in Thread /\ stack[esp] \in Seq(Interrupt) /\ m \in Nat
  BY DEF Core, TypeInv
<1>2. /\ esp' = esp /\ esp0' = esp0 /\ current' = current /\ alive' = alive /\ context' = context
      /\ byte' = byte /\ stack' = [stack EXCEPT ![esp] = Append(@, i)]
  <2>1. Landing = esp
    BY <1>1, LandsWhereItIs, OutsideOnOwnStack
  <2> QED
    BY <2>1 DEF Vector
<1>3. i \in Interrupt
  BY EntryAssumption, <1>1 DEF Interrupt, Number, NoPlace, Place, TypeInv
<1>4. /\ i.number = n /\ i.given = None /\ i.flag = TRUE /\ i.stage = "vectored"
  BY <1>1 DEF TypeInv
<1> HIDE DEF i
<1>5. /\ stack' \in [Thread -> Seq(Interrupt)]
      /\ Len(stack'[esp]) = m + 1 /\ stack'[esp][m + 1] = i
      /\ \A k \in 1 .. m : stack'[esp][k] = stack[esp][k]
      /\ \A s \in Thread : s # esp => stack'[s] = stack[s]
  BY PushEffect, <1>1, <1>2, <1>3
<1>6. ~Outside' /\ Top' = i
  BY <1>1, <1>2, <1>5 DEF Outside, Top
<1>7. ASSUME ~Outside
      PROVE  /\ m \in 1 .. m /\ Top = stack[esp][m] /\ FrameOK(esp, m)
  BY <1>1, <1>7, TopOfStack DEF Frames, Top
<1>8. ~Switching /\ ~Switching'
  <2>1. ~Switching'
    BY <1>4, <1>6 DEF Switching, At
  <2>2. ASSUME Switching PROVE FALSE
    BY <1>7, <2>2 DEF Switching, At, FrameOK
  <2> QED
    BY <2>1, <2>2
<1>9. esp \in used /\ holder[esp] = current
  BY <1>1, <1>8 DEF Chains, BaseOf, Base, Processor
<1>10. esp \notin alive => Len(stack'[esp]) >= 1 /\ stack'[esp][1] = stack[esp][1]
  <2>1. m >= 1 => 1 \in 1 .. m
    BY <1>1
  <2>2. m >= 1 => stack'[esp][1] = stack[esp][1]
    BY <1>5, <2>1
  <2>3. Len(stack'[esp]) >= 1
    BY <1>1, <1>5
  <2> SUFFICES ASSUME esp \notin alive PROVE m >= 1
    BY <2>2, <2>3
  <2> QED
    BY <1>9 DEF Chains
<1>11. Chains(used, holder)'
  BY ChainsKept, <1>1, <1>2, <1>5, <1>8, <1>10
<1>12. Frames'
  <2> SUFFICES ASSUME NEW s \in Thread, NEW k \in 1 .. Len(stack'[s]) PROVE FrameOK(s, k)'
    BY DEF Frames
  <2>1. CASE s # esp
    BY OtherFrames, <1>1, <1>2, <1>5, <2>1
  <2>2. CASE s = esp /\ k < m
    BY OtherFrames, <1>1, <1>2, <1>5, <2>2
  <2>3. CASE s = esp /\ k = m
    <3>1. ~Outside
      BY <1>1, <2>3 DEF Outside
    <3>2. FrameOK(esp, m) /\ Top = stack[esp][m] /\ Top \in Interrupt
      BY <1>1, <1>7, <3>1, TopOfStack
    <3>3. Top.number \in Irq \union {Syscall, None}
          /\ Top.stage \in {"vectored", "stored", "pushed", "handled", "leaving", "resumed"}
      BY <3>2 DEF Interrupt, Number
    <3>4. Top.number = None => Top.stage = "resumed"
      <4> SUFFICES ASSUME Top.number = None, Top.stage = "leaving" PROVE FALSE
        BY <3>2 DEF FrameOK
      <4>1. Top.next.depth = 0 /\ m >= 1
        BY <1>7, <3>1, <3>2 DEF FrameOK
      <4>2. esp \notin alive /\ m = 1
        BY <1>8, <3>2, <4>1 DEF FrameOK
      <4>3. Top.number = Syscall
        BY <1>9, <3>2, <4>2 DEF Chains
      <4> QED
        BY <4>3, EntryAssumption
    <3>5. Top.stage = "resumed" \/ (Top.number = Syscall /\ Top.stage \in {"pushed", "leaving"})
      <4>1. CASE Top.number \in Irq
        BY <3>2, <3>3, <4>1 DEF FrameOK
      <4>2. CASE Top.number = Syscall
        BY <3>1, <3>2, <3>3, <4>2 DEF FrameOK, Entering
      <4> QED
        BY <3>3, <3>4, <4>1, <4>2
    <3>6. stack'[s][k] = Top /\ k # Len(stack'[s])
      <4>1. m \in 1 .. m /\ m # m + 1
        BY <1>1, <1>7, <3>1
      <4> QED
        BY <1>5, <2>3, <3>2, <4>1
    <3> QED
      BY <1>2, <1>8, <2>3, <3>2, <3>5, <3>6, EntryAssumption DEF FrameOK
  <2>4. CASE s = esp /\ k = m + 1
    <3>1. n = Syscall => k = 1
      BY <1>1, <2>4 DEF Outside
    <3>2. stack'[s][k] = i /\ k = Len(stack'[s]) /\ s = esp'
      BY <1>2, <1>5, <2>4
    <3> QED
      BY <1>4, <3>1, <3>2, EntryAssumption DEF FrameOK
  <2> QED
    BY <1>1, <1>5, <2>1, <2>2, <2>3, <2>4
<1>13. TypeInv' /\ Processor'
  BY <1>1, <1>2, <1>5, <1>6 DEF TypeInv, Processor
<1>14. Depths(used)'
  <2> DEFINE c == Cardinality(Thread \ used)
  <2>1. c \in Nat
    BY OutOfUse
  <2>2. (\A s \in Thread : Len(stack[s]) <= 2 + c) /\ m <= 1 + c
    BY DEF Depths
  <2>3. n = Syscall => m = 0
    BY DEF Outside
  <2> HIDE DEF c, m
  <2>4. m + 1 <= 2 + c /\ (enabled' => m + 1 <= 1 + c)
    BY <1>1, <2>1, <2>2, <2>3
  <2> USE DEF m
  <2>5. (\A s \in Thread : Len(stack'[s]) <= 2 + c) /\ (enabled' => Len(stack'[esp']) <= 1 + c)
    BY <1>2, <1>5, <2>2, <2>4
  <2> QED
    BY <2>5 DEF Depths, c
<1> QED
  BY <1>11, <1>12, <1>13, <1>14 DEF IInv, Core

(* Hardware interrupts come when they are enabled.                         *)
LEMMA HardwareInterruptKeeps ==
  ASSUME EntryWindow = FALSE, Core,
         NEW used \in SUBSET Thread, NEW holder \in [Thread -> Thread],
         Chains(used, holder), Depths(used), NEW n \in Irq, HardwareInterrupt(n)
  PROVE  IInv'
<1>1. ~Entering /\ enabled /\ Vector(n) /\ enabled' = FALSE
  BY DEF HardwareInterrupt, BehindGate
<1> QED
  BY <1>1, VectorKeeps, EntryAssumption

(* System calls come from outside of the kernel.                           *)
LEMMA SystemCallKeeps ==
  ASSUME Core, NEW used \in SUBSET Thread, NEW holder \in [Thread -> Thread],
         Chains(used, holder), Depths(used), SystemCall
  PROVE  IInv'
<1>1. Outside /\ enabled /\ Vector(Syscall) /\ enabled' \in BOOLEAN
  BY DEF SystemCall, Core, Processor
<1> QED
  BY <1>1, VectorKeeps, EntryAssumption

(* iret goes back to what the interrupt came upon.                         *)
LEMMA ReturnKeeps ==
  ASSUME Core, NEW used \in SUBSET Thread, NEW holder \in [Thread -> Thread],
         Chains(used, holder), Depths(used), Return
  PROVE  IInv'
<1> DEFINE m == Len(stack[esp])
<1>1. ~Outside /\ Top.stage = "resumed" /\ TypeInv /\ Frames /\ Processor /\ esp \in Thread
  BY DEF Return, At, Core, TypeInv
<1>2. m \in Nat /\ m >= 1 /\ Top = stack[esp][m] /\ FrameOK(esp, m)
  <2>1. m \in Nat /\ m >= 1
    BY <1>1, TopOfStack
  <2> QED
    BY <1>1, <2>1 DEF Frames, Top
<1>3. /\ esp' = esp /\ esp0' = esp0 /\ current' = current /\ alive' = alive /\ context' = context
      /\ byte' = byte /\ enabled' = TRUE
  BY <1>2 DEF Return, FrameOK
<1>4. /\ stack' \in [Thread -> Seq(Interrupt)]
      /\ Len(stack'[esp]) = m - 1
      /\ \A k \in 1 .. (m - 1) : stack'[esp][k] = stack[esp][k]
      /\ \A s \in Thread : s # esp => stack'[s] = stack[s]
  BY PopEffect, <1>1 DEF Return
<1>5. ASSUME m > 1
      PROVE  /\ m - 1 \in 1 .. m /\ FrameOK(esp, m - 1)
             /\ \/ stack[esp][m - 1].stage = "resumed"
                \/ stack[esp][m - 1].number = Syscall /\ stack[esp][m - 1].stage \in {"pushed", "leaving"}
  <2>1. m - 1 \in 1 .. m /\ m - 1 # m
    BY <1>2, <1>5
  <2>2. FrameOK(esp, m - 1)
    BY <1>1, <2>1 DEF Frames
  <2> QED
    BY <2>1, <2>2 DEF FrameOK
<1>6. ~Switching /\ ~Switching'
  <2>1. ~Switching
    BY <1>1 DEF Switching, At
  <2>2. ASSUME Switching' PROVE FALSE
    <3>1. m > 1 /\ Top' = stack[esp][m - 1]
      <4>0. stack'[esp] \in Seq(Interrupt) /\ stack'[esp] # <<>>
        BY <1>1, <1>3, <1>4, <2>2 DEF Switching, At, Outside
      <4>1. Len(stack'[esp]) # 0 /\ Len(stack'[esp]) \in Nat
        BY <4>0
      <4>. HIDE DEF m
      <4>3. m - 1 # 0 /\ m - 1 \in Nat
        BY <1>4, <4>1
      <4>2. m - 1 \in 1 .. (m - 1)
        BY <1>2, <4>3
      <4> QED
        BY <1>2, <1>3, <1>4, <4>2 DEF Top
    <3> QED
      BY <1>5, <2>2, <3>1, EntryAssumption DEF Switching, At
  <2> QED
    BY <2>1, <2>2
<1>7. esp \in used /\ holder[esp] = current
  BY <1>1, <1>6 DEF Chains, BaseOf, Base, Processor
<1>8. esp \notin alive => Len(stack'[esp]) >= 1 /\ stack'[esp][1] = stack[esp][1]
  <2> HIDE DEF m
  <2>0. m # 1 => 1 \in 1 .. (m - 1) /\ m - 1 >= 1
    BY <1>2
  <2> USE DEF m
  <2>3. m # 1 => Len(stack'[esp]) >= 1 /\ stack'[esp][1] = stack[esp][1]
    BY <1>4, <2>0
  <2> SUFFICES ASSUME esp \notin alive PROVE m # 1
    BY <2>3
  <2>1. stack[esp][1].stage = "leaving"
    BY <1>7 DEF Chains
  <2> QED
    BY <1>1, <1>2, <2>1
<1>9. Chains(used, holder)'
  BY ChainsKept, <1>1, <1>3, <1>4, <1>6, <1>8
<1>10. Frames'
  <2> SUFFICES ASSUME NEW s \in Thread, NEW k \in 1 .. Len(stack'[s]) PROVE FrameOK(s, k)'
    BY DEF Frames
  <2>1. CASE s # esp
    BY OtherFrames, <1>1, <1>3, <1>4, <2>1
  <2>2. CASE s = esp /\ k < m - 1
    BY OtherFrames, <1>1, <1>2, <1>3, <1>4, <2>2
  <2>3. CASE s = esp /\ k = m - 1
    <3>1. m > 1
      BY <1>2, <2>3
    <3>0. m - 1 \in 1 .. (m - 1) /\ m - 1 # m
      BY <1>2, <3>1
    <3>2. stack'[s][k] = stack[esp][m - 1] /\ k = Len(stack'[s]) /\ m - 1 # m
      BY <1>4, <2>3, <3>0
    <3> QED
      BY <1>3, <1>5, <2>3, <3>1, <3>2, EntryAssumption DEF FrameOK
  <2> QED
    BY <1>2, <1>4, <2>1, <2>2, <2>3
<1>11. TypeInv' /\ Processor'
  BY <1>1, <1>3, <1>4 DEF TypeInv, Processor
<1>12. Depths(used)'
  <2> DEFINE c == Cardinality(Thread \ used)
  <2>1. c \in Nat
    BY OutOfUse
  <2>2. \A s \in Thread : Len(stack[s]) <= 2 + c
    BY DEF Depths
  <2>3. m <= 2 + c
    BY <1>1, <2>2
  <2> HIDE DEF c, m
  <2>4. m - 1 <= 2 + c /\ m - 1 <= 1 + c
    BY <1>2, <2>1, <2>3
  <2> USE DEF m
  <2>5. (\A s \in Thread : Len(stack'[s]) <= 2 + c) /\ Len(stack'[esp']) <= 1 + c
    BY <1>3, <1>4, <2>2, <2>4
  <2> QED
    BY <2>5 DEF Depths, c
<1> QED
  BY <1>9, <1>10, <1>11, <1>12 DEF IInv, Core

----------------------------------------------------------------------------
(* What the three steps that change where threads are have in common.      *)
LEMMA NextOfDead ==
  ASSUME TypeInv, NEW used \in SUBSET Thread, NEW holder \in [Thread -> Thread],
         Chains(used, holder), NEW s \in used \ alive
  PROVE  /\ Len(stack[s]) >= 1 /\ 1 \in 1 .. Len(stack[s]) /\ stack[s][1] \in Interrupt
         /\ stack[s][1].next \in Place
<1>1. stack[s] \in Seq(Interrupt) /\ Len(stack[s]) >= 1
  BY DEF TypeInv, Chains
<1>2. 1 \in 1 .. Len(stack[s]) /\ stack[s][1] \in Interrupt
  BY <1>1
<1> QED
  BY <1>1, <1>2 DEF Interrupt

(* The stack on which a handler runs, and what SetTop does to it.          *)
LEMMA Handling ==
  ASSUME Core, NEW used \in SUBSET Thread, NEW holder \in [Thread -> Thread],
         Chains(used, holder), At("handled")
  PROVE  /\ ~Outside /\ ~Switching /\ Top \in Interrupt /\ Here \in Place /\ esp \in Thread
         /\ Len(stack[esp]) \in Nat /\ Len(stack[esp]) >= 1
         /\ Top = stack[esp][Len(stack[esp])] /\ FrameOK(esp, Len(stack[esp]))
         /\ Top.given = Top.number /\ Top.stage = "handled"
         /\ esp \in used /\ holder[esp] = current /\ current \in alive
         /\ \A s \in used \ alive : stack[s][1].next.owner # esp
         /\ esp \notin alive => Len(stack[esp]) >= 2
<1> DEFINE m == Len(stack[esp])
<1>1. ~Outside /\ Top.stage = "handled" /\ TypeInv /\ Frames /\ Processor /\ esp \in Thread
  BY DEF At, Core, TypeInv
<1>2. m \in Nat /\ m >= 1 /\ Top \in Interrupt /\ Here \in Place
  BY <1>1, TopOfStack
<1>3. Top = stack[esp][m] /\ m \in 1 .. m
  BY <1>2 DEF Top
<1>4. FrameOK(esp, m) /\ Top.given = Top.number
  BY <1>1, <1>3 DEF Frames, FrameOK
<1>5. ~Switching
  BY <1>1 DEF Switching, At
<1>6. /\ esp \in used /\ holder[esp] = current /\ current \in alive
      /\ \A s \in used \ alive : stack[s][1].next.owner # esp
  BY <1>1, <1>5 DEF Chains, BaseOf, Base, Processor
<1>7. esp \notin alive => m # 1
  BY <1>1, <1>3, <1>6 DEF Chains
<1> HIDE DEF m
<1>8. esp \notin alive => m >= 2
  BY <1>2, <1>7
<1> USE DEF m
<1> QED
  BY <1>1, <1>2, <1>3, <1>4, <1>5, <1>6, <1>8

(* A place on a stack that the step does not touch stays ready.            *)
LEMMA StaysReady ==
  ASSUME NEW p \in Place, Ready(p), stack'[p.owner] = stack[p.owner],
         p.owner \in alive => p.owner \in alive'
  PROVE  Ready(p)'
BY DEF Ready

(* The timer goes on with any thread that has not exited.                  *)
LEMMA HandleTimerKeeps ==
  ASSUME Core, NEW used \in SUBSET Thread, NEW holder \in [Thread -> Thread],
         Chains(used, holder), Depths(used), HandleTimer
  PROVE  IInv'
<1> DEFINE m == Len(stack[esp])
<1>1. PICK t \in alive : Take(t) /\ Leave(context'[t])
  BY DEF HandleTimer
<1> DEFINE i == [Top EXCEPT !.stage = "leaving", !.next = context'[t]]
<1>2. At("handled") /\ TypeInv /\ Frames /\ Processor /\ t \in Thread /\ Top.number = Timer /\ Timer \in Irq
  BY Handling, EntryAssumption DEF HandleTimer, Core, TypeInv
<1>3. /\ ~Outside /\ ~Switching /\ Top \in Interrupt /\ Here \in Place /\ esp \in Thread
      /\ m \in Nat /\ m >= 1 /\ Top = stack[esp][m] /\ FrameOK(esp, m)
      /\ Top.given = Top.number /\ Top.stage = "handled"
      /\ esp \in used /\ holder[esp] = current /\ current \in alive
      /\ \A s \in used \ alive : stack[s][1].next.owner # esp
      /\ esp \notin alive => m >= 2
  BY <1>2, Handling
<1>4. /\ esp' = esp /\ byte' = byte /\ alive' = alive /\ current' = t /\ enabled' = Top.wasEnabled
      /\ esp0' = NewTss(t) /\ SetTop(i)
      /\ context' = [context EXCEPT ![current] = Here]
  BY <1>1 DEF HandleTimer, Take, Leave, Restored, ContextHere
<1>5. /\ context' \in [Thread -> Place] /\ context'[current] = Here
      /\ \A u \in Thread : u # current => context'[u] = context[u]
  BY <1>2, <1>3, <1>4 DEF TypeInv
<1>6. i \in Interrupt
  BY <1>2, <1>3, <1>5 DEF Interrupt
<1>7. /\ i.stage = "leaving" /\ i.number = Timer /\ i.flag = Top.flag /\ i.given = Top.given
      /\ i.next = context'[t]
  BY <1>2, <1>3 DEF Interrupt
<1> HIDE DEF i
<1>8. /\ stack' \in [Thread -> Seq(Interrupt)]
      /\ \A s \in Thread : Len(stack'[s]) = Len(stack[s])
      /\ \A s \in Thread : \A k \in 1 .. Len(stack[s]) :
           stack'[s][k] = IF s = esp /\ k = m THEN i ELSE stack[s][k]
      /\ \A s \in Thread : s # esp => stack'[s] = stack[s]
  BY SetTopEffect, <1>2, <1>3, <1>4, <1>6
<1>9. Len(stack'[esp]) = m /\ stack'[esp][m] = i /\ ~Outside' /\ Top' = i
  <2>1. m \in 1 .. m
    BY <1>3
  <2>2. Len(stack'[esp]) = m /\ stack'[esp][m] = i
    BY <1>3, <1>8, <2>1
  <2> QED
    BY <1>3, <1>4, <2>2 DEF Outside, Top
<1>10. ~enabled'
  BY <1>2, <1>3, <1>4 DEF FrameOK
<1>11. \A u \in alive \ {current} : context[u].owner # esp /\ Ready(context[u]) /\ context[u] \in Place
  BY <1>2, <1>3 DEF Chains, BaseOf, TypeInv
<1>12. t = current => ~Switching' /\ i.next = Here
  BY <1>4, <1>5, <1>7, <1>9 DEF Switching, Here
<1>13. t # current => Switching' /\ i.next = context[t]
  BY <1>2, <1>4, <1>5, <1>7, <1>9, <1>11 DEF Switching, At
<1>14. \A u \in alive : BaseOf(u)' = BaseOf(u)
  <2> TAKE u \in alive
  <2>1. BaseOf(u) = IF u = current THEN esp ELSE context[u].owner
    BY <1>3 DEF BaseOf, Base
  <2>2. CASE u = t /\ t = current
    BY <1>4, <1>12, <2>1, <2>2 DEF BaseOf, Base
  <2>3. CASE u = t /\ t # current
    BY <1>4, <1>9, <1>13, <2>1, <2>3 DEF BaseOf, Base
  <2>4. CASE u # t /\ u = current
    BY <1>4, <1>5, <2>1, <2>4 DEF BaseOf, Here
  <2>5. CASE u # t /\ u # current
    BY <1>2, <1>4, <1>5, <2>1, <2>5 DEF BaseOf, TypeInv
  <2> QED
    BY <2>2, <2>3, <2>4, <2>5
<1>15. \A s \in used \ alive : stack'[s][1] = stack[s][1] /\ Len(stack'[s]) = Len(stack[s])
  <2> TAKE s \in used \ alive
  <2>1. 1 \in 1 .. Len(stack[s])
    BY <1>2, NextOfDead
  <2>2. s = esp => m # 1
    BY <1>3
  <2> QED
    BY <1>8, <2>1, <2>2
<1>16. \A s \in used \ alive : Ready(stack[s][1].next)'
  <2> TAKE s \in used \ alive
  <2>1. stack[s][1].next \in Place /\ Ready(stack[s][1].next) /\ stack[s][1].next.owner # esp
    BY <1>2, <1>3, NextOfDead DEF Chains
  <2>2. stack[s][1].next.owner \in Thread
    BY <2>1 DEF Place
  <2>3. stack'[s][1].next = stack[s][1].next
    BY <1>15
  <2> QED
    BY <1>4, <1>8, <2>1, <2>2, <2>3 DEF Ready
<1>17. Ready(Here)'
  <2>1. Here' = [owner |-> esp, depth |-> m]
    BY <1>4, <1>9 DEF Here
  <2> QED
    BY <1>3, <1>4, <1>7, <1>9, <2>1 DEF Ready
<1>18. \A u \in alive \ {current} : Ready(context[u])'
  <2> TAKE u \in alive \ {current}
  <2>1. u \in Thread /\ context[u].owner \in Thread
    BY <1>2, <1>11 DEF TypeInv, Place
  <2>2. context'[u] = context[u] /\ stack'[context[u].owner] = stack[context[u].owner]
    BY <1>5, <1>8, <1>11, <2>1
  <2> QED
    BY <1>4, <1>11, <2>2 DEF Ready
<1>19. \A u \in alive' \ {current'} : Ready(context[u])'
  <2> TAKE u \in alive' \ {current'}
  <2>1. CASE u = current
    <3>1. context'[u] = [owner |-> esp, depth |-> m]
      BY <1>5, <2>1 DEF Here
    <3> QED
      BY <1>3, <1>4, <1>7, <1>9, <3>1 DEF Ready
  <2>2. CASE u # current
    BY <1>4, <1>18, <2>2
  <2> QED
    BY <2>1, <2>2
<1>20. Switching' => Ready(Top.next)'
  <2> SUFFICES ASSUME Switching' PROVE Ready(Top.next)'
    OBVIOUS
  <2>1. t # current /\ Top'.next = context[t]
    BY <1>9, <1>12, <1>13
  <2>2. Ready(context[t])' /\ context'[t] = context[t]
    BY <1>2, <1>5, <1>18, <2>1
  <2> QED
    BY <2>1, <2>2 DEF Ready
<1>21. Chains(used, holder)'
  <2>1. alive' \subseteq used /\ (\A u \in alive' : holder[u] = u) /\ (\A s \in used : holder[s] \in alive')
    BY <1>4 DEF Chains
  <2>2. \A s \in used \ alive' :
       /\ Len(stack'[s]) >= 1
       /\ stack'[s][1].number = Syscall /\ stack'[s][1].stage = "leaving"
       /\ Ready(stack[s][1].next)'
       /\ stack'[s][1].next.owner \in used \ {s}
       /\ holder[stack'[s][1].next.owner] = holder[s]
    BY <1>4, <1>15, <1>16 DEF Chains
  <2>3. \A r, s \in used \ alive' : stack'[r][1].next.owner = stack'[s][1].next.owner => r = s
    BY <1>4, <1>15 DEF Chains
  <2>4. \A u \in alive' :
       /\ BaseOf(u)' \in used /\ holder[BaseOf(u)'] = u
       /\ \A s \in used \ alive' : stack'[s][1].next.owner # BaseOf(u)'
    BY <1>4, <1>14, <1>15 DEF Chains
  <2> QED
    BY <1>19, <1>20, <2>1, <2>2, <2>3, <2>4 DEF Chains
<1>22. Frames'
  <2> SUFFICES ASSUME NEW s \in Thread, NEW k \in 1 .. Len(stack[s]) PROVE FrameOK(s, k)'
    BY <1>8 DEF Frames
  <2>1. CASE ~(s = esp /\ k = m)
    BY OtherFrames, <1>2, <1>4, <1>8, <2>1
  <2>2. CASE s = esp /\ k = m
    <3>1. stack'[s][k] = i /\ k = Len(stack'[s]) /\ s = esp'
      BY <1>4, <1>9, <2>2
    <3>2. ~Switching' => i.next = [owner |-> s, depth |-> k]
      BY <1>12, <1>13, <2>2 DEF Here
    <3> QED
      BY <1>2, <1>3, <1>7, <1>10, <3>1, <3>2, EntryAssumption DEF FrameOK
  <2> QED
    BY <2>1, <2>2
<1>23. TypeInv'
  <2>1. enabled' \in BOOLEAN
    BY <1>3, <1>4 DEF Interrupt
  <2>2. esp0' \in Thread
    BY <1>2, <1>4 DEF NewTss, TypeInv
  <2> QED
    BY <1>2, <1>4, <1>5, <1>8, <2>1, <2>2 DEF TypeInv
<1>24. Processor'
  BY <1>4, <1>9 DEF Processor, NewTss
<1>25. Depths(used)'
  BY <1>2, <1>4, <1>8, <1>10, DepthsKept
<1> QED
  BY <1>21, <1>22, <1>23, <1>24, <1>25 DEF IInv, Core

(* The stack of the thread that exits leads to that of the one that goes on. *)
LEMMA HandleExitKeeps ==
  ASSUME Core, NEW used \in SUBSET Thread, NEW holder \in [Thread -> Thread],
         Chains(used, holder), Depths(used), HandleExit
  PROVE  IInv'
<1> DEFINE m == Len(stack[esp])
<1>1. PICK t \in alive' : Take(t) /\ Leave(context[t])
  BY DEF HandleExit
<1>2. At("handled") /\ TypeInv /\ Frames /\ Processor
  BY DEF HandleExit, Core
<1>3. /\ ~Outside /\ ~Switching /\ Top \in Interrupt /\ esp \in Thread
      /\ m \in Nat /\ m >= 1 /\ Top = stack[esp][m] /\ FrameOK(esp, m)
      /\ Top.given = Top.number /\ Top.stage = "handled"
      /\ esp \in used /\ holder[esp] = current /\ current \in alive
      /\ \A s \in used \ alive : stack[s][1].next.owner # esp
      /\ esp \notin alive => m >= 2
  BY <1>2, Handling
<1>4. Top.number = Syscall /\ m = 1
  BY <1>3 DEF HandleExit, FrameOK
<1>5. esp = current
  BY <1>3, <1>4 DEF Chains
<1>6. alive' \subseteq alive /\ current \notin alive' /\ t # current /\ t \in alive /\ t \in Thread
  BY <1>2 DEF HandleExit, TypeInv
<1>7. /\ esp' = esp /\ byte' = byte /\ current' = t /\ enabled' = Top.wasEnabled
      /\ esp0' = NewTss(t) /\ SetTop([Top EXCEPT !.stage = "leaving", !.next = context[t]])
      /\ context' = context
  BY <1>1 DEF HandleExit, Take, Leave, Restored
<1>8. context \in [Thread -> Place] /\ context[t] \in Place
  BY <1>2, <1>6 DEF TypeInv
<1>9. PICK i \in Interrupt : i = [Top EXCEPT !.stage = "leaving", !.next = context[t]]
  BY <1>3, <1>8 DEF Interrupt
<1>10. /\ i.stage = "leaving" /\ i.number = Syscall /\ i.flag = Top.flag /\ i.given = Top.given
       /\ i.next = context[t]
  BY <1>3, <1>4, <1>8, <1>9 DEF Interrupt
<1>11. /\ stack' \in [Thread -> Seq(Interrupt)]
       /\ \A s \in Thread : Len(stack'[s]) = Len(stack[s])
       /\ \A s \in Thread : \A k \in 1 .. Len(stack[s]) :
            stack'[s][k] = IF s = esp /\ k = m THEN i ELSE stack[s][k]
       /\ \A s \in Thread : s # esp => stack'[s] = stack[s]
  BY SetTopEffect, <1>2, <1>3, <1>7, <1>9
<1>12. Len(stack'[esp]) = 1 /\ stack'[esp][1] = i /\ ~Outside' /\ Top' = i
  <2>1. m \in 1 .. m
    BY <1>3
  <2>2. Len(stack'[esp]) = m /\ stack'[esp][m] = i
    BY <1>3, <1>11, <2>1
  <2> QED
    BY <1>4, <1>7, <2>2 DEF Outside, Top
<1>13. ~Switching'
  BY <1>10, <1>12, EntryAssumption DEF Switching
<1>14. \A u \in alive \ {current} : context[u].owner \in used /\ holder[context[u].owner] = u
                                    /\ context[u].owner # esp /\ Ready(context[u]) /\ context[u] \in Place
                                    /\ context[u].owner \in Thread
                                    /\ \A s \in used \ alive : stack[s][1].next.owner # context[u].owner
  BY <1>2, <1>3 DEF Chains, BaseOf, TypeInv, Place
<1>15. \A u \in alive \ {current} : context[u].owner \in alive => context[u].owner = u
  BY <1>14 DEF Chains
<1>U. PICK used2 \in SUBSET Thread : used2 = {s \in used : holder[s] \in alive'} \union {esp}
  BY <1>3
<1>H. PICK holder2 \in [Thread -> Thread] : holder2 = [holder EXCEPT ![esp] = t]
  BY <1>3, <1>6
<1>16. \A s \in used2 \ alive' : s # esp => s \in used \ alive /\ holder[s] \in alive'
  BY <1>U DEF Chains
<1>17. \A s \in used2 : s # esp => s \in used /\ stack'[s] = stack[s] /\ holder2[s] = holder[s]
  BY <1>11, <1>U, <1>H
<1>18. holder2[esp] = t /\ esp \in used2
  BY <1>3, <1>6, <1>U, <1>H
<1>18a. \A s \in used : s # esp /\ holder[s] \in alive' => s \in used2
  BY <1>U
<1>19. \A u \in alive' \ {t} : Ready(context[u])'
  <2> TAKE u \in alive' \ {t}
  <2>1. u \in alive \ {current}
    BY <1>6
  <2>2. stack'[context[u].owner] = stack[context[u].owner] /\ (context[u].owner \in alive => context[u].owner \in alive')
    BY <1>11, <1>14, <1>15, <2>1
  <2> QED
    BY <1>7, <1>14, <2>1, <2>2 DEF Ready
<1>20. Ready(i.next)' /\ i.next.owner \in used2 \ {esp} /\ holder2[i.next.owner] = t
  <2>1. t \in alive \ {current}
    BY <1>6
  <2>2. stack'[context[t].owner] = stack[context[t].owner] /\ (context[t].owner \in alive => context[t].owner \in alive')
    BY <1>11, <1>14, <1>15, <2>1
  <2>3. Ready(i.next)'
    BY <1>10, <1>14, <2>1, <2>2 DEF Ready
  <2> QED
    BY <1>1, <1>10, <1>14, <1>17, <1>18a, <2>1, <2>3
<1>21. \A s \in used2 \ alive' :
         /\ Len(stack'[s]) >= 1
         /\ stack'[s][1].number = Syscall /\ stack'[s][1].stage = "leaving"
         /\ Ready(stack[s][1].next)'
         /\ stack'[s][1].next.owner \in used2 \ {s}
         /\ holder2[stack'[s][1].next.owner] = holder2[s]
  <2> SUFFICES ASSUME NEW s \in used2 \ alive'
               PROVE  /\ Len(stack'[s]) >= 1
                      /\ stack'[s][1].number = Syscall /\ stack'[s][1].stage = "leaving"
                      /\ Ready(stack[s][1].next)'
                      /\ stack'[s][1].next.owner \in used2 \ {s}
                      /\ holder2[stack'[s][1].next.owner] = holder2[s]
    OBVIOUS
  <2>1. CASE s = esp
    <3>1. Ready(stack[s][1].next)'
      BY <1>12, <1>20, <2>1 DEF Ready
    <3> QED
      BY <1>10, <1>12, <1>18, <1>20, <2>1, <3>1
  <2>2. CASE s # esp
    <3> DEFINE o == stack[s][1].next.owner
    <3>1. s \in used \ alive /\ holder[s] \in alive' /\ stack'[s] = stack[s] /\ holder2[s] = holder[s]
      BY <1>16, <1>17, <2>2
    <3>2. /\ Len(stack[s]) >= 1 /\ stack[s][1].number = Syscall /\ stack[s][1].stage = "leaving"
          /\ Ready(stack[s][1].next) /\ o \in used \ {s} /\ holder[o] = holder[s] /\ o # esp
      BY <1>3, <3>1 DEF Chains
    <3>3. o \in used2 \ {s} /\ holder2[o] = holder2[s] /\ stack'[o] = stack[o]
      BY <1>11, <1>17, <1>18a, <3>1, <3>2
    <3>4. o \in alive => o \in alive'
      BY <3>1, <3>2 DEF Chains
    <3>5. Ready(stack[s][1].next)'
      BY <3>1, <3>2, <3>3, <3>4 DEF Ready
    <3> QED
      BY <3>1, <3>2, <3>3, <3>5
  <2> QED
    BY <2>1, <2>2
<1>22. \A s \in used2 \ alive' : s # esp => stack'[s][1].next.owner # context[t].owner
  BY <1>6, <1>14, <1>16, <1>17
<1>23. \A r, s \in used2 \ alive' : stack'[r][1].next.owner = stack'[s][1].next.owner => r = s
  <2> SUFFICES ASSUME NEW r \in used2 \ alive', NEW s \in used2 \ alive',
                      stack'[r][1].next.owner = stack'[s][1].next.owner
               PROVE  r = s
    OBVIOUS
  <2>1. CASE r = esp \/ s = esp
    BY <1>10, <1>12, <1>22, <2>1
  <2>2. CASE r # esp /\ s # esp
    <3>1. r \in used \ alive /\ s \in used \ alive /\ stack'[r] = stack[r] /\ stack'[s] = stack[s]
      BY <1>16, <1>17, <2>2
    <3> QED
      BY <3>1 DEF Chains
  <2> QED
    BY <2>1, <2>2
<1>24. \A u \in alive' :
         /\ BaseOf(u)' \in used2 /\ holder2[BaseOf(u)'] = u
         /\ \A s \in used2 \ alive' : stack'[s][1].next.owner # BaseOf(u)'
  <2> SUFFICES ASSUME NEW u \in alive'
               PROVE  /\ BaseOf(u)' \in used2 /\ holder2[BaseOf(u)'] = u
                      /\ \A s \in used2 \ alive' : stack'[s][1].next.owner # BaseOf(u)'
    OBVIOUS
  <2>1. CASE u = t
    <3>1. BaseOf(u)' = esp
      BY <1>7, <1>13, <2>1 DEF BaseOf, Base
    <3>2. \A s \in used2 \ alive' : stack'[s][1].next.owner # esp
      BY <1>3, <1>10, <1>12, <1>16, <1>17, <1>20
    <3> QED
      BY <1>18, <2>1, <3>1, <3>2
  <2>2. CASE u # t
    <3>1. u \in alive \ {current} /\ BaseOf(u)' = context[u].owner
      BY <1>6, <1>7, <2>2 DEF BaseOf
    <3>2. context[u].owner \in used2 /\ holder2[context[u].owner] = u
      BY <1>14, <1>17, <1>18a, <3>1
    <3>3. context[u].owner # context[t].owner
      BY <1>6, <1>14, <2>2, <3>1
    <3>4. \A s \in used2 \ alive' : stack'[s][1].next.owner # context[u].owner
      BY <1>10, <1>12, <1>14, <1>16, <1>17, <3>1, <3>3
    <3> QED
      BY <3>1, <3>2, <3>4
  <2> QED
    BY <2>1, <2>2
<1>25. /\ alive' \subseteq used2 /\ \A u \in alive' : holder2[u] = u
       /\ \A s \in used2 : holder2[s] \in alive'
  <2>1. esp \notin alive'
    BY <1>5, <1>6
  <2>2. \A u \in alive' : u \in used /\ holder[u] = u
    BY <1>6 DEF Chains
  <2>3. \A s \in used2 : s # esp => holder[s] \in alive'
    BY <1>U
  <2> QED
    BY <1>1, <1>17, <1>18, <1>18a, <2>1, <2>2, <2>3
<1>26. Chains(used2, holder2)'
  BY <1>7, <1>13, <1>19, <1>21, <1>23, <1>24, <1>25 DEF Chains
<1>27. Frames'
  <2> SUFFICES ASSUME NEW s \in Thread, NEW k \in 1 .. Len(stack[s]) PROVE FrameOK(s, k)'
    BY <1>11 DEF Frames
  <2>1. CASE ~(s = esp /\ k = m)
    BY OtherFrames, <1>2, <1>6, <1>7, <1>11, <2>1
  <2>2. CASE s = esp /\ k = m
    <3>1. stack'[s][k] = i /\ k = Len(stack'[s]) /\ k = 1 /\ s = esp' /\ s \notin alive'
      BY <1>4, <1>5, <1>6, <1>7, <1>12, <2>2
    <3> QED
      BY <1>3, <1>4, <1>10, <3>1, EntryAssumption DEF FrameOK
  <2> QED
    BY <2>1, <2>2
<1>28. TypeInv'
  <2>1. enabled' \in BOOLEAN
    BY <1>3, <1>7 DEF Interrupt
  <2>2. esp0' \in Thread
    BY <1>2, <1>6, <1>7 DEF NewTss, TypeInv
  <2> QED
    BY <1>2, <1>6, <1>7, <1>11, <2>1, <2>2 DEF TypeInv
<1>29. Processor'
  BY <1>1, <1>7, <1>12 DEF Processor, NewTss
<1>30. Depths(used2)'
  <2>1. used2 \subseteq used
    BY <1>3, <1>U
  <2> QED
    BY <1>2, <1>4, <1>7, <1>11, <2>1, DepthsKept
<1> QED
  BY <1>18, <1>26, <1>27, <1>28, <1>29, <1>30 DEF IInv, Core

(* mov esp, eax goes to the place that the interrupt on top leads to.      *)
LEMMA SwitchStackKeeps ==
  ASSUME Core, NEW used \in SUBSET Thread, NEW holder \in [Thread -> Thread],
         Chains(used, holder), Depths(used), SwitchStack
  PROVE  IInv'
<1> DEFINE m == Len(stack[esp])
<1>1. /\ At("leaving") /\ ~Outside /\ TypeInv /\ Frames /\ Processor /\ esp \in Thread
  BY DEF SwitchStack, At, Core, TypeInv
<1>2. m \in Nat /\ m >= 1 /\ Top \in Interrupt /\ Here \in Place /\ Top = stack[esp][m]
  BY <1>1, TopOfStack DEF Top
<1>P. PICK p \in Place : p = Top.next
  BY <1>2 DEF Interrupt
<1>3. p.owner \in Thread
  BY DEF Place
<1> DEFINE dying == ~Switching /\ p # Here
<1>U. PICK used2 \in SUBSET Thread : used2 = IF dying THEN used \ {esp} ELSE used
  OBVIOUS
<1>4. m \in 1 .. m /\ FrameOK(esp, m) /\ Top.stage = "leaving"
  BY <1>1, <1>2 DEF Frames, At
<1>5. dying => esp \in used \ alive /\ m = 1
  BY WaysOut, <1>1, <1>P
<1>6. current \in alive /\ Base \in used /\ holder[Base] = current
      /\ \A s \in used \ alive : stack[s][1].next.owner # Base
  BY <1>1 DEF Chains, BaseOf, Processor
<1>7. p.owner = IF dying THEN p.owner ELSE Base
  BY <1>P DEF Base, Here
<1>8. dying => p.owner \in used \ {esp} /\ holder[p.owner] = current /\ Base = esp /\ p = stack[esp][1].next
  <2> SUFFICES ASSUME dying
               PROVE  p.owner \in used \ {esp} /\ holder[p.owner] = current /\ Base = esp /\ p = stack[esp][1].next
    OBVIOUS
  <2>1. Base = esp /\ p = stack[esp][1].next
    BY <1>2, <1>5, <1>P DEF Base
  <2> QED
    BY <1>5, <1>6, <2>1 DEF Chains
<1>9. esp \notin alive /\ ~Switching /\ ~dying => m >= 2
  <2> HIDE DEF m
  <2>0. m # 1 => m >= 2
    BY <1>2
  <2> SUFFICES ASSUME esp \notin alive, ~Switching, p = Here, m = 1 PROVE FALSE
    BY <2>0
  <2> USE DEF m
  <2>1. esp \in used \ alive
    BY <1>6 DEF Base
  <2> QED
    BY <1>2, <1>P, <2>1 DEF Chains, Here
<1>10. Ready(p)
  <2>1. CASE Switching
    BY <1>P, <2>1 DEF Chains, Ready
  <2>2. CASE dying
    BY <1>5, <1>8, <2>2 DEF Chains, Ready
  <2>3. CASE ~Switching /\ p = Here
    BY <1>2, <1>4, <1>9, <2>3 DEF Ready, Here
  <2> QED
    BY <2>1, <2>2, <2>3
<1>11. /\ esp' = p.owner /\ enabled' = enabled /\ byte' = byte /\ esp0' = esp0 /\ context' = context
       /\ current' = current /\ alive' = alive
       /\ stack' = [stack EXCEPT ![p.owner] =
                     [SubSeq(stack[p.owner], 1, p.depth) EXCEPT ![p.depth].stage = "resumed"]]
  BY <1>P DEF SwitchStack
<1>11a. esp' = p.owner /\ alive' = alive /\ context' = context /\ current' = current
  BY <1>11
<1>12. /\ stack' \in [Thread -> Seq(Interrupt)]
       /\ \A s \in Thread : Len(stack'[s]) = Len(stack[s])
       /\ \A s \in Thread : s # p.owner => stack'[s] = stack[s]
       /\ \A k \in 1 .. Len(stack[p.owner]) :
            stack'[p.owner][k] = IF k = p.depth THEN [stack[p.owner][k] EXCEPT !.stage = "resumed"]
                                 ELSE stack[p.owner][k]
  BY ResumeEffect, <1>1, <1>3, <1>10, <1>11
<1>13. p.depth = Len(stack[p.owner]) /\ p.depth \in 1 .. Len(stack[p.owner])
       /\ (p.owner \notin alive => p.depth >= 2)
       /\ stack[p.owner][p.depth] \in Interrupt
  <2>1. stack[p.owner] \in Seq(Interrupt) /\ p.depth \in Nat
    BY <1>1, <1>3 DEF TypeInv, Place
  <2>2. p.depth = Len(stack[p.owner]) /\ p.depth >= 1 /\ (p.owner \notin alive => p.depth >= 2)
    BY <1>10 DEF Ready
  <2>3. p.depth \in 1 .. Len(stack[p.owner])
    BY <2>1, <2>2
  <2> QED
    BY <2>1, <2>2, <2>3
<1> DEFINE f == stack[p.owner][p.depth]
<1>I. PICK i \in Interrupt : i = [f EXCEPT !.stage = "resumed"]
  BY <1>13 DEF Interrupt
<1>14. /\ i.stage = "resumed" /\ i.number = f.number /\ i.flag = f.flag /\ i.given = f.given
       /\ i.next = f.next
  BY <1>13, <1>I DEF Interrupt
<1>15. stack'[p.owner][p.depth] = i /\ Len(stack'[p.owner]) = p.depth
  BY <1>3, <1>12, <1>13, <1>I
<1>16. ~Outside' /\ Top' = i
  <2>1. p.depth # 0
    BY <1>13
  <2>2. Len(stack'[esp']) = p.depth /\ stack'[esp'][p.depth] = i
    BY <1>11a, <1>15
  <2>3. stack'[esp'] # <<>>
    BY <2>1, <2>2
  <2> QED
    BY <2>2, <2>3 DEF Outside, Top
<1> HIDE DEF f
<1>17. ~Switching'
  BY <1>14, <1>16 DEF Switching, At
<1>17a. used2 \subseteq used /\ (dying => esp \notin used2) /\ (\A s \in used : s # esp \/ ~dying => s \in used2)
  BY <1>U
<1> HIDE DEF dying
<1>18. \A s \in used \ alive : stack'[s][1] = stack[s][1] /\ Len(stack'[s]) = Len(stack[s])
  <2> TAKE s \in used \ alive
  <2>1. 1 \in 1 .. Len(stack[s])
    BY <1>1, NextOfDead
  <2>2. s = p.owner => p.depth # 1
    BY <1>13
  <2> QED
    BY <1>12, <2>1, <2>2
<1>19. \A s \in used2 \ alive : stack[s][1].next.owner # p.owner
  <2> TAKE s \in used2 \ alive
  <2>1. CASE dying
    <3>1. esp \in used \ alive /\ s \in used \ alive /\ s # esp
      BY <1>5, <1>17a, <2>1
    <3> QED
      BY <1>8, <2>1, <3>1 DEF Chains
  <2>2. CASE ~dying
    BY <1>6, <1>7, <1>17a, <2>2
  <2> QED
    BY <2>1, <2>2
<1>20. \A s \in used2 \ alive : stack[s][1].next.owner \in used2 \ {s}
  <2> TAKE s \in used2 \ alive
  <2>1. stack[s][1].next.owner \in used \ {s}
    BY <1>17a DEF Chains
  <2>2. dying => stack[s][1].next.owner # esp
    BY <1>6, <1>8, <1>17a
  <2> QED
    BY <1>17a, <2>1, <2>2
<1>21. \A s \in used2 \ alive : Ready(stack[s][1].next)'
  <2> TAKE s \in used2 \ alive
  <2>1. s \in used \ alive /\ stack[s][1].next.owner \in Thread
    BY <1>17a, <1>20
  <2>2. Ready(stack[s][1].next) /\ stack'[s][1] = stack[s][1]
    BY <1>18, <2>1 DEF Chains
  <2>3. stack'[stack[s][1].next.owner] = stack[stack[s][1].next.owner]
    BY <1>12, <1>19, <2>1
  <2> QED
    BY <1>11a, <2>2, <2>3 DEF Ready
<1>22. \A u \in alive \ {current} : /\ context[u].owner \in used /\ holder[context[u].owner] = u
                                    /\ context[u].owner \in Thread /\ Ready(context[u])
                                    /\ \A s \in used \ alive : stack[s][1].next.owner # context[u].owner
  BY <1>1 DEF Chains, BaseOf, TypeInv, Place
<1>23. holder[p.owner] = current
  BY <1>6, <1>7, <1>8
<1>24. \A u \in alive \ {current} : Ready(context[u])'
  <2> TAKE u \in alive \ {current}
  <2>1. stack'[context[u].owner] = stack[context[u].owner]
    BY <1>12, <1>22, <1>23
  <2> QED
    BY <1>11a, <1>22, <2>1 DEF Ready
<1>25. \A u \in alive :
         /\ BaseOf(u)' \in used2 /\ holder[BaseOf(u)'] = u
         /\ \A s \in used2 \ alive : stack'[s][1].next.owner # BaseOf(u)'
  <2> SUFFICES ASSUME NEW u \in alive
               PROVE  /\ BaseOf(u)' \in used2 /\ holder[BaseOf(u)'] = u
                      /\ \A s \in used2 \ alive : stack'[s][1].next.owner # BaseOf(u)'
    OBVIOUS
  <2>1. CASE u = current
    <3>1. BaseOf(u)' = p.owner
      BY <1>11, <1>17, <2>1 DEF BaseOf, Base
    <3>2. p.owner \in used2
      BY <1>6, <1>7, <1>8, <1>17a
    <3> QED
      BY <1>17a, <1>18, <1>19, <1>23, <2>1, <3>1, <3>2
  <2>2. CASE u # current
    <3>1. BaseOf(u)' = context[u].owner
      BY <1>11, <2>2 DEF BaseOf
    <3>2. context[u].owner # esp \/ ~dying
      BY <1>6, <1>8, <1>22, <2>2
    <3> QED
      BY <1>17a, <1>18, <1>22, <2>2, <3>1, <3>2
  <2> QED
    BY <2>1, <2>2
<1>26. alive \subseteq used2
  BY <1>5, <1>17a DEF Chains
<1>28. Chains(used2, holder)'
  <2>1. \A t \in alive' : holder[t] = t
    BY <1>11a DEF Chains
  <2>2. \A s \in used2 : holder[s] \in alive'
    BY <1>11a, <1>17a DEF Chains
  <2>3. \A s \in used2 \ alive' :
       /\ Len(stack'[s]) >= 1
       /\ stack'[s][1].number = Syscall /\ stack'[s][1].stage = "leaving"
       /\ Ready(stack[s][1].next)'
       /\ stack'[s][1].next.owner \in used2 \ {s}
       /\ holder[stack'[s][1].next.owner] = holder[s]
    <3> TAKE s \in used2 \ alive'
    <3>1. s \in used2 \ alive /\ s \in used \ alive
      BY <1>11a, <1>17a
    <3>2. /\ Len(stack[s]) >= 1 /\ stack[s][1].number = Syscall /\ stack[s][1].stage = "leaving"
          /\ holder[stack[s][1].next.owner] = holder[s]
      BY <3>1 DEF Chains
    <3>3. stack'[s][1] = stack[s][1] /\ Len(stack'[s]) = Len(stack[s])
      BY <1>18, <3>1
    <3> QED
      BY <1>20, <1>21, <3>1, <3>2, <3>3
  <2>4. \A r, s \in used2 \ alive' : stack'[r][1].next.owner = stack'[s][1].next.owner => r = s
    BY <1>11a, <1>17a, <1>18 DEF Chains
  <2> QED
    BY <1>11a, <1>17, <1>24, <1>25, <1>26, <2>1, <2>2, <2>3, <2>4 DEF Chains
<1>29. Frames'
  <2> SUFFICES ASSUME NEW s \in Thread, NEW k \in 1 .. Len(stack[s]) PROVE FrameOK(s, k)'
    BY <1>12 DEF Frames
  <2>1. CASE s = p.owner /\ k = p.depth
    <3>1. stack'[s][k] = i /\ k = Len(stack'[s])
      BY <1>15, <2>1
    <3>2. FrameOK(s, k) /\ stack[s][k] = f
      BY <1>1, <2>1 DEF Frames, f
    <3> QED
      BY <1>14, <3>1, <3>2 DEF FrameOK
  <2>2. CASE s = esp /\ k = m /\ s # p.owner
    <3>1. stack'[s] = stack[s] /\ Len(stack'[s]) = k /\ stack'[s][k] = Top /\ s # esp'
      BY <1>2, <1>11, <1>12, <2>2
    <3> QED
      BY <1>2, <1>4, <1>11, <2>2, <3>1 DEF FrameOK
  <2>3. CASE ~(s = p.owner /\ k = p.depth) /\ ~(s = esp /\ k = m)
    <3>1. stack'[s][k] = stack[s][k] /\ Len(stack'[s]) = Len(stack[s])
      BY <1>12, <2>3
    <3> QED
      BY OtherFrames, <1>1, <1>11, <1>13, <2>3, <3>1
  <2> QED
    BY <1>13, <2>1, <2>2, <2>3
<1>30. TypeInv' /\ Processor'
  BY <1>1, <1>3, <1>11, <1>12, <1>16 DEF TypeInv, Processor
<1>31. Depths(used2)'
  <2> DEFINE c == Cardinality(Thread \ used)
             d == Cardinality(Thread \ used2)
  <2>1. c \in Nat /\ d \in Nat /\ c <= d
    BY <1>17a, OutOfUse
  <2>2. dying => d = c + 1
    BY <1>5, <1>U, OutOfUse
  <2>3. (\A s \in Thread : Len(stack[s]) <= 2 + c) /\ (enabled => Len(stack[esp]) <= 1 + c)
    BY DEF Depths
  <2>4. \A s \in Thread : Len(stack[s]) \in Nat
    BY <1>1 DEF TypeInv
  <2>5. Switching => ~enabled
    BY <1>4 DEF Switching, FrameOK, At, Top
  <2>6. ~Switching /\ ~dying => p.owner = esp
    BY <1>7 DEF Base
  <2> HIDE DEF c, d
  <2>7. \A s \in Thread : Len(stack'[s]) <= 2 + d
    BY <1>12, <2>1, <2>3, <2>4
  <2>8. enabled => Len(stack[p.owner]) <= 1 + d
    BY <1>3, <2>1, <2>2, <2>3, <2>4, <2>5, <2>6
  <2>9. enabled' => Len(stack'[esp']) <= 1 + d
    BY <1>3, <1>11, <1>12, <2>8
  <2> QED
    BY <2>7, <2>9 DEF Depths, d
<1> QED
  BY <1>26, <1>28, <1>29, <1>30, <1>31 DEF IInv, Core

----------------------------------------------------------------------------
(* At the start every stack is held by its own thread.                     *)
LEMMA InitInvariant == Init => IInv
<1> SUFFICES ASSUME Init PROVE IInv
  OBVIOUS
<1>1. PICK t \in Thread \ {Idle} :
        /\ esp = t /\ esp0 = t /\ current = t
        /\ stack = [u \in Thread |-> IF u = t THEN <<>> ELSE <<MadeUp>>]
  BY DEF Init
<1>2. MadeUp \in Interrupt
  BY EntryAssumption DEF MadeUp, Interrupt, Number, NoPlace, Place
<1>3. /\ MadeUp.stage = "leaving" /\ MadeUp.number = None /\ MadeUp.given = None /\ MadeUp.flag = TRUE
      /\ MadeUp.next.depth = 0
  BY DEF MadeUp, NoPlace
<1>4. /\ stack \in [Thread -> Seq(Interrupt)] /\ stack[t] = <<>>
      /\ \A u \in Thread \ {t} : Len(stack[u]) = 1 /\ stack[u][1] = MadeUp
  BY <1>1, <1>2
<1>5. context \in [Thread -> Place] /\ \A u \in Thread : context[u] = [owner |-> u, depth |-> 1]
  BY DEF Init, Place
<1>6. Outside /\ ~Switching
  BY <1>1, <1>4 DEF Outside, Switching, At
<1>7. alive = Thread /\ enabled = TRUE /\ byte = None
  BY DEF Init
<1>8. TypeInv /\ Processor
  BY <1>1, <1>4, <1>5, <1>7 DEF TypeInv, Processor, Number
<1>9. Frames
  <2> SUFFICES ASSUME NEW s \in Thread, NEW k \in 1 .. Len(stack[s]) PROVE FrameOK(s, k)
    BY DEF Frames
  <2>1. s # t
    BY <1>4
  <2>2. Len(stack[s]) = 1 /\ stack[s][1] = MadeUp
    BY <1>4, <2>1
  <2>3. k = 1
    BY <2>2
  <2> QED
    BY <1>1, <1>3, <2>1, <2>2, <2>3, EntryAssumption DEF FrameOK
<1>10. \E holder \in [Thread -> Thread] : Chains(Thread, holder)
  <2>1. PICK holder \in [Thread -> Thread] : holder = [u \in Thread |-> u]
    OBVIOUS
  <2>2. \A u \in Thread : BaseOf(u) = u
    BY <1>1, <1>5, <1>6 DEF BaseOf, Base
  <2>3. \A u \in Thread \ {t} : Ready(context[u])
    <3> TAKE u \in Thread \ {t}
    <3>1. context[u].owner = u /\ context[u].depth = 1
      BY <1>5
    <3>2. Len(stack[u]) = 1 /\ stack[u][1].stage = "leaving" /\ u \in alive
      BY <1>3, <1>4, <1>7
    <3> QED
      BY <3>1, <3>2 DEF Ready
  <2>4. Chains(Thread, holder)
    BY <1>1, <1>6, <1>7, <2>1, <2>2, <2>3 DEF Chains
  <2> QED
    BY <2>4
<1>11. Depths(Thread)
  <2>1. Cardinality(Thread \ Thread) \in Nat
    BY OutOfUse
  <2>2. \A s \in Thread : Len(stack[s]) \in {0, 1}
    BY <1>4
  <2> QED
    BY <1>1, <2>1, <2>2 DEF Depths
<1> QED
  BY <1>8, <1>9, <1>10, <1>11 DEF IInv, Core

(* Every step keeps the invariant.                                         *)
LEMMA NextInvariant ==
  ASSUME EntryWindow = FALSE
  PROVE  IInv /\ [Next]_vars => IInv'
<1> SUFFICES ASSUME IInv, [Next]_vars PROVE IInv'
  OBVIOUS
<1>0. PICK used \in SUBSET Thread, holder \in [Thread -> Thread] :
       Core /\ Chains(used, holder) /\ Depths(used)
  BY DEF IInv
<1>1. CASE \E n \in Irq : HardwareInterrupt(n)
  BY <1>0, <1>1, HardwareInterruptKeeps
<1>2. CASE SystemCall
  BY <1>0, <1>2, SystemCallKeeps
<1>3. CASE StoreNumber
  BY <1>0, <1>3, StoreNumberKeeps
<1>4. CASE PushNumber
  BY <1>0, <1>4, PushNumberKeeps
<1>5. CASE Guard
  BY <1>0, <1>5, GuardKeeps
<1>6. CASE HandleTimer
  BY <1>0, <1>6, HandleTimerKeeps
<1>7. CASE HandleOther
  BY <1>0, <1>7, HandleOtherKeeps
<1>8. CASE HandleExit
  BY <1>0, <1>8, HandleExitKeeps
<1>9. CASE SwitchStack
  BY <1>0, <1>9, SwitchStackKeeps
<1>10. CASE Return
  BY <1>0, <1>10, ReturnKeeps
<1>11. CASE UNCHANGED vars
  <2>1. /\ enabled' = enabled /\ byte' = byte /\ esp' = esp /\ esp0' = esp0 /\ stack' = stack
        /\ context' = context /\ current' = current /\ alive' = alive
    BY <1>11 DEF vars
  <2>2. TypeInv' /\ Processor'
    BY <1>0, <2>1 DEF Core, TypeInv, Processor, Outside
  <2>3. Switching' = Switching /\ Top' = Top
    BY <2>1 DEF Switching, At, Outside, Top
  <2>4. Frames'
    <3> SUFFICES ASSUME NEW s \in Thread, NEW k \in 1 .. Len(stack[s]) PROVE FrameOK(s, k)'
      BY <2>1 DEF Frames
    <3>1. FrameOK(s, k)
      BY <1>0 DEF Core, Frames
    <3> QED
      BY <2>1, <2>3, <3>1 DEF FrameOK
  <2>5. \A u \in Thread : BaseOf(u)' = BaseOf(u)
    BY <2>1, <2>3 DEF BaseOf, Base
  <2>6. alive \subseteq Thread /\ current \in alive
    BY <1>0 DEF Core, TypeInv, Processor
  <2>7. Chains(used, holder)'
    BY <1>0, <2>1, <2>3, <2>5, <2>6 DEF Chains, Ready
  <2>8. Depths(used)'
    BY <1>0, <2>1 DEF Depths
  <2> QED
    BY <2>2, <2>4, <2>7, <2>8 DEF IInv, Core
<1> QED
  BY <1>1, <1>2, <1>3, <1>4, <1>5, <1>6, <1>7, <1>8, <1>9, <1>10, <1>11 DEF Next

(* Whatever the interrupts and the threads do, the invariant holds.        *)
THEOREM EntryInvariant ==
  ASSUME EntryWindow = FALSE
  PROVE  Spec => []IInv
<1>1. Init => IInv
  BY InitInvariant
<1>2. IInv /\ [Next]_vars => IInv'
  BY NextInvariant
<1> QED
  BY <1>1, <1>2, PTL DEF Spec

(* The invariant implies what the runs check.                              *)
LEMMA InvariantMeans == IInv => NumberIsOwn /\ OwnStack /\ Resumable /\ TypeOK
<1> SUFFICES ASSUME IInv PROVE NumberIsOwn /\ OwnStack /\ Resumable /\ TypeOK
  OBVIOUS
<1>0. PICK used \in SUBSET Thread, holder \in [Thread -> Thread] :
       Core /\ Chains(used, holder) /\ Depths(used)
  BY DEF IInv
<1>1. NumberIsOwn
  BY <1>0 DEF Core, Frames, FrameOK, NumberIsOwn
<1>2. OwnStack
  BY <1>0, OutsideOnOwnStack DEF Core, Processor, OwnStack
<1>3. Resumable
  <2>1. ASSUME NEW t \in Waiting
        PROVE  /\ context[t].depth \in 1 .. Len(stack[context[t].owner])
               /\ stack[context[t].owner][context[t].depth].stage = "leaving"
               /\ holder[context[t].owner] = t
    <3>1. t \in alive \ {current} /\ t \in Thread
      BY <1>0, <2>1 DEF Waiting, Core, TypeInv
    <3>2. Ready(context[t]) /\ holder[context[t].owner] = t /\ context[t] \in Place
      BY <1>0, <3>1 DEF Chains, BaseOf, Core, TypeInv
    <3> QED
      BY <3>2 DEF Ready, Place
  <2> QED
    BY <2>1 DEF Resumable
<1>4. TypeOK
  <2>1. TypeInv
    BY <1>0 DEF Core
  <2>2. ASSUME NEW s \in Thread
        PROVE  Len(stack[s]) <= 2 + Cardinality(Thread \ alive)
    <3>1. alive \in SUBSET used
      BY <1>0 DEF Chains
    <3>2. /\ Cardinality(Thread \ used) \in Nat /\ Cardinality(Thread \ alive) \in Nat
          /\ Cardinality(Thread \ used) <= Cardinality(Thread \ alive)
      BY <3>1, OutOfUse
    <3>3. Len(stack[s]) \in Nat
      BY <2>1 DEF TypeInv
    <3>4. Len(stack[s]) <= 2 + Cardinality(Thread \ used)
      BY <1>0 DEF Depths
    <3> QED
      BY <3>2, <3>3, <3>4
  <2> QED
    BY <2>1, <2>2 DEF TypeInv, TypeOK
<1> QED
  BY <1>1, <1>2, <1>3, <1>4

(* Every variable has its type, and no kernel stack ever holds more than   *)
(* two interrupts and one for each thread that has exited.                 *)
THEOREM StacksBounded ==
  ASSUME EntryWindow = FALSE
  PROVE  Spec => []TypeOK
<1>1. Spec => []IInv
  BY EntryInvariant
<1>2. IInv => TypeOK
  BY InvariantMeans
<1> QED
  BY <1>1, <1>2, PTL

(* handleInterrupt() is given the number of the interrupt that it is       *)
(* called for, when nothing comes between the instructions of a system     *)
(* call's entry.                                                           *)
THEOREM NumberIsAlwaysOwn ==
  ASSUME EntryWindow = FALSE
  PROVE  Spec => []NumberIsOwn
<1>1. Spec => []IInv
  BY EntryInvariant
<1>2. IInv => NumberIsOwn
  BY InvariantMeans
<1> QED
  BY <1>1, <1>2, PTL

(* A thread that has left the kernel runs on its own stack with interrupts *)
(* enabled, also after the exits of any number of others.                  *)
THEOREM AlwaysOnOwnStack ==
  ASSUME EntryWindow = FALSE
  PROVE  Spec => []OwnStack
<1>1. Spec => []IInv
  BY EntryInvariant
<1>2. IInv => OwnStack
  BY InvariantMeans
<1> QED
  BY <1>1, <1>2, PTL

(* Every thread that waits can be gone back to, and no two to one place.   *)
THEOREM AlwaysResumable ==
  ASSUME EntryWindow = FALSE
  PROVE  Spec => []Resumable
<1>1. Spec => []IInv
  BY EntryInvariant
<1>2. IInv => Resumable
  BY InvariantMeans
<1> QED
  BY <1>1, <1>2, PTL
=============================================================================
