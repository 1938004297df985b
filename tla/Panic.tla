------------------------------- MODULE Panic -------------------------------
(***************************************************************************)
(* What an exception leads to: handleException() and DohandleException()   *)
(* of core/interrupts.cpp with the names of core/KernelSymbolResolver.cpp, *)
(* at any moment of the boot (kernelMain() in kernel.cpp) and after it.    *)
(*                                                                         *)
(* A stack is a function from the addresses of its frames to the address   *)
(* of the next frame and the return address.                               *)
(***************************************************************************)
EXTENDS Integers, Sequences, FiniteSets

CONSTANTS
  MapFiles,      \* what kernel.map can hold: sequences of lines
  KernelStacks,  \* the stack of the kernel when it faults, from frame 1 on
  UserStacks,    \* the stack of a program when it faults, from frame UserTop on
  UserTop,
  LowFrame, HighFrame,  \* the addresses of the kernel's frames
  KernelFrames, UserFrames,  \* how many frames are shown
  FarAway,       \* an address farther than this from a symbol has no name
  MaxResets      \* a bound: how often the machine starts again

VARIABLES
  made,          \* how many steps of the boot are done
  mapFile,       \* the file, and symbolIndex with what was read of it
  symbolIndex,
  activeInstance,   \* whether it is set
  mode,          \* "boot", "runs", "panic", "halted" or "reset"
  panicked,      \* how many steps of DohandleException() are done
  stack, userStack, user,  \* of the fault: the stacks and whether it is a program's
  trace,         \* the lines of the last report's traces: addresses with names
  resets

fault == <<stack, userStack, user>>
vars == <<made, mapFile, symbolIndex, activeInstance, mode, panicked, fault, trace, resets>>

None == <<>>

-----------------------------------------------------------------------------
\* KernelSymbolTable::Load(): a line that begins with an address and goes on is a
\* symbol; that is also the second line of a section with a long name, after
\* which the rest of the line is taken for the name.
Symbols(lines) ==
  LET s[i \in 0..Len(lines)] ==
        IF i = 0 THEN <<>>
        ELSE IF lines[i].kind \in {"symbol", "wrapped section"} THEN Append(s[i - 1], lines[i])
        ELSE s[i - 1]
  IN  s[Len(lines)]

LookupFirst(eip) ==
  LET below == {i \in DOMAIN symbolIndex : symbolIndex[i].addr <= eip}
      near  == {i \in below : \A j \in below : symbolIndex[j].addr <= symbolIndex[i].addr}
      best  == CHOOSE i \in near : \A j \in near : i <= j
  IN  IF near = {} \/ eip - symbolIndex[best].addr > FarAway THEN None ELSE <<symbolIndex[best].name>>

\* Lookup(): the last of the nearest entries at or below the address.
Lookup(eip) ==
  LET below == {i \in DOMAIN symbolIndex : symbolIndex[i].addr <= eip}
      near  == {i \in below : \A j \in below : symbolIndex[j].addr <= symbolIndex[i].addr}
      best  == CHOOSE i \in near : \A j \in near : j <= i
  IN  IF near = {} \/ eip - symbolIndex[best].addr > FarAway THEN None ELSE <<symbolIndex[best].name>>

\* PrintStackTrace()
KernelTrace ==
  LET t[n \in 0..KernelFrames] ==
        IF n = 0 THEN [at |-> 1, lines |-> <<>>]
        ELSE LET p == t[n - 1]
             IN  IF p.at < LowFrame \/ p.at >= HighFrame THEN p
                 ELSE [at |-> stack[p.at][1],
                       lines |-> Append(p.lines, <<stack[p.at][2], Lookup(stack[p.at][2])>>)]
  IN  t[KernelFrames].lines

\* The trace of a program ends at a frame that is not mapped, or returns to 0.
UserTrace ==
  LET t[n \in 0..UserFrames] ==
        IF n = 0 THEN [at |-> UserTop, lines |-> <<>>]
        ELSE LET p == t[n - 1]
             IN  IF p.at \notin DOMAIN userStack THEN p
                 ELSE IF userStack[p.at][2] = 0 THEN [p EXCEPT !.at = 0]
                 ELSE [at |-> userStack[p.at][1], lines |-> Append(p.lines, <<userStack[p.at][2], None>>)]
  IN  t[UserFrames].lines

-----------------------------------------------------------------------------
BootStepsEarlyInterrupts ==
  <<"gdt", "memory", "timer", "paging", "interrupts", "disk", "partition", "map", "screen", "boot image",
    "font", "desktop", "scheduler", "system calls", "gui calls", "drivers", "input",
    "desktop process", "loader", "sound", "activation">>

\* kernelMain(), in its order.
BootSteps ==
  <<"gdt", "memory", "timer", "paging", "disk", "partition", "map", "screen", "boot image", "font",
    "desktop", "scheduler", "interrupts", "system calls", "gui calls", "drivers", "input",
    "desktop process", "loader", "sound", "activation">>

Made(n) == {BootSteps[i] : i \in 1..n}

Boot ==
  /\ mode = "boot"
  /\ made' = made + 1
  /\ symbolIndex' = IF BootSteps[made'] = "map" THEN Symbols(mapFile) ELSE symbolIndex
  /\ activeInstance' = (activeInstance \/ BootSteps[made'] = "interrupts")
  /\ mode' = IF made' = Len(BootSteps) THEN "runs" ELSE "boot"
  /\ UNCHANGED <<mapFile, panicked, fault, trace, resets>>

\* The steps of DohandleException(), with what they use.
PanicSteps ==
  <<"report", "kernel trace", "flush", "deactivate", "directory", "font", "user trace", "fill",
    "bitmap", "text", "registers", "show", "reboot">>
Needs(s) ==
  CASE s = "directory" -> {"paging", "interrupts"}
    [] s = "font" -> {"font"}
    [] s \in {"fill", "show"} -> {"screen"}
    [] s = "bitmap" -> {"partition", "screen", "memory"}
    [] s \in {"text", "registers"} -> {"screen", "font"}
    [] OTHER -> {}

\* An exception.  Before the interrupt table is loaded the processor resets.
Fault(k, u, byUser) ==
  /\ mode \in {"boot", "runs"}
  /\ byUser => mode = "runs"
  /\ mode' = IF activeInstance THEN "panic" ELSE "reset"
  /\ stack' = k /\ userStack' = u /\ user' = byUser
  /\ UNCHANGED <<made, mapFile, symbolIndex, activeInstance, panicked, trace, resets>>

Step(s) == mode = "panic" /\ PanicSteps[panicked + 1] = s

Panic ==
  /\ mode = "panic"
  /\ panicked' = panicked + 1
  /\ activeInstance' = (activeInstance /\ ~Step("deactivate"))
  /\ trace' = IF Step("kernel trace") THEN trace \o KernelTrace
              ELSE IF Step("user trace") /\ user THEN trace \o UserTrace
              ELSE trace
  /\ mode' = IF Step("reboot") THEN "reset" ELSE "panic"
  /\ UNCHANGED <<made, mapFile, symbolIndex, fault, resets>>

\* An exception of the report, the trace or the flush, while activeInstance is still
\* set: DohandleException() begins again, with the fault of the kernel.
ReportFault(k) ==
  /\ mode = "panic" /\ activeInstance
  /\ panicked' = 0 /\ trace' = <<>>
  /\ stack' = k /\ user' = FALSE
  /\ UNCHANGED <<made, mapFile, symbolIndex, activeInstance, mode, userStack, resets>>

\* An exception of a step that runs after Deactivate(): handleException() sends
\* what was printed and halts.
NestedFault ==
  /\ mode = "panic" /\ ~activeInstance
  /\ mode' = "halted"
  /\ UNCHANGED <<made, mapFile, symbolIndex, activeInstance, panicked, fault, trace, resets>>

StartAgain ==
  /\ mode = "reset"
  /\ resets < MaxResets
  /\ resets' = resets + 1
  /\ mode' = "boot" /\ made' = 0 /\ symbolIndex' = <<>>
  /\ activeInstance' = FALSE /\ panicked' = 0 /\ trace' = <<>>
  /\ UNCHANGED <<mapFile, fault>>

Init ==
  /\ made = 0 /\ mapFile \in MapFiles /\ symbolIndex = <<>>
  /\ activeInstance = FALSE /\ mode = "boot" /\ panicked = 0
  /\ stack = <<>> /\ userStack = <<>> /\ user = FALSE
  /\ trace = <<>> /\ resets = 0

Next ==
  \/ Boot \/ Panic \/ NestedFault \/ StartAgain
  \/ \E k \in KernelStacks, u \in UserStacks, byUser \in BOOLEAN : Fault(k, u, byUser)
  \/ \E k \in KernelStacks : ReportFault(k)

Spec == Init /\ [][Next]_vars

-----------------------------------------------------------------------------
\* Whenever a fault is caught, at any moment of the boot, all that the report of
\* it uses is there; and the trace shows the return addresses from the innermost
\* frame out, those of the kernel with the functions they are in, whatever the
\* stack leads to (DohandleException(), PrintStackTrace(), Lookup()).
FaultReported ==
  LET follows(s, lines, from) ==
        \E path \in [1..Len(lines) -> DOMAIN s] :
          /\ lines # <<>> => path[1] = from
          /\ \A i \in 1..(Len(lines) - 1) : path[i + 1] = s[path[i]][1]
          /\ \A i \in DOMAIN lines : lines[i][1] = s[path[i]][2]
      functions == {i \in DOMAIN mapFile : mapFile[i].kind = "symbol"}
      within(i, eip) == /\ mapFile[i].addr <= eip
                        /\ \A j \in functions : mapFile[j].addr <= eip => mapFile[j].addr <= mapFile[i].addr
      kernelLines(n) == SubSeq(trace, 1, n)
      userLines(n) == SubSeq(trace, n + 1, Len(trace))
  IN  /\ (mode = "panic" /\ panicked < Len(PanicSteps)) => Needs(PanicSteps[panicked + 1]) \subseteq Made(made)
      /\ trace # <<>> => \E n \in 0..Len(trace) :
           /\ follows(stack, kernelLines(n), 1) /\ follows(userStack, userLines(n), UserTop)
           /\ n <= KernelFrames /\ Len(trace) - n <= UserFrames
           /\ \A i \in 1..n : trace[i][2] # None =>
                \E f \in functions : mapFile[f].name = trace[i][2][1] /\ within(f, trace[i][1])
           /\ \A i \in (n + 1)..Len(trace) : trace[i][2] = None
=============================================================================
