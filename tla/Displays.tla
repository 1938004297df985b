------------------------------ MODULE Displays ------------------------------
(***************************************************************************)
(* What is seen of the system: the desktop as its thread draws it, and the *)
(* text screen of the kernel before there is a desktop.  Neither reads     *)
(* what the other one keeps, so one of them is chosen in the beginning and *)
(* takes all the steps.                                                    *)
(***************************************************************************)
EXTENDS Integers, Sequences

CONSTANTS
  Wins,                               \* Screen
  Width, Height, Chars, MaxChars      \* Console

VARIABLES
  showing,  \* the component that runs
  open, top, activeTab, menu, at, down, pressed, hovered, dragging,
  dirty, cacheOld, shownOld, pc, frontOld, stopped,               \* Screen
  videoMemory, cursorRow, cursorCol, hardwareCursor, page         \* Console

ASSUME DisplaysAssumption == Width \in Nat \ {0} /\ Height \in Nat \ {0}

-----------------------------------------------------------------------------
Scr == INSTANCE Screen WITH active <- activeTab
Con == INSTANCE Console

screenVars ==
  <<open, top, activeTab, menu, at, down, pressed, hovered, dragging, dirty,
    cacheOld, shownOld, pc, frontOld, stopped>>
consoleVars == <<videoMemory, cursorRow, cursorCol, hardwareCursor, page>>
displayVars == <<showing, screenVars, consoleVars>>

DisplaysInit == Scr!Init /\ Con!Init

DisplaysNext ==
  \/ showing = "screen" /\ Scr!Next /\ UNCHANGED <<showing, consoleVars>>
  \/ showing = "console" /\ Con!Next /\ UNCHANGED <<showing, screenVars>>

DisplaysSpec == DisplaysInit /\ [][DisplaysNext]_displayVars

-----------------------------------------------------------------------------
\* What is shown is what there is to show: the desktop is drawn again after every
\* change of a widget before its thread goes to sleep, whatever interrupts and
\* system calls come between its steps; and the text screen shows the end of what
\* was printed (pDesktop(), Desktop::Draw(), printf(), scrollScreen()).
ShownRight ==
  /\ showing = "screen" => Scr!ScreenCurrent
  /\ showing = "console" => Con!ScreenShowsPage
=============================================================================
