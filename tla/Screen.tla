------------------------------- MODULE Screen -------------------------------
(***************************************************************************)
(* What the desktop draws: the dirty flags and caches of the widgets       *)
(* (gui/widget.cpp, window.cpp, button.cpp, label.cpp, taskbar.cpp), the   *)
(* desktop's Draw() and the kernel thread that calls it (pDesktop() in     *)
(* kernel.cpp), with mouse interrupts and system calls between any two of  *)
(* its steps.                                                              *)
(*                                                                         *)
(* Of a picture the model keeps only whether it is out of date: the cache  *)
(* of a widget against its state, what its parent or the screen shows of   *)
(* it against its cache, and the monitor against the back buffer.          *)
(***************************************************************************)
EXTENDS Naturals, FiniteSets

CONSTANT Wins   \* the windows

VARIABLES
  open,      \* windows on the desktop, each with its tab
  top,       \* the window that has the focus, or none
  active,    \* the window whose tab is the active one, or none
  menu,      \* whether the start menu is visible
  at,        \* the widget under the pointer
  down,      \* whether the mouse button is down
  pressed, hovered,
  dragging,  \* windows whose isDragging is set
  dirty,     \* widgets whose isDirty is set
  cacheOld,  \* widgets whose cache is not what they look like
  shownOld,  \* widgets that their parent, or the screen, does not show as cached
  pc,        \* the next step of pDesktop()
  frontOld,  \* whether the back buffer changed after the last Flush()
  stopped    \* g_stop_gui_rendering

treeVars == <<open, top, active, menu>>
mouseVars == <<at, down, pressed, hovered, dragging>>
drawVars == <<dirty, cacheOld, shownOld>>
loopVars == <<pc, frontOld>>
vars == <<treeVars, mouseVars, drawVars, loopVars, stopped>>

None == 0
Desktop == <<"desktop", None>>
Taskbar == <<"taskbar", None>>
Start == <<"start", None>>
Clock == <<"clock", None>>
Menu == <<"menu", None>>
Item == <<"item", None>>
Win(p) == <<"window", p>>
Kids(p) == {<<"button", p>>, <<"label", p>>}
Tab(p) == <<"tab", p>>

Tabs == {Tab(p) : p \in open}
BarKids == {Start, Clock} \cup Tabs
Visible ==
  {Desktop, Taskbar} \cup BarKids \cup (IF menu THEN {Menu, Item} ELSE {}) \cup
  UNION {{Win(p)} \cup Kids(p) : p \in open}

\* A widget with its parents.
Path(w) ==
  CASE w[1] \in {"button", "label"} -> {w, Win(w[2]), Desktop}
    [] w[1] = "window" -> {w, Desktop}
    [] w[1] \in {"start", "clock", "tab", "menu"} -> {w, Taskbar, Desktop}
    [] w[1] = "item" -> {w, Menu, Taskbar, Desktop}
    [] OTHER -> {w, Desktop}

MarkThemOnly(ws) == dirty' = dirty \cup ws

MarkDirty(ws) == dirty' = dirty \cup UNION {Path(w) : w \in ws}

\* The widgets ws look different, and are marked.
Changed(ws) ==
  /\ cacheOld' = cacheOld \cup ws
  /\ MarkDirty(ws)

-----------------------------------------------------------------------------
\* Desktop::Draw()

\* RedrawToCache() of a parent w: the dirty children are drawn into their
\* caches, and all of them into the parent's.
Redrawn(w, kids, s) ==
  [dirty    |-> s.dirty \ (kids \cup {w}),
   cacheOld |-> s.cacheOld \ ((kids \cap s.dirty) \cup {w}),
   shownOld |-> s.shownOld \ kids]

\* A parent that is visible is redrawn if it or a child is dirty, and copied to
\* the screen.
Drawn(w, kids, s) ==
  LET r == IF s.dirty \cap (kids \cup {w}) # {} THEN Redrawn(w, kids, s) ELSE s
  IN  [r EXCEPT !.shownOld = @ \ {w}]

\* The windows are drawn one after the other, and share no widget.
DrawnAll(s) ==
  LET after(p) == Drawn(Win(p), Kids(p), s)
  IN  [dirty    |-> {w \in s.dirty : \A p \in open : w \in after(p).dirty},
       cacheOld |-> {w \in s.cacheOld : \A p \in open : w \in after(p).cacheOld},
       shownOld |-> {w \in s.shownOld : \A p \in open : w \in after(p).shownOld}]

\* UpdateClock(), inside Taskbar::Draw().
Ticked(second, s) ==
  IF second
    THEN [s EXCEPT !.dirty = @ \cup Path(Clock), !.cacheOld = @ \cup {Clock}]
    ELSE s

\* The start menu is redrawn only if it is dirty itself.
MenuDrawn(s) ==
  IF ~menu THEN s
  ELSE LET r == IF Menu \in s.dirty THEN Redrawn(Menu, {Item}, s) ELSE s
       IN  [r EXCEPT !.shownOld = @ \ {Menu}]

FullRedraw(second) ==
  LET windows == DrawnAll([dirty |-> dirty, cacheOld |-> cacheOld, shownOld |-> shownOld])
      bar     == Drawn(Taskbar, BarKids, Ticked(second, windows))
      all     == MenuDrawn(bar)
  IN  [all EXCEPT !.dirty = @ \ {Desktop}, !.shownOld = @ \ {Desktop}]

Draw ==
  /\ pc = "draw"
  /\ pc' = "flush"
  /\ frontOld' = TRUE
  /\ IF Desktop \in dirty \/ Taskbar \in dirty \/ (menu /\ Menu \in dirty)
       THEN \E second \in BOOLEAN :
              /\ dirty' = FullRedraw(second).dirty
              /\ cacheOld' = FullRedraw(second).cacheOld
              /\ shownOld' = FullRedraw(second).shownOld
       ELSE UNCHANGED drawVars       \* the cursor alone
  /\ UNCHANGED <<treeVars, mouseVars, stopped>>

\* pDesktop(): a program that has the screen is shown as it draws, and once a
\* second the desktop is marked.
Check ==
  /\ pc = "check"
  /\ IF stopped
       THEN /\ frontOld' = FALSE
            /\ UNCHANGED <<dirty, pc>>
       ELSE /\ pc' = "test"
            /\ MarkDirty({Desktop}) \/ UNCHANGED dirty
            /\ UNCHANGED frontOld
  /\ UNCHANGED <<treeVars, mouseVars, cacheOld, shownOld, stopped>>

\* It draws what is marked, and the cursor if MouseMoved().
Test ==
  /\ pc = "test"
  /\ pc' = "draw" \/ (Desktop \notin dirty /\ pc' = "check")
  /\ UNCHANGED <<treeVars, mouseVars, drawVars, frontOld, stopped>>

\* With the box that tells how long the drawing took.
Flush ==
  /\ pc = "flush"
  /\ pc' = "check"
  /\ frontOld' = FALSE
  /\ UNCHANGED <<treeVars, mouseVars, drawVars, stopped>>

-----------------------------------------------------------------------------
\* The mouse

\* Tabs that change when w's becomes the active one.
SetActiveTab(w) == {Tab(p) : p \in (({w, active} \ {None}) \cap open) \ ({w} \cap {active})}

\* Desktop::GetFocus(): the old widget and the new one are marked, and the
\* new one is drawn above the others.
GetFocus(p, also) ==
  /\ top' = p
  /\ active' = p
  /\ cacheOld' = cacheOld \cup SetActiveTab(p) \cup also
  /\ MarkDirty(SetActiveTab(p) \cup also \cup {Taskbar} \cup
               {Win(q) : q \in ({top, p} \ {None}) \cap open})
  /\ shownOld' = IF p = None THEN shownOld ELSE shownOld \cup {Win(p)}

MouseButton(isDown) == down = ~isDown /\ down' = isDown

\* A click outside of the menu and the taskbar closes the menu first.
MouseDownWindow(p) ==
  /\ MouseButton(TRUE)
  /\ at \in {Win(p)} \cup Kids(p) /\ p \in open
  /\ menu' = FALSE
  /\ LET button == {at} \cap {<<"button", p>>}
         start == IF menu THEN {Start} ELSE {}
     IN  /\ pressed' = pressed \cup button
         /\ GetFocus(p, button \cup start)
  /\ dragging' = IF at = Win(p) THEN dragging \cup {p} ELSE dragging
  /\ UNCHANGED <<open, at, hovered, loopVars, stopped>>

CloseStartMenu == menu' = FALSE /\ Changed({Start}) /\ shownOld' = shownOld \cup {Desktop}

MouseDownDesktop ==
  /\ MouseButton(TRUE)
  /\ at = Desktop
  /\ IF menu THEN CloseStartMenu ELSE UNCHANGED <<menu, drawVars>>
  /\ UNCHANGED <<open, top, active, at, pressed, hovered, dragging, loopVars, stopped>>

MouseDownBar ==
  /\ MouseButton(TRUE)
  /\ at = Start
  /\ pressed' = pressed \cup {Start}
  /\ Changed({Start})
  /\ UNCHANGED <<treeVars, at, hovered, dragging, shownOld, loopVars, stopped>>

\* An item, or the clock, takes the focus up to the taskbar and the desktop.
MouseDownItem ==
  /\ MouseButton(TRUE)
  /\ at = Clock \/ (at = Item /\ menu)
  /\ pressed' = pressed \cup ({at} \ {Clock})
  /\ GetFocus(None, {at})
  /\ UNCHANGED <<open, menu, at, hovered, dragging, loopVars, stopped>>

MouseDownTab(p) ==
  /\ MouseButton(TRUE)
  /\ at = Tab(p) /\ p \in open
  /\ GetFocus(p, {})
  /\ UNCHANGED <<open, menu, at, pressed, hovered, dragging, loopVars, stopped>>

ToggleStartMenu ==
  /\ MouseButton(FALSE)
  /\ at = Start /\ Start \in pressed
  /\ pressed' = pressed \ {Start}
  /\ menu' = ~menu
  /\ Changed({Start, Menu})
  /\ shownOld' = shownOld \cup {IF menu THEN Desktop ELSE Menu}
  /\ UNCHANGED <<open, top, active, at, hovered, dragging, loopVars, stopped>>

\* The menu closes after a release over it, with or without a program to launch.
MouseUpItem ==
  /\ MouseButton(FALSE)
  /\ at = Item /\ menu
  /\ menu' = FALSE
  /\ pressed' = pressed \ {Item}
  /\ hovered' = IF Item \in pressed THEN hovered \ {Item} ELSE hovered
  /\ Changed({Start} \cup ({Item} \cap pressed))
  /\ shownOld' = shownOld \cup {Desktop}
  /\ UNCHANGED <<open, top, active, at, dragging, loopVars, stopped>>

MouseUpWindow(p) ==
  /\ MouseButton(FALSE)
  /\ at \in {Win(p)} \cup Kids(p) /\ p \in open
  /\ dragging' = dragging \ {p}
  /\ pressed' = pressed \ {at}
  /\ Changed({at} \cap pressed)
  /\ UNCHANGED <<treeVars, at, hovered, shownOld, loopVars, stopped>>

\* Elsewhere a release changes nothing.
MouseUpElsewhere ==
  /\ MouseButton(FALSE)
  /\ at \in {Desktop, Clock} \cup Tabs \/ (at = Start /\ Start \notin pressed)
  /\ UNCHANGED <<treeVars, at, pressed, hovered, dragging, drawVars, loopVars, stopped>>

\* The pointer goes from the widget `at' to w.  A button and the start button let
\* go, items and tabs change their colour, and a window that is dragged moves.
OnMouseMove(w) ==
  LET near(p) == {at, w} \cap ({Win(p)} \cup Kids(p)) # {}
      from(p) == at \in {Win(p)} \cup Kids(p)
      dragged == {p \in dragging \cap open : from(p)}
      left == ({at} \ {w}) \cap (pressed \cup hovered)
      entered == ({w} \cap ({Item} \cup Tabs)) \ hovered
  IN  /\ w \in Visible \ {Taskbar, Menu}
      /\ at' = w /\ UNCHANGED down
      /\ pressed' = pressed \ left
      /\ hovered' = (hovered \ left) \cup entered
      /\ dragging' = dragging \ {p \in open : near(p) /\ ~from(p)}
      /\ cacheOld' = cacheOld \cup left \cup entered
      /\ MarkDirty(left \cup entered \cup (IF dragged # {} THEN {Desktop} ELSE {}))
      /\ shownOld' = shownOld \cup {Win(p) : p \in dragged}
      /\ UNCHANGED <<treeVars, loopVars, stopped>>

-----------------------------------------------------------------------------
\* The programs

\* AddChild() and AddTab(): all tabs get a new width.
OpenWindow(p) ==
  /\ p \notin open
  /\ open' = open \cup {p}
  /\ active' = p
  /\ LET new == {Win(p), Tab(p)} \cup Kids(p)
     IN  /\ cacheOld' = cacheOld \cup new \cup Tabs
         /\ MarkDirty(new \cup Tabs)
         /\ shownOld' = shownOld \cup new \cup Tabs
  /\ UNCHANGED <<top, menu, mouseVars, loopVars, stopped>>

SetText(p) ==
  /\ p \in open
  /\ Changed({<<"label", p>>})
  /\ UNCHANGED <<treeVars, mouseVars, shownOld, loopVars, stopped>>

\* Desktop::RemoveAppByPID(); what is below comes under the pointer.
CloseWindow(p) ==
  /\ p \in open
  /\ open' = open \ {p}
  /\ top' = IF top = p THEN None ELSE top
  /\ active' = IF active = p THEN None ELSE active
  /\ LET gone == {Win(p), Tab(p)} \cup Kids(p)
         rest == Tabs \ {Tab(p)}
     IN  /\ at' = IF at \in gone THEN Desktop ELSE at
         /\ UNCHANGED down
         /\ pressed' = pressed \ gone
         /\ hovered' = hovered \ gone
         /\ dragging' = dragging \ {p}
         /\ dirty' = (dirty \ gone) \cup {Desktop, Taskbar} \cup rest
         /\ cacheOld' = (cacheOld \ gone) \cup rest \cup {Taskbar}
         /\ shownOld' = (shownOld \ gone) \cup rest \cup {Desktop}
  /\ UNCHANGED <<menu, loopVars, stopped>>

\* Hsys_getFramebuffer, and the exit of the program that has the screen.
TakeScreen ==
  /\ ~stopped
  /\ stopped' = TRUE
  /\ UNCHANGED <<treeVars, mouseVars, drawVars, loopVars>>

GameDraws ==
  /\ stopped
  /\ shownOld' = shownOld \cup {Desktop}
  /\ frontOld' = TRUE
  /\ UNCHANGED <<treeVars, mouseVars, dirty, cacheOld, pc, stopped>>

ReleaseScreen ==
  /\ stopped
  /\ stopped' = FALSE
  /\ MarkDirty({Desktop})
  /\ UNCHANGED <<treeVars, mouseVars, cacheOld, shownOld, loopVars>>

-----------------------------------------------------------------------------
Init ==
  /\ open = {} /\ top = None /\ active = None /\ menu = FALSE
  /\ at = Desktop /\ down = FALSE /\ pressed = {} /\ hovered = {} /\ dragging = {}
  /\ dirty = {Desktop, Taskbar, Start, Clock, Menu, Item}
  /\ cacheOld = {Taskbar, Start, Clock, Menu, Item}
  /\ shownOld = {Desktop, Taskbar, Start, Clock, Menu, Item}
  /\ pc = "check" /\ frontOld = FALSE
  /\ stopped = FALSE

Next ==
  \/ Check \/ Test \/ Draw \/ Flush
  \/ MouseDownDesktop \/ MouseDownBar \/ MouseDownItem \/ ToggleStartMenu \/ MouseUpItem \/ MouseUpElsewhere
  \/ \E p \in Wins : MouseDownWindow(p) \/ MouseDownTab(p) \/ MouseUpWindow(p)
                     \/ OpenWindow(p) \/ SetText(p) \/ CloseWindow(p)
  \/ \E w \in Visible : OnMouseMove(w)
  \/ TakeScreen \/ GameDraws \/ ReleaseScreen

Spec == Init /\ [][Next]_vars

-----------------------------------------------------------------------------
\* When the desktop's thread finds nothing to draw and goes to sleep, the monitor
\* shows every widget as it is: whatever changed was marked up to the desktop,
\* which is all pDesktop() looks at, and was redrawn with all that contains it
\* (MarkDirty, the RedrawToCache() and Draw() of each widget, Handle_sys_exit).
ScreenCurrent ==
  pc = "test" /\ ~stopped /\ Desktop \notin dirty =>
    /\ (cacheOld \cup shownOld) \cap Visible = {}
    /\ ~frontOld
=============================================================================
