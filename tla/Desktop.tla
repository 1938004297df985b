------------------------------- MODULE Desktop -------------------------------
(***************************************************************************)
(* The desktop and the programs on it: gui/desktop.cpp, Hgui.cpp,          *)
(* taskbar.cpp and the event side of button.cpp and window.cpp, with the   *)
(* user's side of them in libhx86.  Mouse interrupts, system calls and     *)
(* exits each run with interrupts off, so that each is one step.           *)
(*                                                                         *)
(* A program is named by its pid.  It has one window with a button, or     *)
(* takes the whole screen, as the programs in the repository do.           *)
(***************************************************************************)
EXTENDS Integers, SequencesExt, FiniteSetsExt

CONSTANTS
  Apps,       \* pids of programs with a window, each started once (bound)
  Games,      \* pids of programs that take the screen, each started once (bound)
  MaxTabs,    \* TASKBAR_TAB_MAX_TABS
  QueueCap,   \* bound: the events waiting in all queues
  EarlyClose  \* whether a window is closed before its program's main thread ended

VARIABLES
  main,      \* what the main thread of each program does next
  loop,      \* what its event thread does next
  got,       \* the event that thread has taken
  known,     \* the programs whose own tree of widgets has their window
  widgets,   \* the widgets of each program in HguiWidgets, the newest first
  handlers,  \* the programs with an entry in HguiEventHandlers
  queue,     \* their event queues
  children,  \* the desktop's childrenList, the window drawn last at the end
  focus,     \* its focusedChild
  tabs,      \* the tabs of the taskbar, the newest first
  active,    \* the program whose tab is the active one
  press,     \* where the mouse button is down
  owner      \* g_gui_owner_pid while g_stop_gui_rendering is set

Pid == Apps \cup Games
Taskbar == 0
None == -1

ASSUME DesktopAssumption ==
  /\ Pid \subseteq Nat \ {0} /\ Apps \cap Games = {}
  /\ MaxTabs \in Nat /\ QueueCap \in Nat /\ EarlyClose \in BOOLEAN

threadVars == <<main, loop, got, known>>
eventVars == <<handlers, queue>>
stackVars == <<children, focus, tabs, active>>
vars == <<threadVars, widgets, eventVars, stackVars, press, owner>>

Events == {"ON_CLICK", "ON_WINDOW_CLOSE"}

\* Where the mouse can be, apart from a place where nothing is pressed.  The start
\* menu is opened whenever one of its items is wanted.
Spot(kind, p) == [kind |-> kind, pid |-> p]
Spots == {Spot("desktop", None)} \cup
         {Spot(kind, p) : kind \in {"tab", "window", "button", "close"}, p \in Apps} \cup
         {Spot("item", p) : p \in Pid}
Up == Spot("up", None)
Away == Spot("away", None)

Ended(pc) == pc \in {"none", "ended"}
Running(p) == ~(Ended(main[p]) /\ Ended(loop[p]))

-----------------------------------------------------------------------------
\* The programs

\* The start menu's LaunchProgram(): a process with its main thread.
LaunchProgram(p) ==
  main' = [main EXCEPT ![p] = IF p \in Apps THEN "register" ELSE "framebuffer"]

\* One step of a main thread.
At(p, here, next) == main[p] = here /\ main' = [main EXCEPT ![p] = next]

\* init_graphics(): Hsys_regEventH makes the event thread and its handler.
createNewHandler(p) ==
  /\ At(p, "register", "window")
  /\ loop' = [loop EXCEPT ![p] = "get"]
  /\ handlers' = handlers \cup {p}
  /\ UNCHANGED <<got, known, widgets, queue, stackVars, press, owner>>

HandleWindow(p) ==
  /\ At(p, "window", "button")
  /\ widgets' = [widgets EXCEPT ![p] = <<"window">> \o @]
  /\ UNCHANGED <<loop, got, known, eventVars, stackVars, press, owner>>

\* A button, which stands for the labels too, finds its window in the table by its id.
HandleButton(p) ==
  /\ At(p, "button", "show")
  /\ Contains(widgets[p], "window")
  /\ widgets' = [widgets EXCEPT ![p] = <<"button">> \o @]
  /\ UNCHANGED <<loop, got, known, eventVars, stackVars, press, owner>>

AddTabToMany(p) == tabs' = <<p>> \o tabs

\* A tab for a window, unless the taskbar is full.
AddTab(p) == tabs' = IF Len(tabs) >= MaxTabs THEN tabs ELSE <<p>> \o tabs

\* show(): the window comes to the bottom of the stack, and its tab is the
\* active one if it gets one.
AddChild(p) ==
  /\ At(p, "show", "tree")
  /\ children' = <<p>> \o children
  /\ AddTab(p)
  /\ active' = IF Len(tabs) >= MaxTabs THEN active ELSE p
  /\ UNCHANGED <<loop, got, known, widgets, eventVars, focus, press, owner>>

\* Back in the program, its own tree gets the window.
AddToTree(p) ==
  /\ At(p, "tree", "return")
  /\ known' = known \cup {p}
  /\ UNCHANGED <<loop, got, widgets, eventVars, stackVars, press, owner>>

\* Hsys_getFramebuffer: whoever asks last has the screen.
getFramebuffer(p) ==
  /\ At(p, "framebuffer", "return")
  /\ owner' = p
  /\ UNCHANGED <<loop, got, known, widgets, eventVars, stackVars, press>>

-----------------------------------------------------------------------------
\* Exits

\* A window goes, with what was pressed in it.
RemoveChild(p) ==
  /\ children' = RemoveFirst(children, p)
  /\ press' = IF press.pid = p /\ press.kind # "item" THEN Away ELSE press

KeepAppTabs(p) ==
  /\ RemoveChild(p)
  /\ UNCHANGED <<tabs, active>>

RemoveApp(p) ==
  /\ RemoveChild(p)
  /\ tabs' = RemoveFirst(tabs, p)
  /\ active' = IF active = p THEN None ELSE active

KeepScreen(p) == UNCHANGED owner

\* The screen comes back with the process that owns it.
ReleaseScreen(p) == owner' = IF owner = p THEN None ELSE owner

\* Handle_sys_exit() when the last thread of p went.  Desktop::RemoveAppByPID
\* removes the window and its tab, HguiHandler::RemoveAppByPID one widget of the
\* table, the newest, and the handler with its events.
CleanUp(p) ==
  /\ RemoveApp(p)
  /\ widgets' = [widgets EXCEPT ![p] = IF @ = <<>> THEN @ ELSE Tail(@)]
  /\ handlers' = handlers \ {p}
  /\ queue' = [queue EXCEPT ![p] = <<>>]
  /\ ReleaseScreen(p)
  /\ UNCHANGED <<known, focus>>

\* A main thread ends; alone if the event thread is there.
ExitMain(p) ==
  /\ At(p, "return", "ended")
  /\ UNCHANGED <<loop, got>>
  /\ IF Ended(loop[p])
       THEN CleanUp(p)
       ELSE UNCHANGED <<known, widgets, eventVars, stackVars, press, owner>>

\* The event thread ends after a window was closed; alone if the main thread is there.
ExitLoop(p) ==
  /\ loop[p] = "handle"
  /\ got[p] = "ON_WINDOW_CLOSE" /\ p \in known
  /\ loop' = [loop EXCEPT ![p] = "ended"]
  /\ got' = [got EXCEPT ![p] = "nothing"]
  /\ UNCHANGED main
  /\ IF Ended(main[p])
       THEN CleanUp(p)
       ELSE UNCHANGED <<known, widgets, eventVars, stackVars, press, owner>>

-----------------------------------------------------------------------------
\* The event thread of a program

HandleEventOnce(p) ==
  /\ loop[p] = "get"
  /\ queue[p] # <<>>
  /\ got[p] = "nothing"
  /\ got' = [got EXCEPT ![p] = Head(queue[p])]
  /\ queue' = [queue EXCEPT ![p] = Tail(@)]
  /\ UNCHANGED <<main, loop, known, widgets, handlers, stackVars, press, owner>>

\* GET takes the first event of the queue, which is the last one added.
HandleEvent(p) ==
  /\ loop[p] = "get"
  /\ queue[p] # <<>>
  /\ got' = [got EXCEPT ![p] = Head(queue[p])]
  /\ queue' = [queue EXCEPT ![p] = Tail(@)]
  /\ loop' = [loop EXCEPT ![p] = "handle"]
  /\ UNCHANGED <<main, known, widgets, handlers, stackVars, press, owner>>

\* The callback of a click, or nothing if the program's tree has no such widget yet.
CallBack(p) ==
  /\ loop[p] = "handle"
  /\ got[p] = "ON_CLICK" \/ p \notin known
  /\ loop' = [loop EXCEPT ![p] = "get"]
  /\ got' = [got EXCEPT ![p] = "nothing"]
  /\ UNCHANGED <<main, known, widgets, eventVars, stackVars, press, owner>>

-----------------------------------------------------------------------------
\* The mouse

GetFocusInPlace(w) ==
  /\ focus' = w
  /\ children' = IF Contains(children, w) THEN children ELSE Append(children, w)
  /\ active' = IF Contains(tabs, w) THEN w ELSE None

\* Desktop::GetFocus(): the widget becomes the last child whether it was a
\* child or not, and its tab the active one.
GetFocus(w) ==
  /\ focus' = w
  /\ children' = Append(RemoveFirst(children, w), w)
  /\ active' = IF Contains(tabs, w) THEN w ELSE None

Reachable(s) ==
  CASE s.kind = "item" -> main[s.pid] = "none"
    [] s.kind = "tab" -> Contains(tabs, s.pid)
    [] s.kind \in {"window", "button", "close"} -> Contains(children, s.pid)
    [] OTHER -> TRUE

OnMouseDown(s) ==
  /\ press = Up
  /\ Reachable(s)
  /\ s.kind = "close" /\ ~EarlyClose => main[s.pid] = "ended"
  /\ press' = IF s.kind \in {"desktop", "window", "tab"} THEN Away ELSE s
  /\ CASE s.kind \in {"window", "button", "close", "tab"} -> GetFocus(s.pid)
       [] s.kind = "item" -> GetFocus(Taskbar)   \* from StartMenu up to the desktop
       [] OTHER -> UNCHANGED <<focus, children, active>>
  /\ UNCHANGED <<threadVars, widgets, eventVars, tabs, owner>>

\* The pointer leaves what was pressed.  Only an item of the menu, a button
\* and a close button do anything when they are released.
OnMouseMove ==
  /\ press \notin {Up, Away}
  /\ press' = Away
  /\ UNCHANGED <<threadVars, widgets, eventVars, stackVars, owner>>

\* Added in front.
PostEvent(p, event) ==
  /\ MapThenSumSet(LAMBDA q : Len(queue[q]), Apps) < QueueCap
  /\ queue' = [queue EXCEPT ![p] = <<event>> \o @]

\* A release over nothing that was pressed.
ReleaseAway ==
  /\ press = Away
  /\ press' = Up
  /\ UNCHANGED <<threadVars, widgets, eventVars, stackVars, owner>>

\* An item's program is loaded in the mouse interrupt; one that cannot be loaded
\* leaves nothing.
ChooseItem ==
  /\ press.kind = "item"
  /\ press' = Up
  /\ LaunchProgram(press.pid) \/ UNCHANGED main
  /\ UNCHANGED <<loop, got, known, widgets, eventVars, stackVars, owner>>

Button ==
  /\ press.kind = "button"
  /\ press' = Up
  /\ PostEvent(press.pid, "ON_CLICK")
  /\ UNCHANGED <<threadVars, widgets, handlers, stackVars, owner>>

OnClose ==
  /\ press.kind = "close"
  /\ press' = Up
  /\ PostEvent(press.pid, "ON_WINDOW_CLOSE")
  /\ UNCHANGED <<threadVars, widgets, handlers, stackVars, owner>>

-----------------------------------------------------------------------------
Init ==
  /\ main = [p \in Pid |-> "none"]
  /\ loop = [p \in Pid |-> "none"]
  /\ got = [p \in Pid |-> "nothing"]
  /\ known = {}
  /\ widgets = [p \in Pid |-> <<>>]
  /\ handlers = {}
  /\ queue = [p \in Pid |-> <<>>]
  /\ children = <<>> /\ focus = None
  /\ tabs = <<>> /\ active = None
  /\ press = Up
  /\ owner = None

Main(p) ==
  \/ createNewHandler(p) \/ HandleWindow(p) \/ HandleButton(p)
  \/ AddChild(p) \/ AddToTree(p) \/ getFramebuffer(p)

Loop(p) == HandleEvent(p) \/ CallBack(p) \/ ExitLoop(p)

Next ==
  \/ \E p \in Pid : Main(p) \/ ExitMain(p) \/ Loop(p)
  \/ \E s \in Spots : OnMouseDown(s)
  \/ OnMouseMove \/ ReleaseAway \/ ChooseItem \/ Button \/ OnClose

\* The scheduler runs every thread of a program with a window.  A game may run, and
\* a mouse rest, for ever.
Spec ==
  /\ Init /\ [][Next]_vars
  /\ \A p \in Apps : WF_vars(Main(p)) /\ WF_vars(ExitMain(p)) /\ WF_vars(Loop(p))

-----------------------------------------------------------------------------
TypeOK ==
  /\ main \in [Pid -> {"none", "register", "window", "button", "show", "tree",
                       "framebuffer", "return", "ended"}]
  /\ loop \in [Pid -> {"none", "get", "handle", "ended"}]
  /\ \A p \in Pid : got[p] \in Events <=> loop[p] = "handle"
  /\ known \subseteq Apps /\ handlers \subseteq Apps
  /\ \A p \in Pid : widgets[p] \in Seq({"window", "button"})
  /\ \A p \in Pid : queue[p] \in Seq(Events)
  /\ children \in Seq(Apps \cup {Taskbar})
  /\ focus \in Pid \cup {None, Taskbar} /\ active \in ToSet(tabs) \cup {None}
  /\ tabs \in Seq(Apps) /\ Len(tabs) <= MaxTabs
  /\ press \in Spots \cup {Up, Away}
  /\ owner \in Games \cup {None}

\* Whatever the mouse can reach leads somewhere: a window on the desktop and a
\* tab in the taskbar belong to a program whose handler is registered and whose
\* event thread is there to be woken, so that Button::OnMouseUp and
\* Window::OnClose never follow a handler or a thread that has gone
\* (createNewHandler, Handle_sys_exit, RemoveAppByPID).
WindowsOwned ==
  /\ \A p \in Apps : Contains(children, p) => p \in handlers /\ ~Ended(loop[p])
  /\ \A p \in ToSet(tabs) : Contains(children, p)
  /\ \A p \in handlers : Running(p)
  /\ IsInjective(children) /\ IsInjective(tabs)

\* The widget that has the focus is drawn last, above the others, as long as it is
\* a child of the desktop, whatever windows open, close and come to the front in
\* the meantime (CompositeWidget::GetFocus, AddChild).
FocusOnTop == Contains(children, focus) => Last(children) = focus

\* The desktop is drawn unless a program that is still running has the screen
\* (getFramebuffer, Handle_sys_exit).
OwnerAlive == owner # None => Running(owner)

\* Once the mouse is left alone, the event thread takes every event that waits, or
\* its program ends: the last come first, but none stays (HandleEvent, Desktop's
\* event loop in libhx86).
EventsTaken ==
  <>[](press = Up) => \A p \in Apps : queue[p] # <<>> ~> queue[p] = <<>>

=============================================================================
