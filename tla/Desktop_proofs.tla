---------------------------- MODULE Desktop_proofs ----------------------------
(***************************************************************************)
(* Proofs about the desktop, as long as no window is closed before its     *)
(* program's main thread ended: what the mouse can reach belongs to a      *)
(* program that can be woken, the focus is on top, and the screen belongs  *)
(* to a program that runs, for any number of programs and tabs.            *)
(*                                                                         *)
(* Then what is seen of it: the desktop's thread goes to sleep only when   *)
(* the monitor shows every widget as it is, for any number of windows; and *)
(* the text screen shows the end of what was printed, whatever its size.   *)
(***************************************************************************)
EXTENDS Desktop, Displays, QueueLemmas

(* The variables whose types the model leaves to their actions.            *)
Shapes ==
  /\ got \in [Pid -> Events \union {"nothing"}]
  /\ widgets \in [Pid -> Seq({"window", "button"})]
  /\ queue \in [Pid -> Seq(Events)]

(* An event thread that can be woken, and a program before its window shows.*)
Living == {"get", "handle"}
Hidden == {"none", "register", "window", "button", "show"}

(* How far the two threads of a program have come, and what that says of   *)
(* its handler, its events and the button of the mouse.                    *)
Course ==
  /\ \A p \in Apps :
       /\ main[p] # "framebuffer"
       /\ loop[p] = "none" <=> main[p] \in {"none", "register"}
       /\ loop[p] = "ended" => main[p] = "ended"
       /\ p \in handlers <=> loop[p] \in Living
       /\ got[p] = "ON_WINDOW_CLOSE" => main[p] = "ended"
       /\ "ON_WINDOW_CLOSE" \in ToSet(queue[p]) => main[p] = "ended"
  /\ \A p \in Games : loop[p] = "none" /\ main[p] \in {"none", "framebuffer", "return", "ended"}
  /\ press.kind = "close" => main[press.pid] = "ended"
  /\ press.kind = "item" => main[press.pid] = "none"

(* A window is there from show() to the end of the event thread.           *)
Windows ==
  /\ IsInjective(children) /\ IsInjective(tabs)
  /\ ToSet(tabs) \subseteq ToSet(children)
  /\ \A p \in Apps : p \in ToSet(children) => loop[p] \in Living /\ main[p] \notin Hidden
  /\ \A p \in Apps : main[p] \in Hidden => focus # p
  /\ focus \in ToSet(children) => Last(children) = focus

(* The inductive invariant.                                                *)
Ind == TypeOK /\ Shapes /\ Course /\ Windows /\ OwnerAlive
----------------------------------------------------------------------------
(* The operations on lists that QueueLemmas does not have.                 *)
LEMMA ContainsIs ==
  ASSUME NEW S, NEW q \in Seq(S), NEW e
  PROVE  Contains(q, e) <=> e \in ToSet(q)
BY DEF Contains, ToSet

(* Adding in front.                                                        *)
LEMMA PrependIs ==
  ASSUME NEW S, NEW q \in Seq(S), NEW e \in S
  PROVE  /\ <<e>> \o q \in Seq(S) /\ Len(<<e>> \o q) = Len(q) + 1
         /\ ToSet(<<e>> \o q) = {e} \union ToSet(q)
         /\ IsInjective(q) /\ e \notin ToSet(q) => IsInjective(<<e>> \o q)
         /\ q # <<>> => Last(<<e>> \o q) = Last(q)
<1> DEFINE r == <<e>> \o q
           n == Len(q)
<1>1. /\ n \in Nat /\ r \in Seq(S) /\ Len(r) = n + 1 /\ DOMAIN r = 1 .. n + 1 /\ DOMAIN q = 1 .. n
      /\ r[1] = e /\ \A i \in 1 .. n : r[i + 1] = q[i]
  OBVIOUS
<1> HIDE DEF r
<1>0. n \in Nat
  OBVIOUS
<1>2. \A i \in 2 .. n + 1 : r[i] = q[i - 1] /\ i - 1 \in 1 .. n
  <2> TAKE i \in 2 .. n + 1
  <2>1. i - 1 \in 1 .. n /\ (i - 1) + 1 = i
    BY <1>1
  <2> QED
    BY <1>1, <2>1
<1>3. \A i \in 1 .. n + 1 : i = 1 \/ i \in 2 .. n + 1
  BY <1>1
<1>4. ToSet(r) = {e} \union ToSet(q)
  <2>1. \A x \in ToSet(q) : x \in ToSet(r)
    <3> TAKE x \in ToSet(q)
    <3>1. PICK i \in 1 .. n : x = q[i]
      BY <1>1 DEF ToSet
    <3>2. i + 1 \in 1 .. n + 1
      BY <1>1
    <3> QED
      BY <1>1, <3>1, <3>2 DEF ToSet
  <2>2. \A x \in ToSet(r) : x = e \/ x \in ToSet(q)
    BY <1>1, <1>2, <1>3, SMTT(40) DEF ToSet
  <2>3. e \in ToSet(r)
    <3>1. 1 \in 1 .. n + 1
      BY <1>1
    <3> QED
      BY <1>1, <3>1 DEF ToSet
  <2> QED
    BY <2>1, <2>2, <2>3
<1>5. IsInjective(q) /\ e \notin ToSet(q) => IsInjective(r)
  <2> SUFFICES ASSUME IsInjective(q), e \notin ToSet(q),
                      NEW a \in 1 .. n + 1, NEW b \in 1 .. n + 1, r[a] = r[b]
               PROVE  a = b
    BY <1>1 DEF IsInjective
  <2>1. \A i \in 2 .. n + 1 : r[i] \in ToSet(q)
    BY <1>1, <1>2 DEF ToSet
  <2>2. CASE a = 1 \/ b = 1
    BY <1>1, <1>3, <2>1, <2>2
  <2>3. CASE a \in 2 .. n + 1 /\ b \in 2 .. n + 1
    <3>0. q[a - 1] = q[b - 1] /\ a - 1 \in DOMAIN q /\ b - 1 \in DOMAIN q
      BY <1>1, <1>2, <2>3
    <3>1. a - 1 = b - 1
      BY <3>0 DEF IsInjective
    <3>2. a \in Int /\ b \in Int
      OBVIOUS
    <3> QED
      BY <3>1, <3>2
  <2> QED
    BY <1>3, <2>2, <2>3
<1>6. q # <<>> => Last(r) = Last(q)
  <2> SUFFICES ASSUME q # <<>> PROVE Last(r) = Last(q)
    OBVIOUS
  <2>1. n \in 1 .. n
    BY <1>1
  <2> QED
    BY <1>1, <2>1 DEF Last
<1> QED
  BY <1>1, <1>4, <1>5, <1>6 DEF r

(* Removing another entry than the last.                                   *)
LEMMA RemoveKeepsLast ==
  ASSUME NEW S, NEW q \in Seq(S), NEW e
  PROVE  /\ Len(RemoveFirst(q, e)) \in Nat /\ Len(RemoveFirst(q, e)) <= Len(q)
         /\ q # <<>> /\ Last(q) # e => Last(RemoveFirst(q, e)) = Last(q)
<1> DEFINE r == RemoveFirst(q, e)
           n == Len(q)
<1>1. CASE \A i \in 1 .. n : q[i] # e
  BY <1>1, RemoveFirstNone
<1>2. CASE \E i \in 1 .. n : q[i] = e
  <2>1. PICK k \in 1 .. n :
          /\ q[k] = e /\ r \in Seq(S) /\ Len(r) = n - 1
          /\ \A i \in 1 .. n - 1 : r[i] = IF i < k THEN q[i] ELSE q[i + 1]
    BY <1>2, RemoveFirstIs
  <2> HIDE DEF r
  <2>2. n \in Nat /\ Len(r) \in Nat /\ Len(r) <= n
    BY <2>1
  <2>3. ASSUME Last(q) # e PROVE Last(r) = Last(q)
    <3>1. k # n /\ q[n] = Last(q)
      BY <2>1, <2>3 DEF Last
    <3>2. n - 1 \in 1 .. n - 1 /\ ~(n - 1 < k) /\ (n - 1) + 1 = n
      BY <2>2, <3>1
    <3>3. r[n - 1] = q[n]
      BY <2>1, <3>2
    <3> QED
      BY <2>1, <3>1, <3>3 DEF Last
  <2> QED
    BY <2>2, <2>3 DEF r
<1> QED
  BY <1>1, <1>2

(* Appending.                                                              *)
LEMMA AppendLast ==
  ASSUME NEW S, NEW q \in Seq(S), NEW e \in S
  PROVE  Last(Append(q, e)) = e
BY DEF Last
----------------------------------------------------------------------------
(* What the pids are, and what the mouse can be on.                        *)
LEMMA Pids ==
  /\ Apps \subseteq Pid /\ Games \subseteq Pid /\ \A p \in Pid : p \in Apps \/ p \in Games
  /\ \A p \in Apps : p \notin Games
  /\ None \notin Pid /\ Taskbar \notin Pid /\ None # Taskbar
BY DesktopAssumption DEF Pid, None, Taskbar

(* What the mouse is on belongs to a program.                              *)
LEMMA Presses ==
  ASSUME NEW s \in Spots \union {Up, Away}
  PROVE  /\ s.kind \in {"tab", "window", "button", "close"} => s \in Spots /\ s.pid \in Apps
         /\ s.kind = "item" => s \in Spots /\ s.pid \in Pid
         /\ s.kind \in {"desktop", "tab", "window", "button", "close", "item", "up", "away"}
BY Pids DEF Spots, Spot, Up, Away

(* Letting go is not the same as leaving the screen.                       *)
LEMMA Ups == Up.kind = "up" /\ Away.kind = "away" /\ Up # Away
BY DEF Up, Away, Spot

(* Nothing runs at first.                                                  *)
LEMMA InitInd == Init => Ind
<1> SUFFICES ASSUME Init PROVE Ind
  OBVIOUS
<1>1. ToSet(<<>>) = {} /\ IsInjective(<<>>)
  BY DEF ToSet, IsInjective
<1>2. TypeOK
  BY DesktopAssumption, Pids DEF Init, TypeOK, Events
<1>3. Shapes
  BY DEF Init, Shapes
<1>4. Course
  BY <1>1, Pids, Ups DEF Init, Course, Living
<1>5. Windows
  BY <1>1, Pids DEF Init, Windows
<1>6. OwnerAlive
  BY DEF Init, OwnerAlive
<1> QED
  BY <1>2, <1>3, <1>4, <1>5, <1>6 DEF Ind

(* The main thread of a program.                                           *)
LEMMA NewHandlerKeeps ==
  ASSUME Ind, NEW p \in Pid, createNewHandler(p)
  PROVE  Ind'
<1> USE DEF createNewHandler, At, eventVars, stackVars
<1>1. p \in Apps /\ loop[p] = "none" /\ main[p] = "register"
  BY Pids DEF Ind, Course
<1>2. /\ main' = [main EXCEPT ![p] = "window"] /\ loop' = [loop EXCEPT ![p] = "get"]
      /\ handlers' = handlers \union {p}
      /\ got' = got /\ known' = known /\ widgets' = widgets /\ queue' = queue /\ children' = children
      /\ focus' = focus /\ tabs' = tabs /\ active' = active /\ press' = press /\ owner' = owner
  OBVIOUS
<1> HIDE DEF createNewHandler, At, eventVars, stackVars
<1>3. TypeOK'
  BY <1>1, <1>2 DEF Ind, TypeOK
<1>4. Shapes'
  BY <1>2 DEF Ind, Shapes
<1>5. Course'
  BY <1>1, <1>2, Pids DEF Ind, Course, TypeOK, Living
<1>6. Windows'
  BY <1>1, <1>2, Pids DEF Ind, Windows, TypeOK, Living, Hidden
<1>7. OwnerAlive'
  BY <1>1, <1>2 DEF Ind, OwnerAlive, TypeOK, Running, Ended
<1> QED
  BY <1>3, <1>4, <1>5, <1>6, <1>7 DEF Ind

(* The program names its window; nothing else can see it yet.              *)
LEMMA HandleWindowKeeps ==
  ASSUME Ind, NEW p \in Pid, HandleWindow(p) \/ HandleButton(p)
  PROVE  Ind'
<1> USE DEF HandleWindow, HandleButton, At, eventVars, stackVars
<1>1. PICK next \in {"button", "show"}, w \in {"window", "button"} :
        /\ main' = [main EXCEPT ![p] = next] /\ widgets' = [widgets EXCEPT ![p] = <<w>> \o @]
  OBVIOUS
<1>2. /\ main[p] \in {"window", "button"} /\ loop' = loop /\ handlers' = handlers
      /\ got' = got /\ known' = known /\ queue' = queue /\ children' = children
      /\ focus' = focus /\ tabs' = tabs /\ active' = active /\ press' = press /\ owner' = owner
  OBVIOUS
<1> HIDE DEF HandleWindow, HandleButton, At, eventVars, stackVars
<1>3. p \in Apps
  BY <1>2, Pids DEF Ind, Course
<1>4. widgets' \in [Pid -> Seq({"window", "button"})]
  <2>1. widgets[p] \in Seq({"window", "button"})
    BY DEF Ind, Shapes
  <2>2. <<w>> \o widgets[p] \in Seq({"window", "button"})
    BY <2>1, PrependIs
  <2> QED
    BY <1>1, <2>2 DEF Ind, Shapes
<1>5. TypeOK'
  BY <1>1, <1>2, <1>4 DEF Ind, TypeOK
<1>6. Shapes'
  BY <1>2, <1>4 DEF Ind, Shapes
<1>7. Course'
  BY <1>1, <1>2, <1>3, Pids DEF Ind, Course, TypeOK, Living
<1>8. Windows'
  BY <1>1, <1>2, <1>3, Pids DEF Ind, Windows, TypeOK, Living, Hidden
<1>9. OwnerAlive'
  BY <1>1, <1>2 DEF Ind, OwnerAlive, TypeOK, Running, Ended
<1> QED
  BY <1>5, <1>6, <1>7, <1>8, <1>9 DEF Ind

(* show() brings the window to the bottom of the stack.                    *)
LEMMA AddChildKeeps ==
  ASSUME Ind, NEW p \in Pid, AddChild(p)
  PROVE  Ind'
<1> USE DEF AddChild, AddTab, At, eventVars
<1>1. p \in Apps /\ main[p] = "show" /\ loop[p] \in Living
  BY Pids DEF Ind, Course, TypeOK, Living
<1>2. /\ main' = [main EXCEPT ![p] = "tree"] /\ children' = <<p>> \o children
      /\ tabs' = (IF Len(tabs) >= MaxTabs THEN tabs ELSE <<p>> \o tabs)
      /\ active' = (IF Len(tabs) >= MaxTabs THEN active ELSE p)
      /\ loop' = loop /\ handlers' = handlers /\ got' = got /\ known' = known /\ queue' = queue
      /\ widgets' = widgets /\ focus' = focus /\ press' = press /\ owner' = owner
  OBVIOUS
<1> HIDE DEF AddChild, AddTab, At, eventVars
<1>3. children \in Seq(Apps \union {Taskbar}) /\ tabs \in Seq(Apps) /\ Len(tabs) <= MaxTabs /\ Len(tabs) \in Nat
  BY DEF Ind, TypeOK
<1>4. p \notin ToSet(children) /\ p \notin ToSet(tabs) /\ focus # p
  BY <1>1 DEF Ind, Windows, Hidden
<1>5. /\ children' \in Seq(Apps \union {Taskbar}) /\ ToSet(children') = {p} \union ToSet(children)
      /\ IsInjective(children') /\ (children # <<>> => Last(children') = Last(children))
  BY <1>1, <1>2, <1>3, <1>4, PrependIs DEF Ind, Windows
<1>6. /\ tabs' \in Seq(Apps) /\ IsInjective(tabs') /\ ToSet(tabs') \subseteq {p} \union ToSet(tabs)
      /\ ToSet(tabs) \subseteq ToSet(tabs') /\ Len(tabs') <= MaxTabs
      /\ active' \in ToSet(tabs') \union {None}
  <2>1. CASE Len(tabs) >= MaxTabs
    BY <1>2, <1>3, <2>1 DEF Ind, Windows, TypeOK
  <2>2. CASE ~(Len(tabs) >= MaxTabs)
    <3>1. tabs' = <<p>> \o tabs /\ active' = p /\ Len(tabs) + 1 <= MaxTabs
      BY <1>2, <1>3, <2>2, DesktopAssumption
    <3>2. /\ tabs' \in Seq(Apps) /\ ToSet(tabs') = {p} \union ToSet(tabs) /\ IsInjective(tabs')
          /\ Len(tabs') = Len(tabs) + 1
      BY <1>1, <1>3, <1>4, <3>1, PrependIs DEF Ind, Windows
    <3> QED
      BY <3>1, <3>2
  <2> QED
    BY <2>1, <2>2
<1>7. TypeOK'
  BY <1>1, <1>2, <1>5, <1>6 DEF Ind, TypeOK
<1>8. Shapes'
  BY <1>2 DEF Ind, Shapes
<1>9. Course'
  BY <1>1, <1>2, Pids DEF Ind, Course, TypeOK, Living
<1>10. Windows'
  <2>1. ToSet(tabs') \subseteq ToSet(children')
    BY <1>5, <1>6 DEF Ind, Windows
  <2>2. \A q \in Apps : q \in ToSet(children') => loop'[q] \in Living /\ main'[q] \notin Hidden
    BY <1>1, <1>2, <1>5, Pids DEF Ind, Windows, TypeOK, Hidden
  <2>3. \A q \in Apps : main'[q] \in Hidden => focus' # q
    BY <1>2, <1>4, Pids DEF Ind, Windows, TypeOK, Hidden
  <2>4. focus' \in ToSet(children') => Last(children') = focus'
    <3> SUFFICES ASSUME focus \in ToSet(children) PROVE Last(children') = focus
      BY <1>2, <1>4, <1>5
    <3>1. children # <<>>
      BY DEF ToSet
    <3> QED
      BY <1>5, <3>1 DEF Ind, Windows
  <2> QED
    BY <1>5, <1>6, <2>1, <2>2, <2>3, <2>4 DEF Windows
<1>11. OwnerAlive'
  BY <1>1, <1>2 DEF Ind, OwnerAlive, TypeOK, Running, Ended
<1> QED
  BY <1>7, <1>8, <1>9, <1>10, <1>11 DEF Ind

(* The tree of the program gets its button.                                *)
LEMMA AddToTreeKeeps ==
  ASSUME Ind, NEW p \in Pid, AddToTree(p) \/ getFramebuffer(p)
  PROVE  Ind'
<1> USE DEF AddToTree, getFramebuffer, At, eventVars, stackVars
<1>1. /\ main[p] \in {"tree", "framebuffer"} /\ main' = [main EXCEPT ![p] = "return"]
      /\ loop' = loop /\ handlers' = handlers
      /\ got' = got /\ queue' = queue /\ children' = children /\ widgets' = widgets
      /\ focus' = focus /\ tabs' = tabs /\ active' = active /\ press' = press
  OBVIOUS
<1>2. /\ known' = known \/ (known' = known \union {p} /\ main[p] = "tree")
      /\ owner' = owner \/ (owner' = p /\ main[p] = "framebuffer")
  OBVIOUS
<1> HIDE DEF AddToTree, getFramebuffer, At, eventVars, stackVars
<1>3. /\ main[p] = "tree" => p \in Apps
      /\ main[p] = "framebuffer" => p \in Games
  BY Pids DEF Ind, Course
<1>4. TypeOK'
  BY <1>1, <1>2, <1>3 DEF Ind, TypeOK
<1>5. Shapes'
  BY <1>1 DEF Ind, Shapes
<1>6. Course'
  BY <1>1, <1>3, Pids DEF Ind, Course, TypeOK, Living
<1>7. Windows'
  BY <1>1, <1>3, Pids DEF Ind, Windows, TypeOK, Living, Hidden
<1>8. OwnerAlive'
  BY <1>1, <1>2, Pids DEF Ind, OwnerAlive, TypeOK, Running, Ended
<1> QED
  BY <1>4, <1>5, <1>6, <1>7, <1>8 DEF Ind

----------------------------------------------------------------------------
(* Exits. The last thread of p takes its window, its tab, its handler, its *)
(* events and its screen away.                                             *)
LEMMA CleanUpKeeps ==
  ASSUME Ind, NEW p \in Pid, CleanUp(p),
         main' \in [Pid -> {"none", "register", "window", "button", "show", "tree",
                            "framebuffer", "return", "ended"}],
         loop' \in [Pid -> {"none", "get", "handle", "ended"}],
         got' \in [Pid -> Events \union {"nothing"}],
         \A q \in Pid \ {p} : main'[q] = main[q] /\ loop'[q] = loop[q] /\ got'[q] = got[q],
         main[p] # "none", main'[p] = "ended", loop'[p] \in {"none", "ended"}, got'[p] \notin Events,
         p \in Apps => loop'[p] = "ended", p \in Games => loop'[p] = "none"
  PROVE  Ind'
<1> USE DEF CleanUp, RemoveApp, RemoveChild, ReleaseScreen
<1>1. /\ children' = RemoveFirst(children, p) /\ tabs' = RemoveFirst(tabs, p)
      /\ press' = (IF press.pid = p /\ press.kind # "item" THEN Away ELSE press)
      /\ active' = (IF active = p THEN None ELSE active)
      /\ widgets' = [widgets EXCEPT ![p] = IF @ = <<>> THEN @ ELSE Tail(@)]
      /\ handlers' = handlers \ {p} /\ queue' = [queue EXCEPT ![p] = <<>>]
      /\ owner' = (IF owner = p THEN None ELSE owner)
      /\ known' = known /\ focus' = focus
  OBVIOUS
<1> HIDE DEF CleanUp, RemoveApp, RemoveChild, ReleaseScreen
<1>2. children \in Seq(Apps \union {Taskbar}) /\ tabs \in Seq(Apps) /\ Len(tabs) <= MaxTabs
  BY DEF Ind, TypeOK
<1>3. /\ children' \in Seq(Apps \union {Taskbar}) /\ ToSet(children') = ToSet(children) \ {p}
      /\ IsInjective(children')
      /\ children # <<>> /\ Last(children) # p => Last(children') = Last(children)
  BY <1>1, <1>2, RemoveInjective, RemoveEntries, RemoveKeepsLast DEF Ind, Windows
<1>4. tabs' \in Seq(Apps) /\ ToSet(tabs') = ToSet(tabs) \ {p} /\ IsInjective(tabs') /\ Len(tabs') <= MaxTabs
  <2>1. tabs' \in Seq(Apps) /\ ToSet(tabs') = ToSet(tabs) \ {p} /\ IsInjective(tabs')
    BY <1>1, <1>2, RemoveInjective, RemoveEntries DEF Ind, Windows
  <2>2. Len(tabs') \in Nat /\ Len(tabs) \in Nat /\ Len(tabs') <= Len(tabs)
    BY <1>1, <1>2, RemoveKeepsLast
  <2> QED
    BY <1>2, <2>1, <2>2, DesktopAssumption
<1>5. widgets' \in [Pid -> Seq({"window", "button"})]
  <2>1. widgets[p] \in Seq({"window", "button"})
    BY DEF Ind, Shapes
  <2>2. widgets[p] # <<>> => Tail(widgets[p]) \in Seq({"window", "button"})
    BY <2>1
  <2> QED
    BY <1>1, <2>1, <2>2 DEF Ind, Shapes
<1>6. /\ queue' \in [Pid -> Seq(Events)] /\ queue'[p] = <<>> /\ ToSet(<<>>) = {}
      /\ \A q \in Pid \ {p} : queue'[q] = queue[q]
  BY <1>1 DEF Ind, Shapes, ToSet
<1>7. press' \in Spots \union {Up, Away} /\ (press' = press \/ press' = Away)
      /\ (press'.pid = p => press'.kind \in {"item", "away"})
  BY <1>1, Ups DEF Ind, TypeOK
<1>8. TypeOK'
  <2>1. active' \in ToSet(tabs') \union {None}
    BY <1>1, <1>4 DEF Ind, TypeOK
  <2>2. owner' \in Games \union {None} /\ known' \subseteq Apps /\ handlers' \subseteq Apps
    BY <1>1 DEF Ind, TypeOK
  <2>3. \A q \in Pid : got'[q] \in Events <=> loop'[q] = "handle"
    BY DEF Ind, TypeOK
  <2> QED
    BY <1>1, <1>3, <1>4, <1>5, <1>6, <1>7, <2>1, <2>2, <2>3 DEF Ind, TypeOK
<1>9. Shapes'
  BY <1>5, <1>6 DEF Shapes
<1>10. Course'
  <2>1. \A q \in Apps :
          /\ main'[q] # "framebuffer"
          /\ loop'[q] = "none" <=> main'[q] \in {"none", "register"}
          /\ loop'[q] = "ended" => main'[q] = "ended"
          /\ q \in handlers' <=> loop'[q] \in Living
          /\ got'[q] = "ON_WINDOW_CLOSE" => main'[q] = "ended"
          /\ "ON_WINDOW_CLOSE" \in ToSet(queue'[q]) => main'[q] = "ended"
    BY <1>1, <1>6, Pids DEF Ind, Course, Living
  <2>2. \A q \in Games : loop'[q] = "none" /\ main'[q] \in {"none", "framebuffer", "return", "ended"}
    <3> SUFFICES ASSUME NEW q \in Games
                 PROVE  loop'[q] = "none" /\ main'[q] \in {"none", "framebuffer", "return", "ended"}
      OBVIOUS
    <3>1. CASE q = p
      BY <3>1
    <3>2. CASE q # p
      BY <3>2, Pids DEF Ind, Course
    <3> QED
      BY <3>1, <3>2
  <2>3. /\ press'.kind = "close" => main'[press'.pid] = "ended"
        /\ press'.kind = "item" => main'[press'.pid] = "none"
    BY <1>7, Presses, Pids, Ups DEF Ind, Course
  <2> QED
    BY <2>1, <2>2, <2>3 DEF Course
<1>11. Windows'
  <2>1. ToSet(tabs') \subseteq ToSet(children')
    BY <1>3, <1>4 DEF Ind, Windows
  <2>2. \A q \in Apps : q \in ToSet(children') => loop'[q] \in Living /\ main'[q] \notin Hidden
    BY <1>3, Pids DEF Ind, Windows
  <2>3. \A q \in Apps : main'[q] \in Hidden => focus' # q
    BY <1>1, Pids DEF Ind, Windows, Hidden
  <2>4. focus' \in ToSet(children') => Last(children') = focus'
    <3> SUFFICES ASSUME focus \in ToSet(children), focus # p PROVE Last(children') = focus
      BY <1>1, <1>3
    <3>1. children # <<>>
      BY DEF ToSet
    <3> QED
      BY <1>3, <3>1 DEF Ind, Windows
  <2> QED
    BY <1>3, <1>4, <2>1, <2>2, <2>3, <2>4 DEF Windows
<1>12. OwnerAlive'
  <2>1. ASSUME owner' # None PROVE owner' \in Pid \ {p} /\ owner = owner'
    BY <1>1, <2>1, Pids DEF Ind, TypeOK
  <2> QED
    BY <2>1, Pids DEF Ind, OwnerAlive, Running, Ended
<1> QED
  BY <1>8, <1>9, <1>10, <1>11, <1>12 DEF Ind

(* The main thread ends; with it a game gives the screen back.             *)
LEMMA ExitMainKeeps ==
  ASSUME Ind, NEW p \in Pid, ExitMain(p)
  PROVE  Ind'
<1>1. main[p] = "return" /\ main' = [main EXCEPT ![p] = "ended"] /\ loop' = loop /\ got' = got
  BY DEF ExitMain, At
<1>2. p \in Apps => loop[p] \in Living
  BY <1>1 DEF Ind, Course, TypeOK, Living
<1>3. CASE Ended(loop[p])
  <2>1. p \in Games /\ loop[p] = "none"
    BY <1>2, <1>3, Pids DEF Ind, Course, Ended, Living
  <2>2. got[p] \notin Events
    BY <2>1 DEF Ind, TypeOK
  <2>3. /\ main' \in [Pid -> {"none", "register", "window", "button", "show", "tree",
                              "framebuffer", "return", "ended"}]
        /\ loop' \in [Pid -> {"none", "get", "handle", "ended"}]
        /\ got' \in [Pid -> Events \union {"nothing"}]
        /\ \A q \in Pid \ {p} : main'[q] = main[q] /\ loop'[q] = loop[q] /\ got'[q] = got[q]
        /\ main'[p] = "ended"
    BY <1>1 DEF Ind, TypeOK, Shapes
  <2>4. CleanUp(p)
    BY <1>3 DEF ExitMain
  <2> QED
    BY <1>1, <2>1, <2>2, <2>3, <2>4, Pids, CleanUpKeeps
<1>4. CASE ~Ended(loop[p])
  <2>1. /\ known' = known /\ widgets' = widgets /\ handlers' = handlers /\ queue' = queue
        /\ children' = children /\ focus' = focus /\ tabs' = tabs /\ active' = active /\ press' = press
        /\ owner' = owner
    BY <1>4 DEF ExitMain, eventVars, stackVars
  <2>2. p \in Apps
    BY <1>4, Pids DEF Ind, Course, Ended
  <2>3. TypeOK'
    BY <1>1, <2>1 DEF Ind, TypeOK
  <2>4. Shapes'
    BY <1>1, <2>1 DEF Ind, Shapes
  <2>5. Course'
    BY <1>1, <1>2, <2>1, <2>2, Pids DEF Ind, Course, TypeOK, Living
  <2>6. Windows'
    BY <1>1, <2>1, <2>2, Pids DEF Ind, Windows, TypeOK, Living, Hidden
  <2>7. OwnerAlive'
    BY <1>1, <1>4, <2>1, Pids DEF Ind, OwnerAlive, TypeOK, Running, Ended
  <2> QED
    BY <2>3, <2>4, <2>5, <2>6, <2>7 DEF Ind
<1> QED
  BY <1>3, <1>4

(* The event thread ends with the program's window.                        *)
LEMMA ExitLoopKeeps ==
  ASSUME Ind, NEW p \in Pid, ExitLoop(p)
  PROVE  Ind'
<1>1. /\ loop[p] = "handle" /\ got[p] = "ON_WINDOW_CLOSE"
      /\ loop' = [loop EXCEPT ![p] = "ended"] /\ got' = [got EXCEPT ![p] = "nothing"] /\ main' = main
  BY DEF ExitLoop
<1>2. p \in Apps /\ main[p] = "ended"
  BY <1>1, Pids DEF Ind, Course
<1>3. CleanUp(p)
  BY <1>2 DEF ExitLoop, Ended
<1>4. /\ main' \in [Pid -> {"none", "register", "window", "button", "show", "tree",
                            "framebuffer", "return", "ended"}]
      /\ loop' \in [Pid -> {"none", "get", "handle", "ended"}]
      /\ got' \in [Pid -> Events \union {"nothing"}]
      /\ \A q \in Pid \ {p} : main'[q] = main[q] /\ loop'[q] = loop[q] /\ got'[q] = got[q]
      /\ main'[p] = "ended" /\ loop'[p] = "ended" /\ got'[p] = "nothing"
  BY <1>1, <1>2 DEF Ind, TypeOK, Shapes
<1> QED
  BY <1>2, <1>3, <1>4, Pids, CleanUpKeeps DEF Events

(* The event thread takes the first event, and calls back.                 *)
LEMMA HandleEventKeeps ==
  ASSUME Ind, NEW p \in Pid, HandleEvent(p)
  PROVE  Ind'
<1>1. /\ loop[p] = "get" /\ queue[p] # <<>>
      /\ got' = [got EXCEPT ![p] = Head(queue[p])] /\ queue' = [queue EXCEPT ![p] = Tail(@)]
      /\ loop' = [loop EXCEPT ![p] = "handle"]
      /\ main' = main /\ known' = known /\ widgets' = widgets /\ handlers' = handlers
      /\ children' = children /\ focus' = focus /\ tabs' = tabs /\ active' = active
      /\ press' = press /\ owner' = owner
  BY DEF HandleEvent, stackVars
<1>2. p \in Apps
  BY <1>1, Pids DEF Ind, Course
<1>3. /\ queue[p] \in Seq(Events) /\ Head(queue[p]) \in Events /\ Head(queue[p]) \in ToSet(queue[p])
      /\ Tail(queue[p]) \in Seq(Events) /\ ToSet(Tail(queue[p])) \subseteq ToSet(queue[p])
  <2>1. queue[p] \in Seq(Events)
    BY DEF Ind, Shapes
  <2> QED
    BY <1>1, <2>1, PopEntries
<1>4. /\ got' \in [Pid -> Events \union {"nothing"}] /\ got'[p] \in ToSet(queue[p]) /\ got'[p] \in Events
      /\ queue' \in [Pid -> Seq(Events)] /\ ToSet(queue'[p]) \subseteq ToSet(queue[p])
      /\ loop' \in [Pid -> {"none", "get", "handle", "ended"}] /\ loop'[p] = "handle"
      /\ \A q \in Pid \ {p} : got'[q] = got[q] /\ queue'[q] = queue[q] /\ loop'[q] = loop[q]
  BY <1>1, <1>3 DEF Ind, Shapes, TypeOK
<1>5. TypeOK'
  <2>1. \A q \in Pid : got'[q] \in Events <=> loop'[q] = "handle"
    BY <1>4 DEF Ind, TypeOK
  <2> QED
    BY <1>1, <1>4, <2>1 DEF Ind, TypeOK
<1>6. Shapes'
  BY <1>1, <1>4 DEF Ind, Shapes
<1>7. Course'
  <2>1. \A q \in Apps :
          /\ main'[q] # "framebuffer"
          /\ loop'[q] = "none" <=> main'[q] \in {"none", "register"}
          /\ loop'[q] = "ended" => main'[q] = "ended"
          /\ q \in handlers' <=> loop'[q] \in Living
          /\ got'[q] = "ON_WINDOW_CLOSE" => main'[q] = "ended"
          /\ "ON_WINDOW_CLOSE" \in ToSet(queue'[q]) => main'[q] = "ended"
    <3> SUFFICES ASSUME NEW q \in Apps
                 PROVE  /\ main'[q] # "framebuffer"
                        /\ loop'[q] = "none" <=> main'[q] \in {"none", "register"}
                        /\ loop'[q] = "ended" => main'[q] = "ended"
                        /\ q \in handlers' <=> loop'[q] \in Living
                        /\ got'[q] = "ON_WINDOW_CLOSE" => main'[q] = "ended"
                        /\ "ON_WINDOW_CLOSE" \in ToSet(queue'[q]) => main'[q] = "ended"
      OBVIOUS
    <3>1. CASE q = p
      BY <1>1, <1>4, <3>1 DEF Ind, Course, Living
    <3>2. CASE q # p
      BY <1>1, <1>4, <3>2, Pids DEF Ind, Course, Living
    <3> QED
      BY <3>1, <3>2
  <2>2. \A q \in Games : loop'[q] = "none" /\ main'[q] \in {"none", "framebuffer", "return", "ended"}
    BY <1>1, <1>2, <1>4, Pids DEF Ind, Course
  <2> QED
    BY <1>1, <2>1, <2>2 DEF Ind, Course
<1>8. Windows'
  BY <1>1, <1>2, <1>4, Pids DEF Ind, Windows, Living
<1>9. OwnerAlive'
  BY <1>1, <1>4 DEF Ind, OwnerAlive, Running, Ended
<1> QED
  BY <1>5, <1>6, <1>7, <1>8, <1>9 DEF Ind

(* What the program does about an event; closing ends the event thread.    *)
LEMMA CallBackKeeps ==
  ASSUME Ind, NEW p \in Pid, CallBack(p)
  PROVE  Ind'
<1>1. /\ loop[p] = "handle" /\ loop' = [loop EXCEPT ![p] = "get"] /\ got' = [got EXCEPT ![p] = "nothing"]
      /\ queue' = queue /\ main' = main /\ known' = known /\ widgets' = widgets /\ handlers' = handlers
      /\ children' = children /\ focus' = focus /\ tabs' = tabs /\ active' = active
      /\ press' = press /\ owner' = owner
  BY DEF CallBack, stackVars, eventVars
<1>2. p \in Apps
  BY <1>1, Pids DEF Ind, Course
<1>3. TypeOK'
  BY <1>1 DEF Ind, TypeOK, Shapes, Events
<1>4. Shapes'
  BY <1>1 DEF Ind, Shapes
<1>5. Course'
  BY <1>1, <1>2, Pids DEF Ind, Course, TypeOK, Shapes, Living
<1>6. Windows'
  BY <1>1, <1>2, Pids DEF Ind, Windows, TypeOK, Living
<1>7. OwnerAlive'
  BY <1>1 DEF Ind, OwnerAlive, TypeOK, Running, Ended
<1> QED
  BY <1>3, <1>4, <1>5, <1>6, <1>7 DEF Ind

----------------------------------------------------------------------------
(* The mouse. What has the focus comes to the end of the list.             *)
LEMMA GetFocusEffect ==
  ASSUME Ind, NEW w \in Apps \union {Taskbar}, w \in Apps => w \in ToSet(children), GetFocus(w)
  PROVE  /\ focus' = w /\ children' \in Seq(Apps \union {Taskbar}) /\ IsInjective(children')
         /\ ToSet(children') = ToSet(children) \union {w} /\ Last(children') = w
         /\ active' \in ToSet(tabs) \union {None}
<1> DEFINE r == RemoveFirst(children, w)
<1>1. focus' = w /\ children' = Append(r, w) /\ active' = (IF Contains(tabs, w) THEN w ELSE None)
  BY DEF GetFocus
<1>2. children \in Seq(Apps \union {Taskbar}) /\ IsInjective(children) /\ tabs \in Seq(Apps)
  BY DEF Ind, TypeOK, Windows
<1>3. r \in Seq(Apps \union {Taskbar}) /\ IsInjective(r) /\ ToSet(r) = ToSet(children) \ {w}
  BY <1>2, RemoveInjective, RemoveEntries
<1> HIDE DEF r
<1>4. /\ Append(r, w) \in Seq(Apps \union {Taskbar}) /\ IsInjective(Append(r, w))
      /\ ToSet(Append(r, w)) = ToSet(children) \union {w} /\ Last(Append(r, w)) = w
  BY <1>3, AppendEntries, AppendInjective2, AppendLast
<1>5. active' \in ToSet(tabs) \union {None}
  BY <1>1, <1>2, ContainsIs
<1> QED
  BY <1>1, <1>4, <1>5

(* A press moves the focus and remembers what it was on.                   *)
LEMMA OnMouseDownKeeps ==
  ASSUME EarlyClose = FALSE, Ind, NEW s \in Spots, OnMouseDown(s)
  PROVE  Ind'
<1>1. /\ main' = main /\ loop' = loop /\ got' = got /\ known' = known /\ widgets' = widgets
      /\ handlers' = handlers /\ queue' = queue /\ tabs' = tabs /\ owner' = owner
      /\ Reachable(s) /\ press' = (IF s.kind \in {"desktop", "window", "tab"} THEN Away ELSE s)
      /\ s.kind = "close" => main[s.pid] = "ended"
  BY DEF OnMouseDown, threadVars, eventVars
<1>2. /\ s.kind \in {"tab", "window", "button", "close"} => s.pid \in Apps
      /\ s.kind = "item" => s.pid \in Pid
      /\ s.kind \in {"desktop", "tab", "window", "button", "close", "item"}
  BY DEF Spots, Spot, Pid
<1>3. children \in Seq(Apps \union {Taskbar}) /\ tabs \in Seq(Apps)
  BY DEF Ind, TypeOK
<1>4. s.kind \in {"tab", "window", "button", "close"} => s.pid \in ToSet(children)
  <2>1. CASE s.kind = "tab"
    <3>1. Contains(tabs, s.pid)
      BY <1>1, <2>1 DEF Reachable
    <3>2. s.pid \in ToSet(tabs)
      BY <1>3, <3>1, ContainsIs
    <3> QED
      BY <3>2 DEF Ind, Windows
  <2>2. CASE s.kind \in {"window", "button", "close"}
    <3>1. Contains(children, s.pid)
      BY <1>1, <2>2 DEF Reachable
    <3> QED
      BY <1>3, <3>1, ContainsIs
  <2> QED
    BY <2>1, <2>2
<1>5. s.kind = "item" => main[s.pid] = "none"
  BY <1>1 DEF Reachable
<1>6. \/ \E w \in Apps \union {Taskbar} : (w \in Apps => w \in ToSet(children)) /\ GetFocus(w)
      \/ focus' = focus /\ children' = children /\ active' = active
  <2>1. CASE s.kind \in {"window", "button", "close", "tab"}
    <3>1. GetFocus(s.pid)
      BY <2>1 DEF OnMouseDown
    <3> QED
      BY <1>2, <1>4, <2>1, <3>1
  <2>2. CASE s.kind = "item"
    <3>1. GetFocus(Taskbar)
      BY <2>2 DEF OnMouseDown
    <3> QED
      BY <3>1, Pids
  <2>3. CASE s.kind = "desktop"
    BY <2>3 DEF OnMouseDown
  <2> QED
    BY <1>2, <2>1, <2>2, <2>3
<1>7. /\ children' \in Seq(Apps \union {Taskbar}) /\ IsInjective(children')
      /\ ToSet(children) \subseteq ToSet(children')
      /\ \A q \in Apps : q \in ToSet(children') => q \in ToSet(children)
      /\ active' \in ToSet(tabs) \union {None}
      /\ focus' \in Pid \union {None, Taskbar}
      /\ focus' \in ToSet(children') => Last(children') = focus'
      /\ \A q \in Apps : focus' = q => focus = q \/ q \in ToSet(children)
  <2>1. ASSUME NEW w \in Apps \union {Taskbar}, w \in Apps => w \in ToSet(children), GetFocus(w)
        PROVE  /\ children' \in Seq(Apps \union {Taskbar}) /\ IsInjective(children')
               /\ ToSet(children) \subseteq ToSet(children')
               /\ \A q \in Apps : q \in ToSet(children') => q \in ToSet(children)
               /\ active' \in ToSet(tabs) \union {None}
               /\ focus' \in Pid \union {None, Taskbar}
               /\ focus' \in ToSet(children') => Last(children') = focus'
               /\ \A q \in Apps : focus' = q => focus = q \/ q \in ToSet(children)
    BY <2>1, GetFocusEffect, Pids
  <2>2. ASSUME focus' = focus, children' = children, active' = active
        PROVE  /\ children' \in Seq(Apps \union {Taskbar}) /\ IsInjective(children')
               /\ active' \in ToSet(tabs) \union {None} /\ focus' \in Pid \union {None, Taskbar}
               /\ focus' \in ToSet(children') => Last(children') = focus'
    BY <2>2 DEF Ind, TypeOK, Windows
  <2> QED
    BY <1>6, <2>1, <2>2
<1>8. press' \in Spots \union {Up, Away}
  BY <1>1
<1>9. TypeOK'
  BY <1>1, <1>7, <1>8 DEF Ind, TypeOK
<1>10. Shapes'
  BY <1>1 DEF Ind, Shapes
<1>11. Course'
  BY <1>1, <1>5, Ups DEF Ind, Course
<1>12. Windows'
  BY <1>1, <1>7 DEF Ind, Windows
<1>13. OwnerAlive'
  BY <1>1 DEF Ind, OwnerAlive, Running
<1> QED
  BY <1>9, <1>10, <1>11, <1>12, <1>13 DEF Ind

(* Moving away lets go of what was pressed.                                *)
LEMMA OnMouseMoveKeeps ==
  ASSUME Ind, OnMouseMove \/ ReleaseAway
  PROVE  Ind'
<1>1. /\ main' = main /\ loop' = loop /\ got' = got /\ known' = known /\ widgets' = widgets
      /\ handlers' = handlers /\ queue' = queue /\ children' = children /\ focus' = focus
      /\ tabs' = tabs /\ active' = active /\ owner' = owner /\ press' \in {Up, Away}
  BY DEF OnMouseMove, ReleaseAway, threadVars, eventVars, stackVars
<1>2. TypeOK'
  BY <1>1 DEF Ind, TypeOK
<1>3. Shapes'
  BY <1>1 DEF Ind, Shapes
<1>4. Course'
  BY <1>1, Ups DEF Ind, Course
<1>5. Windows'
  BY <1>1 DEF Ind, Windows
<1>6. OwnerAlive'
  BY <1>1 DEF Ind, OwnerAlive, Running
<1> QED
  BY <1>2, <1>3, <1>4, <1>5, <1>6 DEF Ind

(* The start menu starts a program that was not there before.              *)
LEMMA ChooseItemKeeps ==
  ASSUME Ind, ChooseItem
  PROVE  Ind'
<1> DEFINE p == press.pid
<1>1. /\ loop' = loop /\ got' = got /\ known' = known /\ widgets' = widgets
      /\ handlers' = handlers /\ queue' = queue /\ children' = children /\ focus' = focus
      /\ tabs' = tabs /\ active' = active /\ owner' = owner /\ press' = Up /\ press.kind = "item"
      /\ main' = [main EXCEPT ![p] = IF p \in Apps THEN "register" ELSE "framebuffer"] \/ main' = main
  BY DEF ChooseItem, LaunchProgram, eventVars, stackVars
<1>2. p \in Pid /\ main[p] = "none" /\ loop[p] = "none"
  <2>1. p \in Pid
    BY <1>1, Presses DEF Ind, TypeOK
  <2>2. main[p] = "none"
    BY <1>1 DEF Ind, Course
  <2> QED
    BY <2>1, <2>2, Pids DEF Ind, Course
<1> HIDE DEF p
<1>3. TypeOK'
  BY <1>1, <1>2 DEF Ind, TypeOK
<1>4. Shapes'
  BY <1>1 DEF Ind, Shapes
<1>5. Course'
  BY <1>1, <1>2, Pids, Ups DEF Ind, Course, TypeOK
<1>6. Windows'
  BY <1>1, <1>2, Pids DEF Ind, Windows, TypeOK, Hidden, Living
<1>7. OwnerAlive'
  <2> SUFFICES ASSUME owner # None PROVE Running(owner)'
    BY <1>1 DEF OwnerAlive
  <2>1. Running(owner) /\ owner \in Pid
    BY Pids DEF Ind, OwnerAlive, TypeOK
  <2>2. owner # p
    BY <1>2, <2>1 DEF Running, Ended
  <2>3. main'[owner] = main[owner]
    BY <1>1, <2>1, <2>2 DEF Ind, TypeOK
  <2> QED
    BY <1>1, <2>1, <2>3 DEF Running, Ended
<1> QED
  BY <1>3, <1>4, <1>5, <1>6, <1>7 DEF Ind

(* Letting go on what was pressed queues an event for its program.         *)
LEMMA PostKeeps ==
  ASSUME Ind, Button \/ OnClose
  PROVE  Ind'
<1> DEFINE p == press.pid
<1>1. PICK e \in Events :
        /\ queue' = [queue EXCEPT ![p] = <<e>> \o @]
        /\ press.kind \in {"button", "close"} /\ (e = "ON_WINDOW_CLOSE" => press.kind = "close")
  BY DEF Button, OnClose, PostEvent, Events
<1>2. /\ main' = main /\ loop' = loop /\ got' = got /\ known' = known /\ widgets' = widgets
      /\ handlers' = handlers /\ children' = children /\ focus' = focus
      /\ tabs' = tabs /\ active' = active /\ owner' = owner /\ press' = Up
  BY DEF Button, OnClose, threadVars, stackVars
<1>3. p \in Apps /\ p \in Pid
  BY <1>1, Presses, Pids DEF Ind, TypeOK
<1>4. e = "ON_WINDOW_CLOSE" => main[p] = "ended"
  BY <1>1 DEF Ind, Course
<1> HIDE DEF p
<1>5. <<e>> \o queue[p] \in Seq(Events) /\ ToSet(<<e>> \o queue[p]) = {e} \union ToSet(queue[p])
  <2>1. queue[p] \in Seq(Events)
    BY <1>3 DEF Ind, Shapes
  <2> QED
    BY <2>1, PrependIs
<1>6. /\ queue' \in [Pid -> Seq(Events)] /\ ToSet(queue'[p]) = {e} \union ToSet(queue[p])
      /\ \A q \in Pid \ {p} : queue'[q] = queue[q]
  BY <1>1, <1>3, <1>5 DEF Ind, Shapes
<1>7. TypeOK'
  BY <1>2, <1>6 DEF Ind, TypeOK
<1>8. Shapes'
  BY <1>2, <1>6 DEF Ind, Shapes
<1>9. Course'
  <2>1. \A q \in Apps : "ON_WINDOW_CLOSE" \in ToSet(queue'[q]) => main[q] = "ended"
    BY <1>4, <1>6, Pids DEF Ind, Course
  <2> QED
    BY <1>2, <2>1, Ups DEF Ind, Course
<1>10. Windows'
  BY <1>2 DEF Ind, Windows
<1>11. OwnerAlive'
  BY <1>2 DEF Ind, OwnerAlive, Running
<1> QED
  BY <1>7, <1>8, <1>9, <1>10, <1>11 DEF Ind

----------------------------------------------------------------------------
(* Every step keeps the invariant: one lemma for each action.              *)
LEMMA NextInd ==
  ASSUME EarlyClose = FALSE
  PROVE  Ind /\ [Next]_vars => Ind'
<1> SUFFICES ASSUME Ind, [Next]_vars PROVE Ind'
  OBVIOUS
<1>1. ASSUME NEW p \in Pid, Main(p) \/ ExitMain(p) \/ Loop(p) PROVE Ind'
  BY <1>1, NewHandlerKeeps, HandleWindowKeeps, AddChildKeeps, AddToTreeKeeps, ExitMainKeeps,
     HandleEventKeeps, CallBackKeeps, ExitLoopKeeps DEF Main, Loop
<1>2. ASSUME NEW s \in Spots, OnMouseDown(s) PROVE Ind'
  BY <1>2, OnMouseDownKeeps
<1>3. CASE OnMouseMove \/ ReleaseAway
  BY <1>3, OnMouseMoveKeeps
<1>4. CASE ChooseItem
  BY <1>4, ChooseItemKeeps
<1>5. CASE Button \/ OnClose
  BY <1>5, PostKeeps
<1>6. CASE UNCHANGED vars
  <2>1. /\ main' = main /\ loop' = loop /\ got' = got /\ known' = known /\ widgets' = widgets
        /\ handlers' = handlers /\ queue' = queue /\ children' = children /\ focus' = focus
        /\ tabs' = tabs /\ active' = active /\ owner' = owner /\ press' = press
    BY <1>6 DEF vars, threadVars, eventVars, stackVars
  <2>2. TypeOK' /\ Shapes'
    BY <2>1 DEF Ind, TypeOK, Shapes
  <2>3. Course' /\ Windows' /\ OwnerAlive'
    BY <2>1 DEF Ind, Course, Windows, OwnerAlive, Running
  <2> QED
    BY <2>2, <2>3 DEF Ind
<1> QED
  BY <1>1, <1>2, <1>3, <1>4, <1>5, <1>6 DEF Next

(* What the invariant says of the properties.                              *)
LEMMA IndMeans == Ind => TypeOK /\ WindowsOwned /\ FocusOnTop /\ OwnerAlive
<1> SUFFICES ASSUME Ind PROVE WindowsOwned /\ FocusOnTop
  BY DEF Ind
<1>1. /\ children \in Seq(Apps \union {Taskbar}) /\ tabs \in Seq(Apps)
      /\ \A x : Contains(children, x) <=> x \in ToSet(children)
  BY ContainsIs DEF Ind, TypeOK
<1>2. FocusOnTop
  BY <1>1 DEF Ind, Windows, FocusOnTop
<1>3. \A p \in Apps : p \in handlers => ~Ended(loop[p]) /\ Running(p)
  BY DEF Ind, Course, Living, Ended, Running
<1>4. \A p \in Apps : Contains(children, p) => p \in handlers /\ ~Ended(loop[p])
  BY <1>1, <1>3 DEF Ind, Windows, Course
<1>5. handlers \subseteq Apps
  BY DEF Ind, TypeOK
<1> QED
  BY <1>1, <1>2, <1>3, <1>4, <1>5 DEF Ind, Windows, WindowsOwned

(* Every variable keeps its type, and no more tabs come than fit.          *)
THEOREM DesktopTypeCorrect ==
  ASSUME EarlyClose = FALSE
  PROVE  Spec => []TypeOK
<1>1. Init => Ind
  BY InitInd
<1>2. Ind /\ [Next]_vars => Ind'
  BY NextInd
<1>3. Ind => TypeOK
  BY IndMeans
<1> QED
  BY <1>1, <1>2, <1>3, PTL DEF Spec

(* What the mouse can reach belongs to a program whose handler is          *)
(* registered and whose event thread can be woken, whenever programs are   *)
(* started, show windows and end.                                          *)
THEOREM WindowsAlwaysOwned ==
  ASSUME EarlyClose = FALSE
  PROVE  Spec => []WindowsOwned
<1>1. Init => Ind
  BY InitInd
<1>2. Ind /\ [Next]_vars => Ind'
  BY NextInd
<1>3. Ind => WindowsOwned
  BY IndMeans
<1> QED
  BY <1>1, <1>2, <1>3, PTL DEF Spec

(* The child that has the focus is the one drawn last.                     *)
THEOREM FocusAlwaysOnTop ==
  ASSUME EarlyClose = FALSE
  PROVE  Spec => []FocusOnTop
<1>1. Init => Ind
  BY InitInd
<1>2. Ind /\ [Next]_vars => Ind'
  BY NextInd
<1>3. Ind => FocusOnTop
  BY IndMeans
<1> QED
  BY <1>1, <1>2, <1>3, PTL DEF Spec

(* The screen is never left with a program that is gone.                   *)
THEOREM ScreenComesBack ==
  ASSUME EarlyClose = FALSE
  PROVE  Spec => []OwnerAlive
<1>1. Init => Ind
  BY InitInd
<1>2. Ind /\ [Next]_vars => Ind'
  BY NextInd
<1>3. Ind => OwnerAlive
  BY IndMeans
<1> QED
  BY <1>1, <1>2, <1>3, PTL DEF Spec

----------------------------------------------------------------------------
(* The drawing of the desktop. What is old is marked up to the desktop,    *)
(* and a drawing takes a mark only from what it draws.                     *)

(* A widget and what it is drawn into: its window, the taskbar or the menu. *)
Kept(w, marked) ==
  /\ \A p : w \in Scr!Kids(p) => Scr!Win(p) \in marked
  /\ w \in {Scr!Start, Scr!Clock} \/ (\E p : w = Scr!Tab(p)) => Scr!Taskbar \in marked
  /\ w = Scr!Item => Scr!Menu \in marked

(* An old cache is marked, and so is what an old copy of a widget is in.   *)
Marked(ds, cs, ss) ==
  /\ cs \subseteq ds /\ Scr!Desktop \notin cs
  /\ Scr!Item \in cs => Scr!Menu \in ds
  /\ \A w \in ss : Kept(w, ds)

(* Nothing that is old can be seen.                                        *)
Fresh(cs, ss) == (cs \union ss) \intersect Scr!Visible \subseteq (IF stopped THEN {Scr!Desktop} ELSE {})

(* Only the tabs of open windows are there to be shown.                    *)
TabsOpen(ss) == \A p : Scr!Tab(p) \in ss => p \in open

(* The inductive invariant.                                                *)
ScreenInd ==
  /\ Marked(dirty, cacheOld, shownOld) /\ TabsOpen(shownOld)
  /\ Scr!Desktop \notin pressed \union hovered
  /\ Scr!Desktop \in dirty \/ Fresh(cacheOld, shownOld)
  /\ pc \in {"check", "test", "draw", "flush"}
  /\ Scr!Desktop \in dirty \/ stopped \/ pc \in {"draw", "flush"} \/ ~frontOld

(* When the desktop is made, all of it is marked.                          *)
LEMMA ScreenInit == Scr!Init => ScreenInd
BY DEF Scr!Init, ScreenInd, TabsOpen, Marked, Kept, Scr!Desktop, Scr!Taskbar, Scr!Start, Scr!Clock, Scr!Menu,
   Scr!Item, Scr!Kids, Scr!Tab, Scr!None

(* The invariant is what the desktop's thread relies on.                   *)
LEMMA ScreenMeans == ScreenInd => Scr!ScreenCurrent
BY DEF ScreenInd, Fresh, Scr!ScreenCurrent

(* What the names of widgets say.                                          *)
LEMMA NamesDiffer ==
  /\ \A p : /\ Scr!Desktop \notin {Scr!Win(p), Scr!Tab(p)} \union Scr!Kids(p)
            /\ Scr!Taskbar \notin {Scr!Win(p), Scr!Tab(p)} \union Scr!Kids(p)
            /\ Scr!Menu \notin {Scr!Win(p), Scr!Tab(p)} \union Scr!Kids(p)
            /\ Scr!Item \notin {Scr!Win(p), Scr!Tab(p)} \union Scr!Kids(p)
  /\ Scr!Desktop \notin {Scr!Taskbar, Scr!Start, Scr!Clock, Scr!Menu, Scr!Item}
  /\ Scr!Taskbar \notin {Scr!Start, Scr!Clock, Scr!Menu, Scr!Item}
  /\ Scr!Menu \notin {Scr!Start, Scr!Clock, Scr!Item}
  /\ Scr!Item \notin {Scr!Start, Scr!Clock}
BY DEF Scr!Desktop, Scr!Taskbar, Scr!Start, Scr!Clock, Scr!Menu, Scr!Item, Scr!Win, Scr!Tab, Scr!Kids

(* A mark goes from a widget up to the desktop.                            *)
LEMMA PathIs ==
  ASSUME NEW w
  PROVE  /\ w \in Scr!Path(w) /\ Scr!Desktop \in Scr!Path(w)
         /\ \A ds : Scr!Path(w) \subseteq ds => Kept(w, ds)
         /\ w = Scr!Item => Scr!Menu \in Scr!Path(w)
BY DEF Scr!Path, Kept, Scr!Item, Scr!Start, Scr!Clock, Scr!Tab, Scr!Kids, Scr!Menu, Scr!Taskbar

(* The desktop and a window are copied to the screen whenever it is drawn. *)
LEMMA KeptAlone ==
  /\ \A ds : Kept(Scr!Desktop, ds) /\ Kept(Scr!Taskbar, ds) /\ Kept(Scr!Menu, ds)
  /\ \A p, ds : Kept(Scr!Win(p), ds)
BY DEF Kept, Scr!Desktop, Scr!Win, Scr!Menu, Scr!Taskbar, Scr!Start, Scr!Clock, Scr!Tab, Scr!Kids, Scr!Item

(* More marks keep what is kept.                                           *)
LEMMA KeptMore ==
  ASSUME NEW w, NEW ds, NEW es, ds \subseteq es, Kept(w, ds)
  PROVE  Kept(w, es)
BY DEF Kept

(* What MarkDirty() marks.                                                 *)
LEMMA MarkDirtyIs ==
  ASSUME NEW ws, Scr!MarkDirty(ws)
  PROVE  /\ dirty \subseteq dirty' /\ \A w \in ws : Scr!Path(w) \subseteq dirty'
         /\ ws # {} => Scr!Desktop \in dirty'
         /\ ws = {} => dirty' = dirty
BY PathIs DEF Scr!MarkDirty

(* Widgets ws look different and are marked, and widgets vs are no longer  *)
(* shown where they are.                                                   *)
LEMMA ScreenGrows ==
  ASSUME ScreenInd, NEW ws, NEW vs, dirty \subseteq dirty',
         cacheOld' = cacheOld \union ws, shownOld' = shownOld \union vs,
         \A w \in ws : w # Scr!Desktop /\ Scr!Path(w) \subseteq dirty',
         \A v \in vs : Kept(v, dirty'), open \subseteq open', \A p : Scr!Tab(p) \in vs => p \in open',
         \/ Scr!Desktop \in dirty'
         \/ ws = {} /\ vs = {} /\ Scr!Visible' \subseteq Scr!Visible /\ stopped' = stopped,
         Scr!Desktop \notin pressed' \union hovered',
         pc' = pc, frontOld' = frontOld, stopped' = stopped
  PROVE  ScreenInd'
<1>1. Marked(dirty, cacheOld, shownOld)
  BY DEF ScreenInd
<1>2. Marked(dirty', cacheOld', shownOld')
  <2>1. cacheOld' \subseteq dirty' /\ Scr!Desktop \notin cacheOld'
    BY <1>1, PathIs DEF Marked
  <2>2. Scr!Item \in cacheOld' => Scr!Menu \in dirty'
    BY <1>1, PathIs DEF Marked
  <2>3. ASSUME NEW w \in shownOld'
        PROVE  Kept(w, dirty')
    BY <1>1, <2>3, KeptMore DEF Marked
  <2> QED
    BY <2>1, <2>2, <2>3 DEF Marked
<1>3. Scr!Desktop \in dirty' \/ Fresh(cacheOld, shownOld)'
  BY DEF ScreenInd, Fresh
<1>4. Scr!Desktop \in dirty' \/ stopped' \/ pc' \in {"draw", "flush"} \/ ~frontOld'
  BY DEF ScreenInd
<1>5. pc' \in {"check", "test", "draw", "flush"}
  BY DEF ScreenInd
<1>6. TabsOpen(shownOld)'
  BY DEF ScreenInd, TabsOpen
<1> QED
  BY <1>2, <1>3, <1>4, <1>5, <1>6 DEF ScreenInd

(* After a parent is drawn, with its children, nothing of it is old.       *)
LEMMA DrawnIs ==
  ASSUME NEW w, NEW kids, NEW ds, NEW cs, NEW ss, Marked(ds, cs, ss), \A k \in kids : Kept(k, ds) => w \in ds,
         NEW r, r = Scr!Drawn(w, kids, [dirty |-> ds, cacheOld |-> cs, shownOld |-> ss])
  PROVE  /\ r = [dirty |-> r.dirty, cacheOld |-> r.cacheOld, shownOld |-> r.shownOld]
         /\ r.dirty \subseteq ds /\ r.cacheOld \subseteq cs /\ r.shownOld \subseteq ss
         /\ ds \ (kids \union {w}) \subseteq r.dirty
         /\ (r.cacheOld \union r.shownOld) \intersect (kids \union {w}) = {}
<1> DEFINE s == [dirty |-> ds, cacheOld |-> cs, shownOld |-> ss]
           hit == ds \intersect (kids \union {w}) # {}
<1>1. CASE hit
  <2>1. r = [dirty |-> ds \ (kids \union {w}), cacheOld |-> cs \ ((kids \intersect ds) \union {w}),
             shownOld |-> (ss \ kids) \ {w}]
    BY <1>1 DEF Scr!Drawn, Scr!Redrawn
  <2>2. /\ r.dirty = ds \ (kids \union {w}) /\ r.cacheOld = cs \ ((kids \intersect ds) \union {w})
        /\ r.shownOld = (ss \ kids) \ {w}
    BY <2>1
  <2>3. cs \subseteq ds
    BY DEF Marked
  <2> QED
    BY <2>1, <2>2, <2>3
<1>2. CASE ~hit
  <2>1. r = [dirty |-> ds, cacheOld |-> cs, shownOld |-> ss \ {w}]
    BY <1>2 DEF Scr!Drawn
  <2>2. r.dirty = ds /\ r.cacheOld = cs /\ r.shownOld = ss \ {w}
    BY <2>1
  <2>3. cs \subseteq ds /\ \A k \in ss : Kept(k, ds)
    BY DEF Marked
  <2> QED
    BY <1>2, <2>1, <2>2, <2>3
<1> QED
  BY <1>1, <1>2

(* What is left is marked, if no mark was taken that it needs.             *)
LEMMA StillMarked ==
  ASSUME NEW ds, NEW cs, NEW ss, Marked(ds, cs, ss), NEW xs, NEW es, NEW bs, NEW ts,
         bs \subseteq cs, ts \subseteq ss, ds \ xs \subseteq es, bs \intersect xs = {},
         Scr!Item \in bs => Scr!Menu \notin xs,
         \A w \in ts : Kept(w, ds) => Kept(w, es)
  PROVE  Marked(es, bs, ts)
BY DEF Marked

(* The windows that are open, with what is in them.                        *)
OfOpen == UNION {{Scr!Win(p)} \union Scr!Kids(p) : p \in open}

(* After all of them are drawn, nothing of them is old.                    *)
LEMMA WindowsDrawn ==
  ASSUME NEW ds, NEW cs, NEW ss, Marked(ds, cs, ss),
         NEW r, r = Scr!DrawnAll([dirty |-> ds, cacheOld |-> cs, shownOld |-> ss])
  PROVE  /\ r = [dirty |-> r.dirty, cacheOld |-> r.cacheOld, shownOld |-> r.shownOld]
         /\ Marked(r.dirty, r.cacheOld, r.shownOld)
         /\ (r.cacheOld \union r.shownOld) \intersect OfOpen = {} /\ r.shownOld \subseteq ss
<1> DEFINE s == [dirty |-> ds, cacheOld |-> cs, shownOld |-> ss]
           after(p) == Scr!Drawn(Scr!Win(p), Scr!Kids(p), s)
<1>1. ASSUME NEW p \in open
      PROVE  /\ ds \ (Scr!Kids(p) \union {Scr!Win(p)}) \subseteq after(p).dirty
             /\ (after(p).cacheOld \union after(p).shownOld) \intersect (Scr!Kids(p) \union {Scr!Win(p)}) = {}
  <2>1. \A k \in Scr!Kids(p) : Kept(k, ds) => Scr!Win(p) \in ds
    BY DEF Kept
  <2> QED
    BY <2>1, DrawnIs
<1>2. r = [dirty |-> {w \in ds : \A p \in open : w \in after(p).dirty},
           cacheOld |-> {w \in cs : \A p \in open : w \in after(p).cacheOld},
           shownOld |-> {w \in ss : \A p \in open : w \in after(p).shownOld}]
  BY DEF Scr!DrawnAll
<1>3. /\ r.dirty = {w \in ds : \A p \in open : w \in after(p).dirty}
      /\ r.cacheOld = {w \in cs : \A p \in open : w \in after(p).cacheOld}
      /\ r.shownOld = {w \in ss : \A p \in open : w \in after(p).shownOld}
  BY <1>2
<1> HIDE DEF after
<1>4. ds \ OfOpen \subseteq r.dirty
  BY <1>1, <1>3 DEF OfOpen
<1>5. (r.cacheOld \union r.shownOld) \intersect OfOpen = {}
  BY <1>1, <1>3 DEF OfOpen
<1>6. Scr!Menu \notin OfOpen /\ Scr!Taskbar \notin OfOpen
  BY NamesDiffer DEF OfOpen
<1>7. ASSUME NEW w \in r.shownOld, Kept(w, ds)
      PROVE  Kept(w, r.dirty)
  <2>1. ASSUME NEW p, w \in Scr!Kids(p)
        PROVE  Scr!Win(p) \in r.dirty
    <3>1. p \notin open
      BY <1>5, <2>1 DEF OfOpen
    <3>2. Scr!Win(p) \notin OfOpen
      BY <3>1 DEF OfOpen, Scr!Win, Scr!Kids
    <3> QED
      BY <1>4, <1>7, <2>1, <3>2 DEF Kept
  <2> QED
    BY <1>4, <1>6, <1>7, <2>1 DEF Kept
<1>8. Marked(r.dirty, r.cacheOld, r.shownOld)
  BY <1>3, <1>4, <1>5, <1>6, <1>7, StillMarked
<1> QED
  BY <1>2, <1>3, <1>5, <1>8

(* Then the taskbar, which counts the time meanwhile.                      *)
LEMMA BarDrawn ==
  ASSUME NEW ds, NEW cs, NEW ss, Marked(ds, cs, ss), TabsOpen(ss), (cs \union ss) \intersect OfOpen = {},
         NEW r, r = Scr!Drawn(Scr!Taskbar, Scr!BarKids, [dirty |-> ds, cacheOld |-> cs, shownOld |-> ss])
  PROVE  /\ r = [dirty |-> r.dirty, cacheOld |-> r.cacheOld, shownOld |-> r.shownOld]
         /\ Marked(r.dirty, r.cacheOld, r.shownOld)
         /\ (r.cacheOld \union r.shownOld) \intersect (OfOpen \union Scr!BarKids \union {Scr!Taskbar}) = {}
         /\ r.shownOld \subseteq ss
<1>1. \A k \in Scr!BarKids : Kept(k, ds) => Scr!Taskbar \in ds
  BY DEF Kept, Scr!BarKids, Scr!Tabs
<1>2. /\ r = [dirty |-> r.dirty, cacheOld |-> r.cacheOld, shownOld |-> r.shownOld]
      /\ r.cacheOld \subseteq cs /\ r.shownOld \subseteq ss
      /\ ds \ (Scr!BarKids \union {Scr!Taskbar}) \subseteq r.dirty
      /\ (r.cacheOld \union r.shownOld) \intersect (Scr!BarKids \union {Scr!Taskbar}) = {}
  BY <1>1, DrawnIs
<1>3. /\ Scr!Menu \notin Scr!BarKids \union {Scr!Taskbar}
      /\ \A p : Scr!Win(p) \notin Scr!BarKids \union {Scr!Taskbar}
  BY DEF Scr!BarKids, Scr!Tabs, Scr!Menu, Scr!Win, Scr!Tab, Scr!Taskbar, Scr!Start, Scr!Clock
<1>4. ASSUME NEW w \in r.shownOld, Kept(w, ds)
      PROVE  Kept(w, r.dirty)
  <2>1. w \notin {Scr!Start, Scr!Clock} /\ \A p : w # Scr!Tab(p)
    BY <1>2, <1>4 DEF TabsOpen, Scr!BarKids, Scr!Tabs
  <2> QED
    BY <1>2, <1>3, <1>4, <2>1 DEF Kept
<1>5. Marked(r.dirty, r.cacheOld, r.shownOld)
  <2>1. PICK xs : xs = Scr!BarKids \union {Scr!Taskbar}
    OBVIOUS
  <2>2. PICK es, bs, ts : es = r.dirty /\ bs = r.cacheOld /\ ts = r.shownOld
    OBVIOUS
  <2>3. /\ bs \subseteq cs /\ ts \subseteq ss /\ ds \ xs \subseteq es /\ bs \intersect xs = {}
        /\ Scr!Menu \notin xs
    BY <1>2, <1>3, <2>1, <2>2
  <2>4. \A w \in ts : Kept(w, ds) => Kept(w, es)
    BY <1>4, <2>2
  <2>5. Marked(es, bs, ts)
    BY <2>3, <2>4, StillMarked
  <2> QED
    BY <2>2, <2>5
<1> QED
  BY <1>2, <1>5

(* Then the menu, if it can be seen.                                       *)
LEMMA MenuIsDrawn ==
  ASSUME NEW ds, NEW cs, NEW ss, Marked(ds, cs, ss), NEW seen, (cs \union ss) \intersect seen = {},
         NEW r, r = Scr!MenuDrawn([dirty |-> ds, cacheOld |-> cs, shownOld |-> ss])
  PROVE  /\ r = [dirty |-> r.dirty, cacheOld |-> r.cacheOld, shownOld |-> r.shownOld]
         /\ Marked(r.dirty, r.cacheOld, r.shownOld)
         /\ (r.cacheOld \union r.shownOld) \intersect seen = {}
         /\ r.shownOld \subseteq ss
         /\ menu => (r.cacheOld \union r.shownOld) \intersect {Scr!Menu, Scr!Item} = {}
<1> DEFINE s == [dirty |-> ds, cacheOld |-> cs, shownOld |-> ss]
<1>1. CASE ~menu
  <2>1. r = s /\ r.dirty = ds /\ r.cacheOld = cs /\ r.shownOld = ss
    BY <1>1 DEF Scr!MenuDrawn
  <2> QED
    BY <1>1, <2>1
<1>2. CASE menu /\ Scr!Menu \in ds
  <2>1. r = [dirty |-> ds \ {Scr!Item, Scr!Menu}, cacheOld |-> cs \ (({Scr!Item} \intersect ds) \union {Scr!Menu}),
             shownOld |-> (ss \ {Scr!Item}) \ {Scr!Menu}]
    BY <1>2 DEF Scr!MenuDrawn, Scr!Redrawn
  <2>2. /\ r.dirty = ds \ {Scr!Item, Scr!Menu} /\ r.cacheOld = cs \ (({Scr!Item} \intersect ds) \union {Scr!Menu})
        /\ r.shownOld = (ss \ {Scr!Item}) \ {Scr!Menu}
    BY <2>1
  <2>3. cs \subseteq ds
    BY DEF Marked
  <2>4. (r.cacheOld \union r.shownOld) \intersect {Scr!Menu, Scr!Item} = {}
    BY <2>2, <2>3
  <2>5. ASSUME NEW w \in r.shownOld, Kept(w, ds)
        PROVE  Kept(w, r.dirty)
    <3>1. \A p : Scr!Win(p) \notin {Scr!Item, Scr!Menu}
      BY NamesDiffer
    <3>2. Scr!Taskbar \notin {Scr!Item, Scr!Menu}
      BY NamesDiffer
    <3> QED
      BY <2>2, <2>5, <3>1, <3>2 DEF Kept
  <2>6. Marked(r.dirty, r.cacheOld, r.shownOld)
    <3>1. r.cacheOld \subseteq cs /\ r.shownOld \subseteq ss /\ ds \ {Scr!Item, Scr!Menu} \subseteq r.dirty
      BY <2>2
    <3>2. r.cacheOld \intersect {Scr!Item, Scr!Menu} = {}
      BY <2>4
    <3> QED
      BY <2>5, <3>1, <3>2, StillMarked
  <2> QED
    BY <2>1, <2>2, <2>4, <2>6
<1>3. CASE menu /\ Scr!Menu \notin ds
  <2>1. r = [dirty |-> ds, cacheOld |-> cs, shownOld |-> ss \ {Scr!Menu}]
    BY <1>3 DEF Scr!MenuDrawn
  <2>2. r.dirty = ds /\ r.cacheOld = cs /\ r.shownOld = ss \ {Scr!Menu}
    BY <2>1
  <2>3. Scr!Menu \notin cs /\ Scr!Item \notin cs /\ Scr!Item \notin ss
    BY <1>3 DEF Marked, Kept
  <2>4. Marked(r.dirty, r.cacheOld, r.shownOld)
    BY <2>2 DEF Marked
  <2> QED
    BY <2>1, <2>2, <2>3, <2>4
<1> QED
  BY <1>1, <1>2, <1>3

(* The clock may tick in between.                                          *)
LEMMA ClockTicked ==
  ASSUME NEW ds, NEW cs, NEW ss, Marked(ds, cs, ss), TabsOpen(ss), NEW seen, (cs \union ss) \intersect seen = {},
         Scr!Clock \notin seen, NEW second \in BOOLEAN,
         NEW r, r = Scr!Ticked(second, [dirty |-> ds, cacheOld |-> cs, shownOld |-> ss])
  PROVE  /\ r = [dirty |-> r.dirty, cacheOld |-> r.cacheOld, shownOld |-> r.shownOld]
         /\ Marked(r.dirty, r.cacheOld, r.shownOld) /\ TabsOpen(r.shownOld)
         /\ (r.cacheOld \union r.shownOld) \intersect seen = {}
<1>1. CASE second
  <2>1. r = [dirty |-> ds \union Scr!Path(Scr!Clock), cacheOld |-> cs \union {Scr!Clock}, shownOld |-> ss]
    BY <1>1 DEF Scr!Ticked
  <2>2. r.dirty = ds \union Scr!Path(Scr!Clock) /\ r.cacheOld = cs \union {Scr!Clock} /\ r.shownOld = ss
    BY <2>1
  <2>3. Scr!Clock \in Scr!Path(Scr!Clock) /\ Scr!Clock # Scr!Desktop /\ Scr!Clock # Scr!Item
    BY PathIs, NamesDiffer
  <2>4. \A w \in ss : Kept(w, r.dirty)
    BY <2>2, KeptMore DEF Marked
  <2>5. Marked(r.dirty, r.cacheOld, r.shownOld)
    BY <2>2, <2>3, <2>4 DEF Marked
  <2> QED
    BY <2>1, <2>2, <2>5
<1>2. CASE ~second
  <2>1. r = [dirty |-> ds, cacheOld |-> cs, shownOld |-> ss] /\ r.dirty = ds /\ r.cacheOld = cs /\ r.shownOld = ss
    BY <1>2 DEF Scr!Ticked
  <2> QED
    BY <2>1
<1> QED
  BY <1>1, <1>2

(* After the desktop is drawn, nothing that can be seen is old.            *)
LEMMA RedrawnFully ==
  ASSUME ScreenInd, NEW second \in BOOLEAN, NEW r, r = Scr!FullRedraw(second)
  PROVE  /\ Marked(r.dirty, r.cacheOld, r.shownOld) /\ TabsOpen(r.shownOld)
         /\ (r.cacheOld \union r.shownOld) \intersect Scr!Visible = {}
<1>1. PICK a : a = Scr!DrawnAll([dirty |-> dirty, cacheOld |-> cacheOld, shownOld |-> shownOld])
  OBVIOUS
<1>2. PICK b : b = Scr!Ticked(second, a)
  OBVIOUS
<1>3. PICK c : c = Scr!Drawn(Scr!Taskbar, Scr!BarKids, b)
  OBVIOUS
<1>4. PICK d : d = Scr!MenuDrawn(c)
  OBVIOUS
<1>5. r = [d EXCEPT !.dirty = @ \ {Scr!Desktop}, !.shownOld = @ \ {Scr!Desktop}]
  BY <1>1, <1>2, <1>3, <1>4 DEF Scr!FullRedraw
<1>6. /\ a = [dirty |-> a.dirty, cacheOld |-> a.cacheOld, shownOld |-> a.shownOld]
      /\ Marked(a.dirty, a.cacheOld, a.shownOld) /\ TabsOpen(a.shownOld)
      /\ (a.cacheOld \union a.shownOld) \intersect OfOpen = {}
  BY <1>1, WindowsDrawn DEF ScreenInd, TabsOpen
<1>7. Scr!Clock \notin OfOpen
  BY DEF OfOpen, Scr!Clock, Scr!Win, Scr!Kids
<1>8. /\ b = [dirty |-> b.dirty, cacheOld |-> b.cacheOld, shownOld |-> b.shownOld]
      /\ Marked(b.dirty, b.cacheOld, b.shownOld) /\ TabsOpen(b.shownOld)
      /\ (b.cacheOld \union b.shownOld) \intersect OfOpen = {}
  BY <1>2, <1>6, <1>7, ClockTicked
<1> DEFINE most == OfOpen \union Scr!BarKids \union {Scr!Taskbar}
<1>9. /\ c = [dirty |-> c.dirty, cacheOld |-> c.cacheOld, shownOld |-> c.shownOld]
      /\ Marked(c.dirty, c.cacheOld, c.shownOld) /\ TabsOpen(c.shownOld)
      /\ (c.cacheOld \union c.shownOld) \intersect most = {}
  BY <1>3, <1>8, BarDrawn DEF TabsOpen
<1>10. /\ d = [dirty |-> d.dirty, cacheOld |-> d.cacheOld, shownOld |-> d.shownOld]
       /\ Marked(d.dirty, d.cacheOld, d.shownOld) /\ TabsOpen(d.shownOld)
       /\ (d.cacheOld \union d.shownOld) \intersect most = {}
       /\ menu => (d.cacheOld \union d.shownOld) \intersect {Scr!Menu, Scr!Item} = {}
  <2> HIDE DEF most
  <2> QED BY <1>4, <1>9, MenuIsDrawn DEF TabsOpen
<1>11. r.dirty = d.dirty \ {Scr!Desktop} /\ r.cacheOld = d.cacheOld /\ r.shownOld = d.shownOld \ {Scr!Desktop}
  BY <1>5, <1>10
<1>12. Scr!Desktop \notin r.cacheOld \union r.shownOld
  BY <1>10, <1>11 DEF Marked
<1>13. Scr!Visible \subseteq most \union {Scr!Desktop} \union (IF menu THEN {Scr!Menu, Scr!Item} ELSE {})
  BY DEF Scr!Visible, OfOpen
<1>14. Marked(r.dirty, r.cacheOld, r.shownOld)
  <2>1. ASSUME NEW w \in r.shownOld, Kept(w, d.dirty)
        PROVE  Kept(w, r.dirty)
    <3>1. \A p : Scr!Win(p) # Scr!Desktop
      BY NamesDiffer
    <3>2. Scr!Taskbar # Scr!Desktop /\ Scr!Menu # Scr!Desktop
      BY NamesDiffer
    <3> QED
      BY <1>11, <2>1, <3>1, <3>2 DEF Kept
  <2>2. PICK xs : xs = {Scr!Desktop}
    OBVIOUS
  <2>3. PICK ds, cs, ss : ds = d.dirty /\ cs = d.cacheOld /\ ss = d.shownOld
    OBVIOUS
  <2>4. PICK es, bs, ts : es = r.dirty /\ bs = r.cacheOld /\ ts = r.shownOld
    OBVIOUS
  <2>5. Marked(ds, cs, ss)
    BY <1>10, <2>3
  <2>6. /\ bs \subseteq cs /\ ts \subseteq ss /\ ds \ xs \subseteq es /\ bs \intersect xs = {}
        /\ Scr!Menu \notin xs
    BY <1>11, <1>12, <2>2, <2>3, <2>4, NamesDiffer
  <2>7. \A w \in ts : Kept(w, ds) => Kept(w, es)
    BY <2>1, <2>3, <2>4
  <2>8. Marked(es, bs, ts)
    BY <2>5, <2>6, <2>7, StillMarked
  <2> QED
    BY <2>4, <2>8
<1> QED
  BY <1>10, <1>11, <1>12, <1>13, <1>14 DEF TabsOpen

(* Desktop::Draw().                                                        *)
LEMMA ScreenDraw ==
  ASSUME ScreenInd, Scr!Draw
  PROVE  ScreenInd'
<1>1. /\ pc' = "flush" /\ UNCHANGED <<Scr!treeVars, Scr!mouseVars, stopped>>
  BY DEF Scr!Draw
<1>2. /\ open' = open /\ menu' = menu /\ stopped' = stopped
      /\ pressed' = pressed /\ hovered' = hovered
  BY <1>1 DEF Scr!treeVars, Scr!mouseVars
<1>3. Scr!Visible' = Scr!Visible
  BY <1>2 DEF Scr!Visible, Scr!BarKids, Scr!Tabs
<1>4. CASE UNCHANGED Scr!drawVars
  BY <1>1, <1>2, <1>3, <1>4 DEF ScreenInd, TabsOpen, Fresh, Scr!drawVars
<1>5. CASE \E second \in BOOLEAN :
             /\ dirty' = Scr!FullRedraw(second).dirty
             /\ cacheOld' = Scr!FullRedraw(second).cacheOld
             /\ shownOld' = Scr!FullRedraw(second).shownOld
  <2>1. PICK second \in BOOLEAN :
             /\ dirty' = Scr!FullRedraw(second).dirty
             /\ cacheOld' = Scr!FullRedraw(second).cacheOld
             /\ shownOld' = Scr!FullRedraw(second).shownOld
    BY <1>5
  <2>2. PICK r : r = Scr!FullRedraw(second)
    OBVIOUS
  <2>3. /\ Marked(dirty', cacheOld', shownOld') /\ TabsOpen(shownOld')
        /\ (cacheOld' \union shownOld') \intersect Scr!Visible = {}
    BY <2>1, <2>2, RedrawnFully
  <2> QED
    BY <1>1, <1>2, <1>3, <2>3 DEF ScreenInd, TabsOpen, Fresh
<1> QED
  BY <1>4, <1>5 DEF Scr!Draw

(* The other steps of the desktop's thread.                                *)
LEMMA ScreenLoops ==
  ASSUME ScreenInd, Scr!Check \/ Scr!Test \/ Scr!Flush
  PROVE  ScreenInd'
<1>1. UNCHANGED <<Scr!treeVars, Scr!mouseVars, cacheOld, shownOld, stopped>> /\ dirty \subseteq dirty'
  BY MarkDirtyIs DEF Scr!Check, Scr!Test, Scr!Flush, Scr!drawVars
<1>2. /\ open' = open /\ menu' = menu /\ stopped' = stopped
      /\ pressed' = pressed /\ hovered' = hovered /\ cacheOld' = cacheOld /\ shownOld' = shownOld
  BY <1>1 DEF Scr!treeVars, Scr!mouseVars
<1>3. Scr!Visible' = Scr!Visible
  BY <1>2 DEF Scr!Visible, Scr!BarKids, Scr!Tabs
<1>4. Marked(dirty', cacheOld', shownOld') /\ TabsOpen(shownOld)'
  BY <1>1, <1>2, KeptMore DEF ScreenInd, Marked, TabsOpen
<1>5. Scr!Desktop \in dirty' \/ Fresh(cacheOld, shownOld)'
  BY <1>1, <1>2, <1>3 DEF ScreenInd, Fresh
<1>6. pc' \in {"check", "test", "draw", "flush"}
  BY DEF ScreenInd, Scr!Check, Scr!Test, Scr!Flush
<1>7. Scr!Desktop \in dirty' \/ stopped' \/ pc' \in {"draw", "flush"} \/ ~frontOld'
  BY <1>1 DEF ScreenInd, Scr!Check, Scr!Test, Scr!Flush
<1> QED
  BY <1>2, <1>4, <1>5, <1>6, <1>7 DEF ScreenInd

(* What the actions of the mouse and of programs leave alone.              *)
LEMMA SameVisible ==
  ASSUME open' = open, menu' = menu \/ ~menu'
  PROVE  Scr!Visible' \subseteq Scr!Visible
BY DEF Scr!Visible, Scr!BarKids, Scr!Tabs

(* What GetFocus() marks, and what it draws above the others.              *)
LEMMA GetFocusIs ==
  ASSUME NEW p, NEW also, Scr!GetFocus(p, also), Scr!Desktop \notin also, p = Scr!None \/ p \in open
  PROVE  \E ws, vs :
           /\ dirty \subseteq dirty' /\ Scr!Desktop \in dirty'
           /\ cacheOld' = cacheOld \union ws /\ shownOld' = shownOld \union vs
           /\ \A w \in ws : w # Scr!Desktop /\ Scr!Path(w) \subseteq dirty'
           /\ \A v \in vs : v = Scr!Win(p)
<1> DEFINE ws == Scr!SetActiveTab(p) \union also
           vs == IF p = Scr!None THEN {} ELSE {Scr!Win(p)}
<1>1. Scr!Desktop \notin Scr!SetActiveTab(p)
  BY NamesDiffer DEF Scr!SetActiveTab
<1>2. PICK ms : ms = Scr!SetActiveTab(p) \union also \union {Scr!Taskbar} \union
                     {Scr!Win(q) : q \in ({top, p} \ {Scr!None}) \intersect open}
  OBVIOUS
<1>3. Scr!MarkDirty(ms)
  BY <1>2 DEF Scr!GetFocus
<1>4. dirty \subseteq dirty' /\ Scr!Desktop \in dirty' /\ \A w \in ws : Scr!Path(w) \subseteq dirty'
  BY <1>2, <1>3, MarkDirtyIs
<1>5. cacheOld' = cacheOld \union ws /\ shownOld' = shownOld \union vs
  BY DEF Scr!GetFocus
<1>6. \A w \in ws : w # Scr!Desktop
  BY <1>1
<1>7. \A v \in vs : v = Scr!Win(p)
  OBVIOUS
<1> QED
  <2> HIDE DEF ws, vs
  <2> QED BY <1>4, <1>5, <1>6, <1>7

(* A click that gives the focus.                                           *)
LEMMA ScreenFocus ==
  ASSUME ScreenInd, NEW p, NEW also, Scr!GetFocus(p, also), Scr!Desktop \notin also, p = Scr!None \/ p \in open,
         UNCHANGED <<open, hovered, Scr!loopVars, stopped>>, Scr!Desktop \notin pressed'
  PROVE  ScreenInd'
<1>1. PICK ws, vs :
           /\ dirty \subseteq dirty' /\ Scr!Desktop \in dirty'
           /\ cacheOld' = cacheOld \union ws /\ shownOld' = shownOld \union vs
           /\ \A w \in ws : w # Scr!Desktop /\ Scr!Path(w) \subseteq dirty'
           /\ \A v \in vs : v = Scr!Win(p)
  BY GetFocusIs
<1>2. \A v \in vs : Kept(v, dirty') /\ \A q : v # Scr!Tab(q)
  BY <1>1, KeptAlone DEF Scr!Win, Scr!Tab
<1>3. open' = open /\ hovered' = hovered /\ pc' = pc /\ frontOld' = frontOld /\ stopped' = stopped
  BY DEF Scr!loopVars
<1>4. Scr!Desktop \notin pressed' \union hovered'
  BY <1>3 DEF ScreenInd
<1> QED
  BY <1>1, <1>2, <1>3, <1>4, ScreenGrows

(* A widget looks different.                                               *)
LEMMA ScreenChanges ==
  ASSUME ScreenInd, NEW ws, Scr!Changed(ws), Scr!Desktop \notin ws,
         NEW vs, shownOld' = shownOld \union vs, vs \subseteq {Scr!Desktop, Scr!Menu}, ws = {} => vs = {},
         open' = open, ws = {} => menu' = menu,
         UNCHANGED <<Scr!loopVars, stopped>>, Scr!Desktop \notin pressed' \union hovered'
  PROVE  ScreenInd'
<1>1. /\ cacheOld' = cacheOld \union ws /\ dirty \subseteq dirty'
      /\ \A w \in ws : Scr!Path(w) \subseteq dirty'
      /\ ws # {} => Scr!Desktop \in dirty'
  BY MarkDirtyIs DEF Scr!Changed
<1>2. \A v \in vs : Kept(v, dirty')
  BY KeptAlone
<1>3. \A p : Scr!Tab(p) \notin vs
  BY NamesDiffer
<1>4. pc' = pc /\ frontOld' = frontOld /\ stopped' = stopped
  BY DEF Scr!loopVars
<1>5. ws = {} => Scr!Visible' \subseteq Scr!Visible
  BY SameVisible
<1> QED
  BY <1>1, <1>2, <1>3, <1>4, <1>5, ScreenGrows

(* Nothing is drawn differently.                                           *)
LEMMA ScreenRests ==
  ASSUME ScreenInd, UNCHANGED <<Scr!treeVars, Scr!drawVars, Scr!loopVars, stopped>>,
         Scr!Desktop \notin pressed' \union hovered'
  PROVE  ScreenInd'
BY DEF ScreenInd, TabsOpen, Fresh, Marked, Scr!treeVars, Scr!drawVars, Scr!loopVars, Scr!Visible,
   Scr!BarKids, Scr!Tabs

(* The mouse button goes down.                                             *)
LEMMA ScreenDown ==
  ASSUME ScreenInd,
         \/ Scr!MouseDownDesktop \/ Scr!MouseDownBar \/ Scr!MouseDownItem
         \/ \E p \in Wins : Scr!MouseDownWindow(p) \/ Scr!MouseDownTab(p)
  PROVE  ScreenInd'
<1>0. Scr!Desktop \notin pressed \union hovered
  BY DEF ScreenInd
<1>1. CASE Scr!MouseDownDesktop
  <2>1. CASE menu
    <3>1. PICK ws, vs : ws = {Scr!Start} /\ vs = {Scr!Desktop}
      OBVIOUS
    <3>2. /\ Scr!Changed(ws) /\ shownOld' = shownOld \union vs
          /\ UNCHANGED <<open, pressed, hovered, Scr!loopVars, stopped>>
      BY <1>1, <2>1, <3>1 DEF Scr!MouseDownDesktop, Scr!CloseStartMenu
    <3>3. Scr!Desktop \notin ws /\ ws # {} /\ vs \subseteq {Scr!Desktop, Scr!Menu}
      BY <3>1, NamesDiffer
    <3>4. open' = open /\ Scr!Desktop \notin pressed' \union hovered'
      BY <1>0, <3>2
    <3> QED
      BY <3>2, <3>3, <3>4, ScreenChanges
  <2>2. CASE ~menu
    <3>1. UNCHANGED <<Scr!treeVars, Scr!drawVars, Scr!loopVars, stopped, pressed, hovered>>
      BY <1>1, <2>2 DEF Scr!MouseDownDesktop, Scr!treeVars
    <3> QED
      BY <1>0, <3>1, ScreenRests
  <2> QED
    BY <2>1, <2>2
<1>2. CASE Scr!MouseDownBar
  <2>1. /\ Scr!Changed({Scr!Start}) /\ shownOld' = shownOld \union {}
        /\ pressed' = pressed \union {Scr!Start}
        /\ UNCHANGED <<open, hovered, Scr!loopVars, stopped>>
    BY <1>2 DEF Scr!MouseDownBar, Scr!treeVars
  <2>2. Scr!Desktop # Scr!Start /\ {Scr!Start} # {}
    BY NamesDiffer
  <2>3. open' = open /\ Scr!Desktop \notin pressed' \union hovered'
    BY <1>0, <2>1, <2>2
  <2> QED
    BY <2>1, <2>2, <2>3, ScreenChanges
<1>3. CASE Scr!MouseDownItem
  <2>1. /\ Scr!GetFocus(Scr!None, {at}) /\ pressed' = pressed \union ({at} \ {Scr!Clock})
        /\ at \in {Scr!Clock, Scr!Item}
        /\ UNCHANGED <<open, hovered, Scr!loopVars, stopped>>
    BY <1>3 DEF Scr!MouseDownItem
  <2>2. Scr!Desktop # at /\ Scr!Desktop \notin pressed'
    BY <1>0, <2>1, NamesDiffer
  <2> QED
    BY <2>1, <2>2, ScreenFocus
<1>4. ASSUME NEW p \in Wins, Scr!MouseDownWindow(p)
      PROVE  ScreenInd'
  <2>1. PICK button : button = {at} \intersect {<<"button", p>>}
    OBVIOUS
  <2>2. PICK start : start = IF menu THEN {Scr!Start} ELSE {}
    OBVIOUS
  <2>3. /\ Scr!GetFocus(p, button \union start) /\ pressed' = pressed \union button /\ p \in open
        /\ UNCHANGED <<open, hovered, Scr!loopVars, stopped>>
    BY <1>4, <2>1, <2>2 DEF Scr!MouseDownWindow
  <2>4. Scr!Desktop \notin button \union start /\ Scr!Desktop \notin pressed'
    BY <1>0, <2>1, <2>2, <2>3, NamesDiffer DEF Scr!Desktop
  <2> QED
    BY <2>3, <2>4, ScreenFocus
<1>5. ASSUME NEW p \in Wins, Scr!MouseDownTab(p)
      PROVE  ScreenInd'
  <2>1. /\ Scr!GetFocus(p, {}) /\ p \in open
        /\ UNCHANGED <<open, pressed, hovered, Scr!loopVars, stopped>>
    BY <1>5 DEF Scr!MouseDownTab
  <2> QED
    BY <1>0, <2>1, ScreenFocus
<1> QED
  BY <1>1, <1>2, <1>3, <1>4, <1>5

(* The mouse button is let go.                                             *)
LEMMA ScreenUp ==
  ASSUME ScreenInd,
         \/ Scr!ToggleStartMenu \/ Scr!MouseUpItem \/ Scr!MouseUpElsewhere
         \/ \E p \in Wins : Scr!MouseUpWindow(p)
  PROVE  ScreenInd'
<1>0. Scr!Desktop \notin pressed \union hovered
  BY DEF ScreenInd
<1>1. CASE Scr!ToggleStartMenu
  <2>1. PICK ws, vs : ws = {Scr!Start, Scr!Menu} /\ vs = {IF menu THEN Scr!Desktop ELSE Scr!Menu}
    OBVIOUS
  <2>2. /\ Scr!Changed(ws) /\ shownOld' = shownOld \union vs /\ pressed' = pressed \ {Scr!Start}
        /\ UNCHANGED <<open, hovered, Scr!loopVars, stopped>>
    BY <1>1, <2>1 DEF Scr!ToggleStartMenu
  <2>3. Scr!Desktop \notin ws /\ ws # {} /\ vs \subseteq {Scr!Desktop, Scr!Menu}
    BY <2>1, NamesDiffer
  <2>4. open' = open /\ Scr!Desktop \notin pressed' \union hovered'
    BY <1>0, <2>2
  <2> QED
    BY <2>2, <2>3, <2>4, ScreenChanges
<1>2. CASE Scr!MouseUpItem
  <2>1. PICK ws, vs : ws = {Scr!Start} \union ({Scr!Item} \intersect pressed) /\ vs = {Scr!Desktop}
    OBVIOUS
  <2>2. /\ Scr!Changed(ws) /\ shownOld' = shownOld \union vs
        /\ pressed' = pressed \ {Scr!Item} /\ hovered' \subseteq hovered
        /\ UNCHANGED <<open, Scr!loopVars, stopped>>
    BY <1>2, <2>1 DEF Scr!MouseUpItem
  <2>3. Scr!Desktop \notin ws /\ ws # {} /\ vs \subseteq {Scr!Desktop, Scr!Menu}
    BY <2>1, NamesDiffer
  <2>4. open' = open /\ Scr!Desktop \notin pressed' \union hovered'
    BY <1>0, <2>2
  <2> QED
    BY <2>2, <2>3, <2>4, ScreenChanges
<1>3. CASE Scr!MouseUpElsewhere
  <2>1. UNCHANGED <<Scr!treeVars, Scr!drawVars, Scr!loopVars, stopped, pressed, hovered>>
    BY <1>3 DEF Scr!MouseUpElsewhere
  <2> QED
    BY <1>0, <2>1, ScreenRests
<1>4. ASSUME NEW p \in Wins, Scr!MouseUpWindow(p)
      PROVE  ScreenInd'
  <2>1. PICK ws, vs : ws = {at} \intersect pressed /\ vs = {}
    OBVIOUS
  <2>2. /\ Scr!Changed(ws) /\ shownOld' = shownOld \union vs /\ pressed' = pressed \ {at}
        /\ UNCHANGED <<open, menu, hovered, Scr!loopVars, stopped>>
    BY <1>4, <2>1 DEF Scr!MouseUpWindow, Scr!treeVars
  <2>3. Scr!Desktop \notin ws /\ vs \subseteq {Scr!Desktop, Scr!Menu}
    BY <1>0, <2>1
  <2>4. open' = open /\ menu' = menu /\ Scr!Desktop \notin pressed' \union hovered'
    BY <1>0, <2>2
  <2> QED
    BY <2>1, <2>2, <2>3, <2>4, ScreenChanges
<1> QED
  BY <1>1, <1>2, <1>3, <1>4

(* The pointer moves.                                                      *)
LEMMA ScreenMoves ==
  ASSUME ScreenInd, NEW w, Scr!OnMouseMove(w)
  PROVE  ScreenInd'
<1>0. Scr!Desktop \notin pressed \union hovered
  BY DEF ScreenInd
<1>1. PICK left : left = ({at} \ {w}) \intersect (pressed \union hovered)
  OBVIOUS
<1>2. PICK entered : entered = ({w} \intersect ({Scr!Item} \union Scr!Tabs)) \ hovered
  OBVIOUS
<1>3. PICK dragged : dragged = {p \in dragging \intersect open : at \in {Scr!Win(p)} \union Scr!Kids(p)}
  OBVIOUS
<1>4. PICK ws, vs, ms : /\ ws = left \union entered /\ vs = {Scr!Win(p) : p \in dragged}
                        /\ ms = ws \union (IF dragged # {} THEN {Scr!Desktop} ELSE {})
  OBVIOUS
<1>5. /\ cacheOld' = cacheOld \union left \union entered /\ shownOld' = shownOld \union vs
      /\ Scr!MarkDirty(ms)
      /\ pressed' = pressed \ left /\ hovered' = (hovered \ left) \union entered
      /\ UNCHANGED <<Scr!treeVars, Scr!loopVars, stopped>>
  BY <1>1, <1>2, <1>3, <1>4 DEF Scr!OnMouseMove
<1>6. Scr!Desktop \notin entered
  BY <1>2, NamesDiffer DEF Scr!Tabs
<1>7. /\ dirty \subseteq dirty' /\ \A x \in ws : x # Scr!Desktop /\ Scr!Path(x) \subseteq dirty'
      /\ ms # {} => Scr!Desktop \in dirty'
  BY <1>0, <1>1, <1>4, <1>5, <1>6, MarkDirtyIs
<1>8. cacheOld' = cacheOld \union ws
  BY <1>4, <1>5
<1>9. /\ open' = open /\ menu' = menu /\ pc' = pc /\ frontOld' = frontOld /\ stopped' = stopped
  BY <1>5 DEF Scr!treeVars, Scr!loopVars
<1>10. Scr!Desktop \in dirty' \/ (ws = {} /\ vs = {} /\ Scr!Visible' \subseteq Scr!Visible /\ stopped' = stopped)
  <2>1. ms = {} => ws = {} /\ vs = {}
    BY <1>4
  <2> QED
    BY <1>7, <1>9, <2>1, SameVisible
<1>11. \A v \in vs : Kept(v, dirty') /\ \A q : v # Scr!Tab(q)
  BY <1>4, KeptAlone DEF Scr!Win, Scr!Tab
<1>12. Scr!Desktop \notin pressed' \union hovered'
  BY <1>0, <1>5, <1>6
<1> QED
  BY <1>5, <1>7, <1>8, <1>9, <1>10, <1>11, <1>12, ScreenGrows

(* A program opens a window, or changes what is written in it.             *)
LEMMA ScreenPrograms ==
  ASSUME ScreenInd, NEW p \in Wins, Scr!OpenWindow(p) \/ Scr!SetText(p)
  PROVE  ScreenInd'
<1>0. Scr!Desktop \notin pressed \union hovered
  BY DEF ScreenInd
<1>1. CASE Scr!OpenWindow(p)
  <2>1. PICK ws : ws = {Scr!Win(p), Scr!Tab(p)} \union Scr!Kids(p) \union Scr!Tabs
    OBVIOUS
  <2>2. /\ cacheOld' = cacheOld \union ws /\ shownOld' = shownOld \union ws /\ Scr!MarkDirty(ws)
        /\ open' = open \union {p}
        /\ UNCHANGED <<Scr!mouseVars, Scr!loopVars, stopped>>
    BY <1>1, <2>1 DEF Scr!OpenWindow
  <2>3. Scr!Desktop \notin ws /\ ws # {}
    BY <2>1, NamesDiffer DEF Scr!Tabs
  <2>4. /\ dirty \subseteq dirty' /\ Scr!Desktop \in dirty'
        /\ \A x \in ws : x # Scr!Desktop /\ Scr!Path(x) \subseteq dirty'
    BY <2>2, <2>3, MarkDirtyIs
  <2>5. \A x \in ws : Kept(x, dirty')
    BY <2>4, PathIs
  <2>6. \A q : Scr!Tab(q) \in ws => q \in open'
    BY <2>1, <2>2 DEF Scr!Tabs, Scr!Tab, Scr!Win, Scr!Kids
  <2>7. /\ pressed' = pressed /\ hovered' = hovered /\ pc' = pc /\ frontOld' = frontOld /\ stopped' = stopped
    BY <2>2 DEF Scr!mouseVars, Scr!loopVars
  <2>8. open \subseteq open' /\ Scr!Desktop \notin pressed' \union hovered'
    BY <1>0, <2>2, <2>7
  <2> QED
    BY <2>2, <2>4, <2>5, <2>6, <2>7, <2>8, ScreenGrows
<1>2. CASE Scr!SetText(p)
  <2>1. PICK ws, vs : ws = {<<"label", p>>} /\ vs = {}
    OBVIOUS
  <2>2. /\ Scr!Changed(ws) /\ shownOld' = shownOld \union vs
        /\ UNCHANGED <<Scr!treeVars, Scr!mouseVars, Scr!loopVars, stopped>>
    BY <1>2, <2>1 DEF Scr!SetText
  <2>3. Scr!Desktop \notin ws /\ ws # {} /\ vs \subseteq {Scr!Desktop, Scr!Menu}
    BY <2>1 DEF Scr!Desktop
  <2>4. open' = open /\ Scr!Desktop \notin pressed' \union hovered'
    BY <1>0, <2>2 DEF Scr!treeVars, Scr!mouseVars
  <2>5. UNCHANGED <<Scr!loopVars, stopped>>
    BY <2>2
  <2> QED
    BY <2>1, <2>2, <2>3, <2>4, <2>5, ScreenChanges
<1> QED
  BY <1>1, <1>2

(* The widgets of a program are gone.                                      *)
LEMMA ScreenCloses ==
  ASSUME ScreenInd, NEW p \in Wins, Scr!CloseWindow(p)
  PROVE  ScreenInd'
<1>1. PICK gone : gone = {Scr!Win(p), Scr!Tab(p)} \union Scr!Kids(p)
  OBVIOUS
<1>2. PICK rest : rest = Scr!Tabs \ {Scr!Tab(p)}
  OBVIOUS
<1>3. /\ dirty' = (dirty \ gone) \union {Scr!Desktop, Scr!Taskbar} \union rest
      /\ cacheOld' = (cacheOld \ gone) \union rest \union {Scr!Taskbar}
      /\ shownOld' = (shownOld \ gone) \union rest \union {Scr!Desktop}
      /\ pressed' = pressed \ gone /\ hovered' = hovered \ gone /\ open' = open \ {p}
      /\ pc' = pc
  BY <1>1, <1>2 DEF Scr!CloseWindow, Scr!loopVars
<1>4. /\ Scr!Desktop \notin gone \union rest /\ Scr!Menu \notin gone /\ Scr!Item \notin rest
      /\ Scr!Desktop # Scr!Taskbar /\ Scr!Item # Scr!Taskbar
  BY <1>1, <1>2, NamesDiffer DEF Scr!Tabs
<1>5. \A q : Scr!Tab(q) \in rest => q \in open /\ q # p
  BY <1>2 DEF Scr!Tabs, Scr!Tab
<1>6. \A q : Scr!Tab(q) # Scr!Desktop /\ (q = p => Scr!Tab(q) \in gone)
  BY <1>1, NamesDiffer
<1>7. TabsOpen(shownOld)'
  BY <1>3, <1>5, <1>6 DEF ScreenInd, TabsOpen
<1>8. ASSUME NEW w \in shownOld'
      PROVE  Kept(w, dirty')
  <2>1. CASE w \in rest
    <3>1. PICK q : w = Scr!Tab(q)
      BY <1>2, <2>1 DEF Scr!Tabs
    <3>2. w # Scr!Item /\ \A r : w \notin Scr!Kids(r)
      BY <3>1 DEF Scr!Tab, Scr!Item, Scr!Kids
    <3> QED
      BY <1>3, <3>2 DEF Kept
  <2>2. CASE w = Scr!Desktop
    BY <2>2, KeptAlone
  <2>3. CASE w \in shownOld \ gone
    <3>1. Kept(w, dirty)
      BY <2>3 DEF ScreenInd, Marked
    <3>2. ASSUME NEW q, w \in Scr!Kids(q)
          PROVE  Scr!Win(q) \in dirty'
      <4>1. q # p
        BY <1>1, <2>3, <3>2
      <4>2. Scr!Win(q) \notin gone
        BY <1>1, <4>1 DEF Scr!Win, Scr!Tab, Scr!Kids
      <4> QED
        BY <1>3, <3>1, <3>2, <4>2 DEF Kept
    <3> QED
      BY <1>3, <1>4, <3>1, <3>2 DEF Kept
  <2> QED
    BY <1>3, <2>1, <2>2, <2>3
<1>9. Marked(dirty', cacheOld', shownOld')
  <2>1. cacheOld \subseteq dirty /\ Scr!Desktop \notin cacheOld /\ (Scr!Item \in cacheOld => Scr!Menu \in dirty)
    BY DEF ScreenInd, Marked
  <2> QED
    BY <1>3, <1>4, <1>8, <2>1 DEF Marked
<1> QED
  BY <1>3, <1>7, <1>9 DEF ScreenInd

(* A program has the screen for itself, and gives it back.                 *)
LEMMA ScreenLent ==
  ASSUME ScreenInd, Scr!TakeScreen \/ Scr!GameDraws \/ Scr!ReleaseScreen
  PROVE  ScreenInd'
<1>1. CASE Scr!TakeScreen
  <2>1. /\ stopped' /\ ~stopped /\ UNCHANGED <<open, menu, pressed, hovered, dirty, cacheOld, shownOld, pc, frontOld>>
    BY <1>1 DEF Scr!TakeScreen, Scr!treeVars, Scr!mouseVars, Scr!drawVars, Scr!loopVars
  <2>2. Scr!Visible' = Scr!Visible
    BY <2>1 DEF Scr!Visible, Scr!BarKids, Scr!Tabs
  <2> QED
    BY <2>1, <2>2 DEF ScreenInd, Fresh, Marked, TabsOpen
<1>2. CASE Scr!GameDraws
  <2>1. /\ stopped /\ stopped' /\ shownOld' = shownOld \union {Scr!Desktop}
        /\ UNCHANGED <<open, menu, pressed, hovered, dirty, cacheOld, pc>>
    BY <1>2 DEF Scr!GameDraws, Scr!treeVars, Scr!mouseVars
  <2>2. Scr!Visible' = Scr!Visible
    BY <2>1 DEF Scr!Visible, Scr!BarKids, Scr!Tabs
  <2>3. Marked(dirty', cacheOld', shownOld')
    BY <2>1, KeptAlone DEF ScreenInd, Marked
  <2>4. TabsOpen(shownOld)'
    BY <2>1, NamesDiffer DEF ScreenInd, TabsOpen
  <2> QED
    BY <2>1, <2>2, <2>3, <2>4 DEF ScreenInd, Fresh
<1>3. CASE Scr!ReleaseScreen
  <2>1. /\ ~stopped' /\ Scr!MarkDirty({Scr!Desktop})
        /\ UNCHANGED <<open, menu, pressed, hovered, cacheOld, shownOld, pc, frontOld>>
    BY <1>3 DEF Scr!ReleaseScreen, Scr!treeVars, Scr!mouseVars, Scr!loopVars
  <2>2. dirty \subseteq dirty' /\ Scr!Desktop \in dirty'
    BY <2>1, MarkDirtyIs
  <2>3. Marked(dirty', cacheOld', shownOld') /\ TabsOpen(shownOld)'
    BY <2>1, <2>2, KeptMore DEF ScreenInd, Marked, TabsOpen
  <2> QED
    BY <2>1, <2>2, <2>3 DEF ScreenInd
<1> QED
  BY <1>1, <1>2, <1>3

(* Every step of the desktop keeps the invariant.                          *)
LEMMA ScreenStep ==
  ASSUME ScreenInd, [Scr!Next]_(Scr!vars)
  PROVE  ScreenInd'
<1>1. CASE UNCHANGED Scr!vars
  <2>1. UNCHANGED <<Scr!treeVars, Scr!drawVars, Scr!loopVars, stopped, pressed, hovered>>
    BY <1>1 DEF Scr!vars, Scr!mouseVars
  <2>2. Scr!Desktop \notin pressed' \union hovered'
    BY <2>1 DEF ScreenInd
  <2> QED
    BY <2>1, <2>2, ScreenRests
<1>2. CASE Scr!Next
  BY <1>2, ScreenDraw, ScreenLoops, ScreenDown, ScreenUp, ScreenMoves, ScreenPrograms, ScreenCloses, ScreenLent
     DEF Scr!Next
<1> QED
  BY <1>1, <1>2

----------------------------------------------------------------------------
(* The text screen. Its invariant says of each place which letter of the   *)
(* page it shows, also in the middle of a text.                            *)

(* The characters, with the ends of lines, and what a place can hold.      *)
Letters == Chars \union {Con!NewLine}
Held == Letters \union {Con!Blank}
Places == 0..(Width * Height - 1)

(* A place on the screen, by row and column; and a letter of the page,     *)
(* which is blank where nothing was printed.                               *)
Cell(r, c) == r * Width + c
Letter(rows, i, j) == IF i \in DOMAIN rows /\ j \in DOMAIN rows[i] THEN rows[i][j] ELSE Con!Blank

(* The places of a row follow each other, and no two rows share one.       *)
LEMMA CellIs ==
  ASSUME DisplaysAssumption, NEW r \in 0..(Height - 1), NEW c \in 0..(Width - 1)
  PROVE  /\ Cell(r, c) \in Places /\ Cell(r, c) \in Int
         /\ r < Height - 1 <=> Cell(r, c) < Width * (Height - 1)
         /\ Cell(r, c) + Width = Cell(r + 1, c)
<1>1. Width \in Nat \ {0} /\ Height \in Nat \ {0} /\ r \in Nat /\ c \in Nat /\ r <= Height - 1 /\ Height - 1 \in Nat
  BY DEF DisplaysAssumption
<1>2. Width * r \in Nat /\ Width * (Height - 1) \in Nat /\ r * Width <= (Height - 1) * Width
  BY <1>1, TimesMonotone
<1>3. r * Width = Width * r /\ Width * (Height - 1) = (Height - 1) * Width
  BY <1>1
<1>4. Width * Height = Width * (Height - 1) + Width /\ (r + 1) * Width = r * Width + Width
  BY <1>1
<1>5. ASSUME r < Height - 1
      PROVE  Width * (r + 1) <= Width * (Height - 1) /\ Width * (r + 1) = Width * r + Width
  <2>1. r + 1 \in Nat /\ r + 1 <= Height - 1
    BY <1>1, <1>5
  <2>2. Width * (r + 1) <= Width * (Height - 1)
    BY <1>1, <2>1, TimesMonotone
  <2> QED
    BY <1>1, <2>2
<1> DEFINE a == Width * r
           b == Width * (Height - 1)
           e == Width * Height
<1>6. /\ a \in Nat /\ b \in Nat /\ a <= b /\ e = b + Width /\ r * Width = a /\ (r + 1) * Width = a + Width
      /\ r < Height - 1 => a + Width <= b
      /\ r = Height - 1 => a = b
  BY <1>1, <1>2, <1>3, <1>4, <1>5
<1> HIDE DEF a, b, e
<1>7. a + c \in 0..(e - 1)
  BY <1>1, <1>6
<1>8. r < Height - 1 <=> a + c < b
  BY <1>1, <1>6
<1>9. (a + c) + Width = (a + Width) + c
  BY <1>1, <1>6
<1> QED
  BY <1>1, <1>6, <1>7, <1>8, <1>9 DEF Cell, Places, a, b, e

(* Two places that are one are in one row and one column.                  *)
LEMMA CellOnce ==
  ASSUME DisplaysAssumption, NEW r \in 0..(Height - 1), NEW c \in 0..(Width - 1),
         NEW q \in 0..(Height - 1), NEW d \in 0..(Width - 1), Cell(r, c) = Cell(q, d)
  PROVE  r = q /\ c = d
<1>1. Width \in Nat \ {0} /\ r \in Nat /\ q \in Nat /\ c \in 0..(Width - 1) /\ d \in 0..(Width - 1)
  BY DEF DisplaysAssumption
<1>2. ASSUME NEW x \in Nat, NEW y \in Nat, x < y
      PROVE  x * Width + Width <= y * Width /\ x * Width \in Nat /\ y * Width \in Nat
  <2>1. (x + 1) * Width <= y * Width
    BY <1>1, <1>2, TimesMonotone
  <2>2. (x + 1) * Width = x * Width + Width
    BY <1>1
  <2> QED
    BY <1>1, <2>1, <2>2
<1>3. ~(r < q)
  <2> SUFFICES ASSUME r < q PROVE FALSE
    OBVIOUS
  <2>1. PICK x \in Nat, y \in Nat : x = r * Width /\ y = q * Width /\ x + Width <= y
    BY <1>1, <1>2
  <2>2. x + c = y + d
    BY <2>1 DEF Cell
  <2> QED
    BY <1>1, <2>1, <2>2
<1>4. ~(q < r)
  <2> SUFFICES ASSUME q < r PROVE FALSE
    OBVIOUS
  <2>1. PICK x \in Nat, y \in Nat : x = q * Width /\ y = r * Width /\ x + Width <= y
    BY <1>1, <1>2
  <2>2. x + d = y + c
    BY <2>1 DEF Cell
  <2> QED
    BY <1>1, <2>1, <2>2
<1>5. r = q
  BY <1>1, <1>3, <1>4
<1>6. PICK x \in Int : x = r * Width
  BY <1>1
<1>7. x + c = x + d
  BY <1>5, <1>6 DEF Cell
<1> QED
  BY <1>1, <1>5, <1>6, <1>7

(* The screen shows the last rows of a page, the last of them in row.      *)
ShowsRows(memory, row, rows) ==
  /\ memory \in [Places -> Held] /\ row \in 0..(Height - 1)
  /\ rows \in Seq(Seq(Letters)) /\ Len(rows) >= row + 1
  /\ Len(rows) > row + 1 => row = Height - 1
  /\ \A r \in 0..(Height - 1), c \in 0..(Width - 1) :
       memory[Cell(r, c)] = Letter(rows, Len(rows) - row + r, c + 1)

(* A character is written on the screen, and on the page.                  *)
WrittenAt(memory, spot, c) == [memory EXCEPT ![spot] = c]
LongerBy(rows, c) == [rows EXCEPT ![Len(rows)] = Append(rows[Len(rows)], c)]

(* A character that is written at the end of the last row is shown there.  *)
LEMMA WrittenShows ==
  ASSUME DisplaysAssumption, NEW memory, NEW row, NEW rows, ShowsRows(memory, row, rows),
         NEW c \in Chars, NEW col, col = Len(rows[Len(rows)]), col < Width,
         NEW written, written = WrittenAt(memory, Cell(row, col), c),
         NEW longer, longer = LongerBy(rows, c)
  PROVE  /\ ShowsRows(written, row, longer) /\ Len(longer) = Len(rows)
         /\ longer[Len(rows)] = Append(rows[Len(rows)], c) /\ Len(longer[Len(rows)]) = col + 1
<1>1. PICK n \in Nat : n = Len(rows) /\ n >= row + 1 /\ DOMAIN rows = 1..n
  BY DEF ShowsRows
<1>2. /\ Width \in Nat \ {0} /\ Height \in Nat \ {0} /\ row \in 0..(Height - 1) /\ n \in 1..n
      /\ rows \in Seq(Seq(Letters)) /\ memory \in [Places -> Held]
  BY <1>1 DEF DisplaysAssumption, ShowsRows
<1>3. PICK last \in Seq(Letters) : last = rows[n]
  BY <1>1, <1>2
<1>4. c \in Letters /\ c \in Held
  BY DEF Letters, Held
<1>5. PICK more \in Seq(Letters) : more = Append(last, c)
  <2>1. Append(last, c) \in Seq(Letters)
    BY <1>3, <1>4
  <2> QED
    BY <2>1
<1>6. col \in 0..(Width - 1)
  BY <1>1, <1>2, <1>3
<1>7. /\ Len(last) = col /\ DOMAIN last = 1..col /\ Len(more) = col + 1 /\ DOMAIN more = 1..(col + 1)
      /\ more[col + 1] = c /\ \A j \in 1..col : more[j] = last[j]
  BY <1>1, <1>3, <1>4, <1>5, <1>6
<1>8. /\ longer \in Seq(Seq(Letters)) /\ Len(longer) = n /\ DOMAIN longer = 1..n
      /\ longer[n] = more /\ \A i \in 1..n : i # n => longer[i] = rows[i]
  <2>1. longer = [rows EXCEPT ![n] = more]
    BY <1>1, <1>3, <1>5 DEF LongerBy
  <2> QED
    BY <1>1, <1>2, <1>5, <2>1
<1>9. written \in [Places -> Held]
  BY <1>2, <1>4 DEF WrittenAt
<1>10. ASSUME NEW r \in 0..(Height - 1), NEW d \in 0..(Width - 1)
       PROVE  written[Cell(r, d)] = Letter(longer, n - row + r, d + 1)
  <2>1. Cell(r, d) \in Places /\ Cell(row, col) \in Places
    BY <1>2, <1>6, CellIs
  <2>2. memory[Cell(r, d)] = Letter(rows, n - row + r, d + 1)
    BY <1>1 DEF ShowsRows
  <2>3. CASE r = row /\ d = col
    <3>1. written[Cell(r, d)] = c
      BY <1>2, <2>1, <2>3 DEF WrittenAt
    <3>2. n - row + r = n
      BY <1>2, <2>3
    <3>3. Letter(longer, n, d + 1) = c
      BY <1>2, <1>6, <1>7, <1>8, <2>3 DEF Letter
    <3> QED
      BY <3>1, <3>2, <3>3
  <2>4. CASE ~(r = row /\ d = col)
    <3>1. Cell(r, d) # Cell(row, col)
      BY <1>2, <1>6, <2>4, CellOnce
    <3>2. written[Cell(r, d)] = memory[Cell(r, d)]
      BY <1>2, <2>1, <3>1 DEF WrittenAt
    <3>3. PICK i \in Int : i = n - row + r
      BY <1>2
    <3>4. Letter(longer, i, d + 1) = Letter(rows, i, d + 1)
      <4>1. CASE i # n
        BY <1>1, <1>8, <4>1 DEF Letter
      <4>2. CASE i = n
        <5>1. d # col
          BY <1>2, <2>4, <3>3, <4>2
        <5>2. d + 1 \in 1..(col + 1) <=> d + 1 \in 1..col
          BY <1>6, <5>1
        <5> QED
          BY <1>1, <1>2, <1>3, <1>7, <1>8, <4>2, <5>2 DEF Letter
      <4> QED
        BY <4>1, <4>2
    <3> QED
      BY <2>2, <3>2, <3>3, <3>4
  <2> QED
    BY <2>3, <2>4
<1>11. Len(longer) >= row + 1 /\ (Len(longer) > row + 1 => row = Height - 1)
  BY <1>1, <1>8 DEF ShowsRows
<1>12. ShowsRows(written, row, longer)
  BY <1>2, <1>8, <1>9, <1>10, <1>11 DEF ShowsRows
<1> QED
  BY <1>1, <1>3, <1>5, <1>7, <1>8, <1>12

(* A new row begins: below, or at the bottom of a screen that scrolls.     *)
LEMMA LineFeedShows ==
  ASSUME DisplaysAssumption, NEW memory, NEW row, NEW rows, ShowsRows(memory, row, rows),
         NEW more, more = Append(rows, <<>>)
  PROVE  /\ row + 1 >= Height => ShowsRows(Con!ScrollScreen(memory), Height - 1, more)
         /\ row + 1 < Height => ShowsRows(memory, row + 1, more)
         /\ Len(more) = Len(rows) + 1 /\ more[Len(rows) + 1] = <<>>
<1>1. PICK n \in Nat : n = Len(rows) /\ n >= row + 1 /\ DOMAIN rows = 1..n
  BY DEF ShowsRows
<1>2. /\ Width \in Nat \ {0} /\ Height \in Nat \ {0} /\ row \in 0..(Height - 1)
      /\ rows \in Seq(Seq(Letters)) /\ memory \in [Places -> Held]
  BY <1>1 DEF DisplaysAssumption, ShowsRows
<1>3. <<>> \in Seq(Letters)
  OBVIOUS
<1>4. /\ more \in Seq(Seq(Letters)) /\ Len(more) = n + 1 /\ DOMAIN more = 1..(n + 1)
      /\ more[n + 1] = <<>> /\ \A i \in 1..n : more[i] = rows[i]
  BY <1>1, <1>2, <1>3
<1>5. ASSUME NEW i \in Int, NEW j \in Int
      PROVE  Letter(more, i, j) = Letter(rows, i, j)
  <2>1. CASE i = n + 1
    <3>1. Letter(more, i, j) = Con!Blank
      BY <1>4, <2>1 DEF Letter
    <3>2. i \notin 1..n
      BY <2>1
    <3> QED
      BY <1>1, <3>1, <3>2 DEF Letter
  <2>2. CASE i # n + 1
    <3>1. i \in 1..(n + 1) <=> i \in 1..n
      BY <2>2
    <3> QED
      BY <1>1, <1>4, <3>1 DEF Letter
  <2> QED
    BY <2>1, <2>2
<1>6. ASSUME row + 1 >= Height
      PROVE  ShowsRows(Con!ScrollScreen(memory), Height - 1, more)
  <2>1. row = Height - 1
    BY <1>2, <1>6
  <2>2. PICK m : m = Con!ScrollScreen(memory)
    OBVIOUS
  <2>3. m = [p \in Places |-> IF p < Width * (Height - 1) THEN memory[p + Width] ELSE Con!Blank]
    BY <2>2 DEF Con!ScrollScreen, Places
  <2>4. ASSUME NEW p \in Places, p < Width * (Height - 1)
        PROVE  p + Width \in Places
    <3>1. Width * Height = Width * (Height - 1) + Width
      BY <1>2
    <3>2. PICK x \in Int, y \in Int : x = Width * Height /\ y = Width * (Height - 1)
      BY <1>2
    <3>3. p \in 0..(x - 1) /\ x = y + Width /\ p < y
      BY <2>4, <3>1, <3>2 DEF Places
    <3>4. p + Width \in 0..(x - 1)
      BY <1>2, <3>3
    <3> QED
      BY <3>2, <3>4 DEF Places
  <2>5. m \in [Places -> Held]
    BY <1>2, <2>3, <2>4 DEF Held
  <2>6. ASSUME NEW r \in 0..(Height - 1), NEW c \in 0..(Width - 1)
        PROVE  m[Cell(r, c)] = Letter(more, Len(more) - (Height - 1) + r, c + 1)
    <3>1. PICK s \in Places : s = Cell(r, c)
      BY CellIs
    <3>2. PICK i \in Int : i = Len(more) - (Height - 1) + r
      <4>1. (n + 1) - (Height - 1) + r \in Int
        BY <1>2
      <4> QED
        BY <1>4, <4>1
    <3>3. CASE r < Height - 1
      <4>1. s < Width * (Height - 1) /\ s + Width = Cell(r + 1, c)
        BY <3>1, <3>3, CellIs
      <4>2. m[s] = memory[Cell(r + 1, c)]
        BY <2>3, <4>1
      <4>3. r + 1 \in 0..(Height - 1)
        BY <1>2, <3>3
      <4>4. memory[Cell(r + 1, c)] = Letter(rows, n - row + (r + 1), c + 1)
        BY <1>1, <4>3 DEF ShowsRows
      <4>5. n - row + (r + 1) = i
        BY <1>2, <1>4, <2>1, <3>2, SMTT(40)
      <4> QED
        BY <1>5, <3>1, <3>2, <4>2, <4>4, <4>5
    <3>4. CASE r = Height - 1
      <4>1. ~(s < Width * (Height - 1))
        BY <1>2, <3>1, <3>4, CellIs
      <4>2. m[s] = Con!Blank
        BY <2>3, <4>1
      <4>3. i = n + 1
        BY <1>2, <1>4, <3>2, <3>4
      <4>4. Letter(more, i, c + 1) = Con!Blank
        BY <1>4, <4>3 DEF Letter
      <4> QED
        BY <3>1, <3>2, <4>2, <4>4
    <3> QED
      BY <1>2, <3>3, <3>4
  <2>7. Height - 1 \in 0..(Height - 1) /\ Len(more) >= (Height - 1) + 1
    BY <1>1, <1>2, <1>4, <2>1
  <2>8. ShowsRows(m, Height - 1, more)
    BY <1>4, <2>5, <2>6, <2>7 DEF ShowsRows
  <2> QED
    BY <2>2, <2>8
<1>7. ASSUME row + 1 < Height
      PROVE  ShowsRows(memory, row + 1, more)
  <2>1. n = row + 1 /\ row + 1 \in 0..(Height - 1)
    BY <1>1, <1>2, <1>7 DEF ShowsRows
  <2>2. ASSUME NEW r \in 0..(Height - 1), NEW c \in 0..(Width - 1)
        PROVE  memory[Cell(r, c)] = Letter(more, Len(more) - (row + 1) + r, c + 1)
    <3>1. PICK i \in Int : i = Len(more) - (row + 1) + r
      <4>1. (n + 1) - (row + 1) + r \in Int
        BY <1>2
      <4> QED
        BY <1>4, <4>1
    <3>2. i = n - row + r
      BY <1>2, <1>4, <3>1
    <3>3. memory[Cell(r, c)] = Letter(rows, n - row + r, c + 1)
      BY <1>1 DEF ShowsRows
    <3> QED
      BY <1>5, <3>1, <3>2, <3>3
  <2>3. Len(more) = (row + 1) + 1
    BY <1>4, <2>1
  <2> QED
    BY <1>2, <1>4, <2>1, <2>2, <2>3 DEF ShowsRows
<1> QED
  BY <1>1, <1>4, <1>6, <1>7

(* The cursor is where the next character goes.                            *)
ShowsAt(memory, row, col, rows) ==
  /\ ShowsRows(memory, row, rows)
  /\ col \in 0..(Width - 1) /\ col = Len(rows[Len(rows)])

(* The states of the console, and of the page.                             *)
Screens == [memory : [Places -> Held], row : 0..(Height - 1), col : 0..(Width - 1)]
Pages == Seq(Seq(Letters)) \ {<<>>}

(* One character of printf() leaves the cursor on the screen.              *)
LEMMA PutIs ==
  ASSUME DisplaysAssumption, NEW s \in Screens, NEW c \in Letters
  PROVE  Con!Put(s, c) \in Screens
<1>1. /\ Width \in Nat \ {0} /\ Height \in Nat \ {0} /\ s.row \in 0..(Height - 1) /\ s.col \in 0..(Width - 1)
      /\ s.memory \in [Places -> Held] /\ c \in Held
  BY DEF DisplaysAssumption, Screens, Held
<1>2. PICK written : written = IF c = Con!NewLine THEN s.memory
                               ELSE [s.memory EXCEPT ![s.row * Width + s.col] = c]
  OBVIOUS
<1>3. written \in [Places -> Held]
  BY <1>1, <1>2
<1>4. Con!ScrollScreen(written) \in [Places -> Held]
  <2> DEFINE lifted(p) == IF p < Width * (Height - 1) THEN written[p + Width] ELSE Con!Blank
  <2>1. ASSUME NEW p \in Places
        PROVE  lifted(p) \in Held
    <3>1. CASE p < Width * (Height - 1)
      <4>1. Width * Height = Width * (Height - 1) + Width
        BY <1>1
      <4>2. PICK x \in Int, y \in Int : x = Width * Height /\ y = Width * (Height - 1)
        BY <1>1
      <4>3. p \in 0..(x - 1) /\ x = y + Width /\ p < y
        BY <3>1, <4>1, <4>2 DEF Places
      <4>4. p + Width \in 0..(x - 1)
        BY <1>1, <4>3
      <4>5. p + Width \in Places
        BY <4>2, <4>4 DEF Places
      <4> QED
        BY <1>3, <3>1, <4>5
    <3>2. CASE ~(p < Width * (Height - 1))
      BY <3>2 DEF Held
    <3> QED
      BY <3>1, <3>2
  <2>2. Con!ScrollScreen(written) = [p \in Places |-> lifted(p)]
    BY DEF Con!ScrollScreen, Places
  <2> HIDE DEF lifted
  <2> QED
    BY <2>1, <2>2
<1> DEFINE ends == c = Con!NewLine \/ s.col + 1 >= Width
           row == IF ends THEN s.row + 1 ELSE s.row
           col == IF ends THEN 0 ELSE s.col + 1
<1>5. Con!Put(s, c) = IF row >= Height
                      THEN [memory |-> Con!ScrollScreen(written), row |-> Height - 1, col |-> col]
                      ELSE [memory |-> written, row |-> row, col |-> col]
  BY <1>2 DEF Con!Put
<1>6. col \in 0..(Width - 1) /\ Height - 1 \in 0..(Height - 1) /\ (row >= Height \/ row \in 0..(Height - 1))
  BY <1>1
<1> HIDE DEF row, col
<1> QED
  BY <1>3, <1>4, <1>5, <1>6 DEF Screens

(* The page stays a page.                                                  *)
LEMMA OnPageIs ==
  ASSUME NEW rows \in Pages, NEW c \in Letters
  PROVE  Con!OnPage(rows, c) \in Pages
<1>1. PICK n \in Nat \ {0} : n = Len(rows) /\ DOMAIN rows = 1..n
  BY DEF Pages
<1>2. rows \in Seq(Seq(Letters)) /\ rows[n] \in Seq(Letters) /\ n \in 1..n
  BY <1>1 DEF Pages
<1>3. PICK row \in Seq(Letters) : row = IF c = Con!NewLine THEN rows[n] ELSE Append(rows[n], c)
  <2>1. Append(rows[n], c) \in Seq(Letters)
    BY <1>2
  <2> QED
    BY <1>2, <2>1
<1>4. PICK with : with = [rows EXCEPT ![n] = row]
  OBVIOUS
<1>5. with \in Seq(Seq(Letters)) /\ Len(with) = n
  BY <1>1, <1>2, <1>4
<1>6. with # <<>> /\ Append(with, <<>>) # <<>> /\ Append(with, <<>>) \in Seq(Seq(Letters))
  <2>1. <<>> \in Seq(Letters)
    OBVIOUS
  <2>2. Append(with, <<>>) \in Seq(Seq(Letters)) /\ Len(Append(with, <<>>)) = n + 1
    BY <1>5, <2>1
  <2> QED
    BY <1>5, <2>2
<1>7. Con!OnPage(rows, c) = IF c = Con!NewLine \/ Len(row) = Width THEN Append(with, <<>>) ELSE with
  BY <1>1, <1>3, <1>4 DEF Con!OnPage
<1> QED
  BY <1>5, <1>6, <1>7 DEF Pages

(* What is put on the screen is what is put on the page.                   *)
LEMMA PutShows ==
  ASSUME DisplaysAssumption, NEW s \in Screens, NEW rows \in Pages, ShowsAt(s.memory, s.row, s.col, rows),
         NEW c \in Letters, NEW t, t = Con!Put(s, c), NEW more, more = Con!OnPage(rows, c)
  PROVE  ShowsAt(t.memory, t.row, t.col, more)
<1>1. /\ Width \in Nat \ {0} /\ Height \in Nat \ {0} /\ s.row \in 0..(Height - 1) /\ s.col \in 0..(Width - 1)
  BY DEF DisplaysAssumption, Screens
<1>2. ShowsRows(s.memory, s.row, rows) /\ s.col = Len(rows[Len(rows)])
  BY DEF ShowsAt
<1>3. PICK n \in Nat \ {0} : n = Len(rows) /\ DOMAIN rows = 1..n /\ rows[n] \in Seq(Letters)
  BY DEF Pages
<1>4. ASSUME NEW m, NEW longer, ShowsRows(m, s.row, longer), Len(longer) = n, longer \in Seq(Seq(Letters)),
             t = (IF s.row + 1 >= Height THEN [memory |-> Con!ScrollScreen(m), row |-> Height - 1, col |-> 0]
                  ELSE [memory |-> m, row |-> s.row + 1, col |-> 0]),
             more = Append(longer, <<>>)
      PROVE  ShowsAt(t.memory, t.row, t.col, more)
  <2>1. /\ s.row + 1 >= Height => ShowsRows(Con!ScrollScreen(m), Height - 1, more)
        /\ s.row + 1 < Height => ShowsRows(m, s.row + 1, more)
        /\ Len(more) = n + 1 /\ more[n + 1] = <<>>
    BY <1>4, LineFeedShows
  <2>2. 0 \in 0..(Width - 1) /\ 0 = Len(more[Len(more)])
    BY <1>1, <2>1
  <2>3. CASE s.row + 1 >= Height
    BY <1>4, <2>1, <2>2, <2>3 DEF ShowsAt
  <2>4. CASE s.row + 1 < Height
    BY <1>1, <1>4, <2>1, <2>2, <2>4 DEF ShowsAt
  <2> QED
    BY <1>1, <2>3, <2>4
<1>5. CASE c = Con!NewLine
  <2>1. rows \in Seq(Seq(Letters)) /\ [rows EXCEPT ![n] = rows[n]] = rows
    BY <1>3 DEF Pages
  <2>2. more = Append(rows, <<>>)
    BY <1>3, <1>5, <2>1 DEF Con!OnPage
  <2>3. t = IF s.row + 1 >= Height THEN [memory |-> Con!ScrollScreen(s.memory), row |-> Height - 1, col |-> 0]
            ELSE [memory |-> s.memory, row |-> s.row + 1, col |-> 0]
    BY <1>5 DEF Con!Put
  <2> QED
    BY <1>2, <1>3, <1>4, <2>1, <2>2, <2>3
<1>6. CASE c # Con!NewLine
  <2>1. c \in Chars
    BY <1>6 DEF Letters
  <2>2. PICK written : written = WrittenAt(s.memory, Cell(s.row, s.col), c)
    OBVIOUS
  <2>3. PICK longer : longer = LongerBy(rows, c)
    OBVIOUS
  <2>4. /\ ShowsRows(written, s.row, longer) /\ Len(longer) = n
        /\ longer[n] = Append(rows[n], c) /\ Len(longer[n]) = s.col + 1
    <3>1. PICK m, row, col : m = s.memory /\ row = s.row /\ col = s.col
      OBVIOUS
    <3>2. /\ ShowsRows(m, row, rows) /\ col = Len(rows[Len(rows)]) /\ col < Width
          /\ written = WrittenAt(m, Cell(row, col), c)
      BY <1>1, <1>2, <2>2, <3>1
    <3>3. /\ ShowsRows(written, row, longer) /\ Len(longer) = Len(rows)
          /\ longer[Len(rows)] = Append(rows[Len(rows)], c) /\ Len(longer[Len(rows)]) = col + 1
      BY <2>1, <2>3, <3>2, WrittenShows
    <3> QED
      BY <1>3, <3>1, <3>3
  <2>5. longer \in Seq(Seq(Letters))
    BY <2>4 DEF ShowsRows
  <2>6. more = IF s.col + 1 = Width THEN Append(longer, <<>>) ELSE longer
    BY <1>3, <1>6, <2>3, <2>4 DEF Con!OnPage, LongerBy
  <2>7. CASE s.col + 1 >= Width
    <3>1. more = Append(longer, <<>>)
      BY <1>1, <2>6, <2>7
    <3>2. t = IF s.row + 1 >= Height THEN [memory |-> Con!ScrollScreen(written), row |-> Height - 1, col |-> 0]
              ELSE [memory |-> written, row |-> s.row + 1, col |-> 0]
      BY <1>6, <2>2, <2>7 DEF Con!Put, Cell, WrittenAt
    <3> QED
      BY <1>4, <2>4, <2>5, <3>1, <3>2
  <2>8. CASE ~(s.col + 1 >= Width)
    <3>1. more = longer
      BY <1>1, <2>6, <2>8
    <3>2. t = [memory |-> written, row |-> s.row, col |-> s.col + 1]
      BY <1>1, <1>6, <2>2, <2>8 DEF Con!Put, Cell, WrittenAt
    <3>3. s.col + 1 \in 0..(Width - 1)
      BY <1>1, <2>8
    <3> QED
      BY <2>4, <3>1, <3>2, <3>3 DEF ShowsAt
  <2> QED
    BY <2>7, <2>8
<1> QED
  BY <1>5, <1>6

(* printf(), from its first character to its last.                         *)
LEMMA PrintfShows ==
  ASSUME DisplaysAssumption, NEW n \in Nat, NEW text \in [1..n -> Letters], page \in Pages,
         NEW start \in Screens, start = [memory |-> videoMemory, row |-> cursorRow, col |-> cursorCol],
         ShowsAt(videoMemory, cursorRow, cursorCol, page),
         NEW t, t = Con!Printed(text), NEW rows, rows = Con!PageAfter(text)
  PROVE  t \in Screens /\ rows \in Pages /\ ShowsAt(t.memory, t.row, t.col, rows)
<1>1. Len(text) = n /\ DOMAIN text = 1..n
  OBVIOUS
<1> DEFINE put(i, s) == Con!Put(s, text[i])
           join == [x \in (1..n) \X Screens |-> put(x[1], x[2])]
           Body(f) == [i \in 0..Len(text) |-> IF i = 0 THEN start ELSE put(i, f[i - 1])]
           after == CHOOSE f : f = Body(f)
<1>2. \A i \in 1..n, s \in Screens : put(i, s) \in Screens
  BY PutIs
<1> DEFINE write(i, p) == Con!OnPage(p, text[i])
           joinPage == [x \in (1..n) \X Pages |-> write(x[1], x[2])]
           BodyPage(f) == [i \in 0..Len(text) |-> IF i = 0 THEN page ELSE write(i, f[i - 1])]
           afterPage == CHOOSE f : f = BodyPage(f)
<1>3. \A i \in 1..n, p \in Pages : write(i, p) \in Pages
  BY OnPageIs
<1>4. \A i \in 1..n, s \in Screens, p \in Pages :
        ShowsAt(s.memory, s.row, s.col, p) =>
          ShowsAt(put(i, s).memory, put(i, s).row, put(i, s).col, write(i, p))
  BY PutShows
<1>5. t = after[n]
  BY <1>1 DEF Con!Printed
<1>6. rows = afterPage[n]
  BY <1>1 DEF Con!PageAfter
<1> HIDE DEF put, write
<1>7. after[0] = start /\ \A i \in 1..n : after[i] = put(i, after[i - 1])
  <2>1. StepsIn(n, Screens, join) /\ \A i \in 1..n, s \in Screens : join[<<i, s>>] = put(i, s)
    BY <1>2 DEF StepsIn
  <2>2. PICK g \in [0..n -> Screens] : Counts(g, n, start, join)
    <3> HIDE DEF join
    <3> QED BY <2>1, CountExists
  <2>3. g[0] = start /\ \A i \in 1..n : g[i] = put(i, g[i - 1])
    <3> HIDE DEF join
    <3>1. \A i \in 1..n : i - 1 \in 0..n
      OBVIOUS
    <3>2. \A i \in 1..n : g[i - 1] \in Screens
      BY <2>2, <3>1
    <3> QED
      BY <2>1, <2>2, <3>2 DEF Counts
  <2>4. g = Body(g)
    <3>1. g = [i \in 0..n |-> g[i]]
      BY <2>2
    <3>2. \A i \in 0..n : g[i] = IF i = 0 THEN start ELSE put(i, g[i - 1])
      BY <2>3
    <3> QED
      BY <1>1, <3>1, <3>2
  <2>5. after = Body(after)
    BY <2>4
  <2> HIDE DEF after
  <2> QED
    BY <1>1, <2>5
<1>8. afterPage[0] = page /\ \A i \in 1..n : afterPage[i] = write(i, afterPage[i - 1])
  <2>1. StepsIn(n, Pages, joinPage) /\ \A i \in 1..n, p \in Pages : joinPage[<<i, p>>] = write(i, p)
    BY <1>3 DEF StepsIn
  <2>2. PICK g \in [0..n -> Pages] : Counts(g, n, page, joinPage)
    <3> HIDE DEF joinPage
    <3> QED BY <2>1, CountExists
  <2>3. g[0] = page /\ \A i \in 1..n : g[i] = write(i, g[i - 1])
    <3> HIDE DEF joinPage
    <3>1. \A i \in 1..n : i - 1 \in 0..n
      OBVIOUS
    <3>2. \A i \in 1..n : g[i - 1] \in Pages
      BY <2>2, <3>1
    <3> QED
      BY <2>1, <2>2, <3>2 DEF Counts
  <2>4. g = BodyPage(g)
    <3>1. g = [i \in 0..n |-> g[i]]
      BY <2>2
    <3>2. \A i \in 0..n : g[i] = IF i = 0 THEN page ELSE write(i, g[i - 1])
      BY <2>3
    <3> QED
      BY <1>1, <3>1, <3>2
  <2>5. afterPage = BodyPage(afterPage)
    BY <2>4
  <2> HIDE DEF afterPage
  <2> QED
    BY <1>1, <2>5
<1> HIDE DEF after, afterPage
<1> DEFINE S(i) == after[i] \in Screens /\ afterPage[i] \in Pages
                   /\ ShowsAt(after[i].memory, after[i].row, after[i].col, afterPage[i])
           good == {i \in 0..n : S(i)}
<1>9. 0 \in good
  BY <1>7, <1>8
<1>10. ASSUME NEW i \in 1..n, i - 1 \in good
       PROVE  i \in good
  <2>1. PICK s \in Screens, p \in Pages : s = after[i - 1] /\ p = afterPage[i - 1] /\ ShowsAt(s.memory, s.row, s.col, p)
    BY <1>10
  <2>2. after[i] = put(i, s) /\ afterPage[i] = write(i, p)
    BY <1>7, <1>8, <2>1
  <2>3. S(i)
    BY <1>2, <1>3, <1>4, <2>1, <2>2
  <2> QED
    BY <2>3
<1>11. \A i \in 0..n : i \in good
  <2> HIDE DEF good
  <2> QED BY <1>9, <1>10, CountInd
<1> QED
  BY <1>5, <1>6, <1>11

(* The inductive invariant.                                                *)
ConsoleInd ==
  /\ page \in Pages /\ cursorRow \in 0..(Height - 1)
  /\ ShowsAt(videoMemory, cursorRow, cursorCol, page)
  /\ hardwareCursor = cursorRow * Width + cursorCol

(* An empty screen shows an empty page.                                    *)
LEMMA EmptyShows ==
  ASSUME DisplaysAssumption, NEW m, m = [p \in Places |-> Con!Blank]
  PROVE  ShowsAt(m, 0, 0, << <<>> >>) /\ << <<>> >> \in Pages
<1>1. PICK rows \in Seq(Seq(Letters)) : rows = << <<>> >>
  <2>1. PICK e \in Seq(Letters) : e = <<>>
    <3>1. <<>> \in Seq(Letters)
      OBVIOUS
    <3> QED
      BY <3>1
  <2>2. <<e>> \in Seq(Seq(Letters))
    <3>1. PICK R : R = Seq(Letters)
      OBVIOUS
    <3>2. e \in R => <<e>> \in Seq(R)
      OBVIOUS
    <3> QED
      BY <3>1, <3>2
  <2> QED
    BY <2>1, <2>2
<1>2. Len(rows) = 1 /\ DOMAIN rows = 1..1 /\ rows[1] = <<>> /\ rows # <<>> /\ DOMAIN rows[1] = {}
  BY <1>1
<1>3. ASSUME NEW r \in 0..(Height - 1), NEW c \in 0..(Width - 1)
      PROVE  m[Cell(r, c)] = Letter(rows, Len(rows) - 0 + r, c + 1)
  <2>1. m[Cell(r, c)] = Con!Blank
    BY CellIs
  <2>2. \A i : Letter(rows, i, c + 1) = Con!Blank
    BY <1>2 DEF Letter
  <2> QED
    BY <2>1, <2>2
<1>4. m \in [Places -> Held]
  BY DEF Held
<1>5. 0 \in 0..(Height - 1) /\ 0 \in 0..(Width - 1)
  BY DEF DisplaysAssumption
<1>6. ShowsRows(m, 0, rows)
  BY <1>2, <1>3, <1>4, <1>5, SMTT(40) DEF ShowsRows
<1> QED
  BY <1>1, <1>2, <1>5, <1>6 DEF ShowsAt, Pages

(* A screen that was cleared.                                              *)
LEMMA ConsoleInit == Con!Init => ConsoleInd
<1> SUFFICES ASSUME Con!Init PROVE ConsoleInd
  OBVIOUS
<1>1. videoMemory = [p \in Places |-> Con!Blank] /\ page = << <<>> >>
  BY DEF Con!Init, Places
<1>2. ShowsAt(videoMemory, 0, 0, page) /\ page \in Pages
  BY <1>1, DisplaysAssumption, EmptyShows
<1>3. 0 \in 0..(Height - 1) /\ 0 * Width + 0 = 0
  BY DisplaysAssumption DEF DisplaysAssumption
<1> QED
  BY <1>2, <1>3 DEF Con!Init, ConsoleInd

(* Every step of the console keeps the invariant.                          *)
LEMMA ConsoleStep ==
  ASSUME ConsoleInd, [Con!Next]_(Con!vars)
  PROVE  ConsoleInd'
<1>1. CASE UNCHANGED Con!vars
  BY <1>1 DEF Con!vars, ConsoleInd, ShowsAt, ShowsRows, Pages
<1>2. CASE Con!ClearScreen
  <2>1. videoMemory' = [p \in Places |-> Con!Blank] /\ page' = << <<>> >>
    BY <1>2 DEF Con!ClearScreen, Places
  <2>2. ShowsAt(videoMemory', 0, 0, page') /\ page' \in Pages
    BY <2>1, DisplaysAssumption, EmptyShows
  <2>3. 0 \in 0..(Height - 1) /\ 0 * Width + 0 = 0
    BY DisplaysAssumption DEF DisplaysAssumption
  <2> QED
    BY <1>2, <2>2, <2>3 DEF Con!ClearScreen, ConsoleInd
<1>3. ASSUME NEW n \in 1..3, NEW text \in [1..n -> Chars \union {Con!NewLine}], Con!Printf(text)
      PROVE  ConsoleInd'
  <2>1. PICK start : start = [memory |-> videoMemory, row |-> cursorRow, col |-> cursorCol]
    OBVIOUS
  <2>2. start \in Screens
    BY <2>1 DEF ConsoleInd, ShowsAt, ShowsRows, Screens
  <2>3. PICK t : t = Con!Printed(text)
    OBVIOUS
  <2>4. t \in Screens /\ page' \in Pages /\ ShowsAt(t.memory, t.row, t.col, page')
    <3>1. n \in Nat /\ text \in [1..n -> Letters] /\ page' = Con!PageAfter(text)
      BY <1>3 DEF Letters, Con!Printf
    <3>2. page \in Pages /\ ShowsAt(videoMemory, cursorRow, cursorCol, page)
      BY DEF ConsoleInd
    <3> QED
      BY <2>1, <2>2, <2>3, <3>1, <3>2, DisplaysAssumption, PrintfShows
  <2>5. /\ videoMemory' = t.memory /\ cursorRow' = t.row /\ cursorCol' = t.col
        /\ hardwareCursor' = t.row * Width + t.col
    BY <1>3, <2>3 DEF Con!Printf
  <2> QED
    BY <2>4, <2>5 DEF ConsoleInd, Screens
<1> QED
  BY <1>1, <1>2, <1>3 DEF Con!Next

(* The invariant says what the console promises.                           *)
LEMMA ConsoleMeans == ConsoleInd => Con!ScreenShowsPage
<1> SUFFICES ASSUME ConsoleInd PROVE Con!ScreenShowsPage
  OBVIOUS
<1>1. /\ Width \in Nat \ {0} /\ Height \in Nat \ {0} /\ cursorRow \in 0..(Height - 1)
      /\ ShowsRows(videoMemory, cursorRow, page) /\ cursorCol = Len(page[Len(page)])
      /\ hardwareCursor = cursorRow * Width + cursorCol
  BY DisplaysAssumption DEF DisplaysAssumption, ConsoleInd, ShowsAt
<1>2. PICK n \in Nat : n = Len(page) /\ n >= cursorRow + 1 /\ (n > cursorRow + 1 => cursorRow = Height - 1)
  BY <1>1 DEF ShowsRows
<1>3. PICK above \in Int : above = IF n > Height THEN n - Height ELSE 0
  <2>1. (IF n > Height THEN n - Height ELSE 0) \in Int
    BY <1>1, <1>2
  <2> QED
    BY <2>1
<1>4. above + cursorRow + 1 = n
  BY <1>1, <1>2, <1>3
<1>5. ASSUME NEW r \in 0..(Height - 1), NEW c \in 0..(Width - 1)
      PROVE  videoMemory[r * Width + c] =
               IF above + r + 1 \in DOMAIN page /\ c + 1 \in DOMAIN page[above + r + 1]
                 THEN page[above + r + 1][c + 1] ELSE Con!Blank
  <2>1. PICK i \in Int : i = above + r + 1
    <3>1. above + r + 1 \in Int
      BY <1>3
    <3> QED
      BY <3>1
  <2>2. n - cursorRow + r = i
    BY <1>1, <1>2, <1>3, <1>4, <2>1
  <2>3. videoMemory[Cell(r, c)] = Letter(page, n - cursorRow + r, c + 1)
    BY <1>1, <1>2 DEF ShowsRows
  <2> QED
    BY <2>1, <2>2, <2>3 DEF Cell, Letter
<1> QED
  BY <1>1, <1>2, <1>3, <1>4, <1>5 DEF Con!ScreenShowsPage

----------------------------------------------------------------------------
(* The display that was chosen is as it should be.                         *)
DisplaysInd ==
  /\ showing = "screen" => ScreenInd
  /\ showing = "console" => ConsoleInd

(* The display that was chosen makes a step, or none does.                 *)
LEMMA DisplaysRun ==
  ASSUME [DisplaysNext]_displayVars
  PROVE  /\ showing' = showing
         /\ showing = "screen" => [Scr!Next]_(Scr!vars)
         /\ showing = "console" => [Con!Next]_(Con!vars)
<1>1. CASE UNCHANGED displayVars
  <2>1. showing' = showing
    BY <1>1 DEF displayVars
  <2>2. UNCHANGED Scr!vars
    BY <1>1 DEF displayVars, screenVars, Scr!vars, Scr!treeVars, Scr!mouseVars, Scr!drawVars, Scr!loopVars
  <2>3. UNCHANGED Con!vars
    BY <1>1 DEF displayVars, consoleVars, Con!vars
  <2> QED
    BY <2>1, <2>2, <2>3
<1>2. CASE showing = "screen" /\ Scr!Next /\ UNCHANGED <<showing, consoleVars>>
  BY <1>2
<1>3. CASE showing = "console" /\ Con!Next /\ UNCHANGED <<showing, screenVars>>
  BY <1>3
<1> QED
  BY <1>1, <1>2, <1>3 DEF DisplaysNext

(* What is shown is what there is to show, for any number of windows and   *)
(* any size of the text screen: after every change of a widget the desktop *)
(* is drawn before its thread sleeps, and printed text ends on the screen  *)
(* (pDesktop(), Desktop::Draw(), MarkDirty(), printf(), scrollScreen()).   *)
THEOREM ShownAlwaysRight == DisplaysSpec => []ShownRight
<1>1. DisplaysInit => DisplaysInd
  BY ScreenInit, ConsoleInit DEF DisplaysInit, DisplaysInd
<1>2. DisplaysInd /\ [DisplaysNext]_displayVars => DisplaysInd'
  <2> SUFFICES ASSUME DisplaysInd, [DisplaysNext]_displayVars PROVE DisplaysInd'
    OBVIOUS
  <2>1. /\ showing' = showing
        /\ showing = "screen" => [Scr!Next]_(Scr!vars)
        /\ showing = "console" => [Con!Next]_(Con!vars)
    BY DisplaysRun
  <2>2. showing = "screen" => ScreenInd'
    BY <2>1, ScreenStep DEF DisplaysInd
  <2>3. showing = "console" => ConsoleInd'
    BY <2>1, ConsoleStep DEF DisplaysInd
  <2> QED
    BY <2>1, <2>2, <2>3 DEF DisplaysInd
<1>3. DisplaysInd => ShownRight
  BY ScreenMeans, ConsoleMeans DEF DisplaysInd, ShownRight
<1> QED
  BY <1>1, <1>2, <1>3, PTL DEF DisplaysSpec
=============================================================================
