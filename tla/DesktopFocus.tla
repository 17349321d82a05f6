---------------------------- MODULE DesktopFocus ----------------------------
(***************************************************************************)
(* Virtual desktops, the windows on them and the keyboard focus: the        *)
(* VirtualDesktopManager (virtualdesktops.cpp), the handlers of Workspace   *)
(* that follow its signals (workspace.cpp), activation (activation.cpp) and *)
(* the desktop part of Window (window.cpp), over the chains of FocusChain.  *)
(*                                                                          *)
(* Wayland windows (xdg toplevels), click to focus, one output, no          *)
(* activities, transients, window rules or desktop-type windows.  Handlers  *)
(* call each other synchronously, so each is a function of the record s and *)
(* a request is the composition of those it reaches.                        *)
(***************************************************************************)
EXTENDS FocusChain

CONSTANTS Scenarios   \* who exists and what may happen:
    \* windows       the windows
    \* start         the desktops at the start
    \* desktops      all of them; more than in start: they are added and removed
    \* requests      which of "minimize", "stick" (on all desktops), "share" (on
    \*               several) and "drag" are made
    \* minimizedEnd  the option moveMinimizedWindowsToEndOfTabBoxFocusChain

VARIABLES s,          \* the state; see TypeInv
          scenario,
          focused     \* history: the living windows that had the focus, not left behind

vars == <<s, scenario, focused>>

Living == {w \in scenario.windows : s.st[w] # "gone"}
OnCurrent(t, w) == OnDesktop(t, w, t.cur)

\* A window dragged away from its only desktop while that is removed keeps a pointer
\* to it, which soon dangles; a desktop added later may get its address.
LeftBehind(t, w) == t.on[w] # <<>> /\ ~(ToSet(t.on[w]) \subseteq ToSet(t.desktops))

NumberOf(q, d) == CHOOSE i \in DOMAIN q : q[i] = d    \* x11DesktopNumber

TypeInv ==
    /\ DOMAIN s = {"desktops", "cur", "on", "st", "active", "moving", "chains",
                   "mru", "chainActive", "chainCurrent", "minimizedEnd", "crashed"}
    /\ s.desktops \in Seq(Desktops) /\ s.desktops # <<>> /\ IsInjective(s.desktops)
    /\ s.cur \in ToSet(s.desktops)
    /\ DOMAIN s.on = Windows /\ \A w \in Windows :
          s.on[w] \in Seq(Desktops) /\ IsInjective(s.on[w])
    /\ s.crashed \in BOOLEAN
    /\ s.st \in [Windows -> {"gone", "shown", "minimized"}]
    /\ {s.active, s.chainActive, s.moving} \subseteq Windows \cup {None}
    /\ s.chainCurrent \in ToSet(s.desktops) \cup {None}
    /\ DOMAIN s.chains = ToSet(s.desktops)
    /\ \A q \in {s.mru} \cup {s.chains[d] : d \in DOMAIN s.chains} :
          q \in Seq(Windows) /\ IsInjective(q)

Init ==
    /\ scenario \in Scenarios
    /\ focused = {}
    /\ s = [desktops |-> scenario.start, cur |-> scenario.start[1],
            on |-> [w \in Windows |-> <<>>], st |-> [w \in Windows |-> "gone"],
            active |-> None, moving |-> None,
            chains |-> [d \in ToSet(scenario.start) |-> <<>>], mru |-> <<>>,
            chainActive |-> None, chainCurrent |-> scenario.start[1],
            minimizedEnd |-> scenario.minimizedEnd, crashed |-> FALSE]

-----------------------------------------------------------------------------
\* Activation.

\* Workspace::setActiveWindow.  The window that had the focus is made inactive
\* first, which calls setActiveWindow(null) within: the chain is updated while it
\* knows of no active window.
SetActive(t, w) ==
    IF t.active = w THEN t
    ELSE LET u == [t EXCEPT !.moving = IF @ = w THEN @ ELSE None,
                            !.active = w, !.chainActive = None]
         IN  IF w = None THEN u ELSE [Update(u, w) EXCEPT !.chainActive = w]

\* Workspace::requestFocus, takeActivity, XdgToplevelWindow::takeFocus
RequestFocus(t, w) ==
    IF w # None /\ Shown(t, w) THEN SetActive(t, w) ELSE t

\* Mutant: only the topmost window of the chain is considered.
ActivateNext_TopOnly(t, w) ==
    IF t.active # w THEN t
    ELSE LET u == SetActive(t, None)
             q == u.chains[u.cur]
         IN  IF q # <<>> /\ Last(q) # w THEN RequestFocus(u, Last(q)) ELSE u

\* Workspace::activateNextWindow
ActivateNext(t, w) ==
    IF t.active # w THEN t
    ELSE LET u == SetActive(t, None) IN RequestFocus(u, NextForDesktop(u, w, u.cur))

\* Mutant: a window that left the current desktop keeps the focus.
SetDesktops_KeepsFocus(t, w, ds) ==
    IF ds = t.on[w] THEN t ELSE Update([t EXCEPT !.on[w] = ds], w)

\* Window::setDesktops with WaylandWindow::doSetDesktop.  The number of a deleted
\* desktop is read before it is left, and not used here.
SetDesktops(t, w, ds) ==
    LET u == [t EXCEPT !.on[w] = ds]
    IN  IF ds = t.on[w] THEN t
        ELSE Update(IF OnCurrent(u, w) THEN u ELSE ActivateNext(u, w), w)

-----------------------------------------------------------------------------
\* The current desktop.

\* Workspace::findWindowToActivateOnDesktop
ToActivate(t, d) ==
    IF /\ t.moving # None /\ t.active = t.moving
       /\ Contains(t.chains[d], t.moving) /\ Shown(t, t.moving) /\ OnCurrent(t, t.moving)
    THEN t.moving ELSE GetForActivation(t, d)

\* currentChanged: the chain learns the desktop, slotCurrentDesktopChanged takes a
\* dragged window along and activateWindowOnNewDesktop moves the focus; within
\* activateWindow (blocked) nobody is given it yet.
CurrentChanged(t, blocked) ==
    LET t1 == [t EXCEPT !.chainCurrent = t.cur]
        u == IF t.moving # None /\ ~OnCurrent(t1, t.moving)
             THEN SetDesktops(t1, t.moving, <<t.cur>>) ELSE t1
        w == ToActivate(u, u.cur)
        v == IF w = u.active THEN u ELSE SetActive(u, None)
    IN  IF blocked THEN v ELSE RequestFocus(v, w)

\* VirtualDesktopManager::setCurrent
SetCurrent(t, d, blocked) ==
    IF d = t.cur THEN t ELSE CurrentChanged([t EXCEPT !.cur = d], blocked)

\* Workspace::activateWindow; bring: ActivationDesktopPolicy
ActivateWindow(t, w, bring) ==
    LET u == [t EXCEPT !.moving = IF @ = w THEN @ ELSE None]
        v == CASE OnCurrent(u, w) -> u
               [] ~OnCurrent(u, w) /\ bring -> SetDesktops(u, w, Append(u.on[w], u.cur))
               [] OTHER -> SetCurrent(u, Last(u.on[w]), TRUE)
    IN  RequestFocus([v EXCEPT !.st[w] = "shown"], w)

\* Workspace::restackWindowUnderActive and restack: low[a] is the lowest window of
\* application a in the stacking order, which is not modelled.
RestackUnderActive(t, w, low) ==
    IF t.active \in {None, w} THEN t
    ELSE MoveAfter(t, w, IF SameApplication(t.active, w) THEN t.active
                                                         ELSE low[App[t.active]])

Lowest == {f \in [{App[w] : w \in Living} -> Living] : \A a \in DOMAIN f : App[f[a]] = a}

\* Workspace::sendWindowToDesktop
SendToDesktop(t, w, d, dontActivate, low) ==
    LET ignored == t.on[w] = <<>> \/ t.moving = w
        arrives == d = t.cur /\ ~OnCurrent(t, w)
        u == SetDesktops(t, w, <<d>>)
    IN  CASE ignored -> t
          [] ~ignored /\ d # t.cur -> u
          [] ~ignored /\ arrives /\ ~dontActivate -> RequestFocus(u, w)
          [] OTHER -> RestackUnderActive(u, w, low)

-----------------------------------------------------------------------------
\* Desktops come and go.

\* Workspace::slotDesktopAdded
DesktopAdded(t, d) == AddChain(t, d)

\* Workspace::slotDesktopRemoved: the windows of desktop d, the number-th one, leave
\* it, those on no other for the desktop that has its number now.  A window that is
\* being dragged is not sent: it is left behind.
DesktopRemoved(t, d, number, order, low) ==
    LET target == t.desktops[Min({number, Len(t.desktops)})]
        Evacuate(u, w) ==
            CASE ~Contains(u.on[w], d) -> u
              [] u.on[w] = <<d>> -> SendToDesktop(u, w, target, TRUE, low)
              [] OTHER -> SetDesktops(u, w, Remove(u.on[w], d))
    IN  RemoveChain(FoldLeft(Evacuate, t, order), d)

\* What follows when the desktops have become q: the current number stays if it can,
\* and only a change of the number is announced (removeVirtualDesktop, setCount).
Renumber(t, q) ==
    LET old == NumberOf(t.desktops, t.cur)
        new == Min({old, Len(q)})
        u == [t EXCEPT !.desktops = q, !.cur = q[new]]
    IN  IF new = old THEN u ELSE CurrentChanged(u, FALSE)

AddDesktop ==
    /\ scenario.desktops # ToSet(scenario.start)
    /\ \E d \in scenario.desktops \ ToSet(s.desktops), i \in 1..Len(s.desktops) + 1 :
          s' = DesktopAdded([s EXCEPT !.desktops = InsertAt(@, i, d)], d)

RemoveDesktop ==
    /\ scenario.desktops # ToSet(scenario.start) /\ Len(s.desktops) > 1
    /\ \E d \in ToSet(s.desktops), order \in SetToSeqs(Living), low \in Lowest :
          s' = DesktopRemoved(Renumber(s, Remove(s.desktops, d)),
                              d, NumberOf(s.desktops, d), order, low)

\* VirtualDesktopManager::setCount, to fewer desktops.
SetCount ==
    /\ scenario.desktops # ToSet(scenario.start)
    /\ \E n \in 1..Len(s.desktops) - 1, order \in SetToSeqs(Living), low \in Lowest :
          LET q == SubSeq(s.desktops, 1, n)
              gone == SubSeq(s.desktops, n + 1, Len(s.desktops))
              Remove1(t, d) == DesktopRemoved(t, d, NumberOf(s.desktops, d), order, low)
          IN  s' = FoldLeft(Remove1, Renumber(s, q), gone)

-----------------------------------------------------------------------------
\* Windows and requests.

\* XdgToplevelWindow's constructor and Workspace::addWaylandWindow: a window is
\* on the desktop that was current when it was created, or on all of them.
Open(w) ==
    /\ s.st[w] = "gone"
    /\ \E ds \in {<<d>> : d \in ToSet(s.desktops)}
                 \cup (IF "stick" \in scenario.requests THEN {<<>>} ELSE {}), bring \in BOOLEAN :
          LET t == [s EXCEPT !.on[w] = ds, !.st[w] = "shown"]
          IN  \/ s' = ActivateWindow(t, w, bring)
              \/ /\ "minimize" \in scenario.requests
                 /\ s' = [t EXCEPT !.st[w] = "minimized"]

\* Workspace::removeWaylandWindow, removeWindow
Close(w) ==
    /\ s.st[w] # "gone"
    /\ LET t == [s EXCEPT !.st[w] = "gone", !.moving = IF @ = w THEN None ELSE @]
       IN  s' = [RemoveWindow(ActivateNext(t, w), w) EXCEPT !.on[w] = <<>>]

\* Window::minimize with XdgToplevelWindow::doMinimize
Minimize(w) ==
    /\ "minimize" \in scenario.requests /\ s.st[w] = "shown"
    /\ LET t == ActivateNext([s EXCEPT !.st[w] = "minimized"], w)
       IN  s' = IF s.minimizedEnd THEN Update(t, w) ELSE t

\* Window::unminimize
Unminimize(w) ==
    /\ s.st[w] = "minimized"
    /\ s' = [s EXCEPT !.st[w] = "shown"]

\* Making a deleted desktop current, or keeping it in the window's list next to another
\* one, is a use after free (activateWindow, enterDesktop).
Crash == s' = [s EXCEPT !.crashed = TRUE]

Activate(w) ==
    /\ s.st[w] # "gone"
    /\ IF LeftBehind(s, w) THEN Crash
       ELSE \E bring \in BOOLEAN : s' = ActivateWindow(s, w, bring)

SwitchDesktop(d) == s' = SetCurrent(s, d, FALSE)

Send(w) ==
    /\ s.st[w] # "gone"
    /\ \E d \in ToSet(s.desktops), dontActivate \in BOOLEAN, low \in Lowest :
          s' = SendToDesktop(s, w, d, dontActivate, low)

\* Window::enterDesktop, leaveDesktop, setOnAllDesktops
ChangeDesktops(w) ==
    /\ s.st[w] # "gone"
    /\ \/ \E d \in ToSet(s.desktops) : /\ ~Contains(s.on[w], d)
                                       /\ (s.on[w] = <<>> \/ "share" \in scenario.requests)
                                       /\ IF LeftBehind(s, w) THEN Crash
                                          ELSE s' = SetDesktops(s, w, Append(s.on[w], d))
       \/ \E d \in ToSet(s.desktops) :
             LET ds == IF s.on[w] = <<>> THEN s.desktops ELSE s.on[w]
             IN  /\ Contains(ds, d) /\ "share" \in scenario.requests
                 /\ s' = SetDesktops(s, w, Remove(ds, d))
       \/ /\ "stick" \in scenario.requests
          /\ s' = SetDesktops(s, w, IF s.on[w] = <<>> THEN <<s.cur>> ELSE <<>>)

\* Window::startInteractiveMoveResize, finishInteractiveMoveResize
BeginMove(w) ==
    /\ "drag" \in scenario.requests /\ s.moving = None /\ Shown(s, w) /\ OnCurrent(s, w)
    /\ s' = [s EXCEPT !.moving = w]
EndMove ==
    /\ s.moving # None
    /\ s' = [s EXCEPT !.moving = None]

Next ==
    /\ ~s.crashed
    /\ \/ AddDesktop \/ RemoveDesktop \/ SetCount \/ EndMove
       \/ \E d \in ToSet(s.desktops) : SwitchDesktop(d)
       \/ \E w \in scenario.windows :
             Open(w) \/ Close(w) \/ Minimize(w) \/ Unminimize(w) \/ Activate(w)
             \/ Send(w) \/ ChangeDesktops(w) \/ BeginMove(w)
    /\ focused' = {w \in focused \cup ({s'.active} \ {s.active, None}) :
                       s'.st[w] # "gone" /\ ~LeftBehind(s', w)}
    /\ UNCHANGED scenario

Spec == Init /\ [][Next]_vars

-----------------------------------------------------------------------------
\* The chain of a desktop holds only living windows that are on it, all of which
\* are in the most-recently-used chain too: remove, update and moveAfterWindow keep
\* the chains together through closing, moving, sticking and removed desktops.
ChainsMatchWindows ==
    /\ ToSet(s.mru) \subseteq Living
    /\ \A d \in DOMAIN s.chains : \A w \in ToSet(s.chains[d]) :
          Contains(s.mru, w) /\ OnDesktop(s, w, d)

\* setActiveWindow, the chain's notion of the active window and its current
\* desktop stay in step: the focus is on a shown window of the current desktop,
\* which can be found in that desktop's chain again, unless the
\* current desktop has changed without currentChanged (removeVirtualDesktop).
FocusIsVisible ==
    /\ s.chainActive = s.active
    /\ s.active # None =>
          /\ Shown(s, s.active) /\ Contains(s.mru, s.active)
          /\ s.chainCurrent = s.cur =>
                OnCurrent(s, s.active) /\ Contains(s.chains[s.cur], s.active)

\* A window that had the focus once, on one desktop or several, is in the chains of
\* all of them: nextForDesktop and getForActivation can give it the focus again.  Not
\* so a window that was left behind on a removed desktop, until it has the focus again.
FocusedStaysReachable ==
    \A w \in focused : /\ Contains(s.mru, w)
                        /\ \A d \in ToSet(s.on[w]) : Contains(s.chains[d], w)

\* The chains are sound and, for the windows that had the focus and were not left
\* behind, complete, whatever order desktops, windows, drags and focus change in
\* (FocusChain's update and remove).
ChainsAreComplete == ChainsMatchWindows /\ FocusedStaysReachable

\* Switching to another desktop and back again gives the focus back to the window
\* that had it, if it is the topmost of its chain, whatever takes the focus on the
\* other desktop, unless that is one of several desktops of a window that is on this
\* one too: a window on all desktops is raised in the chain of the current one only
\* (FocusChain::update).  A desktop added later lacks the windows on all desktops
\* in its chain until they are updated, and then gets them on top.
FocusReturns ==
    \A e \in ToSet(s.desktops) \ {s.cur} :
        LET t == SetCurrent(s, e, FALSE)
            u == SetCurrent(t, s.cur, FALSE)
        IN  /\ s.active # None /\ s.chainCurrent = s.cur /\ s.moving = None
            /\ GetForActivation(s, s.cur) = s.active
            /\ t.active # None /\ OnCurrent(s, t.active)
                  => s.on[t.active] = <<>> /\ Contains(s.chains[s.cur], t.active)
            => u.active = s.active

\* activateNextWindow and activateWindowOnNewDesktop: as long as no desktop is
\* removed, a step leaves nobody with the focus only if the current desktop's chain
\* has no shown window.
FocusMovesOn ==
    [][s.active # None /\ s'.active = None /\ s'.desktops = s.desktops
         => GetForActivation(s', s'.cur) = None]_vars

=============================================================================
