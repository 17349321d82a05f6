----------------------------- MODULE FocusChain -----------------------------
(***************************************************************************)
(* The focus chains of focuschain.cpp: for every virtual desktop, and once  *)
(* for all of them (mru), the windows that may take the focus, the most     *)
(* recently used one last.                                                  *)
(*                                                                          *)
(* The operators work on a record s that holds the class's own state        *)
(*    chains, mru, chainActive, chainCurrent                                *)
(* and what it asks the windows and the options for                         *)
(*    on[w]         the desktops of w, the last one entered last;           *)
(*                  <<>> for a window on all of them                        *)
(*    st[w]         "gone", "shown" or "minimized"                          *)
(*    minimizedEnd  moveMinimizedWindowsToEndOfTabBoxFocusChain             *)
(***************************************************************************)
EXTENDS Integers, SequencesExt

CONSTANTS Windows, Desktops, None,
          App       \* App[w]: the application of w

ASSUME NoneAssumption == None \notin Windows \cup Desktops

OnDesktop(s, w, d) == s.on[w] = <<>> \/ Contains(s.on[w], d)
Shown(s, w) == s.st[w] = "shown"
SameApplication(v, w) == App[v] = App[w]

\* Window::wantsTabFocus, for a normal window: it takes input once it is mapped.
WantsTabFocus(s, w) == s.st[w] # "gone"

\* The most recently used window of q.
Topmost(q) == IF q = <<>> THEN None ELSE Last(q)

-----------------------------------------------------------------------------
\* One chain.

\* makeFirstInChain: on top, or a minimized window above the minimized ones.
Raised(s, q, w) ==
    LET r == Remove(q, w)
        lastMinimized == SelectLastInSeq(r, LAMBDA v : s.st[v] = "minimized")
    IN  IF s.minimizedEnd /\ s.st[w] = "minimized"
        THEN InsertAt(r, lastMinimized + 1, w)
        ELSE Append(r, w)

\* insertWindowIntoChain: below the active window if that one is on top.
Inserted(s, q, w) ==
    IF Contains(q, w) THEN q
    ELSE IF /\ s.chainActive \notin {None, w}
            /\ q # <<>> /\ Last(q) = s.chainActive
         THEN InsertAt(q, Len(q), w)
         ELSE Append(q, w)

\* moveAfterWindowInChain: below the reference, or below the topmost window of
\* the reference's application for a window of another one.
MovedAfter(q, w, ref) ==
    LET r == Remove(q, w)
        Below(v) == IF SameApplication(ref, w) THEN v = ref ELSE SameApplication(ref, v)
    IN  IF ~Contains(q, ref) THEN q ELSE InsertAt(r, SelectLastInSeq(r, Below), w)

-----------------------------------------------------------------------------
\* All chains.

\* FocusChain::remove
RemoveWindow(s, w) ==
    [s EXCEPT !.chains = [d \in DOMAIN @ |-> Remove(@[d], w)],
              !.mru = Remove(@, w)]

\* Mutants: a window on all desktops is raised on all of them; a window is
\* added to the current desktop's chain only.
Update_RaisesEverywhere(s, w) ==
    IF ~WantsTabFocus(s, w) THEN RemoveWindow(s, w)
    ELSE [s EXCEPT
            !.chains = [d \in DOMAIN @ |->
                IF OnDesktop(s, w, d) THEN Raised(s, @[d], w)
                                      ELSE Remove(@[d], w)],
            !.mru = Raised(s, @, w)]
Update_CurrentOnly(s, w) ==
    IF ~WantsTabFocus(s, w) THEN RemoveWindow(s, w)
    ELSE [s EXCEPT
            !.chains = [d \in DOMAIN @ |->
                IF OnDesktop(s, w, d) /\ d = s.chainCurrent THEN Raised(s, @[d], w)
                                                             ELSE Remove(@[d], w)],
            !.mru = Raised(s, @, w)]

\* FocusChain::update(w, MakeFirst): a window on all desktops is raised on the
\* current one only, and added to the chains that lack it.
Update(s, w) ==
    IF ~WantsTabFocus(s, w) THEN RemoveWindow(s, w)
    ELSE [s EXCEPT
            !.chains = [d \in DOMAIN @ |->
                CASE s.on[w] = <<>> /\ d # s.chainCurrent -> Inserted(s, @[d], w)
                  [] OnDesktop(s, w, d) /\ (s.on[w] # <<>> \/ d = s.chainCurrent)
                       -> Raised(s, @[d], w)
                  [] OTHER -> Remove(@[d], w)],
            !.mru = Raised(s, @, w)]

\* FocusChain::moveAfterWindow
MoveAfter(s, w, ref) ==
    IF ~WantsTabFocus(s, w) THEN s
    ELSE [s EXCEPT
            !.chains = [d \in DOMAIN @ |->
                IF OnDesktop(s, w, d) THEN MovedAfter(@[d], w, ref) ELSE @[d]],
            !.mru = MovedAfter(@, w, ref)]

\* FocusChain::addDesktop and removeDesktop
AddChain(s, d) == [s EXCEPT !.chains = [e \in DOMAIN @ \cup {d} |->
                                          IF e = d THEN <<>> ELSE @[e]]]

RemoveChain(s, d) ==
    [s EXCEPT !.chainCurrent = IF @ = d THEN None ELSE @,
              !.chains = [e \in DOMAIN @ \ {d} |-> @[e]]]

\* getForActivation: what takes the focus on a desktop that is switched to.
GetForActivation(s, d) ==
    IF d \notin DOMAIN s.chains THEN None
    ELSE Topmost(SelectSeq(s.chains[d], LAMBDA w : Shown(s, w)))

\* nextForDesktop: what takes the focus after ref lost it.
NextForDesktop(s, ref, d) ==
    IF d \notin DOMAIN s.chains THEN None
    ELSE Topmost(SelectSeq(s.chains[d],
                     LAMBDA w : w # ref /\ Shown(s, w) /\ OnDesktop(s, w, s.cur)))
=============================================================================
