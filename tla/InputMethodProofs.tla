------------------------- MODULE InputMethodProofs -------------------------
(***************************************************************************)
(* Proofs about InputMethod, for any surfaces, commands and crash limit.   *)
(*                                                                         *)
(* The four invariants are inductive together with the type invariant, but *)
(* not one handler after another inside a step: the seat leaves one        *)
(* surface before it enters the next, and a command is changed before the  *)
(* process is.  So the invariant is in parts, and each function is shown   *)
(* to keep those parts that hold where it is called, and the fields that   *)
(* the other parts are about.                                              *)
(***************************************************************************)
EXTENDS InputMethod, TLAPS

OrNone == Surfaces \cup {NoSurface}

Panels ==
    [exists : BOOLEAN, mode : {"none", "keyboard", "overlay"},
     allowed : BOOLEAN, should : BOOLEAN, mapped : BOOLEAN,
     ready : BOOLEAN, hidden : BOOLEAN]

Inputs ==
    [enabled : BOOLEAN, command : Commands \cup {NoCommand},
     process : {"none", "running", "dead"}, runs : Commands \cup {NoCommand},
     crashes : 0 .. CrashLimit, timer : BOOLEAN,
     bound : BOOLEAN, told : BOOLEAN, context : BOOLEAN,
     grab : {"none", "live", "dead"}, focus : OrNone, entered : OrNone,
     text : SUBSET Surfaces, shouldShow : BOOLEAN, panel : Panels, missed : BOOLEAN]

\* A keyboard that may be shown is.
Shown(p) ==
    p.mode = "keyboard" /\ p.mapped /\ p.allowed /\ p.should => p.ready /\ ~p.hidden

\* What every function keeps: ContextIsKnown and the second part of KeyboardReturns.
Core(t) ==
    /\ t \in Inputs
    /\ t.told <=> t.bound /\ t.context
    /\ t.panel.exists \/ t.grab = "live" => t.bound
    /\ Shown(t.panel)

\* The first part of KeyboardReturns.
Asked(t) == t.panel.exists /\ t.shouldShow => t.panel.should

\* ServerIsCurrent.
Server(t) ==
    t.process # "none" => t.enabled /\ t.runs = t.command /\ t.command # NoCommand

\* ActiveFollowsText.
Follows(t) == ~t.missed => (t.context <=> TextEnabled(t))

Sound(t) == Core(t) /\ Asked(t) /\ Server(t) /\ Follows(t) /\ t.entered = t.focus

\* What these are about.
SameServer(s, t) ==
    /\ t.enabled = s.enabled /\ t.command = s.command
    /\ t.process = s.process /\ t.runs = s.runs
SameText(s, t) == t.focus = s.focus /\ t.entered = s.entered /\ t.text = s.text
SameContext(s, t) == t.context = s.context /\ t.missed = s.missed /\ t.bound = s.bound

\* What all functions that change only the panel keep.
Keeps(s, t) == Core(t) /\ SameServer(s, t) /\ SameText(s, t) /\ SameContext(s, t)

-----------------------------------------------------------------------------
(* The panel.                                                              *)

LEMMA NewPanels == NoPanel \in Panels /\ NewPanel \in Panels /\ Shown(NewPanel) /\ Shown(NoPanel)
                   /\ ~NoPanel.exists /\ NewPanel.exists
BY DEF NoPanel, NewPanel, Panels, Shown

\* Whatever a panel was, after maybeShow() it is shown if it may be.
LEMMA MaybeShowShows ==
    ASSUME NEW p \in Panels
    PROVE  /\ MaybeShow(p) \in Panels /\ Shown(MaybeShow(p))
           /\ MaybeShow(p).exists = p.exists /\ MaybeShow(p).should = p.should
BY DEF MaybeShow, Panels, Shown

\* The panel with what is asked of it.
WithPanel(s, b, p) == [s EXCEPT !.shouldShow = b, !.panel = p]

\* Setting the panel of a state to another that is shown changes nothing else.
LEMMA PanelSet ==
    ASSUME NEW s, Core(s), NEW p \in Panels, Shown(p), p.exists => s.bound,
           NEW b \in BOOLEAN, NEW t, t = WithPanel(s, b, p)
    PROVE  Keeps(s, t) /\ t.panel = p /\ t.shouldShow = b
<1>1. s \in Inputs
  BY DEF Core
<1>2. t \in Inputs
  BY <1>1, Zenon DEF Inputs, WithPanel
<1>3. /\ SameServer(s, t) /\ SameText(s, t) /\ SameContext(s, t)
      /\ t.panel = p /\ t.shouldShow = b /\ t.told = s.told /\ t.grab = s.grab
  BY <1>1, Zenon DEF Inputs, WithPanel, SameServer, SameText, SameContext
<1> QED
  BY <1>2, <1>3 DEF Core, Keeps, SameContext

\* The fields of the panel that are not set stay, so one EXCEPT sets both.
LEMMA OnlyPanel ==
    ASSUME NEW s \in Inputs, NEW p, NEW b
    PROVE  /\ [s EXCEPT !.panel = p] = WithPanel(s, s.shouldShow, p)
           /\ [[s EXCEPT !.shouldShow = b] EXCEPT !.panel = p] = WithPanel(s, b, p)
           /\ [s EXCEPT !.shouldShow = b] = WithPanel(s, b, s.panel)
BY DEF Inputs, WithPanel

\* updateInputPanelState() keeps what is asked for.
LEMMA UpdatePanelStateKeeps ==
    ASSUME NEW s, Core(s), NEW t, t = UpdatePanelState(s)
    PROVE  /\ Keeps(s, t)
           /\ t.shouldShow = s.shouldShow /\ t.panel.exists = s.panel.exists
           /\ t.panel.should = s.panel.should
<1> DEFINE a == [s.panel EXCEPT !.allowed = TRUE]
           p == MaybeShow(a)
<1>1. s \in Inputs /\ s.panel \in Panels /\ s.shouldShow \in BOOLEAN
  BY DEF Core, Inputs
<1>2. CASE ~(s.panel.exists /\ touch)
  BY <1>2 DEF UpdatePanelState, Keeps, SameServer, SameText, SameContext
<1>3. CASE s.panel.exists /\ touch
  <2>1. a \in Panels /\ a.exists = s.panel.exists /\ a.should = s.panel.should
    BY <1>1 DEF Panels
  <2>2. t = [s EXCEPT !.panel = p]
    BY <1>3 DEF UpdatePanelState
  <2> HIDE DEF a
  <2>3. p \in Panels /\ Shown(p) /\ p.exists = s.panel.exists /\ p.should = s.panel.should
    BY <2>1, MaybeShowShows
  <2> HIDE DEF p
  <2>4. t = WithPanel(s, s.shouldShow, p)
    BY <1>1, <2>2, OnlyPanel
  <2>5. p.exists => s.bound
    BY <2>3 DEF Core
  <2>6. Keeps(s, t) /\ t.panel = p /\ t.shouldShow = s.shouldShow
    BY <1>1, <2>3, <2>4, <2>5, PanelSet
  <2> QED
    BY <2>3, <2>6
<1> QED
  BY <1>2, <1>3

LEMMA KeepsTransitive ==
    ASSUME NEW s, NEW t, NEW u, Keeps(s, t), Keeps(t, u)
    PROVE  Keeps(s, u)
BY Zenon DEF Keeps, SameServer, SameText, SameContext

\* Asked is about three fields only.
LEMMA AskedKept ==
    ASSUME NEW s, NEW t, Asked(s), t.shouldShow = s.shouldShow,
           t.panel.exists = s.panel.exists, t.panel.should = s.panel.should
    PROVE  Asked(t)
BY DEF Asked

\* show() asks for the panel.
LEMMA ShowKeeps ==
    ASSUME NEW s, Core(s), NEW t, t = Show(s)
    PROVE  Keeps(s, t) /\ Asked(t)
<1> DEFINE b == TRUE
           r == [s EXCEPT !.shouldShow = b]
           a == [s.panel EXCEPT !.should = TRUE]
           q == MaybeShow(a)
           u == WithPanel(s, b, q)
<1>1. s \in Inputs /\ s.panel \in Panels
  BY DEF Core, Inputs
<1>2. b \in BOOLEAN
  OBVIOUS
<1>3. b = TRUE
  OBVIOUS
<1>4. t = IF r.panel.exists
          THEN UpdatePanelState([r EXCEPT !.panel = MaybeShow([@ EXCEPT !.should = TRUE])])
          ELSE r
  BY DEF Show
<1> HIDE DEF b
<1>5. r = WithPanel(s, b, s.panel) /\ r.panel = s.panel
  BY <1>1, OnlyPanel DEF Inputs
<1>6. Shown(s.panel) /\ (s.panel.exists => s.bound)
  BY DEF Core
<1>7. CASE ~s.panel.exists
  <2>1. t = WithPanel(s, b, s.panel)
    BY <1>5, <1>7, <1>4
  <2>2. Keeps(s, t) /\ t.panel = s.panel
    BY <1>1, <1>6, <1>2, <2>1, PanelSet
  <2> QED
    BY <1>7, <2>2 DEF Asked
<1>8. CASE s.panel.exists
  <2>1. [r EXCEPT !.panel = q] = u
    BY <1>1, OnlyPanel
  <2>2. t = UpdatePanelState([r EXCEPT !.panel = q])
    BY <1>5, <1>8, <1>4
  <2>3. a \in Panels /\ a.exists = s.panel.exists /\ a.should
    BY <1>1 DEF Panels
  <2> HIDE DEF r, a
  <2>4. q \in Panels /\ Shown(q) /\ q.exists = s.panel.exists /\ q.should = a.should
    BY <2>3, MaybeShowShows
  <2> HIDE DEF q
  <2>5. q.exists => s.bound
    BY <1>6, <2>4
  <2>6. Keeps(s, u) /\ u.panel = q /\ u.shouldShow = b
    BY <1>2, <2>4, <2>5, PanelSet
  <2> HIDE DEF u
  <2>7. t = UpdatePanelState(u)
    BY <2>1, <2>2
  <2>8. Core(u)
    BY <2>6 DEF Keeps
  <2>9. Keeps(u, t) /\ t.panel.should = u.panel.should
    BY <2>7, <2>8, UpdatePanelStateKeeps
  <2> QED
    BY <2>3, <2>4, <2>6, <2>9, KeepsTransitive DEF Asked
<1> QED
  BY <1>7, <1>8

\* hide() asks for nothing.
LEMMA HideKeeps ==
    ASSUME NEW s, Core(s), NEW t, t = Hide(s)
    PROVE  Keeps(s, t) /\ Asked(t)
<1> DEFINE b == FALSE
           r == [s EXCEPT !.shouldShow = b]
           q == [s.panel EXCEPT !.should = FALSE,
                   !.hidden = @ \/ (s.panel.ready /\ s.panel.mode # "overlay")]
           u == WithPanel(s, b, q)
<1>1. s \in Inputs /\ s.panel \in Panels
  BY DEF Core, Inputs
<1>2. b \in BOOLEAN
  OBVIOUS
<1>3. b = FALSE
  OBVIOUS
<1>4. t = IF r.panel.exists THEN UpdatePanelState([r EXCEPT !.panel.should = FALSE,
            !.panel.hidden = @ \/ (r.panel.ready /\ r.panel.mode # "overlay")]) ELSE r
  BY DEF Hide
<1> HIDE DEF b
<1>5. r = WithPanel(s, b, s.panel) /\ r.panel = s.panel
  BY <1>1, OnlyPanel DEF Inputs
<1>6. Shown(s.panel) /\ (s.panel.exists => s.bound)
  BY DEF Core
<1>7. CASE ~s.panel.exists
  <2>1. t = WithPanel(s, b, s.panel)
    BY <1>5, <1>7, <1>4
  <2>2. Keeps(s, t) /\ t.panel = s.panel
    BY <1>1, <1>6, <1>2, <2>1, PanelSet
  <2> QED
    BY <1>3, <1>7, <2>2 DEF Asked
<1>8. CASE s.panel.exists
  <2>1. [r EXCEPT !.panel = q] = u
    <3>1. \A x : [r EXCEPT !.panel = x] = WithPanel(s, b, x)
      BY <1>1, OnlyPanel
    <3> QED
      BY <3>1, Zenon
  <2>2. t = UpdatePanelState([r EXCEPT !.panel = q])
    <3>1. t = UpdatePanelState([r EXCEPT !.panel.should = FALSE,
                !.panel.hidden = @ \/ (r.panel.ready /\ r.panel.mode # "overlay")])
      BY <1>5, <1>8, <1>4
    <3>2. r \in Inputs
      BY <1>1, <1>2 DEF Inputs
    <3>3. [r EXCEPT !.panel.should = FALSE,
              !.panel.hidden = @ \/ (r.panel.ready /\ r.panel.mode # "overlay")]
          = [r EXCEPT !.panel = q]
      BY <1>1, <1>5, <3>2 DEF Inputs, Panels
    <3> QED
      BY <3>1, <3>3
  <2> HIDE DEF r
  <2>3. q \in Panels /\ Shown(q) /\ q.exists = s.panel.exists
    BY <1>1 DEF Panels, Shown
  <2> HIDE DEF q
  <2>4. q.exists => s.bound
    BY <1>6, <2>3
  <2>5. Keeps(s, u) /\ u.panel = q /\ u.shouldShow = b
    BY <1>2, <2>3, <2>4, PanelSet
  <2> HIDE DEF u
  <2>6. t = UpdatePanelState(u)
    BY <2>1, <2>2
  <2>7. Core(u)
    BY <2>5 DEF Keeps
  <2>8. Keeps(u, t) /\ t.shouldShow = u.shouldShow
    BY <2>6, <2>7, UpdatePanelStateKeeps
  <2> QED
    BY <1>3, <2>5, <2>8, KeepsTransitive DEF Asked
<1> QED
  BY <1>7, <1>8

\* setPanel() asks again for what was asked for before the panel was there.
LEMMA SetPanelKeeps ==
    ASSUME NEW s, Core(s), s.bound, NEW t, t = SetPanel(s)
    PROVE  Keeps(s, t) /\ Asked(t)
<1> DEFINE u == WithPanel(s, s.shouldShow, NewPanel)
           v == UpdatePanelState(u)
<1>1. s \in Inputs /\ s.shouldShow \in BOOLEAN
  BY DEF Core, Inputs
<1>2. [s EXCEPT !.panel = NewPanel] = u
  BY <1>1, OnlyPanel
<1>3. t = IF v.shouldShow THEN Show(v) ELSE v
  BY <1>2, Zenon DEF SetPanel
<1>4. Keeps(s, u)
  BY <1>1, NewPanels, PanelSet
<1> HIDE DEF u
<1>5. Core(u)
  BY <1>4 DEF Keeps
<1>6. Keeps(u, v)
  BY <1>5, UpdatePanelStateKeeps
<1> HIDE DEF v
<1>7. Keeps(s, v) /\ Core(v)
  BY <1>4, <1>6, KeepsTransitive DEF Keeps
<1>8. CASE v.shouldShow
  BY <1>3, <1>7, <1>8, ShowKeeps, KeepsTransitive
<1>9. CASE ~v.shouldShow
  BY <1>3, <1>7, <1>9 DEF Asked
<1> QED
  BY <1>8, <1>9

-----------------------------------------------------------------------------
(* The context.                                                            *)

\* What the functions keep that change the context too.
Holds(s, t) == Core(t) /\ SameServer(s, t) /\ SameText(s, t) /\ (Asked(s) => Asked(t))

LEMMA HoldsTransitive ==
    ASSUME NEW s, NEW t, NEW u, Holds(s, t), Holds(t, u)
    PROVE  Holds(s, u)
BY Zenon DEF Holds, SameServer, SameText

\* The new context is told to whoever is bound, and takes its grab with it.
LEMMA ContextSet ==
    ASSUME NEW s, Core(s)
    PROVE  /\ Holds(s, Activate(s)) /\ Activate(s).context /\ Activate(s).missed = s.missed
           /\ Holds(s, Deactivate(s)) /\ ~Deactivate(s).context
           /\ Deactivate(s).missed = s.missed
<1>1. s \in Inputs
  BY DEF Core
<1> DEFINE t == Activate(s)
           u == Deactivate(s)
<1>2. t \in Inputs /\ u \in Inputs
  BY <1>1 DEF Inputs, Activate, Deactivate
<1>3. /\ SameServer(s, t) /\ SameText(s, t) /\ t.panel = s.panel /\ t.shouldShow = s.shouldShow
      /\ t.missed = s.missed /\ t.bound = s.bound /\ t.told = s.bound /\ t.grab = s.grab
  BY <1>1, Zenon DEF Inputs, Activate, SameServer, SameText
<1>4. t.context /\ ~u.context /\ ~u.told /\ u.grab = "none"
  BY <1>1 DEF Inputs, Activate, Deactivate
<1>5. /\ SameServer(s, u) /\ SameText(s, u) /\ u.panel = s.panel /\ u.shouldShow = s.shouldShow
      /\ u.missed = s.missed /\ u.bound = s.bound
  BY <1>1, Zenon DEF Inputs, Deactivate, SameServer, SameText
<1>6. t.bound \in BOOLEAN /\ s.bound \in BOOLEAN /\ t.told \in BOOLEAN /\ u.told \in BOOLEAN
  BY <1>1, <1>2 DEF Inputs
<1> HIDE DEF t, u
<1>7. Core(t) /\ (Asked(s) => Asked(t))
  BY <1>2, <1>3, <1>4, <1>6 DEF Core, Asked
<1>8. Core(u) /\ (Asked(s) => Asked(u))
  BY <1>2, <1>4, <1>5, <1>6 DEF Core, Asked
<1>9. Holds(s, t) /\ Holds(s, u)
  BY <1>3, <1>5, <1>7, <1>8 DEF Holds
<1> QED
  BY <1>3, <1>4, <1>5, <1>9 DEF t, u

\* setActive(): there is a context afterwards if one was there or may be created.
LEMMA SetActiveKeeps ==
    ASSUME NEW s, Core(s), NEW active \in BOOLEAN, NEW t, t = SetActive(s, active)
    PROVE  /\ Holds(s, t) /\ t.missed = s.missed
           /\ t.context <=> active /\ (s.context \/ s.enabled)
<1> DEFINE v == IF s.context THEN Deactivate(s) ELSE s
<1>1. CASE active
  BY <1>1, ContextSet DEF SetActive, Holds, SameServer, SameText
<1>2. CASE ~active
  <2>1. Holds(s, v) /\ v.missed = s.missed /\ ~v.context
    <3>1. CASE s.context
      BY <3>1, ContextSet
    <3>2. CASE ~s.context
      BY <3>2 DEF Holds, SameServer, SameText
    <3> QED
      BY <3>1, <3>2
  <2>2. t = UpdatePanelState(v)
    BY <1>2 DEF SetActive
  <2> HIDE DEF v
  <2>3. Core(v)
    BY <2>1 DEF Holds
  <2>4. /\ Keeps(v, t) /\ t.shouldShow = v.shouldShow /\ t.panel.exists = v.panel.exists
        /\ t.panel.should = v.panel.should
    BY <2>2, <2>3, UpdatePanelStateKeeps
  <2>5. Holds(v, t)
    BY <2>4, AskedKept DEF Keeps, Holds
  <2> QED
    BY <1>2, <2>1, <2>4, <2>5, HoldsTransitive DEF Keeps, SameContext
<1> QED
  BY <1>1, <1>2

\* missed is about nothing else.
LEMMA MissedSet ==
    ASSUME NEW s, Core(s), NEW b \in BOOLEAN, NEW t, t = [s EXCEPT !.missed = b]
    PROVE  Holds(s, t) /\ t.missed = b /\ t.context = s.context
<1>1. s \in Inputs
  BY DEF Core
<1>2. t \in Inputs
  BY <1>1, Zenon DEF Inputs
<1>3. /\ SameServer(s, t) /\ SameText(s, t) /\ t.panel = s.panel /\ t.shouldShow = s.shouldShow
      /\ t.bound = s.bound /\ t.told = s.told /\ t.grab = s.grab /\ t.context = s.context
      /\ t.missed = b
  BY <1>1, Zenon DEF Inputs, SameServer, SameText
<1> QED
  BY <1>2, <1>3 DEF Holds, Core, Asked

\* refreshActive() makes the context follow the text inputs.
LEMMA RefreshActiveFollows ==
    ASSUME NEW s, Core(s), TextEnabled(s) => s.focus # NoSurface, s.enabled \/ Follows(s),
           NEW t, t = RefreshActive(s)
    PROVE  Holds(s, t) /\ Follows(t)
<1> DEFINE active == s.focus # NoSurface /\ TextEnabled(s)
           u == SetActive(s, active)
           b == u.missed /\ ~s.enabled
<1>1. t = [u EXCEPT !.missed = b]
  BY Zenon DEF RefreshActive
<1>2. active \in BOOLEAN /\ b \in BOOLEAN
  OBVIOUS
<1>3. b <=> (u.missed /\ ~s.enabled)
  OBVIOUS
<1>4. active <=> TextEnabled(s)
  OBVIOUS
<1> HIDE DEF active, b
<1>5. Holds(s, u) /\ u.missed = s.missed /\ (u.context <=> active /\ (s.context \/ s.enabled))
  BY <1>2, SetActiveKeeps
<1> HIDE DEF u
<1>6. Core(u)
  BY <1>5 DEF Holds
<1>7. Holds(u, t) /\ t.missed = b /\ t.context = u.context
  BY <1>1, <1>2, <1>6, MissedSet
<1>8. Holds(s, t)
  BY <1>5, <1>7, HoldsTransitive
<1>9. TextEnabled(t) <=> TextEnabled(s)
  BY <1>8 DEF Holds, SameText, TextEnabled
<1>10. Follows(t)
  BY <1>3, <1>4, <1>5, <1>7, <1>9 DEF Follows
<1> QED
  BY <1>8, <1>10

\* A text input was enabled or disabled.
LEMMA EnabledChangedFollows ==
    ASSUME NEW s, Core(s), TextEnabled(s) => s.focus # NoSurface, NEW surface,
           NEW t, t = EnabledChanged(s, surface)
    PROVE  Holds(s, t) /\ Follows(t)
<1> DEFINE u == RefreshActive(s)
<1>1. CASE ~s.enabled
  <2>1. t = [s EXCEPT !.missed = TRUE]
    BY <1>1, Zenon DEF EnabledChanged
  <2> QED
    BY <2>1, MissedSet DEF Follows
<1>2. CASE s.enabled
  <2>1. Holds(s, u) /\ Follows(u)
    BY <1>2, RefreshActiveFollows
  <2>2. t = u \/ t = Show(u)
    BY <1>2 DEF EnabledChanged
  <2> HIDE DEF u
  <2>3. CASE t = u
    BY <2>1, <2>3
  <2>4. CASE t = Show(u)
    <3>1. Keeps(u, t) /\ Asked(t)
      BY <2>1, <2>4, ShowKeeps DEF Holds
    <3>2. Holds(u, t) /\ Follows(t)
      BY <2>1, <3>1 DEF Keeps, Holds, Follows, SameContext, SameText, TextEnabled
    <3> QED
      BY <2>1, <3>2, HoldsTransitive
  <2> QED
    BY <2>2, <2>3, <2>4
<1> QED
  BY <1>1, <1>2

WithFocus(s, f, e) == [s EXCEPT !.focus = f, !.entered = e]

\* Changing what the seat and the text inputs know touches none of the parts.
LEMMA FocusSet ==
    ASSUME NEW s, Core(s), NEW f \in OrNone, NEW e \in OrNone,
           NEW t, t = WithFocus(s, f, e)
    PROVE  /\ Core(t) /\ SameServer(s, t) /\ SameContext(s, t) /\ (Asked(s) => Asked(t))
           /\ t.focus = f /\ t.entered = e /\ t.text = s.text
<1>1. s \in Inputs
  BY DEF Core
<1>2. t \in Inputs
  BY <1>1, Zenon DEF Inputs, WithFocus
<1>3. /\ SameServer(s, t) /\ t.panel = s.panel /\ t.shouldShow = s.shouldShow
      /\ t.told = s.told /\ t.grab = s.grab /\ SameContext(s, t)
      /\ t.focus = f /\ t.entered = e /\ t.text = s.text
  BY <1>1, Zenon DEF Inputs, WithFocus, SameServer, SameContext
<1> QED
  BY <1>2, <1>3 DEF Core, Asked, SameContext

\* The text inputs leave: nothing is enabled, and there is no context unless missed.
LEMMA LeaveFollows ==
    ASSUME NEW s, Core(s), Asked(s), Follows(s), NEW t, t = Leave(s)
    PROVE  /\ Core(t) /\ SameServer(s, t) /\ Asked(t) /\ Follows(t)
           /\ t.entered = NoSurface /\ t.text = s.text
<1> DEFINE u == [s EXCEPT !.entered = NoSurface]
<1>1. t = IF TextEnabled(s) THEN EnabledChanged(u, s.entered) ELSE u
  BY Zenon DEF Leave
<1>2. s \in Inputs /\ s.focus \in OrNone /\ NoSurface \in OrNone
  BY DEF Core, Inputs, OrNone
<1>3. u = WithFocus(s, s.focus, NoSurface)
  BY <1>2 DEF Inputs, WithFocus
<1> HIDE DEF u
<1>4. /\ Core(u) /\ SameServer(s, u) /\ SameContext(s, u) /\ Asked(u)
      /\ u.entered = NoSurface /\ u.text = s.text
  BY <1>2, <1>3, FocusSet
<1>5. ~TextEnabled(u)
  BY <1>4 DEF TextEnabled
<1>6. CASE TextEnabled(s)
  <2>1. Holds(u, t) /\ Follows(t)
    BY <1>1, <1>4, <1>5, <1>6, EnabledChangedFollows
  <2> QED
    BY <1>4, <2>1 DEF Holds, SameServer, SameText
<1>7. CASE ~TextEnabled(s)
  BY <1>1, <1>4, <1>5, <1>7 DEF Follows, SameContext
<1> QED
  BY <1>6, <1>7

\* The text inputs enter the new surface: a context for an enabled one.
LEMMA EnterFollows ==
    ASSUME NEW s, Core(s), Asked(s), Follows(s), s.entered = NoSurface,
           NEW surface \in Surfaces, NEW t, t = Enter(s, surface)
    PROVE  /\ Core(t) /\ SameServer(s, t) /\ Asked(t) /\ Follows(t)
           /\ t.entered = t.focus
<1> DEFINE u == [s EXCEPT !.focus = surface, !.entered = surface]
<1>1. t = IF TextEnabled(u) THEN EnabledChanged(u, surface) ELSE u
  BY Zenon DEF Enter
<1>2. surface \in OrNone /\ surface # NoSurface
  BY SurfacesAssumption DEF OrNone
<1>3. u = WithFocus(s, surface, surface)
  BY DEF WithFocus
<1> HIDE DEF u
<1>4. /\ Core(u) /\ SameServer(s, u) /\ SameContext(s, u) /\ Asked(u)
      /\ u.focus = surface /\ u.entered = surface
  BY <1>2, <1>3, FocusSet
<1>5. CASE TextEnabled(u)
  <2>1. Holds(u, t) /\ Follows(t)
    BY <1>1, <1>2, <1>4, <1>5, EnabledChangedFollows
  <2> QED
    BY <1>4, <2>1 DEF Holds, SameServer, SameText
<1>6. CASE ~TextEnabled(u)
  BY <1>1, <1>4, <1>6 DEF Follows, SameContext, TextEnabled
<1> QED
  BY <1>5, <1>6

\* The tracked window changes and the panel is asked for no more.
LEMMA SetTrackedWindowKeeps ==
    ASSUME NEW s, Core(s), NEW t, t = SetTrackedWindow(s)
    PROVE  Keeps(s, t) /\ Asked(t)
<1> DEFINE b == FALSE
           u == WithPanel(s, b, s.panel)
<1>1. s \in Inputs /\ s.panel \in Panels
  BY DEF Core, Inputs
<1>2. b \in BOOLEAN
  OBVIOUS
<1>3. b = FALSE
  OBVIOUS
<1>4. [s EXCEPT !.shouldShow = b] = u
  BY <1>1, OnlyPanel
<1>5. t = UpdatePanelState([s EXCEPT !.shouldShow = b])
  BY Zenon DEF SetTrackedWindow
<1>6. Shown(s.panel) /\ (s.panel.exists => s.bound)
  BY DEF Core
<1> HIDE DEF b
<1>7. Keeps(s, u) /\ u.shouldShow = b
  BY <1>1, <1>2, <1>6, PanelSet
<1>8. t = UpdatePanelState(u)
  BY <1>4, <1>5
<1> HIDE DEF u
<1>9. Keeps(u, t) /\ t.shouldShow = u.shouldShow
  BY <1>7, <1>8, UpdatePanelStateKeeps DEF Keeps
<1> QED
  BY <1>3, <1>7, <1>9, KeepsTransitive DEF Asked

-----------------------------------------------------------------------------
(* The process.                                                            *)

\* What starting, stopping and losing the process keeps.
SameApart(s, t) ==
    /\ t.enabled = s.enabled /\ t.command = s.command /\ SameText(s, t)
    /\ t.context = s.context /\ t.missed = s.missed

\* What the process created goes with its connection.
LEMMA DisconnectKeeps ==
    ASSUME NEW s, Core(s), NEW t, t = Disconnect(s)
    PROVE  Core(t) /\ Asked(t) /\ SameApart(s, t) /\ t.process = s.process /\ t.runs = s.runs
<1> DEFINE g == IF s.grab = "live" THEN "dead" ELSE s.grab
           no == FALSE
<1>1. s \in Inputs /\ s.grab \in {"none", "live", "dead"}
  BY DEF Core, Inputs
<1>2. g \in {"none", "live", "dead"} /\ g # "live"
  BY <1>1
<1>3. t = [s EXCEPT !.bound = no, !.told = no, !.panel = NoPanel, !.grab = g]
  BY Zenon DEF Disconnect
<1>4. no \in BOOLEAN
  OBVIOUS
<1>5. ~no
  OBVIOUS
<1> HIDE DEF g, no
<1>6. t \in Inputs
  BY <1>1, <1>2, <1>3, <1>4, NewPanels, Zenon DEF Inputs
<1>7. /\ SameApart(s, t) /\ t.process = s.process /\ t.runs = s.runs
      /\ t.bound = no /\ t.told = no /\ t.panel = NoPanel /\ t.grab = g
  BY <1>1, <1>3, Zenon DEF Inputs, SameApart, SameText
<1> QED
  BY <1>2, <1>5, <1>6, <1>7, NewPanels DEF Core, Asked

\* The process and its command are about nothing else.
WithProcess(s, p, c) == [s EXCEPT !.process = p, !.runs = c]

LEMMA ProcessSet ==
    ASSUME NEW s, Core(s), NEW p \in {"none", "running", "dead"},
           NEW c \in Commands \cup {NoCommand}, NEW t, t = WithProcess(s, p, c)
    PROVE  /\ Core(t) /\ SameApart(s, t) /\ (Asked(s) => Asked(t))
           /\ t.process = p /\ t.runs = c
<1>1. s \in Inputs
  BY DEF Core
<1>2. t \in Inputs
  BY <1>1, Zenon DEF Inputs, WithProcess
<1>3. /\ SameApart(s, t) /\ t.panel = s.panel /\ t.shouldShow = s.shouldShow
      /\ t.told = s.told /\ t.bound = s.bound /\ t.grab = s.grab
      /\ t.process = p /\ t.runs = c
  BY <1>1, Zenon DEF Inputs, WithProcess, SameApart, SameText
<1> QED
  BY <1>2, <1>3 DEF Core, Asked, SameApart

\* After stopInputMethod() there is no process.
LEMMA StopInputMethodStops ==
    ASSUME NEW s, Core(s), Asked(s), NEW t, t = StopInputMethod(s)
    PROVE  Core(t) /\ Asked(t) /\ SameApart(s, t) /\ t.process = "none"
<1> DEFINE u == Disconnect(s)
<1>1. CASE s.process = "none"
  BY <1>1 DEF StopInputMethod, SameApart, SameText
<1>2. CASE s.process # "none"
  <2>1. t = WithProcess(u, "none", NoCommand)
    BY <1>2, Zenon DEF StopInputMethod, WithProcess
  <2>2. Core(u) /\ Asked(u) /\ SameApart(s, u)
    BY DisconnectKeeps
  <2> HIDE DEF u
  <2>3. Core(t) /\ Asked(t) /\ SameApart(u, t) /\ t.process = "none"
    BY <2>1, <2>2, ProcessSet
  <2> QED
    BY <2>2, <2>3 DEF SameApart, SameText
<1> QED
  BY <1>1, <1>2

\* After startInputMethod() it is one of the configured command, or none.
LEMMA StartInputMethodStarts ==
    ASSUME NEW s, Core(s), Asked(s), s.enabled, NEW t \in StartInputMethod(s)
    PROVE  Core(t) /\ Asked(t) /\ SameApart(s, t) /\ Server(t)
<1> DEFINE u == StopInputMethod(s)
<1>1. Core(u) /\ Asked(u) /\ SameApart(s, u) /\ u.process = "none"
  BY StopInputMethodStops
<1>2. \/ t = u
      \/ u.command # NoCommand /\ t = WithProcess(u, "running", u.command)
  BY Zenon DEF StartInputMethod, WithProcess
<1> HIDE DEF u
<1>3. CASE t = u
  BY <1>1, <1>3 DEF Server
<1>4. CASE u.command # NoCommand /\ t = WithProcess(u, "running", u.command)
  <2>1. u.command \in Commands \cup {NoCommand}
    BY <1>1 DEF Core, Inputs
  <2>2. /\ Core(t) /\ SameApart(u, t) /\ Asked(t)
        /\ t.process = "running" /\ t.runs = u.command
    BY <1>1, <1>4, <2>1, ProcessSet
  <2> QED
    BY <1>1, <1>4, <2>2 DEF SameApart, SameText, Server
<1> QED
  BY <1>2, <1>3, <1>4

-----------------------------------------------------------------------------
(* The steps.                                                              *)

LEMMA KeepsSound ==
    ASSUME NEW s, NEW t, Sound(s), Keeps(s, t), Asked(t)
    PROVE  Sound(t)
BY DEF Sound, Keeps, SameServer, SameText, SameContext, Server, Follows, TextEnabled

LEMMA ApartSound ==
    ASSUME NEW s, NEW t, Follows(s), s.entered = s.focus,
           Core(t), Asked(t), SameApart(s, t), Server(t)
    PROVE  Sound(t)
BY DEF Sound, SameApart, SameText, Follows, TextEnabled

LEMMA InitSound == Init => Sound(m)
<1> SUFFICES ASSUME Init PROVE Sound(m)
  OBVIOUS
<1>1. m \in Inputs
  <2>1. 0 \in 0 .. CrashLimit
    BY LimitAssumption
  <2> QED
    BY <2>1, NewPanels DEF Init, Inputs, OrNone
<1>2. /\ m.process = "none" /\ m.told = FALSE /\ m.bound = FALSE /\ m.panel = NoPanel
      /\ m.grab = "none" /\ m.context = FALSE /\ m.entered = NoSurface /\ m.focus = NoSurface
  BY DEF Init
<1> QED
  BY <1>1, <1>2, NewPanels DEF Sound, Core, Asked, Server, Follows, TextEnabled

\* The switch and the configured command are about nothing else.
WithSwitch(s, e, c) == [s EXCEPT !.enabled = e, !.command = c]

LEMMA SwitchSet ==
    ASSUME NEW s, Core(s), Asked(s), NEW e \in BOOLEAN, NEW c \in Commands \cup {NoCommand},
           NEW t, t = WithSwitch(s, e, c)
    PROVE  /\ Core(t) /\ Asked(t) /\ SameText(s, t) /\ SameContext(s, t)
           /\ t.enabled = e /\ t.command = c /\ t.process = s.process
<1>1. s \in Inputs
  BY DEF Core
<1>2. t \in Inputs
  BY <1>1, Zenon DEF Inputs, WithSwitch
<1>3. /\ SameText(s, t) /\ t.panel = s.panel /\ t.shouldShow = s.shouldShow
      /\ t.told = s.told /\ t.grab = s.grab /\ SameContext(s, t)
      /\ t.enabled = e /\ t.command = c /\ t.process = s.process
  BY <1>1, Zenon DEF Inputs, WithSwitch, SameText, SameContext
<1> QED
  BY <1>2, <1>3 DEF Core, Asked, SameContext

\* The process is changed together with the command.
LEMMA SetInputMethodCommandSound ==
    ASSUME Sound(m), NEW c \in Commands \cup {NoCommand}, SetInputMethodCommand(c)
    PROVE  Sound(m)'
<1> DEFINE s == [m EXCEPT !.command = c]
<1>1. m \in Inputs /\ m.enabled \in BOOLEAN /\ Core(m) /\ Asked(m)
  BY DEF Sound, Core, Inputs
<1>2. m' \in IF s.enabled THEN StartInputMethod(s) ELSE {s}
  BY Zenon DEF SetInputMethodCommand
<1>3. s = WithSwitch(m, m.enabled, c)
  BY <1>1, Zenon DEF Inputs, WithSwitch
<1> HIDE DEF s
<1>4. /\ Core(s) /\ Asked(s) /\ SameText(m, s) /\ SameContext(m, s)
      /\ s.enabled = m.enabled /\ s.process = m.process
  BY <1>1, <1>3, SwitchSet
<1>5. Follows(s) /\ s.entered = s.focus
  BY <1>4 DEF Sound, Follows, SameContext, SameText, TextEnabled
<1>6. CASE s.enabled
  BY <1>2, <1>4, <1>5, <1>6, StartInputMethodStarts, ApartSound
<1>7. CASE ~s.enabled
  BY <1>2, <1>4, <1>5, <1>7 DEF Sound, Server
<1> QED
  BY <1>6, <1>7

LEMMA SetEnabledSound ==
    ASSUME Sound(m), SetEnabled
    PROVE  Sound(m)'
<1> DEFINE e == ~m.enabled
           s == [m EXCEPT !.enabled = e]
<1>1. m \in Inputs /\ m.command \in Commands \cup {NoCommand} /\ Core(m) /\ Asked(m)
  BY DEF Sound, Core, Inputs
<1>2. m' \in IF s.enabled THEN StartInputMethod(s) ELSE {StopInputMethod(Hide(s))}
  BY Zenon DEF SetEnabled
<1>3. s = WithSwitch(m, e, m.command)
  BY <1>1, Zenon DEF Inputs, WithSwitch
<1>4. e \in BOOLEAN
  OBVIOUS
<1> HIDE DEF s, e
<1>5. Core(s) /\ Asked(s) /\ SameText(m, s) /\ SameContext(m, s)
  BY <1>1, <1>3, <1>4, SwitchSet
<1>6. Follows(s) /\ s.entered = s.focus
  BY <1>5 DEF Sound, Follows, SameContext, SameText, TextEnabled
<1>7. CASE s.enabled
  BY <1>2, <1>5, <1>6, <1>7, StartInputMethodStarts, ApartSound
<1>8. CASE ~s.enabled
  <2> DEFINE h == Hide(s)
  <2>1. m' = StopInputMethod(h)
    BY <1>2, <1>8
  <2>2. Keeps(s, h) /\ Asked(h)
    BY <1>5, HideKeeps
  <2> HIDE DEF h
  <2>3. Core(h) /\ Follows(h) /\ h.entered = h.focus
    BY <1>6, <2>2 DEF Keeps, Follows, SameContext, SameText, TextEnabled
  <2>4. Core(m') /\ Asked(m') /\ SameApart(h, m') /\ Server(m')
    BY <2>1, <2>2, <2>3, StopInputMethodStops DEF Server
  <2> QED
    BY <2>3, <2>4, ApartSound
<1> QED
  BY <1>7, <1>8

\* A crash is counted, and the timer runs.
WithCount(s, n, b) == [s EXCEPT !.crashes = n, !.timer = b]

LEMMA CountSet ==
    ASSUME NEW s, Core(s), Asked(s), NEW n \in 0 .. CrashLimit, NEW b \in BOOLEAN,
           NEW t, t = WithCount(s, n, b)
    PROVE  Keeps(s, t) /\ Asked(t)
<1>1. s \in Inputs
  BY DEF Core
<1>2. t \in Inputs
  BY <1>1, Zenon DEF Inputs, WithCount
<1>3. /\ SameServer(s, t) /\ SameText(s, t) /\ t.panel = s.panel /\ t.shouldShow = s.shouldShow
      /\ t.told = s.told /\ t.grab = s.grab /\ SameContext(s, t)
  BY <1>1, Zenon DEF Inputs, WithCount, SameServer, SameText, SameContext
<1> QED
  BY <1>2, <1>3 DEF Core, Asked, Keeps, SameContext

LEMMA CrashSound ==
    ASSUME Sound(m), Crash
    PROVE  Sound(m)'
<1> DEFINE n == IF m.crashes < CrashLimit THEN m.crashes + 1 ELSE m.crashes
           b == TRUE
           s == [m EXCEPT !.crashes = n, !.timer = b]
<1>1. m \in Inputs /\ m.crashes \in 0 .. CrashLimit /\ Core(m) /\ Asked(m)
  BY DEF Sound, Core, Inputs
<1>2. m' \in IF s.crashes < CrashLimit THEN StartInputMethod(s) ELSE {StopInputMethod(s)}
  BY Zenon DEF Crash
<1>3. n \in 0 .. CrashLimit /\ b \in BOOLEAN
  BY <1>1, LimitAssumption
<1> HIDE DEF n, b
<1>4. Keeps(m, s) /\ Asked(s)
  BY <1>1, <1>3, CountSet DEF WithCount
<1> HIDE DEF s
<1>5. Sound(s)
  BY <1>4, KeepsSound
<1>6. s.enabled
  BY <1>4 DEF Crash, Sound, Server, Keeps, SameServer
<1>7. CASE m' \in StartInputMethod(s)
  BY <1>5, <1>6, <1>7, StartInputMethodStarts, ApartSound DEF Sound
<1>8. CASE m' = StopInputMethod(s)
  <2>1. Core(m') /\ Asked(m') /\ SameApart(s, m') /\ Server(m')
    BY <1>5, <1>8, StopInputMethodStops DEF Sound, Server
  <2> QED
    BY <1>5, <2>1, ApartSound DEF Sound
<1> QED
  BY <1>2, <1>7, <1>8

LEMMA ExitSound ==
    ASSUME Sound(m), Exit
    PROVE  Sound(m)'
<1> DEFINE d == Disconnect(m)
<1>1. Core(d) /\ Asked(d) /\ SameApart(m, d) /\ d.process = m.process /\ d.runs = m.runs
  BY DisconnectKeeps DEF Sound
<1>2. m' = [d EXCEPT !.process = "dead"]
  BY Zenon DEF Exit
<1> HIDE DEF d
<1>3. d.runs \in Commands \cup {NoCommand}
  BY <1>1 DEF Core, Inputs
<1>4. m' = WithProcess(d, "dead", d.runs)
  BY <1>1, <1>2, Zenon DEF WithProcess, Core, Inputs
<1>5. Core(m') /\ Asked(m') /\ SameApart(d, m') /\ m'.runs = d.runs
  BY <1>1, <1>3, <1>4, ProcessSet
<1>6. SameApart(m, m')
  BY <1>1, <1>5 DEF SameApart, SameText
<1>7. Server(m')
  BY <1>1, <1>5, <1>6 DEF Exit, Sound, Server, SameApart
<1> QED
  BY <1>5, <1>6, <1>7, ApartSound DEF Sound

LEMMA CrashTimerSound ==
    ASSUME Sound(m), CrashTimer
    PROVE  Sound(m)'
<1> DEFINE b == FALSE
<1>1. m' = WithCount(m, 0, b)
  BY DEF CrashTimer, Sound, Core, Inputs, WithCount
<1>2. b \in BOOLEAN /\ 0 \in 0 .. CrashLimit
  BY LimitAssumption
<1> HIDE DEF b
<1> QED
  BY <1>1, <1>2, CountSet, KeepsSound DEF Sound

\* One that binds is told of the context that is there.
LEMMA BindSound ==
    ASSUME Sound(m), Bind
    PROVE  Sound(m)'
<1> DEFINE b == TRUE
<1>1. m \in Inputs /\ m.context \in BOOLEAN
  BY DEF Sound, Core, Inputs
<1>2. m' = [m EXCEPT !.bound = b, !.told = m.context]
  BY DEF Bind
<1>3. b \in BOOLEAN
  OBVIOUS
<1>4. b
  OBVIOUS
<1> HIDE DEF b
<1>5. m' \in Inputs
  BY <1>1, <1>2, <1>3, Zenon DEF Inputs
<1>6. /\ SameServer(m, m') /\ SameText(m, m') /\ m'.context = m.context /\ m'.missed = m.missed
      /\ m'.panel = m.panel /\ m'.shouldShow = m.shouldShow /\ m'.grab = m.grab
      /\ m'.bound = b /\ m'.told = m.context
  BY <1>1, <1>2, Zenon DEF Inputs, SameServer, SameText
<1>7. Core(m') /\ Asked(m')
  BY <1>4, <1>5, <1>6 DEF Sound, Core, Asked
<1> QED
  BY <1>6, <1>7 DEF Sound, SameServer, SameText, Server, Follows, TextEnabled

LEMMA GrabKeyboardSound ==
    ASSUME Sound(m), GrabKeyboard
    PROVE  Sound(m)'
<1>1. m \in Inputs /\ m.bound
  BY DEF Sound, Core, Inputs, GrabKeyboard
<1>2. m' = [m EXCEPT !.grab = "live"]
  BY DEF GrabKeyboard
<1>3. m' \in Inputs
  BY <1>1, <1>2 DEF Inputs
<1>4. /\ SameServer(m, m') /\ SameText(m, m') /\ SameContext(m, m')
      /\ m'.panel = m.panel /\ m'.shouldShow = m.shouldShow /\ m'.told = m.told
  BY <1>1, <1>2, Zenon DEF Inputs, SameServer, SameText, SameContext
<1>5. Keeps(m, m') /\ Asked(m')
  BY <1>1, <1>3, <1>4 DEF Sound, Core, Asked, Keeps, SameContext
<1> QED
  BY <1>5, KeepsSound

LEMMA CreatePanelSound ==
    ASSUME Sound(m), CreatePanel
    PROVE  Sound(m)'
<1>1. Core(m) /\ m.bound /\ m' = SetPanel(m)
  BY DEF CreatePanel, Sound
<1>2. Keeps(m, m') /\ Asked(m')
  BY <1>1, SetPanelKeeps
<1> QED
  BY <1>2, KeepsSound

\* A panel whose mode or content changes is shown when that was missing.
LEMMA PanelChanged ==
    ASSUME Sound(m), NEW p \in Panels, Shown(p), p.exists => m.panel.exists,
           p.should = m.panel.should, m' = [m EXCEPT !.panel = p]
    PROVE  Sound(m)'
<1>1. m \in Inputs /\ m.shouldShow \in BOOLEAN /\ Core(m) /\ Asked(m)
  BY DEF Sound, Core, Inputs
<1>2. m' = WithPanel(m, m.shouldShow, p)
  BY <1>1, OnlyPanel
<1>3. p.exists => m.bound
  BY <1>1 DEF Core
<1>4. Keeps(m, m') /\ m'.panel = p /\ m'.shouldShow = m.shouldShow
  BY <1>1, <1>2, <1>3, PanelSet
<1>5. Asked(m')
  BY <1>1, <1>4 DEF Asked
<1> QED
  BY <1>4, <1>5, KeepsSound

LEMMA SetPanelModeSound ==
    ASSUME Sound(m), NEW mode \in {"keyboard", "overlay"}, SetPanelMode(mode)
    PROVE  Sound(m)'
<1> DEFINE a == [m.panel EXCEPT !.mode = mode]
           p == MaybeShow(a)
<1>1. m.panel \in Panels
  BY DEF Sound, Core, Inputs
<1>2. m' = [m EXCEPT !.panel = p]
  BY DEF SetPanelMode
<1>3. a \in Panels /\ a.exists = m.panel.exists /\ a.should = m.panel.should
  BY <1>1 DEF Panels
<1> HIDE DEF a
<1>4. p \in Panels /\ Shown(p) /\ p.exists = a.exists /\ p.should = a.should
  BY <1>3, MaybeShowShows
<1> HIDE DEF p
<1> QED
  BY <1>2, <1>3, <1>4, PanelChanged

LEMMA MapPanelSound ==
    ASSUME Sound(m), MapPanel
    PROVE  Sound(m)'
<1> DEFINE a == [m.panel EXCEPT !.mapped = FALSE]
           b == [m.panel EXCEPT !.mapped = TRUE]
           q == MaybeShow(b)
           p == IF m.panel.mapped THEN a ELSE q
<1>1. m.panel \in Panels
  BY DEF Sound, Core, Inputs
<1>2. m' = [m EXCEPT !.panel = p]
  BY DEF MapPanel
<1>3. a \in Panels /\ a.exists = m.panel.exists /\ a.should = m.panel.should /\ ~a.mapped
  BY <1>1 DEF Panels
<1>4. b \in Panels /\ b.exists = m.panel.exists /\ b.should = m.panel.should
  BY <1>1 DEF Panels
<1>5. Shown(a)
  BY <1>3 DEF Shown
<1> HIDE DEF a, b
<1>6. q \in Panels /\ Shown(q) /\ q.exists = b.exists /\ q.should = b.should
  BY <1>4, MaybeShowShows
<1> HIDE DEF q
<1>7. p \in Panels /\ Shown(p) /\ p.exists = m.panel.exists /\ p.should = m.panel.should
  BY <1>3, <1>4, <1>5, <1>6
<1> HIDE DEF p
<1> QED
  BY <1>2, <1>7, PanelChanged

LEMMA DestroyPanelSound ==
    ASSUME Sound(m), DestroyPanel
    PROVE  Sound(m)'
<1>1. m \in Inputs /\ m.shouldShow \in BOOLEAN /\ Core(m)
  BY DEF Sound, Core, Inputs
<1>2. m' = [m EXCEPT !.panel = NoPanel]
  BY DEF DestroyPanel
<1>3. m' = WithPanel(m, m.shouldShow, NoPanel)
  BY <1>1, <1>2, OnlyPanel
<1>4. Keeps(m, m') /\ m'.panel = NoPanel
  BY <1>1, <1>3, NewPanels, PanelSet
<1>5. Asked(m')
  BY <1>4, NewPanels DEF Asked
<1> QED
  BY <1>4, <1>5, KeepsSound

LEMMA UpdateInputPanelStateSound ==
    ASSUME Sound(m), UpdateInputPanelState
    PROVE  Sound(m)'
<1>1. /\ Keeps(m, m') /\ m'.shouldShow = m.shouldShow /\ m'.panel.exists = m.panel.exists
      /\ m'.panel.should = m.panel.should
  BY UpdatePanelStateKeeps DEF UpdateInputPanelState, Sound
<1>2. Asked(m')
  BY <1>1, AskedKept DEF Sound
<1> QED
  BY <1>1, <1>2, KeepsSound

LEMMA RequestPanelSound ==
    ASSUME Sound(m), NEW b \in BOOLEAN, RequestPanel(b)
    PROVE  Sound(m)'
<1>1. m' = Show(m) \/ m' = Hide(m)
  BY DEF RequestPanel
<1> QED
  BY <1>1, ShowKeeps, HideKeeps, KeepsSound DEF Sound

\* The enabled text inputs and missed are about nothing else.
WithText(s, x, b) == [s EXCEPT !.text = x, !.missed = b]

LEMMA TextSet ==
    ASSUME NEW s, Sound(s), NEW x \in SUBSET Surfaces, NEW b \in BOOLEAN,
           NEW t, t = WithText(s, x, b)
    PROVE  /\ Core(t) /\ Asked(t) /\ Server(t) /\ SameServer(s, t)
           /\ t.focus = s.focus /\ t.entered = t.focus /\ t.text = x
           /\ t.context = s.context /\ t.missed = b
<1>1. s \in Inputs
  BY DEF Sound, Core
<1>2. t \in Inputs
  BY <1>1, Zenon DEF Inputs, WithText
<1>3. /\ SameServer(s, t) /\ t.panel = s.panel /\ t.shouldShow = s.shouldShow
      /\ t.bound = s.bound /\ t.told = s.told /\ t.grab = s.grab /\ t.context = s.context
      /\ t.focus = s.focus /\ t.entered = s.entered /\ t.text = x /\ t.missed = b
  BY <1>1, Zenon DEF Inputs, WithText, SameServer
<1> QED
  BY <1>2, <1>3 DEF Sound, Core, Asked, Server, SameServer

\* What is left to show when the parts hold and the context follows.
LEMMA HoldsSound ==
    ASSUME NEW s, NEW t, Asked(s), Server(s), s.entered = s.focus, Holds(s, t), Follows(t)
    PROVE  Sound(t)
BY DEF Sound, Holds, SameServer, SameText, Server

LEMMA CommitTextSound ==
    ASSUME Sound(m), NEW surface \in Surfaces, NEW enable \in BOOLEAN,
           CommitText(surface, enable)
    PROVE  Sound(m)'
<1> DEFINE x == IF enable THEN m.text \cup {surface} ELSE m.text \ {surface}
           s == [m EXCEPT !.text = x]
<1>1. m \in Inputs /\ m.text \in SUBSET Surfaces /\ m.missed \in BOOLEAN
  BY DEF Sound, Core, Inputs
<1>2. \/ m.entered = surface /\ m' = EnabledChanged(s, surface)
      \/ s.text = m.text /\ m' = Show(RefreshActive(s))
      \/ (m.entered # surface \/ s.text = m.text) /\ m' = s
  BY Zenon DEF CommitText
<1>3. x \in SUBSET Surfaces /\ \A e \in OrNone \ {surface} : e \in x <=> e \in m.text
  BY <1>1
<1>4. s = WithText(m, x, m.missed)
  BY <1>1, Zenon DEF Inputs, WithText
<1> HIDE DEF x, s
<1>5. /\ Core(s) /\ Asked(s) /\ Server(s) /\ s.focus = m.focus /\ s.entered = s.focus
      /\ s.text = x /\ s.context = m.context /\ s.missed = m.missed
  BY <1>1, <1>3, <1>4, TextSet
<1>6. TextEnabled(s) => s.focus # NoSurface
  BY <1>5 DEF TextEnabled
<1>7. m.entered \in OrNone /\ s.entered = m.entered
  BY <1>1, <1>5 DEF Inputs, Sound
<1>8. CASE m' = EnabledChanged(s, surface)
  <2>1. Holds(s, m') /\ Follows(m')
    BY <1>5, <1>6, <1>8, EnabledChangedFollows
  <2> QED
    BY <1>5, <2>1, HoldsSound
<1>9. s.text = m.text \/ m.entered # surface => Follows(s)
  BY <1>3, <1>5, <1>7 DEF Sound, Follows, TextEnabled
<1>10. CASE s.text = m.text /\ m' = Show(RefreshActive(s))
  <2> DEFINE r == RefreshActive(s)
  <2>1. Holds(s, r) /\ Follows(r)
    BY <1>5, <1>6, <1>9, <1>10, RefreshActiveFollows
  <2>2. m' = Show(r)
    BY <1>10
  <2> HIDE DEF r
  <2>3. Sound(r)
    BY <1>5, <2>1, HoldsSound
  <2>4. Keeps(r, m') /\ Asked(m')
    BY <2>2, <2>3, ShowKeeps DEF Sound
  <2> QED
    BY <2>3, <2>4, KeepsSound
<1>11. CASE (m.entered # surface \/ s.text = m.text) /\ m' = s
  BY <1>5, <1>9, <1>11 DEF Sound
<1> QED
  BY <1>2, <1>8, <1>10, <1>11

LEMMA DestroyTextSound ==
    ASSUME Sound(m), NEW surface \in Surfaces, DestroyText(surface)
    PROVE  Sound(m)'
<1> DEFINE x == m.text \ {surface}
           b == m.missed \/ m.entered = surface
<1>1. m \in Inputs /\ m.text \in SUBSET Surfaces /\ m.missed \in BOOLEAN
  BY DEF Sound, Core, Inputs
<1>2. m' = WithText(m, x, b)
  BY Zenon DEF DestroyText, WithText
<1>3. x \in SUBSET Surfaces /\ \A e \in OrNone \ {surface} : e \in x <=> e \in m.text
  BY <1>1
<1>4. b \in BOOLEAN
  BY <1>1
<1>5. b <=> (m.missed \/ m.entered = surface)
  OBVIOUS
<1>6. m.entered \in OrNone /\ m.entered = m.focus
  BY <1>1 DEF Inputs, Sound
<1> HIDE DEF x, b
<1>7. /\ Core(m') /\ Asked(m') /\ Server(m') /\ m'.focus = m.focus /\ m'.entered = m'.focus
      /\ m'.text = x /\ m'.context = m.context /\ m'.missed = b
  BY <1>2, <1>3, <1>4, TextSet
<1>8. Follows(m')
  BY <1>3, <1>5, <1>6, <1>7 DEF Sound, Follows, TextEnabled
<1> QED
  BY <1>7, <1>8 DEF Sound

\* The seat leaves the old surface, enters the new one, and another window is tracked.
LEMMA SetFocusedTextInputSurfaceSound ==
    ASSUME Sound(m), NEW surface \in OrNone, SetFocusedTextInputSurface(surface)
    PROVE  Sound(m)'
<1> DEFINE s == IF m.focus = NoSurface THEN m ELSE Leave(m)
           t == IF surface = NoSurface THEN [s EXCEPT !.focus = NoSurface]
                ELSE Enter(s, surface)
<1>1. m' = SetTrackedWindow(t)
  BY Zenon DEF SetFocusedTextInputSurface
<1>2. /\ Core(s) /\ SameServer(m, s) /\ Asked(s) /\ Follows(s) /\ s.entered = NoSurface
  <2>1. CASE m.focus = NoSurface
    BY <2>1 DEF Sound, SameServer
  <2>2. CASE m.focus # NoSurface
    BY <2>2, LeaveFollows DEF Sound
  <2> QED
    BY <2>1, <2>2
<1> HIDE DEF s
<1>3. Core(t) /\ SameServer(s, t) /\ Asked(t) /\ Follows(t) /\ t.entered = t.focus
  <2>1. CASE surface = NoSurface
    <3>1. t = WithFocus(s, NoSurface, NoSurface)
      BY <1>2, <2>1, Zenon DEF Core, Inputs, WithFocus
    <3>2. NoSurface \in OrNone
      BY DEF OrNone
    <3> HIDE DEF t
    <3>3. /\ Core(t) /\ SameServer(s, t) /\ SameContext(s, t) /\ Asked(t)
          /\ t.focus = NoSurface /\ t.entered = NoSurface
      BY <1>2, <3>1, <3>2, FocusSet
    <3> QED
      BY <1>2, <3>3 DEF Follows, SameContext, TextEnabled
  <2>2. CASE surface # NoSurface
    <3>1. surface \in Surfaces /\ t = Enter(s, surface)
      BY <2>2 DEF OrNone
    <3> HIDE DEF t
    <3> QED
      BY <1>2, <3>1, EnterFollows
  <2> QED
    BY <2>1, <2>2
<1> HIDE DEF t
<1>4. Sound(t)
  BY <1>2, <1>3 DEF Sound, Server, SameServer
<1>5. Keeps(t, m') /\ Asked(m')
  BY <1>1, <1>3, SetTrackedWindowKeeps
<1> QED
  BY <1>4, <1>5, KeepsSound

LEMMA DBusSetActiveSound ==
    ASSUME Sound(m), NEW active \in BOOLEAN, DBusSetActive(active)
    PROVE  Sound(m)'
<1> DEFINE u == SetActive(m, active)
           b == TRUE
<1>1. m' = [u EXCEPT !.missed = b]
  BY Zenon DEF DBusSetActive
<1>2. Holds(m, u)
  BY SetActiveKeeps DEF Sound
<1>3. b \in BOOLEAN
  OBVIOUS
<1>4. b
  OBVIOUS
<1> HIDE DEF u, b
<1>5. Core(u)
  BY <1>2 DEF Holds
<1>6. Holds(u, m') /\ m'.missed = b
  BY <1>1, <1>3, <1>5, MissedSet
<1>7. Holds(m, m')
  BY <1>2, <1>6, HoldsTransitive
<1>8. Follows(m')
  BY <1>4, <1>6 DEF Follows
<1> QED
  BY <1>7, <1>8, HoldsSound DEF Sound

LEMMA ForceActivateSound ==
    ASSUME Sound(m), ForceActivate
    PROVE  Sound(m)'
<1> DEFINE b == TRUE
           u == SetActive(m, b)
           v == Show(u)
<1>1. m' = [v EXCEPT !.missed = b]
  BY Zenon DEF ForceActivate
<1>2. b \in BOOLEAN
  OBVIOUS
<1>3. b
  OBVIOUS
<1> HIDE DEF b
<1>4. Holds(m, u)
  BY <1>2, SetActiveKeeps DEF Sound
<1> HIDE DEF u
<1>5. Core(u)
  BY <1>4 DEF Holds
<1>6. Holds(u, v) /\ Core(v)
  BY <1>5, ShowKeeps DEF Keeps, Holds
<1> HIDE DEF v
<1>7. Holds(v, m') /\ m'.missed = b
  BY <1>1, <1>2, <1>6, MissedSet
<1>8. Holds(m, m')
  BY <1>4, <1>6, <1>7, HoldsTransitive
<1>9. Follows(m')
  BY <1>3, <1>7 DEF Follows
<1> QED
  BY <1>8, <1>9, HoldsSound DEF Sound

-----------------------------------------------------------------------------
(* The theorems.                                                           *)

\* What the four properties say of the state holds through every step of the process,
\* the panel's client, the text inputs, the seat and D-Bus (src/inputmethod.cpp).
THEOREM InvariantHolds == Spec => []Sound(m)
<1>1. Sound(m) /\ [Next]_vars => Sound(m)'
  <2> SUFFICES ASSUME Sound(m), [Next]_vars PROVE Sound(m)'
    OBVIOUS
  <2>1. ASSUME NEW c \in Commands \cup {NoCommand}, SetInputMethodCommand(c) PROVE Sound(m)'
    BY <2>1, SetInputMethodCommandSound
  <2>2. CASE SetEnabled
    BY <2>2, SetEnabledSound
  <2>3. CASE Crash
    BY <2>3, CrashSound
  <2>4. CASE Exit
    BY <2>4, ExitSound
  <2>5. CASE CrashTimer
    BY <2>5, CrashTimerSound
  <2>6. CASE Bind
    BY <2>6, BindSound
  <2>7. CASE GrabKeyboard
    BY <2>7, GrabKeyboardSound
  <2>8. CASE CreatePanel
    BY <2>8, CreatePanelSound
  <2>9. CASE MapPanel
    BY <2>9, MapPanelSound
  <2>10. CASE DestroyPanel
    BY <2>10, DestroyPanelSound
  <2>11. CASE UpdateInputPanelState
    BY <2>11, UpdateInputPanelStateSound
  <2>12. ASSUME NEW mode \in {"keyboard", "overlay"}, SetPanelMode(mode) PROVE Sound(m)'
    BY <2>12, SetPanelModeSound
  <2>13. ASSUME NEW s \in Surfaces, NEW b \in BOOLEAN, CommitText(s, b) PROVE Sound(m)'
    BY <2>13, CommitTextSound
  <2>14. ASSUME NEW s \in Surfaces, DestroyText(s) PROVE Sound(m)'
    BY <2>14, DestroyTextSound
  <2>15. ASSUME NEW s \in OrNone, SetFocusedTextInputSurface(s) PROVE Sound(m)'
    BY <2>15, SetFocusedTextInputSurfaceSound
  <2>16. ASSUME NEW b \in BOOLEAN, RequestPanel(b) PROVE Sound(m)'
    BY <2>16, RequestPanelSound
  <2>17. ASSUME NEW b \in BOOLEAN, DBusSetActive(b) PROVE Sound(m)'
    BY <2>17, DBusSetActiveSound
  <2>18. CASE ForceActivate
    BY <2>18, ForceActivateSound
  <2>19. CASE LastInputHandler
    BY <2>19 DEF LastInputHandler
  <2>20. CASE UNCHANGED vars
    BY <2>20 DEF vars
  <2> QED
    BY <2>1, <2>2, <2>3, <2>4, <2>5, <2>6, <2>7, <2>8, <2>9, <2>10, <2>11, <2>12,
       <2>13, <2>14, <2>15, <2>16, <2>17, <2>18, <2>19, <2>20, Zenon DEF Next, OrNone
<1> QED
  BY InitSound, <1>1, PTL DEF Spec

\* The type invariant, with the text inputs entered where the seat has its focus.
THEOREM TypeCorrect == Spec => []TypeInv
<1>1. Init => touch \in BOOLEAN
  BY DEF Init
<1>2. touch \in BOOLEAN /\ [Next]_vars => (touch \in BOOLEAN)'
  BY DEF Next, vars, SetInputMethodCommand, SetEnabled, Crash, Exit, CrashTimer, Bind,
     GrabKeyboard, CreatePanel, MapPanel, DestroyPanel, UpdateInputPanelState,
     SetPanelMode, CommitText, DestroyText, SetFocusedTextInputSurface, RequestPanel,
     DBusSetActive, ForceActivate, LastInputHandler
<1>3. Sound(m) /\ touch \in BOOLEAN => TypeInv
  BY Zenon DEF Sound, Core, TypeInv, Inputs, Panels, OrNone
<1> QED
  BY <1>1, <1>2, <1>3, InvariantHolds, PTL DEF Spec

\* The process that exists is one of the configured command and only exists while the
\* input method is enabled (startInputMethod, stopInputMethod).
THEOREM ServerIsAlwaysCurrent == Spec => []ServerIsCurrent
<1>1. Sound(m) => ServerIsCurrent
  BY DEF Sound, Server, ServerIsCurrent
<1> QED
  BY <1>1, InvariantHolds, PTL

\* Whoever has bound the protocol knows whether there is a context, and one that is
\* gone has left neither panel nor grab (zwp_input_method_v1_bind_resource).
THEOREM ContextIsAlwaysKnown == Spec => []ContextIsKnown
<1>1. Sound(m) => ContextIsKnown
  BY DEF Sound, Core, ContextIsKnown
<1> QED
  BY <1>1, InvariantHolds, PTL

\* There is a context exactly when the focused surface has an enabled text input,
\* through every order of focus changes and requests (refreshActive, setActive).
THEOREM ActiveAlwaysFollowsText == Spec => []ActiveFollowsText
<1>1. Sound(m) => ActiveFollowsText
  BY DEF Sound, Follows, ActiveFollowsText
<1> QED
  BY <1>1, InvariantHolds, PTL

\* A keyboard that was asked for is shown once it may be, also after a crash of the
\* process that had created it (setPanel, maybeShow).
THEOREM KeyboardAlwaysReturns == Spec => []KeyboardReturns
<1>1. Sound(m) => KeyboardReturns
  BY DEF Sound, Core, Asked, Shown, KeyboardReturns
<1> QED
  BY <1>1, InvariantHolds, PTL

=============================================================================
