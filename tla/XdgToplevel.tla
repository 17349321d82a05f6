----------------------------- MODULE XdgToplevel -----------------------------
(***************************************************************************)
(* An xdg_toplevel window: the protocol object of                          *)
(* src/wayland/xdgshell_interface.cpp and the window that stands for it,   *)
(* XdgSurfaceWindow / XdgToplevelWindow of src/xdgshellwindow.cpp.         *)
(*                                                                         *)
(* The two sides of a Wayland window change it at the same time.  The      *)
(* compositor asks for a geometry and for states with a configure event,   *)
(* sent from a zero timer; the client acknowledges one of the events it    *)
(* has received and shows the answer with its next commit, or never, or    *)
(* commits something else first.  Until then the window keeps a queue of   *)
(* the events it has sent, and two geometries: the one on screen (frame)   *)
(* and the one it has asked for (target, the move-resize geometry).        *)
(*                                                                         *)
(* Geometries are one-dimensional, a left edge x and a width w: the        *)
(* maximize mode is then a Boolean and the gravity a side.  Width 0 is an  *)
(* empty size ("the client decides").  Window rules, decorations, tiles,   *)
(* sub-surfaces and the placeholder of outline dragging are left out.      *)
(***************************************************************************)
EXTENDS Integers, SequencesExt

CONSTANTS
    Positions,    \* left edges the user moves windows to
    Widths,       \* widths of a floating window
    MaximizeW,    \* width of the maximize area (its left edge is 0)
    FullScreenW,  \* width of the output
    Scenarios,    \* the kinds of request that occur together in a behaviour
    MaxRequests   \* bound on the requests of user and client (they are finite)

Kinds == {"maximize", "fullscreen", "activate", "geometry", "move", "drag", "resize", "unmap"}

ASSUME SizesAssumption ==
    /\ Positions \subseteq Nat /\ Positions # {}
    /\ Widths \subseteq Nat \ {0} /\ Widths # {}
    /\ MaximizeW \in Nat \ {0} /\ FullScreenW \in Nat \ {0}
    /\ Scenarios \subseteq SUBSET Kinds /\ Scenarios # {}
    /\ MaxRequests \in Nat

VARIABLES
    surf,      \* the xdg_surface: what the client has set and committed
    win,       \* the window
    scenario,  \* the kinds of request of this behaviour
    requests,  \* requests made so far
    ghost      \* history, see GhostInit

vars == <<surf, win, scenario, requests, ghost>>

Rect(x, w) == [x |-> x, w |-> w]
MaximizeArea == Rect(0, MaximizeW)
FullScreenArea == Rect(0, FullScreenW)
States == {"maximized", "fullscreen", "activated", "resizing"}

\* The client shows a width of its own, or one it is told to take.
ClientWidths ==
    Widths \cup ({win.events[i].bounds.w : i \in DOMAIN win.events} \ {0})

\* A window is created with the toplevel, and again as soon as it is unmapped; it
\* stands in the middle of the active output until it is placed.
NewWindow ==
    [frame |-> Rect(0, 0), target |-> Rect(0, 0),
     restore |-> Rect(0, 0), fsRestore |-> Rect(0, 0),
     reqMax |-> FALSE, reqFull |-> FALSE, max |-> FALSE, full |-> FALSE,
     next |-> {}, states |-> {}, initial |-> {}, initialized |-> FALSE,
     timer |-> FALSE, flag |-> FALSE, gravity |-> "None",
     events |-> <<>>, ack |-> 0, newGeometry |-> FALSE, ready |-> FALSE,
     grab |-> "None"]

NewSurface(serial) ==
    [serial |-> serial, buffer |-> 0, firstBuffer |-> FALSE, initialized |-> FALSE]

\* asked: the geometry has been requested again since the window was last moved.
\* acked: the highest serial of a committed ack.  applied: the last configure
\* that was applied.  dragged: the client last changed its geometry during a drag.
\* wish: the width last asked for, 0 when the client is free to choose.
GhostInit ==
    [asked |-> FALSE, acked |-> 0, applied |-> 0, dragged |-> FALSE, wish |-> 0]

Init ==
    /\ win = NewWindow
    /\ surf = NewSurface(0)
    /\ scenario \in Scenarios
    /\ requests = 0
    /\ ghost = GhostInit

-----------------------------------------------------------------------------
(* Geometry requests of the compositor.                                    *)

ScheduleConfigure(w) == [w EXCEPT !.timer = TRUE]

\* moveResizeInternal, mode Resize and MoveResize.
MoveResizeInternal(w, rect, immediate) ==
    IF rect.w = w.frame.w
    THEN [w EXCEPT !.frame = rect]
    ELSE ScheduleConfigure([w EXCEPT !.frame = IF immediate THEN rect ELSE @,
                                     !.flag = TRUE])

\* Mutant: the position update that is about to be sent is not cancelled.
MoveInternal_KeepsPending(w, rect) ==
    [w EXCEPT !.events = [i \in DOMAIN @ |-> [@[i] EXCEPT !.pos = FALSE]],
              !.frame = IF w.frame.w = rect.w THEN rect ELSE @]

\* moveResizeInternal, mode Move: the queued position updates are cancelled, and
\* a toplevel whose size is still to change is not moved.
MoveInternal(w, rect) ==
    [w EXCEPT !.events = [i \in DOMAIN @ |-> [@[i] EXCEPT !.pos = FALSE]],
              !.flag = FALSE,
              !.frame = IF w.frame.w = rect.w THEN rect ELSE @]

MoveResize(w, rect, immediate) ==
    MoveResizeInternal([w EXCEPT !.target = rect], rect, immediate)

Move(w, x) ==
    LET rect == Rect(x, w.target.w)
    IN  MoveInternal([w EXCEPT !.target = rect], rect)

SetState(w, s, on) ==
    ScheduleConfigure([w EXCEPT !.next = IF on THEN @ \cup {s} ELSE @ \ {s}])

\* XdgToplevelWindow::maximize: refused while the window is to be full screen
\* (it is not resizable then).  The geometry to come back to is the requested one.
Maximize(w, mode) ==
    IF w.reqFull \/ w.reqMax = mode THEN w ELSE
    LET saved == IF mode THEN w.target ELSE w.restore
        rect == CASE mode -> MaximizeArea
                  [] ~mode /\ saved.w > 0 -> saved
                  [] OTHER -> Rect(0, 0)
    IN  SetState(MoveResize([w EXCEPT !.reqMax = mode, !.restore = saved], rect, FALSE),
                 "maximized", mode)

SetFullScreen(w, set) ==
    IF w.reqFull = set THEN w ELSE
    LET saved == IF set THEN w.target ELSE w.fsRestore
        rect == CASE set -> FullScreenArea
                  [] ~set /\ saved.w > 0 -> saved
                  [] OTHER -> Rect(0, 0)
    IN  SetState(MoveResize([w EXCEPT !.reqFull = set, !.fsRestore = saved], rect, FALSE),
                 "fullscreen", set)

\* The first commit: the states asked for before it, and a place (x) for a
\* window that is neither maximized nor full screen.
Initialize(w, x) ==
    LET m == Maximize(w, "maximized" \in w.initial)
        f == SetFullScreen(m, "fullscreen" \in w.initial)
        p == IF f.reqMax \/ f.reqFull THEN f ELSE Move(f, x)
    IN  [ScheduleConfigure(p) EXCEPT !.initialized = TRUE]

-----------------------------------------------------------------------------
(* What a commit does.                                                     *)

\* Mutant: any ack covers all that was sent.
Covered_All(w) == IF w.ack = 0 THEN <<>> ELSE w.events

\* The events are taken until the first that the acknowledged serial does not cover;
\* it stays queued, with all that follow.
Taken(w) ==
    LET later == {i \in DOMAIN w.events : w.ack < w.events[i].serial}
    IN  IF later = {} THEN Len(w.events) ELSE Min(later) - 1
Covered(w) == SubSeq(w.events, 1, Taken(w))
Queued(w) == SubSeq(w.events, Taken(w) + 1, Len(w.events))

Gravitate(rect, bounds, gravity) ==
    IF gravity = "Left" THEN Rect(bounds.x + bounds.w - rect.w, rect.w)
                        ELSE Rect(bounds.x, rect.w)

\* Mutant: configures that are still unanswered do not matter.
MaybeUpdateMoveResizeGeometry_Always(w, rect) ==
    IF w.timer THEN w ELSE [w EXCEPT !.target = rect]

\* The requested geometry follows the client unless a configure that changes the
\* geometry is about to be sent or to be acknowledged.
MaybeUpdateMoveResizeGeometry(w, rect) ==
    IF w.timer \/ \E i \in DOMAIN w.events : w.events[i].pos
    THEN w
    ELSE [w EXCEPT !.target = rect]

HandleNextWindowGeometry(w, conf, width) ==
    LET kept == Rect(w.frame.x, width)
        rect == IF conf # <<>> /\ Last(conf).pos
                THEN Gravitate(kept, Last(conf).bounds, Last(conf).gravity)
                ELSE kept
    IN  [(IF w.grab = "None" THEN MaybeUpdateMoveResizeGeometry(w, rect) ELSE w)
             EXCEPT !.frame = rect]

\* Mutant: the acknowledged states are not remembered.
HandleStatesAcknowledged_Forgets(w, states) ==
    [w EXCEPT !.max = IF ("maximized" \in w.states) # ("maximized" \in states)
                      THEN "maximized" \in states ELSE @,
              !.full = IF ("fullscreen" \in w.states) # ("fullscreen" \in states)
                       THEN "fullscreen" \in states ELSE @]

HandleStatesAcknowledged(w, states) ==
    [w EXCEPT !.states = states,
              !.max = IF ("maximized" \in w.states) # ("maximized" \in states)
                      THEN "maximized" \in states ELSE @,
              !.full = IF ("fullscreen" \in w.states) # ("fullscreen" \in states)
                       THEN "fullscreen" \in states ELSE @]

HandleCommit(w, width) ==
    IF width = 0 THEN w ELSE
    LET conf == Covered(w)
        taken == [w EXCEPT !.events = Queued(w)]
        placed == IF taken.newGeometry \/ conf # <<>>
                  THEN [HandleNextWindowGeometry(taken, conf, width)
                            EXCEPT !.newGeometry = FALSE]
                  ELSE taken
        role == IF conf # <<>> THEN HandleStatesAcknowledged(placed, Last(conf).states)
                               ELSE placed
    IN  [role EXCEPT !.ack = 0, !.ready = TRUE]

-----------------------------------------------------------------------------
(* Steps.                                                                  *)

\* A resize by the mouse counts twice, for its start and for its end.
Request(kind) ==
    /\ kind \in scenario /\ UNCHANGED scenario
    /\ requests' = requests + IF kind = "resize" /\ win.grab = "None" THEN 2 ELSE 1
    /\ requests' <= MaxRequests

\* The client is told of the width asked for.  It is not when that is the width on
\* screen while a configure event with another one is still to be acknowledged:
\* moveResizeInternal then finds nothing to change.
WidthIsTold(w) == w.timer \/ w.events = <<>> \/ Last(w.events).bounds.w = w.target.w
Asked(b) ==
    ghost' = [ghost EXCEPT !.asked = b, !.wish = IF WidthIsTold(win') THEN win'.target.w ELSE 0]
Mapped == win.ready

\* A commit by which the client chooses its own width, w being the window before it:
\* no configure that changes the geometry is about to be sent or left unanswered, and
\* the width is not the one that the newest configure asks for.  A commit of an older
\* state is one too, when a move has cancelled the changes of the configures left.
Chooses(w, width) ==
    /\ width # 0 /\ w.grab = "None"
    /\ w.newGeometry \/ Covered(w) # <<>>
    /\ ~w.timer /\ ~ \E i \in DOMAIN Queued(w) : Queued(w)[i].pos
    /\ Covered(w) = <<>> \/ Queued(w) # <<>> \/ width # Last(Covered(w)).bounds.w

\* The window when it hears of a commit: the role has been committed before it.
Hearing(width, ack, x) ==
    LET w == [win EXCEPT !.newGeometry = @ \/ width # surf.buffer,
                         !.ack = IF ack # 0 THEN ack ELSE @]
    IN  IF surf.initialized THEN w ELSE Initialize(w, x)

\* The commit of a surface with a buffer of some width, or none (0), and with the
\* serial of the last ack_configure before it (0: none; any serial is accepted and
\* nothing else reads it).
CommitWith(width, ack, x) ==
    /\ ~ (surf.firstBuffer /\ width = 0)
    /\ surf' = [surf EXCEPT !.buffer = width, !.firstBuffer = @ \/ width # 0,
                            !.initialized = TRUE]
    /\ \E w \in {Hearing(width, ack, x)} :
          /\ win' = HandleCommit(w, width)
          /\ ghost' = [asked |-> IF surf.initialized THEN ghost.asked
                                 ELSE w.reqMax \/ w.reqFull,
                       acked |-> IF ack > ghost.acked THEN ack ELSE ghost.acked,
                       applied |-> IF width # 0 /\ Covered(w) # <<>>
                                   THEN Last(Covered(w)).serial ELSE ghost.applied,
                       dragged |-> IF width # 0 /\ (w.newGeometry \/ Covered(w) # <<>>)
                                   THEN win.grab # "None" ELSE ghost.dragged,
                       wish |-> CASE ~surf.initialized -> w.target.w
                                  [] surf.initialized /\ Chooses(w, width) -> 0
                                  [] OTHER -> ghost.wish]

\* The places for a window that is committed first, and the serials worth an ack:
\* those of the queue, and one older than all of them.
Places == IF surf.initialized THEN {0} ELSE Positions
Serials ==
    {0} \cup {win.events[i].serial : i \in DOMAIN win.events}
        \cup (IF surf.serial > 0 THEN {1} ELSE {})

Commit(width, ack) ==
    /\ \E x \in Places : CommitWith(width, ack, x)
    /\ UNCHANGED <<scenario, requests>>

\* The client answers the configure event it received last.
AnswerConfigure ==
    LET last == Last(win.events)
    IN  /\ win.events # <<>>
        /\ \E x \in Places, width \in ClientWidths :
               /\ last.bounds.w # 0 => width = last.bounds.w
               /\ CommitWith(width, last.serial, x)
        /\ UNCHANGED <<scenario, requests>>

\* A null buffer unmaps the toplevel: the protocol object starts over, the
\* window is destroyed and another one is made for the next mapping.
Unmap ==
    /\ Request("unmap")
    /\ surf.firstBuffer
    /\ surf' = NewSurface(surf.serial)
    /\ win' = NewWindow
    /\ ghost' = [ghost EXCEPT !.asked = FALSE, !.dragged = FALSE, !.wish = 0]

\* set_maximized, unset_maximized: remembered until the first commit.
RequestMaximized(b) ==
    /\ Request("maximize")
    /\ win' = IF win.initialized THEN ScheduleConfigure(Maximize(win, b))
              ELSE [win EXCEPT !.initial = IF b THEN @ \cup {"maximized"}
                                           ELSE @ \ {"maximized"}]
    /\ Asked(ghost.asked \/ win'.reqMax # win.reqMax)
    /\ UNCHANGED surf

RequestFullScreen(b) ==
    /\ Request("fullscreen")
    /\ win' = IF win.initialized THEN ScheduleConfigure(SetFullScreen(win, b))
              ELSE [win EXCEPT !.initial = IF b THEN @ \cup {"fullscreen"}
                                           ELSE @ \ {"fullscreen"}]
    /\ Asked(ghost.asked \/ win'.reqFull # win.reqFull)
    /\ UNCHANGED surf

\* The zero timer: one configure event for all that was requested since the last.
SendConfigure ==
    LET serial == surf.serial + 1
        inherited == win.events # <<>> /\ Last(win.events).pos
        event == [serial |-> serial, bounds |-> win.target, states |-> win.next,
                  gravity |-> win.gravity, pos |-> inherited \/ win.flag]
    IN  /\ win.timer
        /\ surf' = [surf EXCEPT !.serial = serial]
        /\ win' = [win EXCEPT !.timer = FALSE, !.flag = FALSE, !.events = Append(@, event)]
        /\ UNCHANGED <<scenario, requests, ghost>>

UserMove(x) ==
    /\ Request("move")
    /\ Mapped
    /\ win' = Move(win, x)
    /\ Asked(FALSE)
    /\ UNCHANGED surf

UserMoveResize(rect, immediate) ==
    /\ Request("geometry")
    /\ Mapped
    /\ win' = MoveResize(win, rect, immediate)
    /\ Asked(TRUE)
    /\ UNCHANGED surf

SetActive ==
    /\ Request("activate")
    /\ Mapped
    /\ win' = SetState(win, "activated", "activated" \notin win.next)
    /\ UNCHANGED <<surf, ghost>>

\* A drag by the mouse: a move, or a resize of the left or of the right edge,
\* which ends the maximized mode and keeps the geometry.
StartMove ==
    /\ Request("drag")
    /\ Mapped /\ win.grab = "None" /\ ~win.reqFull /\ ~win.reqMax
    /\ win' = [win EXCEPT !.grab = "Move"]
    /\ UNCHANGED <<surf, ghost>>

StartResize(side) ==
    /\ Request("resize")
    /\ Mapped /\ win.grab = "None" /\ ~win.reqFull
    /\ LET w == SetState([win EXCEPT !.gravity = side], "resizing", TRUE)
           g == [w EXCEPT !.grab = side]
       IN  win' = IF win.reqMax THEN Maximize([g EXCEPT !.restore = win.target], FALSE) ELSE g
    /\ Asked(ghost.asked \/ win.reqMax)
    /\ UNCHANGED surf

DragTo(x) ==
    /\ Request("drag")
    /\ win.grab = "Move" /\ ~win.reqFull
    /\ win.target.x # x
    /\ win' = Move(win, x)
    /\ Asked(FALSE)
    /\ UNCHANGED surf

DragEdge(width) ==
    LET right == win.target.x + win.target.w
        rect == IF win.grab = "Left" THEN Rect(right - width, width)
                                     ELSE Rect(win.target.x, width)
    IN  /\ Request("resize")
        /\ win.grab \in {"Left", "Right"} /\ ~win.reqFull
        /\ rect # win.target
        /\ win' = MoveResize(win, rect, FALSE)
        /\ Asked(TRUE)
        /\ UNCHANGED surf

FinishMoveResize ==
    /\ win.grab # "None"
    /\ LET w == [win EXCEPT !.grab = "None"]
       IN  win' = IF "resizing" \in w.next THEN SetState(w, "resizing", FALSE) ELSE w
    /\ UNCHANGED <<surf, scenario, requests, ghost>>

Next ==
    \/ \E width \in ClientWidths \cup {0}, ack \in Serials : Commit(width, ack)
    \/ AnswerConfigure
    \/ Unmap
    \/ \E b \in BOOLEAN : RequestMaximized(b) \/ RequestFullScreen(b)
    \/ SendConfigure
    \/ \E x \in Positions : UserMove(x) \/ DragTo(x)
    \/ \E x \in Positions, w \in Widths, i \in BOOLEAN : UserMoveResize(Rect(x, w), i)
    \/ SetActive
    \/ StartMove
    \/ \E side \in {"Left", "Right"} : StartResize(side)
    \/ \E w \in Widths : DragEdge(w)
    \/ FinishMoveResize

\* The event loop fires the zero timer; a client that answers; drags end.
Fairness == WF_vars(SendConfigure) /\ WF_vars(AnswerConfigure) /\ WF_vars(FinishMoveResize)

Spec == Init /\ [][Next]_vars /\ Fairness

-----------------------------------------------------------------------------
Geometry == [x : Int, w : Nat]

Events ==
    [serial : Nat, bounds : Geometry, states : SUBSET States,
     gravity : {"None", "Left", "Right"}, pos : BOOLEAN]

\* Type invariant.
TypeInv ==
    /\ surf \in [serial : Nat, buffer : Nat, firstBuffer : BOOLEAN, initialized : BOOLEAN]
    /\ win \in [frame : Geometry, target : Geometry, restore : Geometry, fsRestore : Geometry,
                reqMax : BOOLEAN, reqFull : BOOLEAN, max : BOOLEAN, full : BOOLEAN,
                next : SUBSET States, states : SUBSET States,
                initial : SUBSET {"maximized", "fullscreen"}, initialized : BOOLEAN,
                timer : BOOLEAN, flag : BOOLEAN, gravity : {"None", "Left", "Right"},
                events : Seq(Events), ack : Nat, newGeometry : BOOLEAN, ready : BOOLEAN,
                grab : {"None", "Move", "Left", "Right"}]
    /\ scenario \in Scenarios /\ requests \in 0 .. MaxRequests
    /\ ghost \in [asked : BOOLEAN, acked : Nat, applied : Nat, dragged : BOOLEAN,
                  wish : Nat]

\* No state is forgotten: what the window has last been told to be is what the
\* newest configure event says, or what the client has acknowledged when none is
\* left, unless an event is about to be sent.
StatesReachTheClient ==
    ~win.timer =>
        win.next = IF win.events = <<>> THEN win.states ELSE Last(win.events).states

\* Configure events take effect in the order they were sent and never before
\* the client has acknowledged them, whatever serials it acknowledges and however
\* often the window is unmapped in between.
ConfiguresApplyInOrder ==
    /\ ghost.applied <= ghost.acked
    /\ \A i \in DOMAIN win.events :
           /\ win.events[i].serial > ghost.applied
           /\ i > 1 => win.events[i - 1].serial < win.events[i].serial

\* A commit of the client moves the window only to a position asked for after
\* the window was last moved: the updates that were queued are cancelled.
MoveIsFinal ==
    [][(requests' = requests /\ win.ready /\ ~ghost.asked) => win'.frame.x = win.frame.x]_vars

\* When the client has answered everything the geometry on screen is the one the
\* window asks for, so that the next request starts from what is seen: not so
\* after a drag during which the client chose a geometry of its own.
Settled ==
    (/\ win.ready /\ ~win.timer /\ win.events = <<>>
     /\ win.grab = "None" /\ ~ghost.dragged) => win.target = win.frame

\* The width last asked for stays the requested one, whatever the client commits and
\* acknowledges meanwhile: no commit of an older state rolls it back, so that the
\* events still to be sent ask for it, too.  It is given up where the client chooses
\* its own width, which after a move any commit of an older state counts as (Chooses),
\* or where the client is not told of it (WidthIsTold), for nothing else.
WidthIsKept == ghost.wish # 0 => win.target.w = ghost.wish

\* Nothing the window was asked for is forgotten on the way to the client and back:
\* neither a state merged into a later event, nor a width that commits of older states
\* contradict; and in the end the geometry asked for is the one shown.
NothingIsForgotten == StatesReachTheClient /\ WidthIsKept /\ Settled

\* Once the user stops, a client that answers ends up in the modes it was last
\* asked to be in, and nothing is left in the queue.
ClientCatchesUp ==
    <>[](/\ ~win.timer /\ win.events = <<>>
         /\ win.max = win.reqMax /\ win.full = win.reqFull)

=============================================================================
