------------------------ MODULE XdgToplevelProofs ------------------------
(***************************************************************************)
(* Proofs about XdgToplevel, for any positions, sizes and requests.        *)
(*                                                                         *)
(* The queue of sent events is the heart of it: its serials ascend, are    *)
(* later than what was applied and no later than what was sent; its newest *)
(* states are those the window was told last, and its newest width the one *)
(* asked for last; none of its events moves the window once that was       *)
(* cancelled.  Two parts are stronger than what they are for: the geometry *)
(* asked for and the one shown agree also during a drag and before the     *)
(* window is shown, and a window that the client has not committed yet has *)
(* neither a mode nor an event.                                            *)
(***************************************************************************)
EXTENDS XdgToplevel, WellFoundedInduction, TLAPS

Gravities == {"None", "Left", "Right"}

Windows ==
    [frame : Geometry, target : Geometry, restore : Geometry, fsRestore : Geometry,
     reqMax : BOOLEAN, reqFull : BOOLEAN, max : BOOLEAN, full : BOOLEAN,
     next : SUBSET States, states : SUBSET States,
     initial : SUBSET {"maximized", "fullscreen"}, initialized : BOOLEAN,
     timer : BOOLEAN, flag : BOOLEAN, gravity : Gravities,
     events : Seq(Events), ack : Nat, newGeometry : BOOLEAN, ready : BOOLEAN,
     grab : {"None", "Move", "Left", "Right"}]

Surfaces == [serial : Nat, buffer : Nat, firstBuffer : BOOLEAN, initialized : BOOLEAN]

Ghosts == [asked : BOOLEAN, acked : Nat, applied : Nat, dragged : BOOLEAN, wish : Nat]

\* The serials ascend between the last that was applied and the last that was sent.
Ascend(es, from, to) ==
    /\ \A i \in 1 .. Len(es) : from < es[i].serial /\ es[i].serial <= to
    /\ \A i, j \in 1 .. Len(es) : i < j => es[i].serial < es[j].serial

\* StatesReachTheClient.
Told(w) == ~w.timer => w.next = IF w.events = <<>> THEN w.states ELSE w.events[Len(w.events)].states

\* What is behind Settled.
Agrees(w) == ~w.timer /\ w.events = <<>> => w.target = w.frame

\* What is behind WidthIsKept: the width last asked for is the requested one, and the
\* newest event asks the client for it.
Wished(w, wish) ==
    wish # 0 =>
        /\ w.target.w = wish
        /\ ~w.timer /\ w.events # <<>> => w.events[Len(w.events)].bounds.w = wish

\* A commit that leaves these events makes the client's geometry the requested one.
Adopts(w, es) ==
    w.grab = "None" /\ ~w.timer /\ ~ \E i \in DOMAIN es : es[i].pos

\* What is behind MoveIsFinal.
Cancelled(w) == ~w.flag /\ \A i \in 1 .. Len(w.events) : ~w.events[i].pos

\* A window that was never committed.
Unborn(w) ==
    /\ ~w.ready /\ ~w.reqMax /\ ~w.reqFull /\ ~w.timer /\ ~w.flag
    /\ w.events = <<>> /\ w.grab = "None"

\* Every set of natural numbers that is not empty has a least element.
LEMMA LeastNumber ==
    ASSUME NEW S \in SUBSET Nat, S # {}
    PROVE  \E n \in S : \A k \in S : n <= k
<1> DEFINE R == OpToRel(<,Nat)
<1>1. \A y, z \in Nat : y < z => <<y, z>> \in R
  BY DEF OpToRel
<1>2. IsWellFoundedOn(R, Nat)
  BY NatLessThanWellFounded
<1>3. PICK x \in S : \A y \in S : ~(<<y, x>> \in R)
  BY <1>2, WFMin
<1> HIDE DEF R
<1>4. ASSUME NEW k \in S PROVE x <= k
  <2>1. k \in Nat /\ x \in Nat /\ ~(<<k, x>> \in R)
    BY <1>3
  <2>2. ~(k < x)
    BY <1>1, <2>1
  <2> QED
    BY <2>1, <2>2
<1> QED
  BY <1>4

-----------------------------------------------------------------------------
(* The queue.                                                              *)

\* The events that an ack takes are those up to its serial, wherever it points.
LEMMA TakenSplits ==
    ASSUME NEW w \in Windows, NEW from, NEW to, Ascend(w.events, from, to),
           NEW n, n = Taken(w)
    PROVE  /\ n \in 0 .. Len(w.events)
           /\ \A i \in 1 .. n : w.events[i].serial <= w.ack
           /\ \A i \in n + 1 .. Len(w.events) : w.ack < w.events[i].serial
<1> DEFINE later == {i \in DOMAIN w.events : w.ack < w.events[i].serial}
           m == Min(later)
<1>1. /\ w.events \in Seq(Events) /\ w.ack \in Nat /\ DOMAIN w.events = 1 .. Len(w.events)
      /\ Len(w.events) \in Nat /\ \A i \in 1 .. Len(w.events) : w.events[i].serial \in Nat
  <2>1. w.events \in Seq(Events) /\ w.ack \in Nat
    BY Zenon DEF Windows
  <2>2. \A e \in Events : e.serial \in Nat
    BY DEF Events
  <2> QED
    BY <2>1, <2>2
<1>2. CASE later = {}
  <2>1. n = Len(w.events)
    BY <1>2 DEF Taken
  <2> QED
    BY <1>1, <1>2, <2>1
<1>3. CASE later # {}
  <2>1. n = m - 1
    BY <1>3 DEF Taken
  <2>2. later \in SUBSET Nat
    BY <1>1
  <2>3. m \in later /\ \A k \in later : m <= k
    <3>1. \E x \in later : \A k \in later : x <= k
      BY <1>3, <2>2, LeastNumber
    <3> QED
      BY <3>1, Zenon DEF Min
  <2> HIDE DEF m
  <2>4. m \in 1 .. Len(w.events) /\ w.ack < w.events[m].serial
    BY <1>1, <2>3
  <2>5. \A i \in 1 .. m - 1 : w.events[i].serial <= w.ack
    <3> SUFFICES ASSUME NEW i \in 1 .. m - 1 PROVE w.events[i].serial <= w.ack
      OBVIOUS
    <3>1. i \in 1 .. Len(w.events) /\ ~(m <= i)
      BY <1>1, <2>4
    <3>2. i \notin later
      BY <2>3, <3>1
    <3> QED
      BY <1>1, <3>1, <3>2
  <2>6. \A i \in m .. Len(w.events) : w.ack < w.events[i].serial
    BY <1>1, <2>4 DEF Ascend
  <2> QED
    BY <1>1, <2>1, <2>4, <2>5, <2>6
<1> QED
  BY <1>2, <1>3

\* What is taken and what stays, event by event.
LEMMA QueueSplits ==
    ASSUME NEW w \in Windows, NEW from, NEW to, Ascend(w.events, from, to)
    PROVE  /\ Covered(w) \in Seq(Events) /\ Queued(w) \in Seq(Events)
           /\ \E n \in 0 .. Len(w.events) :
                /\ Len(Covered(w)) = n /\ Len(Queued(w)) = Len(w.events) - n
                /\ \A i \in 1 .. n : Covered(w)[i] = w.events[i] /\ w.events[i].serial <= w.ack
                /\ \A i \in 1 .. Len(w.events) - n :
                       Queued(w)[i] = w.events[n + i] /\ w.ack < w.events[n + i].serial
<1> DEFINE n == Taken(w)
           es == w.events
<1>1. /\ n \in 0 .. Len(es) /\ \A i \in 1 .. n : es[i].serial <= w.ack
      /\ \A i \in n + 1 .. Len(es) : w.ack < es[i].serial
  BY TakenSplits
<1>2. Covered(w) = SubSeq(es, 1, n) /\ Queued(w) = SubSeq(es, n + 1, Len(es))
  BY DEF Covered, Queued
<1>3. es \in Seq(Events)
  BY Zenon DEF Windows
<1> HIDE DEF n, es
<1>4. Len(es) \in Nat /\ n \in Nat
  BY <1>1, <1>3
<1>5. /\ SubSeq(es, 1, n) \in Seq(Events) /\ Len(SubSeq(es, 1, n)) = n
      /\ \A i \in 1 .. n : SubSeq(es, 1, n)[i] = es[i]
  BY <1>1, <1>3, <1>4
<1>6. /\ SubSeq(es, n + 1, Len(es)) \in Seq(Events)
      /\ Len(SubSeq(es, n + 1, Len(es))) = Len(es) - n
      /\ \A i \in 1 .. Len(es) - n : SubSeq(es, n + 1, Len(es))[i] = es[n + i]
  BY <1>1, <1>3, <1>4
<1>7. \A i \in 1 .. Len(es) - n : w.ack < es[n + i].serial
  BY <1>1, <1>4
<1> QED
  BY <1>1, <1>2, <1>5, <1>6, <1>7 DEF es

\* An event whose serial is the last that was sent ends the queue.
LEMMA AppendAscends ==
    ASSUME NEW es \in Seq(Events), NEW from \in Nat, NEW to \in Nat, Ascend(es, from, to),
           from <= to, NEW e \in Events, e.serial = to + 1
    PROVE  Ascend(Append(es, e), from, to + 1)
<1>1. \A i \in 1 .. Len(es) : es[i].serial \in Nat
  <2>1. \A d \in Events : d.serial \in Nat
    BY DEF Events
  <2> QED
    BY <2>1
<1>2. /\ Len(Append(es, e)) = Len(es) + 1 /\ Append(es, e)[Len(es) + 1] = e
      /\ \A i \in 1 .. Len(es) : Append(es, e)[i] = es[i]
  OBVIOUS
<1>3. Len(es) \in Nat
  OBVIOUS
<1> QED
  BY <1>1, <1>2, <1>3 DEF Ascend

-----------------------------------------------------------------------------
(* The requests of the compositor.                                         *)

\* What every request keeps of the window and of its queue.
Like(w, t) ==
    /\ t \in Windows /\ Len(t.events) = Len(w.events)
    /\ \A i \in 1 .. Len(w.events) :
           /\ t.events[i].serial = w.events[i].serial
           /\ t.events[i].states = w.events[i].states
           /\ t.events[i].pos => w.events[i].pos
    /\ t.states = w.states /\ t.ack = w.ack /\ t.initialized = w.initialized
    /\ t.ready = w.ready /\ t.grab = w.grab /\ t.newGeometry = w.newGeometry
    /\ w.timer => t.timer
    /\ ~t.timer => t.next = w.next
    /\ Agrees(w) => Agrees(t)

LEMMA LikeItself == ASSUME NEW w \in Windows PROVE Like(w, w)
BY Zenon DEF Like

LEMMA LikeTransitive ==
    ASSUME NEW v, NEW w, NEW t, Like(v, w), Like(w, t)
    PROVE  Like(v, t)
BY DEF Like

\* The geometry, the pending update, the timer and the queue.
WithGeometry(w, a, f, b, u, es) ==
    [w EXCEPT !.target = a, !.frame = f, !.flag = b, !.timer = u, !.events = es]

LEMMA GeometrySet ==
    ASSUME NEW w \in Windows, NEW a \in Geometry, NEW f \in Geometry,
           NEW b \in BOOLEAN, NEW u \in BOOLEAN, NEW es \in Seq(Events),
           NEW t, t = WithGeometry(w, a, f, b, u, es)
    PROVE  /\ t \in Windows
           /\ t.target = a /\ t.frame = f /\ t.flag = b /\ t.timer = u /\ t.events = es
           /\ t.states = w.states /\ t.ack = w.ack /\ t.initialized = w.initialized
           /\ t.ready = w.ready /\ t.grab = w.grab /\ t.newGeometry = w.newGeometry
           /\ t.next = w.next /\ t.reqMax = w.reqMax /\ t.reqFull = w.reqFull
BY Zenon DEF WithGeometry, Windows

\* The modes and the geometries to come back to.
WithModes(w, m, f, r, s) ==
    [w EXCEPT !.reqMax = m, !.reqFull = f, !.restore = r, !.fsRestore = s]

LEMMA ModesSet ==
    ASSUME NEW w \in Windows, NEW m \in BOOLEAN, NEW f \in BOOLEAN,
           NEW r \in Geometry, NEW s \in Geometry, NEW t, t = WithModes(w, m, f, r, s)
    PROVE  /\ Like(w, t) /\ t.reqMax = m /\ t.reqFull = f
           /\ t.target = w.target /\ t.frame = w.frame /\ t.flag = w.flag
           /\ t.timer = w.timer /\ t.events = w.events /\ t.next = w.next
<1>1. /\ t \in Windows /\ t.reqMax = m /\ t.reqFull = f
      /\ t.target = w.target /\ t.frame = w.frame /\ t.flag = w.flag
      /\ t.timer = w.timer /\ t.events = w.events /\ t.next = w.next
      /\ t.states = w.states /\ t.ack = w.ack /\ t.initialized = w.initialized
      /\ t.ready = w.ready /\ t.grab = w.grab /\ t.newGeometry = w.newGeometry
  BY Zenon DEF WithModes, Windows
<1> QED
  BY <1>1, Zenon DEF Like, Agrees

\* The states that the next event will carry, which the timer will send.
WithNext(w, n) == [w EXCEPT !.next = n, !.timer = TRUE]

LEMMA NextSet ==
    ASSUME NEW w \in Windows, NEW n \in SUBSET States, NEW t, t = WithNext(w, n)
    PROVE  /\ Like(w, t) /\ t.reqMax = w.reqMax /\ t.reqFull = w.reqFull
           /\ t.target = w.target /\ t.frame = w.frame /\ t.flag = w.flag
           /\ t.timer /\ t.events = w.events
<1>1. /\ t \in Windows /\ t.reqMax = w.reqMax /\ t.reqFull = w.reqFull
      /\ t.target = w.target /\ t.frame = w.frame /\ t.flag = w.flag
      /\ t.timer = TRUE /\ t.events = w.events
      /\ t.states = w.states /\ t.ack = w.ack /\ t.initialized = w.initialized
      /\ t.ready = w.ready /\ t.grab = w.grab /\ t.newGeometry = w.newGeometry
  BY Zenon DEF WithNext, Windows
<1> QED
  BY <1>1, Zenon DEF Like, Agrees

LEMMA ScheduleKeeps ==
    ASSUME NEW w \in Windows, NEW t, t = ScheduleConfigure(w)
    PROVE  /\ Like(w, t) /\ t.timer /\ t.reqMax = w.reqMax /\ t.reqFull = w.reqFull
           /\ t.flag = w.flag /\ t.events = w.events /\ t.frame = w.frame
<1>1. w.next \in SUBSET States
  BY Zenon DEF Windows
<1>2. t = WithNext(w, w.next)
  BY Zenon DEF ScheduleConfigure, WithNext, Windows
<1> QED
  BY <1>1, <1>2, NextSet

LEMMA SetStateKeeps ==
    ASSUME NEW w \in Windows, NEW s \in States, NEW on \in BOOLEAN, NEW t, t = SetState(w, s, on)
    PROVE  /\ Like(w, t) /\ t.timer /\ t.reqMax = w.reqMax /\ t.reqFull = w.reqFull
           /\ t.target = w.target /\ t.flag = w.flag /\ t.events = w.events /\ t.frame = w.frame
<1> DEFINE n == IF on THEN w.next \cup {s} ELSE w.next \ {s}
<1>1. w.next \in SUBSET States
  BY Zenon DEF Windows
<1>2. n \in SUBSET States
  BY <1>1
<1>3. t = [[w EXCEPT !.next = n] EXCEPT !.timer = TRUE]
  BY Zenon DEF SetState, ScheduleConfigure
<1> HIDE DEF n
<1>4. t = WithNext(w, n)
  BY <1>3 DEF WithNext, Windows
<1> QED
  BY <1>2, <1>4, NextSet

\* A new geometry: what the window shows now, or will be asked for by the timer.
LEMMA MoveResizeKeeps ==
    ASSUME NEW w \in Windows, NEW rect \in Geometry, NEW immediate \in BOOLEAN,
           NEW t, t = MoveResize(w, rect, immediate)
    PROVE  /\ Like(w, t) /\ t.reqMax = w.reqMax /\ t.reqFull = w.reqFull
           /\ t.target = rect
<1>1. /\ w.events \in Seq(Events) /\ w.frame \in Geometry /\ w.timer \in BOOLEAN
      /\ w.flag \in BOOLEAN
  BY Zenon DEF Windows
<1>2. CASE rect.w = w.frame.w
  <2>1. t = WithGeometry(w, rect, rect, w.flag, w.timer, w.events)
    BY <1>2 DEF MoveResize, MoveResizeInternal, WithGeometry, Windows
  <2>2. /\ t \in Windows
        /\ t.target = rect /\ t.frame = rect /\ t.timer = w.timer /\ t.events = w.events
        /\ t.states = w.states /\ t.ack = w.ack /\ t.initialized = w.initialized
        /\ t.ready = w.ready /\ t.grab = w.grab /\ t.newGeometry = w.newGeometry
        /\ t.next = w.next /\ t.reqMax = w.reqMax /\ t.reqFull = w.reqFull
    BY <1>1, <2>1, GeometrySet
  <2> QED
    BY <2>2, Zenon DEF Like, Agrees
<1>3. CASE rect.w # w.frame.w
  <2> DEFINE f == IF immediate THEN rect ELSE w.frame
             b == TRUE
             u == TRUE
  <2>1. f \in Geometry
    BY <1>1
  <2>2. b \in BOOLEAN /\ u \in BOOLEAN
    OBVIOUS
  <2>3. u = TRUE
    OBVIOUS
  <2>7. w.events \in Seq(Events)
    BY <1>1
  <2>4. t = WithGeometry(w, rect, f, b, u, w.events)
    BY <1>3 DEF MoveResize, MoveResizeInternal, ScheduleConfigure, WithGeometry, Windows
  <2> HIDE DEF f, b, u
  <2>5. /\ t \in Windows
        /\ t.target = rect /\ t.timer = u /\ t.events = w.events
        /\ t.states = w.states /\ t.ack = w.ack /\ t.initialized = w.initialized
        /\ t.ready = w.ready /\ t.grab = w.grab /\ t.newGeometry = w.newGeometry
        /\ t.next = w.next /\ t.reqMax = w.reqMax /\ t.reqFull = w.reqFull
    BY <2>1, <2>2, <2>4, <2>7, GeometrySet
  <2>6. t.timer = TRUE
    BY <2>3, <2>5
  <2> QED
    BY <2>5, <2>6, Zenon DEF Like, Agrees
<1> QED
  BY <1>2, <1>3

\* The events of the queue no longer move the window.
Cancel(es) == [i \in DOMAIN es |-> [es[i] EXCEPT !.pos = FALSE]]

LEMMA CancelKeeps ==
    ASSUME NEW es \in Seq(Events)
    PROVE  /\ Cancel(es) \in Seq(Events) /\ Len(Cancel(es)) = Len(es)
           /\ \A i \in 1 .. Len(es) :
                  /\ Cancel(es)[i].serial = es[i].serial
                  /\ Cancel(es)[i].states = es[i].states
                  /\ ~Cancel(es)[i].pos
<1>1. /\ Len(es) \in Nat /\ DOMAIN es = 1 .. Len(es) /\ \A i \in 1 .. Len(es) : es[i] \in Events
  OBVIOUS
<1>2. \A e \in Events :
        /\ [e EXCEPT !.pos = FALSE] \in Events
        /\ [e EXCEPT !.pos = FALSE].serial = e.serial
        /\ [e EXCEPT !.pos = FALSE].states = e.states
        /\ ~[e EXCEPT !.pos = FALSE].pos
  BY DEF Events
<1>3. Cancel(es) \in [1 .. Len(es) -> Events]
  BY <1>1, <1>2 DEF Cancel
<1>4. Cancel(es) \in Seq(Events) /\ Len(Cancel(es)) = Len(es)
  BY <1>1, <1>3
<1>5. \A i \in 1 .. Len(es) : Cancel(es)[i] = [es[i] EXCEPT !.pos = FALSE]
  BY <1>1 DEF Cancel
<1> QED
  BY <1>1, <1>2, <1>4, <1>5

\* A move cancels what was on the way, and nothing of it comes back.
LEMMA MoveKeeps ==
    ASSUME NEW w \in Windows, NEW x \in Int, NEW t, t = Move(w, x)
    PROVE  /\ Like(w, t) /\ t.reqMax = w.reqMax /\ t.reqFull = w.reqFull
           /\ Cancelled(t)
<1> DEFINE rect == Rect(x, w.target.w)
           es == Cancel(w.events)
           f == IF w.frame.w = rect.w THEN rect ELSE w.frame
           b == FALSE
<1>1. /\ w.events \in Seq(Events) /\ w.frame \in Geometry /\ w.target \in Geometry
      /\ w.timer \in BOOLEAN
  BY Zenon DEF Windows
<1>2. rect \in Geometry
  BY <1>1 DEF Rect, Geometry
<1>3. f \in Geometry
  BY <1>1, <1>2
<1>4. b \in BOOLEAN
  OBVIOUS
<1>5. b = FALSE
  OBVIOUS
<1>6. /\ es \in Seq(Events) /\ Len(es) = Len(w.events)
      /\ \A i \in 1 .. Len(w.events) :
             es[i].serial = w.events[i].serial /\ es[i].states = w.events[i].states /\ ~es[i].pos
  BY <1>1, CancelKeeps
<1>7. t = WithGeometry(w, rect, f, b, w.timer, es)
  BY DEF Move, MoveInternal, Cancel, WithGeometry, Windows
<1>8. w.target = w.frame => f = rect
  BY <1>1 DEF Rect
<1>9. rect.w = w.target.w
  BY DEF Rect
<1> HIDE DEF f, b, es, rect
<1>10. es \in Seq(Events) /\ w.timer \in BOOLEAN
  BY <1>1, <1>6
<1>11. /\ t \in Windows /\ t.target = rect /\ t.frame = f /\ t.flag = b /\ t.timer = w.timer
       /\ t.events = es
       /\ t.states = w.states /\ t.ack = w.ack /\ t.initialized = w.initialized
       /\ t.ready = w.ready /\ t.grab = w.grab /\ t.newGeometry = w.newGeometry
       /\ t.next = w.next /\ t.reqMax = w.reqMax /\ t.reqFull = w.reqFull
  BY <1>2, <1>3, <1>4, <1>7, <1>10, GeometrySet
<1>12. t.events = <<>> => w.events = <<>>
  BY <1>1, <1>6, <1>11
<1>13. Agrees(w) => Agrees(t)
  BY <1>8, <1>11, <1>12, Zenon DEF Agrees
<1>14. Like(w, t)
  BY <1>6, <1>11, <1>13, Zenon DEF Like
<1>15. Cancelled(t)
  BY <1>5, <1>6, <1>11, Zenon DEF Cancelled
<1> QED
  BY <1>11, <1>14, <1>15

\* Maximizing, and the way back: nothing happens, or the modes that are asked for change.
LEMMA MaximizeKeeps ==
    ASSUME NEW w \in Windows, NEW mode \in BOOLEAN, NEW t, t = Maximize(w, mode)
    PROVE  /\ Like(w, t) /\ t.reqFull = w.reqFull
           /\ t = w \/ (t.reqMax # w.reqMax /\ t.timer)
           /\ t.reqMax \in {w.reqMax, mode}
<1>1. CASE w.reqFull \/ w.reqMax = mode
  <2>1. t = w
    BY <1>1 DEF Maximize
  <2> QED
    BY <2>1, LikeItself
<1>2. CASE ~(w.reqFull \/ w.reqMax = mode)
  <2> DEFINE saved == IF mode THEN w.target ELSE w.restore
             rect == CASE mode -> MaximizeArea
                       [] ~mode /\ saved.w > 0 -> saved
                       [] OTHER -> Rect(0, 0)
             v == WithModes(w, mode, w.reqFull, saved, w.fsRestore)
             no == FALSE
             u == MoveResize(v, rect, no)
             max == "maximized"
  <2>1. /\ w.target \in Geometry /\ w.restore \in Geometry /\ w.fsRestore \in Geometry
        /\ w.reqMax \in BOOLEAN /\ w.reqFull \in BOOLEAN
    BY Zenon DEF Windows
  <2>2. saved \in Geometry
    BY <2>1
  <2>3. rect \in Geometry
    BY <2>2, SizesAssumption DEF MaximizeArea, Rect, Geometry
  <2>4. no \in BOOLEAN /\ max \in States
    BY DEF States
  <2>5. [w EXCEPT !.reqMax = mode, !.restore = saved] = v
    BY <2>1 DEF WithModes, Windows
  <2>6. t = SetState(MoveResize([w EXCEPT !.reqMax = mode, !.restore = saved], rect, FALSE),
                     max, mode)
    BY <1>2, Zenon DEF Maximize
  <2>7. t = SetState(u, max, mode)
    BY <2>5, <2>6
  <2> HIDE DEF saved, rect, no, max, v, u
  <2>8. Like(w, v) /\ v.reqMax = mode /\ v.reqFull = w.reqFull /\ v \in Windows
    <3>1. Like(w, v) /\ v.reqMax = mode /\ v.reqFull = w.reqFull
      BY <2>1, <2>2, ModesSet DEF v
    <3> QED
      BY <3>1, Zenon DEF Like
  <2>9. Like(v, u) /\ u.reqMax = v.reqMax /\ u.reqFull = v.reqFull /\ u \in Windows
    <3>1. Like(v, u) /\ u.reqMax = v.reqMax /\ u.reqFull = v.reqFull
      BY <2>3, <2>4, <2>8, MoveResizeKeeps DEF u
    <3> QED
      BY <3>1, Zenon DEF Like
  <2>10. Like(u, t) /\ t.timer /\ t.reqMax = u.reqMax /\ t.reqFull = u.reqFull
    BY <2>4, <2>7, <2>9, SetStateKeeps
  <2>11. Like(w, t)
    BY <2>8, <2>9, <2>10, LikeTransitive
  <2> QED
    BY <1>2, <2>8, <2>9, <2>10, <2>11
<1> QED
  BY <1>1, <1>2

LEMMA SetFullScreenKeeps ==
    ASSUME NEW w \in Windows, NEW set \in BOOLEAN, NEW t, t = SetFullScreen(w, set)
    PROVE  /\ Like(w, t) /\ t.reqMax = w.reqMax
           /\ t = w \/ (t.reqFull # w.reqFull /\ t.timer)
           /\ t.reqFull = set
<1>1. CASE w.reqFull = set
  <2>1. t = w
    BY <1>1 DEF SetFullScreen
  <2> QED
    BY <1>1, <2>1, LikeItself
<1>2. CASE w.reqFull # set
  <2> DEFINE saved == IF set THEN w.target ELSE w.fsRestore
             rect == CASE set -> FullScreenArea
                       [] ~set /\ saved.w > 0 -> saved
                       [] OTHER -> Rect(0, 0)
             v == WithModes(w, w.reqMax, set, w.restore, saved)
             no == FALSE
             u == MoveResize(v, rect, no)
             full == "fullscreen"
  <2>1. /\ w.target \in Geometry /\ w.restore \in Geometry /\ w.fsRestore \in Geometry
        /\ w.reqMax \in BOOLEAN /\ w.reqFull \in BOOLEAN
    BY Zenon DEF Windows
  <2>2. saved \in Geometry
    BY <2>1
  <2>3. rect \in Geometry
    BY <2>2, SizesAssumption DEF FullScreenArea, Rect, Geometry
  <2>4. no \in BOOLEAN /\ full \in States
    BY DEF States
  <2>5. [w EXCEPT !.reqFull = set, !.fsRestore = saved] = v
    BY <2>1 DEF WithModes, Windows
  <2>6. t = SetState(MoveResize([w EXCEPT !.reqFull = set, !.fsRestore = saved], rect, FALSE),
                     full, set)
    BY <1>2, Zenon DEF SetFullScreen
  <2>7. t = SetState(u, full, set)
    BY <2>5, <2>6
  <2> HIDE DEF saved, rect, no, full, v, u
  <2>8. Like(w, v) /\ v.reqMax = w.reqMax /\ v.reqFull = set /\ v \in Windows
    <3>1. Like(w, v) /\ v.reqMax = w.reqMax /\ v.reqFull = set
      BY <2>1, <2>2, ModesSet DEF v
    <3> QED
      BY <3>1, Zenon DEF Like
  <2>9. Like(v, u) /\ u.reqMax = v.reqMax /\ u.reqFull = v.reqFull /\ u \in Windows
    <3>1. Like(v, u) /\ u.reqMax = v.reqMax /\ u.reqFull = v.reqFull
      BY <2>3, <2>4, <2>8, MoveResizeKeeps DEF u
    <3> QED
      BY <3>1, Zenon DEF Like
  <2>10. Like(u, t) /\ t.timer /\ t.reqMax = u.reqMax /\ t.reqFull = u.reqFull
    BY <2>4, <2>7, <2>9, SetStateKeeps
  <2>11. Like(w, t)
    BY <2>8, <2>9, <2>10, LikeTransitive
  <2> QED
    BY <1>2, <2>8, <2>9, <2>10, <2>11
<1> QED
  BY <1>1, <1>2

WithBirth(w) == [w EXCEPT !.initialized = TRUE]

\* A window that is committed for the first time has a configure event to be sent and
\* none on the way; one that is only placed has no position that is still to be taken.
LEMMA InitializeKeeps ==
    ASSUME NEW w \in Windows, Unborn(w), NEW x \in Int, NEW t, t = Initialize(w, x)
    PROVE  /\ t \in Windows /\ t.timer /\ t.initialized /\ ~t.ready /\ t.events = <<>>
           /\ t.ack = w.ack /\ t.grab = w.grab
           /\ ~(t.reqMax \/ t.reqFull) => Cancelled(t)
<1> DEFINE toMax == "maximized" \in w.initial
           toFull == "fullscreen" \in w.initial
           m == Maximize(w, toMax)
           f == SetFullScreen(m, toFull)
           p == IF f.reqMax \/ f.reqFull THEN f ELSE Move(f, x)
           q == ScheduleConfigure(p)
<1>1. t = WithBirth(q)
  BY DEF Initialize, WithBirth
<1>2. toMax \in BOOLEAN /\ toFull \in BOOLEAN
  OBVIOUS
<1> HIDE DEF toMax, toFull, m, f, p, q
<1>3. Like(w, m) /\ m \in Windows
  <2>1. Like(w, m)
    BY <1>2, MaximizeKeeps DEF m
  <2> QED
    BY <2>1, Zenon DEF Like
<1>4. Like(w, f) /\ f \in Windows
  <2>1. Like(m, f)
    BY <1>2, <1>3, SetFullScreenKeeps DEF f
  <2>2. Like(w, f)
    BY <1>3, <2>1, LikeTransitive
  <2> QED
    BY <2>2, Zenon DEF Like
<1>5. /\ Like(w, p) /\ p \in Windows
      /\ ~(p.reqMax \/ p.reqFull) => Cancelled(p)
  <2>1. CASE f.reqMax \/ f.reqFull
    BY <1>4, <2>1 DEF p
  <2>2. CASE ~(f.reqMax \/ f.reqFull)
    <3>1. p = Move(f, x)
      BY <2>2 DEF p
    <3>2. Like(f, p) /\ Cancelled(p)
      BY <1>4, <3>1, MoveKeeps
    <3>3. Like(w, p)
      BY <1>4, <3>2, LikeTransitive
    <3> QED
      BY <3>2, <3>3, Zenon DEF Like
  <2> QED
    BY <2>1, <2>2
<1>6. /\ Like(p, q) /\ q.timer /\ q.reqMax = p.reqMax /\ q.reqFull = p.reqFull
      /\ q.flag = p.flag /\ q.events = p.events
  BY <1>5, ScheduleKeeps DEF q
<1>7. Like(w, q) /\ q \in Windows
  <2>1. Like(w, q)
    BY <1>5, <1>6, LikeTransitive
  <2> QED
    BY <2>1, Zenon DEF Like
<1>8. q.ack = w.ack /\ q.grab = w.grab /\ q.ready = w.ready /\ Len(q.events) = Len(w.events)
  BY <1>7, Zenon DEF Like
<1>9. ~w.ready /\ w.events = <<>>
  BY DEF Unborn
<1>10. q.events \in Seq(Events)
  BY <1>7, Zenon DEF Windows
<1>11. q.events = <<>>
  BY <1>8, <1>9, <1>10
<1>12. /\ t \in Windows /\ t.initialized = TRUE /\ t.timer = q.timer /\ t.ready = q.ready
       /\ t.events = q.events /\ t.ack = q.ack /\ t.grab = q.grab /\ t.reqMax = q.reqMax
       /\ t.reqFull = q.reqFull /\ t.flag = q.flag
  BY <1>1, <1>7, Zenon DEF WithBirth, Windows
<1>13. ~(t.reqMax \/ t.reqFull) => Cancelled(t)
  <2> SUFFICES ASSUME ~(t.reqMax \/ t.reqFull) PROVE Cancelled(t)
    OBVIOUS
  <2>1. Cancelled(p)
    BY <1>5, <1>6, <1>12
  <2>2. t.flag = p.flag /\ t.events = p.events
    BY <1>6, <1>12
  <2> QED
    BY <2>1, <2>2, Zenon DEF Cancelled
<1> QED
  BY <1>6, <1>8, <1>9, <1>11, <1>12, <1>13

-----------------------------------------------------------------------------
(* The commit of the client.                                               *)

WithPlace(w, es, a, f, n) ==
    [w EXCEPT !.events = es, !.target = a, !.frame = f, !.newGeometry = n]

WithCommit(w, s, m, l) ==
    [w EXCEPT !.states = s, !.max = m, !.full = l, !.ack = 0, !.ready = TRUE]

LEMMA PlaceSet ==
    ASSUME NEW w \in Windows, NEW es \in Seq(Events), NEW a \in Geometry, NEW f \in Geometry,
           NEW n \in BOOLEAN, NEW t, t = WithPlace(w, es, a, f, n)
    PROVE  /\ t \in Windows
           /\ t.events = es /\ t.target = a /\ t.frame = f /\ t.newGeometry = n
           /\ t.states = w.states /\ t.initialized = w.initialized /\ t.flag = w.flag
           /\ t.timer = w.timer /\ t.grab = w.grab /\ t.max = w.max /\ t.full = w.full
           /\ t.next = w.next /\ t.reqMax = w.reqMax /\ t.reqFull = w.reqFull
BY Zenon DEF WithPlace, Windows

LEMMA CommitSet ==
    ASSUME NEW w \in Windows, NEW s \in SUBSET States, NEW m \in BOOLEAN, NEW l \in BOOLEAN,
           NEW t, t = WithCommit(w, s, m, l)
    PROVE  /\ t \in Windows
           /\ t.states = s /\ t.ack = 0 /\ t.ready
           /\ t.events = w.events /\ t.target = w.target /\ t.frame = w.frame
           /\ t.initialized = w.initialized /\ t.flag = w.flag
           /\ t.timer = w.timer /\ t.grab = w.grab
           /\ t.next = w.next /\ t.reqMax = w.reqMax /\ t.reqFull = w.reqFull
<1>1. 0 \in Nat
  OBVIOUS
<1> QED
  BY <1>1, Zenon DEF WithCommit, Windows

\* The window takes the width the client shows, on the side that the last
\* acknowledged event says, and its position only when that event has one.
Placed(w, conf, es, width, t) ==
    \E a, f \in Geometry, n \in BOOLEAN :
        /\ t = WithPlace(w, es, a, f, n)
        /\ w.grab = "None" /\ ~w.timer /\ es = <<>> => a = f
        /\ conf = <<>> \/ ~Last(conf).pos => f.x = w.frame.x
        /\ a = w.target \/ (a.w = width /\ Adopts(w, es))

LEMMA NextGeometryKeeps ==
    ASSUME NEW w \in Windows, NEW conf \in Seq(Events), NEW es \in Seq(Events),
           NEW width \in Nat,
           NEW v, v = [w EXCEPT !.events = es],
           NEW t, t = [HandleNextWindowGeometry(v, conf, width) EXCEPT !.newGeometry = FALSE]
    PROVE  Placed(w, conf, es, width, t)
<1> DEFINE kept == Rect(w.frame.x, width)
           f == IF conf # <<>> /\ Last(conf).pos
                THEN Gravitate(kept, Last(conf).bounds, Last(conf).gravity)
                ELSE kept
           owed == v.timer \/ \E i \in DOMAIN es : es[i].pos
           a == IF w.grab = "None" /\ ~owed THEN f ELSE w.target
           n == FALSE
<1>1. /\ w.frame \in Geometry /\ w.target \in Geometry /\ w.timer \in BOOLEAN
  BY Zenon DEF Windows
<1>2. v \in Windows /\ v.frame = w.frame /\ v.target = w.target /\ v.timer = w.timer
      /\ v.grab = w.grab /\ v.events = es
  BY Zenon DEF Windows
<1>3. kept \in Geometry /\ kept.x = w.frame.x /\ kept.w = width
  BY <1>1 DEF Rect, Geometry
<1>4. f \in Geometry /\ f.w = width
  <2>1. CASE conf # <<>> /\ Last(conf).pos
    <3>1. Last(conf) \in Events
      BY <2>1 DEF Last
    <3>2. Last(conf).bounds \in Geometry
      BY <3>1 DEF Events
    <3> DEFINE b == Last(conf).bounds
    <3>3. b.x \in Int /\ b.w \in Nat /\ kept.w \in Nat
      BY <1>3, <3>2 DEF Geometry
    <3>4. b.x + b.w - kept.w \in Int
      BY <3>3
    <3>5. \A z \in Int : Rect(z, kept.w) \in Geometry /\ Rect(z, kept.w).w = kept.w
      BY <3>3 DEF Rect, Geometry
    <3>6. /\ Gravitate(kept, b, Last(conf).gravity) \in Geometry
          /\ Gravitate(kept, b, Last(conf).gravity).w = kept.w
      BY <3>3, <3>4, <3>5 DEF Gravitate
    <3> QED
      BY <1>3, <2>1, <3>6
  <2> QED
    BY <1>3, <2>1
<1>5. a \in Geometry
  BY <1>1, <1>4
<1>6. n \in BOOLEAN
  OBVIOUS
<1>7. HandleNextWindowGeometry(v, conf, width)
        = [(IF v.grab = "None" THEN MaybeUpdateMoveResizeGeometry(v, f) ELSE v)
             EXCEPT !.frame = f]
  BY <1>2 DEF HandleNextWindowGeometry
<1>8. owed <=> v.timer \/ \E i \in DOMAIN v.events : v.events[i].pos
  BY <1>2
<1>9. ~w.timer /\ es = <<>> => ~owed
  BY <1>2
<1>10. conf = <<>> \/ ~Last(conf).pos => f.x = w.frame.x
  BY <1>3
<1> DEFINE moved == IF v.grab = "None" THEN MaybeUpdateMoveResizeGeometry(v, f) ELSE v
<1> HIDE DEF f, owed
<1>11. moved = [v EXCEPT !.target = a]
  <2>1. CASE v.grab = "None" /\ ~owed
    BY <1>2, <1>8, <2>1 DEF MaybeUpdateMoveResizeGeometry
  <2>2. CASE ~(v.grab = "None" /\ ~owed)
    <3>1. moved = v
      BY <1>2, <1>8, <2>2 DEF MaybeUpdateMoveResizeGeometry
    <3>2. a = v.target
      BY <1>2, <2>2
    <3>3. v = [v EXCEPT !.target = v.target]
      BY <1>2, Zenon DEF Windows
    <3> QED
      BY <3>1, <3>2, <3>3
  <2> QED
    BY <2>1, <2>2
<1>12. t = [[moved EXCEPT !.frame = f] EXCEPT !.newGeometry = n]
  BY <1>7
<1>13. w.grab = "None" /\ ~w.timer /\ es = <<>> => a = f
  BY <1>9
<1>15. a = w.target \/ (a.w = width /\ Adopts(w, es))
  BY <1>2, <1>4 DEF Adopts, owed
<1> HIDE DEF a, n, moved
<1>14. t = WithPlace(w, es, a, f, n)
  BY <1>11, <1>12 DEF WithPlace, Windows
<1> QED
  BY <1>4, <1>5, <1>6, <1>10, <1>13, <1>14, <1>15 DEF Placed

\* What a commit that shows something does to the window and its queue.
LEMMA HandleCommitKeeps ==
    ASSUME NEW w \in Windows, NEW width \in Nat \ {0},
           NEW from, NEW to, Ascend(w.events, from, to),
           NEW t, t = HandleCommit(w, width)
    PROVE  /\ t \in Windows /\ t.events = Queued(w) /\ t.ack = 0 /\ t.ready
           /\ t.next = w.next /\ t.timer = w.timer /\ t.flag = w.flag /\ t.grab = w.grab
           /\ t.initialized = w.initialized
           /\ t.states = IF Covered(w) = <<>> THEN w.states ELSE Last(Covered(w)).states
           /\ ~w.newGeometry /\ Covered(w) = <<>> => t.target = w.target /\ t.frame = w.frame
           /\ \/ w.newGeometry
              \/ Covered(w) # <<>>
              => (w.grab = "None" /\ ~w.timer /\ Queued(w) = <<>> => t.target = t.frame)
           /\ Covered(w) = <<>> \/ ~Last(Covered(w)).pos => t.frame.x = w.frame.x
           /\ \/ t.target = w.target
              \/ /\ t.target.w = width /\ Adopts(w, Queued(w))
                 /\ w.newGeometry \/ Covered(w) # <<>>
<1> DEFINE conf == Covered(w)
           es == Queued(w)
           v == [w EXCEPT !.events = es]
           next == HandleNextWindowGeometry(v, conf, width)
           placed == IF v.newGeometry \/ conf # <<>> THEN [next EXCEPT !.newGeometry = FALSE]
                     ELSE v
           role == IF conf # <<>> THEN HandleStatesAcknowledged(placed, Last(conf).states)
                                  ELSE placed
<1>1. t = [role EXCEPT !.ack = 0, !.ready = TRUE]
  BY Zenon DEF HandleCommit
<1>2. conf \in Seq(Events) /\ es \in Seq(Events)
  BY QueueSplits
<1>3. v.newGeometry = w.newGeometry
  BY Zenon DEF Windows
<1>4. /\ w.target \in Geometry /\ w.frame \in Geometry /\ w.newGeometry \in BOOLEAN
      /\ width \in Nat
  BY Zenon DEF Windows
<1> HIDE DEF conf, es, next
<1>5. PICK a, f \in Geometry, n \in BOOLEAN :
        /\ placed = WithPlace(w, es, a, f, n)
        /\ ~w.newGeometry /\ conf = <<>> => a = w.target /\ f = w.frame
        /\ (w.newGeometry \/ conf # <<>>)
              => (w.grab = "None" /\ ~w.timer /\ es = <<>> => a = f)
        /\ conf = <<>> \/ ~Last(conf).pos => f.x = w.frame.x
        /\ \/ a = w.target
           \/ a.w = width /\ Adopts(w, es) /\ (w.newGeometry \/ conf # <<>>)
  <2>1. CASE w.newGeometry \/ conf # <<>>
    <3>1. placed = [HandleNextWindowGeometry(v, conf, width) EXCEPT !.newGeometry = FALSE]
      BY <1>3, <2>1 DEF next
    <3> HIDE DEF placed, v
    <3>2. v = [w EXCEPT !.events = es]
      BY DEF v
    <3>3. Placed(w, conf, es, width, placed)
      BY <1>2, <1>4, <3>1, <3>2, NextGeometryKeeps
    <3> QED
      BY <2>1, <3>3 DEF Placed
  <2>2. CASE ~(w.newGeometry \/ conf # <<>>)
    <3>1. placed = v
      BY <1>3, <2>2
    <3>2. v = WithPlace(w, es, w.target, w.frame, w.newGeometry)
      BY DEF WithPlace, Windows
    <3> HIDE DEF placed, v
    <3> QED
      BY <1>4, <2>2, <3>1, <3>2
  <2> QED
    BY <2>1, <2>2
<1> HIDE DEF v, placed
<1>6. /\ placed \in Windows
      /\ placed.events = es /\ placed.target = a /\ placed.frame = f
      /\ placed.states = w.states /\ placed.initialized = w.initialized
      /\ placed.flag = w.flag
      /\ placed.timer = w.timer /\ placed.grab = w.grab
      /\ placed.next = w.next
  <2>1. placed = WithPlace(w, es, a, f, n)
    BY <1>5
  <2> QED
    BY <1>2, <2>1, PlaceSet
<1>7. /\ placed.states \in SUBSET States /\ placed.max \in BOOLEAN /\ placed.full \in BOOLEAN
  BY <1>6, Zenon DEF Windows
<1>8. PICK s \in SUBSET States, modes \in BOOLEAN \X BOOLEAN :
        /\ t = WithCommit(placed, s, modes[1], modes[2])
        /\ s = IF conf = <<>> THEN w.states ELSE Last(conf).states
  <2>1. CASE conf = <<>>
    <3>1. role = placed
      BY <2>1
    <3>2. t = WithCommit(placed, placed.states, placed.max, placed.full)
      <4>1. t = [placed EXCEPT !.ack = 0, !.ready = TRUE]
        BY <1>1, <3>1
      <4>2. placed \in Windows
        BY <1>6
      <4> HIDE <1>6
      <4> QED
        BY <4>1, <4>2 DEF WithCommit, Windows
    <3> DEFINE modes == <<placed.max, placed.full>>
    <3>3. modes \in BOOLEAN \X BOOLEAN /\ modes[1] = placed.max /\ modes[2] = placed.full
      BY <1>7
    <3> HIDE DEF modes
    <3>4. t = WithCommit(placed, placed.states, modes[1], modes[2])
      BY <3>2, <3>3
    <3> QED
      BY <1>6, <1>7, <2>1, <3>3, <3>4
  <2>2. CASE conf # <<>>
    <3> DEFINE s == Last(conf).states
               m == IF ("maximized" \in placed.states) # ("maximized" \in s)
                    THEN "maximized" \in s ELSE placed.max
               l == IF ("fullscreen" \in placed.states) # ("fullscreen" \in s)
                    THEN "fullscreen" \in s ELSE placed.full
    <3>1. s \in SUBSET States
      <4>1. Last(conf) \in Events
        BY <1>2, <2>2 DEF Last
      <4> QED
        BY <4>1 DEF Events
    <3>2. m \in BOOLEAN /\ l \in BOOLEAN
      <4>1. ("maximized" \in s) \in BOOLEAN /\ ("fullscreen" \in s) \in BOOLEAN
        OBVIOUS
      <4> QED
        BY <1>7, <4>1, Zenon
    <3>3. role = [placed EXCEPT !.states = s, !.max = m, !.full = l]
      BY <2>2, Zenon DEF HandleStatesAcknowledged
    <3> HIDE DEF s, m, l, role
    <3>4. t = WithCommit(placed, s, m, l)
      BY <1>1, <1>6, <3>3 DEF WithCommit, Windows
    <3>5. s = Last(conf).states
      BY DEF s
    <3> DEFINE modes == <<m, l>>
    <3>6. modes \in BOOLEAN \X BOOLEAN /\ modes[1] = m /\ modes[2] = l
      BY <3>2
    <3> HIDE DEF modes
    <3>7. t = WithCommit(placed, s, modes[1], modes[2])
      BY <3>4, <3>6
    <3> QED
      BY <2>2, <3>1, <3>5, <3>6, <3>7
  <2> QED
    BY <2>1, <2>2
<1>9. /\ t \in Windows
      /\ t.states = s /\ t.ack = 0 /\ t.ready
      /\ t.events = placed.events /\ t.target = placed.target /\ t.frame = placed.frame
      /\ t.initialized = placed.initialized /\ t.flag = placed.flag
      /\ t.timer = placed.timer /\ t.grab = placed.grab
      /\ t.next = placed.next
  <2>1. t = WithCommit(placed, s, modes[1], modes[2])
    BY <1>8
  <2>2. /\ placed \in Windows /\ s \in SUBSET States
        /\ modes[1] \in BOOLEAN /\ modes[2] \in BOOLEAN
    BY <1>6, <1>8
  <2> QED
    BY <2>1, <2>2, CommitSet
<1> QED
  BY <1>5, <1>6, <1>8, <1>9 DEF conf, es

\* What the taken and the remaining events have from the queue that they were.
NewestKept(w) ==
    /\ Queued(w) = <<>> /\ Covered(w) = <<>> => w.events = <<>>
    /\ Queued(w) = <<>> /\ Covered(w) # <<>> =>
           w.events # <<>> /\ Last(Covered(w)) = w.events[Len(w.events)]
    /\ Queued(w) # <<>> =>
           w.events # <<>> /\ Queued(w)[Len(Queued(w))] = w.events[Len(w.events)]

PositionsKept(w) ==
    (\A i \in 1 .. Len(w.events) : ~w.events[i].pos) =>
        /\ \A i \in 1 .. Len(Queued(w)) : ~Queued(w)[i].pos
        /\ Covered(w) # <<>> => ~Last(Covered(w)).pos

LEMMA CommitQueue ==
    ASSUME NEW w \in Windows, NEW from \in Nat, NEW to \in Nat, Ascend(w.events, from, to),
           from <= to, NEW acked \in Nat, from <= acked, w.ack <= acked,
           NEW last, last = IF Covered(w) # <<>> THEN Last(Covered(w)).serial ELSE from
    PROVE  /\ last \in Nat /\ last <= acked /\ last <= to /\ Ascend(Queued(w), last, to)
           /\ NewestKept(w) /\ PositionsKept(w)
<1> DEFINE es == w.events
           c == Covered(w)
           q == Queued(w)
<1>1. es \in Seq(Events) /\ w.ack \in Nat
  BY Zenon DEF Windows
<1>2. c \in Seq(Events) /\ q \in Seq(Events)
  BY QueueSplits
<1>3. PICK n \in 0 .. Len(es) :
        /\ Len(c) = n /\ Len(q) = Len(es) - n
        /\ \A i \in 1 .. n : c[i] = es[i] /\ es[i].serial <= w.ack
        /\ \A i \in 1 .. Len(es) - n : q[i] = es[n + i] /\ w.ack < es[n + i].serial
  BY QueueSplits
<1>4. \A i \in 1 .. Len(es) : es[i].serial \in Nat
  <2>1. \A e \in Events : e.serial \in Nat
    BY DEF Events
  <2> QED
    BY <1>1, <2>1
<1>5. /\ \A i \in 1 .. Len(es) : from < es[i].serial /\ es[i].serial <= to
      /\ \A i, j \in 1 .. Len(es) : i < j => es[i].serial < es[j].serial
  BY Zenon DEF Ascend
<1>6. Last(c) = c[Len(c)]
  BY DEF Last
<1> HIDE DEF es, c, q
<1>7. Len(es) \in Nat /\ Len(c) \in Nat /\ Len(q) \in Nat
  BY <1>1, <1>2
<1>8. c # <<>> => n \in 1 .. Len(es) /\ Last(c) = es[n]
  BY <1>2, <1>3, <1>6, <1>7
<1>9. q # <<>> => Len(q) \in 1 .. Len(es) /\ q[Len(q)] = es[Len(es)] /\ n < Len(es)
  <2> SUFFICES ASSUME q # <<>>
               PROVE  Len(q) \in 1 .. Len(es) /\ q[Len(q)] = es[Len(es)] /\ n < Len(es)
    OBVIOUS
  <2>1. Len(q) # 0
    BY <1>2
  <2>2. Len(q) = Len(es) - n /\ n \in 0 .. Len(es)
    BY <1>3
  <2>3. Len(q) \in 1 .. Len(es) /\ Len(q) \in 1 .. Len(es) - n /\ n < Len(es)
        /\ n + Len(q) = Len(es)
    BY <1>7, <2>1, <2>2
  <2>4. q[Len(q)] = es[n + Len(q)]
    BY <1>3, <2>3
  <2> QED
    BY <2>3, <2>4
<1>10. (c = <<>> => n = 0) /\ (q = <<>> => n = Len(es))
  BY <1>2, <1>3, <1>7
<1>11. /\ last \in Nat /\ last <= acked /\ last <= to
       /\ \A i \in n + 1 .. Len(es) : last < es[i].serial
  <2>1. last = IF c # <<>> THEN Last(c).serial ELSE from
    BY DEF c
  <2>2. CASE c = <<>>
    BY <1>5, <1>7, <1>10, <2>1, <2>2
  <2>3. CASE c # <<>>
    <3>1. last = es[n].serial /\ n \in 1 .. Len(es)
      BY <1>8, <2>1, <2>3
    <3>2. es[n].serial <= w.ack
      BY <1>3, <3>1
    <3> QED
      BY <1>1, <1>4, <1>5, <1>7, <3>1, <3>2
  <2> QED
    BY <2>2, <2>3
<1>12. Ascend(q, last, to)
  <2>1. \A i \in 1 .. Len(q) : q[i] = es[n + i] /\ n + i \in n + 1 .. Len(es) /\ n + i \in 1 .. Len(es)
    BY <1>3, <1>7
  <2>2. \A i \in 1 .. Len(q) : last < q[i].serial /\ q[i].serial <= to
    BY <1>5, <1>11, <2>1
  <2>3. \A i, j \in 1 .. Len(q) : i < j => q[i].serial < q[j].serial
    <3> SUFFICES ASSUME NEW i \in 1 .. Len(q), NEW j \in 1 .. Len(q), i < j
                 PROVE  q[i].serial < q[j].serial
      OBVIOUS
    <3>1. n + i < n + j
      BY <1>7
    <3> QED
      BY <1>5, <2>1, <3>1
  <2> QED
    BY <2>2, <2>3 DEF Ascend
<1>13. (\A i \in 1 .. Len(es) : ~es[i].pos) => \A i \in 1 .. Len(q) : ~q[i].pos
  BY <1>3, <1>7
<1> QED
  BY <1>1, <1>7, <1>8, <1>9, <1>10, <1>11, <1>12, <1>13 DEF es, c, q, NewestKept, PositionsKept

-----------------------------------------------------------------------------
(* The invariant.                                                          *)

Sound(s, w, g) ==
    /\ s \in Surfaces /\ w \in Windows /\ g \in Ghosts
    /\ Ascend(w.events, g.applied, s.serial)
    /\ g.applied <= g.acked /\ g.applied <= s.serial /\ w.ack <= g.acked
    /\ Told(w)
    /\ ~g.dragged => Agrees(w)
    /\ ~g.asked => Cancelled(w)
    /\ w.initialized = s.initialized
    /\ ~w.initialized => Unborn(w)
    /\ Wished(w, g.wish)

\* A request keeps the invariant when it says truly whether it asked for a geometry.
LEMMA RequestSound ==
    ASSUME NEW s, NEW w, NEW g, Sound(s, w, g), NEW t, Like(w, t),
           NEW h \in Ghosts, h.acked = g.acked, h.applied = g.applied, h.dragged = g.dragged,
           ~h.asked => Cancelled(t), ~t.initialized => Unborn(t), Wished(t, h.wish)
    PROVE  Sound(s, t, h)
<1>1. /\ s \in Surfaces /\ w \in Windows /\ g \in Ghosts
      /\ Ascend(w.events, g.applied, s.serial)
      /\ g.applied <= g.acked /\ g.applied <= s.serial /\ w.ack <= g.acked
      /\ Told(w) /\ (~g.dragged => Agrees(w)) /\ w.initialized = s.initialized
  BY Zenon DEF Sound
<1>2. /\ t \in Windows /\ Len(t.events) = Len(w.events)
      /\ \A i \in 1 .. Len(w.events) :
             /\ t.events[i].serial = w.events[i].serial
             /\ t.events[i].states = w.events[i].states
      /\ t.states = w.states /\ t.ack = w.ack /\ t.initialized = w.initialized
      /\ w.timer => t.timer
      /\ ~t.timer => t.next = w.next
      /\ Agrees(w) => Agrees(t)
  BY Zenon DEF Like
<1>3. w.events \in Seq(Events) /\ t.events \in Seq(Events)
  BY <1>1, <1>2, Zenon DEF Windows
<1>4. Len(w.events) \in Nat
  BY <1>3
<1>5. Ascend(t.events, g.applied, s.serial)
  BY <1>1, <1>2, Zenon DEF Ascend
<1>6. Told(t)
  <2>1. t.events = <<>> <=> w.events = <<>>
    BY <1>2, <1>3
  <2>2. w.events # <<>> => t.events[Len(t.events)].states = w.events[Len(w.events)].states
    <3>1. w.events # <<>> => Len(w.events) \in 1 .. Len(w.events)
      BY <1>3, <1>4
    <3> QED
      BY <1>2, <3>1
  <2> QED
    BY <1>1, <1>2, <2>1, <2>2 DEF Told
<1> QED
  BY <1>1, <1>2, <1>5, <1>6, Zenon DEF Sound

\* What a commit of the surface brings: whether the geometry may have changed, an ack.
WithAnswer(w, n, a) == [w EXCEPT !.newGeometry = n, !.ack = a]

LEMMA AnswerSet ==
    ASSUME NEW w \in Windows, NEW n \in BOOLEAN, NEW a \in Nat, NEW t, t = WithAnswer(w, n, a)
    PROVE  /\ t \in Windows
           /\ t.newGeometry = n /\ t.ack = a
           /\ t.events = w.events /\ t.target = w.target /\ t.frame = w.frame
           /\ t.states = w.states /\ t.initialized = w.initialized /\ t.flag = w.flag
           /\ t.timer = w.timer /\ t.grab = w.grab /\ t.ready = w.ready
           /\ t.next = w.next /\ t.reqMax = w.reqMax /\ t.reqFull = w.reqFull
BY Zenon DEF WithAnswer, Windows

\* A commit keeps the invariant, and leaves a window that was moved where it is.
LEMMA CommitSound ==
    ASSUME Sound(surf, win, ghost), NEW width \in Nat, NEW ack \in Nat, NEW x \in Int,
           CommitWith(width, ack, x)
    PROVE  /\ Sound(surf', win', ghost')
           /\ win.ready /\ ~ghost.asked => win'.frame.x = win.frame.x
<1> DEFINE n == win.newGeometry \/ width # surf.buffer
           a == IF ack # 0 THEN ack ELSE win.ack
           w0 == WithAnswer(win, n, a)
           w1 == IF surf.initialized THEN w0 ELSE Initialize(w0, x)
           last == IF Covered(w1) # <<>> THEN Last(Covered(w1)).serial ELSE ghost.applied
<1>1. /\ surf \in Surfaces /\ win \in Windows /\ ghost \in Ghosts
      /\ Ascend(win.events, ghost.applied, surf.serial)
      /\ ghost.applied <= ghost.acked /\ ghost.applied <= surf.serial /\ win.ack <= ghost.acked
      /\ Told(win) /\ (~ghost.dragged => Agrees(win)) /\ (~ghost.asked => Cancelled(win))
      /\ win.initialized = surf.initialized
      /\ ~win.initialized => Unborn(win)
      /\ Wished(win, ghost.wish)
  BY Zenon DEF Sound
<1>2. /\ win.newGeometry \in BOOLEAN /\ win.ack \in Nat
      /\ ghost.acked \in Nat /\ ghost.applied \in Nat /\ surf.serial \in Nat
      /\ surf.initialized \in BOOLEAN /\ surf.buffer \in Nat /\ ghost.wish \in Nat
  BY <1>1, Zenon DEF Windows, Ghosts, Surfaces
<1>3. n \in BOOLEAN /\ a \in Nat
  BY <1>2
<1>4. /\ surf' \in Surfaces /\ surf'.serial = surf.serial /\ surf'.initialized
  <2>1. surf' = [surf EXCEPT !.buffer = width, !.firstBuffer = @ \/ width # 0,
                             !.initialized = TRUE]
    BY Zenon DEF CommitWith
  <2> QED
    BY <1>1, <2>1 DEF Surfaces
<1>4a. PICK w \in {Hearing(width, ack, x)} :
          /\ win' = HandleCommit(w, width)
          /\ ghost' = [asked |-> IF surf.initialized THEN ghost.asked ELSE w.reqMax \/ w.reqFull,
                       acked |-> IF ack > ghost.acked THEN ack ELSE ghost.acked,
                       applied |-> IF width # 0 /\ Covered(w) # <<>>
                                   THEN Last(Covered(w)).serial ELSE ghost.applied,
                       dragged |-> IF width # 0 /\ (w.newGeometry \/ Covered(w) # <<>>)
                                   THEN win.grab # "None" ELSE ghost.dragged,
                       wish |-> CASE ~surf.initialized -> w.target.w
                                  [] surf.initialized /\ Chooses(w, width) -> 0
                                  [] OTHER -> ghost.wish]
  BY Zenon DEF CommitWith
<1>4b. w = w1
  BY <1>4a, Zenon DEF Hearing, WithAnswer
<1>5. win' = HandleCommit(w1, width)
  BY <1>4a, <1>4b, Zenon
<1>6. ghost' = [asked |-> IF surf.initialized THEN ghost.asked ELSE w1.reqMax \/ w1.reqFull,
                acked |-> IF ack > ghost.acked THEN ack ELSE ghost.acked,
                applied |-> IF width # 0 /\ Covered(w1) # <<>>
                            THEN Last(Covered(w1)).serial ELSE ghost.applied,
                dragged |-> IF width # 0 /\ (w1.newGeometry \/ Covered(w1) # <<>>)
                            THEN win.grab # "None" ELSE ghost.dragged,
                wish |-> CASE ~surf.initialized -> w1.target.w
                           [] surf.initialized /\ Chooses(w1, width) -> 0
                           [] OTHER -> ghost.wish]
  BY <1>4a, <1>4b, Zenon
<1> HIDE DEF n, a
<1>7. /\ w0 \in Windows /\ w0.ack = a
      /\ w0.events = win.events /\ w0.target = win.target /\ w0.frame = win.frame
      /\ w0.states = win.states /\ w0.initialized = win.initialized /\ w0.flag = win.flag
      /\ w0.timer = win.timer /\ w0.grab = win.grab /\ w0.ready = win.ready
      /\ w0.next = win.next /\ w0.reqMax = win.reqMax /\ w0.reqFull = win.reqFull
  BY <1>1, <1>3, AnswerSet
<1> HIDE DEF w0, w1
<1>8. /\ w1 \in Windows /\ w1.ack = a /\ w1.grab = win.grab /\ w1.initialized
      /\ Ascend(w1.events, ghost.applied, surf.serial)
      /\ Told(w1) /\ (~ghost.dragged => Agrees(w1)) /\ (~ghost'.asked => Cancelled(w1))
      /\ surf.initialized => w1.frame = win.frame /\ ghost'.asked = ghost.asked
      /\ surf.initialized => Wished(w1, ghost.wish)
      /\ ~surf.initialized => w1.timer
  <2>1. CASE surf.initialized
    <3>1. w1 = w0
      BY <2>1 DEF w1
    <3>2. ghost'.asked = ghost.asked
      BY <1>6, <2>1
    <3>3. Told(w1) /\ (~ghost.dragged => Agrees(w1)) /\ (~ghost'.asked => Cancelled(w1))
          /\ Wished(w1, ghost.wish)
      BY <1>1, <1>7, <3>1, <3>2, Zenon DEF Told, Agrees, Cancelled, Wished
    <3> QED
      BY <1>1, <1>7, <2>1, <3>1, <3>2, <3>3
  <2>2. CASE ~surf.initialized
    <3>1. w1 = Initialize(w0, x)
      BY <2>2 DEF w1
    <3>2. Unborn(w0)
      BY <1>1, <1>7, <2>2, Zenon DEF Unborn
    <3>3. /\ w1 \in Windows /\ w1.timer /\ w1.initialized /\ w1.events = <<>>
          /\ w1.ack = w0.ack /\ w1.grab = w0.grab
          /\ ~(w1.reqMax \/ w1.reqFull) => Cancelled(w1)
      BY <1>7, <3>1, <3>2, InitializeKeeps
    <3>4. ghost'.asked = (w1.reqMax \/ w1.reqFull)
      BY <1>6, <2>2
    <3>5. Told(w1) /\ Agrees(w1)
      BY <3>3, Zenon DEF Told, Agrees
    <3>6. Ascend(w1.events, ghost.applied, surf.serial)
      BY <3>3 DEF Ascend
    <3> QED
      BY <1>7, <2>2, <3>3, <3>4, <3>5, <3>6
  <2> QED
    BY <2>1, <2>2
<1>9. /\ ghost'.acked \in Nat /\ ghost.acked <= ghost'.acked /\ a <= ghost'.acked
  BY <1>1, <1>2, <1>6 DEF a
<1>10. win.ready => surf.initialized
  BY <1>1, Zenon DEF Unborn
<1> DEFINE wish == IF ~surf.initialized THEN w1.target.w
                   ELSE IF Chooses(w1, width) THEN 0 ELSE ghost.wish
<1>13. ghost'.wish = wish /\ wish \in Nat /\ (~surf.initialized => Wished(w1, w1.target.w))
  <2>1. w1.target.w \in Nat
    <3>1. w1.target \in Geometry
      BY <1>8, Zenon DEF Windows
    <3> QED
      BY <3>1 DEF Geometry
  <2>2. ghost'.wish = wish
    BY <1>6
  <2> QED
    BY <1>2, <1>8, <2>1, <2>2 DEF Wished
<1> HIDE DEF wish
<1>11. CASE width = 0
  <2>1. win' = w1
    BY <1>5, <1>11 DEF HandleCommit
  <2>2. ghost'.applied = ghost.applied /\ ghost'.dragged = ghost.dragged /\ ghost' \in Ghosts
    <3>1. w1.reqMax \in BOOLEAN /\ w1.reqFull \in BOOLEAN
      BY <1>8, Zenon DEF Windows
    <3> QED
      BY <1>1, <1>2, <1>6, <1>9, <1>11, <1>13, <3>1 DEF Ghosts
  <2>3. /\ ghost'.applied <= ghost'.acked /\ ghost'.applied <= surf'.serial
        /\ win'.ack <= ghost'.acked
    BY <1>1, <1>2, <1>4, <1>8, <1>9, <2>1, <2>2
  <2>4. /\ win' \in Windows /\ Ascend(win'.events, ghost'.applied, surf'.serial)
        /\ Told(win') /\ (~ghost'.dragged => Agrees(win')) /\ (~ghost'.asked => Cancelled(win'))
        /\ win'.initialized
    BY <1>4, <1>8, <2>1, <2>2
  <2>5. win'.initialized = surf'.initialized
    <3>1. win'.initialized \in BOOLEAN /\ surf'.initialized \in BOOLEAN
      BY <1>4, <2>4, Zenon DEF Windows, Surfaces
    <3> QED
      BY <1>4, <2>4, <3>1
  <2>7. Wished(win', ghost'.wish)
    <3>1. ~Chooses(w1, width)
      BY <1>11 DEF Chooses
    <3> QED
      BY <1>8, <1>13, <2>1, <3>1 DEF wish
  <2>6. Sound(surf', win', ghost')
    BY <1>4, <2>2, <2>3, <2>4, <2>5, <2>7, Zenon DEF Sound
  <2> QED
    BY <1>8, <1>10, <2>1, <2>6
<1>12. CASE width # 0
  <2>1. /\ win' \in Windows /\ win'.events = Queued(w1) /\ win'.ack = 0 /\ win'.ready
        /\ win'.next = w1.next /\ win'.timer = w1.timer /\ win'.flag = w1.flag
        /\ win'.initialized = w1.initialized
        /\ win'.states = IF Covered(w1) = <<>> THEN w1.states ELSE Last(Covered(w1)).states
        /\ ~w1.newGeometry /\ Covered(w1) = <<>> =>
              win'.target = w1.target /\ win'.frame = w1.frame
        /\ \/ w1.newGeometry
           \/ Covered(w1) # <<>>
           => (w1.grab = "None" /\ ~w1.timer /\ Queued(w1) = <<>> => win'.target = win'.frame)
        /\ Covered(w1) = <<>> \/ ~Last(Covered(w1)).pos => win'.frame.x = w1.frame.x
        /\ \/ win'.target = w1.target
           \/ /\ win'.target.w = width /\ Adopts(w1, Queued(w1))
              /\ w1.newGeometry \/ Covered(w1) # <<>>
    <3>1. w1 \in Windows /\ width \in Nat \ {0} /\ Ascend(w1.events, ghost.applied, surf.serial)
      BY <1>8, <1>12
    <3> QED
      BY <1>5, <3>1, HandleCommitKeeps
  <2>2. /\ last \in Nat /\ last <= ghost'.acked /\ last <= surf.serial
        /\ Ascend(Queued(w1), last, surf.serial)
        /\ NewestKept(w1) /\ PositionsKept(w1)
    <3>1. ghost.applied <= ghost'.acked /\ w1.ack <= ghost'.acked
      BY <1>1, <1>2, <1>3, <1>8, <1>9
    <3> HIDE DEF last
    <3>2. last = IF Covered(w1) # <<>> THEN Last(Covered(w1)).serial ELSE ghost.applied
      BY DEF last
    <3> QED
      BY <1>1, <1>2, <1>8, <1>9, <3>1, <3>2, CommitQueue
  <2>3. ghost'.applied = last
    BY <1>6, <1>12
  <2> HIDE DEF last
  <2>4. ghost' \in Ghosts
    <3>1. w1.reqMax \in BOOLEAN /\ w1.reqFull \in BOOLEAN
      BY <1>8, Zenon DEF Windows
    <3>2. ghost'.applied \in Nat
      BY <2>2, <2>3
    <3>3. ghost'.asked \in BOOLEAN /\ ghost'.dragged \in BOOLEAN
      BY <1>1, <1>6, <3>1 DEF Ghosts
    <3>4. ghost' = [asked |-> ghost'.asked, acked |-> ghost'.acked,
                    applied |-> ghost'.applied, dragged |-> ghost'.dragged,
                    wish |-> ghost'.wish]
      BY <1>6
    <3> QED
      BY <1>9, <1>13, <3>2, <3>3, <3>4 DEF Ghosts
  <2>5. /\ ghost'.applied <= ghost'.acked /\ ghost'.applied <= surf'.serial
        /\ win'.ack <= ghost'.acked /\ Ascend(win'.events, ghost'.applied, surf'.serial)
    BY <1>4, <1>9, <2>1, <2>2, <2>3
  <2>6. Told(win')
    <3> HIDE <1>6
    <3> SUFFICES ASSUME ~win'.timer
                 PROVE  win'.next = IF win'.events = <<>> THEN win'.states
                                    ELSE win'.events[Len(win'.events)].states
      BY DEF Told
    <3>1. w1.next = IF w1.events = <<>> THEN w1.states ELSE w1.events[Len(w1.events)].states
      BY <1>8, <2>1 DEF Told
    <3> QED
      BY <2>1, <2>2, <3>1 DEF NewestKept
  <2>7. ~ghost'.dragged => Agrees(win')
    <3>1. CASE w1.newGeometry \/ Covered(w1) # <<>>
      <4>1. ghost'.dragged = (win.grab # "None")
        BY <1>6, <1>12, <3>1
      <4> QED
        BY <1>8, <2>1, <3>1, <4>1 DEF Agrees
    <3>2. CASE ~(w1.newGeometry \/ Covered(w1) # <<>>)
      <4>1. ghost'.dragged = ghost.dragged
        BY <1>6, <3>2
      <4>2. Agrees(w1) => Agrees(win')
        BY <2>1, <2>2, <3>2 DEF Agrees, NewestKept
      <4> QED
        BY <1>8, <4>1, <4>2
    <3> QED
      BY <3>1, <3>2
  <2>8. /\ ~ghost'.asked => Cancelled(win')
        /\ Cancelled(w1) => win'.frame.x = w1.frame.x
    <3>1. Cancelled(w1) => Cancelled(win')
      BY <2>1, <2>2, Zenon DEF Cancelled, PositionsKept
    <3>2. Cancelled(w1) => win'.frame.x = w1.frame.x
      <4>1. Cancelled(w1) => Covered(w1) = <<>> \/ ~Last(Covered(w1)).pos
        BY <2>2, Zenon DEF Cancelled, PositionsKept
      <4> QED
        BY <2>1, <4>1
    <3> QED
      BY <1>8, <3>1, <3>2
  <2>9. win'.initialized /\ win'.initialized = surf'.initialized
    <3>1. win'.initialized \in BOOLEAN /\ surf'.initialized \in BOOLEAN
      BY <1>4, <2>1, Zenon DEF Windows, Surfaces
    <3> QED
      BY <1>4, <1>8, <2>1, <3>1
  <2>11. Wished(win', ghost'.wish)
    <3>1. CASE ~surf.initialized
      <4>1. win'.target = w1.target /\ win'.timer
        BY <1>8, <2>1, <3>1 DEF Adopts
      <4> QED
        BY <1>13, <3>1, <4>1 DEF wish, Wished
    <3>2. CASE surf.initialized /\ Chooses(w1, width)
      BY <1>13, <3>2 DEF wish, Wished
    <3>3. CASE surf.initialized /\ ~Chooses(w1, width)
      <4>1. ghost'.wish = ghost.wish /\ Wished(w1, ghost.wish)
        BY <1>8, <1>13, <3>3 DEF wish
      <4>2. ghost.wish # 0 => win'.target.w = ghost.wish
        <5>1. CASE win'.target = w1.target
          BY <4>1, <5>1 DEF Wished
        <5>2. CASE win'.target # w1.target
          <6>1. /\ win'.target.w = width /\ Adopts(w1, Queued(w1))
                /\ w1.newGeometry \/ Covered(w1) # <<>>
            BY <2>1, <5>2
          <6>2. /\ Covered(w1) # <<>> /\ Queued(w1) = <<>>
                /\ width = Last(Covered(w1)).bounds.w
            BY <1>12, <3>3, <6>1, Zenon DEF Chooses, Adopts
          <6>3. w1.events # <<>> /\ Last(Covered(w1)) = w1.events[Len(w1.events)]
            BY <2>2, <6>2 DEF NewestKept
          <6> QED
            BY <4>1, <6>1, <6>2, <6>3 DEF Wished, Adopts
        <5> QED
          BY <5>1, <5>2
      <4>3. ghost.wish # 0 /\ ~win'.timer /\ win'.events # <<>>
              => win'.events[Len(win'.events)].bounds.w = ghost.wish
        BY <2>1, <2>2, <4>1 DEF Wished, NewestKept
      <4> QED
        BY <4>1, <4>2, <4>3 DEF Wished
    <3> QED
      BY <3>1, <3>2, <3>3
  <2>10. Sound(surf', win', ghost')
    BY <1>4, <2>1, <2>4, <2>5, <2>6, <2>7, <2>8, <2>9, <2>11, Zenon DEF Sound
  <2> QED
    BY <1>8, <1>10, <2>8, <2>10
<1> QED
  BY <1>11, <1>12

-----------------------------------------------------------------------------
(* The steps.                                                              *)

\* The counter of requests only grows, within its bound.
Counted == requests \in 0 .. MaxRequests /\ scenario \in Scenarios

LEMMA RequestCounts ==
    ASSUME Counted, NEW kind, Request(kind)
    PROVE  Counted' /\ requests' # requests
BY SizesAssumption DEF Counted, Request

LEMMA InitSound ==
    ASSUME Init
    PROVE  Sound(surf, win, ghost) /\ Counted
<1>1. NewWindow \in Windows
  BY DEF NewWindow, Windows, Rect, Geometry, Gravities
<1>2. /\ surf \in Surfaces /\ ghost \in Ghosts /\ ghost.applied = 0 /\ ghost.acked = 0
      /\ ghost.wish = 0
      /\ surf.serial = 0 /\ ~surf.initialized
  BY DEF Init, NewSurface, GhostInit, Surfaces, Ghosts
<1>3. /\ win = NewWindow /\ win.events = <<>> /\ win.ack = 0 /\ win.initialized = FALSE
      /\ surf.initialized = FALSE
      /\ win.next = {} /\ win.states = {} /\ win.target = win.frame /\ ~win.flag
      /\ ~win.ready /\ ~win.reqMax /\ ~win.reqFull /\ ~win.timer /\ win.grab = "None"
  BY <1>2 DEF Init, NewWindow, NewSurface
<1>4. Unborn(win) /\ Told(win) /\ Agrees(win) /\ Cancelled(win) /\ Wished(win, ghost.wish)
  BY <1>2, <1>3 DEF Unborn, Told, Agrees, Cancelled, Wished
<1>5. Ascend(win.events, ghost.applied, surf.serial)
  BY <1>3 DEF Ascend
<1>6. ghost.applied <= ghost.acked /\ ghost.applied <= surf.serial /\ win.ack <= ghost.acked
  BY <1>2, <1>3
<1>7. Sound(surf, win, ghost)
  <2>1. win \in Windows /\ win.initialized = surf.initialized
    BY <1>1, <1>3
  <2> QED
    BY <1>2, <1>4, <1>5, <1>6, <2>1, Zenon DEF Sound
<1>8. Counted
  BY SizesAssumption DEF Counted, Init
<1> QED
  BY <1>7, <1>8

\* A new window for the same surface: the serials go on.
LEMMA UnmapSound ==
    ASSUME Sound(surf, win, ghost), Unmap
    PROVE  Sound(surf', win', ghost')
<1>1. /\ surf \in Surfaces /\ ghost \in Ghosts
      /\ ghost.applied <= ghost.acked /\ ghost.applied <= surf.serial
  BY Zenon DEF Sound
<1>2. surf.serial \in Nat /\ ghost.acked \in Nat
  BY <1>1, Zenon DEF Surfaces, Ghosts
<1>3. win' \in Windows
  BY DEF Unmap, NewWindow, Windows, Rect, Geometry, Gravities
<1>4. /\ surf' \in Surfaces /\ surf'.serial = surf.serial /\ surf'.initialized = FALSE
  BY <1>2 DEF Unmap, NewSurface, Surfaces
<1>5. /\ ghost' \in Ghosts /\ ghost'.applied = ghost.applied /\ ghost'.acked = ghost.acked
      /\ ghost'.wish = 0
  BY <1>1 DEF Unmap, Ghosts
<1>6. /\ win'.events = <<>> /\ win'.ack = 0 /\ win'.initialized = FALSE
      /\ win'.next = {} /\ win'.states = {} /\ win'.target = win'.frame /\ ~win'.flag
      /\ ~win'.ready /\ ~win'.reqMax /\ ~win'.reqFull /\ ~win'.timer /\ win'.grab = "None"
  BY DEF Unmap, NewWindow
<1>7. /\ Unborn(win') /\ Told(win') /\ Agrees(win') /\ Cancelled(win')
      /\ Wished(win', ghost'.wish)
  BY <1>5, <1>6 DEF Unborn, Told, Agrees, Cancelled, Wished
<1>8. Ascend(win'.events, ghost'.applied, surf'.serial)
  BY <1>6 DEF Ascend
<1>9. ghost'.applied <= ghost'.acked /\ ghost'.applied <= surf'.serial /\ win'.ack <= ghost'.acked
  BY <1>1, <1>2, <1>4, <1>5, <1>6
<1>10. win'.initialized = surf'.initialized
  BY <1>4, <1>6
<1> QED
  BY <1>3, <1>4, <1>5, <1>7, <1>8, <1>9, <1>10, Zenon DEF Sound

\* A window that is on screen, dragged or about to be told something was committed.
LEMMA WasCommitted ==
    ASSUME Sound(surf, win, ghost), win.ready \/ win.grab # "None" \/ win.timer
    PROVE  win.initialized
BY Zenon DEF Sound, Unborn

\* The width a request asks for is remembered when the client is told of it.
LEMMA AskedWish ==
    ASSUME ghost \in Ghosts, NEW t \in Windows, win' = t, NEW b, b \in BOOLEAN, Asked(b)
    PROVE  /\ ghost' \in Ghosts /\ ghost'.asked = b /\ ghost'.acked = ghost.acked
           /\ ghost'.applied = ghost.applied /\ ghost'.dragged = ghost.dragged
           /\ Wished(t, ghost'.wish)
<1> DEFINE wish == IF WidthIsTold(t) THEN t.target.w ELSE 0
<1>1. wish \in Nat /\ Wished(t, wish)
  <2>1. t.target \in Geometry /\ t.events \in Seq(Events)
    BY Zenon DEF Windows
  <2>2. t.target.w \in Nat
    BY <2>1 DEF Geometry
  <2>3. Last(t.events) = t.events[Len(t.events)]
    BY DEF Last
  <2>4. CASE WidthIsTold(t)
    BY <2>2, <2>3, <2>4 DEF WidthIsTold, Wished
  <2>5. CASE ~WidthIsTold(t)
    BY <2>5 DEF Wished
  <2> QED
    BY <2>4, <2>5
<1> HIDE DEF wish
<1>2. ghost' = [ghost EXCEPT !.asked = b, !.wish = wish]
  BY DEF Asked, wish
<1> QED
  BY <1>1, <1>2, Zenon DEF Ghosts

\* A request, of a window that was committed or of one that was not.
LEMMA RequestStep ==
    ASSUME Sound(surf, win, ghost), NEW t, win' = t, UNCHANGED surf,
           Like(win, t), ~win.initialized => Unborn(t),
           NEW b, b \in BOOLEAN, Asked(b), ~b => Cancelled(t)
    PROVE  Sound(surf', win', ghost')
<1>1. ghost \in Ghosts /\ win \in Windows
  BY Zenon DEF Sound
<1>2. /\ ghost' \in Ghosts /\ ghost'.asked = b /\ ghost'.acked = ghost.acked
      /\ ghost'.applied = ghost.applied /\ ghost'.dragged = ghost.dragged
      /\ Wished(t, ghost'.wish)
  <2>1. t \in Windows
    BY Zenon DEF Like
  <2> QED
    BY <1>1, <2>1, AskedWish
<1> DEFINE h == ghost'
<1>3. h \in Ghosts /\ h.acked = ghost.acked
      /\ h.applied = ghost.applied /\ h.dragged = ghost.dragged
      /\ (~h.asked => Cancelled(t)) /\ Wished(t, h.wish)
  BY <1>2
<1>4. ~t.initialized => Unborn(t)
  BY Zenon DEF Like
<1> HIDE DEF h
<1>5. Sound(surf, t, h)
  BY <1>3, <1>4, RequestSound
<1> QED
  BY <1>5 DEF h

WithInitial(w, i) == [w EXCEPT !.initial = i]

\* Before the first commit a mode is only remembered.
LEMMA InitialSet ==
    ASSUME NEW w \in Windows, NEW i \in SUBSET {"maximized", "fullscreen"},
           NEW t, t = WithInitial(w, i)
    PROVE  /\ Like(w, t) /\ t.reqMax = w.reqMax /\ t.reqFull = w.reqFull
           /\ Unborn(w) => Unborn(t)
           /\ Cancelled(w) => Cancelled(t)
<1>1. /\ t \in Windows /\ t.reqMax = w.reqMax /\ t.reqFull = w.reqFull
      /\ t.target = w.target /\ t.frame = w.frame /\ t.flag = w.flag
      /\ t.timer = w.timer /\ t.events = w.events /\ t.next = w.next
      /\ t.states = w.states /\ t.ack = w.ack /\ t.initialized = w.initialized
      /\ t.ready = w.ready /\ t.grab = w.grab /\ t.newGeometry = w.newGeometry
  BY Zenon DEF WithInitial, Windows
<1>2. Like(w, t)
  BY <1>1, Zenon DEF Like, Agrees
<1> QED
  BY <1>1, <1>2, Zenon DEF Unborn, Cancelled

LEMMA RequestMaximizedSound ==
    ASSUME Sound(surf, win, ghost), NEW mode \in BOOLEAN, RequestMaximized(mode)
    PROVE  Sound(surf', win', ghost')
<1> DEFINE m == Maximize(win, mode)
           i == IF mode THEN win.initial \cup {"maximized"} ELSE win.initial \ {"maximized"}
           t == win'
           b == ghost.asked \/ t.reqMax # win.reqMax
<1>1. /\ win \in Windows /\ ghost \in Ghosts /\ (~ghost.asked => Cancelled(win))
      /\ ~win.initialized => Unborn(win)
  BY Zenon DEF Sound
<1>2. t = IF win.initialized THEN ScheduleConfigure(m) ELSE WithInitial(win, i)
  BY Zenon DEF RequestMaximized, WithInitial
<1>3. UNCHANGED surf /\ Asked(b) /\ win' = t
  BY Zenon DEF RequestMaximized
<1>4. i \in SUBSET {"maximized", "fullscreen"}
  <2>1. win.initial \in SUBSET {"maximized", "fullscreen"}
    BY <1>1, Zenon DEF Windows
  <2> QED
    BY <2>1
<1>5. b \in BOOLEAN
  <2>1. ghost.asked \in BOOLEAN
    BY <1>1, Zenon DEF Ghosts
  <2> QED
    BY <2>1
<1>6. ~b => ~ghost.asked /\ t.reqMax = win.reqMax
  OBVIOUS
<1> HIDE DEF m, i, t, b
<1>7. /\ Like(win, t) /\ (~win.initialized => Unborn(t))
      /\ ~b => Cancelled(t)
  <2>1. CASE win.initialized
    <3>1. t = ScheduleConfigure(m)
      BY <1>2, <2>1
    <3>2. Like(win, m) /\ (m = win \/ m.reqMax # win.reqMax)
      BY <1>1, MaximizeKeeps DEF m
    <3>3. m \in Windows
      BY <3>2, Zenon DEF Like
    <3>4. Like(m, t) /\ t.reqMax = m.reqMax /\ t.flag = m.flag /\ t.events = m.events
      BY <3>1, <3>3, ScheduleKeeps
    <3>5. Like(win, t)
      BY <3>2, <3>4, LikeTransitive
    <3>6. ~b => Cancelled(t)
      BY <1>1, <1>6, <3>2, <3>4, Zenon DEF Cancelled
    <3> QED
      BY <2>1, <3>5, <3>6
  <2>2. CASE ~win.initialized
    <3>1. t = WithInitial(win, i)
      BY <1>2, <2>2
    <3>2. /\ Like(win, t)
          /\ Unborn(win) => Unborn(t)
          /\ Cancelled(win) => Cancelled(t)
      BY <1>1, <1>4, <3>1, InitialSet
    <3> QED
      BY <1>1, <1>6, <2>2, <3>2
  <2> QED
    BY <2>1, <2>2
<1> QED
  BY <1>3, <1>5, <1>7, RequestStep

LEMMA RequestFullScreenSound ==
    ASSUME Sound(surf, win, ghost), NEW set \in BOOLEAN, RequestFullScreen(set)
    PROVE  Sound(surf', win', ghost')
<1> DEFINE m == SetFullScreen(win, set)
           i == IF set THEN win.initial \cup {"fullscreen"} ELSE win.initial \ {"fullscreen"}
           t == win'
           b == ghost.asked \/ t.reqFull # win.reqFull
<1>1. /\ win \in Windows /\ ghost \in Ghosts /\ (~ghost.asked => Cancelled(win))
      /\ ~win.initialized => Unborn(win)
  BY Zenon DEF Sound
<1>2. t = IF win.initialized THEN ScheduleConfigure(m) ELSE WithInitial(win, i)
  BY Zenon DEF RequestFullScreen, WithInitial
<1>3. UNCHANGED surf /\ Asked(b) /\ win' = t
  BY Zenon DEF RequestFullScreen
<1>4. i \in SUBSET {"maximized", "fullscreen"}
  <2>1. win.initial \in SUBSET {"maximized", "fullscreen"}
    BY <1>1, Zenon DEF Windows
  <2> QED
    BY <2>1
<1>5. b \in BOOLEAN
  <2>1. ghost.asked \in BOOLEAN
    BY <1>1, Zenon DEF Ghosts
  <2> QED
    BY <2>1
<1>6. ~b => ~ghost.asked /\ t.reqFull = win.reqFull
  OBVIOUS
<1> HIDE DEF m, i, t, b
<1>7. /\ Like(win, t) /\ (~win.initialized => Unborn(t))
      /\ ~b => Cancelled(t)
  <2>1. CASE win.initialized
    <3>1. t = ScheduleConfigure(m)
      BY <1>2, <2>1
    <3>2. Like(win, m) /\ (m = win \/ m.reqFull # win.reqFull)
      BY <1>1, SetFullScreenKeeps DEF m
    <3>3. m \in Windows
      BY <3>2, Zenon DEF Like
    <3>4. Like(m, t) /\ t.reqFull = m.reqFull /\ t.flag = m.flag /\ t.events = m.events
      BY <3>1, <3>3, ScheduleKeeps
    <3>5. Like(win, t)
      BY <3>2, <3>4, LikeTransitive
    <3>6. ~b => Cancelled(t)
      BY <1>1, <1>6, <3>2, <3>4, Zenon DEF Cancelled
    <3> QED
      BY <2>1, <3>5, <3>6
  <2>2. CASE ~win.initialized
    <3>1. t = WithInitial(win, i)
      BY <1>2, <2>2
    <3>2. /\ Like(win, t)
          /\ Unborn(win) => Unborn(t)
          /\ Cancelled(win) => Cancelled(t)
      BY <1>1, <1>4, <3>1, InitialSet
    <3> QED
      BY <1>1, <1>6, <2>2, <3>2
  <2> QED
    BY <2>1, <2>2
<1> QED
  BY <1>3, <1>5, <1>7, RequestStep

WithSent(w, es) == [w EXCEPT !.timer = FALSE, !.flag = FALSE, !.events = es]

LEMMA SentSet ==
    ASSUME NEW w \in Windows, NEW es \in Seq(Events), NEW t, t = WithSent(w, es)
    PROVE  /\ t \in Windows /\ t.events = es /\ ~t.timer /\ ~t.flag
           /\ t.target = w.target /\ t.frame = w.frame /\ t.next = w.next
           /\ t.states = w.states /\ t.ack = w.ack /\ t.initialized = w.initialized
BY Zenon DEF WithSent, Windows

\* The event that is sent becomes the newest of the queue and says all there is to say.
LEMMA SendConfigureSound ==
    ASSUME Sound(surf, win, ghost), SendConfigure
    PROVE  Sound(surf', win', ghost') /\ win'.frame = win.frame
<1> DEFINE inherited == win.events # <<>> /\ Last(win.events).pos
           event == [serial |-> surf.serial + 1, bounds |-> win.target, states |-> win.next,
                     gravity |-> win.gravity, pos |-> inherited \/ win.flag]
           es == Append(win.events, event)
           t == win'
<1>1. /\ surf \in Surfaces /\ win \in Windows /\ ghost \in Ghosts
      /\ Ascend(win.events, ghost.applied, surf.serial)
      /\ ghost.applied <= ghost.acked /\ ghost.applied <= surf.serial /\ win.ack <= ghost.acked
      /\ (~ghost.asked => Cancelled(win))
      /\ win.initialized = surf.initialized /\ Wished(win, ghost.wish)
  BY Zenon DEF Sound
<1>2. /\ win.events \in Seq(Events) /\ win.target \in Geometry /\ win.next \in SUBSET States
      /\ win.gravity \in Gravities /\ win.flag \in BOOLEAN
  BY <1>1, Zenon DEF Windows
<1>3. surf.serial \in Nat /\ ghost.applied \in Nat
  BY <1>1, Zenon DEF Surfaces, Ghosts
<1>4. event \in Events /\ event.serial = surf.serial + 1 /\ event.states = win.next
      /\ event.pos = (inherited \/ win.flag) /\ event.bounds = win.target
  <2>1. inherited \in BOOLEAN
    <3>1. win.events # <<>> => Last(win.events) \in Events
      BY <1>2 DEF Last
    <3> QED
      BY <3>1 DEF Events
  <2> QED
    BY <1>2, <1>3, <2>1 DEF Events, Gravities
<1>5. win.timer /\ t = WithSent(win, es) /\ surf' = [surf EXCEPT !.serial = surf.serial + 1]
      /\ ghost' = ghost
  BY DEF SendConfigure, WithSent
<1>6. /\ surf' \in Surfaces /\ surf'.serial = surf.serial + 1
      /\ surf'.initialized = surf.initialized
  BY <1>1, <1>3, <1>5 DEF Surfaces
<1>7. Cancelled(win) => ~event.pos
  <2>1. win.events # <<>> => Len(win.events) \in 1 .. Len(win.events)
    BY <1>2
  <2>2. Last(win.events) = win.events[Len(win.events)]
    BY DEF Last
  <2>3. Cancelled(win) => ~inherited /\ ~win.flag
    BY <2>1, <2>2, Zenon DEF Cancelled
  <2> QED
    BY <1>4, <2>3
<1>8. win.initialized
  BY <1>5, WasCommitted
<1> HIDE DEF inherited, event, t
<1>9. /\ es \in Seq(Events) /\ Len(es) = Len(win.events) + 1 /\ es # <<>>
      /\ es[Len(es)] = event /\ Len(win.events) \in Nat
      /\ \A i \in 1 .. Len(win.events) : es[i] = win.events[i]
  BY <1>2, <1>4
<1>10. Ascend(es, ghost.applied, surf.serial + 1)
  BY <1>1, <1>2, <1>3, <1>4, AppendAscends
<1> HIDE DEF es
<1>11. /\ t \in Windows /\ t.events = es /\ ~t.timer /\ ~t.flag
       /\ t.target = win.target /\ t.frame = win.frame /\ t.next = win.next
       /\ t.states = win.states /\ t.ack = win.ack /\ t.initialized = win.initialized
  BY <1>1, <1>5, <1>9, SentSet
<1>12. Told(t) /\ Agrees(t) /\ Wished(t, ghost'.wish)
  BY <1>1, <1>4, <1>5, <1>9, <1>11 DEF Told, Agrees, Wished
<1>13. Cancelled(win) => Cancelled(t)
  <2> SUFFICES ASSUME Cancelled(win) PROVE Cancelled(t)
    OBVIOUS
  <2>1. \A i \in 1 .. Len(es) : ~es[i].pos
    BY <1>7, <1>9 DEF Cancelled
  <2> QED
    BY <1>11, <2>1, Zenon DEF Cancelled
<1>14. ghost.applied <= surf.serial + 1
  BY <1>1, <1>3
<1>15. Sound(surf', t, ghost')
  <2>1. /\ Ascend(t.events, ghost'.applied, surf'.serial) /\ ghost' \in Ghosts
        /\ ghost'.applied <= ghost'.acked /\ ghost'.applied <= surf'.serial
        /\ t.ack <= ghost'.acked /\ (~ghost'.asked => Cancelled(t))
        /\ t.initialized = surf'.initialized
    BY <1>1, <1>5, <1>6, <1>10, <1>11, <1>13, <1>14
  <2> QED
    BY <1>6, <1>8, <1>11, <1>12, <2>1, Zenon DEF Sound
<1> QED
  BY <1>11, <1>15 DEF t

\* A move, by a request or by the mouse.
LEMMA MoveSound ==
    ASSUME Sound(surf, win, ghost), NEW x \in Int, win.initialized,
           win' = Move(win, x), Asked(FALSE), UNCHANGED surf
    PROVE  Sound(surf', win', ghost')
<1> DEFINE t == win'
           b == FALSE
<1>1. win \in Windows
  BY Zenon DEF Sound
<1>2. b \in BOOLEAN /\ Asked(b)
  OBVIOUS
<1>3. t = Move(win, x)
  OBVIOUS
<1> HIDE DEF t, b
<1>4. Like(win, t) /\ Cancelled(t)
  BY <1>1, <1>3, MoveKeeps
<1>5. win' = t
  BY DEF t
<1> QED
  BY <1>2, <1>4, <1>5, RequestStep

\* A new geometry, by a request or by the mouse.
LEMMA MoveResizeSound ==
    ASSUME Sound(surf, win, ghost), NEW rect \in Geometry, NEW immediate \in BOOLEAN,
           win.initialized, win' = MoveResize(win, rect, immediate), Asked(TRUE), UNCHANGED surf
    PROVE  Sound(surf', win', ghost')
<1> DEFINE t == win'
           b == TRUE
<1>1. win \in Windows
  BY Zenon DEF Sound
<1>2. b \in BOOLEAN /\ Asked(b)
  OBVIOUS
<1>3. t = MoveResize(win, rect, immediate)
  OBVIOUS
<1>4. ~b => Cancelled(t)
  OBVIOUS
<1> HIDE DEF t, b
<1>5. Like(win, t)
  BY <1>1, <1>3, MoveResizeKeeps
<1>6. win' = t
  BY DEF t
<1> QED
  BY <1>2, <1>4, <1>5, <1>6, RequestStep

Grabs == {"None", "Move", "Left", "Right"}

WithDrag(w, side, grab, rect) == [w EXCEPT !.gravity = side, !.grab = grab, !.restore = rect]

\* The start and the end of a drag by themselves say nothing to the client.
LEMMA DragKeeps ==
    ASSUME NEW s, NEW w, NEW g, Sound(s, w, g), w.initialized,
           NEW side \in Gravities, NEW grab \in Grabs, NEW rect \in Geometry,
           NEW t, t = WithDrag(w, side, grab, rect)
    PROVE  /\ Sound(s, t, g) /\ t \in Windows /\ t.initialized
           /\ t.frame = w.frame /\ t.gravity = side /\ t.grab = grab /\ t.restore = rect
           /\ t.next = w.next /\ t.target = w.target /\ t.reqMax = w.reqMax
<1>1. /\ s \in Surfaces /\ w \in Windows /\ g \in Ghosts
      /\ Ascend(w.events, g.applied, s.serial)
      /\ g.applied <= g.acked /\ g.applied <= s.serial /\ w.ack <= g.acked
      /\ Told(w) /\ (~g.dragged => Agrees(w)) /\ (~g.asked => Cancelled(w))
      /\ w.initialized = s.initialized /\ Wished(w, g.wish)
  BY Zenon DEF Sound
<1>2. /\ t \in Windows
      /\ t.frame = w.frame /\ t.gravity = side /\ t.grab = grab /\ t.restore = rect
      /\ t.next = w.next /\ t.target = w.target /\ t.reqMax = w.reqMax
      /\ t.events = w.events /\ t.timer = w.timer /\ t.flag = w.flag
      /\ t.states = w.states /\ t.ack = w.ack /\ t.initialized = w.initialized
  BY <1>1, Zenon DEF WithDrag, Windows, Grabs
<1>3. Told(t) /\ (~g.dragged => Agrees(t)) /\ (~g.asked => Cancelled(t)) /\ Wished(t, g.wish)
  BY <1>1, <1>2, Zenon DEF Told, Agrees, Cancelled, Wished
<1>4. Sound(s, t, g)
  <2>1. Ascend(t.events, g.applied, s.serial) /\ t.ack <= g.acked
        /\ t.initialized = s.initialized /\ t.initialized
    BY <1>1, <1>2
  <2> QED
    BY <1>1, <1>2, <1>3, <2>1, Zenon DEF Sound
<1> QED
  BY <1>2, <1>4

\* A state that is asked for without a geometry.
LEMMA StateSound ==
    ASSUME NEW s, NEW w, NEW g, Sound(s, w, g), w.initialized,
           NEW state \in States, NEW on \in BOOLEAN, NEW t, t = SetState(w, state, on)
    PROVE  Sound(s, t, g) /\ t \in Windows /\ t.initialized /\ t.frame = w.frame
<1>1. w \in Windows /\ g \in Ghosts /\ (~g.asked => Cancelled(w)) /\ Wished(w, g.wish)
  BY Zenon DEF Sound
<1>2. Like(w, t) /\ t.flag = w.flag /\ t.events = w.events /\ t.frame = w.frame
      /\ t.target = w.target /\ t.timer
  BY <1>1, SetStateKeeps
<1>3. t \in Windows /\ t.initialized = w.initialized
  BY <1>2, Zenon DEF Like
<1>4. (~g.asked => Cancelled(t)) /\ Wished(t, g.wish)
  BY <1>1, <1>2, Zenon DEF Cancelled, Wished
<1>5. Sound(s, t, g)
  BY <1>1, <1>2, <1>3, <1>4, RequestSound
<1> QED
  BY <1>2, <1>3, <1>5

LEMMA SetActiveSound ==
    ASSUME Sound(surf, win, ghost), SetActive
    PROVE  Sound(surf', win', ghost')
<1> DEFINE on == "activated" \notin win.next
           state == "activated"
           t == win'
<1>1. win.initialized
  BY WasCommitted DEF SetActive, Mapped
<1>2. on \in BOOLEAN /\ state \in States /\ t = SetState(win, state, on)
  BY DEF States, SetActive
<1>3. UNCHANGED <<surf, ghost>>
  BY DEF SetActive
<1> HIDE DEF on, state, t
<1>4. Sound(surf, t, ghost)
  BY <1>1, <1>2, StateSound
<1> QED
  BY <1>3, <1>4 DEF t

LEMMA StartMoveSound ==
    ASSUME Sound(surf, win, ghost), StartMove
    PROVE  Sound(surf', win', ghost')
<1> DEFINE t == win'
           move == "Move"
<1>1. win.initialized /\ win \in Windows
  BY WasCommitted DEF StartMove, Mapped, Sound
<1>2. move \in Grabs /\ win.gravity \in Gravities /\ win.restore \in Geometry
  BY <1>1, Zenon DEF Windows, Grabs
<1>3. t = WithDrag(win, win.gravity, move, win.restore)
  BY <1>1 DEF StartMove, WithDrag, Windows
<1>4. UNCHANGED <<surf, ghost>>
  BY DEF StartMove
<1> HIDE DEF t, move
<1>5. Sound(surf, t, ghost)
  BY <1>1, <1>2, <1>3, DragKeeps
<1> QED
  BY <1>4, <1>5 DEF t

LEMMA FinishMoveResizeSound ==
    ASSUME Sound(surf, win, ghost), FinishMoveResize
    PROVE  Sound(surf', win', ghost') /\ win'.frame = win.frame
<1> DEFINE w == [win EXCEPT !.grab = "None"]
           none == "None"
           state == "resizing"
           off == FALSE
           t == win'
<1>1. win.initialized /\ win \in Windows
  BY WasCommitted DEF FinishMoveResize, Sound
<1>2. none \in Grabs /\ win.gravity \in Gravities /\ win.restore \in Geometry
  BY <1>1, Zenon DEF Windows, Grabs
<1>3. w = WithDrag(win, win.gravity, none, win.restore)
  BY <1>1 DEF WithDrag, Windows
<1>4. off \in BOOLEAN /\ state \in States
  BY DEF States
<1>5. t = IF state \in w.next THEN SetState(w, state, off) ELSE w
  BY DEF FinishMoveResize
<1>6. UNCHANGED <<surf, ghost>>
  BY DEF FinishMoveResize
<1> HIDE DEF t, none, state, off, w
<1>7. Sound(surf, w, ghost) /\ w.initialized /\ w.frame = win.frame
  BY <1>1, <1>2, <1>3, DragKeeps
<1>8. Sound(surf, t, ghost) /\ t.frame = win.frame
  <2>1. CASE state \in w.next
    <3>1. t = SetState(w, state, off)
      BY <1>5, <2>1
    <3> QED
      BY <1>4, <1>7, <3>1, StateSound
  <2>2. CASE state \notin w.next
    BY <1>5, <1>7, <2>2
  <2> QED
    BY <2>1, <2>2
<1> QED
  BY <1>6, <1>8 DEF t

\* A resize ends the maximized mode, without a way back to it.
LEMMA StartResizeSound ==
    ASSUME Sound(surf, win, ghost), NEW side \in {"Left", "Right"}, StartResize(side)
    PROVE  Sound(surf', win', ghost')
<1> DEFINE edge == side
           v == [win EXCEPT !.gravity = edge]
           state == "resizing"
           on == TRUE
           off == FALSE
           w == SetState(v, state, on)
           g == [w EXCEPT !.grab = edge]
           r == [g EXCEPT !.restore = win.target]
           t == win'
           h == ghost'
           b == ghost.asked \/ win.reqMax
<1>1. /\ win.initialized /\ win \in Windows /\ ghost \in Ghosts
      /\ (~ghost.asked => Cancelled(win))
  BY WasCommitted DEF StartResize, Mapped, Sound
<1>2. /\ edge \in Grabs /\ edge \in Gravities
      /\ win.grab \in Grabs /\ win.restore \in Geometry /\ win.target \in Geometry
      /\ win.reqMax \in BOOLEAN /\ ghost.asked \in BOOLEAN
  <2>1. edge \in Grabs /\ edge \in Gravities
    BY DEF Grabs, Gravities
  <2> QED
    BY <1>1, <2>1, Zenon DEF Windows, Grabs, Ghosts
<1>3. state \in States /\ on \in BOOLEAN /\ off \in BOOLEAN
  BY DEF States
<1>4. v = WithDrag(win, edge, win.grab, win.restore)
  BY <1>1 DEF WithDrag, Windows
<1>5. t = IF win.reqMax THEN Maximize(r, off) ELSE g
  BY Zenon DEF StartResize
<1>6. UNCHANGED surf /\ Asked(b)
  BY Zenon DEF StartResize
<1>7. b \in BOOLEAN /\ (~b => ~ghost.asked /\ ~win.reqMax)
  BY <1>2
<1> HIDE DEF edge, v, w, state, on, off, t, h, b
<1>8. Sound(surf, v, ghost) /\ v.initialized
  BY <1>1, <1>2, <1>4, DragKeeps
<1>9. Sound(surf, w, ghost) /\ w.initialized /\ w \in Windows
  BY <1>3, <1>8, StateSound DEF w
<1>10. /\ w.gravity \in Gravities /\ w.restore \in Geometry
  BY <1>9, Zenon DEF Windows
<1>11. g = WithDrag(w, w.gravity, edge, w.restore)
  BY <1>9 DEF WithDrag, Windows
<1>12. r = WithDrag(w, w.gravity, edge, win.target)
  BY <1>9 DEF WithDrag, Windows
<1> HIDE DEF g, r
<1>13. Sound(surf, g, ghost) /\ g.initialized /\ g \in Windows
  BY <1>2, <1>9, <1>10, <1>11, DragKeeps
<1>14. Sound(surf, r, ghost) /\ r.initialized /\ r \in Windows
  BY <1>2, <1>9, <1>10, <1>12, DragKeeps
<1>15. t \in Windows
  <2>1. CASE win.reqMax
    <3>1. t = Maximize(r, off)
      BY <1>5, <2>1
    <3>2. Like(r, t)
      BY <1>3, <1>14, <3>1, MaximizeKeeps
    <3> QED
      BY <3>2, Zenon DEF Like
  <2>2. CASE ~win.reqMax
    BY <1>5, <1>13, <2>2
  <2> QED
    BY <2>1, <2>2
<1>16. /\ h \in Ghosts /\ h.asked = b /\ h.acked = ghost.acked
       /\ h.applied = ghost.applied /\ h.dragged = ghost.dragged /\ Wished(t, h.wish)
  <2>1. win' = t /\ ghost' = h
    BY DEF t, h
  <2> QED
    BY <1>1, <1>6, <1>7, <1>15, <2>1, AskedWish
<1>17. Sound(surf, t, h)
  <2>1. CASE win.reqMax
    <3>1. t = Maximize(r, off)
      BY <1>5, <2>1
    <3>2. Like(r, t)
      BY <1>3, <1>14, <3>1, MaximizeKeeps
    <3>3. t.initialized
      BY <1>14, <3>2, Zenon DEF Like
    <3>4. h.asked
      BY <1>7, <1>16, <2>1 DEF b
    <3> QED
      BY <1>14, <1>16, <3>2, <3>3, <3>4, RequestSound
  <2>2. CASE ~win.reqMax
    <3>1. t = g
      BY <1>5, <2>2
    <3>2. Like(g, t)
      BY <1>13, <3>1, LikeItself
    <3>3. (~h.asked => Cancelled(t)) /\ (~t.initialized => Unborn(t))
      <4>1. ~ghost.asked => Cancelled(g)
        BY <1>13, Zenon DEF Sound
      <4> QED
        BY <1>7, <1>13, <1>16, <3>1, <4>1
    <3> QED
      BY <1>13, <1>16, <3>2, <3>3, RequestSound
  <2> QED
    BY <2>1, <2>2
<1> QED
  BY <1>6, <1>17 DEF t, h

-----------------------------------------------------------------------------
(* The theorems.                                                           *)

IInv == Sound(surf, win, ghost) /\ Counted

\* What MoveIsFinal says of a step.
KeepsPlace == (requests' = requests /\ win.ready /\ ~ghost.asked) => win'.frame.x = win.frame.x

\* What a client may show is a width, and what it may acknowledge a number.
LEMMA ClientNumbers ==
    ASSUME Sound(surf, win, ghost)
    PROVE  /\ ClientWidths \subseteq Nat /\ Serials \subseteq Nat /\ Places \subseteq Int
           /\ \A i \in DOMAIN win.events : win.events[i].serial \in Nat
<1>1. win.events \in Seq(Events)
  <2>1. win \in Windows
    BY Zenon DEF Sound
  <2> QED
    BY <2>1, Zenon DEF Windows
<1>2. \A e \in Events : e.serial \in Nat /\ e.bounds.w \in Nat
  BY DEF Events, Geometry
<1>3. \A i \in DOMAIN win.events : win.events[i].serial \in Nat /\ win.events[i].bounds.w \in Nat
  BY <1>1, <1>2
<1>4. Widths \subseteq Nat /\ Positions \subseteq Int
  BY SizesAssumption
<1>5. ClientWidths \subseteq Nat
  BY <1>3, <1>4 DEF ClientWidths
<1>6. Serials \subseteq Nat
  BY <1>3 DEF Serials
<1>7. Places \subseteq Int
  BY <1>4 DEF Places
<1> QED
  BY <1>3, <1>5, <1>6, <1>7

\* Both commits, of any content and with any ack.
LEMMA ClientStep ==
    ASSUME IInv, \/ \E width \in ClientWidths \cup {0}, ack \in Serials : Commit(width, ack)
                 \/ AnswerConfigure
    PROVE  IInv' /\ KeepsPlace
<1>1. Sound(surf, win, ghost)
  BY DEF IInv
<1>2. PICK width \in Nat, ack \in Nat, x \in Int :
        CommitWith(width, ack, x) /\ UNCHANGED <<scenario, requests>>
  <2>1. CASE \E width \in ClientWidths \cup {0}, ack \in Serials : Commit(width, ack)
    <3>1. PICK width \in ClientWidths \cup {0}, ack \in Serials : Commit(width, ack)
      BY <2>1
    <3>2. PICK x \in Places : CommitWith(width, ack, x)
      BY <3>1, Zenon DEF Commit
    <3>3. UNCHANGED <<scenario, requests>>
      BY <3>1, Zenon DEF Commit
    <3>4. width \in Nat /\ ack \in Nat /\ x \in Int
      BY <1>1, ClientNumbers
    <3> QED
      BY <3>2, <3>3, <3>4, Zenon
  <2>2. CASE AnswerConfigure
    <3> DEFINE ack == Last(win.events).serial
    <3>1. PICK x \in Places, width \in ClientWidths : CommitWith(width, ack, x)
      BY <2>2, Zenon DEF AnswerConfigure
    <3>2. win.events # <<>> /\ UNCHANGED <<scenario, requests>>
      BY <2>2, Zenon DEF AnswerConfigure
    <3>3. ack \in Nat
      <4>1. win \in Windows
        BY <1>1, Zenon DEF Sound
      <4>2. win.events \in Seq(Events)
        BY <4>1, Zenon DEF Windows
      <4>3. Last(win.events) \in Events
        BY <3>2, <4>2 DEF Last
      <4> QED
        BY <4>3 DEF Events
    <3>4. width \in Nat /\ x \in Int
      BY <1>1, ClientNumbers
    <3> HIDE DEF ack
    <3> QED
      BY <3>1, <3>2, <3>3, <3>4, Zenon
  <2> QED
    BY <2>1, <2>2
<1>3. Sound(surf', win', ghost') /\ (win.ready /\ ~ghost.asked => win'.frame.x = win.frame.x)
  BY <1>1, <1>2, CommitSound
<1>4. Counted'
  BY <1>2 DEF IInv, Counted
<1> QED
  BY <1>3, <1>4 DEF IInv, KeepsPlace

\* A place and a width the user gives make a geometry.
LEMMA UserGeometry ==
    ASSUME NEW x \in Int, NEW w \in Widths
    PROVE  Rect(x, w) \in Geometry
BY SizesAssumption DEF Rect, Geometry

LEMMA UserMoveResizeSound ==
    ASSUME Sound(surf, win, ghost), NEW x \in Positions, NEW w \in Widths,
           NEW immediate \in BOOLEAN, UserMoveResize(Rect(x, w), immediate)
    PROVE  Sound(surf', win', ghost')
<1>1. win.initialized
  BY WasCommitted DEF UserMoveResize, Mapped
<1>2. Rect(x, w) \in Geometry
  BY UserGeometry, SizesAssumption
<1> DEFINE rect == Rect(x, w)
<1>3. rect \in Geometry /\ win' = MoveResize(win, rect, immediate)
      /\ Asked(TRUE) /\ UNCHANGED surf
  BY <1>2, Zenon DEF UserMoveResize
<1> HIDE DEF rect
<1> QED
  BY <1>1, <1>3, MoveResizeSound

LEMMA DragEdgeSound ==
    ASSUME Sound(surf, win, ghost), NEW width \in Widths, DragEdge(width)
    PROVE  Sound(surf', win', ghost')
<1> DEFINE right == win.target.x + win.target.w
           rect == IF win.grab = "Left" THEN Rect(right - width, width)
                                        ELSE Rect(win.target.x, width)
           no == FALSE
<1>1. win.initialized /\ win \in Windows
  BY WasCommitted DEF DragEdge, Sound
<1>2. win.target \in Geometry
  BY <1>1, Zenon DEF Windows
<1>3. win.target.x \in Int /\ win.target.w \in Nat /\ width \in Nat
  BY <1>2, SizesAssumption DEF Geometry
<1>4. right - width \in Int
  BY <1>3
<1>5. no \in BOOLEAN /\ win' = MoveResize(win, rect, no) /\ Asked(TRUE) /\ UNCHANGED surf
  BY Zenon DEF DragEdge
<1> HIDE DEF right, no
<1>6. rect \in Geometry
  BY <1>3, <1>4, UserGeometry
<1> HIDE DEF rect
<1> QED
  BY <1>1, <1>5, <1>6, MoveResizeSound

\* Everything that counts as a request.
LEMMA RequestedStep ==
    ASSUME IInv,
           \/ Unmap
           \/ \E b \in BOOLEAN : RequestMaximized(b) \/ RequestFullScreen(b)
           \/ \E x \in Positions : UserMove(x) \/ DragTo(x)
           \/ \E x \in Positions, w \in Widths, i \in BOOLEAN : UserMoveResize(Rect(x, w), i)
           \/ SetActive
           \/ StartMove
           \/ \E side \in {"Left", "Right"} : StartResize(side)
           \/ \E w \in Widths : DragEdge(w)
    PROVE  IInv' /\ KeepsPlace
<1>1. Sound(surf, win, ghost) /\ Counted
  BY DEF IInv
<1>2. ASSUME NEW kind, Request(kind), Sound(surf', win', ghost')
      PROVE  IInv' /\ KeepsPlace
  <2>1. Counted' /\ requests' # requests
    BY <1>1, <1>2, RequestCounts
  <2> QED
    BY <1>2, <2>1 DEF IInv, KeepsPlace
<1>3. CASE Unmap
  BY <1>1, <1>2, <1>3, UnmapSound DEF Unmap
<1>4. ASSUME NEW b \in BOOLEAN, RequestMaximized(b)
      PROVE  IInv' /\ KeepsPlace
  <2>1. Sound(surf', win', ghost')
    BY <1>1, <1>4, RequestMaximizedSound
  <2> QED
    BY <1>2, <1>4, <2>1 DEF RequestMaximized
<1>5. ASSUME NEW b \in BOOLEAN, RequestFullScreen(b)
      PROVE  IInv' /\ KeepsPlace
  <2>1. Sound(surf', win', ghost')
    BY <1>1, <1>5, RequestFullScreenSound
  <2> QED
    BY <1>2, <1>5, <2>1 DEF RequestFullScreen
<1>6. ASSUME NEW x \in Positions, UserMove(x)
      PROVE  IInv' /\ KeepsPlace
  <2>1. win.initialized /\ x \in Int
    BY <1>1, <1>6, WasCommitted, SizesAssumption DEF UserMove, Mapped
  <2>2. win' = Move(win, x) /\ Asked(FALSE) /\ UNCHANGED surf
    BY <1>6, Zenon DEF UserMove
  <2>3. Sound(surf', win', ghost')
    BY <1>1, <2>1, <2>2, MoveSound
  <2> QED
    BY <1>2, <1>6, <2>3 DEF UserMove
<1>7. ASSUME NEW x \in Positions, DragTo(x)
      PROVE  IInv' /\ KeepsPlace
  <2>1. win.initialized /\ x \in Int
    BY <1>1, <1>7, WasCommitted, SizesAssumption DEF DragTo
  <2>2. win' = Move(win, x) /\ Asked(FALSE) /\ UNCHANGED surf
    BY <1>7, Zenon DEF DragTo
  <2>3. Sound(surf', win', ghost')
    BY <1>1, <2>1, <2>2, MoveSound
  <2> QED
    BY <1>2, <1>7, <2>3 DEF DragTo
<1>8. ASSUME NEW x \in Positions, NEW w \in Widths, NEW i \in BOOLEAN,
             UserMoveResize(Rect(x, w), i)
      PROVE  IInv' /\ KeepsPlace
  <2>1. Sound(surf', win', ghost')
    BY <1>1, <1>8, UserMoveResizeSound
  <2> QED
    BY <1>2, <1>8, <2>1 DEF UserMoveResize
<1>9. CASE SetActive
  BY <1>1, <1>2, <1>9, SetActiveSound DEF SetActive
<1>10. CASE StartMove
  BY <1>1, <1>2, <1>10, StartMoveSound DEF StartMove
<1>11. ASSUME NEW side \in {"Left", "Right"}, StartResize(side)
       PROVE  IInv' /\ KeepsPlace
  <2>1. Sound(surf', win', ghost')
    BY <1>1, <1>11, StartResizeSound
  <2> QED
    BY <1>2, <1>11, <2>1 DEF StartResize
<1>12. ASSUME NEW w \in Widths, DragEdge(w)
       PROVE  IInv' /\ KeepsPlace
  <2>1. Sound(surf', win', ghost')
    BY <1>1, <1>12, DragEdgeSound
  <2> QED
    BY <1>2, <1>12, <2>1 DEF DragEdge
<1> QED
  BY <1>3, <1>4, <1>5, <1>6, <1>7, <1>8, <1>9, <1>10, <1>11, <1>12

\* One step of the specification.
LEMMA StepSound ==
    ASSUME IInv, [Next]_vars
    PROVE  IInv' /\ (KeepsPlace \/ UNCHANGED vars)
<1>1. Sound(surf, win, ghost) /\ Counted
  BY DEF IInv
<1>2. CASE SendConfigure
  <2>1. Sound(surf', win', ghost') /\ win'.frame = win.frame
    BY <1>1, <1>2, SendConfigureSound
  <2>2. Counted'
    BY <1>1, <1>2 DEF Counted, SendConfigure
  <2> QED
    BY <2>1, <2>2 DEF IInv, KeepsPlace
<1>3. CASE FinishMoveResize
  <2>1. Sound(surf', win', ghost') /\ win'.frame = win.frame
    BY <1>1, <1>3, FinishMoveResizeSound
  <2>2. Counted'
    BY <1>1, <1>3 DEF Counted, FinishMoveResize
  <2> QED
    BY <2>1, <2>2 DEF IInv, KeepsPlace
<1>4. CASE UNCHANGED vars
  BY <1>4 DEF vars, IInv, Sound, Counted
<1> QED
  BY <1>2, <1>3, <1>4, ClientStep, RequestedStep DEF Next

\* In every state of every behaviour: the queue of configure events, the states and
\* the geometries the window remembers (XdgSurfaceWindow) and the surface it stands for
\* fit together, whatever the client commits and acknowledges.
THEOREM InvariantHolds == Spec => []IInv
<1>1. Init => IInv
  BY InitSound DEF IInv
<1>2. IInv /\ [Next]_vars => IInv'
  BY StepSound
<1> QED
  BY <1>1, <1>2, PTL DEF Spec

\* The fields of the surface, the window, the queued events and the history have their
\* types, the serials and the geometries among them.
THEOREM TypeCorrect == Spec => []TypeInv
<1>1. IInv => TypeInv
  BY DEF IInv, Sound, Counted, TypeInv, Surfaces, Windows, Ghosts, Gravities
<1> QED
  BY <1>1, InvariantHolds, PTL

\* Configure events take effect in the order sendConfigure sent them, never before the
\* client acknowledged them: whatever serials it acknowledges and however often the
\* window is unmapped (XdgSurfaceWindow::handleCommit).
THEOREM OrderIsKept == Spec => []ConfiguresApplyInOrder
<1>1. IInv => ConfiguresApplyInOrder
  <2> SUFFICES ASSUME IInv PROVE ConfiguresApplyInOrder
    OBVIOUS
  <2>1. /\ win \in Windows /\ Ascend(win.events, ghost.applied, surf.serial)
        /\ ghost.applied <= ghost.acked
    BY Zenon DEF IInv, Sound
  <2>2. win.events \in Seq(Events)
    BY <2>1, Zenon DEF Windows
  <2>3. DOMAIN win.events = 1 .. Len(win.events) /\ Len(win.events) \in Nat
    BY <2>2
  <2>4. \A i \in 1 .. Len(win.events) : i > 1 => i - 1 \in 1 .. Len(win.events) /\ i - 1 < i
    BY <2>3
  <2>5. \A i \in 1 .. Len(win.events) : win.events[i].serial > ghost.applied
    <3>1. \A i \in 1 .. Len(win.events) : ghost.applied < win.events[i].serial
      BY <2>1 DEF Ascend
    <3> QED
      BY <3>1
  <2>6. \A i \in 1 .. Len(win.events) : i > 1 => win.events[i - 1].serial < win.events[i].serial
    BY <2>1, <2>4, Zenon DEF Ascend
  <2> QED
    BY <2>1, <2>3, <2>5, <2>6, Zenon DEF ConfiguresApplyInOrder
<1> QED
  BY <1>1, InvariantHolds, PTL

\* Neither a state merged into a later event nor a width the window was asked for is
\* forgotten between sendConfigure and the commit that answers it: commits of older
\* states do not roll the request back (maybeUpdateMoveResizeGeometry), but for those
\* that Chooses and WidthIsTold except.
THEOREM RequestsAreRemembered == Spec => []NothingIsForgotten
<1>1. IInv => NothingIsForgotten
  <2> SUFFICES ASSUME IInv PROVE NothingIsForgotten
    OBVIOUS
  <2>1. Told(win) /\ (~ghost.dragged => Agrees(win)) /\ Wished(win, ghost.wish)
    BY Zenon DEF IInv, Sound
  <2>2. StatesReachTheClient
    BY <2>1, Zenon DEF Told, StatesReachTheClient, Last
  <2>3. Settled
    BY <2>1, Zenon DEF Agrees, Settled
  <2>4. WidthIsKept
    BY <2>1, Zenon DEF Wished, WidthIsKept
  <2> QED
    BY <2>2, <2>3, <2>4 DEF NothingIsForgotten
<1> QED
  BY <1>1, InvariantHolds, PTL

\* A commit of the client never moves a window back that was moved after the position
\* was sent: moveResizeInternal cancels the queued updates and the one that is pending.
THEOREM MovesAreFinal == Spec => MoveIsFinal
<1>1. IInv /\ [Next]_vars
        => [(requests' = requests /\ win.ready /\ ~ghost.asked) => win'.frame.x = win.frame.x]_vars
  BY StepSound DEF KeepsPlace
<1> QED
  BY <1>1, InvariantHolds, PTL DEF Spec, MoveIsFinal

=============================================================================
