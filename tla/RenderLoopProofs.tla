--------------------------- MODULE RenderLoopProofs ---------------------------
(***************************************************************************)
(* Proofs about RenderLoop, for any set of items, any bounds and both       *)
(* families of backends.                                                    *)
(*                                                                          *)
(* The three safety invariants are inductive together with the type         *)
(* invariant and with PhaseInv, which says what the phases stand for in the *)
(* loop.  The operations are first shown to map loops to loops, so that the *)
(* proof of a step never expands more than the operation it makes.          *)
(***************************************************************************)
EXTENDS RenderLoop, TLAPS

\* The loop waits for the compositor exactly between the frameRequested()
\* signal and beginFrame() or the end of dispatch().
PhaseInv == loop.pendingRepaint <=> phase = "requested"

IInv == /\ TypeInv
        /\ PhaseInv
        /\ FrameAccounting
        /\ PausedLoopSleeps
        /\ DelayedRequestHasWaker

-----------------------------------------------------------------------------
(* What the operations of the loop do to its fields.                        *)

\* maybeScheduleRepaint() touches the timer and the delayed flag only.
LEMMA MaybeScheduleFields ==
    ASSUME NEW l \in LoopState
    PROVE  /\ MaybeSchedule(l) \in LoopState
           /\ MaybeSchedule(l).pendingFrameCount = l.pendingFrameCount
           /\ MaybeSchedule(l).inhibitCount = l.inhibitCount
           /\ MaybeSchedule(l).pendingRepaint = l.pendingRepaint
           /\ MaybeSchedule(l).terminating = l.terminating
           /\ MaybeSchedule(l).pendingReschedule = FALSE
           /\ MaybeSchedule(l).timer
                = (l.timer \/ (l.pendingReschedule /\ ~l.terminating))
BY DEF MaybeSchedule, StartTimer, LoopState

\* scheduleRepaint() arms the timer of an idle loop and delays otherwise.
LEMMA ScheduleRepaintFields ==
    ASSUME NEW l \in LoopState, NEW item \in Requesters
    PROVE  /\ ScheduleRepaint(l, item) \in LoopState
           /\ ScheduleRepaint(l, item).pendingFrameCount = l.pendingFrameCount
           /\ ScheduleRepaint(l, item).inhibitCount = l.inhibitCount
           /\ ScheduleRepaint(l, item).pendingRepaint = l.pendingRepaint
           /\ l.pendingRepaint => ScheduleRepaint(l, item) = l
           /\ l.timer => ScheduleRepaint(l, item).timer
           /\ l.pendingReschedule => ScheduleRepaint(l, item).pendingReschedule
           /\ (ScheduleRepaint(l, item).timer /\ ~l.timer)
                => l.pendingFrameCount = 0 /\ l.inhibitCount = 0
           /\ (ScheduleRepaint(l, item).pendingReschedule /\ ~l.pendingReschedule)
                => l.pendingFrameCount > 0 \/ l.inhibitCount > 0
<1> DEFINE s == StartTimer(l)
           d == Delay(l)
<1>1. /\ s \in LoopState
      /\ s.pendingFrameCount = l.pendingFrameCount
      /\ s.inhibitCount = l.inhibitCount
      /\ s.pendingRepaint = l.pendingRepaint
      /\ s.pendingReschedule = l.pendingReschedule
      /\ l.timer => s.timer
  BY DEF StartTimer, LoopState
<1>2. /\ d \in LoopState
      /\ d.pendingFrameCount = l.pendingFrameCount
      /\ d.inhibitCount = l.inhibitCount
      /\ d.pendingRepaint = l.pendingRepaint
      /\ d.pendingReschedule
      /\ d.timer = l.timer
  BY DEF Delay, LoopState
<1>3. /\ l.pendingFrameCount \in Nat
      /\ l.inhibitCount \in Nat
  BY DEF LoopState
<1>4. CASE l.pendingRepaint \/ Filtered(l, item)
  BY <1>4 DEF ScheduleRepaint
<1>5. CASE /\ ~(l.pendingRepaint \/ Filtered(l, item))
           /\ l.pendingFrameCount = 0 /\ l.inhibitCount = 0
  <2>1. ScheduleRepaint(l, item) = s
    BY <1>5 DEF ScheduleRepaint
  <2> HIDE DEF s
  <2> QED
    BY <1>1, <1>5, <2>1
<1>6. CASE /\ ~(l.pendingRepaint \/ Filtered(l, item))
           /\ ~(l.pendingFrameCount = 0 /\ l.inhibitCount = 0)
  <2>1. ScheduleRepaint(l, item) = d
    BY <1>6 DEF ScheduleRepaint
  <2> HIDE DEF d
  <2> QED
    BY <1>2, <1>3, <1>6, <2>1
<1> QED
  BY <1>4, <1>5, <1>6

\* A frame that ends is taken off, and a delayed request is re-applied unless
\* the loop is paused.
LEMMA FrameDoneFields ==
    ASSUME NEW l \in LoopState, l.pendingFrameCount > 0
    PROVE  /\ FrameDone(l) \in LoopState
           /\ FrameDone(l).pendingFrameCount = l.pendingFrameCount - 1
           /\ FrameDone(l).inhibitCount = l.inhibitCount
           /\ FrameDone(l).pendingRepaint = l.pendingRepaint
           /\ FrameDone(l).terminating = l.terminating
           /\ l.inhibitCount > 0 => /\ FrameDone(l).timer = l.timer
                                    /\ FrameDone(l).pendingReschedule
                                         = l.pendingReschedule
           /\ l.inhibitCount = 0 =>
                /\ FrameDone(l).pendingReschedule = FALSE
                /\ FrameDone(l).timer
                     = (l.timer \/ (l.pendingReschedule /\ ~l.terminating))
<1> DEFINE m == [l EXCEPT !.pendingFrameCount = @ - 1]
<1>1. /\ m \in LoopState
      /\ m.pendingFrameCount = l.pendingFrameCount - 1
      /\ m.inhibitCount = l.inhibitCount
      /\ m.pendingRepaint = l.pendingRepaint
      /\ m.pendingReschedule = l.pendingReschedule
      /\ m.terminating = l.terminating
      /\ m.timer = l.timer
  BY DEF LoopState
<1>2. FrameDone(l) = IF m.inhibitCount = 0 THEN MaybeSchedule(m) ELSE m
  BY DEF FrameDone
<1>3. l.inhibitCount \in Nat
  BY DEF LoopState
<1> DEFINE s == MaybeSchedule(m)
<1> HIDE DEF m
<1>4. /\ s \in LoopState
      /\ s.pendingFrameCount = m.pendingFrameCount
      /\ s.inhibitCount = m.inhibitCount
      /\ s.pendingRepaint = m.pendingRepaint
      /\ s.terminating = m.terminating
      /\ s.pendingReschedule = FALSE
      /\ s.timer = (m.timer \/ (m.pendingReschedule /\ ~m.terminating))
  BY <1>1, MaybeScheduleFields
<1> HIDE DEF s
<1>5. CASE m.inhibitCount = 0
  <2>1. FrameDone(l) = s
    BY <1>2, <1>5 DEF s
  <2> QED
    BY <1>1, <1>3, <1>4, <1>5, <2>1
<1>6. CASE m.inhibitCount # 0
  <2>1. FrameDone(l) = m
    BY <1>2, <1>6
  <2> QED
    BY <1>1, <1>3, <1>6, <2>1
<1> QED
  BY <1>5, <1>6

\* The end of a pause re-applies a delayed request, even behind a frame that is
\* still in flight.
LEMMA UninhibitFields ==
    ASSUME NEW l \in LoopState, l.inhibitCount > 0
    PROVE  /\ Uninhibit(l) \in LoopState
           /\ Uninhibit(l).pendingFrameCount = l.pendingFrameCount
           /\ Uninhibit(l).inhibitCount = l.inhibitCount - 1
           /\ Uninhibit(l).pendingRepaint = l.pendingRepaint
           /\ Uninhibit(l).terminating = l.terminating
           /\ l.inhibitCount > 1 => /\ Uninhibit(l).timer = l.timer
                                    /\ Uninhibit(l).pendingReschedule
                                         = l.pendingReschedule
           /\ l.inhibitCount = 1 =>
                /\ Uninhibit(l).pendingReschedule = FALSE
                /\ Uninhibit(l).timer
                     = (l.timer \/ (l.pendingReschedule /\ ~l.terminating))
<1> DEFINE m == [l EXCEPT !.inhibitCount = @ - 1]
<1>1. /\ m \in LoopState
      /\ m.pendingFrameCount = l.pendingFrameCount
      /\ m.inhibitCount = l.inhibitCount - 1
      /\ m.pendingRepaint = l.pendingRepaint
      /\ m.pendingReschedule = l.pendingReschedule
      /\ m.terminating = l.terminating
      /\ m.timer = l.timer
  BY DEF LoopState
<1>2. Uninhibit(l) = IF m.inhibitCount = 0 THEN MaybeSchedule(m) ELSE m
  BY DEF Uninhibit
<1>3. l.inhibitCount \in Nat
  BY DEF LoopState
<1> DEFINE s == MaybeSchedule(m)
<1> HIDE DEF m
<1>4. /\ s \in LoopState
      /\ s.pendingFrameCount = m.pendingFrameCount
      /\ s.inhibitCount = m.inhibitCount
      /\ s.pendingRepaint = m.pendingRepaint
      /\ s.terminating = m.terminating
      /\ s.pendingReschedule = FALSE
      /\ s.timer = (m.timer \/ (m.pendingReschedule /\ ~m.terminating))
  BY <1>1, MaybeScheduleFields
<1> HIDE DEF s
<1>5. CASE m.inhibitCount = 0
  <2>1. Uninhibit(l) = s
    BY <1>2, <1>5 DEF s
  <2> QED
    BY <1>1, <1>3, <1>4, <1>5, <2>1
<1>6. CASE m.inhibitCount # 0
  <2>1. Uninhibit(l) = m
    BY <1>2, <1>6
  <2> QED
    BY <1>1, <1>3, <1>6, <2>1
<1> QED
  BY <1>5, <1>6

-----------------------------------------------------------------------------
(* The invariant.  Proved over the fields of the loop, which the invariant   *)
(* speaks of; Good collects what it says of a loop l in phase ph with f      *)
(* frames at the backend.                                                    *)

Good(l, ph, f) ==
    /\ l \in LoopState
    /\ l.pendingRepaint <=> ph = "requested"
    /\ l.pendingFrameCount = f + (IF ph = "rendering" THEN 1 ELSE 0)
    /\ l.timer => l.inhibitCount = 0
    /\ l.pendingReschedule => l.pendingFrameCount > 0 \/ l.inhibitCount > 0

LEMMA GoodIsIInv ==
    IInv <=> /\ Good(loop, phase, inFlight)
             /\ phase \in {"idle", "requested", "rendering"}
             /\ compositing \in BOOLEAN
             /\ inFlight \in Nat
             /\ damage \in SUBSET Requesters
             /\ backend \in Backends
             /\ visible \in BOOLEAN
             /\ generation \in BOOLEAN
BY DEF IInv, Good, TypeInv, PhaseInv, FrameAccounting, PausedLoopSleeps,
       DelayedRequestHasWaker

\* A frame that is answered, or refused, leaves the loop in good order.
LEMMA FrameDoneGood ==
    ASSUME NEW l \in LoopState, NEW ph, NEW f \in Nat, NEW g \in Nat, NEW ph2,
           Good(l, ph, f), l.pendingFrameCount > 0,
           g + (IF ph2 = "rendering" THEN 1 ELSE 0) = l.pendingFrameCount - 1,
           ph2 = "requested" <=> ph = "requested"
    PROVE  Good(FrameDone(l), ph2, g)
<1> DEFINE r == FrameDone(l)
<1>1. /\ r \in LoopState
      /\ r.pendingFrameCount = l.pendingFrameCount - 1
      /\ r.inhibitCount = l.inhibitCount
      /\ r.pendingRepaint = l.pendingRepaint
      /\ l.inhibitCount > 0 => /\ r.timer = l.timer
                               /\ r.pendingReschedule = l.pendingReschedule
      /\ l.inhibitCount = 0 => r.pendingReschedule = FALSE
  BY FrameDoneFields
<1>2. l.inhibitCount \in Nat
  BY DEF LoopState
<1> HIDE DEF r
<1> SUFFICES Good(r, ph2, g)
  BY DEF r
<1>3. CASE l.inhibitCount = 0
  BY <1>1, <1>3 DEF Good
<1>4. CASE l.inhibitCount > 0
  BY <1>1, <1>4 DEF Good
<1> QED
  BY <1>2, <1>3, <1>4

\* Rendering starts: one frame more, and the loop no longer waits.
LEMMA BeginFrameGood ==
    ASSUME NEW l \in LoopState, NEW f \in Nat, Good(l, "requested", f),
           NEW candidate \in Requesters
    PROVE  Good(BeginFrame([l EXCEPT !.fullscreenItem = candidate]), "rendering", f)
<1> DEFINE r == BeginFrame([l EXCEPT !.fullscreenItem = candidate])
<1>1. /\ r \in LoopState
      /\ r.pendingFrameCount = l.pendingFrameCount + 1
      /\ r.inhibitCount = l.inhibitCount
      /\ r.pendingRepaint = FALSE
      /\ r.timer = l.timer
      /\ r.pendingReschedule = l.pendingReschedule
  <2> DEFINE s == [l EXCEPT !.fullscreenItem = candidate]
  <2>1. /\ s \in LoopState
        /\ s.pendingFrameCount = l.pendingFrameCount
        /\ s.inhibitCount = l.inhibitCount
        /\ s.timer = l.timer
        /\ s.pendingReschedule = l.pendingReschedule
    BY DEF LoopState, Requesters
  <2>2. r = BeginFrame(s)
    OBVIOUS
  <2> DEFINE n == l.pendingFrameCount + 1
  <2>3. n \in Nat
    BY DEF LoopState
  <2> HIDE DEF s, r, n
  <2>4. r = [s EXCEPT !.pendingRepaint = FALSE, !.pendingFrameCount = n]
    BY <2>1, <2>2 DEF BeginFrame, n
  <2>5. /\ r \in LoopState
        /\ r.pendingFrameCount = n
        /\ r.inhibitCount = s.inhibitCount
        /\ r.pendingRepaint = FALSE
        /\ r.timer = s.timer
        /\ r.pendingReschedule = s.pendingReschedule
    BY <2>1, <2>3, <2>4 DEF LoopState
  <2> QED
    BY <2>1, <2>5 DEF n
<1>2. l.pendingFrameCount \in Nat
  BY DEF LoopState
<1> HIDE DEF r
<1> QED
  BY <1>1, <1>2 DEF Good, r

\* The end of a dispatch without a frame.
LEMMA DispatchEndGood ==
    ASSUME NEW l \in LoopState, NEW f \in Nat, Good(l, "requested", f)
    PROVE  Good(DispatchEnd(l), "idle", f)
BY DEF DispatchEnd, Good, LoopState

\* The end of a dispatch whose frame has begun changes nothing.
LEMMA DispatchEndIsIdle ==
    ASSUME NEW l \in LoopState, l.pendingRepaint = FALSE
    PROVE  DispatchEnd(l) = l
BY DEF DispatchEnd, LoopState

\* invalidate() leaves an empty loop, whatever was in flight.
LEMMA InvalidateGood ==
    ASSUME NEW l \in LoopState, NEW ph \in {"idle", "requested"}, NEW f,
           Good(l, ph, f)
    PROVE  Good(Invalidate(l), ph, 0)
<1> DEFINE r == Invalidate(l)
<1>1. /\ r \in LoopState
      /\ r.pendingFrameCount = 0
      /\ r.pendingRepaint = l.pendingRepaint
      /\ r.pendingReschedule = FALSE
      /\ r.timer = FALSE
  BY DEF Invalidate, LoopState
<1> HIDE DEF r
<1> QED
  BY <1>1 DEF Good, r

\* A pause stops the timer.
LEMMA InhibitGood ==
    ASSUME NEW l \in LoopState, NEW ph, NEW f, Good(l, ph, f)
    PROVE  Good(Inhibit(l), ph, f)
<1> DEFINE r == Inhibit(l)
<1>1. /\ r \in LoopState
      /\ r.pendingFrameCount = l.pendingFrameCount
      /\ r.inhibitCount = l.inhibitCount + 1
      /\ r.pendingRepaint = l.pendingRepaint
      /\ r.pendingReschedule = l.pendingReschedule
  <2> DEFINE n == l.inhibitCount + 1
             t == l.timer /\ l.inhibitCount # 0
  <2>1. n \in Nat /\ t \in BOOLEAN
    BY DEF LoopState
  <2>2. r = [l EXCEPT !.inhibitCount = n, !.timer = t]
    BY DEF Inhibit
  <2> HIDE DEF n, t, r
  <2>3. /\ r \in LoopState
        /\ r.pendingFrameCount = l.pendingFrameCount
        /\ r.inhibitCount = n
        /\ r.pendingRepaint = l.pendingRepaint
        /\ r.pendingReschedule = l.pendingReschedule
    BY <2>1, <2>2 DEF LoopState
  <2> QED
    BY <2>3 DEF n
<1>2. l.inhibitCount \in Nat
  BY DEF LoopState
<1>3. r.timer = FALSE
  <2>1. r.timer = (l.timer /\ l.inhibitCount # 0)
    BY DEF Inhibit, LoopState
  <2> QED
    BY <2>1 DEF Good
<1> HIDE DEF r
<1> QED
  BY <1>1, <1>2, <1>3 DEF Good, r

\* The initial loop is in good order.
LEMMA InitIInv == Init => IInv
<1> SUFFICES ASSUME Init
             PROVE  IInv
  OBVIOUS
<1>1. Good(InitialLoop, "idle", 0)
  BY DEF InitialLoop, Good, LoopState
<1> QED
  BY <1>1, GoodIsIInv DEF Init

\* Every handler keeps the invariant.
LEMMA NextIInv == IInv /\ [Next]_vars => IInv'
<1> SUFFICES ASSUME IInv, [Next]_vars
             PROVE  IInv'
  OBVIOUS
<1>0. /\ Good(loop, phase, inFlight)
      /\ loop \in LoopState
      /\ phase \in {"idle", "requested", "rendering"}
      /\ compositing \in BOOLEAN
      /\ inFlight \in Nat
      /\ damage \in SUBSET Requesters
      /\ backend \in Backends
      /\ visible \in BOOLEAN
      /\ generation \in BOOLEAN
      /\ loop.pendingFrameCount \in Nat /\ loop.inhibitCount \in Nat
  BY GoodIsIInv DEF Good, LoopState
<1> DEFINE Fine == /\ Good(loop, phase, inFlight)'
                   /\ phase' \in {"idle", "requested", "rendering"}
                   /\ compositing' \in BOOLEAN
                   /\ inFlight' \in Nat
                   /\ damage' \in SUBSET Requesters
<1>b. backend' \in Backends /\ visible' \in BOOLEAN /\ generation' \in BOOLEAN
  <2>1. CASE Next
    BY <1>0, <2>1 DEF Next, Rendering, Repaint, TimerFires, NobodyListens,
       NothingVisible, VisibilityNotify, StartRendering, PresentAccepted, PresentRefused, StopCompositing,
       StartCompositing, GraphicsReset, Terminate, Answer, Pause, Resume
  <2>2. CASE UNCHANGED vars
    BY <1>0, <2>2 DEF vars
  <2> QED
    BY <2>1, <2>2
<1> SUFFICES Fine
  BY <1>b, GoodIsIInv DEF Good, IInv, TypeInv, PhaseInv, FrameAccounting,
     PausedLoopSleeps, DelayedRequestHasWaker
<1>1. ASSUME NEW item \in Requesters, Repaint(item)
      PROVE  Fine
  BY <1>0, <1>1, ScheduleRepaintFields DEF Repaint, Good
<1>2. CASE TimerFires
  BY <1>0, <1>2 DEF TimerFires, DispatchBegin, Good, LoopState
<1>3. CASE NobodyListens
  BY <1>0, <1>3, DispatchEndGood DEF NobodyListens
<1>3a. CASE NothingVisible
  BY <1>0, <1>3a, DispatchEndGood DEF NothingVisible
<1>3b. ASSUME NEW seen \in BOOLEAN, VisibilityNotify(seen)
       PROVE  Fine
  BY <1>0, <1>3b, ScheduleRepaintFields DEF VisibilityNotify, Good, Requesters
<1>4. ASSUME NEW candidate \in Requesters, StartRendering(candidate)
      PROVE  Fine
  BY <1>0, <1>4, BeginFrameGood DEF StartRendering
<1>5. CASE PresentAccepted
  <2>1. loop' = loop
    BY <1>0, <1>5, DispatchEndIsIdle DEF PresentAccepted, Good, LoopState
  <2> QED
    BY <1>0, <1>5, <2>1 DEF PresentAccepted, Good
<1>6. CASE PresentRefused
  <2>1. phase = "rendering" /\ loop.pendingFrameCount = inFlight + 1
    BY <1>0, <1>6 DEF PresentRefused, Good
  <2>2. Good(FrameDone(loop), "idle", inFlight)
    BY <1>0, <2>1, FrameDoneGood
  <2>3. DispatchEnd(FrameDone(loop)) = FrameDone(loop)
    BY <2>2, DispatchEndIsIdle DEF Good, LoopState
  <2> QED
    BY <1>0, <1>6, <2>2, <2>3 DEF PresentRefused
<1>7. CASE StopCompositing
  <2>1. Good(BackendDestroyed(loop), "idle", AnswersOwed) /\ AnswersOwed \in Nat
    BY <1>0, <1>7, InvalidateGood
    DEF StopCompositing, BackendDestroyed, AnswersOwed
  <2> QED
    BY <1>0, <1>7, <2>1 DEF StopCompositing
<1>8. CASE StartCompositing
  BY <1>0, <1>8, ScheduleRepaintFields DEF StartCompositing, Good, Requesters
<1>9. ASSUME NEW started \in BOOLEAN, GraphicsReset(started)
      PROVE  Fine
  <2> DEFINE stopped == BackendDestroyed(loop)
  <2>1. /\ Good(stopped, "requested", AnswersOwed)
        /\ AnswersOwed \in Nat
        /\ stopped \in LoopState
        /\ stopped.pendingRepaint
    <3>1. phase = "requested"
      BY <1>9 DEF GraphicsReset
    <3>2. Good(stopped, "requested", AnswersOwed) /\ AnswersOwed \in Nat
      BY <1>0, <3>1, InvalidateGood DEF BackendDestroyed, AnswersOwed
    <3> QED
      BY <3>2 DEF Good
  <2> HIDE DEF stopped
  <2>2. ScheduleRepaint(stopped, NoItem) = stopped
    BY <2>1, ScheduleRepaintFields DEF Requesters
  <2>3. /\ loop' = DispatchEnd(stopped)
        /\ phase' = "idle"
        /\ compositing' = started
        /\ inFlight' = AnswersOwed
        /\ damage' \in SUBSET Requesters
    BY <1>9, <2>2 DEF GraphicsReset, Requesters, stopped
  <2>4. Good(DispatchEnd(stopped), "idle", AnswersOwed)
    BY <2>1, DispatchEndGood
  <2> QED
    BY <2>1, <2>3, <2>4
<1>10. CASE Terminate
  BY <1>0, <1>10 DEF Terminate, Good, LoopState
<1>11. CASE Answer
  <2>1. /\ inFlight - 1 \in Nat
        /\ loop.pendingFrameCount > 0
        /\ (inFlight - 1) + (IF phase = "rendering" THEN 1 ELSE 0)
              = loop.pendingFrameCount - 1
    BY <1>0, <1>11 DEF Answer, Good
  <2>2. Good(FrameDone(loop), phase, inFlight - 1)
    BY <1>0, <2>1, FrameDoneGood
  <2> QED
    BY <1>0, <1>11, <2>1, <2>2 DEF Answer
<1>12. CASE Pause
  BY <1>0, <1>12, InhibitGood DEF Pause
<1>13. CASE Resume
  <2> DEFINE r == Uninhibit(loop)
  <2>1. /\ r \in LoopState
        /\ r.pendingFrameCount = loop.pendingFrameCount
        /\ r.inhibitCount = loop.inhibitCount - 1
        /\ r.pendingRepaint = loop.pendingRepaint
        /\ loop.inhibitCount > 1 => /\ r.timer = loop.timer
                                    /\ r.pendingReschedule = loop.pendingReschedule
        /\ loop.inhibitCount = 1 => r.pendingReschedule = FALSE
    BY <1>0, <1>13, UninhibitFields DEF Resume
  <2>2. loop' = r
    BY <1>13 DEF Resume
  <2> HIDE DEF r
  <2>3. CASE loop.inhibitCount = 1
    BY <1>0, <1>13, <2>1, <2>2, <2>3 DEF Resume, Good
  <2>4. CASE loop.inhibitCount > 1
    BY <1>0, <1>13, <2>1, <2>2, <2>4 DEF Resume, Good
  <2> QED
    BY <1>0, <1>13, <2>3, <2>4 DEF Resume
<1>14. CASE UNCHANGED vars
  BY <1>0, <1>14 DEF vars, Good
<1> QED
  BY <1>1, <1>2, <1>3, <1>3a, <1>3b, <1>4, <1>5, <1>6, <1>7, <1>8, <1>9, <1>10,
     <1>11, <1>12, <1>13, <1>14
  DEF Next, Rendering

-----------------------------------------------------------------------------
(* The theorems.                                                            *)

\* The inductive invariant holds in every reachable state of the loop.
THEOREM InvariantHolds == Spec => []IInv
BY InitIInv, NextIInv, PTL DEF Spec

\* Type correctness of the loop and of its surroundings.
THEOREM TypeCorrect == Spec => []TypeInv
BY InvariantHolds, PTL DEF IInv

\* Q_ASSERT(pendingFrameCount > 0) in notifyFrameCompleted and notifyFrameFailed
\* cannot fail with a backend that answers each accepted frame once.
THEOREM FramesAreCounted == Spec => []FrameAccounting
BY InvariantHolds, PTL DEF IInv

\* A paused loop starts no compositing cycle, and a delayed request always has
\* something that will re-apply it.
THEOREM PauseAndDelayAreSafe ==
    Spec => []SleepsAndWakes
<1>1. IInv => SleepsAndWakes
  BY DEF IInv, SleepsAndWakes
<1> QED
  BY <1>1, InvariantHolds, PTL

\* Frames of one output overlap only after a resume or an answer: neither a
\* repaint request nor the compositor arms the timer behind a frame in flight.
THEOREM OverlapOnlyByResume == Spec => OverlapNeedsResume
<1> DEFINE Arms == ~loop.timer /\ loop'.timer /\ loop'.pendingFrameCount > 0
           Excused == \/ loop'.inhibitCount < loop.inhibitCount
                      \/ loop'.pendingFrameCount < loop.pendingFrameCount
<1>1. IInv /\ [Next]_vars => [Arms => Excused]_vars
  <2> SUFFICES ASSUME IInv, Next, Arms, ~Excused
               PROVE  FALSE
    OBVIOUS
  <2>0. /\ Good(loop, phase, inFlight)
        /\ loop \in LoopState
        /\ loop.pendingFrameCount \in Nat /\ loop.inhibitCount \in Nat
        /\ ~loop.timer /\ loop'.timer
    BY GoodIsIInv DEF Good, LoopState
  <2>1. ASSUME NEW item \in Requesters, loop' = ScheduleRepaint(loop, item)
        PROVE  FALSE
    BY <2>0, <2>1, ScheduleRepaintFields
  <2>2. ASSUME NEW item \in Requesters, Repaint(item)
        PROVE  FALSE
    BY <2>1, <2>2 DEF Repaint
  <2>3. CASE StartCompositing
    BY <2>1, <2>3 DEF StartCompositing, Requesters
  <2>4. CASE TimerFires
    BY <2>0, <2>4 DEF TimerFires
  <2>3a. ASSUME NEW seen \in BOOLEAN, VisibilityNotify(seen)
         PROVE  FALSE
    BY <2>1, <2>3a DEF VisibilityNotify, Requesters
  <2>5. CASE NobodyListens \/ NothingVisible \/ PresentAccepted
    BY <2>0, <2>5
    DEF NobodyListens, NothingVisible, PresentAccepted, DispatchEnd, LoopState
  <2>6. ASSUME NEW candidate \in Requesters, StartRendering(candidate)
        PROVE  FALSE
    <3> DEFINE s == [loop EXCEPT !.fullscreenItem = candidate]
    <3>1. s.timer = loop.timer
      BY <2>0 DEF LoopState
    <3>2. BeginFrame(s).timer = s.timer
      BY <2>0 DEF BeginFrame, LoopState
    <3>3. loop' = BeginFrame(s)
      BY <2>6 DEF StartRendering
    <3> QED
      BY <2>0, <3>1, <3>2, <3>3
  <2>7. CASE PresentRefused
    <3>1. loop.pendingFrameCount > 0
      BY <2>0, <2>7 DEF PresentRefused, Good, IInv, TypeInv
    <3>2. /\ FrameDone(loop) \in LoopState
          /\ FrameDone(loop).pendingFrameCount = loop.pendingFrameCount - 1
          /\ FrameDone(loop).pendingRepaint = FALSE
      BY <2>0, <2>7, <3>1, FrameDoneFields DEF PresentRefused, Good, LoopState
    <3>3. loop' = FrameDone(loop)
      BY <2>7, <3>2, DispatchEndIsIdle DEF PresentRefused
    <3> QED
      BY <2>0, <3>2, <3>3
  <2>8. CASE StopCompositing
    BY <2>0, <2>8 DEF StopCompositing, BackendDestroyed, Invalidate, LoopState
  <2>9. ASSUME NEW started \in BOOLEAN, GraphicsReset(started)
        PROVE  FALSE
    <3> DEFINE stopped == BackendDestroyed(loop)
    <3>1. stopped \in LoopState /\ stopped.pendingRepaint /\ ~stopped.timer
      BY <2>0, <2>9
      DEF GraphicsReset, BackendDestroyed, Invalidate, Good, LoopState
    <3> HIDE DEF stopped
    <3>2. ScheduleRepaint(stopped, NoItem) = stopped
      BY <3>1, ScheduleRepaintFields DEF Requesters
    <3>3. loop' = DispatchEnd(stopped)
      BY <2>9, <3>2 DEF GraphicsReset, stopped
    <3>4. DispatchEnd(stopped).timer = stopped.timer
      BY <3>1 DEF DispatchEnd, LoopState
    <3> QED
      BY <2>0, <3>1, <3>3, <3>4
  <2>10. CASE Terminate
    BY <2>0, <2>10 DEF Terminate, LoopState
  <2>11. CASE Answer
    <3>1. loop.pendingFrameCount > 0
      BY <2>0, <2>11 DEF Answer, Good, IInv, TypeInv
    <3>2. FrameDone(loop).pendingFrameCount = loop.pendingFrameCount - 1
      BY <2>0, <3>1, FrameDoneFields
    <3>3. loop' = FrameDone(loop)
      BY <2>11 DEF Answer
    <3> QED
      BY <2>0, <3>2, <3>3
  <2>12. CASE Pause
    <3> DEFINE n == loop.inhibitCount + 1
               t == loop.timer /\ loop.inhibitCount # 0
    <3>1. t = FALSE
      BY <2>0
    <3>2. loop' = [loop EXCEPT !.inhibitCount = n, !.timer = t]
      BY <2>12 DEF Pause, Inhibit
    <3> HIDE DEF n, t
    <3> QED
      BY <2>0, <3>1, <3>2 DEF LoopState
  <2>13. CASE Resume
    <3>1. Uninhibit(loop).inhibitCount = loop.inhibitCount - 1
      BY <2>0, <2>13, UninhibitFields DEF Resume
    <3>2. loop' = Uninhibit(loop)
      BY <2>13 DEF Resume
    <3> QED
      BY <2>0, <3>1, <3>2
  <2> QED
    BY <2>2, <2>3, <2>3a, <2>4, <2>5, <2>6, <2>7, <2>8, <2>9, <2>10, <2>11, <2>12, <2>13
    DEF Next, Rendering
<1> QED
  BY <1>1, InvariantHolds, PTL DEF Spec, OverlapNeedsResume

-----------------------------------------------------------------------------
(* RenderLoop implements the safety part of FrameSchedule: every step of    *)
(* the loop is a step of the schedule, or none.  That wishes are granted,   *)
(* the fairness of FrameSchedule, is model-checked only.                    *)

Serving == compositing /\ visible /\ ~loop.terminating
Paused == loop.inhibitCount > 0

\* A step of the schedule, or none.
Implements == [Contract!Next]_Contract!vars

\* The loop waits for the compositor only while nobody pauses it: the backend does
\* not come in between the frameRequested() signal and beginFrame().
AwakeInv == loop.pendingRepaint => loop.inhibitCount = 0

LEMMA AwakeStep == IInv /\ IInv' /\ AwakeInv /\ [Next]_vars => AwakeInv'
<1> SUFFICES ASSUME IInv, IInv', AwakeInv, [Next]_vars, phase' = "requested"
             PROVE  loop'.inhibitCount = 0
  BY DEF AwakeInv, IInv, PhaseInv
<1>1. CASE phase = "requested"
  <2>1. loop.inhibitCount = 0
    BY <1>1 DEF IInv, PhaseInv, AwakeInv
  <2>2. CASE UNCHANGED vars
    BY <2>1, <2>2 DEF vars
  <2>3. ASSUME NEW item \in Requesters, Repaint(item)
        PROVE  loop'.inhibitCount = 0
    BY <2>1, <2>3, ScheduleRepaintFields DEF Repaint, IInv, TypeInv
  <2> QED
    BY <1>1, <2>2, <2>3
    DEF Next, Rendering, TimerFires, NobodyListens, NothingVisible, VisibilityNotify,
        StartRendering, PresentAccepted,
        PresentRefused, StopCompositing, StartCompositing, GraphicsReset, Terminate,
        Answer, Pause, Resume
<1>2. CASE phase # "requested"
  <2>1. TimerFires
    BY <1>2
    DEF Next, Rendering, Repaint, NobodyListens, NothingVisible, VisibilityNotify,
        StartRendering, PresentAccepted,
        PresentRefused, StopCompositing, StartCompositing, GraphicsReset, Terminate,
        Answer, Pause, Resume, vars
  <2> QED
    BY <2>1 DEF TimerFires, DispatchBegin, IInv, PausedLoopSleeps, TypeInv, LoopState
<1> QED
  BY <1>1, <1>2

LEMMA AwakeHolds == Spec => [](IInv /\ AwakeInv)
<1>1. Init => AwakeInv
  BY DEF Init, InitialLoop, AwakeInv
<1> QED
  BY <1>1, AwakeStep, InvariantHolds, PTL DEF Spec

-----------------------------------------------------------------------------
\* A step that changes nothing that the schedule sees.
LEMMA Stutters ==
    ASSUME Held' <=> Held, loop'.pendingFrameCount = loop.pendingFrameCount,
           Paused' <=> Paused, Serving' <=> Serving, UNCHANGED generation
    PROVE  Implements
<1>1. Held' = Held
  BY DEF Held
<1>2. Paused' = Paused /\ Serving' = Serving
  BY DEF Paused, Serving
<1> QED
  BY <1>1, <1>2 DEF Implements, Contract!vars, Paused, Serving

LEMMA InitImplements == Init => Contract!Init
BY DEF Init, InitialLoop, Contract!Init, Held

\* A request is kept: the timer, the delayed flag or the dispatch stands for it.
LEMMA RepaintImplements ==
    ASSUME IInv, NEW item \in Requesters, Repaint(item)
    PROVE  Implements
<1> DEFINE r == ScheduleRepaint(loop, item)
<1>1. loop' = r /\ UNCHANGED <<compositing, visible, generation>>
  BY DEF Repaint
<1>2. loop \in LoopState
  BY DEF IInv, TypeInv
<1>3. /\ r.pendingFrameCount = loop.pendingFrameCount
      /\ r.inhibitCount = loop.inhibitCount
      /\ r.pendingRepaint = loop.pendingRepaint
      /\ loop.timer => r.timer
      /\ loop.pendingReschedule => r.pendingReschedule
  BY <1>2, ScheduleRepaintFields
<1>4. r.terminating = loop.terminating
  BY <1>2 DEF ScheduleRepaint, StartTimer, Delay, LoopState
<1> HIDE DEF r
<1>5. CASE Held'
  <2>1. Contract!Ask
    BY <1>1, <1>3, <1>4, <1>5 DEF Contract!Ask
  <2> QED
    BY <2>1 DEF Implements, Contract!Next
<1>6. CASE ~Held'
  BY <1>1, <1>3, <1>4, <1>6, Stutters DEF Held, Paused, Serving
<1> QED
  BY <1>5, <1>6

\* Between the signal and beginFrame() the dispatch itself stands for the request.
LEMMA DispatchImplements ==
    ASSUME IInv, TimerFires \/ NobodyListens \/ NothingVisible
    PROVE  Implements
<1>1. loop \in LoopState
  BY DEF IInv, TypeInv
<1>2. CASE TimerFires
  BY <1>1, <1>2, Stutters
  DEF TimerFires, DispatchBegin, LoopState, Held, Paused, Serving
<1>3. CASE NobodyListens \/ NothingVisible
  <2>1. /\ loop'.pendingFrameCount = loop.pendingFrameCount
        /\ loop'.inhibitCount = loop.inhibitCount
        /\ loop'.terminating = loop.terminating
        /\ Held /\ ~(compositing /\ visible)
        /\ UNCHANGED <<compositing, visible, generation>>
    BY <1>1, <1>3
    DEF NobodyListens, NothingVisible, DispatchEnd, LoopState, Held, IInv, PhaseInv
  <2>2. CASE Held'
    BY <2>1, <2>2, Stutters DEF Paused, Serving
  <2>3. CASE ~Held'
    <3>1. Contract!Forget
      BY <2>1, <2>3 DEF Contract!Forget, Contract!Forgets, Held
    <3> QED
      BY <3>1 DEF Implements, Contract!Next
  <2> QED
    BY <2>2, <2>3
<1> QED
  BY <1>2, <1>3

\* beginFrame() follows a request, and no pause comes in between.
LEMMA StartRenderingImplements ==
    ASSUME IInv, AwakeInv, NEW candidate \in Requesters, StartRendering(candidate)
    PROVE  Implements
<1> DEFINE s == [loop EXCEPT !.fullscreenItem = candidate]
<1>1. loop \in LoopState /\ loop.pendingRepaint
  BY DEF IInv, TypeInv, PhaseInv, StartRendering
<1>2. /\ s \in LoopState
      /\ s.pendingFrameCount = loop.pendingFrameCount
      /\ s.inhibitCount = loop.inhibitCount
      /\ s.terminating = loop.terminating
  BY <1>1 DEF LoopState, Requesters
<1>3. loop' = BeginFrame(s) /\ UNCHANGED <<compositing, visible, generation>>
  BY DEF StartRendering
<1> HIDE DEF s
<1>4. /\ loop'.pendingFrameCount = loop.pendingFrameCount + 1
      /\ loop'.inhibitCount = loop.inhibitCount
      /\ loop'.terminating = loop.terminating
  BY <1>2, <1>3 DEF BeginFrame, LoopState
<1>5. Held /\ loop.inhibitCount = 0 /\ Held' \in BOOLEAN
  BY <1>1 DEF Held, AwakeInv
<1>6. Contract!Begin
  BY <1>3, <1>4, <1>5 DEF Contract!Begin
<1> QED
  BY <1>6 DEF Implements, Contract!Next

-----------------------------------------------------------------------------
\* A frame that ends takes one off; a delayed request goes over to the timer.
LEMMA FrameDoneEnds ==
    ASSUME IInv, loop.pendingFrameCount > 0, loop' = FrameDone(loop),
           UNCHANGED <<compositing, visible, generation>>
    PROVE  Contract!End
<1>1. loop \in LoopState
  BY DEF IInv, TypeInv
<1>2. /\ loop'.pendingFrameCount = loop.pendingFrameCount - 1
      /\ loop'.inhibitCount = loop.inhibitCount
      /\ loop'.pendingRepaint = loop.pendingRepaint
      /\ loop'.terminating = loop.terminating
      /\ loop.inhibitCount > 0 => /\ loop'.timer = loop.timer
                                  /\ loop'.pendingReschedule = loop.pendingReschedule
      /\ loop.inhibitCount = 0 =>
           /\ loop'.pendingReschedule = FALSE
           /\ loop'.timer = (loop.timer \/ (loop.pendingReschedule /\ ~loop.terminating))
  BY <1>1, FrameDoneFields
<1>3. loop.inhibitCount \in Nat
  BY <1>1 DEF LoopState
<1>4. (Held' <=> Held) \/ (loop.terminating /\ ~Held')
  <2>1. CASE loop.inhibitCount > 0
    <3>1. /\ loop'.pendingRepaint = loop.pendingRepaint
          /\ loop'.timer = loop.timer
          /\ loop'.pendingReschedule = loop.pendingReschedule
      BY <1>2, <2>1
    <3> QED
      BY <3>1, Zenon DEF Held
  <2>2. CASE loop.inhibitCount = 0
    <3>1. /\ loop'.pendingRepaint = loop.pendingRepaint
          /\ loop'.pendingReschedule = FALSE
          /\ loop'.timer = (loop.timer \/ (loop.pendingReschedule /\ ~loop.terminating))
      BY <1>2, <2>2
    <3> QED
      BY <3>1, Zenon DEF Held
  <2> QED
    BY <1>3, <2>1, <2>2
<1>5. Held' = Held \/ Contract!Forgets
  BY <1>4 DEF Contract!Forgets, Held
<1> QED
  BY <1>2, <1>5 DEF Contract!End

LEMMA AnswerImplements ==
    ASSUME IInv, Answer
    PROVE  Implements
<1>1. loop.pendingFrameCount > 0
  BY DEF IInv, FrameAccounting, TypeInv, Answer
<1>2. Contract!End
  BY <1>1, FrameDoneEnds DEF Answer
<1> QED
  BY <1>2 DEF Implements, Contract!Next

\* The end of the dispatch: the frame goes to the backend or fails.
LEMMA PresentImplements ==
    ASSUME IInv, PresentAccepted \/ PresentRefused
    PROVE  Implements
<1>1. /\ loop \in LoopState /\ loop.pendingRepaint = FALSE
      /\ loop.pendingFrameCount > 0
  BY DEF IInv, TypeInv, LoopState, PhaseInv, FrameAccounting, PresentAccepted,
         PresentRefused
<1>2. CASE PresentAccepted
  <2>1. loop' = loop /\ UNCHANGED <<compositing, visible, generation>>
    BY <1>1, <1>2, DispatchEndIsIdle DEF PresentAccepted
  <2> QED
    BY <2>1, Stutters DEF Held, Paused, Serving
<1>3. CASE PresentRefused
  <2>1. FrameDone(loop) \in LoopState /\ FrameDone(loop).pendingRepaint = FALSE
    BY <1>1, FrameDoneFields
  <2>2. loop' = FrameDone(loop) /\ UNCHANGED <<compositing, visible, generation>>
    BY <1>3, <2>1, DispatchEndIsIdle DEF PresentRefused
  <2>3. Contract!End
    BY <1>1, <2>2, FrameDoneEnds
  <2> QED
    BY <2>3 DEF Implements, Contract!Next
<1> QED
  BY <1>2, <1>3

-----------------------------------------------------------------------------
\* What the destruction of the backend leaves of a loop.
LEMMA DestroyedFields ==
    ASSUME NEW l \in LoopState
    PROVE  /\ BackendDestroyed(l) \in LoopState
           /\ BackendDestroyed(l).pendingFrameCount \in {l.pendingFrameCount, 0}
           /\ BackendDestroyed(l).inhibitCount = l.inhibitCount
           /\ BackendDestroyed(l).pendingRepaint = l.pendingRepaint
           /\ BackendDestroyed(l).terminating = l.terminating
           /\ BackendDestroyed(l).timer => l.timer
           /\ BackendDestroyed(l).pendingReschedule => l.pendingReschedule
BY DEF BackendDestroyed, Invalidate, LoopState

\* Stopping the compositor, or KWin: with the loop's requests or without.
LEMMA StopImplements ==
    ASSUME IInv, StopCompositing \/ Terminate
    PROVE  Implements
<1>1. loop \in LoopState
  BY DEF IInv, TypeInv
<1>2. /\ loop'.pendingFrameCount \in {loop.pendingFrameCount, 0}
      /\ loop'.inhibitCount = loop.inhibitCount
      /\ Held' => Held
  <2>1. CASE StopCompositing
    BY <1>1, <2>1, DestroyedFields DEF StopCompositing, Held
  <2>2. CASE Terminate
    BY <1>1, <2>2 DEF Terminate, Held, LoopState
  <2> QED
    BY <2>1, <2>2
<1>3. ~Serving' /\ UNCHANGED generation
  BY <1>1 DEF StopCompositing, Terminate, LoopState, Serving
<1>4. Held' \in BOOLEAN
  BY DEF Held
<1>5. Contract!Stop
  BY <1>2, <1>3, <1>4 DEF Contract!Stop, Serving
<1> QED
  BY <1>5 DEF Implements, Contract!Next

\* A repaint of the null item that nothing in the loop stands against is held.
LEMMA AskedIsHeld ==
    ASSUME NEW l \in LoopState, l.pendingRepaint = FALSE, ~l.terminating
    PROVE  /\ ScheduleRepaint(l, NoItem).pendingFrameCount = l.pendingFrameCount
           /\ ScheduleRepaint(l, NoItem).inhibitCount = l.inhibitCount
           /\ ScheduleRepaint(l, NoItem).terminating = l.terminating
           /\ \/ ScheduleRepaint(l, NoItem).timer
              \/ ScheduleRepaint(l, NoItem).pendingReschedule
<1> DEFINE r == ScheduleRepaint(l, NoItem)
<1>1. r = IF l.pendingFrameCount = 0 /\ l.inhibitCount = 0
          THEN StartTimer(l) ELSE Delay(l)
  BY DEF ScheduleRepaint, Filtered
<1>2. CASE r = StartTimer(l)
  BY <1>2 DEF StartTimer, LoopState
<1>3. CASE r = Delay(l)
  BY <1>3 DEF Delay, LoopState
<1> QED
  BY <1>1, <1>2, <1>3

\* The compositor that starts asks for a repaint, which nothing filters.
LEMMA StartImplements ==
    ASSUME IInv, StartCompositing
    PROVE  Implements
<1> DEFINE r == ScheduleRepaint(loop, NoItem)
<1>1. /\ loop \in LoopState /\ loop.pendingRepaint = FALSE
      /\ ~Serving /\ ~loop.terminating
      /\ loop' = r /\ compositing' /\ visible' /\ UNCHANGED generation
  BY DEF Serving, IInv, TypeInv, LoopState, PhaseInv, StartCompositing
<1>2. /\ r.pendingFrameCount = loop.pendingFrameCount
      /\ r.inhibitCount = loop.inhibitCount
      /\ r.terminating = loop.terminating
      /\ r.timer \/ r.pendingReschedule
  BY <1>1, AskedIsHeld
<1> HIDE DEF r
<1>3. Held' = TRUE
  BY <1>1, <1>2 DEF Held
<1>4. Contract!Start
  BY <1>1, <1>2, <1>3 DEF Contract!Start, Serving
<1> QED
  BY <1>4 DEF Implements, Contract!Next

\* The overlay window is obscured, which takes the loop out of service, or is seen
\* again, which asks for a repaint as a start does.
LEMMA VisibilityImplements ==
    ASSUME IInv, NEW seen \in BOOLEAN, VisibilityNotify(seen)
    PROVE  Implements
<1> DEFINE r == ScheduleRepaint(loop, NoItem)
<1>1. /\ loop \in LoopState /\ loop.pendingRepaint = FALSE
      /\ loop' = r /\ compositing /\ compositing' /\ visible' = seen
      /\ UNCHANGED generation
  BY DEF IInv, TypeInv, LoopState, PhaseInv, VisibilityNotify
<1>2. /\ r.pendingFrameCount = loop.pendingFrameCount
      /\ r.inhibitCount = loop.inhibitCount
      /\ r.pendingRepaint = loop.pendingRepaint
      /\ loop.timer => r.timer
      /\ loop.pendingReschedule => r.pendingReschedule
  BY <1>1, ScheduleRepaintFields DEF Requesters
<1>3. r.terminating = loop.terminating
  BY <1>1 DEF ScheduleRepaint, StartTimer, Delay, LoopState
<1>4. ~loop.terminating => r.timer \/ r.pendingReschedule
  BY <1>1, AskedIsHeld
<1> HIDE DEF r
<1>5. Held => Held'
  BY <1>1, <1>2 DEF Held
<1>6. CASE loop.terminating
  <2>1. ~Serving /\ ~Serving'
    BY <1>1, <1>3, <1>6 DEF Serving
  <2>2. CASE Held'
    <3>1. Contract!Ask
      BY <1>1, <1>2, <2>1, <2>2 DEF Contract!Ask, Serving, Held
    <3> QED
      BY <3>1 DEF Implements, Contract!Next
  <2>3. CASE ~Held'
    BY <1>1, <1>2, <1>5, <2>1, <2>3, Stutters DEF Paused
  <2> QED
    BY <2>2, <2>3
<1>7. CASE ~loop.terminating
  <2>1. Held' = TRUE
    BY <1>1, <1>4, <1>7 DEF Held
  <2>2. CASE seen /\ visible
    <3>1. Contract!Ask
      BY <1>1, <1>2, <1>3, <2>1, <2>2 DEF Contract!Ask
    <3> QED
      BY <3>1 DEF Implements, Contract!Next
  <2>3. CASE seen /\ ~visible
    <3>1. Contract!Start
      BY <1>1, <1>2, <1>3, <1>7, <2>1, <2>3 DEF Contract!Start
    <3> QED
      BY <3>1 DEF Implements, Contract!Next
  <2>4. CASE ~seen
    <3>1. Contract!Stop
      BY <1>1, <1>2, <2>1, <2>4 DEF Contract!Stop
    <3> QED
      BY <3>1 DEF Implements, Contract!Next
  <2> QED
    BY <2>2, <2>3, <2>4
<1> QED
  BY <1>6, <1>7

\* A graphics reset ends the dispatch without a frame: the request that made it, and
\* the one of the restarted compositor, are given up.
LEMMA ResetImplements ==
    ASSUME IInv, AwakeInv, NEW started \in BOOLEAN, GraphicsReset(started)
    PROVE  Implements
<1> DEFINE stopped == BackendDestroyed(loop)
<1>1. /\ loop \in LoopState /\ loop.pendingRepaint
      /\ compositing /\ visible /\ visible' /\ generation' = ~generation
      /\ (started => ~loop.terminating)
      /\ compositing' = started
      /\ loop' = DispatchEnd(IF started THEN ScheduleRepaint(stopped, NoItem)
                                        ELSE stopped)
  BY DEF IInv, TypeInv, PhaseInv, GraphicsReset
<1>2. /\ stopped \in LoopState
      /\ stopped.pendingFrameCount \in {loop.pendingFrameCount, 0}
      /\ stopped.inhibitCount = loop.inhibitCount
      /\ stopped.pendingRepaint
      /\ stopped.terminating = loop.terminating
  BY <1>1, DestroyedFields
<1> HIDE DEF stopped
<1>3. loop' = DispatchEnd(stopped)
  BY <1>1, <1>2 DEF ScheduleRepaint
<1>4. /\ loop'.pendingFrameCount \in {loop.pendingFrameCount, 0}
      /\ loop'.inhibitCount = loop.inhibitCount
      /\ loop'.terminating = loop.terminating
  BY <1>2, <1>3 DEF DispatchEnd, LoopState
<1>5. Held /\ loop.inhibitCount = 0
  BY <1>1 DEF Held, AwakeInv
<1>6. Held' \in {Held, FALSE}
  BY <1>5 DEF Held
<1>7. Serving' = Serving \/ Serving' = FALSE
  BY <1>1, <1>4 DEF Serving
<1>8. /\ (compositing /\ visible /\ ~loop.terminating)'
            \in {compositing /\ visible /\ ~loop.terminating, FALSE}
      /\ generation' = ~generation
  BY <1>1, <1>7 DEF Serving
<1>9. Contract!Reset
  <2>1. ~(loop.inhibitCount > 0) /\ Held
    BY <1>5
  <2>2. (loop.inhibitCount > 0)' = (loop.inhibitCount > 0)
    BY <1>4
  <2>3. /\ Held' \in {Held, FALSE}
        /\ loop.pendingFrameCount' \in {loop.pendingFrameCount, 0}
    BY <1>4, <1>6
  <2> QED
    BY <1>8, <2>1, <2>2, <2>3, Zenon DEF Contract!Reset
<1> QED
  BY <1>9 DEF Implements, Contract!Next

-----------------------------------------------------------------------------
\* inhibit() drops the armed timer, and nothing else, with the first pause.
LEMMA PauseImplements ==
    ASSUME IInv, Pause
    PROVE  Implements
<1> DEFINE n == loop.inhibitCount + 1
           t == loop.timer /\ loop.inhibitCount # 0
<1>1. /\ loop \in LoopState /\ loop.inhibitCount \in Nat
      /\ n \in Nat /\ n > 0 /\ t \in BOOLEAN /\ (t => loop.timer)
      /\ loop.inhibitCount > 0 => t = loop.timer
  BY DEF IInv, TypeInv, LoopState
<1>2. /\ loop' = [loop EXCEPT !.inhibitCount = n, !.timer = t]
      /\ UNCHANGED <<compositing, visible, generation>>
  BY DEF Pause, Inhibit
<1> HIDE DEF n, t
<1>3. /\ loop'.pendingFrameCount = loop.pendingFrameCount
      /\ loop'.inhibitCount > 0
      /\ loop'.terminating = loop.terminating
      /\ Held' => Held
      /\ loop.inhibitCount > 0 => (Held' <=> Held)
  BY <1>1, <1>2 DEF LoopState, Held
<1>4. Held' \in {Held, FALSE}
  BY <1>3 DEF Held
<1>5. CASE loop.inhibitCount = 0
  <2>1. ~(loop.inhibitCount > 0)
    BY <1>5
  <2>2. (loop.inhibitCount > 0)' = TRUE
    BY <1>3
  <2>3. /\ (compositing /\ visible /\ ~loop.terminating)'
              = (compositing /\ visible /\ ~loop.terminating)
        /\ generation' = generation
        /\ loop.pendingFrameCount' = loop.pendingFrameCount
    BY <1>2, <1>3
  <2>4. Contract!Pause
    BY <1>4, <2>1, <2>2, <2>3, Zenon DEF Contract!Pause
  <2> QED
    BY <2>4 DEF Implements, Contract!Next
<1>6. CASE loop.inhibitCount > 0
  BY <1>2, <1>3, <1>6, Stutters DEF Paused, Serving
<1> QED
  BY <1>1, <1>5, <1>6

\* The end of the last pause hands a delayed request to the timer.
LEMMA ResumeImplements ==
    ASSUME IInv, Resume
    PROVE  Implements
<1>1. loop \in LoopState /\ loop.inhibitCount \in Nat /\ loop.inhibitCount > 0
  BY DEF IInv, TypeInv, LoopState, Resume
<1>2. /\ loop'.pendingFrameCount = loop.pendingFrameCount
      /\ loop'.inhibitCount = loop.inhibitCount - 1
      /\ loop'.pendingRepaint = loop.pendingRepaint
      /\ loop'.terminating = loop.terminating
      /\ loop.inhibitCount > 1 => /\ loop'.timer = loop.timer
                                  /\ loop'.pendingReschedule = loop.pendingReschedule
      /\ loop.inhibitCount = 1 =>
           /\ loop'.pendingReschedule = FALSE
           /\ loop'.timer = (loop.timer \/ (loop.pendingReschedule /\ ~loop.terminating))
      /\ UNCHANGED <<compositing, visible, generation>>
  BY <1>1, UninhibitFields DEF Resume
<1>3. CASE loop.inhibitCount > 1
  <2>1. /\ loop'.pendingRepaint = loop.pendingRepaint
        /\ loop'.timer = loop.timer
        /\ loop'.pendingReschedule = loop.pendingReschedule
    BY <1>2, <1>3
  <2>2. Held' <=> Held
    BY <2>1, Zenon DEF Held
  <2>3. Paused' = Paused
    BY <1>1, <1>2, <1>3 DEF Paused
  <2>4. Serving' = Serving
    BY <1>2 DEF Serving
  <2> QED
    BY <1>2, <2>2, <2>3, <2>4, Stutters
<1>4. CASE loop.inhibitCount = 1
  <2>1. (Held' <=> Held) \/ (loop.terminating /\ ~Held')
    BY <1>2, <1>4 DEF Held
  <2>2. Held' = Held \/ Contract!Forgets
    BY <2>1 DEF Contract!Forgets, Held
  <2>3. Contract!Resume
    BY <1>2, <1>4, <2>2 DEF Contract!Resume
  <2> QED
    BY <2>3 DEF Implements, Contract!Next
<1> QED
  BY <1>1, <1>3, <1>4

-----------------------------------------------------------------------------
LEMMA StepImplements == IInv /\ AwakeInv /\ [Next]_vars => Implements
<1> SUFFICES ASSUME IInv, AwakeInv, [Next]_vars PROVE Implements
  OBVIOUS
<1>1. CASE UNCHANGED vars
  BY <1>1, Stutters DEF vars, Held, Paused, Serving
<1>2. ASSUME NEW item \in Requesters, Repaint(item) PROVE Implements
  BY <1>2, RepaintImplements
<1>3. CASE TimerFires \/ NobodyListens \/ NothingVisible
  BY <1>3, DispatchImplements
<1>3a. ASSUME NEW seen \in BOOLEAN, VisibilityNotify(seen) PROVE Implements
  BY <1>3a, VisibilityImplements
<1>4. ASSUME NEW candidate \in Requesters, StartRendering(candidate) PROVE Implements
  BY <1>4, StartRenderingImplements
<1>5. CASE PresentAccepted \/ PresentRefused
  BY <1>5, PresentImplements
<1>6. CASE StopCompositing \/ Terminate
  BY <1>6, StopImplements
<1>7. CASE StartCompositing
  BY <1>7, StartImplements
<1>8. ASSUME NEW started \in BOOLEAN, GraphicsReset(started) PROVE Implements
  BY <1>8, ResetImplements
<1>9. CASE Answer
  BY <1>9, AnswerImplements
<1>10. CASE Pause
  BY <1>10, PauseImplements
<1>11. CASE Resume
  BY <1>11, ResumeImplements
<1> QED
  BY <1>1, <1>2, <1>3, <1>3a, <1>4, <1>5, <1>6, <1>7, <1>8, <1>9, <1>10, <1>11
  DEF Next, Rendering

\* RenderLoop, its compositor and its backend implement FrameSchedule: frames are
\* begun on request and outside pauses only and end at most once each, and no step
\* loses a request but the one that begins its frame, the first inhibit(), a reset
\* of the graphics, and those made while the loop is out of service.
THEOREM LoopKeepsSchedule == Spec => Contract!Safety
<1>1. IInv /\ AwakeInv /\ [Next]_vars => [Contract!Next]_Contract!vars
  BY StepImplements DEF Implements
<1> QED
  BY <1>1, InitImplements, AwakeHolds, PTL DEF Spec, Contract!Safety

=============================================================================
