---------------------------- MODULE RenderLoopOps ----------------------------
(***************************************************************************)
(* The operations of RenderLoop and RenderLoopPrivate                       *)
(* (src/src/core/renderloop.cpp), as functions from one loop to the next,   *)
(* so that a caller that makes several of them in one handler composes      *)
(* them.  A loop is a record:                                               *)
(*   pendingFrameCount  frames begun whose result is not known yet          *)
(*   inhibitCount       nesting of inhibit()                                *)
(*   pendingReschedule  a delayed scheduleRepaint() waits to be re-applied  *)
(*   pendingRepaint     the loop is inside dispatch(), before beginFrame()  *)
(*   timer              compositeTimer.isActive()                           *)
(*   fullscreenItem     item last passed to setFullscreenSurface()          *)
(*   terminating        kwinApp()->isTerminating()                          *)
(* The instant for which the timer is armed, and presentMode, are left out: *)
(* re-arming an active timer (tearing) changes nothing else.  So is the     *)
(* benchmark timer, which runs under an environment switch only.            *)
(***************************************************************************)
EXTENDS Naturals

CONSTANTS
    Items,    \* scene items that ask for repaints or are scanout candidates
    NoItem    \* the null Item

ASSUME NoItemAssumption == NoItem \notin Items

LoopState == [pendingFrameCount : Nat, inhibitCount : Nat,
              pendingReschedule : BOOLEAN, pendingRepaint : BOOLEAN,
              timer : BOOLEAN, fullscreenItem : Items \cup {NoItem},
              terminating : BOOLEAN]

InitialLoop == [pendingFrameCount |-> 0, inhibitCount |-> 0,
                pendingReschedule |-> FALSE, pendingRepaint |-> FALSE,
                timer |-> FALSE, fullscreenItem |-> NoItem,
                terminating |-> FALSE]

\* RenderLoopPrivate::scheduleRepaint
StartTimer(l) == [l EXCEPT !.timer = l.timer \/ ~l.terminating]

\* RenderLoopPrivate::delayScheduleRepaint
Delay(l) == [l EXCEPT !.pendingReschedule = TRUE]

\* Mutant: the flag is tested after it was reset, so the timer is never armed.
MaybeSchedule_ResetFirst(l) == [l EXCEPT !.pendingReschedule = FALSE]

\* RenderLoopPrivate::maybeScheduleRepaint
MaybeSchedule(l) ==
    IF l.pendingReschedule
    THEN [StartTimer(l) EXCEPT !.pendingReschedule = FALSE]
    ELSE l

\* RenderLoop::scheduleRepaint(item) returns without doing anything when the
\* loop already waits for the compositor, or another item owns the screen.
Filtered(l, item) ==
    /\ l.fullscreenItem # NoItem
    /\ item # NoItem
    /\ item # l.fullscreenItem

\* Mutant: frames in flight are not looked at.
ScheduleRepaint_IgnoresFrames(l, item) ==
    IF l.pendingRepaint \/ Filtered(l, item) THEN l
    ELSE IF l.inhibitCount = 0 THEN StartTimer(l)
    ELSE Delay(l)

ScheduleRepaint(l, item) ==
    IF l.pendingRepaint \/ Filtered(l, item) THEN l
    ELSE IF l.pendingFrameCount = 0 /\ l.inhibitCount = 0 THEN StartTimer(l)
    ELSE Delay(l)

Inhibit(l) == [l EXCEPT !.inhibitCount = @ + 1,
                        !.timer = @ /\ l.inhibitCount # 0]

Uninhibit(l) ==
    LET m == [l EXCEPT !.inhibitCount = @ - 1]
    IN  IF m.inhibitCount = 0 THEN MaybeSchedule(m) ELSE m

BeginFrame(l) == [l EXCEPT !.pendingRepaint = FALSE,
                           !.pendingFrameCount = @ + 1]

\* Mutant: the delayed request is forgotten.
FrameDone_NoReschedule(l) == [l EXCEPT !.pendingFrameCount = @ - 1]

\* RenderLoopPrivate::notifyFrameCompleted and notifyFrameFailed: both take one
\* frame off and re-apply a delayed request (they differ in the timestamp).
FrameDone(l) ==
    LET m == [l EXCEPT !.pendingFrameCount = @ - 1]
    IN  IF m.inhibitCount = 0 THEN MaybeSchedule(m) ELSE m

\* RenderLoopPrivate::dispatch, up to the frameRequested() signal and after it.
DispatchBegin(l) == [l EXCEPT !.timer = FALSE, !.pendingRepaint = TRUE]

DispatchEnd(l) == [l EXCEPT !.pendingRepaint = FALSE]

\* RenderLoopPrivate::invalidate
Invalidate(l) == [l EXCEPT !.pendingReschedule = FALSE,
                           !.pendingFrameCount = 0, !.timer = FALSE]
=============================================================================
