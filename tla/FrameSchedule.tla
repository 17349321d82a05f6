---------------------------- MODULE FrameSchedule ----------------------------
(***************************************************************************)
(* What a render loop promises to the scene that asks it for frames, to the *)
(* compositor that draws them and to the backend that shows them            *)
(* (src/src/core/renderloop.h), without timers, flags and phases:           *)
(*   - a frame is begun only when somebody wants one and nobody has paused  *)
(*     the loop, and ends once;                                             *)
(*   - a wish is given up only in the step that begins a frame, in the one   *)
(*     that pauses a running loop, in a reset of the graphics or while the    *)
(*     loop is out of service: there is no other step without a wish, so a    *)
(*     lost wake-up is a step that this module does not have;                 *)
(*   - a wish that stays is granted while the loop is in service.           *)
(* RenderLoop implements it.                                                *)
(***************************************************************************)
EXTENDS Naturals

VARIABLES
    want,    \* a frame is asked for and has not been begun
    busy,    \* the frames begun and not ended
    paused,  \* somebody has paused the loop
    serving, \* the compositor is running, what it draws can be seen, and KWin
             \* is not about to exit
    generation  \* of the graphics: a reset begins another one

vars == <<want, busy, paused, serving, generation>>

Init == ~want /\ busy = 0 /\ ~paused /\ ~serving /\ generation = FALSE

\* RenderLoop::scheduleRepaint
Ask ==
    /\ want' = TRUE
    /\ UNCHANGED <<busy, paused, serving, generation>>

\* RenderLoop::beginFrame; a wish of later than what is drawn now stays.
Begin ==
    /\ want /\ ~paused
    /\ busy' = busy + 1
    /\ want' \in BOOLEAN
    /\ UNCHANGED <<paused, serving, generation>>

\* Out of service a wish may be forgotten at any moment.
Forgets == ~serving /\ want' = FALSE

\* RenderLoopPrivate::notifyFrameCompleted, notifyFrameFailed
End ==
    /\ busy > 0
    /\ busy' = busy - 1
    /\ UNCHANGED want \/ Forgets
    /\ UNCHANGED <<paused, serving, generation>>

Forget ==
    /\ Forgets
    /\ UNCHANGED <<busy, paused, serving, generation>>

\* The first RenderLoop::inhibit forgets a wish that was about to be granted; one
\* within a pause forgets nothing.
Pause ==
    /\ ~paused
    /\ paused' = TRUE
    /\ want' \in {want, FALSE}
    /\ UNCHANGED <<busy, serving, generation>>

\* RenderLoop::uninhibit
Resume ==
    /\ paused /\ ~paused'
    /\ UNCHANGED want \/ Forgets
    /\ UNCHANGED <<busy, serving, generation>>

\* The compositor starts, or is seen again, and wants everything drawn.
Start ==
    /\ ~serving
    /\ serving' = TRUE
    /\ want' = TRUE
    /\ UNCHANGED <<busy, paused, generation>>

\* The compositor stops, cannot be seen any more, or KWin is about to exit; with
\* the loop's backend gone its frames are not waited for.
Stop ==
    /\ ~serving'
    /\ want' \in BOOLEAN
    /\ busy' \in {busy, 0}
    /\ UNCHANGED <<paused, generation>>

\* The graphics are reset instead of beginning the frame that was wished for; the
\* compositor that starts again may fail to.
Reset ==
    /\ want /\ ~paused
    /\ generation' = ~generation
    /\ serving' \in {serving, FALSE}
    /\ want' \in {want, FALSE}
    /\ busy' \in {busy, 0}
    /\ UNCHANGED paused

Next ==
    \/ Ask \/ Begin \/ End \/ Forget
    \/ Pause \/ Resume
    \/ Start \/ Stop \/ Reset

Safety == Init /\ [][Next]_vars

Spec == Safety /\ WF_vars(serving /\ Begin)
=============================================================================
