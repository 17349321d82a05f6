------------------------------ MODULE RenderLoop ------------------------------
(***************************************************************************)
(* One RenderLoop with the two parties around it: the Compositor, which     *)
(* renders when the loop asks for a frame (src/src/composite.cpp), and the  *)
(* output backend, which takes the rendered frame and later reports it      *)
(* presented or failed, pauses the loop and resumes it.                     *)
(*                                                                          *)
(* Everything runs in one thread, so a step is a stretch of code between    *)
(* two returns to other code that may call the loop.  A dispatch of the     *)
(* loop is three steps, because the code that runs inside it (effects,      *)
(* windows, scene) asks for repaints too:                                   *)
(*   idle -> requested  the timer fires, frameRequested() is emitted        *)
(*   requested -> rendering  Compositor::composite calls beginFrame(),      *)
(*              unless nothing of what it draws can be seen or the graphics   *)
(*              were reset: then the dispatch ends without a frame            *)
(*   rendering -> idle  m_backend->present() and the end of dispatch()      *)
(***************************************************************************)
EXTENDS RenderLoopOps

CONSTANTS
    Backends,    \* the output backends looked at
    MaxFrames,   \* bound on the frames in flight: no resume beyond it
    MaxInhibit   \* bound on the nesting of inhibit()

ASSUME BoundsAssumption ==
    /\ Backends \subseteq {"drm", "x11"}
    /\ MaxFrames \in Nat \ {0}
    /\ MaxInhibit \in Nat

VARIABLES
    loop,         \* the RenderLoop
    phase,        \* where the dispatch of the loop is
    compositing,  \* Compositor::State::On
    inFlight,     \* frames the backend has accepted and not answered yet
    damage,       \* who asked for a repaint that no frame has drawn yet
                  \* (history: no guard reads it)
    backend,      \* the output backend in use
    visible,      \* the X11 overlay window is not fully obscured
    generation    \* flips with every graphics reset (history: no guard reads it)

vars == <<loop, phase, compositing, inFlight, damage, backend, visible, generation>>

Requesters == Items \cup {NoItem}

TypeInv ==
    /\ loop \in LoopState
    /\ phase \in {"idle", "requested", "rendering"}
    /\ compositing \in BOOLEAN
    /\ inFlight \in Nat
    /\ damage \in SUBSET Requesters
    /\ backend \in Backends
    /\ visible \in BOOLEAN
    /\ generation \in BOOLEAN

Init ==
    /\ loop = InitialLoop
    /\ phase = "idle"
    /\ compositing = FALSE
    /\ inFlight = 0
    /\ damage = {}
    /\ backend \in Backends
    /\ visible = TRUE
    /\ generation = FALSE

-----------------------------------------------------------------------------
(* The scene and the windows.                                               *)

\* Item::scheduleRepaintInternal, or RenderLayer::addRepaint with the null item.
Repaint(item) ==
    /\ compositing
    /\ loop' = ScheduleRepaint(loop, item)
    /\ damage' = damage \cup {item}
    /\ UNCHANGED <<phase, compositing, inFlight, backend, visible, generation>>

-----------------------------------------------------------------------------
(* The Compositor.                                                          *)

\* compositeTimer times out: dispatch() up to the signal.
TimerFires ==
    /\ phase = "idle"
    /\ loop.timer
    /\ loop' = DispatchBegin(loop)
    /\ phase' = "requested"
    /\ UNCHANGED <<compositing, inFlight, damage, backend, visible, generation>>

\* Nobody is connected to frameRequested() while compositing is off.
NobodyListens ==
    /\ phase = "requested"
    /\ ~compositing
    /\ loop' = DispatchEnd(loop)
    /\ phase' = "idle"
    /\ UNCHANGED <<compositing, inFlight, damage, backend, visible, generation>>

\* composite() up to beginFrame(): the scanout candidate of this frame is
\* handed to the loop, and everything damaged so far gets drawn.
StartRendering(candidate) ==
    /\ phase = "requested"
    /\ compositing
    /\ visible
    /\ loop' = BeginFrame([loop EXCEPT !.fullscreenItem = candidate])
    /\ phase' = "rendering"
    /\ damage' = {}
    /\ UNCHANGED <<compositing, inFlight, backend, visible, generation>>

\* X11Compositor::composite returns at once while the overlay window is obscured;
\* what was asked for stays undrawn until the window is seen again.
NothingVisible ==
    /\ phase = "requested"
    /\ compositing
    /\ ~visible
    /\ loop' = DispatchEnd(loop)
    /\ phase' = "idle"
    /\ UNCHANGED <<compositing, inFlight, damage, backend, visible, generation>>

\* OverlayWindowX11::event: the X server tells how much of the overlay is seen.
\* (The second full repaint, 2 s later, is a Repaint like any other.)
VisibilityNotify(seen) ==
    /\ phase = "idle"
    /\ compositing
    /\ backend = "x11"
    /\ visible' = seen
    /\ loop' = ScheduleRepaint(loop, NoItem)
    /\ damage' = IF seen /\ ~visible THEN damage \cup {NoItem} ELSE damage
    /\ UNCHANGED <<phase, compositing, inFlight, backend, generation>>

\* The end of composite(): the backend takes the frame ...
PresentAccepted ==
    /\ phase = "rendering"
    /\ inFlight' = inFlight + 1
    /\ loop' = DispatchEnd(loop)
    /\ phase' = "idle"
    /\ UNCHANGED <<compositing, damage, backend, visible, generation>>

\* Mutant: the refusal is not reported to the loop.
PresentRefused_Silent ==
    /\ phase = "rendering"
    /\ loop' = DispatchEnd(loop)
    /\ phase' = "idle"
    /\ UNCHANGED <<compositing, inFlight, damage, backend, visible, generation>>

\* ... or refuses it and reports the failure at once.
PresentRefused ==
    /\ phase = "rendering"
    /\ loop' = DispatchEnd(FrameDone(loop))
    /\ phase' = "idle"
    /\ UNCHANGED <<compositing, inFlight, damage, backend, visible, generation>>

\* The X11 backends do not keep their loop and invalidate() it.
LoopInvalidated == backend = "x11"
BackendDestroyed(l) == IF LoopInvalidated THEN Invalidate(l) ELSE l
AnswersOwed == IF LoopInvalidated THEN 0 ELSE inFlight

\* Compositor::stop: the scene goes with everything it wanted drawn.
StopCompositing ==
    /\ phase = "idle"
    /\ compositing
    /\ compositing' = FALSE
    /\ loop' = BackendDestroyed(loop)
    /\ inFlight' = AnswersOwed
    /\ damage' = {}
    /\ UNCHANGED <<phase, backend, visible, generation>>

\* Compositor::start: the new layers are damaged in full (setGeometry).
StartCompositing ==
    /\ phase = "idle"
    /\ ~compositing
    /\ ~loop.terminating
    /\ compositing' = TRUE
    /\ loop' = ScheduleRepaint(loop, NoItem)
    /\ damage' = {NoItem}
    /\ visible' = TRUE
    /\ UNCHANGED <<phase, inFlight, backend, generation>>

\* composite() finds a reset of the graphics card and only reinitializes: stop()
\* and start(), which may fail, inside the dispatch.
GraphicsReset(started) ==
    /\ phase = "requested"
    /\ compositing
    /\ visible
    /\ started => ~loop.terminating
    /\ LET stopped == BackendDestroyed(loop)
           restarted == IF started THEN ScheduleRepaint(stopped, NoItem)
                                   ELSE stopped
       IN  loop' = DispatchEnd(restarted)
    /\ compositing' = started
    /\ damage' = IF started THEN {NoItem} ELSE {}
    /\ inFlight' = AnswersOwed
    /\ phase' = "idle"
    /\ generation' = ~generation
    /\ UNCHANGED <<backend, visible>>

\* Application::setTerminating, at the start of the shutdown.
Terminate ==
    /\ phase = "idle"
    /\ ~loop.terminating
    /\ loop' = [loop EXCEPT !.terminating = TRUE]
    /\ UNCHANGED <<phase, compositing, inFlight, damage, backend, visible, generation>>

-----------------------------------------------------------------------------
(* The output backend.  While a frame is being presented it may wait for    *)
(* earlier ones, so answers arrive in the rendering phase too.               *)

Answer ==
    /\ phase # "requested"
    /\ inFlight > 0
    /\ inFlight' = inFlight - 1
    /\ loop' = FrameDone(loop)
    /\ UNCHANGED <<phase, compositing, damage, backend, visible, generation>>

Pause ==
    /\ phase = "idle"
    /\ loop.inhibitCount < MaxInhibit
    /\ loop' = Inhibit(loop)
    /\ UNCHANGED <<phase, compositing, inFlight, damage, backend, visible, generation>>

Resume ==
    /\ phase = "idle"
    /\ loop.inhibitCount > 0
    /\ loop.pendingFrameCount < MaxFrames
    /\ loop' = Uninhibit(loop)
    /\ UNCHANGED <<phase, compositing, inFlight, damage, backend, visible, generation>>

-----------------------------------------------------------------------------
Rendering ==
    \/ TimerFires
    \/ NobodyListens
    \/ NothingVisible
    \/ \E candidate \in Requesters : StartRendering(candidate)
    \/ PresentAccepted
    \/ PresentRefused

Next ==
    \/ \E item \in Requesters : Repaint(item)
    \/ Rendering
    \/ \E seen \in BOOLEAN : VisibilityNotify(seen)
    \/ StopCompositing
    \/ StartCompositing
    \/ \E started \in BOOLEAN : GraphicsReset(started)
    \/ Terminate
    \/ Answer
    \/ Pause
    \/ Resume

\* The event loop keeps running timers and code that has started finishes; a
\* backend answers every frame that it has accepted.
Fairness ==
    /\ WF_vars(Rendering)
    /\ WF_vars(Answer)

Spec == Init /\ [][Next]_vars /\ Fairness

-----------------------------------------------------------------------------
(* Properties.                                                              *)

\* A request is held when some later step of the loop itself turns it into a
\* frame: the dispatch that is under way, the timer, or the delayed flag.
Held == loop.pendingRepaint \/ loop.timer \/ loop.pendingReschedule

\* What all this is for: the loop keeps the promises of FrameSchedule.
Contract == INSTANCE FrameSchedule WITH
    want <- Held,
    busy <- loop.pendingFrameCount,
    paused <- loop.inhibitCount > 0,
    serving <- compositing /\ visible /\ ~loop.terminating,
    generation <- generation

\* renderloop.h: frames are begun on request and never during a pause, requests are
\* given up only on the occasions that FrameSchedule lists, and otherwise granted.
KeepsSchedule == Contract!Spec

\* The accounting that Q_ASSERT(pendingFrameCount > 0) in notifyFrameCompleted
\* and notifyFrameFailed depends on: the loop counts exactly the frames that
\* are being rendered or that the backend still owes an answer for.
FrameAccounting ==
    loop.pendingFrameCount = inFlight + (IF phase = "rendering" THEN 1 ELSE 0)

\* A paused loop never starts a compositing cycle: inhibit() stops the timer and
\* neither an answer that arrives late nor a request arms it again.
PausedLoopSleeps ==
    loop.timer => loop.inhibitCount = 0

\* A request that is delayed waits for something: a frame in flight or the end
\* of a pause.  Otherwise nothing would ever re-apply it (a lost wake-up).
DelayedRequestHasWaker ==
    loop.pendingReschedule => loop.pendingFrameCount > 0 \/ loop.inhibitCount > 0

\* The pause is kept and remembered: nothing runs in it, and nothing is delayed
\* that no later answer or resume would apply (inhibit, notifyFrameCompleted).
SleepsAndWakes == PausedLoopSleeps /\ DelayedRequestHasWaker

\* Two frames of one output overlap only as the result of a resume: the timer is
\* never armed behind a frame in flight by a request or by the compositor.
OverlapNeedsResume ==
    [][ (~loop.timer /\ loop'.timer /\ loop'.pendingFrameCount > 0)
          => \/ loop'.inhibitCount < loop.inhibitCount
             \/ loop'.pendingFrameCount < loop.pendingFrameCount ]_vars

\* What was asked for and is held by the loop gets drawn: until then the loop does
\* not lose the request, whatever frames are in flight, unless it is paused, the
\* graphics are reset, nothing of it can be seen or compositing ends meanwhile.
HeldRequestIsDrawn ==
    \A g \in BOOLEAN :
        (damage # {} /\ Held /\ generation = g)
            ~> (damage = {} \/ generation # g \/ loop.inhibitCount > 0
                  \/ loop.terminating \/ ~compositing \/ ~visible)

=============================================================================
