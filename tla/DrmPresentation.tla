--------------------------- MODULE DrmPresentation ---------------------------
(***************************************************************************)
(* The outputs of one graphics card with atomic mode setting                *)
(* (src/src/backends/drm): how frames reach the screen, and how a change of *)
(* mode, which the card accepts for all its outputs at once, is fitted in   *)
(* between frames, hot-plug, DPMS, configuration changes and VT switches.   *)
(*                                                                          *)
(* A handler makes several calls that change several outputs, so handlers   *)
(* are functions from one state of the card to the next:                    *)
(*   exists    outputs that have a DrmOutput (m_drmOutputs, m_pipelines)    *)
(*   enabled   Output::isEnabled()                                          *)
(*   on        Output::dpmsMode() is On                                     *)
(*   turnOff   m_turnOffTimer is active                                     *)
(*   loops     their render loops (RenderLoopOps)                           *)
(*   pending   DrmPipeline::m_pending, what the next commit asks for        *)
(*   next      DrmPipeline::m_next, what a revert goes back to              *)
(*   flip      m_pageflipPending: a page flip event is still to come        *)
(*   waiting   m_modesetPresentPending: a frame waits for the mode set      *)
(*   kernel    what the card shows on each output: a mode, or Dark          *)
(*   active    the session, and with it the right to commit, is ours        *)
(*   filter    the input filter that switches outputs on again is installed *)
(*   update    a timer will call DrmBackend::updateOutputs()                *)
(* The pipeline belongs to the connector: its part of the state survives    *)
(* the removal of the DrmOutput.  There are enough CRTCs for all outputs.   *)
(* Commits of one handler are all refused by the driver, or none is.        *)
(* Leases and the poll() timeout of waitIdle() are left out.                *)
(***************************************************************************)
EXTENDS RenderLoopOps, FiniteSetsExt

CONSTANTS
    Outputs,        \* connectors of the card
    Modes,          \* display modes
    PreferredMode,  \* the one a new pipeline has
    Dark,           \* the output is switched off
    Scenarios,      \* what may happen together besides rendering: sets of Environment
    MaxFrames       \* bound on the frames a loop counts: none is begun beyond it

ASSUME ModesAssumption == PreferredMode \in Modes /\ Dark \notin Modes
ASSUME OutputsAssumption == IsFiniteSet(Outputs)
ASSUME DrmBoundsAssumption == MaxFrames \in Nat \ {0}

Environment == {"sync",     \* the presentation mode or the cursor changes
                "mode",     \* the user selects other modes
                "disable",  \* the user disables and enables outputs
                "dpms",     \* outputs are switched off and on
                "plug",     \* cables are pulled and plugged
                "session",  \* switching to another VT and back
                "refuse"}   \* the driver refuses commits

ASSUME ScenariosAssumption == Scenarios \subseteq SUBSET Environment

VARIABLES
    gpu,      \* the card and its outputs
    plugged,  \* outputs whose cable is connected
    events    \* what happens in this behaviour besides rendering

vars == <<gpu, plugged, events>>

Resyncs == IF "sync" \in events THEN BOOLEAN ELSE {FALSE}
Refusals == IF "refuse" \in events THEN BOOLEAN ELSE {FALSE}

PipelineState == [enabled : BOOLEAN, crtc : BOOLEAN, active : BOOLEAN,
                  mode : Modes, needsModeset : BOOLEAN]

NewPipeline == [enabled |-> TRUE, crtc |-> FALSE, active |-> TRUE,
                mode |-> PreferredMode, needsModeset |-> FALSE]

\* What a loop that has been answered too often is left with: only hot-plug does
\* that, when the waiting flag of a pipeline outlives its output.
Counted(l) ==
    IF "plug" \in events /\ l.pendingFrameCount < 0
    THEN [l EXCEPT !.pendingFrameCount = 0]
    ELSE l

TypeInv ==
    /\ \A o \in Outputs : Counted(gpu.loops[o]) \in LoopState
    /\ [gpu EXCEPT !.loops = {}] \in
               [exists : SUBSET Outputs, enabled : SUBSET Outputs,
                on : SUBSET Outputs, turnOff : SUBSET Outputs,
                loops : {{}},
                pending : [Outputs -> PipelineState],
                next : [Outputs -> PipelineState],
                flip : SUBSET Outputs, waiting : SUBSET Outputs,
                kernel : [Outputs -> Modes \cup {Dark}],
                active : BOOLEAN, filter : BOOLEAN, update : BOOLEAN]
    /\ plugged \in SUBSET Outputs
    /\ events \in Scenarios

Blank == [o \in Outputs |-> Dark]

\* At startup the firmware left the outputs on or off; updateOutputs() is due.
Init ==
    /\ plugged = Outputs
    /\ events \in Scenarios
    /\ \E left \in {[o \in Outputs |-> PreferredMode], Blank} :
       gpu = [exists |-> {}, enabled |-> {}, on |-> Outputs, turnOff |-> {},
              loops |-> [o \in Outputs |-> InitialLoop],
              pending |-> [o \in Outputs |-> NewPipeline],
              next |-> [o \in Outputs |-> NewPipeline],
              flip |-> {}, waiting |-> {},
              kernel |-> left,
              active |-> TRUE, filter |-> FALSE, update |-> TRUE]

-----------------------------------------------------------------------------
(* Helpers.                                                                 *)

\* op applied to the loop of every output in S.
OnLoops(g, S, op(_)) ==
    [g EXCEPT !.loops = [o \in Outputs |-> IF o \in S THEN op(@[o]) ELSE @[o]]]

\* DrmPipeline::activePending, and what a commit of the pipeline would show.
Shown(c) == IF c.crtc /\ c.active THEN c.mode ELSE Dark

\* A commit covers the pipelines of the existing outputs, and switches off the
\* objects that none of them uses (DrmGpu::unusedObjects).
Target(g, o) == IF o \in g.exists THEN Shown(g.pending[o]) ELSE Dark

\* Outputs whose loop the Compositor listens to.
Composited(g) == g.exists \cap g.enabled

ApplyPending(g, S) ==
    [g EXCEPT !.next = [o \in Outputs |-> IF o \in S THEN g.pending[o] ELSE @[o]]]

RevertPending(g, S) ==
    [g EXCEPT !.pending = [o \in Outputs |-> IF o \in S THEN g.next[o] ELSE @[o]]]

\* The pipelines in S learn from a test whether what they ask for is a mode set.
SetNeedsModeset(g, S, needed) ==
    [g EXCEPT !.pending = [o \in Outputs |->
        IF o \in S THEN [@[o] EXCEPT !.needsModeset = needed] ELSE @[o]]]

\* DrmGpu::needsModeset
NeedsModeset(g) == \E o \in g.exists : g.pending[o].needsModeset

\* How the card answers a commit that may set modes.
CommitError(g, refused) ==
    IF ~g.active THEN "NoPermission"
    ELSE IF refused THEN "InvalidArguments" ELSE "None"

\* A frame of every output in S has been answered: pageFlipped() or frameFailed().
FramesDone(g, S) == OnLoops(g, S, FrameDone)

\* DrmGpu::waitIdle: the page flip events still to come are handled here.
WaitIdle(g) == [FramesDone(g, g.flip) EXCEPT !.flip = {}]

-----------------------------------------------------------------------------
(* Mode sets and frames.                                                    *)

\* DrmGpu::maybeModeset: every output that will be lit has a frame waiting.
ReadyForModeset(g) ==
    \A o \in g.exists : o \in g.waiting \/ Shown(g.pending[o]) = Dark

\* Mutant: all outputs are told, also those that have no frame waiting.
ModesetFailed_TellsAll(g) ==
    [FramesDone(g, g.exists) EXCEPT !.waiting = @ \ g.exists, !.update = TRUE]

\* The mode set was refused: the waiting frames have failed.
ModesetFailed(g) ==
    [FramesDone(g, g.waiting \cap g.exists)
       EXCEPT !.waiting = @ \ g.exists, !.update = TRUE]

\* The commit blocks, so the frames count as presented at once.
ModesetDone(g) ==
    LET lit == {o \in g.exists : Shown(g.pending[o]) # Dark}
    IN  [FramesDone(SetNeedsModeset(g, g.exists, FALSE), lit)
           EXCEPT !.waiting = @ \ g.exists,
                  !.kernel = [o \in Outputs |-> Target(g, o)]]

\* Mutant: the page flips in flight are not waited for.
MaybeModeset_NotIdle(g, refused) ==
    IF ~ReadyForModeset(g) THEN g
    ELSE IF CommitError(g, refused) = "None" THEN ModesetDone(g) ELSE ModesetFailed(g)

MaybeModeset(g, refused) ==
    IF ~ReadyForModeset(g) THEN g
    ELSE IF CommitError(g, refused) = "None" THEN ModesetDone(WaitIdle(g))
                                             ELSE ModesetFailed(WaitIdle(g))

\* A commit of one pipeline that may not set a mode, or a test of one.
FlipError(g, o, refused) ==
    IF ~g.active THEN "NoPermission"
    ELSE IF refused \/ Shown(g.pending[o]) # g.kernel[o] THEN "InvalidArguments"
    ELSE "None"

\* Some property of the pipeline that needs no mode set is tried out: kept for
\* the next commits if the test passes, given up otherwise.
TestPipeline(g, o, refused) ==
    IF FlipError(g, o, refused) = "None" THEN ApplyPending(g, {o})
                                         ELSE RevertPending(g, {o})

\* Mutant: a frame that is not presented is not answered.
PresentFrame_Silent(g, o, refused) ==
    IF o \notin g.flip /\ FlipError(g, o, refused) = "None"
    THEN [g EXCEPT !.flip = @ \cup {o}] ELSE g

\* DrmPipeline::present; the driver allows one frame in flight per output.
PresentFrame(g, o, refused) ==
    LET err == IF o \in g.flip THEN "FramePending" ELSE FlipError(g, o, refused)
    IN  IF err = "None" THEN [g EXCEPT !.flip = @ \cup {o}]
        ELSE [FramesDone(g, {o}) EXCEPT !.update = @ \/ err = "InvalidArguments"]

\* Mutant: the flag is set after the other outputs have been looked at.
Present_FlagAfter(g, o, refused) ==
    IF NeedsModeset(g)
    THEN [MaybeModeset(g, refused) EXCEPT !.waiting = @ \cup {o}]
    ELSE PresentFrame(g, o, refused)

\* DrmOutput::present
Present(g, o, refused) ==
    IF NeedsModeset(g)
    THEN MaybeModeset([g EXCEPT !.waiting = @ \cup {o}], refused)
    ELSE PresentFrame(g, o, refused)

-----------------------------------------------------------------------------
(* DPMS.                                                                    *)

\* DrmBackend::checkOutputsAreOn
CheckOutputsAreOn(g) ==
    [g EXCEPT !.filter = @ /\ ~(Composited(g) \subseteq g.on)]

\* The commit switches the output off; only its pipeline is part of it.
SwitchedOff(g, o) ==
    [OnLoops(ApplyPending(SetNeedsModeset(g, {o}, FALSE), {o}), {o}, Inhibit)
       EXCEPT !.kernel[o] = Dark, !.on = @ \ {o}, !.filter = TRUE]

\* DrmOutput::setDrmDpmsMode(Off)
SwitchOff(g, o, refused) ==
    IF o \notin Composited(g) \cap g.on THEN g
    ELSE LET tried == [WaitIdle(g) EXCEPT !.pending[o].active = FALSE]
         IN  IF CommitError(g, refused) = "None" THEN SwitchedOff(tried, o)
             ELSE CheckOutputsAreOn(RevertPending(tried, {o}))

\* A successful test is all there is: the next frame sets the mode.
SwitchedOn(g, o) ==
    LET tested == SetNeedsModeset(g, {o}, Shown(g.pending[o]) # g.kernel[o])
        lit == CheckOutputsAreOn([ApplyPending(tested, {o}) EXCEPT !.on = @ \cup {o}])
    IN  OnLoops(lit, {o}, LAMBDA l : ScheduleRepaint(Uninhibit(l), NoItem))

\* DrmOutput::setDrmDpmsMode(On)
SwitchOn(g, o, refused) ==
    IF o \notin Composited(g) \ g.on THEN g
    ELSE LET tried == [g EXCEPT !.pending[o].active = TRUE]
         IN  IF CommitError(g, refused) = "None" THEN SwitchedOn(tried, o)
                                                 ELSE RevertPending(tried, {o})

\* DrmOutput::setDpmsMode(On): a running turn-off timer is taken for "still on".
SetDpmsModeOn(g, o, refused) ==
    LET checked == CheckOutputsAreOn(g)
        switched == IF o \in g.turnOff THEN checked ELSE SwitchOn(checked, o, refused)
    IN  [switched EXCEPT !.turnOff = @ \ {o}]

AllOn(g, refused) ==
    FoldSet(LAMBDA o, h : SetDpmsModeOn(h, o, refused), g, Composited(g))

\* DrmBackend::turnOutputsOn
TurnOutputsOn(g, refused) == AllOn([g EXCEPT !.filter = FALSE], refused)

-----------------------------------------------------------------------------
(* Configuration of the outputs.                                            *)

\* Mutant: the pipelines that were tested as if they were on are left so.
Configured_LeavesOn(g) ==
    LET assigned == [g EXCEPT !.pending = [o \in Outputs |->
            [@[o] EXCEPT !.crtc = o \in g.exists /\ g.pending[o].enabled,
                         !.active = TRUE]]]
    IN  SetNeedsModeset(assigned, g.exists,
                        \E o \in Outputs : Target(assigned, o) # g.kernel[o])

\* DrmGpu::testPendingConfiguration, when the test passes: enabled pipelines get
\* a CRTC; those that are switched off are tested as if they were on, and every
\* pipeline of the card is told whether the whole needs a mode set.
Configured(g) ==
    LET assigned == [g EXCEPT !.pending = [o \in Outputs |->
            [@[o] EXCEPT !.crtc = o \in g.exists /\ g.pending[o].enabled]]]
        wanted(o) == IF assigned.pending[o].crtc
                     THEN assigned.pending[o].mode ELSE Dark
    IN  SetNeedsModeset(assigned, g.exists,
                        \E o \in Outputs : wanted(o) # g.kernel[o])

\* Compositor::addOutput: what is new on the workspace is repainted in full.
RepaintNew(old, g) ==
    OnLoops(g, Composited(g) \ Composited(old), LAMBDA l : ScheduleRepaint(l, NoItem))

\* DrmGpu::removeOutput.  The pipeline keeps its state.
RemoveOutputs(g, gone) ==
    [OnLoops(g, gone, LAMBDA l : InitialLoop)
       EXCEPT !.exists = @ \ gone, !.enabled = @ \ gone, !.turnOff = @ \ gone]

\* New DrmOutputs: switched on, with render loops of their own.
AddOutputs(g, added) ==
    LET created == [g EXCEPT !.exists = @ \cup added, !.enabled = @ \cup added,
                             !.on = @ \cup added,
                             !.pending = [o \in Outputs |-> IF o \in added
                                 THEN [@[o] EXCEPT !.active = TRUE] ELSE @[o]]]
    IN  ApplyPending(created, added)

\* The connectors of the removed outputs are erased, and their pipelines too.
EraseConnectors(g, added) ==
    [RemoveOutputs(g, added) EXCEPT
        !.pending = [o \in Outputs |-> IF o \in added THEN NewPipeline ELSE @[o]],
        !.next = [o \in Outputs |-> IF o \in added THEN NewPipeline ELSE @[o]],
        !.waiting = @ \ added, !.update = TRUE]

\* The new outputs are left without a working setup.
DisableOutputs(g, added) ==
    ApplyPending([g EXCEPT
        !.enabled = @ \ added,
        !.pending = [o \in Outputs |-> IF o \in added
                        THEN [@[o] EXCEPT !.enabled = FALSE] ELSE @[o]]], added)

\* DrmGpu::updateOutputs; nothing here commits the mode set that may be needed.
UpdateOutputs(g, cables, refused) ==
    LET idle == [WaitIdle(g) EXCEPT !.update = FALSE]
        gone == g.exists \ cables
        added == cables \ g.exists
        dark == FoldSet(LAMBDA o, h : SwitchOff(h, o, refused), idle, gone)
        changed == AddOutputs(RemoveOutputs(dark, gone), added)
        tested == Configured(changed)
        applied == ApplyPending(tested, tested.exists)
        lost == {o \in tested.exists : ~tested.pending[o].crtc}
        reverted == RevertPending(changed, changed.exists)
        err == IF changed.exists = {} THEN "None" ELSE CommitError(g, refused)
    IN  RepaintNew(g, CASE err = "None" ->
                             [applied EXCEPT !.enabled = @ \ lost,
                                 !.pending = [o \in Outputs |-> IF o \in lost
                                     THEN [@[o] EXCEPT !.enabled = FALSE] ELSE @[o]]]
                        [] err = "NoPermission" -> EraseConnectors(reverted, added)
                        [] OTHER -> DisableOutputs(reverted, added))

\* DrmOutput::applyQueuedChanges, for an output that the user wants enabled or not.
ApplyQueuedChanges(g, o, enable, refused) ==
    LET applied == ApplyPending(g, {o})
        enabled == enable /\ g.pending[o].crtc
        updated == [applied EXCEPT !.enabled = IF enabled THEN @ \cup {o} ELSE @ \ {o}]
        settled == IF ~enabled /\ g.pending[o].needsModeset
                   THEN MaybeModeset(updated, refused) ELSE updated
        asked == OnLoops(settled, {o}, LAMBDA l : ScheduleRepaint(l, NoItem))
    IN  IF enabled /\ o \in g.on THEN TurnOutputsOn(asked, refused) ELSE asked

\* DrmBackend::applyOutputChanges: either every change is queued, tested and
\* applied, outputs to be enabled first, or none is.
ApplyOutputChanges(g, enable, mode, refused) ==
    LET queued == [g EXCEPT !.pending = [o \in Outputs |-> IF o \in g.exists
                      THEN [@[o] EXCEPT !.enabled = o \in enable, !.mode = mode[o]]
                      ELSE @[o]]]
        apply(S, h0) == FoldSet(
            LAMBDA o, h : ApplyQueuedChanges(h, o, o \in enable, refused), h0, S)
    IN  IF CommitError(g, refused) # "None" THEN RevertPending(queued, g.exists)
        ELSE RepaintNew(g, apply(g.exists \ enable,
                                 apply(g.exists \cap enable, Configured(queued))))

-----------------------------------------------------------------------------
(* The steps.                                                               *)

\* Something on the output shall be drawn anew.
Repaint(o) ==
    /\ o \in Composited(gpu)
    /\ gpu' = OnLoops(gpu, {o}, LAMBDA l : ScheduleRepaint(l, NoItem))
    /\ UNCHANGED <<plugged, events>>

\* The timer of a loop: Compositor::composite renders and presents a frame.  The
\* presentation mode may have changed, and is tried out first.
Render(o, resync, refused) ==
    /\ gpu.loops[o].timer
    /\ gpu.loops[o].pendingFrameCount < MaxFrames
    /\ o \in Composited(gpu)
    /\ LET begun == OnLoops(gpu, {o}, LAMBDA l : BeginFrame(DispatchBegin(l)))
           tuned == IF resync THEN TestPipeline(begun, o, refused) ELSE begun
       IN  gpu' = OnLoops(Present(tuned, o, refused), {o}, DispatchEnd)
    /\ UNCHANGED <<plugged, events>>

\* Nobody listens to the loop of a disabled output.
TimerOfDisabled(o) ==
    /\ gpu.loops[o].timer
    /\ o \in gpu.exists \ gpu.enabled
    /\ gpu' = OnLoops(gpu, {o}, LAMBDA l : DispatchEnd(DispatchBegin(l)))
    /\ UNCHANGED <<plugged, events>>

\* DrmGpu::pageFlipHandler
PageFlipHandler(o) ==
    /\ o \in gpu.flip
    /\ gpu' = [FramesDone(gpu, {o}) EXCEPT !.flip = @ \ {o}]
    /\ UNCHANGED <<plugged, events>>

\* A timer calls DrmBackend::updateOutputs.
RunUpdateOutputs(refused) ==
    /\ gpu.update
    /\ gpu' = UpdateOutputs(gpu, plugged, refused)
    /\ UNCHANGED <<plugged, events>>

\* DrmPipeline::moveCursor, DrmOutput::setColorTransformation
TryProperty(o, refused) ==
    /\ "sync" \in events
    /\ o \in Composited(gpu)
    /\ LET tested == TestPipeline(gpu, o, refused)
       IN  gpu' = IF FlipError(gpu, o, refused) = "None"
                  THEN OnLoops(tested, {o}, LAMBDA l : ScheduleRepaint(l, NoItem))
                  ELSE tested
    /\ UNCHANGED <<plugged, events>>

\* Workspace::applyOutputConfiguration
Configure(enable, mode, refused) ==
    /\ gpu.exists # {}
    /\ "disable" \in events \/ enable = gpu.enabled
    /\ "mode" \in events \/ \A o \in Outputs : mode[o] = gpu.pending[o].mode
    /\ gpu' = ApplyOutputChanges(gpu, enable, mode, refused)
    /\ UNCHANGED <<plugged, events>>

\* DrmOutput::setDpmsMode(Off) starts to dim the output.
SetDpmsModeOff(o) ==
    /\ "dpms" \in events
    /\ o \in gpu.exists
    /\ gpu' = [gpu EXCEPT !.turnOff = @ \cup {o}, !.filter = @ \/ o \in gpu.enabled]
    /\ UNCHANGED <<plugged, events>>

\* m_turnOffTimer
TurnOffTimer(o, refused) ==
    /\ o \in gpu.turnOff
    /\ gpu' = SwitchOff([gpu EXCEPT !.turnOff = @ \ {o}], o, refused)
    /\ UNCHANGED <<plugged, events>>

\* The DPMS protocol asks for one output.
SwitchOnRequest(o, refused) ==
    /\ "dpms" \in events
    /\ o \in gpu.exists
    /\ gpu' = SetDpmsModeOn(gpu, o, refused)
    /\ UNCHANGED <<plugged, events>>

\* DpmsInputEventFilter::notify: the user touches an input device.
Notify(refused) ==
    /\ gpu.filter
    /\ gpu' = AllOn(gpu, refused)
    /\ UNCHANGED <<plugged, events>>

\* A cable is pulled or plugged; DrmBackend::handleUdevEvent looks at it only
\* while the session is active.
ChangeCable(o) ==
    /\ "plug" \in events
    /\ plugged' = IF o \in plugged THEN plugged \ {o} ELSE plugged \cup {o}
    /\ gpu' = [gpu EXCEPT !.update = @ \/ gpu.active]
    /\ UNCHANGED events

\* DrmGpu::setActive(false)
PauseDevice ==
    /\ "session" \in events
    /\ gpu.active
    /\ gpu' = [OnLoops(gpu, gpu.exists, Inhibit) EXCEPT !.active = FALSE]
    /\ UNCHANGED <<plugged, events>>

\* DrmGpu::setActive(true).  Whoever had the card left each output as it liked, lit
\* also where it is switched off here; the new configuration is only tested.
ResumeDevice(left, refused) ==
    /\ ~gpu.active
    /\ LET resumed == [OnLoops(gpu, gpu.exists, Uninhibit)
                         EXCEPT !.active = TRUE, !.kernel = left]
       IN  gpu' = UpdateOutputs(resumed, plugged, refused)
    /\ UNCHANGED <<plugged, events>>

-----------------------------------------------------------------------------

LoopStep ==
    \E o \in Outputs :
        \/ \E resync \in Resyncs, refused \in Refusals : Render(o, resync, refused)
        \/ TimerOfDisabled(o)

Timers ==
    \/ \E refused \in Refusals : RunUpdateOutputs(refused)
    \/ \E o \in Outputs, refused \in Refusals : TurnOffTimer(o, refused)

Requests ==
    \/ \E o \in Outputs : Repaint(o)
    \/ \E o \in Outputs, refused \in Refusals : TryProperty(o, refused)
    \/ \E enable \in SUBSET gpu.exists, mode \in [Outputs -> Modes],
          refused \in Refusals : Configure(enable, mode, refused)
    \/ \E o \in Outputs : SetDpmsModeOff(o)
    \/ \E o \in Outputs, refused \in Refusals : SwitchOnRequest(o, refused)
    \/ \E refused \in Refusals : Notify(refused)
    \/ \E o \in Outputs : ChangeCable(o)
    \/ PauseDevice
    \/ \E left \in [Outputs -> Modes \cup {Dark}], refused \in Refusals :
          ResumeDevice(left, refused)

PageFlips == \E o \in Outputs : PageFlipHandler(o)

Next == LoopStep \/ PageFlips \/ Timers \/ Requests

\* Timers run, and the card reports each page flip.
Fairness ==
    /\ \A o \in Outputs :
          /\ WF_vars(\E resync \in Resyncs, refused \in Refusals :
                         Render(o, resync, refused))
          /\ WF_vars(PageFlipHandler(o))
    /\ WF_vars(Timers)

Spec == Init /\ [][Next]_vars /\ Fairness

\* The same with an animation on every output.
BusySpec == Spec /\ \A o \in Outputs : WF_vars(Repaint(o))

-----------------------------------------------------------------------------
(* Properties.                                                              *)

Count(b) == IF b THEN 1 ELSE 0

\* Q_ASSERT(pendingFrameCount > 0) in the callers' notifyFrameCompleted() and
\* notifyFrameFailed(): a page flip or a mode set that is still to be reported
\* belongs to a frame that the loop has begun.  Not across hot-plug, where the
\* waiting flag of a pipeline outlives its output and fails the assertion.
AnswersAreOwed ==
    "plug" \notin events =>
        \A o \in gpu.exists :
            gpu.loops[o].pendingFrameCount
                >= Count(o \in gpu.flip) + Count(o \in gpu.waiting)

\* What the outputs shall show is what they show.
NothingToSet == \A o \in gpu.exists : Shown(gpu.pending[o]) = gpu.kernel[o]

\* Conversely a loop counts no frame but one with a page flip to come or one that waits
\* for the mode set, and a frame only waits while a mode set is due, or none is needed
\* any more: a count without an answer delays all repaints of the loop.  The exception
\* is real.  When the mode change, or a mode set wrongly thought necessary after a
\* refused test, is taken back by a configuration, the flags stay set and nobody
\* answers the frames until another mode set.  Every output stays and stays lit, and the
\* session active: maybeModeset() clears the flag of a waiting output that has been
\* switched off or disabled meanwhile, and does not answer its frame; and a loop
\* that the end of a pause starts again behind a frame that waits for the mode set
\* begins a second one, which the flag does not count.
FramesAreAnswered ==
    events \cap {"disable", "dpms", "plug", "session"} = {} =>
        \A o \in gpu.exists :
            /\ gpu.loops[o].pendingFrameCount
                   <= Count(o \in gpu.flip) + Count(o \in gpu.waiting)
            /\ o \in gpu.waiting => NeedsModeset(gpu) \/ NothingToSet

\* The pauses of a loop nest: one while its output is switched off, one while
\* the session is inactive, through every failure and hot-plug.
PausesAreBalanced ==
    \A o \in gpu.exists :
        gpu.loops[o].inhibitCount = Count(o \notin gpu.on) + Count(~gpu.active)

\* An output that is switched off is dark, or as it was before: no commit of an active
\* session lights it, neither a configuration change nor the mode set of another
\* output, nor one that fails.  Only another user of the card can have it lit, and then
\* it stays lit after the session is resumed, until the next mode set.
OffIsNotLit ==
    gpu.active =>
        \A o \in gpu'.exists \ gpu'.on :
            \/ gpu'.kernel[o] = Dark
            \/ o \in gpu.exists \ gpu.on /\ gpu'.kernel[o] = gpu.kernel[o]

\* A page flip is only awaited from an output that exists and is lit; waitIdle()
\* would otherwise block for its whole timeout.
NoFlipInTheDark ==
    gpu.flip \subseteq {o \in gpu.exists : gpu.kernel[o] # Dark}

\* An output that is off or without frames in the kernel is left in peace, whatever
\* the other outputs, hot-plug, DPMS, VT switches and refused commits do meanwhile.
DarkIsQuiet ==
    /\ [](NoFlipInTheDark /\ PausesAreBalanced)
    /\ [][OffIsNotLit]_vars

\* No mode is set while a page flip of any output is in flight, which the driver
\* would refuse.
ModesetWaitsForFlips ==
    [][ gpu'.kernel # gpu.kernel => gpu'.flip = {} ]_vars

\* A frame that waits for a mode set is presented or reported as failed when every
\* output of the card keeps drawing (BusySpec), while modes change and change back,
\* unless the mode set is no longer due before all outputs are ready for it (see
\* FramesAreAnswered).
WaitingFrameIsPresented ==
    \A o \in Outputs : o \in gpu.waiting ~> (o \notin gpu.waiting \/ ~NeedsModeset(gpu))

=============================================================================
