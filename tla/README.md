# KWin (lingmo-kwin): a TLA+ verification project

This directory models the core logic of the window manager and Wayland
compositor in `src/` (a C++/Qt program; its own code is under `src/src/`).
KWin runs its state machines in one thread around one event loop, so the
concurrency that matters is not between threads but between *handlers*: timers,
page-flip events of the kernel, requests of Wayland clients, X11 events, D-Bus
calls and the code that those call back into.  A step of a model is one handler
(or the stretch of one between two calls that may come back), and the
interleavings are the orders in which the event loop may run them.

## 1. Inventory

For each part: its state, its operations, how it talks to others, what is hard,
and what makes it correct.

| part (code under `src/src/`) | state and operations | interacts with | what is hard; what must hold |
|---|---|---|---|
| **RenderLoop** `core/renderloop*` | frames in flight, nesting of inhibit(), delayed request, composite timer; scheduleRepaint, inhibit/uninhibit, beginFrame, notifyFrameCompleted/Failed, dispatch, invalidate | asked by scene items and layers, drives the Compositor, answered by the backend | no lost wake-up in any order of request, pause, answer; the frame count never underflows; a held request is drawn |
| **Compositor** `composite.*` | Off/Starting/On/Stopping, scene, backend, super-layers, selection-release timer; start, stop, reinitialize, composite, addOutput/removeOutput | RenderLoop, backends, effects, X11 selection owner | restart while rendering (graphics reset), selection release racing a restart |
| **DRM presentation** `backends/drm/*` | per pipeline pending/next/current state, page flip pending, modeset present pending; present, maybeModeset, setDpmsMode, applyOutputChanges, updateOutputs, leases, session activation | kernel (atomic commits, page-flip events, hot-plug), RenderLoop, Workspace | all outputs of a card must be ready for a modeset; hot-plug, DPMS and VT switches in between; every frame begun is answered exactly once |
| **xdg-shell** `wayland/xdgshell_interface.cpp`, `xdgshellwindow.cpp` | configure serials, pending/current/acked geometry, ping timers | clients over Wayland, Workspace | configure/ack/commit in flight in both directions; the window converges to what was asked |
| **wl_surface and subsurfaces** `wayland/surface_interface.cpp`, `subcompositor_interface.cpp` | pending, cached and current state, subsurface order and sync mode | every shell, scene | atomic application of a synchronised tree |
| **FocusChain** `focuschain.*` | one chain per virtual desktop and the most-recently-used chain | Workspace activation, TabBox, VirtualDesktops | chains contain each window once, agree with the windows' desktops, and the active window stays last |
| **Activation** `activation.cpp` | active window, should-get-focus queue, attention | FocusChain, X11 focus events | late focus events, focus-stealing prevention |
| **Stacking** `layers.cpp`, `group.cpp` | unconstrained and constrained stacking order | Window, X11 | transients above parents, layers respected, sort terminates |
| **VirtualDesktops** `virtualdesktops.*` | desktops, current, grid, navigation | FocusChain, Window | removal of the current desktop, renumbering |
| **Window, X11Window, Deleted** `window.*`, `x11window.*`, `deleted.*`, `x11syncmanager.*` | geometry, states, sync counters, reference count of closed windows | X server, effects | sync request racing its timeout, closed window kept alive exactly while referenced |
| **Workspace outputs** `workspace.cpp` | outputs, order, placeholder | backends, tiles, placement tracker | never without an output |
| **Session** `core/session_*` | active flag, devices | logind/ConsoleKit over D-Bus, DRM, libinput | pause/resume signals racing device pauses |
| **Input** `input*.cpp`, `pointer_input`, `touch_input`, `tablet_input`, `keyboard_*`, `gestures`, `popup_input_filter`, `modifier_only_shortcuts` | focus per device, filters, pressed keys, gesture recognisers | Seat, Workspace, effects | press/release pairing when filters appear or go, repeat racing release |
| **Idle** `idledetector`, `idle_inhibition`, `dpmsinputeventfilter` | timers, inhibitors | Input, DPMS | activity racing the timeout |
| **Seat and data devices** `wayland/seat_interface.cpp`, `data*` | focus, grabs, drag, selections | clients, Xwayland | drag ends with source or target destroyed |
| **Xwayland** `xwayland/*` | launcher (process, restart count, ready), selection bridge, DnD bridge | X server process, Seat | crash while starting, transfers that time out |
| **InputMethod** `inputmethod.*` | active context, panel process | text-input clients | restart after crash, stale serials |
| **Effects** `effects.*`, `effectloader.*`, `effects/`, `scripting/`, `plugins/` | loaded effects, grabs, queue of effects to load | Scene | load queue racing unload |
| **Screen edges** `screenedge.cpp` | reservations, approach/activation times | Input, Window | reactivation thresholds |
| **Placement, PlacementTracker, Tiles, SplitManage** | saved geometries, tile trees, split groups | Workspace outputs | restore after hot-plug |
| **TabBox** `tabbox/` | model, grab, current index | FocusChain | window closed while listed |
| **Rules, session management, scripting, decorations, colours** | configuration-like state | Window | - |
| **other backends** `backends/{x11,wayland,virtual,libinput,fakeinput}` | as DRM, simpler | RenderLoop | - |
| **kcms, utils, data, translations, tests** | no core logic | - | - |

For the parts that no module covers yet (section 6) this table is a reading of the code
and not a model.

## 2. What is modelled

| module | models | composed with |
|---|---|---|
| `RenderLoopOps` | the operations of `RenderLoop` / `RenderLoopPrivate`, as functions from loop to loop | used by the next two |
| `RenderLoop` | one loop with its Compositor and its backend | |
| `FrameSchedule` | abstract: what a render loop promises | implemented by `RenderLoop` |
| `DrmPresentation` | all outputs of a graphics card, one loop each | `RenderLoopOps` |
| `XdgToplevel` | one toplevel window and its client: configure, acknowledge, commit | |
| `XdgPing` | the pings of all windows of the shell | |
| `FocusChain` | the chains of `FocusChain`, as functions | used by the next |
| `DesktopFocus` | virtual desktops, windows on them, activation | `FocusChain` |
| `RenderLoopProofs`, `DrmPresentationProofs`, `XdgToplevelProofs`, `XdgPingProofs`, `XwaylandLauncherProofs`, `InputMethodProofs`, `X11CompositorProofs`, `DragAndDropProofs` | theorems | |
| `MCDesktopFocus` | values of `DesktopFocus`' constants | |
| `SurfaceTree` | surfaces and sub-surfaces of a client: double-buffered state in a tree | |
| `XwaylandLauncher` | the Xwayland server, its connection, and the start of the session that waits for it | |
| `InputMethod` | the input method's process, its context, keyboard grab and panel, and the text inputs | |
| `X11Compositor` | the compositor of an X11 session with the selection, the X properties and DConfig | |
| `DragAndDrop` | a drag of the seat over the clients' data devices | |

`PROJECT.json` ("map") gives the source lines of every definition that models
code.  Names ending in `_Something` (for example `FrameDone_NoReschedule`) are
*mutants*: one plausible mistake each, made in the definition that follows them.
They are not part of any specification; replacing the definition by its mutant
must break the property it is listed for, which shows that the property depends
on the code.

Handlers that call each other synchronously are composed as functions over one
record of state; handlers that may be interleaved are separate actions.

### 2.1 RenderLoop (`core/renderloop.cpp`, `composite.cpp`)

The record `loop` has the fields of `RenderLoopPrivate`: `pendingFrameCount`,
`inhibitCount`, `pendingReschedule`, `pendingRepaint`, the composite timer and
the fullscreen item.  `scheduleRepaint(item)`, `inhibit()`, `uninhibit()`,
`beginFrame()`, `notifyFrameCompleted/Failed()`, `invalidate()` and the two halves
of `dispatch()` are `ScheduleRepaint`, `Inhibit`, `Uninhibit`, `BeginFrame`,
`FrameDone`, `Invalidate`, `DispatchBegin`, `DispatchEnd`.  *When* the timer fires
is left open: an armed timer may fire at any later moment, which includes every
delay that the code may compute.

`dispatch()` emits `frameRequested()`, within which `Compositor::composite()` runs
effects and windows that may ask for repaints, and, through the backend, may
already receive answers to earlier frames.  It is therefore three steps (phases
*idle*, *requested*, *rendering*).  `GraphicsReset` is the path of `composite()`
that finds the graphics reset and restarts the compositor inside the dispatch;
`NothingVisible` that of `X11Compositor::composite()` which gives the request up because
the overlay window is fully obscured (`composite.cpp:1372`), and `VisibilityNotify` is the
X event that obscures it or shows it again, which asks for everything to be drawn;
`Terminate` is the beginning of the shutdown.  Two families of backends are told
apart: those whose loops outlive the compositor's backend object (`"drm"`) and the
X11 ones, which call `invalidate()` with frames in flight.

Two variables are history: `damage`, who has asked for a repaint that no frame has drawn;
and `generation`, which flips with every graphics reset, so that a property can tell a
reset from a request that is merely lost.

`FrameSchedule` is the contract, with the timer, the flags and the phases
forgotten: a wish for a frame (`want`), the frames begun and not ended, whether the
loop is paused, whether it serves anybody (compositing, visible and not shutting down)
and the generation of the graphics.  It names every step that may drop a wish: the
beginning of the frame, the pause of a running loop, a reset, which has to change the
generation, and anything while the loop is out of service.  A step that loses a wish
otherwise is none of `FrameSchedule`'s.  `RenderLoop!KeepsSchedule` is the refinement (`want`
is `Held`: the dispatch under way, the timer or the delayed flag).

### 2.2 DrmPresentation (`backends/drm/`)

The card's state `gpu` is one record; each handler is a function on it, because one
handler often touches every output (`DrmGpu::maybeModeset`, `updateOutputs`,
`applyOutputChanges`).  The pipeline's `pending` and `next` states, the page flip
under way (`flip`) and `m_modesetPresentPending` (`waiting`) belong to the
connector and survive its output, as in the code.  `kernel` is what the card
shows.  The render loops are those of `RenderLoopOps`.

A commit that is tested or made has one of four results (`CommitError`,
`FlipError`, `PresentFrame`): fine, refused by the driver, without permission
(session inactive), or a frame still pending.  Whether a driver refuses is an
input of the handler, and is the same for all commits of one handler.

`ResumeDevice` finds the outputs in any modes, lit or dark: another user had the card, and
`updateOutputs()` only tests the new configuration (`drm_gpu.cpp:885`).

### 2.3 XdgToplevel (`xdgshellwindow.cpp`, `wayland/xdgshell_interface.cpp`)

`surf` is the protocol object (`XdgSurfaceInterface`, `XdgToplevelInterface`) and
`win` the window.  Operations of the compositor (`maximize`, `setFullScreen`,
`move`, `moveResize`, interactive moves and resizes) change `target`, the
*move-resize geometry*, and arm the zero timer; `SendConfigure` is that timer, which
sends one configure event for everything since the last one.  The client is an
environment: it may acknowledge the newest event, any event in the queue, an old
one or none, with any width, at any time.  Geometry is one-dimensional: with a left
edge and a width, moving, resizing, gravity and "the client decides" (width 0) are
all still different from each other.

`ghost` is history, among it `wish`: the width last asked for, or 0 once the client has
chosen one of its own (`Chooses`), and where it is not told (`WidthIsTold`).

### 2.4 XdgPing (`wayland/xdgshell_interface.cpp`, `xdgshellwindow.cpp`)

One shell object for all clients, a repeating timer per unanswered ping (`timers`
counts how often it has fired), and in each window the pings it remembers with
their reason.  The three signals of the shell reach every toplevel window, which is
why the actions quantify over all of them.

### 2.5 FocusChain and DesktopFocus

`FocusChain` has the chains (one per desktop, and the most-recently-used one) with
`Update`, `RemoveWindow`, `MoveAfter`, `AddChain`, `RemoveChain`, and the lookups
`GetForActivation` and `NextForDesktop`.  `DesktopFocus` has the handlers that call
them: activation (`Workspace::setActiveWindow`, `activateNextWindow`,
`activateWindow`), the window's desktops (`Window::setDesktops` with
`WaylandWindow::doSetDesktop`, whose order matters), the switch of the current
desktop with a dragged window taken along, and desktops that are created and
removed with the windows moved off them.

`setActiveWindow()` re-enters itself through the deactivation of the old window; so
`SetActive` updates the chains while `chainActive` is already `None`, as the code
does.  The order in which `slotDesktopRemoved` visits the windows (`m_allClients`)
and the lowest window of an application in the stacking order (`low`) come from
state that is not modelled and are chosen freely.  `focused` is history.

A desktop may be removed under a window that the user drags: `slotDesktopRemoved` sends
windows that were on that desktop only to another one, but not the dragged one
(`workspace.cpp:1941`), which keeps a pointer that dangles (`LeftBehind`).  It may be shown or
moved on as if nothing had happened; making that desktop current, or entering another
desktop beside it, uses it after it was deleted (`crashed`, where the model stops).  A
desktop that is created later may be given its address, and the window is then on that one.

### 2.6 SurfaceTree (`wayland/surface_interface.cpp`, `subcompositor_interface.cpp`)

`surfaces` maps each surface to its `SurfaceInterfacePrivate`: the three states
`pending`, `cached` and `current`, the sub-surface role with its mode and position, and
`mapped`.  The requests of a client are the actions `Attach`, `Frame`, `SetPosition`,
`Place` (above or below a sibling or the parent), `SetSync`, `SetDesync`,
`GetSubsurface`, `DestroySubsurface`, `DestroySurface` and `Commit`; `FrameRendered`
is the compositor's answer to frame callbacks.  A commit is a function on the whole
tree: `ApplyOne` moves one state into `current` and sets `mapped`, and `ApplyState`
goes on with `parentCommit()` of the children in their order, each of which may apply
its cache and so go further down.  `MergeInto` is `SurfaceState::mergeInto()`, with the
fields that are set apart from those that are not.  Requests are numbered, so that a
state shows which requests are in it and an older buffer is told from a newer one.

`misfits` is history: surfaces whose role or parent changed without the code asking
again whether they are mapped.

### 2.7 XwaylandLauncher (`xwayland/xwaylandlauncher.cpp`, `xwayland.cpp`, `main_wayland.cpp`)

`k` is the launcher with its `Xwayland` owner; `calls` holds the queued connections
(`start()`, `stop()`, the ready signal), which run in order but after anything that the
event loop takes in between.  `Start`, `StopRequested`, `Ready`, `NotifierActivated`,
`FailedToStart`, `ServerEnded` (`handleXwaylandFinished`, with the crash policy in
`Restart` and `GiveUp`), `ResetCrashCount`, `SelectionClaimed`, `SelectionLost` and
`DispatchBroken` are handlers; `ServerComesUp`, `ServerEnds` and `ConnectionBreaks` are
the environment.  A process that ends and the signal by which `QProcess` tells of it are
two steps, between which other handlers run.  Servers are numbered, so that a
connection to an earlier server is told from one to the present.  `silent` is history: the
servers of whose end nobody has told or will tell by `errorOccurred`.

### 2.8 InputMethod (`inputmethod.cpp`, `inputpanelv1window.cpp`, `wayland/inputmethod_v1_interface.cpp`, `seat_interface.cpp`, `textinput_v2/v3_interface.cpp`)

`m` is one record, since nearly every handler ends in `refreshActive()`, which reads
the seat's focus, the text inputs and the context.  The seat's order in
`setFocusedTextInputSurface()` (leave, `focusedTextInputSurfaceChanged`, enter, with the
signals each sends on the way) is composed as functions (`Leave`, `Enter`,
`EnabledChanged`).  The process: `StartInputMethod`, `StopInputMethod`, `Crash`, `Exit`,
`CrashTimer`, `SetInputMethodCommand`, `SetEnabled`; its requests: `Bind`,
`GrabKeyboard`, `CreatePanel`, `SetPanelMode`, `MapPanel`, `DestroyPanel`; the clients':
`CommitText`, `DestroyText`, `RequestPanel`; the rest: the seat's focus, D-Bus
(`DBusSetActive`, `ForceActivate`) and the last kind of input.  `missed` is history:
since the last `refreshActive()` a text input was changed by a path that does not call
it.

### 2.9 X11Compositor (`composite.cpp`)

`c` is the `X11Compositor`, `x` what it shares with others: the compositor selection
`_NET_WM_CM_S0`, the properties of the root window and DConfig.  `Start`, `Stop`,
`Suspend`, `Resume` and `Reinitialize` are functions to sets of results (which backend
comes up is the system's choice); the actions are the callers: D-Bus, the toggle
shortcut, windows that block compositing (`BlockCompositing`, `UnblockCompositing`,
`CloseWindow`, `RemoveDeleted`), configuration, DConfig's `valueChanged`, the calls that
were posted to the event loop (`RunQueued`), another program that claims the selection
(`OtherClaims`, `LostOwnership`), the X server's answer to a claim of KWin's own
(`ClaimAnswered`), and the two timers (`ReleaseCompositorSelection`,
`DeleteUnusedSupportProperties`).  Effects announce and withdraw the properties.

`initializeX11()` starts a claim and goes on without its answer, as the code does
(`composite.cpp:533`).  `x.claim` says what became of the last one: under way, granted,
or given up before its answer; a grant that comes after that is `stray`, as nobody
releases it.

### 2.10 DragAndDrop (`wayland/seat_interface.cpp`, `datadevice_interface.cpp`, `dataoffer_interface.cpp`, `input.cpp`)

`s.drag` is the seat's `drag` structure.  `SetDragTarget`, `VerifyDragTarget`, `EndDrag` and
`CancelDrag` are functions; the actions are `Press`, `StartDrag`, `Motion`, `Release`,
`Cancel`, `Accept`, `Answer` (the session's answer to whether a client may have the
data) and the destruction of a source, a surface or a device at any time.  A pointer
that the code keeps to something destroyed stays in the model too; what follows its use
is not modelled (`crashed`).  `entered` follows what the clients were sent.

## 3. The runs

"Finds" marks a run that is expected to end in a counterexample: a sentence of the
repository (a comment, an assertion) states the property, and the code breaks it.

| run | asks | shows |
|---|---|---|
| `renderloop` | one loop with either family of backends | the frame count is exact; a paused loop sleeps and a delayed request waits for something; frames overlap by a resume only; what is held is drawn unless a pause, a reset, an obscured overlay window or the end of compositing comes between; the loop implements `FrameSchedule` |
| `drm` | two outputs in four scenarios | each frame is answered once; pauses balance, KWin lights nothing that is off and awaits no page flip where it is dark; no mode is set under a page flip |
| `drm_busy` | three outputs that keep drawing | a frame that waits for a mode set is answered, while modes change and change back, as long as one is still to be set |
| `xdgtoplevel` | one window in five scenarios | no state is forgotten, the width last asked for stays the requested one, and requested and shown geometry meet when all is answered; configure events apply in order and after their acknowledgement; a move is final; a client that answers catches up |
| `xdgping` | two clients with a window each, three pings | timers and remembered pings agree; the mark of an unresponsive window goes with the answer; only an unanswered close kills; closing ends |
| `desktopfocus` | windows on desktops | the chains match the windows and whoever had the focus can be reached; the focus is visible, returns after a switch away and back, and moves on when its window goes |
| `surfacetree` | a window and two surfaces in every tree they can form | parents and children agree, without cycles, and `mapped` follows the tree; a synchronised surface changes with its parent only; content never goes back to an older request; no frame callback is lost or answered early |
| `xwayland` | a server that may end at any point, with both crash policies | KWin talks to the present server only; the session is started once, with Xwayland or without, except after an end that nobody reports; a dead server is let go or replaced |
| `inputmethod` | two text fields (v2 and v3) and a process that crashes up to the limit | the process is the configured one; it knows of the context that exists; a context exists exactly when the focused text field is enabled; a keyboard that was asked for is shown, also after its process was restarted |
| `compositor` | two effects with one property, a window that blocks compositing, other programs | suspended is off; while it composites KWin claims the selection, and while it does not, it gives it back; every property an effect has announced is on the root window; restarts end |
| `compositor_EffectsAreThere` | finds | a change of DConfig's effect type while compositing is suspended uses the deleted effects handler |
| `dragdrop` | a drag over three clients that may go away | at most one data device has been entered and not left, and it is the target; a drop goes to a client that accepted |

### Bounds, and why they are enough

*RenderLoop*: two items are enough for the fullscreen item's filter (the owner and
another); three frames in flight and two nested pauses reach every combination of
"none, some, the last" that the code tests for (it compares both counters with zero
only).  `MaxFrames` is in the guard of `Resume`, the only step that lets frames pile
up, and `MaxInhibit` in that of `Pause`.  The theorems of section 5 hold for any
bounds.

*DrmPresentation*: the code asks "all pipelines" and "any pipeline", which two
outputs tell apart; `drm_busy` has three, so that two may wait while the third
draws.  `MaxFrames` = 2 allows one frame per output in flight and one waiting; a
loop that would begin more is not let to.  In `drm_busy` modes change and change back at any
time; refusals, DPMS, disabled outputs and hot-plug are not among its events, as each may
leave a waiting frame unanswered (section 4).  The events are grouped in scenarios
(sets of `Environment`), because all of them together exceed what can be checked;
each scenario keeps together the events whose handlers meet, and hot-plug meets DPMS and
VT switches one at a time; the theorems hold for all events at once.  `Items` is
empty, as the fullscreen filter is `RenderLoop`'s matter.

*XdgToplevel*: three requests (a drag of an edge counts for its start and its end)
with one configure event each give queues of up to three events, which is what it
takes for a first, a middle and a last one; two positions and two widths tell old
from new.  Scenarios as above.

*XdgPing*: two clients with a window each show whose signal reaches whom, three
pings allow two reasons for one window and one for the other.  The proofs hold for
any number of clients, windows and pings.

*DesktopFocus*: three windows, two of one application, on two desktops, without
desktops coming and going; and one or two windows with one to three desktops.  Chains of
three have a first, a middle and a last element, which is all that insertions and
`MoveAfter` distinguish; three desktops give one before the current one and one
after it.

*SurfaceTree*: a window and two surfaces form every kind of edge the code tells apart
(sibling, child, grandchild; synchronised by itself or by an ancestor).  Two numbered
requests are an older and a newer one; the scenarios separate buffers and frame
callbacks from positions and order.  Commits, modes, roles and destruction are not
bounded.

*XwaylandLauncher*: `MaxCrashCount` = 2 has a crash that restarts and one that gives up;
one reset of the counter starts it over; two calls queued by a broken connection make
one that runs for a server that has been replaced since.

*InputMethod*: a surface of each text-input version; two commands and none; the limit
of five crashes is the code's.

*X11Compositor*: two effects that share one property show the first, the last and one
in between; one window is enough for "some window blocks"; outside events wait while
more than two calls are queued, which still lets a posted call meet everything that can
happen before its turn.

*DragAndDrop*: the origin of the drag and two more clients make an old target, a new
one and one that is asked for; with one source a second drag is with the same source,
with none, or after the source's end.

Deadlock is checked for `RenderLoop`, `XdgToplevel` and `InputMethod`.
It is not for `DrmPresentation` (nothing need happen when all outputs are unplugged or
idle), `XdgPing` (all pings are sent and answered, all windows closed), `SurfaceTree`
(a client may have destroyed all its surfaces), `XwaylandLauncher` (it may be stopped
for good), `DesktopFocus`, `X11Compositor` and `DragAndDrop` (a crash ends the program).

### Fairness, and why the code justifies it

* *RenderLoop*: `WF(Rendering)`, as a timer of the event loop fires and a handler
  that has begun ends; `WF(Answer)`, as a backend answers the frames it accepts
  (page flip or timer).  Nothing is assumed about who repaints, pauses or stops.
* *DrmPresentation*: each loop's timer, each page flip and the card's timers.  Only
  `BusySpec` (run `drm_busy`) assumes that outputs keep drawing (an animation on
  each), because without it the code makes no promise: the mode set waits for
  outputs that have nothing to draw.
* *XdgToplevel*: the zero timer; a client that answers (used by `ClientCatchesUp`
  only); drags end.
* *XdgPing*: each ping's timer, and the end of a client that was killed (SIGTERM, or
  the destruction of its connection five seconds later).  No client is assumed to
  answer.
* *XwaylandLauncher*: the event loop runs what is queued and what its notifiers and
  `QProcess` tell it (`Start`, `StopRequested`, `Ready`, `NotifierActivated`,
  `FailedToStart`, `ServerEnded`); a program that was started comes up or ends; a claim
  of the selection is answered.  Nobody has to crash, and a server that is up may stay
  up for ever.
* *X11Compositor*: the event loop runs posted calls and delivers DConfig's signal.
* *DesktopFocus*, *SurfaceTree*, *InputMethod* and *DragAndDrop* have no liveness
  property and no fairness: what their users do next is theirs to choose.

## 4. What the code does, and docs say otherwise

With a run (`compositor_EffectsAreThere`) and an entry under "findings":

* `composite.cpp:942`: `handleDConfigUserTypeChanged()` uses `effects` for a change between
  the two OpenGL types without looking whether compositing is on.  `stop()` has set it to
  null, as the tests at `composite.cpp:871` and `:1225` know.

Seen while modelling, without a run of their own.  Where a property would fail on one
of them, its statement carries the exception, which TLC reaches.

Sentences of the repository that the code does not keep:

* RenderLoop, `composite.cpp:1013`: after a graphics reset the restarted compositor's full
  repaint falls into the dispatch that found the reset.  `pendingRepaint` is set,
  the request is ignored, `composite()` returns without a frame.  `renderloop.h`
  promises "a compositing cycle at the next available moment".
* DRM, `drm_pipeline.cpp:76`: `m_modesetPresentPending` outlives the output; after
  re-plugging a frame is completed that the new loop never began
  (`Q_ASSERT(pendingFrameCount > 0)`, `renderloop.cpp`).
* DRM, `drm_gpu.cpp:781` "commit only once all pipelines are ready for presentation":
  when the last output that is not ready leaves, they are ready and nobody commits.
* XdgToplevel, `xdgshellwindow.cpp:336`: a move clears the flag by which the window knows of
  unacknowledged geometry changes; the next commit of an older state rolls the requested
  geometry back, which the comment at `xdgshellwindow.cpp:211` wants to rule out (`Chooses`, in
  `WidthIsKept`).
* XdgPing, `xdgshellwindow.cpp:1669`: any client's pong clears the "unresponsive" mark of
  all windows.
* Focus, `virtualdesktops.cpp:507`: removing a desktop can change the current desktop
  without `currentChanged()`; `focuschain.h:53-54` says that windows on all desktops are in
  each chain, and a new desktop's chain lacks them until they are next activated.
* SurfaceTree: a sub-surface counts as mapped only with its parent
  (`surface_interface.h:243-246`), but `get_subsurface`, the end of the role and the end of the
  parent do not call `updateEffectiveMapped()` (`misfits`).  The position of a desynchronised
  sub-surface is applied by its own commit; the comment at `surface_interface.cpp:707` says the
  parent's.
* SurfaceTree: a desynchronised sub-surface below a synchronised one commits to its
  cache (`isSynchronized()` asks the ancestors), but `parentCommit()` looks at its own mode
  (`subcompositor_interface.cpp:187`) and leaves the cache there.
  (`test_wayland_subsurface.cpp:566` is about the commit only.)
* Xwayland: `errorOccurred` (`xwayland.h:53`) is what the startup waits for besides
  `started`; a regular exit, and a program that cannot be executed (`FailedToStart`), emit neither,
  and the session never starts.
* InputMethod: `zwp_text_input_v3_destroy` (`textinput_v3_interface.cpp:176`) emits no
  `enabledChanged`, so that a context may stay on a surface without a text input, unlike what
  `inputmethod_test.cpp:350` checks for v2.

Others:

* DRM: an output that is disabled or switched off while its frame waits for a mode set
  loses the waiting flag, and its frame is never answered (`drm_gpu.cpp:788`; hence the
  condition of `FramesAreAnswered`).  A VT switch in the meantime re-applies a delayed repaint
  behind the waiting frame (`renderloop.cpp:203`): a second frame is begun, and the flag, which
  is a Boolean, stands for both.  A mode change taken back leaves a waiting frame
  behind, which nobody reports until another mode set (`NothingToSet` in `FramesAreAnswered`, and
  the condition of `WaitingFrameIsPresented`).  An output that is off and that another user of
  the card has lit stays lit after a VT switch until the next mode set (`OffIsNotLit`).  `turnOutputsOn()` removes the input filter although an output may stay dark:
  with its turn-off timer running it is not switched on (`drm_output.cpp:269`).  After a
  revert `m_next` may hold a stale `needsModeset`.
* RenderLoop: `inhibit()` drops an armed timer without a delayed request, and the
  resume does not ask again (in `FrameSchedule` it is `Pause`).  Requests of other items
  than the fullscreen item are dropped until the next frame (`renderloop.cpp:237`), and
  `damage` is then held by nothing.
* XdgToplevel: `maximize()` does nothing while the window is full screen; a resize back to
  the width on screen does not supersede a configure event that asks for another one
  (`xdgshellwindow.cpp:319`, `WidthIsTold`); a client that chooses a geometry during a drag leaves requested
  and shown geometry apart (`ghost.dragged` in `Settled`, a part of `NothingIsForgotten`).
* Focus: removing the last desktop, which is current, may leave nobody with the focus (the condition of
  `FocusMovesOn`); `setDesktops()` of a background window puts it on top of its
  chain; a window mapped minimized is in no chain until it is activated; a dragged window keeps
  a pointer to a removed desktop (`workspace.cpp:1941`), and activating it or dragging it to
  another desktop uses it (`LeftBehind`, `crashed`); so does a window that was created and is not
  mapped, which is not modelled.
* SurfaceTree: any commit of the parent sets the client's pending order back to the current
  one where children have come or gone in between.
* Xwayland: the ready notifier also fires by end of file when the server dies or cannot be
  executed; `handleXwaylandReady()` then blocks in `xcb_connect_to_fd()`, since the launcher
  keeps the server's end of the socket pair open.  A `stop()` queued for a broken
  connection or a lost selection may hit the server that was started since, and
  `~Xwayland` queues a `stop()` for an event loop that has ended.  The log's "over the past 10
  minutes" is since the last quiet ten minutes.  A socket pair stays behind when a
  later `dup()` fails.
* InputMethod: the keyboard grab outlives the process until the context ends;
  `setEnabled(false)` leaves the context and its grab, and enabling it again does not
  refresh; neither a new command nor enabling resets the crash count; a regular exit leaves
  the dead process object and no restart; an unfocused client's `enableRequested` shows the
  panel; a v3 client's `show()` on entering is undone by `setTrackedWindow()`; a panel whose
  surface was unmapped, or never painted, counts as shown; a change from overlay to keyboard
  shows a keyboard nobody asked for.
* Compositor: `start()` while suspended reports `NoneCompositor` to DConfig, whose answer
  clears every reason for the suspension and leaves compositing off for good.  A queued
  `resume()` after the last blocking window, and the `suspend()` of a new one, do not look again
  (`composite.cpp:1455`).  With DConfig the first `reinitialize()` clears the suspension of a
  disabled configuration.  A start that falls back to XRender between DConfig's
  `NoneCompositor` and its queued restart overwrites the user's choice.  `setOwning(true)` does
  not wait for the claim (`composite.cpp:533`): KWin composites while the claim is unanswered, and
  also after it was refused, since nothing is connected to the refusal; and a claim that is granted
  after a failed start has given it up is never released (`"stray"` in `SelectionFollowsState`).  The timer of the unused properties, firing without an X
  connection, keeps them for good.
* DragAndDrop: a late answer of the session makes a surface the target that the pointer has
  left (`pendingSurface` is not reset and may dangle); the question outlives its source
  in `verifyingState`; when the target's surface goes, `drag.target` stays, and the drop is sent to a
  device that has left; an old offer can still accept; a second `start_drag` on the same grab
  leaves the old target entered, and the first source's end cancels the second drag; touch
  motions are not verified, and each motion of the pointer over a surface that is asked for
  asks again; `dndCancelled()` sends both `dnd_finished` and `cancelled`.  Two details are not in the
  model: an answer that denies also uses a question that was deleted with its source
  (`seat_interface.cpp:453`; the model's use after free is that of the answer that grants), and an
  offer outlives its data device once that is released (the model lets a client accept while
  it has the device).

## 5. What is proved

TLC checks the instances above; the TLA+ proof system checks the following for every
value of the constants.  The only assumptions are the `ASSUME`s of the modules, which say
that a bound is a number, a "none" is not a surface, source or command, and sizes are natural
numbers, and that a card has finitely many outputs with the preferred mode among their modes
(`NoItemAssumption`, `ModesAssumption`, `OutputsAssumption`, `PingAssumption`, `SizesAssumption`, `SurfacesAssumption`,
`CommandsAssumption`, `LimitAssumption`, `OriginAssumption`, `SourceAssumption` and the
assumptions on bounds and scenarios).

**`RenderLoopProofs`.**  The inductive invariant is

    IInv == TypeInv /\ PhaseInv /\ FrameAccounting /\ PausedLoopSleeps /\ DelayedRequestHasWaker

The last two are the parts of `SleepsAndWakes`.  `PhaseInv` is what has to be added: `pendingRepaint` is set exactly in the phase
*requested*.  Without it a dispatch might begin over a set flag, and `beginFrame()`
could be followed by a request that the flag swallows.  The type invariant is needed
for subtraction: `pendingFrameCount` stays a natural number because
`FrameAccounting` ties it to frames owed.  Every operation of `RenderLoopOps` first
gets a lemma that says what it does to the fields of a loop (`ScheduleRepaintFields`,
`FrameDoneFields`, ...), so that the proof of a step never opens more than one
operation.  Theorems: `TypeCorrect`, `FramesAreCounted`, `PauseAndDelayAreSafe`
(invariants), `OverlapOnlyByResume` (action property).

The same module proves the refinement, `LoopKeepsSchedule == Spec => Contract!Safety`: each
step of the loop maps to a step of `FrameSchedule` or to a stutter.  Beside `IInv` it needs
`AwakeInv` (no pause between the signal and `beginFrame()`), as `FrameSchedule` begins
frames outside pauses only.  There is one lemma per action; the interesting
cases are a frame's end and a resume, where the delayed flag turns into the timer and
`Held` must not change; the shutdown and the obscured window, where it may; and the graphics
reset, the only step of an unpaused loop in service that drops the wish without a frame, where
the generation has to change.

**`DrmPresentationProofs`.**  The handlers of the model are functions from card to card, so the
invariant is a predicate of a card, `Fine`, and there is a lemma per function that says what
it keeps.  Its parts, and why the runs' properties are not inductive without them:

* `PausesFine`: a paused loop has no timer either, as only then a loop that renders is known
  to be of an output that is on.
* `OffFine`: neither the `m_pending` nor the `m_next` of an output that is off would light it:
  any commit of the card carries the one, any revert restores the other.  The output itself is dark,
  or shows what it did before the step, which another user may have left there (`Dimmed`).
* `LitFine`: conversely both states of an enabled pipeline that is on are active, and both
  have a CRTC, so that the mode set answers what waits for it.
* `OwedFine`, `AnsweredFine`: each loop's count of frames lies between what the card owes it and
  what it is owed (`Debt`).  The second needs that a timer is never armed behind a frame, and
  that a pipeline stays enabled.

In the middle of a handler `Fine` holds with two exceptions that are its parameters: outputs
that are not configured yet (`todo`), as `applyOutputChanges()` goes from one output to the next,
and a frame that is begun and not handed on (`begun`), in `present()`.  What goes over the
outputs one by one (`turnOutputsOn()`, the removal of outputs, the queued changes) is a fold over a
finite set in an order that is not known; `FoldStays` proves by the least-number principle that
what every step of a fold keeps, the fold keeps, and `AllOnFolds`, `SwitchOffFolds` and
`ApplyQueuedFolds` apply it.  `Keeps` adds to `Fine` that a changed picture leaves no page flip in
flight.  `Waits` says why a frame still waits: a mode set is due, or everything shows already
what its pipeline asks for.  It holds while all outputs stay lit and the session stays active, and
needs that a revert neither changes what the pipelines ask for nor makes a mode set
unnecessary (`Settled`).  Theorems: `CardStaysFine`, `TypeCorrect`,
`AnswersAreAlwaysOwed`, `FramesAreAlwaysAnswered`, `DarkIsAlwaysQuiet`,
`ModesetsWaitForFlips`.

The proof found `FramesAreAnswered` stated too strongly: with VT switches alone, which no
scenario of the run isolates, the end of a pause starts a loop again behind a frame that waits for
the mode set (TLC confirmed it on the instance), so that `session` joined its exceptions.

**`XdgPingProofs`.**  The inductive invariant adds to the two properties of the run
that serials in use are an initial interval (so that a new one is fresh), that a
window remembers each ping with the reason it was sent for (`ReasonsAgree`), that what
an existing window remembers is unanswered (`RememberedIsUnanswered`), and that an
answered ping has no timer (`AnsweredIsOver`).  Theorems: `InvariantHolds`,
`TypeCorrect`, `PingListsAgree`, `MarksAreCleared`, `KilledOnlyForSilence` (the last:
a client is killed only for a close request it never answered).

**`XwaylandLauncherProofs`.**  `ConnectionIsCurrent` is not inductive: `handleXwaylandReady()`
connects to the server whose number comes with the queued call, and arming the notifier
after that would break the invariant.  `ReadyOnce` says of the queue what is
needed: a server is reported ready only after its notifier has gone, and no report is of
a server that is yet to come.  For `SessionStartsOnce` the invariant adds that the session
has not been started while the signals are connected.  The bounds of the module's
`TypeInv` are not needed and replaced by natural numbers (`Launchers`).  Theorems:
`InvariantHolds`, `ConnectionStaysCurrent`, `SessionIsStartedOnce`.

**`XdgToplevelProofs`.**  The invariant `Sound` relates the surface, the window and the
history.  Its parts: the serials of the queue ascend, after the last that was applied and
up to the last that was sent (`Ascend`); what was applied was acknowledged; the newest event
says the states the window was told last (`Told`); without an event or timer left requested and
shown geometry agree (`Agrees`); after a move nothing in the queue carries a position
(`Cancelled`).  For `WidthIsKept`, the newest event asks for the width that was last asked for (`Wished`), and a
commit takes the client's width for the requested one only when no event that is left changes the
geometry (`Adopts`).  The runs' properties are weaker than these: `Agrees` has to hold of a window
that is not shown yet, `Cancelled` of the flag for the event that is still to be sent, and
a window that was never committed must have neither mode nor event (`Unborn`), or the first
commit could apply one.  `TakenSplits` says of the loop in `handleCommit()` that it takes
exactly the events up to the acknowledged serial, whatever serial that is: as `Min` is
defined by a choice, this needs that a set of numbers has a least element (`LeastNumber`,
from the well-foundedness of `<`).  A request leaves the queue as it is, but for cancelled
positions (`Like`), one lemma per function of the model.  Theorems: `InvariantHolds`,
`TypeCorrect`, `OrderIsKept`, `RequestsAreRemembered` and the action property
`MovesAreFinal`.

**`InputMethodProofs`.**  The four invariants of the run and the type invariant are
inductive together, with one addition: after every handler the surface that was entered is the
seat's focus.  Inside a handler they are not: a surface is left before the next is
entered, and the command is changed before the process.  So the invariant is in parts (`Core`,
`Asked`, `Server`, `Follows`), and each function has a lemma that says which parts it keeps and
which fields it leaves alone.  Theorems: `InvariantHolds`, `TypeCorrect`,
`ServerIsAlwaysCurrent`, `ContextIsAlwaysKnown`, `ActiveAlwaysFollowsText`,
`KeyboardAlwaysReturns`.

**`X11CompositorProofs`.**  `SelectionFollowsState` does not survive a stop: it says nothing
of `owning` while the compositor is off and the selection gone.  `Claims` relates in every state
what the code believes to the claim that is under way: who believes to own has a claim that is
waiting, granted or refused, and a granted one is owned or its loss about to be told; who does
not may still have one that nobody waits for, and the selection by it.
With it, the three invariants and the types are inductive.  `Start`, `Stop` and `Reinitialize`
are shown to keep them for every backend that may come up.  Theorems: `InvariantHolds`,
`TypeCorrect`, `SuspendedIsOff`, `SelectionIsFollowed`, `SupportIsAlwaysAnnounced`.

**`DragAndDropProofs`.**  To the two properties the invariant adds that without a drag the
seat's structure is empty, that nothing has been dropped during one, that the device waiting
for an answer is that of the pending surface, and that a source that is accepted was accepted by
the present target, unless by an old offer.  Theorems: `InvariantHolds`, `TypeCorrect`,
`OnlyTargetIsEntered`, `DropGoesToAccepter`.

Each inductive invariant was checked with TLC on the instance of its run before it was proved.

**Only model-checked.**  All liveness (`HeldRequestIsDrawn`, the fairness of
`FrameSchedule`, `WaitingFrameIsPresented`, `ClientCatchesUp`, `CloseIsForced`,
`DeadServerIsReleased`, `StartupIsFinalised`, `RestartsEnd`), which is beyond the prover;
the invariants and action properties of `DesktopFocus` and `SurfaceTree`, whose handlers edit
sequences element by element: they take elements out with the library's `Remove` and search
with `SelectSeq`, a recursive definition that the prover does not expand and whose effect
on every sequence would need an induction over data.  Their type invariants are checked
with TLC besides the runs and are what a proof about them will start from.

## 6. What is not modelled

* `RenderLoop`: the computation of the next presentation time, tearing
  (re-arming an armed timer), render-time statistics, the benchmark timer that an
  environment switch turns on.
* `DrmPresentation`: leases, virtual outputs, non-desktop outputs, legacy (non-atomic)
  mode setting, cursor planes and colour as such (their test commits are in, as
  `TryProperty`), the choice of CRTCs (there are enough), buffers, direct scanout,
  `waitIdle()` giving up after 30 seconds, several cards.
* `XdgToplevel`: popups, decorations, window rules, tiles and quick tiling, cancelling a
  drag, placeholder outlines, the second dimension, minimum and maximum sizes.
* `XdgPing`: toplevel windows of KWin's own process, which are destroyed instead of
  killed.
* `DesktopFocus`: several outputs, activities, transients and modal windows, window
  rules, X11 windows and their focus events, focus stealing prevention, shade,
  desktop and dock windows, "show desktop", focus policies other than click to focus,
  the grid's navigation; the stacking order.  Windows that are created and not mapped; what
  follows the use of a deleted desktop (`crashed`).
* `SurfaceTree`: regions, transforms, scale, damage, viewports, pointer constraints and
  other extensions (they follow the buffer); protocol errors; the output a surface is on.
* `XwaylandLauncher`: the selection bridge, its transfers and X11 drags; sockets and display
  numbers; which of the pipes, sockets and connections could not be made (`FailStart` is any).
* `InputMethod`: key events and their forwarding, preedit and surrounding text, panel
  geometry, text-input v1, the second text input object of a client.
* `X11Compositor`: scenes, outputs and frames; the start of the Wayland compositor
  (`WaylandCompositor`); clamping of DConfig's values; termination.
* `DragAndDrop`: actions, icons, positions, X11 windows, raising of windows, selections,
  primary selection and data control.
* The parts of section 1 without a module: activation of X11 windows, stacking, the
  geometry of windows, closed windows, outputs of the workspace, sessions, input devices and
  filters, idle times, effects, screen edges, placement, tiles, split screens, TabBox,
  rules, scripting, decorations, colours, the other backends, configuration modules.

## 7. Plan

No module has a recursive operator, so that each can be proved about as it stands.  Proofs
that remain, in this order:

1. **FocusChain**: each operation keeps chains injective and inside the most-recently-used one,
   then `ChainsAreComplete` of `DesktopFocus`.
2. **SurfaceTree**: the parts of `TreeIsSound` for the requests that do not apply a tree of
   states; the others fold over the children.

Components that would add most after that: stacking (constrained order against a reference
definition, over small forests of transients), keyboard repeat and the press/release pairing
of the input filters (seen so far: releasing any but the last key does not stop the
repetition), the queue of effects to load, screen edges, idle times and sessions.
