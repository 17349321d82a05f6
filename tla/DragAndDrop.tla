----------------------------- MODULE DragAndDrop -----------------------------
(***************************************************************************)
(* A drag of the seat (src/wayland/seat_interface.cpp) over the data       *)
(* devices of the clients (datadevice_interface.cpp), steered by input.cpp *)
(* while clients destroy what takes part in it and the session is asked    *)
(* whether a client may get the data.                                      *)
(*                                                                         *)
(* Each surface belongs to a client of its own, with one data device that  *)
(* has the surface's name.  The drags start on Origin, whose client owns   *)
(* the sources.  `s' has                                                   *)
(*   grab        "none", or what was pressed on Origin and is still held   *)
(*   mode, source, surface, target   the seat's drag                       *)
(*   pending     drag.pendingSurface, a pointer that is never cleared with *)
(*               the surface, and pendingTarget, its device                *)
(*   waiting     verifyingState: the questions without an answer           *)
(*   entered     the devices that got an enter and no leave or drop        *)
(*   offers      the <<device, source>> that offers were created for       *)
(*   accepted    the sources with isAccepted                               *)
(*   forgotten   the sources of earlier drags whose end cancels the drag   *)
(*   dropped     the device that got a drop at the end of the last drag    *)
(*   devices, surfaces, sources   those that exist                         *)
(*   restarted, late, accepter   history: start_drag was called in a drag; *)
(*               some client accepted that was not the target; who did last*)
(* Left out: actions, icons, positions, X11 windows, raising of windows.   *)
(***************************************************************************)
EXTENDS FiniteSets

CONSTANTS
    Surfaces,
    Origin,
    Sources,
    NoSurface,      \* no surface or device
    NoSource        \* a drag within the client

ASSUME OriginAssumption == Origin \in Surfaces /\ NoSurface \notin Surfaces
ASSUME SourceAssumption == NoSource \notin Sources

VARIABLE s

NoDrag == [mode |-> "none", source |-> NoSource, surface |-> NoSurface,
           target |-> NoSurface, pending |-> NoSurface, pendingTarget |-> NoSurface]

TypeInv ==
    LET OrNone == Surfaces \cup {NoSurface}
    IN  s \in [grab : {"none", "pointer", "touch"},
               drag : [mode : {"none", "pointer", "touch"}, source : Sources \cup {NoSource},
                       surface : OrNone, target : OrNone, pending : OrNone,
                       pendingTarget : OrNone],
               waiting : SUBSET (Surfaces \X Sources), entered : SUBSET Surfaces,
               offers : SUBSET (Surfaces \X Sources), accepted : SUBSET Sources,
               forgotten : SUBSET Sources, dropped : OrNone, devices : SUBSET Surfaces,
               surfaces : SUBSET Surfaces, sources : SUBSET Sources,
               restarted : BOOLEAN, late : BOOLEAN, accepter : OrNone, crashed : BOOLEAN]

Init ==
    s = [grab |-> "none", drag |-> NoDrag, waiting |-> {}, entered |-> {}, offers |-> {},
         accepted |-> {}, forgotten |-> {}, dropped |-> NoSurface, devices |-> Surfaces,
         surfaces |-> Surfaces, sources |-> Sources, restarted |-> FALSE, late |-> FALSE,
         accepter |-> NoSurface, crashed |-> FALSE]

-----------------------------------------------------------------------------
(* Handlers.                                                               *)

\* updateDragTarget(nullptr): leave.
Leave(t, device) == [t EXCEPT !.entered = @ \ {device}]

\* Mutant: what the last target has accepted counts for the next one.
Enter_Accepted(t, device) ==
    IF device \in t.entered \/ t.drag.source = NoSource THEN t
    ELSE [t EXCEPT !.entered = @ \cup {device},
                   !.offers = @ \cup {<<device, t.drag.source>>}]

\* updateDragTarget(surface): enter, with a new offer that nobody has accepted.
Enter(t, device) ==
    IF device \in t.entered \/ t.drag.source = NoSource THEN t
    ELSE [t EXCEPT !.entered = @ \cup {device},
                   !.offers = @ \cup {<<device, t.drag.source>>},
                   !.accepted = @ \ {t.drag.source}, !.accepter = NoSurface]

\* Mutant: the old target hears of the change when its client asks.
SetDragTarget_NoLeave(t, device, surface) ==
    IF surface = t.drag.surface THEN t
    ELSE LET u == [t EXCEPT !.drag.target = device,
                            !.drag.surface = IF device = NoSurface THEN NoSurface ELSE surface]
         IN  IF device = NoSurface THEN u ELSE Enter(u, device)

\* setDragTarget, of a surface with its device if it has one.
SetDragTarget(t, device, surface) ==
    IF surface = t.drag.surface THEN t
    ELSE LET u == [Leave(t, t.drag.target)
                      EXCEPT !.drag.target = device,
                             !.drag.surface = IF device = NoSurface THEN NoSurface ELSE surface]
         IN  IF device = NoSurface THEN u ELSE Enter(u, device)

\* setDragTarget that verifies first, unless it is the same process or nobody can be asked.
VerifyDragTarget(t, device, surface) ==
    {SetDragTarget(t, device, surface)} \cup
    IF device \in {NoSurface, Origin} \/ t.drag.source = NoSource THEN {}
    ELSE {[t EXCEPT !.waiting = @ \cup {<<surface, t.drag.source>>},
                    !.drag.pending = surface, !.drag.pendingTarget = device]}

\* endDrag: a drop if there is a target and the source was accepted.
EndDrag(t) ==
    [t EXCEPT !.drag = NoDrag, !.entered = @ \ {t.drag.target},
              !.dropped = IF t.drag.source \in t.accepted THEN t.drag.target ELSE NoSurface]

CancelDrag(t) == EndDrag([Leave(t, t.drag.target) EXCEPT !.drag.target = NoSurface])

-----------------------------------------------------------------------------
(* Input.                                                                  *)

Press(kind) ==
    /\ s.grab = "none" /\ Origin \in s.surfaces
    /\ s' = [s EXCEPT !.grab = kind]

\* wl_data_device.start_drag with the grab, startDrag; also when there is a drag.
StartDrag(source) ==
    /\ s.grab # "none" /\ Origin \in s.surfaces \cap s.devices
    /\ source \in s.sources \cup {NoSource}
    /\ LET t == [s EXCEPT !.drag = [@ EXCEPT !.mode = s.grab, !.surface = Origin,
                                             !.source = source, !.target = Origin],
                          !.forgotten = @ \cup ({s.drag.source} \ {NoSource}),
                          !.dropped = NoSurface,
                          !.restarted = @ \/ s.drag.mode # "none"]
       IN  s' = Enter(t, Origin)

\* DragAndDropInputFilter: motion in a drag.  Touch points are not verified.
Motion(surface) ==
    /\ s.drag.mode # "none" /\ surface \in s.surfaces \cup {NoSurface}
    /\ surface # s.drag.surface
    /\ LET device == IF surface \in s.devices THEN surface ELSE NoSurface
       IN  s' \in IF surface # NoSurface /\ s.drag.mode = "touch"
                  THEN {SetDragTarget(s, device, surface)}
                  ELSE VerifyDragTarget(s, device, surface)

\* The grab is released: notifyPointerButton, notifyTouchUp.
Release ==
    /\ s.grab # "none"
    /\ LET t == [s EXCEPT !.grab = "none"]
       IN  s' = IF s.drag.mode = s.grab THEN EndDrag(t) ELSE t

\* Escape, or the touch sequence is cancelled.
Cancel ==
    /\ s.drag.mode # "none"
    /\ \E held \in {s.grab} \cup IF s.drag.mode = "touch" THEN {"none"} ELSE {} :
            s' = [CancelDrag(s) EXCEPT !.grab = held]

-----------------------------------------------------------------------------
(* Clients and the session.                                                *)

\* wl_data_offer.accept: of any offer whose source exists.
Accept(device, source, yes) ==
    /\ <<device, source>> \in s.offers /\ source \in s.sources /\ device \in s.devices
    /\ s' = [s EXCEPT !.accepted = IF yes THEN @ \cup {source} ELSE @ \ {source},
                      !.accepter = IF source = s.drag.source THEN device ELSE @,
                      !.late = @ \/ device # s.drag.target]

DestroySource(source) ==
    /\ source \in s.sources
    /\ LET t == IF source \in s.forgotten \cup {s.drag.source} THEN CancelDrag(s) ELSE s
       IN  s' = [t EXCEPT !.sources = @ \ {source}, !.accepted = @ \ {source},
                          !.forgotten = @ \ {source}]

\* The device resets itself; the seat keeps the device as target.
DestroySurface(surface) ==
    /\ surface \in s.surfaces
    /\ s' = [Leave(s, surface)
                EXCEPT !.surfaces = @ \ {surface},
                       !.drag.surface = IF @ = surface THEN NoSurface ELSE @]

ReleaseDevice(device) ==
    /\ device \in s.devices
    /\ s' = [Leave(s, device)
                EXCEPT !.devices = @ \ {device},
                       !.drag.target = IF @ = device THEN NoSurface ELSE @,
                       !.drag.pendingTarget = IF @ = device THEN NoSurface ELSE @]

\* handleCopySecurityVerified, handleDragSecurityVerified: there may be more questions
\* of the same kind, and no answer counts as yes after a while.  The question is deleted
\* with its source, and the pending surface may be gone: then a dangling pointer is used.
Answer(surface, source, yes) ==
    /\ <<surface, source>> \in s.waiting
    /\ \E more \in {{}, {<<surface, source>>}} :
        LET t == [s EXCEPT !.waiting = (@ \ {<<surface, source>>}) \cup more]
            counts == surface = s.drag.pending /\ source = s.drag.source
            device == s.drag.pendingTarget
            dangling == \/ source \notin s.sources
                        \/ counts /\ device # NoSurface /\ surface \notin s.surfaces
        IN  s' \in IF yes /\ dangling THEN {t, [t EXCEPT !.crashed = TRUE]}
                   ELSE IF yes /\ counts THEN {SetDragTarget(t, device, surface)}
                   ELSE {t}

Next ==
    /\ ~s.crashed
    /\ \/ \E kind \in {"pointer", "touch"} : Press(kind)
       \/ \E source \in Sources \cup {NoSource} : StartDrag(source)
       \/ \E surface \in Surfaces \cup {NoSurface} : Motion(surface)
       \/ Release \/ Cancel
       \/ \E d \in Surfaces, source \in Sources, yes \in BOOLEAN : Accept(d, source, yes)
       \/ \E source \in Sources : DestroySource(source)
       \/ \E surface \in Surfaces : DestroySurface(surface) \/ ReleaseDevice(surface)
       \/ \E surface \in Surfaces, source \in Sources, yes \in BOOLEAN :
            Answer(surface, source, yes)

Spec == Init /\ [][Next]_s

-----------------------------------------------------------------------------
(* Properties.                                                             *)

\* A device that was entered is the target of a drag, and the only one: it hears of the
\* end, of the next target, of the end of its surface and of late answers, unless a
\* client has started a drag in the drag; and the target of a drag with data was entered,
\* unless its surface is gone (updateDragTarget, setDragTarget, endDrag).
OneDeviceEntered ==
    ~s.restarted =>
        /\ s.entered \subseteq {s.drag.target} \ {NoSurface}
        /\ s.drag.target # NoSurface /\ s.drag.source # NoSource /\ s.drag.surface # NoSurface
               => s.entered = {s.drag.target} /\ s.drag.surface = s.drag.target

\* A drop goes to the client that has accepted the data, since it was entered for the
\* last time, unless a client has accepted an offer that was none of the target's any
\* more (accept, updateDragTarget, endDrag).
DropIsAccepted == s.dropped # NoSurface /\ ~s.restarted /\ ~s.late => s.dropped = s.accepter

=============================================================================
