------------------------- MODULE DragAndDropProofs -------------------------
(***************************************************************************)
(* Proofs about DragAndDrop, for any clients, surfaces and sources.        *)
(*                                                                         *)
(* OneDeviceEntered and DropIsAccepted follow from one inductive invariant *)
(* of the seat, `Sound': without a drag nothing of the last one is left;   *)
(* the device that waits for an answer is the pending surface's; a source  *)
(* that is accepted was accepted by the present target.                    *)
(***************************************************************************)
EXTENDS DragAndDrop, TLAPS

OrNone == Surfaces \cup {NoSurface}
OrNoSource == Sources \cup {NoSource}

\* The sets of TypeInv.
Drags ==
    [mode : {"none", "pointer", "touch"}, source : OrNoSource, surface : OrNone,
     target : OrNone, pending : OrNone, pendingTarget : OrNone]

Seats ==
    [grab : {"none", "pointer", "touch"}, drag : Drags,
     waiting : SUBSET (Surfaces \X Sources), entered : SUBSET Surfaces,
     offers : SUBSET (Surfaces \X Sources), accepted : SUBSET Sources,
     forgotten : SUBSET Sources, dropped : OrNone, devices : SUBSET Surfaces,
     surfaces : SUBSET Surfaces, sources : SUBSET Sources,
     restarted : BOOLEAN, late : BOOLEAN, accepter : OrNone, crashed : BOOLEAN]

\* What is entered is the target, and the target of a drag with data is entered.
TargetIsEntered(t) ==
    /\ t.entered \subseteq {t.drag.target} \ {NoSurface}
    /\ t.drag.target # NoSurface /\ t.drag.source # NoSource /\ t.drag.surface # NoSurface
           => t.entered = {t.drag.target} /\ t.drag.surface = t.drag.target

\* A source that is accepted was accepted by the target.
TargetAccepted(t) ==
    t.drag.source \in t.accepted /\ t.drag.target # NoSurface => t.accepter = t.drag.target

Sound(t) ==
    /\ t \in Seats
    /\ t.drag.mode = "none" => t.drag = NoDrag
    /\ t.drag.mode # "none" => t.dropped = NoSurface
    /\ t.drag.pendingTarget \in {NoSurface, t.drag.pending}
    /\ ~t.restarted => TargetIsEntered(t)
    /\ ~t.restarted /\ ~t.late => TargetAccepted(t)
    /\ ~t.restarted /\ ~t.late /\ t.dropped # NoSurface => t.dropped = t.accepter

-----------------------------------------------------------------------------
(* What the handlers do.                                                   *)

LEMMA NoDragIsDrag == NoDrag \in Drags
BY DEF NoDrag, Drags, OrNone, OrNoSource

\* A surface is entered once; what was accepted before does not count for it.
LEMMA EnterFields ==
    ASSUME NEW t \in Seats, NEW device \in Surfaces
    PROVE  /\ Enter(t, device) \in Seats
           /\ Enter(t, device).drag = t.drag
           /\ Enter(t, device).dropped = t.dropped
           /\ Enter(t, device).restarted = t.restarted
           /\ Enter(t, device).late = t.late
           /\ t.drag.source = NoSource => Enter(t, device) = t
           /\ t.drag.source # NoSource => Enter(t, device).entered = t.entered \cup {device}
           /\ t.drag.source # NoSource /\ device \notin t.entered
                => t.drag.source \notin Enter(t, device).accepted
<1> DEFINE u == Enter(t, device)
<1>1. CASE device \in t.entered \/ t.drag.source = NoSource
  <2>1. u = t
    BY <1>1 DEF Enter
  <2>2. device \in t.entered => t.entered = t.entered \cup {device}
    OBVIOUS
  <2> QED
    BY <1>1, <2>1, <2>2
<1>2. CASE device \notin t.entered /\ t.drag.source # NoSource
  <2>1. u = [t EXCEPT !.entered = @ \cup {device},
                      !.offers = @ \cup {<<device, t.drag.source>>},
                      !.accepted = @ \ {t.drag.source}, !.accepter = NoSurface]
    BY <1>2 DEF Enter
  <2>2. t.drag \in Drags /\ t.drag.source \in Sources
    BY <1>2 DEF Seats, Drags, OrNoSource
  <2>3. /\ t.entered \cup {device} \in SUBSET Surfaces
        /\ t.offers \cup {<<device, t.drag.source>>} \in SUBSET (Surfaces \X Sources)
        /\ t.accepted \ {t.drag.source} \in SUBSET Sources
        /\ NoSurface \in OrNone
    BY <2>2 DEF Seats, OrNone
  <2>4. u \in Seats
    BY <2>1, <2>3, Zenon DEF Seats
  <2>5. /\ u.drag = t.drag /\ u.dropped = t.dropped /\ u.restarted = t.restarted
        /\ u.late = t.late /\ u.entered = t.entered \cup {device}
        /\ u.accepted = t.accepted \ {t.drag.source}
    BY <2>1, Zenon DEF Seats
  <2> QED
    BY <1>2, <2>4, <2>5
<1> QED
  BY <1>1, <1>2

\* The drag's own fields are set one at a time.
LEMMA DragUpdate ==
    ASSUME NEW t \in Seats, NEW target \in OrNone, NEW surface \in OrNone
    PROVE  [t.drag EXCEPT !.target = target, !.surface = surface] \in Drags
BY Zenon DEF Seats, Drags

\* A new target is entered, and the old one has left.
LEMMA SetDragTargetSound ==
    ASSUME NEW t, Sound(t), NEW device \in OrNone, NEW surface \in OrNone,
           t.drag.mode # "none", device \in {NoSurface, surface}
    PROVE  Sound(SetDragTarget(t, device, surface))
<1>1. CASE surface = t.drag.surface
  BY <1>1 DEF SetDragTarget
<1>2. CASE surface # t.drag.surface
  <2> DEFINE shown == IF device = NoSurface THEN NoSurface ELSE surface
             d == [t.drag EXCEPT !.target = device, !.surface = shown]
             u == [t EXCEPT !.entered = @ \ {t.drag.target}, !.drag = d]
             v == SetDragTarget(t, device, surface)
  <2>1. t \in Seats /\ t.drag \in Drags
    BY DEF Sound, Seats
  <2>2. v = IF device = NoSurface THEN u ELSE Enter(u, device)
    <3> DEFINE w == [Leave(t, t.drag.target)
                       EXCEPT !.drag.target = device,
                              !.drag.surface = IF device = NoSurface THEN NoSurface ELSE surface]
    <3>1. u = w
      BY <2>1 DEF Leave, Seats, Drags
    <3>2. v = IF device = NoSurface THEN w ELSE Enter(w, device)
      BY <1>2, Zenon DEF SetDragTarget
    <3> HIDE DEF u, v, w
    <3> QED
      BY <3>1, <3>2
  <2>3. d \in Drags
    BY <2>1, DragUpdate DEF OrNone
  <2>4. /\ d.mode = t.drag.mode /\ d.source = t.drag.source /\ d.pending = t.drag.pending
        /\ d.pendingTarget = t.drag.pendingTarget /\ d.target = device /\ d.surface = shown
    BY <2>1, Zenon DEF Drags
  <2> HIDE DEF d
  <2>5. t.entered \ {t.drag.target} \in SUBSET Surfaces
    BY <2>1 DEF Seats
  <2>6. u \in Seats
    BY <2>1, <2>3, <2>5, Zenon DEF Seats
  <2>7. /\ u.drag = d /\ u.entered = t.entered \ {t.drag.target} /\ u.dropped = t.dropped
        /\ u.restarted = t.restarted /\ u.late = t.late /\ u.accepter = t.accepter
        /\ u.accepted = t.accepted
    BY <2>1, Zenon DEF Seats
  <2>8. ~t.restarted => u.entered = {}
    BY <2>7 DEF Sound, TargetIsEntered
  <2> HIDE DEF u
  <2>9. CASE device = NoSurface
    <3>1. v = u
      BY <2>2, <2>9
    <3>2. ~u.restarted => TargetIsEntered(u)
      BY <2>4, <2>7, <2>8, <2>9 DEF TargetIsEntered
    <3>3. TargetAccepted(u)
      BY <2>4, <2>7, <2>9 DEF TargetAccepted
    <3> HIDE DEF v
    <3>4. Sound(v)
      BY <2>4, <2>6, <2>7, <3>1, <3>2, <3>3 DEF Sound
    <3> QED
      BY <3>4 DEF v
  <2>10. CASE device # NoSurface
    <3>1. v = Enter(u, device) /\ device \in Surfaces
      BY <2>2, <2>10 DEF OrNone
    <3>2. /\ v \in Seats /\ v.drag = d /\ v.dropped = t.dropped
          /\ v.restarted = t.restarted /\ v.late = t.late
      BY <2>6, <2>7, <3>1, EnterFields
    <3>3. ~v.restarted => TargetIsEntered(v)
      <4>1. CASE t.drag.source = NoSource
        BY <2>4, <2>6, <2>7, <2>8, <3>1, <3>2, <4>1, EnterFields DEF TargetIsEntered
      <4>2. CASE t.drag.source # NoSource
        <5>1. v.entered = u.entered \cup {device}
          BY <2>4, <2>6, <2>7, <3>1, <4>2, EnterFields
        <5> QED
          BY <2>4, <2>8, <2>10, <3>1, <3>2, <5>1 DEF TargetIsEntered
      <4> QED
        BY <4>1, <4>2
    <3>4. ~v.restarted => TargetAccepted(v)
      <4>1. CASE t.drag.source = NoSource
        BY <2>4, <3>2, <4>1, SourceAssumption DEF TargetAccepted, Seats
      <4>2. CASE t.drag.source # NoSource
        BY <2>4, <2>6, <2>7, <2>8, <3>1, <3>2, <4>2, EnterFields DEF TargetAccepted
      <4> QED
        BY <4>1, <4>2
    <3> HIDE DEF v
    <3>5. v.dropped = NoSurface
      BY <3>2 DEF Sound
    <3>6. Sound(v)
      BY <2>4, <3>2, <3>3, <3>4, <3>5 DEF Sound
    <3> QED
      BY <3>6 DEF v
  <2> QED
    BY <2>9, <2>10
<1> QED
  BY <1>1, <1>2

\* What Sound looks at.
LEMMA SoundFields ==
    ASSUME NEW t, Sound(t), NEW u \in Seats,
           u.drag = t.drag, u.dropped = t.dropped, u.restarted = t.restarted,
           u.late = t.late, u.entered = t.entered, u.accepted = t.accepted,
           u.accepter = t.accepter
    PROVE  Sound(u)
BY DEF Sound, TargetIsEntered, TargetAccepted

\* The drag ends with a drop on the target if that has accepted.
LEMMA EndDragSound ==
    ASSUME NEW t, Sound(t)
    PROVE  Sound(EndDrag(t))
<1> DEFINE u == EndDrag(t)
           drop == IF t.drag.source \in t.accepted THEN t.drag.target ELSE NoSurface
<1>1. t \in Seats /\ t.drag \in Drags
  BY DEF Sound, Seats
<1>2. u = [t EXCEPT !.drag = NoDrag, !.entered = @ \ {t.drag.target}, !.dropped = drop]
  BY DEF EndDrag
<1>3. t.entered \ {t.drag.target} \in SUBSET Surfaces /\ drop \in OrNone
  BY <1>1 DEF Seats, Drags, OrNone
<1>4. u \in Seats
  BY <1>1, <1>2, <1>3, NoDragIsDrag, Zenon DEF Seats
<1>5. /\ u.drag = NoDrag /\ u.entered = t.entered \ {t.drag.target} /\ u.dropped = drop
      /\ u.restarted = t.restarted /\ u.late = t.late /\ u.accepter = t.accepter
      /\ u.accepted = t.accepted
  BY <1>1, <1>2, Zenon DEF Seats
<1>6. /\ NoDrag.mode = "none" /\ NoDrag.source = NoSource /\ NoDrag.target = NoSurface
      /\ NoDrag.pendingTarget = NoSurface /\ NoDrag.surface = NoSurface
  BY DEF NoDrag
<1> HIDE DEF u
<1>7. ~u.restarted => TargetIsEntered(u)
  BY <1>5, <1>6 DEF Sound, TargetIsEntered
<1>8. TargetAccepted(u)
  BY <1>5, <1>6 DEF TargetAccepted
<1>9. ~u.restarted /\ ~u.late /\ u.dropped # NoSurface => u.dropped = u.accepter
  BY <1>5 DEF Sound, TargetAccepted
<1>10. Sound(u)
  BY <1>4, <1>5, <1>6, <1>7, <1>8, <1>9 DEF Sound
<1> QED
  BY <1>10 DEF u

\* A drag that is cancelled ends without a drop.
LEMMA CancelDragSound ==
    ASSUME NEW t, Sound(t)
    PROVE  Sound(CancelDrag(t)) /\ CancelDrag(t).drag = NoDrag
<1> DEFINE d == [t.drag EXCEPT !.target = NoSurface]
           l == [t EXCEPT !.entered = @ \ {t.drag.target}, !.drag = d]
           u == CancelDrag(t)
<1>1. t \in Seats /\ t.drag \in Drags /\ NoSurface \in OrNone
  BY DEF Sound, Seats, OrNone
<1>2. l = [Leave(t, t.drag.target) EXCEPT !.drag.target = NoSurface]
  BY <1>1 DEF Leave, Seats, Drags
<1>3. d \in Drags /\ d.target = NoSurface
  BY <1>1, Zenon DEF Drags
<1>4. t.entered \ {t.drag.target} \in SUBSET Surfaces
  BY <1>1 DEF Seats
<1>5. l \in Seats
  BY <1>1, <1>3, <1>4, Zenon DEF Seats
<1>6. /\ l.drag = d /\ l.entered = t.entered \ {t.drag.target}
      /\ l.restarted = t.restarted /\ l.late = t.late
  BY <1>1, Zenon DEF Seats
<1>7. u = EndDrag(l)
  BY <1>2, Zenon DEF CancelDrag
<1> HIDE DEF d, l, u
<1>8. u = [l EXCEPT !.drag = NoDrag, !.entered = @ \ {NoSurface}, !.dropped = NoSurface]
  BY <1>3, <1>6, <1>7 DEF EndDrag
<1>9. l.entered \ {NoSurface} \in SUBSET Surfaces
  BY <1>5 DEF Seats
<1>10. u \in Seats
  BY <1>1, <1>5, <1>8, <1>9, NoDragIsDrag, Zenon DEF Seats
<1>11. /\ u.drag = NoDrag /\ u.entered = l.entered \ {NoSurface} /\ u.dropped = NoSurface
       /\ u.restarted = l.restarted
  BY <1>5, <1>8, Zenon DEF Seats
<1>12. /\ NoDrag.mode = "none" /\ NoDrag.target = NoSurface
       /\ NoDrag.pendingTarget = NoSurface
  BY DEF NoDrag
<1>13. ~u.restarted => TargetIsEntered(u)
  BY <1>6, <1>11, <1>12 DEF Sound, TargetIsEntered
<1>14. Sound(u)
  BY <1>10, <1>11, <1>12, <1>13 DEF Sound, TargetAccepted
<1> QED
  BY <1>11, <1>14 DEF u

-----------------------------------------------------------------------------
(* The invariant, action by action.                                        *)

LEMMA InitSound == Init => Sound(s)
<1> SUFFICES ASSUME Init PROVE Sound(s)
  OBVIOUS
<1>1. s \in Seats
  BY NoDragIsDrag DEF Init, Seats, OrNone
<1>2. /\ s.drag = NoDrag /\ s.dropped = NoSurface /\ s.entered = {} /\ s.accepted = {}
  BY DEF Init
<1>3. /\ NoDrag.mode = "none" /\ NoDrag.pendingTarget = NoSurface /\ NoDrag.target = NoSurface
  BY DEF NoDrag
<1> QED
  BY <1>1, <1>2, <1>3 DEF Sound, TargetIsEntered, TargetAccepted

LEMMA PressSound ==
    ASSUME Sound(s), NEW kind \in {"pointer", "touch"}, Press(kind)
    PROVE  Sound(s)'
<1>1. s \in Seats /\ s' = [s EXCEPT !.grab = kind]
  BY DEF Sound, Press
<1>2. s' \in Seats
  BY <1>1, kind \in {"none", "pointer", "touch"}, Zenon DEF Seats
<1>3. /\ s'.drag = s.drag /\ s'.dropped = s.dropped /\ s'.restarted = s.restarted
      /\ s'.late = s.late /\ s'.entered = s.entered /\ s'.accepted = s.accepted
      /\ s'.accepter = s.accepter
  BY <1>1, Zenon DEF Seats
<1> QED
  BY <1>2, <1>3, SoundFields

\* A drag starts on Origin, which is entered, from the sound state of no drag; if there
\* was a drag, it is history that this one is a second.
LEMMA StartDragSound ==
    ASSUME Sound(s), NEW source \in OrNoSource, StartDrag(source)
    PROVE  Sound(s)'
<1> DEFINE d == [s.drag EXCEPT !.mode = s.grab, !.surface = Origin,
                               !.source = source, !.target = Origin]
           forgotten == s.forgotten \cup ({s.drag.source} \ {NoSource})
           restarted == s.restarted \/ s.drag.mode # "none"
           t == [s EXCEPT !.drag = d, !.forgotten = forgotten, !.dropped = NoSurface,
                          !.restarted = restarted]
<1>1. s' = Enter(t, Origin) /\ s.grab # "none"
  BY Zenon DEF StartDrag
<1>2. /\ s \in Seats /\ s.drag \in Drags /\ Origin \in Surfaces /\ Origin \in OrNone
      /\ NoSurface \in OrNone /\ Origin # NoSurface
  BY OriginAssumption DEF Sound, Seats, OrNone
<1>3. s.grab \in {"none", "pointer", "touch"}
  BY <1>2 DEF Seats
<1>4. d \in Drags
  BY <1>2, <1>3, Zenon DEF Drags
<1>5. /\ d.mode = s.grab /\ d.surface = Origin /\ d.source = source /\ d.target = Origin
      /\ d.pending = s.drag.pending /\ d.pendingTarget = s.drag.pendingTarget
  BY <1>2, Zenon DEF Drags
<1>6. forgotten \in SUBSET Sources /\ restarted \in BOOLEAN
  BY <1>2 DEF Seats, Drags, OrNoSource
<1> HIDE DEF d, forgotten
<1>7. t \in Seats
  BY <1>2, <1>4, <1>6, Zenon DEF Seats
<1>8. t.drag = d /\ t.dropped = NoSurface /\ t.entered = s.entered /\ t.accepted = s.accepted
  BY <1>2, Zenon DEF Seats
<1>9. ~t.restarted => ~s.restarted /\ s.drag.mode = "none"
  BY <1>2, Zenon DEF Seats
<1>10. ~t.restarted => t.entered = {}
  <2>1. NoDrag.target = NoSurface
    BY DEF NoDrag
  <2> QED
    BY <1>8, <1>9, <2>1 DEF Sound, TargetIsEntered
<1> HIDE DEF t
<1>11. /\ s' \in Seats /\ s'.drag = d /\ s'.dropped = NoSurface /\ s'.restarted = t.restarted
  BY <1>1, <1>2, <1>7, <1>8, EnterFields
<1>12. ~s'.restarted => TargetIsEntered(s')
  <2>1. CASE source = NoSource
    BY <1>1, <1>2, <1>5, <1>7, <1>8, <1>10, <1>11, <2>1, EnterFields DEF TargetIsEntered
  <2>2. CASE source # NoSource
    <3>1. s'.entered = t.entered \cup {Origin}
      BY <1>1, <1>2, <1>5, <1>7, <1>8, <2>2, EnterFields
    <3> QED
      BY <1>2, <1>5, <1>10, <1>11, <3>1 DEF TargetIsEntered
  <2> QED
    BY <2>1, <2>2
<1>13. ~s'.restarted => TargetAccepted(s')
  <2>1. CASE source = NoSource
    BY <1>5, <1>11, <2>1, SourceAssumption DEF TargetAccepted, Seats
  <2>2. CASE source # NoSource
    BY <1>1, <1>2, <1>5, <1>7, <1>8, <1>10, <1>11, <2>2, EnterFields DEF TargetAccepted
  <2> QED
    BY <2>1, <2>2
<1> QED
  BY <1>1, <1>5, <1>11, <1>12, <1>13 DEF Sound

\* The question about a surface is asked, and nothing else changes.
LEMMA AskSound ==
    ASSUME NEW t, Sound(t), NEW device \in Surfaces, t.drag.mode # "none",
           t.drag.source # NoSource
    PROVE  Sound([t EXCEPT !.waiting = @ \cup {<<device, t.drag.source>>},
                           !.drag.pending = device, !.drag.pendingTarget = device])
<1> DEFINE d == [t.drag EXCEPT !.pending = device, !.pendingTarget = device]
           waiting == t.waiting \cup {<<device, t.drag.source>>}
           u == [t EXCEPT !.waiting = waiting, !.drag = d]
<1>1. t \in Seats /\ t.drag \in Drags /\ device \in OrNone
  BY DEF Sound, Seats, OrNone
<1>2. d \in Drags
  BY <1>1, Zenon DEF Drags
<1>3. /\ d.mode = t.drag.mode /\ d.surface = t.drag.surface /\ d.source = t.drag.source
      /\ d.target = t.drag.target /\ d.pending = device /\ d.pendingTarget = device
  BY <1>1, Zenon DEF Drags
<1>4. waiting \in SUBSET (Surfaces \X Sources)
  BY <1>1 DEF Seats, Drags, OrNoSource
<1>5. u = [t EXCEPT !.waiting = @ \cup {<<device, t.drag.source>>},
                    !.drag.pending = device, !.drag.pendingTarget = device]
  BY <1>1 DEF Seats, Drags
<1>6. u \in Seats
  BY <1>1, <1>2, <1>4, Zenon DEF Seats
<1>7. /\ u.drag = d /\ u.dropped = t.dropped /\ u.restarted = t.restarted
      /\ u.late = t.late /\ u.entered = t.entered /\ u.accepted = t.accepted
      /\ u.accepter = t.accepter
  BY <1>1, Zenon DEF Seats
<1> HIDE DEF d, u
<1>8. Sound(u)
  BY <1>3, <1>6, <1>7 DEF Sound, TargetIsEntered, TargetAccepted
<1> QED
  BY <1>5, <1>8

LEMMA MotionSound ==
    ASSUME Sound(s), NEW surface \in OrNone, Motion(surface)
    PROVE  Sound(s)'
<1> DEFINE device == IF surface \in s.devices THEN surface ELSE NoSurface
<1>1. device \in OrNone /\ device \in {NoSurface, surface} /\ s.drag.mode # "none"
  BY DEF Motion, OrNone
<1>2. s' = SetDragTarget(s, device, surface) \/ s' \in VerifyDragTarget(s, device, surface)
  BY Zenon DEF Motion
<1> HIDE DEF device
<1>3. Sound(SetDragTarget(s, device, surface))
  BY <1>1, SetDragTargetSound
<1>4. CASE s' = SetDragTarget(s, device, surface)
  BY <1>3, <1>4
<1>5. CASE /\ device \notin {NoSurface, Origin} /\ s.drag.source # NoSource
           /\ s' = [s EXCEPT !.waiting = @ \cup {<<surface, s.drag.source>>},
                             !.drag.pending = surface, !.drag.pendingTarget = device]
  BY <1>1, <1>5, AskSound DEF OrNone
<1> QED
  BY <1>2, <1>4, <1>5, Zenon DEF VerifyDragTarget

\* The grab may change with the rest of a sound state.
LEMMA GrabSound ==
    ASSUME NEW t, Sound(t), NEW kind \in {"none", "pointer", "touch"}
    PROVE  Sound([t EXCEPT !.grab = kind])
<1> DEFINE u == [t EXCEPT !.grab = kind]
<1>1. t \in Seats
  BY DEF Sound
<1>2. u \in Seats
  BY <1>1, Zenon DEF Seats
<1>3. /\ u.drag = t.drag /\ u.dropped = t.dropped /\ u.restarted = t.restarted
      /\ u.late = t.late /\ u.entered = t.entered /\ u.accepted = t.accepted
      /\ u.accepter = t.accepter
  BY <1>1, Zenon DEF Seats
<1> HIDE DEF u
<1>4. Sound(u)
  BY <1>2, <1>3, SoundFields
<1> QED
  BY <1>4 DEF u

LEMMA ReleaseSound ==
    ASSUME Sound(s), Release
    PROVE  Sound(s)'
<1> DEFINE t == [s EXCEPT !.grab = "none"]
<1>1. s' = EndDrag(t) \/ s' = t
  BY Zenon DEF Release
<1>2. Sound(t)
  BY GrabSound
<1> HIDE DEF t
<1> QED
  BY <1>1, <1>2, EndDragSound

LEMMA CancelSound ==
    ASSUME Sound(s), Cancel
    PROVE  Sound(s)'
<1>1. PICK held \in {s.grab, "none"} : s' = [CancelDrag(s) EXCEPT !.grab = held]
  BY Zenon DEF Cancel
<1>2. held \in {"none", "pointer", "touch"}
  BY <1>1 DEF Sound, Seats
<1> QED
  BY <1>1, <1>2, CancelDragSound, GrabSound

\* Who accepts is the target, or else it is history that it was not.
LEMMA AcceptSound ==
    ASSUME Sound(s), NEW device \in Surfaces, NEW source \in Sources, NEW yes \in BOOLEAN,
           Accept(device, source, yes)
    PROVE  Sound(s)'
<1> DEFINE accepted == IF yes THEN s.accepted \cup {source} ELSE s.accepted \ {source}
           accepter == IF source = s.drag.source THEN device ELSE s.accepter
           late == s.late \/ device # s.drag.target
<1>1. s \in Seats /\ s' = [s EXCEPT !.accepted = accepted, !.accepter = accepter, !.late = late]
  BY Zenon DEF Sound, Accept
<1>2. accepted \in SUBSET Sources /\ accepter \in OrNone /\ late \in BOOLEAN
  BY <1>1 DEF Seats, OrNone
<1>3. s' \in Seats
  BY <1>1, <1>2, Zenon DEF Seats
<1>4. /\ s'.drag = s.drag /\ s'.dropped = s.dropped /\ s'.restarted = s.restarted
      /\ s'.entered = s.entered /\ s'.accepted = accepted /\ s'.accepter = accepter
  BY <1>1, Zenon DEF Seats
<1>5. s'.late \/ (~s.late /\ device = s.drag.target)
  BY <1>1, Zenon DEF Seats
<1>6. ~s'.restarted /\ ~s'.late => TargetAccepted(s')
  BY <1>4, <1>5 DEF Sound, TargetAccepted
<1>7. s.dropped # NoSurface => accepter = s.accepter
  <2>1. NoDrag.source = NoSource
    BY DEF NoDrag
  <2> QED
    BY <2>1, SourceAssumption DEF Sound
<1>8. ~s'.restarted => TargetIsEntered(s')
  BY <1>4 DEF Sound, TargetIsEntered
<1> QED
  BY <1>3, <1>4, <1>5, <1>6, <1>7, <1>8 DEF Sound

LEMMA DestroySourceSound ==
    ASSUME Sound(s), NEW source \in Sources, DestroySource(source)
    PROVE  Sound(s)'
<1> DEFINE t == IF source \in s.forgotten \cup {s.drag.source} THEN CancelDrag(s) ELSE s
<1>1. s' = [t EXCEPT !.sources = @ \ {source}, !.accepted = @ \ {source},
                     !.forgotten = @ \ {source}]
  BY Zenon DEF DestroySource
<1>2. Sound(t)
  BY CancelDragSound
<1> HIDE DEF t
<1>3. t \in Seats
  BY <1>2 DEF Sound
<1>4. /\ t.sources \ {source} \in SUBSET Sources /\ t.accepted \ {source} \in SUBSET Sources
      /\ t.forgotten \ {source} \in SUBSET Sources
  BY <1>3 DEF Seats
<1>5. s' \in Seats
  BY <1>1, <1>3, <1>4, Zenon DEF Seats
<1>6. /\ s'.drag = t.drag /\ s'.dropped = t.dropped /\ s'.restarted = t.restarted
      /\ s'.late = t.late /\ s'.entered = t.entered /\ s'.accepted = t.accepted \ {source}
      /\ s'.accepter = t.accepter
  BY <1>1, <1>3, Zenon DEF Seats
<1> QED
  BY <1>2, <1>5, <1>6 DEF Sound, TargetIsEntered, TargetAccepted

\* The device of a surface that is gone was left, and so the target counts no more.
LEMMA DestroySurfaceSound ==
    ASSUME Sound(s), NEW surface \in Surfaces, DestroySurface(surface)
    PROVE  Sound(s)'
<1> DEFINE shown == IF s.drag.surface = surface THEN NoSurface ELSE s.drag.surface
           d == [s.drag EXCEPT !.surface = shown]
<1>1. s \in Seats /\ s.drag \in Drags
  BY DEF Sound, Seats
<1>2. s' = [s EXCEPT !.entered = @ \ {surface}, !.surfaces = @ \ {surface}, !.drag = d]
  BY <1>1 DEF DestroySurface, Leave, Seats, Drags
<1>3. shown \in OrNone
  BY <1>1 DEF Drags, OrNone
<1>4. d \in Drags
  BY <1>1, <1>3, Zenon DEF Drags
<1>5. /\ d.mode = s.drag.mode /\ d.surface = shown /\ d.source = s.drag.source
      /\ d.target = s.drag.target /\ d.pending = s.drag.pending
      /\ d.pendingTarget = s.drag.pendingTarget
  BY <1>1, Zenon DEF Drags
<1>6. s.drag = NoDrag => d = NoDrag
  <2>1. NoDrag.surface = NoSurface /\ NoDrag \in Drags
    BY NoDragIsDrag DEF NoDrag
  <2>2. ASSUME s.drag = NoDrag PROVE shown = s.drag.surface
    BY <2>1, <2>2
  <2> QED
    BY <1>1, <2>1, <2>2, Zenon DEF Drags
<1>7. s.entered \ {surface} \in SUBSET Surfaces /\ s.surfaces \ {surface} \in SUBSET Surfaces
  BY <1>1 DEF Seats
<1> HIDE DEF d
<1>8. s' \in Seats
  BY <1>1, <1>2, <1>4, <1>7, Zenon DEF Seats
<1>9. /\ s'.drag = d /\ s'.dropped = s.dropped /\ s'.restarted = s.restarted
      /\ s'.late = s.late /\ s'.entered = s.entered \ {surface}
      /\ s'.accepted = s.accepted /\ s'.accepter = s.accepter
  BY <1>1, <1>2, Zenon DEF Seats
<1>10. ~s'.restarted => TargetIsEntered(s')
  BY <1>5, <1>9 DEF Sound, TargetIsEntered
<1>11. ~s'.restarted /\ ~s'.late => TargetAccepted(s')
  BY <1>5, <1>9 DEF Sound, TargetAccepted
<1> QED
  BY <1>5, <1>6, <1>8, <1>9, <1>10, <1>11 DEF Sound

LEMMA ReleaseDeviceSound ==
    ASSUME Sound(s), NEW device \in Surfaces, ReleaseDevice(device)
    PROVE  Sound(s)'
<1> DEFINE target == IF s.drag.target = device THEN NoSurface ELSE s.drag.target
           pending == IF s.drag.pendingTarget = device THEN NoSurface ELSE s.drag.pendingTarget
           d == [s.drag EXCEPT !.target = target, !.pendingTarget = pending]
<1>1. s \in Seats /\ s.drag \in Drags
  BY DEF Sound, Seats
<1>2. s' = [s EXCEPT !.entered = @ \ {device}, !.devices = @ \ {device}, !.drag = d]
  BY <1>1 DEF ReleaseDevice, Leave, Seats, Drags
<1>3. target \in OrNone /\ pending \in OrNone
  BY <1>1 DEF Drags, OrNone
<1>4. d \in Drags
  BY <1>1, <1>3, Zenon DEF Drags
<1>5. /\ d.mode = s.drag.mode /\ d.surface = s.drag.surface /\ d.source = s.drag.source
      /\ d.target = target /\ d.pending = s.drag.pending /\ d.pendingTarget = pending
  BY <1>1, Zenon DEF Drags
<1>6. s.drag = NoDrag => d = NoDrag
  <2>1. NoDrag.target = NoSurface /\ NoDrag.pendingTarget = NoSurface /\ NoDrag \in Drags
    BY NoDragIsDrag DEF NoDrag
  <2>2. ASSUME s.drag = NoDrag
        PROVE  target = s.drag.target /\ pending = s.drag.pendingTarget
    BY <2>1, <2>2
  <2> QED
    BY <1>1, <2>1, <2>2, Zenon DEF Drags
<1>7. s.entered \ {device} \in SUBSET Surfaces /\ s.devices \ {device} \in SUBSET Surfaces
  BY <1>1 DEF Seats
<1> HIDE DEF d
<1>8. s' \in Seats
  BY <1>1, <1>2, <1>4, <1>7, Zenon DEF Seats
<1>9. /\ s'.drag = d /\ s'.dropped = s.dropped /\ s'.restarted = s.restarted
      /\ s'.late = s.late /\ s'.entered = s.entered \ {device}
      /\ s'.accepted = s.accepted /\ s'.accepter = s.accepter
  BY <1>1, <1>2, Zenon DEF Seats
<1>10. ~s'.restarted => TargetIsEntered(s')
  BY <1>5, <1>9 DEF Sound, TargetIsEntered
<1>11. ~s'.restarted /\ ~s'.late => TargetAccepted(s')
  BY <1>5, <1>9 DEF Sound, TargetAccepted
<1>12. d.pendingTarget \in {NoSurface, d.pending}
  BY <1>5 DEF Sound
<1> QED
  BY <1>5, <1>6, <1>8, <1>9, <1>10, <1>11, <1>12 DEF Sound

\* An answer counts only for the pending surface, in a drag.
LEMMA AnswerSound ==
    ASSUME Sound(s), NEW surface \in Surfaces, NEW source \in Sources, NEW yes \in BOOLEAN,
           Answer(surface, source, yes)
    PROVE  Sound(s)'
<1>1. PICK more \in {{}, {<<surface, source>>}} :
        LET t == [s EXCEPT !.waiting = (@ \ {<<surface, source>>}) \cup more]
        IN  \/ s' = t \/ s' = [t EXCEPT !.crashed = TRUE]
            \/ /\ surface = s.drag.pending
               /\ s' = SetDragTarget(t, s.drag.pendingTarget, surface)
  BY Zenon DEF Answer
<1> DEFINE t == [s EXCEPT !.waiting = (@ \ {<<surface, source>>}) \cup more]
<1>2. s \in Seats /\ s.drag \in Drags
  BY DEF Sound, Seats
<1>3. (s.waiting \ {<<surface, source>>}) \cup more \in SUBSET (Surfaces \X Sources)
  BY <1>2 DEF Seats
<1>4. t \in Seats
  BY <1>2, <1>3, Zenon DEF Seats
<1>5. /\ t.drag = s.drag /\ t.dropped = s.dropped /\ t.restarted = s.restarted
      /\ t.late = s.late /\ t.entered = s.entered /\ t.accepted = s.accepted
      /\ t.accepter = s.accepter
  BY <1>2, Zenon DEF Seats
<1>6. \/ s' = t \/ s' = [t EXCEPT !.crashed = TRUE]
      \/ /\ surface = s.drag.pending
         /\ s' = SetDragTarget(t, s.drag.pendingTarget, surface)
  BY <1>1, Zenon
<1> HIDE DEF t
<1>7. Sound(t)
  BY <1>4, <1>5, SoundFields
<1>8. CASE s' = t
  BY <1>7, <1>8
<1>9. CASE s' = [t EXCEPT !.crashed = TRUE]
  <2>1. s' \in Seats
    BY <1>4, <1>9, TRUE \in BOOLEAN, Zenon DEF Seats
  <2>2. /\ s'.drag = t.drag /\ s'.dropped = t.dropped /\ s'.restarted = t.restarted
        /\ s'.late = t.late /\ s'.entered = t.entered /\ s'.accepted = t.accepted
        /\ s'.accepter = t.accepter
    BY <1>4, <1>9, Zenon DEF Seats
  <2> QED
    BY <1>7, <2>1, <2>2, SoundFields
<1>10. CASE surface = s.drag.pending /\ s' = SetDragTarget(t, s.drag.pendingTarget, surface)
  <2>1. s.drag.mode # "none"
    <3>1. NoDrag.pending = NoSurface
      BY DEF NoDrag
    <3> QED
      BY <1>10, <3>1, OriginAssumption DEF Sound
  <2>2. s.drag.pendingTarget \in OrNone /\ s.drag.pendingTarget \in {NoSurface, surface}
    BY <1>2, <1>10 DEF Drags, Sound
  <2> QED
    BY <1>5, <1>7, <1>10, <2>1, <2>2, SetDragTargetSound DEF OrNone
<1> QED
  BY <1>6, <1>8, <1>9, <1>10

\* The seat's drag stays sound, whatever is destroyed, answered or accepted in whatever
\* order (all handlers of seat_interface.cpp, datadevice_interface.cpp and
\* dataoffer_interface.cpp that take part in a drag).
THEOREM InvariantHolds == Spec => []Sound(s)
<1>1. Sound(s) /\ [Next]_s => Sound(s)'
  <2> SUFFICES ASSUME Sound(s), [Next]_s PROVE Sound(s)'
    OBVIOUS
  <2>1. CASE UNCHANGED s
    BY <2>1
  <2>2. ASSUME NEW kind \in {"pointer", "touch"}, Press(kind) PROVE Sound(s)'
    BY <2>2, PressSound
  <2>3. ASSUME NEW source \in Sources \cup {NoSource}, StartDrag(source) PROVE Sound(s)'
    BY <2>3, StartDragSound DEF OrNoSource
  <2>4. ASSUME NEW surface \in Surfaces \cup {NoSurface}, Motion(surface) PROVE Sound(s)'
    BY <2>4, MotionSound DEF OrNone
  <2>5. CASE Release
    BY <2>5, ReleaseSound
  <2>6. CASE Cancel
    BY <2>6, CancelSound
  <2>7. ASSUME NEW d \in Surfaces, NEW source \in Sources, NEW yes \in BOOLEAN,
               Accept(d, source, yes)
        PROVE  Sound(s)'
    BY <2>7, AcceptSound
  <2>8. ASSUME NEW source \in Sources, DestroySource(source) PROVE Sound(s)'
    BY <2>8, DestroySourceSound
  <2>9. ASSUME NEW surface \in Surfaces, DestroySurface(surface) PROVE Sound(s)'
    BY <2>9, DestroySurfaceSound
  <2>10. ASSUME NEW device \in Surfaces, ReleaseDevice(device) PROVE Sound(s)'
    BY <2>10, ReleaseDeviceSound
  <2>11. ASSUME NEW surface \in Surfaces, NEW source \in Sources, NEW yes \in BOOLEAN,
                Answer(surface, source, yes)
         PROVE  Sound(s)'
    BY <2>11, AnswerSound
  <2> QED
    BY <2>1, <2>2, <2>3, <2>4, <2>5, <2>6, <2>7, <2>8, <2>9, <2>10, <2>11 DEF Next
<1> QED
  BY InitSound, <1>1, PTL DEF Spec

\* The seat's state has its type.
THEOREM TypeCorrect == Spec => []TypeInv
<1>1. Sound(s) => TypeInv
  BY DEF Sound, TypeInv, Seats, Drags, OrNone, OrNoSource
<1> QED
  BY <1>1, InvariantHolds, PTL

\* A data device that was entered is the target of the drag and hears of its end, unless
\* a client has started a drag in a drag (updateDragTarget, setDragTarget, endDrag).
THEOREM OnlyTargetIsEntered == Spec => []OneDeviceEntered
<1>1. Sound(s) => OneDeviceEntered
  BY DEF Sound, TargetIsEntered, OneDeviceEntered
<1> QED
  BY <1>1, InvariantHolds, PTL

\* A drop goes to the client that has accepted the data since it was entered, unless
\* another one has accepted an old offer (accept, updateDragTarget, endDrag).
THEOREM DropGoesToAccepter == Spec => []DropIsAccepted
<1>1. Sound(s) => DropIsAccepted
  BY DEF Sound, DropIsAccepted
<1> QED
  BY <1>1, InvariantHolds, PTL

=============================================================================
