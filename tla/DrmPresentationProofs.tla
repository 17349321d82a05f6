------------------------ MODULE DrmPresentationProofs ------------------------
(***************************************************************************)
(* Proofs about DrmPresentation, for any finite set of outputs, any modes,  *)
(* any scenarios and any bound on the frames.                               *)
(*                                                                          *)
(* The handlers are functions from card to card, so the inductive invariant *)
(* is a predicate of a card, Fine, and each function is shown to keep it.   *)
(* In the middle of a handler it holds in a weaker form: the outputs in     *)
(* "todo" are not configured yet, those in "begun" have begun a frame that  *)
(* they have not handed on.                                                 *)
(***************************************************************************)
EXTENDS DrmPresentation, Integers, TLAPS, FiniteSetTheorems, WellFoundedInduction

\* Loops whose count of frames may have been taken below zero.
Loop == [pendingFrameCount : Int, inhibitCount : Nat,
         pendingReschedule : BOOLEAN, pendingRepaint : BOOLEAN,
         timer : BOOLEAN, fullscreenItem : Items \cup {NoItem},
         terminating : BOOLEAN]

Card == [exists : SUBSET Outputs, enabled : SUBSET Outputs,
         on : SUBSET Outputs, turnOff : SUBSET Outputs,
         loops : [Outputs -> Loop],
         pending : [Outputs -> PipelineState], next : [Outputs -> PipelineState],
         flip : SUBSET Outputs, waiting : SUBSET Outputs,
         kernel : [Outputs -> Modes \cup {Dark}],
         active : BOOLEAN, filter : BOOLEAN, update : BOOLEAN]

\* Pauses of an output's loop: DPMS off, and the session inactive.
Pauses(g, o) ==
    IF o \in g.exists THEN Count(o \notin g.on) + Count(~g.active) ELSE 0

\* The pauses nest, and a paused loop has no timer.
PausesFine(g) ==
    \A o \in Outputs :
        /\ g.loops[o].inhibitCount = Pauses(g, o)
        /\ g.loops[o].timer => g.loops[o].inhibitCount = 0

\* What an output that is off may show after a step that starts from the card gpu:
\* nothing, or what it showed before, which another user of the card may have lit.
Dimmed(o, shown) ==
    \/ shown = Dark
    \/ ~gpu.active
    \/ o \in gpu.exists \ gpu.on /\ shown = gpu.kernel[o]

\* No commit, and no revert, can light an output that is switched off.
OffFine(g) ==
    \A o \in g.exists \ g.on :
        Dimmed(o, g.kernel[o]) /\ ~g.pending[o].active /\ ~g.next[o].active

LEMMA DarkIsDimmed ==
    ASSUME NEW o
    PROVE  Dimmed(o, Dark)
BY DEF Dimmed

FlipsFine(g) == \A o \in g.flip : o \in g.exists /\ g.kernel[o] # Dark

\* A pipeline that lights its output.
Lights(c) == c.active /\ c.crtc

\* Both for a commit and for a revert, a pipeline of an output that is on is active,
\* and one of an enabled output has a CRTC.
LitFine(g, todo) ==
    /\ \A o \in g.exists \cap g.on : g.pending[o].active /\ g.next[o].active
    /\ \A o \in Composited(g) \ todo : g.pending[o].crtc /\ g.next[o].crtc

\* What the card owes the loop of an output.
Debt(g, begun, o) ==
    Count(o \in g.flip) + Count(o \in g.waiting) + Count(o \in begun)

OwedFine(g, begun) ==
    /\ g.waiting \subseteq g.exists
    /\ \A o \in Outputs : g.loops[o].pendingFrameCount >= Debt(g, begun, o)

\* All outputs stay and stay lit: a loop has one frame at most, and one that waits
\* for a mode set is of an output that the mode set lights.
AnsweredFine(g, begun) ==
    /\ g.active /\ g.on = Outputs /\ g.turnOff = {}
    /\ \A o \in Outputs :
          /\ g.loops[o].pendingFrameCount <= Debt(g, begun, o)
          /\ g.loops[o].timer => g.loops[o].pendingFrameCount = 0
          /\ Debt(g, begun, o) <= 1
          /\ o \in g.enabled \/ o \notin g.exists => g.pending[o].enabled
          /\ o \in g.enabled => g.next[o].enabled
          /\ o \in g.waiting => /\ o \in g.enabled
                                /\ Lights(g.pending[o])
                                /\ Lights(g.next[o])

\* A revert changes neither what the pipelines that are configured show nor makes a
\* mode set unnecessary.
Settled(g, todo) ==
    \A o \in g.exists \ todo :
        /\ Shown(g.next[o]) = Shown(g.pending[o])
        /\ g.pending[o].needsModeset => g.next[o].needsModeset

\* A frame waits for a mode set that is due, or for none that is needed.
Due(g) ==
    \/ g.waiting = {}
    \/ NeedsModeset(g)
    \/ \A o \in g.exists : Shown(g.pending[o]) = g.kernel[o]

\* All outputs are found at once.
Waits(g, todo) == g.exists \in {{}, Outputs} /\ Settled(g, todo) /\ Due(g)

Staying == "plug" \notin events
Steady == events \cap {"disable", "dpms", "plug", "session"} = {}

Fine(g, todo, begun) ==
    /\ g \in Card
    /\ PausesFine(g)
    /\ OffFine(g)
    /\ FlipsFine(g)
    /\ LitFine(g, todo)
    /\ Staying => OwedFine(g, begun)
    /\ Steady => AnsweredFine(g, begun)

IInv ==
    /\ Fine(gpu, {}, {})
    /\ Steady => Waits(gpu, {})
    /\ plugged \in SUBSET Outputs
    /\ Staying => plugged = Outputs
    /\ events \in Scenarios

-----------------------------------------------------------------------------
(* What the operations of a loop do to its counts and to its timer.         *)

\* A loop is left with n frames and p pauses, and its timer runs only if t.
Leaves(l, n, p, t) ==
    /\ l \in Loop
    /\ l.pendingFrameCount = n
    /\ l.inhibitCount = p
    /\ l.timer => t

LEMMA StartTimerLeaves ==
    ASSUME NEW l \in Loop
    PROVE  Leaves(StartTimer(l), l.pendingFrameCount, l.inhibitCount, TRUE)
BY DEF StartTimer, Leaves, Loop

LEMMA MaybeScheduleLeaves ==
    ASSUME NEW l \in Loop
    PROVE  Leaves(MaybeSchedule(l), l.pendingFrameCount, l.inhibitCount, TRUE)
BY DEF MaybeSchedule, StartTimer, Leaves, Loop

LEMMA ScheduleRepaintLeaves ==
    ASSUME NEW l \in Loop
    PROVE  Leaves(ScheduleRepaint(l, NoItem), l.pendingFrameCount, l.inhibitCount,
                  l.timer \/ (l.pendingFrameCount = 0 /\ l.inhibitCount = 0))
<1>1. Leaves(Delay(l), l.pendingFrameCount, l.inhibitCount, l.timer)
  BY DEF Delay, Leaves, Loop
<1>2. Leaves(StartTimer(l), l.pendingFrameCount, l.inhibitCount, TRUE)
  BY StartTimerLeaves
<1> QED
  BY <1>1, <1>2 DEF ScheduleRepaint, Leaves

LEMMA FrameDoneLeaves ==
    ASSUME NEW l \in Loop
    PROVE  Leaves(FrameDone(l), l.pendingFrameCount - 1, l.inhibitCount,
                  l.timer \/ l.inhibitCount = 0)
<1> DEFINE m == [l EXCEPT !.pendingFrameCount = @ - 1]
<1>1. /\ Leaves(m, l.pendingFrameCount - 1, l.inhibitCount, l.timer)
      /\ m \in Loop
  BY DEF Leaves, Loop
<1>2. FrameDone(l) = IF m.inhibitCount = 0 THEN MaybeSchedule(m) ELSE m
  BY DEF FrameDone
<1> HIDE DEF m
<1>3. Leaves(MaybeSchedule(m), m.pendingFrameCount, m.inhibitCount, TRUE)
  BY <1>1, MaybeScheduleLeaves
<1> QED
  BY <1>1, <1>2, <1>3 DEF Leaves

LEMMA InhibitLeaves ==
    ASSUME NEW l \in Loop
    PROVE  Leaves(Inhibit(l), l.pendingFrameCount, l.inhibitCount + 1,
                  l.timer /\ l.inhibitCount # 0)
<1> DEFINE n == l.inhibitCount + 1
           t == l.timer /\ l.inhibitCount # 0
<1>1. n \in Nat /\ t \in BOOLEAN
  BY DEF Loop
<1>2. Inhibit(l) = [l EXCEPT !.inhibitCount = n, !.timer = t]
  BY DEF Inhibit
<1> HIDE DEF n, t
<1>3. Leaves(Inhibit(l), l.pendingFrameCount, n, t)
  BY <1>1, <1>2 DEF Leaves, Loop
<1> QED
  BY <1>3 DEF n, t

LEMMA UninhibitLeaves ==
    ASSUME NEW l \in Loop, l.inhibitCount > 0
    PROVE  Leaves(Uninhibit(l), l.pendingFrameCount, l.inhibitCount - 1,
                  l.timer \/ l.inhibitCount = 1)
<1> DEFINE m == [l EXCEPT !.inhibitCount = @ - 1]
<1>1. /\ Leaves(m, l.pendingFrameCount, l.inhibitCount - 1, l.timer)
      /\ m \in Loop
  BY DEF Leaves, Loop
<1>2. Uninhibit(l) = IF m.inhibitCount = 0 THEN MaybeSchedule(m) ELSE m
  BY DEF Uninhibit
<1>3. l.inhibitCount \in Nat
  BY DEF Loop
<1> HIDE DEF m
<1>4. Leaves(MaybeSchedule(m), m.pendingFrameCount, m.inhibitCount, TRUE)
  BY <1>1, MaybeScheduleLeaves
<1> QED
  BY <1>1, <1>2, <1>3, <1>4 DEF Leaves

LEMMA BeginLeaves ==
    ASSUME NEW l \in Loop
    PROVE  Leaves(BeginFrame(DispatchBegin(l)), l.pendingFrameCount + 1,
                  l.inhibitCount, FALSE)
<1> DEFINE m == DispatchBegin(l)
           n == l.pendingFrameCount + 1
<1>1. Leaves(m, l.pendingFrameCount, l.inhibitCount, FALSE)
  BY DEF DispatchBegin, Leaves, Loop
<1>2. n \in Int
  BY DEF Loop
<1> HIDE DEF m
<1>3. BeginFrame(m) = [m EXCEPT !.pendingRepaint = FALSE, !.pendingFrameCount = n]
  BY <1>1 DEF BeginFrame, Leaves
<1> HIDE DEF n
<1>4. Leaves(BeginFrame(m), n, m.inhibitCount, m.timer)
  BY <1>1, <1>2, <1>3 DEF Leaves, Loop
<1> QED
  BY <1>1, <1>4 DEF Leaves, m, n

LEMMA DispatchEndLeaves ==
    ASSUME NEW l \in Loop
    PROVE  Leaves(DispatchEnd(l), l.pendingFrameCount, l.inhibitCount, l.timer)
BY DEF DispatchEnd, Leaves, Loop

LEMMA DispatchLeaves ==
    ASSUME NEW l \in Loop
    PROVE  Leaves(DispatchEnd(DispatchBegin(l)), l.pendingFrameCount,
                  l.inhibitCount, l.timer)
BY DEF DispatchBegin, DispatchEnd, Leaves, Loop

LEMMA InitialLeaves == Leaves(InitialLoop, 0, 0, FALSE)
BY DEF InitialLoop, Leaves, Loop

-----------------------------------------------------------------------------
(* Folds over finite sets: what every step keeps, the fold keeps.           *)

\* Every set of natural numbers that is not empty has a least element.
LEMMA LeastNumber ==
    ASSUME NEW S \in SUBSET Nat, S # {}
    PROVE  \E n \in S : \A k \in S : n <= k
<1> DEFINE R == OpToRel(<,Nat)
<1>1. \A y, z \in Nat : y < z => <<y, z>> \in R
  BY DEF OpToRel
<1>2. IsWellFoundedOn(R, Nat)
  BY NatLessThanWellFounded
<1>3. PICK x \in S : \A y \in S : ~(<<y, x>> \in R)
  BY <1>2, WFMin
<1> HIDE DEF R
<1>4. ASSUME NEW k \in S PROVE x <= k
  <2>1. k \in Nat /\ x \in Nat /\ ~(<<k, x>> \in R)
    BY <1>3
  <2>2. ~(k < x)
    BY <1>1, <2>1
  <2> QED
    BY <2>1, <2>2
<1> QED
  BY <1>4

\* The element that a fold takes from a set next.
Element(s) == CHOOSE x \in s : TRUE

\* f folds every set of D: it starts with g, and F[x] takes in the element x.
IsFold(f, D, g, F) ==
    f = [s \in D |-> IF s = {} THEN g ELSE F[Element(s)][f[s \ {Element(s)}]]]

Upto(S, n) == {s \in SUBSET S : Cardinality(s) <= n}

LEMMA SmallerSet ==
    ASSUME NEW S, IsFiniteSet(S), NEW n \in Nat, NEW s \in Upto(S, n), s # {}
    PROVE  Element(s) \in s /\ n # 0 /\ s \ {Element(s)} \in Upto(S, n - 1)
<1>1. Element(s) \in s
  BY DEF Element
<1>2. IsFiniteSet(s) /\ Cardinality(s) \in Nat /\ Cardinality(s) # 0
  BY FS_Subset, FS_CardinalityType, FS_EmptySet DEF Upto
<1>3. Cardinality(s \ {Element(s)}) = Cardinality(s) - 1
  BY <1>1, <1>2, FS_RemoveElement
<1> QED
  BY <1>1, <1>2, <1>3 DEF Upto

\* A function that folds the subsets of a finite set exists.
LEMMA FoldExists ==
    ASSUME NEW S, IsFiniteSet(S), NEW g, NEW F
    PROVE  \E f : IsFold(f, SUBSET S, g, F)
<1> DEFINE Bad == {n \in Nat : ~ \E f : IsFold(f, Upto(S, n), g, F)}
<1>1. Cardinality(S) \in Nat /\ Upto(S, Cardinality(S)) = SUBSET S
  BY FS_Subset, FS_CardinalityType DEF Upto
<1>2. \A s \in SUBSET S : Cardinality(s) \in Nat
  BY FS_Subset, FS_CardinalityType
<1>3. SUFFICES ASSUME Bad # {} PROVE FALSE
  <2>1. Cardinality(S) \notin Bad =>
           \E f : IsFold(f, Upto(S, Cardinality(S)), g, F)
    BY <1>1
  <2> QED
    BY <1>1, <2>1
<1>4. PICK n \in Bad : \A k \in Bad : n <= k
  BY <1>3, LeastNumber
<1>5. n \in Nat /\ n - 1 \notin Bad
  BY <1>4
<1>6. n # 0
  <2> DEFINE f == [s \in Upto(S, 0) |-> g]
  <2>1. \A s \in Upto(S, 0) : s = {}
    BY SmallerSet
  <2>2. IsFold(f, Upto(S, 0), g, F)
    BY <2>1 DEF IsFold
  <2> QED
    BY <2>2
<1>7. PICK f : IsFold(f, Upto(S, n - 1), g, F)
  BY <1>5, <1>6
<1> DEFINE h == [s \in Upto(S, n) |->
                    IF s = {} THEN g ELSE F[Element(s)][f[s \ {Element(s)}]]]
<1>8. ASSUME NEW s \in Upto(S, n), s # {}
      PROVE  h[s \ {Element(s)}] = f[s \ {Element(s)}]
  <2>1. s \ {Element(s)} \in Upto(S, n - 1) /\ s \ {Element(s)} \in Upto(S, n)
    <3>1. s \ {Element(s)} \in Upto(S, n - 1)
      BY <1>5, <1>8, SmallerSet
    <3>2. Upto(S, n - 1) \subseteq Upto(S, n)
      BY <1>2, <1>5 DEF Upto
    <3> QED
      BY <3>1, <3>2
  <2> QED
    BY <1>7, <2>1 DEF IsFold
<1>9. IsFold(h, Upto(S, n), g, F)
  BY <1>8 DEF IsFold
<1> QED
  BY <1>4, <1>9

\* What holds before a fold, and is kept by every step of it, holds after it.
LEMMA FoldKeeps ==
    ASSUME NEW S, IsFiniteSet(S), NEW f, NEW Q, f[{}] \in Q[{}],
           \A s \in SUBSET S : s # {} =>
              (f[s \ {Element(s)}] \in Q[s \ {Element(s)}] => f[s] \in Q[s])
    PROVE  \A s \in SUBSET S : f[s] \in Q[s]
<1> DEFINE Bad == {n \in Nat : \E s \in Upto(S, n) : f[s] \notin Q[s]}
<1>1. \A s \in SUBSET S : Cardinality(s) \in Nat
  BY FS_Subset, FS_CardinalityType
<1>2. SUFFICES ASSUME Bad # {} PROVE FALSE
  BY <1>1 DEF Upto
<1>3. PICK n \in Bad : \A k \in Bad : n <= k
  BY <1>2, LeastNumber
<1>4. PICK s \in Upto(S, n) : f[s] \notin Q[s]
  BY <1>3
<1>5. s \in SUBSET S /\ s # {} /\ n \in Nat
  BY <1>3, <1>4 DEF Upto
<1>6. n # 0 /\ s \ {Element(s)} \in Upto(S, n - 1)
  BY <1>4, <1>5, SmallerSet
<1>7. n - 1 \notin Bad /\ n - 1 \in Nat
  BY <1>3, <1>5, <1>6
<1> QED
  BY <1>4, <1>5, <1>6, <1>7

LEMMA FoldStays ==
    ASSUME NEW S, IsFiniteSet(S), NEW g, NEW F, NEW Q, g \in Q[{}],
           \A s \in SUBSET S : \A x \in s : \A h \in Q[s \ {x}] : F[x][h] \in Q[s]
    PROVE  \E f : IsFold(f, SUBSET S, g, F) /\ \A s \in SUBSET S : f[s] \in Q[s]
<1>1. PICK f : IsFold(f, SUBSET S, g, F)
  BY FoldExists
<1>2. ASSUME NEW s \in SUBSET S, s # {}, f[s \ {Element(s)}] \in Q[s \ {Element(s)}]
      PROVE  f[s] \in Q[s]
  <2>1. f[s] = F[Element(s)][f[s \ {Element(s)}]]
    BY <1>1, <1>2 DEF IsFold
  <2>2. Element(s) \in s
    BY <1>2 DEF Element
  <2> QED
    BY <1>2, <2>1, <2>2
<1>3. f[{}] \in Q[{}]
  BY <1>1 DEF IsFold
<1>4. \A s \in SUBSET S : f[s] \in Q[s]
  BY <1>2, <1>3, FoldKeeps
<1> QED
  BY <1>1, <1>4

AllOnIn(g, S, refused) ==
    FoldSet(LAMBDA o, h : SetDpmsModeOn(h, o, refused), g, S)

\* What every call of setDpmsMode(On) keeps, all of them do.
LEMMA AllOnFolds ==
    ASSUME NEW S, IsFiniteSet(S), NEW g, NEW Q, NEW refused, g \in Q[{}],
           \A s \in SUBSET S : \A x \in s : \A h \in Q[s \ {x}] :
              SetDpmsModeOn(h, x, refused) \in Q[s]
    PROVE  AllOnIn(g, S, refused) \in Q[S]
<1> DEFINE D == UNION {Q[s] : s \in SUBSET S}
           F == [x \in S |-> [h \in D |-> SetDpmsModeOn(h, x, refused)]]
           f0 == CHOOSE f : f = [s \in SUBSET S |->
                    IF s = {} THEN g
                    ELSE SetDpmsModeOn(f[s \ {Element(s)}], Element(s), refused)]
<1>1. ASSUME NEW s \in SUBSET S, NEW x \in s, NEW h \in Q[s \ {x}]
      PROVE  F[x][h] = SetDpmsModeOn(h, x, refused)
  <2>1. x \in S /\ h \in D
    OBVIOUS
  <2> QED
    BY <2>1
<1> HIDE DEF F
<1>2. PICK f : IsFold(f, SUBSET S, g, F) /\ \A s \in SUBSET S : f[s] \in Q[s]
  <2>1. \A s \in SUBSET S : \A x \in s : \A h \in Q[s \ {x}] : F[x][h] \in Q[s]
    BY <1>1
  <2> QED
    BY <2>1, FoldStays
<1>3. f = [s \in SUBSET S |->
              IF s = {} THEN g ELSE SetDpmsModeOn(f[s \ {Element(s)}], Element(s), refused)]
  <2>1. ASSUME NEW s \in SUBSET S, s # {}
        PROVE  F[Element(s)][f[s \ {Element(s)}]]
                  = SetDpmsModeOn(f[s \ {Element(s)}], Element(s), refused)
    BY <1>1, <1>2, <2>1 DEF Element
  <2> QED
    BY <1>2, <2>1 DEF IsFold
<1>4. f0 = [s \in SUBSET S |->
               IF s = {} THEN g
               ELSE SetDpmsModeOn(f0[s \ {Element(s)}], Element(s), refused)]
  BY <1>3
<1>5. AllOnIn(g, S, refused) = f0[S]
  BY DEF AllOnIn, FoldSet, MapThenFoldSet, Element
<1> HIDE DEF f0
<1>6. ASSUME NEW s \in SUBSET S, s # {},
             f0[s \ {Element(s)}] \in Q[s \ {Element(s)}]
      PROVE  f0[s] \in Q[s]
  <2>1. f0[s] = SetDpmsModeOn(f0[s \ {Element(s)}], Element(s), refused)
    BY <1>4, <1>6
  <2>2. Element(s) \in s
    BY <1>6 DEF Element
  <2> QED
    BY <1>6, <2>1, <2>2
<1>7. f0[{}] \in Q[{}] /\ S \in SUBSET S
  BY <1>4
<1> QED
  BY <1>5, <1>6, <1>7, FoldKeeps

SwitchOffAll(g, S, refused) ==
    FoldSet(LAMBDA o, h : SwitchOff(h, o, refused), g, S)

\* The same for the outputs that are switched off because they are gone ...
LEMMA SwitchOffFolds ==
    ASSUME NEW S, IsFiniteSet(S), NEW g, NEW Q, NEW refused, g \in Q[{}],
           \A s \in SUBSET S : \A x \in s : \A h \in Q[s \ {x}] :
              SwitchOff(h, x, refused) \in Q[s]
    PROVE  SwitchOffAll(g, S, refused) \in Q[S]
<1> DEFINE D == UNION {Q[s] : s \in SUBSET S}
           F == [x \in S |-> [h \in D |-> SwitchOff(h, x, refused)]]
           f0 == CHOOSE f : f = [s \in SUBSET S |->
                    IF s = {} THEN g
                    ELSE SwitchOff(f[s \ {Element(s)}], Element(s), refused)]
<1>1. ASSUME NEW s \in SUBSET S, NEW x \in s, NEW h \in Q[s \ {x}]
      PROVE  F[x][h] = SwitchOff(h, x, refused)
  <2>1. x \in S /\ h \in D
    OBVIOUS
  <2> QED
    BY <2>1
<1> HIDE DEF F
<1>2. PICK f : IsFold(f, SUBSET S, g, F) /\ \A s \in SUBSET S : f[s] \in Q[s]
  <2>1. \A s \in SUBSET S : \A x \in s : \A h \in Q[s \ {x}] : F[x][h] \in Q[s]
    BY <1>1
  <2> QED
    BY <2>1, FoldStays
<1>3. f = [s \in SUBSET S |->
              IF s = {} THEN g ELSE SwitchOff(f[s \ {Element(s)}], Element(s), refused)]
  <2>1. ASSUME NEW s \in SUBSET S, s # {}
        PROVE  F[Element(s)][f[s \ {Element(s)}]]
                  = SwitchOff(f[s \ {Element(s)}], Element(s), refused)
    BY <1>1, <1>2, <2>1 DEF Element
  <2> QED
    BY <1>2, <2>1 DEF IsFold
<1>4. f0 = [s \in SUBSET S |->
               IF s = {} THEN g ELSE SwitchOff(f0[s \ {Element(s)}], Element(s), refused)]
  BY <1>3
<1>5. SwitchOffAll(g, S, refused) = f0[S]
  BY DEF SwitchOffAll, FoldSet, MapThenFoldSet, Element
<1> HIDE DEF f0
<1>6. ASSUME NEW s \in SUBSET S, s # {},
             f0[s \ {Element(s)}] \in Q[s \ {Element(s)}]
      PROVE  f0[s] \in Q[s]
  <2>1. f0[s] = SwitchOff(f0[s \ {Element(s)}], Element(s), refused)
    BY <1>4, <1>6
  <2>2. Element(s) \in s
    BY <1>6 DEF Element
  <2> QED
    BY <1>6, <2>1, <2>2
<1>7. f0[{}] \in Q[{}] /\ S \in SUBSET S
  BY <1>4
<1> QED
  BY <1>5, <1>6, <1>7, FoldKeeps

ApplyAll(g, S, enable, refused) ==
    FoldSet(LAMBDA o, h : ApplyQueuedChanges(h, o, o \in enable, refused), g, S)

\* ... and for the queued changes.
LEMMA ApplyQueuedFolds ==
    ASSUME NEW S, IsFiniteSet(S), NEW g, NEW Q, NEW enable, NEW refused, g \in Q[{}],
           \A s \in SUBSET S : \A x \in s : \A h \in Q[s \ {x}] :
              ApplyQueuedChanges(h, x, x \in enable, refused) \in Q[s]
    PROVE  ApplyAll(g, S, enable, refused) \in Q[S]
<1> DEFINE D == UNION {Q[s] : s \in SUBSET S}
           F == [x \in S |-> [h \in D |-> ApplyQueuedChanges(h, x, x \in enable, refused)]]
           f0 == CHOOSE f : f = [s \in SUBSET S |->
                    IF s = {} THEN g
                    ELSE ApplyQueuedChanges(f[s \ {Element(s)}], Element(s),
                                            Element(s) \in enable, refused)]
<1>1. ASSUME NEW s \in SUBSET S, NEW x \in s, NEW h \in Q[s \ {x}]
      PROVE  F[x][h] = ApplyQueuedChanges(h, x, x \in enable, refused)
  <2>1. x \in S /\ h \in D
    OBVIOUS
  <2> QED
    BY <2>1
<1> HIDE DEF F
<1>2. PICK f : IsFold(f, SUBSET S, g, F) /\ \A s \in SUBSET S : f[s] \in Q[s]
  <2>1. \A s \in SUBSET S : \A x \in s : \A h \in Q[s \ {x}] : F[x][h] \in Q[s]
    BY <1>1
  <2> QED
    BY <2>1, FoldStays
<1>3. f = [s \in SUBSET S |->
              IF s = {} THEN g
              ELSE ApplyQueuedChanges(f[s \ {Element(s)}], Element(s),
                                      Element(s) \in enable, refused)]
  <2>1. ASSUME NEW s \in SUBSET S, s # {}
        PROVE  F[Element(s)][f[s \ {Element(s)}]]
                  = ApplyQueuedChanges(f[s \ {Element(s)}], Element(s),
                                       Element(s) \in enable, refused)
    BY <1>1, <1>2, <2>1 DEF Element
  <2> QED
    BY <1>2, <2>1 DEF IsFold
<1>4. f0 = [s \in SUBSET S |->
               IF s = {} THEN g
               ELSE ApplyQueuedChanges(f0[s \ {Element(s)}], Element(s),
                                       Element(s) \in enable, refused)]
  BY <1>3
<1>5. ApplyAll(g, S, enable, refused) = f0[S]
  BY DEF ApplyAll, FoldSet, MapThenFoldSet, Element
<1> HIDE DEF f0
<1>6. ASSUME NEW s \in SUBSET S, s # {},
             f0[s \ {Element(s)}] \in Q[s \ {Element(s)}]
      PROVE  f0[s] \in Q[s]
  <2>1. f0[s] = ApplyQueuedChanges(f0[s \ {Element(s)}], Element(s),
                                   Element(s) \in enable, refused)
    BY <1>4, <1>6
  <2>2. Element(s) \in s
    BY <1>6 DEF Element
  <2> QED
    BY <1>6, <2>1, <2>2
<1>7. f0[{}] \in Q[{}] /\ S \in SUBSET S
  BY <1>4
<1> QED
  BY <1>5, <1>6, <1>7, FoldKeeps

-----------------------------------------------------------------------------
(* Frames and mode sets.                                                    *)

LEMMA CardFields ==
    ASSUME NEW g \in Card
    PROVE  /\ g.exists \in SUBSET Outputs /\ g.enabled \in SUBSET Outputs
           /\ g.on \in SUBSET Outputs /\ g.turnOff \in SUBSET Outputs
           /\ g.loops \in [Outputs -> Loop]
           /\ g.pending \in [Outputs -> PipelineState]
           /\ g.next \in [Outputs -> PipelineState]
           /\ g.flip \in SUBSET Outputs /\ g.waiting \in SUBSET Outputs
           /\ g.kernel \in [Outputs -> Modes \cup {Dark}]
           /\ g.active \in BOOLEAN /\ g.filter \in BOOLEAN /\ g.update \in BOOLEAN
BY DEF Card

\* The counts of the loops are numbers, and the session is active or not.
LEMMA LoopNumbers ==
    ASSUME NEW g \in Card, NEW o \in Outputs
    PROVE  /\ g.loops[o] \in Loop
           /\ g.loops[o].pendingFrameCount \in Int
           /\ g.loops[o].inhibitCount \in Nat
BY CardFields DEF Loop

\* Which outputs there are, and what they ask for, is the same.
SameOutputs(g, t) ==
    /\ t.exists = g.exists /\ t.enabled = g.enabled /\ t.on = g.on
    /\ t.active = g.active /\ t.turnOff = g.turnOff
    /\ t.pending = g.pending /\ t.next = g.next

\* The loops become those of f, by themselves or with a frame that is begun or given
\* back: the outputs in "begun" had begun one, those in "later" have.
LoopsChange(g, f, begun, later) ==
    /\ f \in [Outputs -> Loop]
    /\ \A o \in Outputs :
          /\ f[o].inhibitCount = g.loops[o].inhibitCount
          /\ f[o].timer => g.loops[o].timer \/ g.loops[o].inhibitCount = 0
          /\ f[o].pendingFrameCount = g.loops[o].pendingFrameCount
                                         + Count(o \in later) - Count(o \in begun)
          /\ Steady => /\ f[o].timer => f[o].pendingFrameCount = 0
                       /\ Debt(g, later, o) <= 1

WithLoops(g, f) == [g EXCEPT !.loops = f]

LEMMA LoopsFine ==
    ASSUME NEW g, NEW todo, NEW begun, NEW later, Fine(g, todo, begun),
           NEW f, LoopsChange(g, f, begun, later), NEW t, t = WithLoops(g, f)
    PROVE  /\ Fine(t, todo, later)
           /\ SameOutputs(g, t) /\ t.loops = f /\ t.flip = g.flip
           /\ t.waiting = g.waiting /\ t.kernel = g.kernel
<1> USE DEF LoopsChange
<1>1. /\ t \in Card /\ SameOutputs(g, t) /\ t.loops = f /\ t.flip = g.flip
      /\ t.waiting = g.waiting /\ t.kernel = g.kernel
  BY DEF Fine, Card, SameOutputs, WithLoops
<1>2. g \in Card
  BY DEF Fine
<1>3. PausesFine(t)
  BY <1>1 DEF Fine, PausesFine, Pauses, SameOutputs
<1>4. OffFine(t) /\ FlipsFine(t) /\ LitFine(t, todo)
  BY <1>1 DEF Fine, OffFine, FlipsFine, LitFine, SameOutputs, Composited
<1>5. ASSUME Staying PROVE OwedFine(t, later)
  BY <1>1, <1>2, <1>5, LoopNumbers DEF Fine, OwedFine, Debt, Count, SameOutputs
<1>6. ASSUME Steady PROVE AnsweredFine(t, later)
  <2>1. AnsweredFine(g, begun)
    BY <1>6 DEF Fine
  <2>2. ASSUME NEW o \in Outputs PROVE f[o].pendingFrameCount <= Debt(t, later, o)
    <3>1. g.loops[o].pendingFrameCount <= Debt(g, begun, o)
      BY <2>1 DEF AnsweredFine
    <3> QED
      BY <1>1, <1>2, <3>1, LoopNumbers DEF Debt, Count
  <2>3. ASSUME NEW o \in Outputs PROVE Debt(t, later, o) = Debt(g, later, o)
    BY <1>1 DEF Debt
  <2> QED
    BY <1>1, <1>6, <2>1, <2>2, <2>3 DEF AnsweredFine, SameOutputs
<1> QED
  BY <1>1, <1>3, <1>4, <1>5, <1>6 DEF Fine

\* The loops of the outputs in S have a frame taken off.
DoneOn(g, S) ==
    [o \in Outputs |-> IF o \in S THEN FrameDone(g.loops[o]) ELSE g.loops[o]]

LEMMA DoneOnLoops ==
    ASSUME NEW g \in Card, NEW S
    PROVE  /\ DoneOn(g, S) \in [Outputs -> Loop]
           /\ \A o \in Outputs :
                 LET l == DoneOn(g, S)[o]
                 IN  /\ l.inhibitCount = g.loops[o].inhibitCount
                     /\ l.timer => g.loops[o].timer \/ g.loops[o].inhibitCount = 0
                     /\ l.pendingFrameCount
                          = g.loops[o].pendingFrameCount - Count(o \in S)
                     /\ o \notin S => l = g.loops[o]
<1>1. \A o \in Outputs :
         /\ g.loops[o] \in Loop
         /\ g.loops[o].pendingFrameCount \in Int
         /\ Leaves(FrameDone(g.loops[o]), g.loops[o].pendingFrameCount - 1,
                   g.loops[o].inhibitCount,
                   g.loops[o].timer \/ g.loops[o].inhibitCount = 0)
  BY LoopNumbers, FrameDoneLeaves
<1> QED
  BY <1>1 DEF DoneOn, Leaves, Count

\* What a page flip event is awaited for, or a frame that waits, is answered; the
\* card may show something else from then on.
LEMMA AnswersFine ==
    ASSUME NEW g, NEW todo, NEW begun, Fine(g, todo, begun), NEW S \in SUBSET Outputs,
           NEW t \in Card, SameOutputs(g, t), t.loops = DoneOn(g, S),
           t.flip \subseteq g.flip, t.waiting \subseteq g.waiting,
           t.flip = {} \/ t.kernel = g.kernel,
           \A o \in g.exists \ g.on : Dimmed(o, t.kernel[o]),
           Staying => \A o \in S : \/ o \in g.flip \ t.flip
                                   \/ o \in g.waiting \ t.waiting,
           Steady => (g.flip \ t.flip) \cup (g.waiting \ t.waiting) \subseteq S
    PROVE  Fine(t, todo, begun)
<1>1. g \in Card
  BY DEF Fine
<1>2. PausesFine(t)
  BY <1>1, DoneOnLoops DEF Fine, PausesFine, Pauses, SameOutputs
<1>3. OffFine(t) /\ FlipsFine(t) /\ LitFine(t, todo)
  BY DEF Fine, OffFine, FlipsFine, LitFine, SameOutputs, Composited
<1>4. ASSUME NEW o \in Outputs, Staying
      PROVE  Count(o \in S) <= Debt(g, begun, o) - Debt(t, begun, o)
  BY <1>4 DEF Debt, Count
<1>5. ASSUME Staying PROVE OwedFine(t, begun)
  <2>1. OwedFine(g, begun)
    BY <1>5 DEF Fine
  <2>2. ASSUME NEW o \in Outputs
        PROVE  t.loops[o].pendingFrameCount >= Debt(t, begun, o)
    <3>1. /\ g.loops[o].pendingFrameCount >= Debt(g, begun, o)
          /\ g.loops[o].pendingFrameCount \in Int
      BY <1>1, <2>1, LoopNumbers DEF OwedFine
    <3>2. t.loops[o].pendingFrameCount
             = g.loops[o].pendingFrameCount - Count(o \in S)
      BY <1>1, DoneOnLoops
    <3> QED
      BY <1>4, <1>5, <3>1, <3>2 DEF Debt, Count
  <2> QED
    BY <2>1, <2>2 DEF OwedFine, SameOutputs
<1>6. ASSUME Steady PROVE AnsweredFine(t, begun)
  <2>1. AnsweredFine(g, begun) /\ Staying /\ OwedFine(g, begun)
    BY <1>6 DEF Fine, Steady, Staying
  <2>2. ASSUME NEW o \in Outputs
        PROVE  /\ t.loops[o].pendingFrameCount <= Debt(t, begun, o)
               /\ t.loops[o].timer => t.loops[o].pendingFrameCount = 0
               /\ Debt(t, begun, o) <= 1
    <3>1. /\ g.loops[o].pendingFrameCount = Debt(g, begun, o)
          /\ g.loops[o].timer => g.loops[o].pendingFrameCount = 0
          /\ g.loops[o].pendingFrameCount \in Int
          /\ Debt(g, begun, o) \in 0..1 /\ Debt(t, begun, o) \in Nat
      <4>1. g.loops[o].pendingFrameCount \in Int
        BY <1>1, LoopNumbers
      <4>2. g.loops[o].pendingFrameCount >= Debt(g, begun, o)
        BY <2>1 DEF OwedFine
      <4>3. /\ g.loops[o].pendingFrameCount <= Debt(g, begun, o)
            /\ g.loops[o].timer => g.loops[o].pendingFrameCount = 0
            /\ Debt(g, begun, o) <= 1
        BY <2>1 DEF AnsweredFine
      <4>4. Debt(g, begun, o) \in Nat /\ Debt(t, begun, o) \in Nat
        BY DEF Debt, Count
      <4> QED
        BY <4>1, <4>2, <4>3, <4>4
    <3>2. /\ t.loops[o].pendingFrameCount
                = g.loops[o].pendingFrameCount - Count(o \in S)
          /\ o \notin S => t.loops[o] = g.loops[o]
      BY <1>1, DoneOnLoops
    <3>3. Debt(t, begun, o) >= Debt(g, begun, o) - Count(o \in S)
      BY <1>6, <3>1 DEF Debt, Count
    <3>4. Debt(t, begun, o) <= Debt(g, begun, o) - Count(o \in S)
      BY <1>4, <2>1, <3>1 DEF Debt, Count
    <3>5. Count(o \in S) \in 0..1 /\ (o \in S <=> Count(o \in S) = 1)
      BY DEF Count
    <3> QED
      BY <3>1, <3>2, <3>3, <3>4, <3>5
  <2> QED
    BY <2>1, <2>2 DEF AnsweredFine, SameOutputs
<1> QED
  BY <1>2, <1>3, <1>5, <1>6 DEF Fine

\* Everything but the pipelines is the same.
SameButPipelines(g, t) ==
    /\ t.exists = g.exists /\ t.enabled = g.enabled /\ t.on = g.on
    /\ t.active = g.active /\ t.turnOff = g.turnOff
    /\ t.loops = g.loops /\ t.flip = g.flip /\ t.waiting = g.waiting
    /\ t.kernel = g.kernel

\* Two states of a pipeline that differ in the mode or the need for a mode set.
Alike(c, d) == c.active = d.active /\ c.crtc = d.crtc /\ c.enabled = d.enabled

\* Two states of a pipeline that show the same and need a mode set both or none.
Asks(c, d) == Shown(c) = Shown(d) /\ c.needsModeset = d.needsModeset

\* Each pipeline is as before, is applied or goes back to what was applied before.
LEMMA PipelinesWait ==
    ASSUME NEW g, NEW todo, NEW later, Waits(g, todo), NEW t,
           t.exists = g.exists, t.waiting = g.waiting, t.kernel = g.kernel,
           \A o \in g.exists :
              \/ Asks(t.pending[o], g.pending[o]) /\ Asks(t.next[o], g.pending[o])
              \/ /\ o \notin todo
                 /\ Asks(t.pending[o], g.next[o]) /\ Asks(t.next[o], g.next[o])
              \/ /\ o \in later \/ o \notin todo
                 /\ Asks(t.pending[o], g.pending[o]) /\ Asks(t.next[o], g.next[o])
    PROVE  Waits(t, later)
<1>1. Settled(g, todo) /\ Due(g) /\ g.exists \in {{}, Outputs}
  BY DEF Waits
<1>2. Settled(t, later)
  BY <1>1 DEF Settled, Asks
<1>3. \A o \in g.exists : /\ Shown(t.pending[o]) = Shown(g.pending[o])
                          /\ g.pending[o].needsModeset => t.pending[o].needsModeset
  BY <1>1 DEF Settled, Asks
<1>4. Due(t)
  BY <1>1, <1>3 DEF Due, NeedsModeset
<1> QED
  BY <1>1, <1>2, <1>4 DEF Waits

\* What the pipelines ask for, what is shown and which frames wait is the same.
SameAsks(g, t) ==
    /\ t.exists = g.exists /\ t.waiting = g.waiting /\ t.kernel = g.kernel
    /\ t.pending = g.pending /\ t.next = g.next

LEMMA SameAsksWait ==
    ASSUME NEW g, NEW todo, Waits(g, todo), NEW t, SameAsks(g, t)
    PROVE  Waits(t, todo)
BY DEF SameAsks, Waits, Settled, Due, NeedsModeset

\* Pipelines ask for what they asked for before, or go back to.
LEMMA PipelinesFine ==
    ASSUME NEW g, NEW todo, NEW begun, Fine(g, todo, begun), NEW t \in Card,
           SameButPipelines(g, t),
           \A o \in Outputs :
              /\ Alike(t.pending[o], g.pending[o]) \/ Alike(t.pending[o], g.next[o])
              /\ Alike(t.next[o], g.pending[o]) \/ Alike(t.next[o], g.next[o])
              /\ o \notin g.exists => Alike(t.pending[o], g.pending[o])
    PROVE  Fine(t, todo, begun)
<1>1. PausesFine(t) /\ FlipsFine(t)
  BY DEF Fine, PausesFine, Pauses, FlipsFine, SameButPipelines
<1>2. OffFine(t)
  BY CardFields DEF Fine, OffFine, SameButPipelines, Alike
<1>3. LitFine(t, todo)
  BY CardFields DEF Fine, LitFine, SameButPipelines, Alike, Lights, Composited
<1>4. ASSUME Staying PROVE OwedFine(t, begun)
  BY <1>4 DEF Fine, OwedFine, Debt, SameButPipelines
<1>5. ASSUME Steady PROVE AnsweredFine(t, begun)
  <2>1. AnsweredFine(g, begun)
    BY <1>5 DEF Fine
  <2>2. ASSUME NEW o \in Outputs PROVE Debt(t, begun, o) = Debt(g, begun, o)
    BY DEF Debt, SameButPipelines
  <2>3. ASSUME NEW o \in Outputs
        PROVE  /\ o \in t.enabled \/ o \notin t.exists => t.pending[o].enabled
               /\ o \in t.enabled => t.next[o].enabled
               /\ o \in t.waiting => /\ o \in t.enabled
                                     /\ Lights(t.pending[o])
                                     /\ Lights(t.next[o])
    BY <2>1 DEF AnsweredFine, SameButPipelines, Alike, Lights
  <2> QED
    BY <2>1, <2>2, <2>3 DEF AnsweredFine, SameButPipelines
<1> QED
  BY <1>1, <1>2, <1>3, <1>4, <1>5 DEF Fine

LEMMA ApplyPendingFields ==
    ASSUME NEW g \in Card, NEW S
    PROVE  /\ ApplyPending(g, S) \in Card
           /\ SameButPipelines(g, ApplyPending(g, S))
           /\ ApplyPending(g, S).pending = g.pending
           /\ \A o \in Outputs : ApplyPending(g, S).next[o]
                                   = IF o \in S THEN g.pending[o] ELSE g.next[o]
BY DEF ApplyPending, SameButPipelines, Card

LEMMA RevertPendingFields ==
    ASSUME NEW g \in Card, NEW S
    PROVE  /\ RevertPending(g, S) \in Card
           /\ SameButPipelines(g, RevertPending(g, S))
           /\ RevertPending(g, S).next = g.next
           /\ \A o \in Outputs : RevertPending(g, S).pending[o]
                                   = IF o \in S THEN g.next[o] ELSE g.pending[o]
BY DEF RevertPending, SameButPipelines, Card

LEMMA SetNeedsModesetFields ==
    ASSUME NEW g \in Card, NEW S, NEW needed \in BOOLEAN
    PROVE  /\ SetNeedsModeset(g, S, needed) \in Card
           /\ SameButPipelines(g, SetNeedsModeset(g, S, needed))
           /\ SetNeedsModeset(g, S, needed).next = g.next
           /\ \A o \in Outputs :
                 /\ Alike(SetNeedsModeset(g, S, needed).pending[o], g.pending[o])
                 /\ SetNeedsModeset(g, S, needed).pending[o].mode = g.pending[o].mode
<1> DEFINE f == [o \in Outputs |->
                    IF o \in S THEN [g.pending[o] EXCEPT !.needsModeset = needed]
                               ELSE g.pending[o]]
           t == SetNeedsModeset(g, S, needed)
<1>1. t = [g EXCEPT !.pending = f]
  BY DEF SetNeedsModeset
<1>2. \A o \in Outputs : /\ f[o] \in PipelineState
                         /\ Alike(f[o], g.pending[o])
                         /\ f[o].mode = g.pending[o].mode
  BY CardFields DEF PipelineState, Alike
<1>3. f \in [Outputs -> PipelineState]
  BY <1>2
<1> HIDE DEF f, t
<1>4. t \in Card /\ SameButPipelines(g, t) /\ t.next = g.next /\ t.pending = f
  BY <1>1, <1>3 DEF Card, SameButPipelines
<1> QED
  BY <1>2, <1>4 DEF t

LEMMA SetNeedsModesetFlag ==
    ASSUME NEW g \in Card, NEW S, NEW needed \in BOOLEAN, NEW o \in S, o \in Outputs
    PROVE  SetNeedsModeset(g, S, needed).pending[o].needsModeset = needed
<1> DEFINE f == [p \in Outputs |->
                    IF p \in S THEN [g.pending[p] EXCEPT !.needsModeset = needed]
                               ELSE g.pending[p]]
           t == SetNeedsModeset(g, S, needed)
<1>1. t = [g EXCEPT !.pending = f]
  BY DEF SetNeedsModeset
<1>2. f[o] = [g.pending[o] EXCEPT !.needsModeset = needed] /\ g.pending[o] \in PipelineState
  BY CardFields
<1> HIDE DEF f, t
<1>3. t.pending = f
  BY <1>1 DEF Card
<1>4. f[o].needsModeset = needed
  BY <1>2 DEF PipelineState
<1> QED
  BY <1>3, <1>4 DEF t

LEMMA ApplyPendingFine ==
    ASSUME NEW g, NEW todo, NEW begun, Fine(g, todo, begun), NEW S
    PROVE  Fine(ApplyPending(g, S), todo, begun)
<1> DEFINE t == ApplyPending(g, S)
<1>1. /\ t \in Card /\ SameButPipelines(g, t) /\ t.pending = g.pending
      /\ \A o \in Outputs : t.next[o] = IF o \in S THEN g.pending[o] ELSE g.next[o]
  BY ApplyPendingFields DEF Fine
<1> HIDE DEF t
<1>2. Fine(t, todo, begun)
  BY <1>1, PipelinesFine DEF Alike
<1> QED
  BY <1>2 DEF t

LEMMA RevertPendingFine ==
    ASSUME NEW g, NEW todo, NEW begun, Fine(g, todo, begun), NEW S, S \subseteq g.exists
    PROVE  Fine(RevertPending(g, S), todo, begun)
<1> DEFINE t == RevertPending(g, S)
<1>1. /\ t \in Card /\ SameButPipelines(g, t) /\ t.next = g.next
      /\ \A o \in Outputs :
            t.pending[o] = IF o \in S THEN g.next[o] ELSE g.pending[o]
  BY RevertPendingFields DEF Fine
<1> HIDE DEF t
<1>2. Fine(t, todo, begun)
  BY <1>1, PipelinesFine DEF Alike
<1> QED
  BY <1>2 DEF t

LEMMA SetNeedsModesetFine ==
    ASSUME NEW g, NEW todo, NEW begun, Fine(g, todo, begun), NEW S,
           NEW needed, needed \in BOOLEAN
    PROVE  Fine(SetNeedsModeset(g, S, needed), todo, begun)
BY SetNeedsModesetFields, PipelinesFine DEF Fine, Alike

\* No page flip is awaited that was not before, and none across a mode set.
FlipsKept(g, t) == t.flip \subseteq g.flip /\ (t.kernel = g.kernel \/ t.flip = {})

LEMMA WaitIdleFine ==
    ASSUME NEW g, NEW todo, NEW begun, Fine(g, todo, begun)
    PROVE  /\ Fine(WaitIdle(g), todo, begun)
           /\ SameOutputs(g, WaitIdle(g)) /\ WaitIdle(g).flip = {}
           /\ WaitIdle(g).waiting = g.waiting /\ WaitIdle(g).kernel = g.kernel
<1> DEFINE t == WaitIdle(g)
           f == DoneOn(g, g.flip)
<1>1. g \in Card /\ f \in [Outputs -> Loop]
  BY DoneOnLoops DEF Fine
<1>2. t = [[g EXCEPT !.loops = f] EXCEPT !.flip = {}]
  BY DEF WaitIdle, FramesDone, OnLoops, DoneOn
<1> HIDE DEF t, f
<1>3. /\ t \in Card /\ SameOutputs(g, t) /\ t.loops = f /\ t.flip = {}
      /\ t.waiting = g.waiting /\ t.kernel = g.kernel
  BY <1>1, <1>2 DEF Card, SameOutputs
<1>4. Fine(t, todo, begun)
  BY <1>1, <1>3, AnswersFine, CardFields DEF Fine, OffFine, f
<1> QED
  BY <1>3, <1>4 DEF t

LEMMA ModesetFailedFine ==
    ASSUME NEW g, NEW todo, Fine(g, todo, {})
    PROVE  /\ Fine(ModesetFailed(g), todo, {})
           /\ SameOutputs(g, ModesetFailed(g)) /\ ModesetFailed(g).flip = g.flip
           /\ ModesetFailed(g).kernel = g.kernel
           /\ ModesetFailed(g).waiting = g.waiting \ g.exists
<1> DEFINE t == ModesetFailed(g)
           S == g.waiting \cap g.exists
           f == DoneOn(g, S)
<1>1. /\ g \in Card /\ f \in [Outputs -> Loop] /\ S \in SUBSET Outputs
      /\ g.waiting \ g.exists \in SUBSET Outputs
  BY DoneOnLoops, CardFields DEF Fine
<1>2. t = [[g EXCEPT !.loops = f] EXCEPT !.waiting = g.waiting \ g.exists, !.update = TRUE]
  BY <1>1 DEF ModesetFailed, FramesDone, OnLoops, DoneOn, Fine, Card
<1> HIDE DEF t, f, S
<1>3. /\ t \in Card /\ SameOutputs(g, t) /\ t.loops = f /\ t.flip = g.flip
      /\ t.waiting = g.waiting \ g.exists /\ t.kernel = g.kernel
  BY <1>1, <1>2 DEF Card, SameOutputs
<1>4. Fine(t, todo, {})
  <2>1. Steady => g.waiting \subseteq g.exists
    BY DEF Fine, OwedFine, Steady, Staying
  <2>2. /\ S \in SUBSET Outputs /\ t.loops = DoneOn(g, S)
        /\ t.flip \subseteq g.flip /\ t.waiting \subseteq g.waiting
        /\ \A o \in S : o \in g.waiting \ t.waiting
    BY <1>1, <1>3 DEF f, S
  <2>3. \A o \in g.exists \ g.on : Dimmed(o, t.kernel[o])
    BY <1>3 DEF Fine, OffFine
  <2>4. Steady => (g.flip \ t.flip) \cup (g.waiting \ t.waiting) \subseteq S
    BY <1>3, <2>1 DEF S
  <2> QED
    BY <1>3, <2>2, <2>3, <2>4, AnswersFine
<1> QED
  BY <1>3, <1>4 DEF t

\* The mode set finds a frame waiting on every output it lights; as long as all
\* outputs stay lit it lights every output that has a frame waiting.
LEMMA ModesetDoneFine ==
    ASSUME NEW g, NEW todo, Fine(g, todo, {}), g.flip = {}, ReadyForModeset(g)
    PROVE  /\ Fine(ModesetDone(g), todo, {})
           /\ ModesetDone(g).exists = g.exists /\ ModesetDone(g).enabled = g.enabled
           /\ ModesetDone(g).on = g.on /\ ModesetDone(g).active = g.active
           /\ ModesetDone(g).flip = {}
           /\ ModesetDone(g).waiting = g.waiting \ g.exists
           /\ ModesetDone(g).next = g.next
           /\ \A o \in g.exists :
                 /\ Shown(ModesetDone(g).pending[o]) = Shown(g.pending[o])
                 /\ ~ModesetDone(g).pending[o].needsModeset
<1> DEFINE h == SetNeedsModeset(g, g.exists, FALSE)
           lit == {o \in g.exists : Shown(g.pending[o]) # Dark}
           f == DoneOn(h, lit)
           k == [o \in Outputs |-> Target(g, o)]
           t == ModesetDone(g)
<1>1. /\ h \in Card /\ SameButPipelines(g, h)
      /\ \A o \in Outputs : /\ Alike(h.pending[o], g.pending[o])
                            /\ h.pending[o].mode = g.pending[o].mode
      /\ h.next = g.next /\ Fine(h, todo, {})
  BY SetNeedsModesetFields, SetNeedsModesetFine DEF Fine
<1>2. /\ g \in Card /\ f \in [Outputs -> Loop] /\ lit \in SUBSET Outputs
      /\ g.waiting \ g.exists \in SUBSET Outputs
      /\ k \in [Outputs -> Modes \cup {Dark}]
  <2>1. g \in Card
    BY DEF Fine
  <2>2. f \in [Outputs -> Loop]
    BY <1>1, DoneOnLoops
  <2>3. \A o \in Outputs : Target(g, o) \in Modes \cup {Dark}
    BY <2>1, CardFields DEF Target, Shown, PipelineState
  <2> QED
    BY <2>1, <2>2, <2>3, CardFields
<1>3. t = [[h EXCEPT !.loops = f] EXCEPT !.waiting = g.waiting \ g.exists, !.kernel = k]
  BY <1>1, <1>2 DEF ModesetDone, FramesDone, OnLoops, DoneOn, Card, SameButPipelines
<1>4. \A o \in g.exists \ g.on : Dimmed(o, k[o])
  <2>1. \A o \in g.exists \ g.on : k[o] = Dark
    BY <1>2, CardFields DEF Fine, OffFine, Target, Shown
  <2> HIDE DEF k
  <2> QED
    BY <2>1, DarkIsDimmed
<1>5. lit \subseteq g.waiting \cap g.exists
  BY DEF ReadyForModeset
<1>6. Steady => g.waiting \subseteq lit
  <2>1. ASSUME Steady, NEW o \in g.waiting PROVE o \in lit
    <3>1. o \in g.exists /\ o \in Outputs
      BY <1>2, <2>1, CardFields DEF Fine, OwedFine, Steady, Staying
    <3>2. g.pending[o].active /\ g.pending[o].crtc /\ g.pending[o].mode \in Modes
      BY <1>2, <2>1, <3>1, CardFields DEF Fine, AnsweredFine, Lights, PipelineState
    <3> QED
      BY <3>1, <3>2, ModesAssumption DEF Shown
  <2> QED
    BY <2>1
<1> HIDE DEF t, f, h, k, lit
<1>7. /\ t \in Card /\ SameOutputs(h, t) /\ t.loops = f /\ t.flip = h.flip
      /\ t.waiting = g.waiting \ g.exists /\ t.kernel = k
  BY <1>1, <1>2, <1>3 DEF Card, SameOutputs
<1>8. Fine(t, todo, {})
  <2>1. h.flip = {} /\ h.exists = g.exists /\ h.on = g.on /\ h.waiting = g.waiting
    BY <1>1 DEF SameButPipelines
  <2> QED
    BY <1>1, <1>2, <1>4, <1>5, <1>6, <1>7, <2>1, AnswersFine DEF f
<1>9. /\ t.next = g.next
      /\ \A o \in g.exists : /\ Shown(t.pending[o]) = Shown(g.pending[o])
                             /\ ~t.pending[o].needsModeset
  <2>1. \A o \in g.exists : h.pending[o].needsModeset = FALSE
    BY <1>2, CardFields, SetNeedsModesetFlag DEF h
  <2> QED
    BY <1>1, <1>2, <1>7, <2>1, CardFields DEF SameOutputs, Alike, Shown
<1> QED
  BY <1>1, <1>7, <1>8, <1>9 DEF t, SameButPipelines, SameOutputs

LEMMA CommitErrorNone ==
    ASSUME NEW g, NEW refused, CommitError(g, refused) = "None"
    PROVE  g.active /\ ~refused
<1>1. "NoPermission" # "None" /\ "InvalidArguments" # "None"
  OBVIOUS
<1> QED
  BY <1>1 DEF CommitError

\* The same outputs exist, are enabled and are on.
SameSet(g, t) ==
    t.exists = g.exists /\ t.enabled = g.enabled /\ t.on = g.on /\ t.active = g.active

LEMMA MaybeModesetFine ==
    ASSUME NEW g, NEW todo, Fine(g, todo, {}), NEW refused
    PROVE  /\ Fine(MaybeModeset(g, refused), todo, {})
           /\ SameSet(g, MaybeModeset(g, refused))
           /\ FlipsKept(g, MaybeModeset(g, refused))
           /\ Steady /\ Waits(g, todo) => Waits(MaybeModeset(g, refused), todo)
<1> DEFINE h == WaitIdle(g)
           t == MaybeModeset(g, refused)
<1>1. /\ Fine(h, todo, {}) /\ SameOutputs(g, h) /\ h.flip = {}
      /\ h.waiting = g.waiting /\ h.kernel = g.kernel
  BY WaitIdleFine
<1>2. \/ ~ReadyForModeset(g) /\ t = g
      \/ ReadyForModeset(g) /\ t = ModesetDone(h)
      \/ t = ModesetFailed(h)
  BY DEF MaybeModeset
<1> HIDE DEF h, t
<1>a. ASSUME Steady, Waits(g, todo), t.exists = h.exists, t.waiting = h.waiting \ h.exists,
             t.next = h.next,
             \A o \in h.exists : /\ Shown(t.pending[o]) = Shown(h.pending[o])
                                 /\ t.pending[o].needsModeset => h.pending[o].needsModeset
      PROVE  Waits(t, todo)
  <2>1. h.waiting \subseteq h.exists
    BY <1>1, <1>a DEF Fine, OwedFine, Steady, Staying
  <2>2. Due(t)
    BY <1>a, <2>1 DEF Due
  <2>3. Settled(h, todo) /\ h.exists \in {{}, Outputs}
    BY <1>1, <1>a DEF Waits, Settled, SameOutputs
  <2>4. Settled(t, todo)
    BY <1>a, <2>3 DEF Settled
  <2> QED
    BY <1>a, <2>2, <2>3, <2>4 DEF Waits
<1>3. CASE t = g
  BY <1>3 DEF SameSet, FlipsKept, t
<1>4. CASE ReadyForModeset(g) /\ t = ModesetDone(h)
  <2>1. ReadyForModeset(h)
    BY <1>1, <1>4 DEF ReadyForModeset, SameOutputs
  <2>2. /\ Fine(t, todo, {}) /\ t.flip = {}
        /\ t.exists = h.exists /\ t.enabled = h.enabled /\ t.on = h.on
        /\ t.active = h.active
        /\ t.waiting = h.waiting \ h.exists /\ t.next = h.next
        /\ \A o \in h.exists : /\ Shown(t.pending[o]) = Shown(h.pending[o])
                               /\ ~t.pending[o].needsModeset
    BY <1>1, <1>4, <2>1, ModesetDoneFine
  <2>3. SameSet(g, t) /\ FlipsKept(g, t)
    BY <1>1, <2>2 DEF SameSet, SameOutputs, FlipsKept
  <2>4. Steady /\ Waits(g, todo) => Waits(t, todo)
    BY <1>a, <2>2
  <2> QED
    BY <2>2, <2>3, <2>4 DEF t
<1>5. CASE t = ModesetFailed(h)
  <2>1. /\ Fine(t, todo, {}) /\ SameOutputs(h, t) /\ t.flip = h.flip
        /\ t.waiting = h.waiting \ h.exists
    BY <1>1, <1>5, ModesetFailedFine
  <2>2. SameSet(g, t) /\ FlipsKept(g, t)
    BY <1>1, <2>1 DEF SameSet, SameOutputs, FlipsKept
  <2>3. Steady /\ Waits(g, todo) => Waits(t, todo)
    BY <1>a, <2>1 DEF SameOutputs
  <2> QED
    BY <2>1, <2>2, <2>3 DEF t
<1> QED
  BY <1>2, <1>3, <1>4, <1>5

\* The input filter, and whether updateOutputs() is due, are nobody else's matter.
LEMMA FlagsFine ==
    ASSUME NEW g, NEW todo, NEW begun, Fine(g, todo, begun), NEW t \in Card,
           SameSet(g, t), t.pending = g.pending, t.next = g.next,
           t.loops = g.loops, t.flip = g.flip, t.waiting = g.waiting,
           t.kernel = g.kernel, Steady => t.turnOff = {}
    PROVE  Fine(t, todo, begun)
<1>1. \A o : Debt(t, begun, o) = Debt(g, begun, o)
  BY DEF Debt
<1>2. PausesFine(t) /\ OffFine(t) /\ FlipsFine(t) /\ LitFine(t, todo)
  BY DEF Fine, PausesFine, Pauses, OffFine, FlipsFine, LitFine, Composited, SameSet
<1>3. Staying => OwedFine(t, begun)
  BY <1>1 DEF Fine, OwedFine, SameSet
<1>4. Steady => AnsweredFine(t, begun)
  BY <1>1 DEF Fine, AnsweredFine, SameSet
<1> QED
  BY <1>2, <1>3, <1>4 DEF Fine

\* An output that is to draw is lit by its pipeline.
LEMMA DrawingIsShown ==
    ASSUME NEW g, NEW begun, Fine(g, {}, begun), NEW o \in Composited(g) \cap g.on
    PROVE  /\ Lights(g.pending[o]) /\ Lights(g.next[o])
           /\ Shown(g.pending[o]) # Dark
<1>1. Lights(g.pending[o]) /\ Lights(g.next[o])
  <2>1. LitFine(g, {}) /\ o \in g.exists \cap g.on /\ o \in Composited(g) \ {}
    BY DEF Fine, Composited
  <2> QED
    BY <2>1 DEF LitFine, Lights
<1>2. g.pending[o].mode \in Modes
  BY CardFields DEF Fine, Composited, PipelineState
<1> QED
  BY <1>1, <1>2, ModesAssumption DEF Shown, Lights

\* The frame joins those that wait for the mode set.
LEMMA WaitingFine ==
    ASSUME NEW g, NEW o \in Composited(g) \cap g.on, Fine(g, {}, {o}),
           NEW t, t = [g EXCEPT !.waiting = @ \cup {o}]
    PROVE  /\ Fine(t, {}, {}) /\ SameSet(g, t) /\ t.flip = g.flip /\ t.kernel = g.kernel
           /\ NeedsModeset(g) /\ Waits(g, {}) => Waits(t, {})
<1>1. g \in Card /\ o \in Outputs /\ o \in g.exists /\ o \in g.enabled
  BY CardFields DEF Fine, Composited
<1>2. /\ t \in Card /\ SameOutputs(g, t) /\ t.loops = g.loops /\ t.flip = g.flip
      /\ t.waiting = g.waiting \cup {o} /\ t.kernel = g.kernel
  BY <1>1 DEF Card, SameOutputs
<1>3. \A p \in Outputs : Debt(t, {}, p) <= Debt(g, {o}, p)
  BY <1>2 DEF Debt, Count
<1>4. \A p \in Outputs : /\ Debt(t, {}, p) \in Nat /\ Debt(g, {o}, p) \in Nat
                         /\ g.loops[p].pendingFrameCount \in Int
  BY <1>1, LoopNumbers DEF Debt, Count
<1>5. PausesFine(t) /\ OffFine(t) /\ FlipsFine(t) /\ LitFine(t, {})
  BY <1>2
  DEF Fine, PausesFine, Pauses, OffFine, FlipsFine, LitFine, Composited, SameOutputs
<1>6. ASSUME Staying PROVE OwedFine(t, {})
  <2>1. OwedFine(g, {o})
    BY <1>6 DEF Fine
  <2> QED
    BY <1>1, <1>2, <1>3, <1>4, <2>1 DEF OwedFine, SameOutputs
<1>7. ASSUME Steady PROVE AnsweredFine(t, {})
  <2>1. AnsweredFine(g, {o})
    BY <1>7 DEF Fine
  <2>2. ASSUME NEW p \in Outputs PROVE Debt(t, {}, p) = Debt(g, {o}, p)
    <3>1. Debt(g, {o}, p) <= 1
      BY <2>1 DEF AnsweredFine
    <3> QED
      BY <1>2, <3>1 DEF Debt, Count
  <2>3. Lights(g.pending[o]) /\ Lights(g.next[o])
    BY DrawingIsShown
  <2> QED
    BY <1>1, <1>2, <2>1, <2>2, <2>3 DEF AnsweredFine, SameOutputs
<1>8. NeedsModeset(g) /\ Waits(g, {}) => Waits(t, {})
  BY <1>2 DEF SameOutputs, NeedsModeset, Waits, Settled, Due
<1> QED
  BY <1>2, <1>5, <1>6, <1>7, <1>8 DEF Fine, SameSet, SameOutputs

\* The kernel takes the frame, of an output that shows what its pipeline asks for.
LEMMA FlippingFine ==
    ASSUME NEW g, NEW o \in Composited(g) \cap g.on, Fine(g, {}, {o}), o \notin g.flip,
           Shown(g.pending[o]) = g.kernel[o], NEW t, t = [g EXCEPT !.flip = @ \cup {o}]
    PROVE  Fine(t, {}, {}) /\ SameAsks(g, t)
<1>1. g \in Card /\ o \in Outputs /\ o \in g.exists /\ o \in g.enabled
  BY CardFields DEF Fine, Composited
<1>2. /\ t \in Card /\ SameOutputs(g, t) /\ t.loops = g.loops
      /\ t.flip = g.flip \cup {o} /\ t.waiting = g.waiting /\ t.kernel = g.kernel
  BY <1>1 DEF Card, SameOutputs
<1>3. \A p \in Outputs : Debt(t, {}, p) = Debt(g, {o}, p)
  BY <1>2 DEF Debt, Count
<1>4. g.kernel[o] # Dark
  BY DrawingIsShown
<1>5. PausesFine(t) /\ OffFine(t) /\ FlipsFine(t) /\ LitFine(t, {})
  BY <1>1, <1>2, <1>4
  DEF Fine, PausesFine, Pauses, OffFine, FlipsFine, LitFine, Composited, SameOutputs
<1>6. Staying => OwedFine(t, {})
  BY <1>2, <1>3 DEF Fine, OwedFine, SameOutputs
<1>7. Steady => AnsweredFine(t, {})
  BY <1>2, <1>3 DEF Fine, AnsweredFine, SameOutputs
<1>8. SameAsks(g, t)
  BY <1>2 DEF SameAsks, SameOutputs
<1> QED
  BY <1>2, <1>5, <1>6, <1>7, <1>8 DEF Fine

\* The frame is refused and given back to the loop.
LEMMA RefusedFine ==
    ASSUME NEW g, NEW o \in Outputs, Fine(g, {}, {o}), NEW t,
           NEW due \in BOOLEAN,
           t = [[g EXCEPT !.loops = DoneOn(g, {o})] EXCEPT !.update = due]
    PROVE  Fine(t, {}, {}) /\ SameAsks(g, t)
<1> DEFINE f == DoneOn(g, {o})
           h == WithLoops(g, f)
<1>1. g \in Card
  BY DEF Fine
<1>2. f \in [Outputs -> Loop]
  BY <1>1, DoneOnLoops
<1>3. \A p \in Outputs :
         /\ f[p].inhibitCount = g.loops[p].inhibitCount
         /\ f[p].timer => g.loops[p].timer \/ g.loops[p].inhibitCount = 0
         /\ f[p].pendingFrameCount
              = g.loops[p].pendingFrameCount + Count(p \in {}) - Count(p \in {o})
  BY <1>1, DoneOnLoops, LoopNumbers DEF Count
<1>4. \A p \in Outputs : p # o => f[p] = g.loops[p]
  BY <1>1, DoneOnLoops
<1> HIDE DEF f
<1>5. ASSUME Steady, NEW p \in Outputs
      PROVE  /\ f[p].timer => f[p].pendingFrameCount = 0
             /\ Debt(g, {}, p) <= 1
  <2>1. /\ g.loops[p].pendingFrameCount <= Debt(g, {o}, p)
        /\ g.loops[p].timer => g.loops[p].pendingFrameCount = 0
        /\ Debt(g, {o}, p) <= 1
    BY <1>5 DEF Fine, AnsweredFine
  <2>2. /\ g.loops[p].pendingFrameCount \in Int
        /\ g.loops[p].pendingFrameCount >= Debt(g, {o}, p)
    BY <1>1, <1>5, LoopNumbers DEF Fine, OwedFine, Steady, Staying
  <2>3. p # o => f[p] = g.loops[p]
    BY <1>4
  <2>4. /\ f[p].pendingFrameCount
             = g.loops[p].pendingFrameCount + Count(p \in {}) - Count(p \in {o})
        /\ f[p].timer => g.loops[p].timer \/ g.loops[p].inhibitCount = 0
    BY <1>3
  <2>5. CASE p = o
    BY <2>1, <2>2, <2>4, <2>5 DEF Debt, Count
  <2>6. CASE p # o
    BY <2>1, <2>3, <2>6 DEF Debt, Count
  <2> QED
    BY <2>5, <2>6
<1>6. LoopsChange(g, f, {o}, {})
  BY <1>2, <1>3, <1>5 DEF LoopsChange
<1> HIDE DEF h
<1>7. /\ Fine(h, {}, {}) /\ SameOutputs(g, h) /\ h.loops = f /\ h.flip = g.flip
      /\ h.waiting = g.waiting /\ h.kernel = g.kernel
  BY <1>6, LoopsFine DEF h
<1>8. t = [h EXCEPT !.update = due]
  BY DEF h, f, WithLoops
<1>9. /\ t \in Card /\ SameOutputs(h, t) /\ t.loops = h.loops /\ t.flip = h.flip
      /\ t.waiting = h.waiting /\ t.kernel = h.kernel
  BY <1>7, <1>8 DEF Fine, Card, SameOutputs
<1>10. Fine(t, {}, {})
  <2>1. Steady => t.turnOff = {}
    BY <1>7, <1>9 DEF Fine, AnsweredFine, SameOutputs
  <2>2. SameSet(h, t) /\ t.pending = h.pending /\ t.next = h.next
    BY <1>9 DEF SameSet, SameOutputs
  <2> QED
    BY <1>7, <1>9, <2>1, <2>2, FlagsFine
<1>11. SameAsks(g, t)
  BY <1>7, <1>9 DEF SameAsks, SameOutputs
<1> QED
  BY <1>10, <1>11

LEMMA PresentFrameFine ==
    ASSUME NEW g, NEW o \in Composited(g) \cap g.on, Fine(g, {}, {o}), NEW refused
    PROVE  /\ Fine(PresentFrame(g, o, refused), {}, {})
           /\ SameAsks(g, PresentFrame(g, o, refused))
<1> DEFINE err == IF o \in g.flip THEN "FramePending" ELSE FlipError(g, o, refused)
           t == PresentFrame(g, o, refused)
           due == g.update \/ err = "InvalidArguments"
<1>1. o \in Outputs /\ g \in Card /\ due \in BOOLEAN
  BY CardFields DEF Fine, Composited
<1>2. CASE err = "None"
  <2>1. o \notin g.flip /\ Shown(g.pending[o]) = g.kernel[o]
    BY <1>2 DEF FlipError
  <2>2. t = [g EXCEPT !.flip = @ \cup {o}]
    BY <1>2 DEF PresentFrame
  <2> HIDE DEF t
  <2> QED
    BY <2>1, <2>2, FlippingFine DEF t
<1>3. CASE err # "None"
  <2>1. t = [[g EXCEPT !.loops = DoneOn(g, {o})] EXCEPT !.update = due]
    BY <1>1, <1>3 DEF PresentFrame, FramesDone, OnLoops, DoneOn, Card
  <2> HIDE DEF t, due
  <2> QED
    BY <1>1, <2>1, RefusedFine DEF t
<1> QED
  BY <1>2, <1>3

\* What becomes of a frame that has been drawn.
LEMMA PresentFine ==
    ASSUME NEW g, NEW o \in Composited(g) \cap g.on, Fine(g, {}, {o}), NEW refused
    PROVE  /\ Fine(Present(g, o, refused), {}, {})
           /\ \/ Present(g, o, refused).kernel = g.kernel
              \/ Present(g, o, refused).flip = {}
           /\ Steady /\ Waits(g, {}) => Waits(Present(g, o, refused), {})
<1> DEFINE h == [g EXCEPT !.waiting = @ \cup {o}]
           m == MaybeModeset(h, refused)
           f == PresentFrame(g, o, refused)
<1>1. /\ Fine(h, {}, {}) /\ h.kernel = g.kernel
      /\ NeedsModeset(g) /\ Waits(g, {}) => Waits(h, {})
  BY WaitingFine
<1> HIDE DEF h
<1>2. Fine(m, {}, {}) /\ FlipsKept(h, m) /\ (Steady /\ Waits(h, {}) => Waits(m, {}))
  BY <1>1, MaybeModesetFine
<1>3. Present(g, o, refused) = IF NeedsModeset(g) THEN m ELSE f
  BY DEF Present, h
<1>4. /\ Fine(f, {}, {}) /\ SameAsks(g, f)
      /\ Waits(g, {}) => Waits(f, {})
  BY PresentFrameFine, SameAsksWait
<1> HIDE DEF m, f
<1> QED
  BY <1>1, <1>2, <1>3, <1>4 DEF FlipsKept, SameAsks

LEMMA TestPipelineFine ==
    ASSUME NEW g, NEW begun, Fine(g, {}, begun), NEW o \in g.exists, NEW refused
    PROVE  /\ Fine(TestPipeline(g, o, refused), {}, begun)
           /\ SameButPipelines(g, TestPipeline(g, o, refused))
           /\ Waits(g, {}) => Waits(TestPipeline(g, o, refused), {})
<1> DEFINE t == TestPipeline(g, o, refused)
<1>1. {o} \subseteq g.exists /\ g \in Card /\ g.exists \subseteq Outputs
  BY CardFields DEF Fine
<1>2. Fine(t, {}, begun) /\ SameButPipelines(g, t)
  BY <1>1, ApplyPendingFine, RevertPendingFine, ApplyPendingFields, RevertPendingFields
  DEF TestPipeline
<1>3. \/ /\ t.pending = g.pending
         /\ \A p \in Outputs : t.next[p] = IF p = o THEN g.pending[p] ELSE g.next[p]
      \/ /\ t.next = g.next
         /\ \A p \in Outputs : t.pending[p] = IF p = o THEN g.next[p] ELSE g.pending[p]
  BY <1>1, ApplyPendingFields, RevertPendingFields DEF TestPipeline
<1> HIDE DEF t
<1>4. Waits(g, {}) => Waits(t, {})
  <2>1. \A p \in g.exists :
           \/ Asks(t.pending[p], g.pending[p]) /\ Asks(t.next[p], g.pending[p])
           \/ /\ p \notin {}
              /\ Asks(t.pending[p], g.next[p]) /\ Asks(t.next[p], g.next[p])
           \/ /\ p \in {} \/ p \notin {}
              /\ Asks(t.pending[p], g.pending[p]) /\ Asks(t.next[p], g.next[p])
    BY <1>1, <1>3 DEF Asks
  <2> QED
    BY <1>2, <2>1, PipelinesWait DEF SameButPipelines
<1> QED
  BY <1>2, <1>4 DEF t

-----------------------------------------------------------------------------
(* What the steps do to the loops alone.                                    *)

RepaintOn(g, S) == [o \in Outputs |->
    IF o \in S THEN ScheduleRepaint(g.loops[o], NoItem) ELSE g.loops[o]]
BeginOn(g, S) == [o \in Outputs |->
    IF o \in S THEN BeginFrame(DispatchBegin(g.loops[o])) ELSE g.loops[o]]
EndOn(g, S) == [o \in Outputs |->
    IF o \in S THEN DispatchEnd(g.loops[o]) ELSE g.loops[o]]
DispatchOn(g, S) == [o \in Outputs |->
    IF o \in S THEN DispatchEnd(DispatchBegin(g.loops[o])) ELSE g.loops[o]]

\* A steady loop has a frame exactly if the card owes it one.
LEMMA SteadyLoop ==
    ASSUME NEW g, NEW todo, NEW begun, Fine(g, todo, begun), Steady, NEW o \in Outputs
    PROVE  /\ g.loops[o].pendingFrameCount = Debt(g, begun, o)
           /\ g.loops[o].timer => g.loops[o].pendingFrameCount = 0
           /\ Debt(g, begun, o) <= 1
<1>1. g.loops[o].pendingFrameCount \in Int /\ Debt(g, begun, o) \in Nat
  BY LoopNumbers DEF Fine, Debt, Count
<1>2. g.loops[o].pendingFrameCount >= Debt(g, begun, o)
  BY DEF Fine, OwedFine, Steady, Staying
<1>3. /\ g.loops[o].pendingFrameCount <= Debt(g, begun, o)
      /\ g.loops[o].timer => g.loops[o].pendingFrameCount = 0
      /\ Debt(g, begun, o) <= 1
  BY DEF Fine, AnsweredFine
<1> QED
  BY <1>1, <1>2, <1>3

\* An operation that keeps the counts, and arms no timer behind a frame.
LEMMA IdleChange ==
    ASSUME NEW g, NEW todo, NEW begun, Fine(g, todo, begun),
           NEW f \in [Outputs -> Loop],
           \A o \in Outputs :
              Leaves(f[o], g.loops[o].pendingFrameCount, g.loops[o].inhibitCount,
                     \/ g.loops[o].timer
                     \/ /\ g.loops[o].pendingFrameCount = 0
                        /\ g.loops[o].inhibitCount = 0)
    PROVE  LoopsChange(g, f, begun, begun)
<1>1. g \in Card
  BY DEF Fine
<1> QED
  BY <1>1, SteadyLoop, LoopNumbers DEF LoopsChange, Leaves, Count

LEMMA RepaintChange ==
    ASSUME NEW g, NEW todo, NEW begun, Fine(g, todo, begun), NEW S
    PROVE  LoopsChange(g, RepaintOn(g, S), begun, begun)
<1> DEFINE f == RepaintOn(g, S)
<1>1. \A o \in Outputs :
         /\ g.loops[o] \in Loop
         /\ f[o] = IF o \in S THEN ScheduleRepaint(g.loops[o], NoItem) ELSE g.loops[o]
  BY LoopNumbers DEF Fine, RepaintOn
<1>2. \A o \in Outputs :
         Leaves(f[o], g.loops[o].pendingFrameCount, g.loops[o].inhibitCount,
                \/ g.loops[o].timer
                \/ g.loops[o].pendingFrameCount = 0 /\ g.loops[o].inhibitCount = 0)
  BY <1>1, ScheduleRepaintLeaves DEF Leaves
<1>3. f \in [Outputs -> Loop]
  BY <1>2 DEF Leaves, RepaintOn
<1> HIDE DEF f
<1>4. LoopsChange(g, f, begun, begun)
  BY <1>2, <1>3, IdleChange
<1> QED
  BY <1>4 DEF f

LEMMA EndChange ==
    ASSUME NEW g, NEW todo, NEW begun, Fine(g, todo, begun), NEW S
    PROVE  LoopsChange(g, EndOn(g, S), begun, begun)
<1> DEFINE f == EndOn(g, S)
<1>1. \A o \in Outputs :
         /\ g.loops[o] \in Loop
         /\ f[o] = IF o \in S THEN DispatchEnd(g.loops[o]) ELSE g.loops[o]
  BY LoopNumbers DEF Fine, EndOn
<1>2. \A o \in Outputs :
         Leaves(f[o], g.loops[o].pendingFrameCount, g.loops[o].inhibitCount,
                \/ g.loops[o].timer
                \/ g.loops[o].pendingFrameCount = 0 /\ g.loops[o].inhibitCount = 0)
  BY <1>1, DispatchEndLeaves DEF Leaves
<1>3. f \in [Outputs -> Loop]
  BY <1>2 DEF Leaves, EndOn
<1> HIDE DEF f
<1>4. LoopsChange(g, f, begun, begun)
  BY <1>2, <1>3, IdleChange
<1> QED
  BY <1>4 DEF f

LEMMA DispatchChange ==
    ASSUME NEW g, NEW todo, NEW begun, Fine(g, todo, begun), NEW S
    PROVE  LoopsChange(g, DispatchOn(g, S), begun, begun)
<1> DEFINE f == DispatchOn(g, S)
<1>1. \A o \in Outputs :
         /\ g.loops[o] \in Loop
         /\ f[o] = IF o \in S THEN DispatchEnd(DispatchBegin(g.loops[o]))
                              ELSE g.loops[o]
  BY LoopNumbers DEF Fine, DispatchOn
<1>2. \A o \in Outputs :
         Leaves(f[o], g.loops[o].pendingFrameCount, g.loops[o].inhibitCount,
                \/ g.loops[o].timer
                \/ g.loops[o].pendingFrameCount = 0 /\ g.loops[o].inhibitCount = 0)
  BY <1>1, DispatchLeaves DEF Leaves
<1>3. f \in [Outputs -> Loop]
  BY <1>2 DEF Leaves, DispatchOn
<1> HIDE DEF f
<1>4. LoopsChange(g, f, begun, begun)
  BY <1>2, <1>3, IdleChange
<1> QED
  BY <1>4 DEF f

\* A frame is begun by the timer, so a steady loop has no other.
LEMMA BeginChange ==
    ASSUME NEW g, NEW todo, Fine(g, todo, {}), NEW o \in Outputs, g.loops[o].timer
    PROVE  LoopsChange(g, BeginOn(g, {o}), {}, {o})
<1> DEFINE f == BeginOn(g, {o})
<1>1. g \in Card
  BY DEF Fine
<1>2. /\ g.loops[o] \in Loop
      /\ Leaves(f[o], g.loops[o].pendingFrameCount + 1, g.loops[o].inhibitCount, FALSE)
      /\ \A p \in Outputs : p # o => f[p] = g.loops[p]
  BY <1>1, LoopNumbers, BeginLeaves DEF BeginOn
<1>3. f \in [Outputs -> Loop]
  BY <1>1, <1>2, LoopNumbers DEF BeginOn, Leaves
<1> HIDE DEF f
<1>4. ASSUME NEW p \in Outputs
      PROVE  /\ f[p].inhibitCount = g.loops[p].inhibitCount
             /\ f[p].timer => g.loops[p].timer \/ g.loops[p].inhibitCount = 0
             /\ f[p].pendingFrameCount = g.loops[p].pendingFrameCount
                                           + Count(p \in {o}) - Count(p \in {})
  BY <1>1, <1>2, LoopNumbers DEF Leaves, Count
<1>5. ASSUME NEW p \in Outputs, Steady
      PROVE  /\ f[p].timer => f[p].pendingFrameCount = 0
             /\ Debt(g, {o}, p) <= 1
  <2>1. /\ g.loops[p].pendingFrameCount = Debt(g, {}, p)
        /\ g.loops[p].timer => g.loops[p].pendingFrameCount = 0
        /\ Debt(g, {}, p) <= 1
    BY <1>5, SteadyLoop
  <2>2. p = o => ~f[p].timer
    BY <1>2 DEF Leaves
  <2> QED
    BY <1>2, <2>1, <2>2 DEF Debt, Count
<1>6. LoopsChange(g, f, {}, {o})
  BY <1>3, <1>4, <1>5 DEF LoopsChange
<1> QED
  BY <1>6 DEF f

\* An output whose loop has its timer running is on.
LEMMA TimerMeansOn ==
    ASSUME NEW g, NEW todo, NEW begun, Fine(g, todo, begun), NEW o \in Composited(g),
           g.loops[o].timer
    PROVE  o \in Composited(g) \cap g.on
<1>1. o \in Outputs /\ o \in g.exists
  BY CardFields DEF Fine, Composited
<1>2. Pauses(g, o) = 0
  BY <1>1 DEF Fine, PausesFine
<1> QED
  BY <1>1, <1>2 DEF Pauses, Count

\* A mode set finds, and leaves, no page flip in flight.
ModesetIdle(g, t) == t.kernel # g.kernel => t.flip = {}

\* A frame that waits is not forgotten.
WaitKept(g, t) == Steady /\ Waits(g, {}) => Waits(t, {})

Keeps(g, t) == Fine(t, {}, {}) /\ ModesetIdle(g, t) /\ WaitKept(g, t)

LEMMA SameAsksKeep ==
    ASSUME NEW g, NEW t, Fine(t, {}, {}), SameAsks(g, t)
    PROVE  Keeps(g, t)
BY SameAsksWait DEF Keeps, WaitKept, ModesetIdle, SameAsks

LEMMA LoopsKeep ==
    ASSUME NEW g, Fine(g, {}, {}), NEW f, LoopsChange(g, f, {}, {}),
           NEW t, t = WithLoops(g, f)
    PROVE  Keeps(g, t)
<1>1. Fine(t, {}, {}) /\ SameAsks(g, t)
  BY LoopsFine DEF SameOutputs, SameAsks
<1> QED
  BY <1>1, SameAsksKeep

LEMMA RenderKeeps ==
    ASSUME NEW g, Fine(g, {}, {}), NEW o \in Composited(g), g.loops[o].timer,
           NEW resync, NEW refused, NEW t,
           LET begun == OnLoops(g, {o}, LAMBDA l : BeginFrame(DispatchBegin(l)))
               tuned == IF resync THEN TestPipeline(begun, o, refused) ELSE begun
           IN  t = OnLoops(Present(tuned, o, refused), {o}, DispatchEnd)
    PROVE  Keeps(g, t)
<1> DEFINE f == BeginOn(g, {o})
           b == WithLoops(g, f)
           c == IF resync THEN TestPipeline(b, o, refused) ELSE b
           p == Present(c, o, refused)
           e == EndOn(p, {o})
<1>1. t = WithLoops(p, e)
  BY DEF OnLoops, WithLoops, BeginOn, EndOn
<1>2. o \in Composited(g) \cap g.on /\ o \in Outputs
  BY TimerMeansOn, CardFields DEF Fine, Composited
<1>3. /\ Fine(b, {}, {o}) /\ SameOutputs(g, b) /\ b.kernel = g.kernel
      /\ b.waiting = g.waiting
  BY <1>2, BeginChange, LoopsFine
<1> HIDE DEF f, b
<1>4. /\ Fine(c, {}, {o}) /\ c.exists = g.exists /\ c.enabled = g.enabled
      /\ c.on = g.on /\ c.kernel = g.kernel
      /\ Waits(b, {}) => Waits(c, {})
  BY <1>2, <1>3, TestPipelineFine DEF Composited, SameOutputs, SameButPipelines
<1> HIDE DEF c
<1>5. o \in Composited(c) \cap c.on
  BY <1>2, <1>4 DEF Composited
<1>6. /\ Fine(p, {}, {}) /\ (p.kernel = g.kernel \/ p.flip = {})
      /\ Steady /\ Waits(c, {}) => Waits(p, {})
  BY <1>4, <1>5, PresentFine
<1> HIDE DEF p
<1>7. LoopsChange(p, e, {}, {})
  BY <1>6, EndChange
<1> HIDE DEF e
<1>8. /\ Fine(t, {}, {}) /\ t.kernel = p.kernel /\ t.flip = p.flip
      /\ SameOutputs(p, t) /\ t.waiting = p.waiting
  BY <1>1, <1>6, <1>7, LoopsFine
<1>9. SameAsks(g, b) /\ SameAsks(p, t)
  BY <1>3, <1>8 DEF SameAsks, SameOutputs
<1>10. WaitKept(g, t)
  BY <1>4, <1>6, <1>9, SameAsksWait DEF WaitKept
<1> QED
  BY <1>6, <1>8, <1>10 DEF Keeps, ModesetIdle

LEMMA PageFlipKeeps ==
    ASSUME NEW g, Fine(g, {}, {}), NEW o \in g.flip,
           NEW t, t = [FramesDone(g, {o}) EXCEPT !.flip = @ \ {o}]
    PROVE  Keeps(g, t)
<1> DEFINE f == DoneOn(g, {o})
<1>1. g \in Card /\ o \in Outputs
  BY CardFields DEF Fine
<1>2. f \in [Outputs -> Loop]
  BY <1>1, DoneOnLoops
<1>3. t = [[g EXCEPT !.loops = f] EXCEPT !.flip = g.flip \ {o}]
  BY <1>1 DEF FramesDone, OnLoops, DoneOn, Card
<1> HIDE DEF f
<1>4. /\ t \in Card /\ SameOutputs(g, t) /\ t.loops = f /\ t.flip = g.flip \ {o}
      /\ t.waiting = g.waiting /\ t.kernel = g.kernel
  BY <1>1, <1>2, <1>3 DEF Card, SameOutputs
<1>5. Fine(t, {}, {})
  <2> DEFINE S == {o}
  <2>1. /\ S \in SUBSET Outputs /\ t.loops = DoneOn(g, S)
        /\ t.flip \subseteq g.flip /\ t.waiting \subseteq g.waiting
        /\ \A q \in S : q \in g.flip \ t.flip
        /\ (g.flip \ t.flip) \cup (g.waiting \ t.waiting) \subseteq S
    BY <1>1, <1>4 DEF f
  <2>2. \A q \in g.exists \ g.on : Dimmed(q, t.kernel[q])
    BY <1>4 DEF Fine, OffFine
  <2> HIDE DEF S
  <2> QED
    BY <1>4, <2>1, <2>2, AnswersFine
<1>6. SameAsks(g, t)
  BY <1>4 DEF SameAsks, SameOutputs
<1> QED
  BY <1>5, <1>6, SameAsksKeep

\* What changes beside the outputs, their loops and their frames.
LEMMA FlagsKeep ==
    ASSUME NEW g, Fine(g, {}, {}), NEW t \in Card,
           SameSet(g, t), t.pending = g.pending, t.next = g.next,
           t.loops = g.loops, t.flip = g.flip, t.waiting = g.waiting,
           t.kernel = g.kernel, Steady => t.turnOff = {}
    PROVE  Keeps(g, t)
<1>1. SameAsks(g, t)
  BY DEF SameAsks, SameSet
<1> QED
  BY <1>1, FlagsFine, SameAsksKeep

-----------------------------------------------------------------------------
(* DPMS.                                                                    *)

\* The pipeline of one output is told to be active or not; nothing is tested yet.
Activated(g, o, active) == [g EXCEPT !.pending[o].active = active]

LEMMA ActivatedFields ==
    ASSUME NEW g \in Card, NEW o \in Outputs, NEW active \in BOOLEAN,
           NEW t, t = Activated(g, o, active)
    PROVE  /\ t \in Card /\ SameButPipelines(g, t) /\ t.next = g.next
           /\ \A p \in Outputs : p # o => t.pending[p] = g.pending[p]
           /\ t.pending[o].active = active
           /\ t.pending[o].crtc = g.pending[o].crtc
           /\ t.pending[o].enabled = g.pending[o].enabled
           /\ t.pending[o].mode = g.pending[o].mode
<1> DEFINE c == [g.pending[o] EXCEPT !.active = active]
           f == [g.pending EXCEPT ![o] = c]
<1>1. g.pending \in [Outputs -> PipelineState]
  BY CardFields
<1>2. /\ c \in PipelineState /\ c.active = active
      /\ c.crtc = g.pending[o].crtc /\ c.enabled = g.pending[o].enabled
      /\ c.mode = g.pending[o].mode
  BY <1>1 DEF PipelineState
<1>3. t = [g EXCEPT !.pending = f]
  BY <1>1 DEF Activated, Card
<1> HIDE DEF c
<1>4. /\ f \in [Outputs -> PipelineState] /\ f[o] = c
      /\ \A p \in Outputs : p # o => f[p] = g.pending[p]
  BY <1>1, <1>2
<1> HIDE DEF f
<1>5. t \in Card /\ SameButPipelines(g, t) /\ t.next = g.next /\ t.pending = f
  BY <1>3, <1>4 DEF Card, SameButPipelines
<1> QED
  BY <1>2, <1>4, <1>5

\* The output o is switched on or off: its pipeline, its loop and its picture change.
Powered(g, t, o) ==
    /\ t \in Card
    /\ t.exists = g.exists /\ t.enabled = g.enabled /\ t.active = g.active
    /\ t.turnOff = g.turnOff /\ t.flip = g.flip /\ t.waiting = g.waiting
    /\ \A p \in Outputs \ {o} :
          /\ Alike(t.pending[p], g.pending[p]) /\ Alike(t.next[p], g.next[p])
          /\ t.loops[p] = g.loops[p] /\ t.kernel[p] = g.kernel[p]
          /\ p \in t.on <=> p \in g.on
    /\ t.pending[o].crtc = g.pending[o].crtc /\ t.next[o].crtc = g.pending[o].crtc
    /\ t.pending[o].active = t.next[o].active
    /\ t.loops[o].pendingFrameCount = g.loops[o].pendingFrameCount

LEMMA PoweredFine ==
    ASSUME NEW g, NEW todo, Fine(g, todo, {}), ~Steady, NEW o \in Composited(g),
           NEW t, Powered(g, t, o),
           t.loops[o].inhibitCount = Pauses(t, o),
           t.loops[o].timer => t.loops[o].inhibitCount = 0,
           t.pending[o].active <=> o \in t.on,
           o \in t.on => t.kernel[o] = g.kernel[o],
           o \notin t.on => t.kernel[o] = Dark,
           o \in g.flip => o \in t.on
    PROVE  Fine(t, todo, {})
<1>1. o \in Outputs /\ o \in g.exists
  BY CardFields DEF Fine, Composited
<1>2. PausesFine(t)
  BY DEF Fine, PausesFine, Pauses, Powered
<1>3. OffFine(t) /\ FlipsFine(t)
  BY <1>1, CardFields, DarkIsDimmed DEF Fine, OffFine, FlipsFine, Powered, Alike
<1>4. LitFine(t, todo)
  BY <1>1, CardFields DEF Fine, LitFine, Powered, Alike, Composited
<1>5. ASSUME Staying PROVE OwedFine(t, {})
  <2>1. OwedFine(g, {})
    BY <1>5 DEF Fine
  <2>2. \A p \in Outputs : Debt(t, {}, p) = Debt(g, {}, p)
    BY DEF Debt, Powered
  <2>3. \A p \in Outputs :
           t.loops[p].pendingFrameCount = g.loops[p].pendingFrameCount
    BY DEF Powered
  <2> QED
    BY <2>1, <2>2, <2>3 DEF OwedFine, Powered
<1> QED
  BY <1>2, <1>3, <1>4, <1>5 DEF Fine, Powered

\* The commit, or the test, of the new setting has passed: the pipeline keeps it.
LEMMA CommittedFields ==
    ASSUME NEW g \in Card, NEW o \in Outputs, NEW active, active \in BOOLEAN,
           NEW needed, needed \in BOOLEAN, NEW t,
           t = ApplyPending(SetNeedsModeset(Activated(g, o, active), {o}, needed), {o})
    PROVE  /\ t \in Card /\ SameButPipelines(g, t)
           /\ \A p \in Outputs \ {o} : /\ Alike(t.pending[p], g.pending[p])
                                       /\ Alike(t.next[p], g.next[p])
           /\ t.pending[o].crtc = g.pending[o].crtc
           /\ t.next[o].crtc = g.pending[o].crtc
           /\ t.pending[o].active = active /\ t.next[o].active = active
<1> DEFINE a == Activated(g, o, active)
           b == SetNeedsModeset(a, {o}, needed)
<1>1. /\ a \in Card /\ SameButPipelines(g, a) /\ a.next = g.next
      /\ \A p \in Outputs : p # o => a.pending[p] = g.pending[p]
      /\ a.pending[o].active = active
      /\ a.pending[o].crtc = g.pending[o].crtc
  BY ActivatedFields
<1> HIDE DEF a
<1>2. /\ b \in Card /\ SameButPipelines(a, b) /\ b.next = a.next
      /\ \A p \in Outputs : Alike(b.pending[p], a.pending[p])
  BY <1>1, SetNeedsModesetFields
<1> DEFINE S == {o}
<1>3. t = ApplyPending(b, S) /\ \A p : p \in S <=> p = o
  BY DEF a
<1> HIDE DEF b, S
<1>4. /\ t \in Card /\ SameButPipelines(b, t) /\ t.pending = b.pending
      /\ \A p \in Outputs : t.next[p] = IF p \in S THEN b.pending[p] ELSE b.next[p]
  <2> DEFINE u == ApplyPending(b, S)
  <2>1. /\ u \in Card /\ SameButPipelines(b, u) /\ u.pending = b.pending
        /\ \A p \in Outputs : u.next[p] = IF p \in S THEN b.pending[p] ELSE b.next[p]
    BY <1>2, ApplyPendingFields
  <2>2. t = u
    BY <1>3
  <2> QED
    BY <2>1, <2>2
<1>5. SameButPipelines(g, t)
  BY <1>1, <1>2, <1>4 DEF SameButPipelines
<1>6. /\ t.next[o] = b.pending[o]
      /\ \A p \in Outputs \ {o} : t.next[p] = g.next[p]
  BY <1>1, <1>2, <1>3, <1>4
<1>7. /\ Alike(b.pending[o], a.pending[o])
      /\ \A p \in Outputs \ {o} : Alike(b.pending[p], g.pending[p])
  BY <1>1, <1>2
<1> QED
  BY <1>1, <1>4, <1>5, <1>6, <1>7 DEF Alike

\* An output that is switched off has one pause more.
LEMMA OnePauseMore ==
    ASSUME NEW g, NEW t, NEW o, o \in g.exists, t.exists = g.exists,
           t.active = g.active, o \in g.on, o \notin t.on
    PROVE  Pauses(t, o) = Pauses(g, o) + 1 /\ Pauses(g, o) \in Nat
BY DEF Pauses, Count

InhibitOn(g, o) == [g.loops EXCEPT ![o] = Inhibit(g.loops[o])]

\* The same outputs, and no page flip is awaited.
NoFlipLeft(g, t) ==
    /\ t.exists = g.exists /\ t.enabled = g.enabled /\ t.active = g.active
    /\ t.turnOff = g.turnOff /\ t.flip = {}

LEMMA SwitchedOffFine ==
    ASSUME NEW g, NEW todo, Fine(g, todo, {}), ~Steady, g.flip = {},
           NEW o, o \in Composited(g) \cap g.on,
           NEW t, t = SwitchedOff(Activated(g, o, FALSE), o)
    PROVE  Fine(t, todo, {}) /\ NoFlipLeft(g, t)
<1> DEFINE no == FALSE
           b == ApplyPending(SetNeedsModeset(Activated(g, o, no), {o}, no), {o})
           f == InhibitOn(b, o)
           k == [b.kernel EXCEPT ![o] = Dark]
<1>1. g \in Card /\ o \in Outputs /\ o \in g.exists /\ o \in g.on
  BY CardFields DEF Fine, Composited
<1>2. t = [[b EXCEPT !.loops = [p \in Outputs |-> IF p \in {o} THEN Inhibit(b.loops[p])
                                                             ELSE b.loops[p]]]
             EXCEPT !.kernel[o] = Dark, !.on = @ \ {o}, !.filter = TRUE]
  BY DEF SwitchedOff, OnLoops
<1>3. no \in BOOLEAN /\ ~no
  OBVIOUS
<1> HIDE DEF no
<1>4. /\ b \in Card /\ SameButPipelines(g, b)
      /\ \A p \in Outputs \ {o} : /\ Alike(b.pending[p], g.pending[p])
                                  /\ Alike(b.next[p], g.next[p])
      /\ b.pending[o].crtc = g.pending[o].crtc
      /\ b.next[o].crtc = g.pending[o].crtc
      /\ b.pending[o].active = no /\ b.next[o].active = no
  BY <1>1, <1>3, CommittedFields
<1> HIDE DEF b
<1>5. /\ f \in [Outputs -> Loop]
      /\ Leaves(f[o], g.loops[o].pendingFrameCount, g.loops[o].inhibitCount + 1,
                g.loops[o].timer /\ g.loops[o].inhibitCount # 0)
      /\ \A p \in Outputs \ {o} : f[p] = g.loops[p]
      /\ f = [p \in Outputs |-> IF p \in {o} THEN Inhibit(b.loops[p]) ELSE b.loops[p]]
  <2>1. b.loops = g.loops /\ g.loops \in [Outputs -> Loop]
    BY <1>1, <1>4, CardFields DEF SameButPipelines
  <2>2. Leaves(Inhibit(g.loops[o]), g.loops[o].pendingFrameCount,
               g.loops[o].inhibitCount + 1,
               g.loops[o].timer /\ g.loops[o].inhibitCount # 0)
    BY <1>1, <2>1, InhibitLeaves
  <2> QED
    BY <1>1, <2>1, <2>2 DEF InhibitOn, Leaves
<1>6. /\ k \in [Outputs -> Modes \cup {Dark}] /\ k[o] = Dark
      /\ \A p \in Outputs \ {o} : k[p] = g.kernel[p]
  BY <1>1, <1>4, CardFields DEF SameButPipelines
<1> DEFINE lit == g.on \ {o}
<1>7. /\ t = [[b EXCEPT !.loops = f]
                EXCEPT !.kernel = k, !.on = lit, !.filter = TRUE]
      /\ lit \in SUBSET Outputs
  BY <1>1, <1>2, <1>4, <1>5, CardFields DEF Card, SameButPipelines
<1> HIDE DEF f, k, lit
<1>8. /\ t \in Card /\ t.pending = b.pending /\ t.next = b.next
      /\ t.exists = g.exists /\ t.enabled = g.enabled /\ t.active = g.active
      /\ t.turnOff = g.turnOff /\ t.flip = g.flip /\ t.waiting = g.waiting
      /\ t.loops = f /\ t.kernel = k /\ t.on = lit
  <2>1. b \in Card /\ f \in [Outputs -> Loop] /\ k \in [Outputs -> Modes \cup {Dark}]
    BY <1>4, <1>5, <1>6
  <2>2. /\ t \in Card /\ t.pending = b.pending /\ t.next = b.next
        /\ t.exists = b.exists /\ t.enabled = b.enabled /\ t.active = b.active
        /\ t.turnOff = b.turnOff /\ t.flip = b.flip /\ t.waiting = b.waiting
        /\ t.loops = f /\ t.kernel = k /\ t.on = lit
    BY <1>7, <2>1 DEF Card
  <2> QED
    BY <1>4, <2>2 DEF SameButPipelines
<1>9. Powered(g, t, o)
  <2>1. f[o].pendingFrameCount = g.loops[o].pendingFrameCount
    BY <1>5 DEF Leaves
  <2>2. \A p \in Outputs \ {o} : p \in lit <=> p \in g.on
    BY DEF lit
  <2> QED
    BY <1>4, <1>5, <1>6, <1>8, <2>1, <2>2 DEF Powered
<1>10. g.loops[o].inhibitCount = Pauses(g, o) /\ (g.loops[o].timer => Pauses(g, o) = 0)
  BY <1>1 DEF Fine, PausesFine
<1>11. /\ t.loops[o].inhibitCount = Pauses(t, o)
       /\ ~t.loops[o].timer
  <2>1. Pauses(t, o) = Pauses(g, o) + 1 /\ Pauses(g, o) \in Nat
    BY <1>1, <1>7, <1>8, OnePauseMore DEF lit
  <2> QED
    BY <1>5, <1>8, <1>10, <2>1 DEF Leaves
<1>12. Fine(t, todo, {})
  <2>1. o \notin t.on
    BY <1>8 DEF lit
  <2> QED
    BY <1>1, <1>3, <1>4, <1>6, <1>8, <1>9, <1>11, <2>1, PoweredFine
<1> QED
  BY <1>8, <1>12 DEF NoFlipLeft

\* A setting that did not pass is given up.
LEMMA GivenUpFine ==
    ASSUME NEW g, NEW todo, NEW begun, Fine(g, todo, begun), NEW o \in g.exists,
           NEW active, active \in BOOLEAN,
           NEW t, t = RevertPending(Activated(g, o, active), {o})
    PROVE  Fine(t, todo, begun) /\ SameButPipelines(g, t)
<1> DEFINE a == Activated(g, o, active)
           S == {o}
<1>1. g \in Card /\ o \in Outputs
  BY CardFields DEF Fine
<1>2. /\ a \in Card /\ SameButPipelines(g, a) /\ a.next = g.next
      /\ \A p \in Outputs : p # o => a.pending[p] = g.pending[p]
  BY <1>1, ActivatedFields
<1>3. t = RevertPending(a, S) /\ \A p : p \in S <=> p = o
  OBVIOUS
<1> HIDE DEF a, S
<1>4. /\ t \in Card /\ SameButPipelines(a, t) /\ t.next = a.next
      /\ \A p \in Outputs : t.pending[p] = IF p \in S THEN a.next[p] ELSE a.pending[p]
  <2> DEFINE u == RevertPending(a, S)
  <2>1. /\ u \in Card /\ SameButPipelines(a, u) /\ u.next = a.next
        /\ \A p \in Outputs : u.pending[p] = IF p \in S THEN a.next[p] ELSE a.pending[p]
    BY <1>2, RevertPendingFields
  <2>2. t = u
    BY <1>3
  <2> QED
    BY <2>1, <2>2
<1>5. SameButPipelines(g, t)
  BY <1>2, <1>4 DEF SameButPipelines
<1>6. \A p \in Outputs :
         /\ Alike(t.pending[p], g.pending[p]) \/ Alike(t.pending[p], g.next[p])
         /\ Alike(t.next[p], g.next[p])
         /\ p \notin g.exists => Alike(t.pending[p], g.pending[p])
  BY <1>2, <1>3, <1>4 DEF Alike
<1> QED
  BY <1>4, <1>5, <1>6, PipelinesFine

LEMMA CheckOutputsAreOnFields ==
    ASSUME NEW g \in Card
    PROVE  /\ CheckOutputsAreOn(g) \in Card
           /\ SameOutputs(g, CheckOutputsAreOn(g))
           /\ CheckOutputsAreOn(g).loops = g.loops /\ CheckOutputsAreOn(g).flip = g.flip
           /\ CheckOutputsAreOn(g).waiting = g.waiting
           /\ CheckOutputsAreOn(g).kernel = g.kernel
<1>1. (g.filter /\ ~(Composited(g) \subseteq g.on)) \in BOOLEAN
  BY CardFields
<1> QED
  BY <1>1 DEF CheckOutputsAreOn, Card, SameOutputs

LEMMA CheckOutputsAreOnFine ==
    ASSUME NEW g, NEW todo, NEW begun, Fine(g, todo, begun)
    PROVE  Fine(CheckOutputsAreOn(g), todo, begun)
<1> DEFINE t == CheckOutputsAreOn(g)
<1>1. /\ t \in Card /\ SameOutputs(g, t) /\ t.loops = g.loops /\ t.flip = g.flip
      /\ t.waiting = g.waiting /\ t.kernel = g.kernel
  BY CheckOutputsAreOnFields DEF Fine
<1> HIDE DEF t
<1>2. Steady => t.turnOff = {}
  BY <1>1 DEF Fine, AnsweredFine, SameOutputs
<1>3. SameSet(g, t) /\ t.pending = g.pending /\ t.next = g.next
  BY <1>1 DEF SameSet, SameOutputs
<1>4. Fine(t, todo, begun)
  BY <1>1, <1>2, <1>3, FlagsFine
<1> QED
  BY <1>4 DEF t

\* setDrmDpmsMode(Off): not as long as every output is to stay lit.
LEMMA SwitchOffFine ==
    ASSUME NEW g, NEW todo, Fine(g, todo, {}), ~Steady, NEW o, NEW refused
    PROVE  /\ Fine(SwitchOff(g, o, refused), todo, {})
           /\ SwitchOff(g, o, refused).exists = g.exists
           /\ SwitchOff(g, o, refused).enabled = g.enabled
           /\ SwitchOff(g, o, refused).active = g.active
           /\ SwitchOff(g, o, refused).turnOff = g.turnOff
           /\ FlipsKept(g, SwitchOff(g, o, refused))
<1> DEFINE h == WaitIdle(g)
           t == SwitchOff(g, o, refused)
           no == FALSE
           r == RevertPending(Activated(h, o, no), {o})
<1>1. /\ Fine(h, todo, {}) /\ SameOutputs(g, h) /\ h.flip = {} /\ h.kernel = g.kernel
  BY WaitIdleFine
<1>2. no \in BOOLEAN
  OBVIOUS
<1>3. CASE o \notin Composited(g) \cap g.on
  BY <1>3 DEF SwitchOff, FlipsKept
<1>4. CASE /\ o \in Composited(g) \cap g.on
           /\ CommitError(g, refused) = "None"
  <2>1. t = SwitchedOff(Activated(h, o, FALSE), o)
    BY <1>4 DEF SwitchOff, Activated
  <2> HIDE DEF h, t
  <2>2. o \in Composited(h) \cap h.on
    BY <1>1, <1>4 DEF Composited, SameOutputs
  <2>3. Fine(t, todo, {}) /\ NoFlipLeft(h, t)
    <3>1. Fine(h, todo, {}) /\ h.flip = {}
      BY <1>1
    <3> QED
      BY <2>1, <2>2, <3>1, SwitchedOffFine
  <2>4. /\ t.exists = g.exists /\ t.enabled = g.enabled /\ t.active = g.active
        /\ t.turnOff = g.turnOff /\ t.flip = {}
    BY <1>1, <2>3 DEF SameOutputs, NoFlipLeft
  <2> QED
    BY <2>3, <2>4 DEF t, FlipsKept
<1>5. CASE /\ o \in Composited(g) \cap g.on
           /\ CommitError(g, refused) # "None"
  <2>1. t = CheckOutputsAreOn(r)
    BY <1>5 DEF SwitchOff, Activated
  <2> HIDE DEF h, t, no
  <2>2. o \in h.exists
    BY <1>1, <1>5 DEF Composited, SameOutputs
  <2>3. Fine(r, todo, {}) /\ SameButPipelines(h, r)
    BY <1>1, <1>2, <2>2, GivenUpFine
  <2> HIDE DEF r
  <2>4. /\ Fine(t, todo, {}) /\ SameOutputs(r, t) /\ t.flip = r.flip
        /\ t.kernel = r.kernel
    BY <2>1, <2>3, CheckOutputsAreOnFine, CheckOutputsAreOnFields DEF Fine
  <2>5. /\ t.exists = g.exists /\ t.enabled = g.enabled /\ t.active = g.active
        /\ t.turnOff = g.turnOff /\ t.flip = {}
    BY <1>1, <2>3, <2>4 DEF SameOutputs, SameButPipelines
  <2> QED
    BY <2>4, <2>5 DEF t, FlipsKept
<1> QED
  BY <1>3, <1>4, <1>5

\* An output that is switched on has one pause less.
LEMMA OnePauseLess ==
    ASSUME NEW g, NEW t, NEW o, o \in g.exists, t.exists = g.exists,
           t.active = g.active, g.active, o \notin g.on, o \in t.on
    PROVE  Pauses(g, o) = 1 /\ Pauses(t, o) = 0
BY DEF Pauses, Count

WakeOn(g, o) ==
    [g.loops EXCEPT ![o] = ScheduleRepaint(Uninhibit(g.loops[o]), NoItem)]

LEMMA WakeLeaves ==
    ASSUME NEW l \in Loop, l.inhibitCount = 1
    PROVE  Leaves(ScheduleRepaint(Uninhibit(l), NoItem), l.pendingFrameCount, 0, TRUE)
<1> DEFINE m == Uninhibit(l)
<1>1. Leaves(m, l.pendingFrameCount, 0, TRUE)
  BY UninhibitLeaves DEF Leaves
<1> HIDE DEF m
<1> QED
  BY <1>1, ScheduleRepaintLeaves DEF Leaves, m

LEMMA SwitchedOnFine ==
    ASSUME NEW g, NEW todo, Fine(g, todo, {}), g.active,
           NEW o \in Composited(g) \ g.on,
           NEW t, t = SwitchedOn(Activated(g, o, TRUE), o)
    PROVE  /\ Fine(t, todo, {})
           /\ t.exists = g.exists /\ t.enabled = g.enabled /\ t.active = g.active
           /\ t.turnOff = g.turnOff /\ t.flip = g.flip /\ t.kernel = g.kernel
<1> DEFINE yes == TRUE
           tried == Activated(g, o, yes)
           needed == Shown(tried.pending[o]) # tried.kernel[o]
           b == ApplyPending(SetNeedsModeset(tried, {o}, needed), {o})
           lit == g.on \cup {o}
           c == [b EXCEPT !.on = lit]
           d == CheckOutputsAreOn(c)
           f == WakeOn(d, o)
<1>1. /\ g \in Card /\ o \in Outputs /\ o \in g.exists /\ o \notin g.on
      /\ lit \in SUBSET Outputs
  BY CardFields DEF Fine, Composited
<1>2. yes
  OBVIOUS
<1>3. yes \in BOOLEAN /\ needed \in BOOLEAN
  OBVIOUS
<1>4. t = LET e == CheckOutputsAreOn([b EXCEPT !.on = @ \cup {o}])
          IN  [e EXCEPT !.loops = [p \in Outputs |->
                  IF p \in {o} THEN ScheduleRepaint(Uninhibit(e.loops[p]), NoItem)
                               ELSE e.loops[p]]]
  BY DEF SwitchedOn, OnLoops
<1> HIDE DEF yes, needed
<1>5. b = ApplyPending(SetNeedsModeset(Activated(g, o, yes), {o}, needed), {o})
  OBVIOUS
<1> HIDE DEF tried, b
<1>6. /\ b \in Card /\ SameButPipelines(g, b)
      /\ \A p \in Outputs \ {o} : /\ Alike(b.pending[p], g.pending[p])
                                  /\ Alike(b.next[p], g.next[p])
      /\ b.pending[o].crtc = g.pending[o].crtc
      /\ b.next[o].crtc = g.pending[o].crtc
      /\ b.pending[o].active = yes /\ b.next[o].active = yes
  BY <1>1, <1>3, <1>5, CommittedFields
<1>7. /\ c \in Card /\ c.pending = b.pending /\ c.next = b.next /\ c.on = lit
      /\ c.exists = g.exists /\ c.enabled = g.enabled /\ c.active = g.active
      /\ c.turnOff = g.turnOff /\ c.flip = g.flip /\ c.waiting = g.waiting
      /\ c.loops = g.loops /\ c.kernel = g.kernel
      /\ c = [b EXCEPT !.on = @ \cup {o}]
  BY <1>1, <1>6 DEF Card, SameButPipelines
<1>8. t = [d EXCEPT !.loops = [p \in Outputs |->
              IF p \in {o} THEN ScheduleRepaint(Uninhibit(d.loops[p]), NoItem)
                           ELSE d.loops[p]]]
  BY <1>4, <1>7
<1> HIDE DEF c, lit
<1>9. /\ d \in Card /\ SameOutputs(c, d) /\ d.loops = c.loops /\ d.flip = c.flip
      /\ d.waiting = c.waiting /\ d.kernel = c.kernel
  BY <1>7, CheckOutputsAreOnFields
<1> HIDE DEF d
<1>10. /\ d.loops = g.loops /\ g.loops \in [Outputs -> Loop] /\ o \notin g.on
      /\ g.loops[o].inhibitCount = Pauses(g, o)
  BY <1>1, <1>7, <1>9, CardFields DEF Fine, PausesFine
<1>11. Pauses(g, o) = 1
  BY <1>1 DEF Pauses, Count
<1>12. /\ f \in [Outputs -> Loop]
       /\ Leaves(f[o], g.loops[o].pendingFrameCount, 0, TRUE)
       /\ \A p \in Outputs \ {o} : f[p] = g.loops[p]
       /\ t = [d EXCEPT !.loops = f]
  <2>1. Leaves(ScheduleRepaint(Uninhibit(g.loops[o]), NoItem),
               g.loops[o].pendingFrameCount, 0, TRUE)
    BY <1>1, <1>10, <1>11, WakeLeaves
  <2> QED
    BY <1>1, <1>8, <1>10, <2>1 DEF WakeOn, Leaves
<1> HIDE DEF f
<1>13. /\ t \in Card /\ t.pending = b.pending /\ t.next = b.next
       /\ t.exists = g.exists /\ t.enabled = g.enabled /\ t.active = g.active
       /\ t.turnOff = g.turnOff /\ t.flip = g.flip /\ t.waiting = g.waiting
       /\ t.loops = f /\ t.kernel = g.kernel /\ t.on = lit
  <2>1. /\ t \in Card /\ SameOutputs(d, t) /\ t.loops = f
        /\ t.flip = d.flip /\ t.waiting = d.waiting /\ t.kernel = d.kernel
    BY <1>9, <1>12 DEF Card, SameOutputs
  <2> QED
    BY <1>7, <1>9, <2>1 DEF SameOutputs
<1>14. Powered(g, t, o)
  <2>1. f[o].pendingFrameCount = g.loops[o].pendingFrameCount
    BY <1>12 DEF Leaves
  <2>2. \A p \in Outputs \ {o} : p \in lit <=> p \in g.on
    BY DEF lit
  <2> QED
    BY <1>6, <1>12, <1>13, <2>1, <2>2 DEF Powered
<1>15. o \in t.on
  BY <1>13 DEF lit
<1>16. t.loops[o].inhibitCount = Pauses(t, o) /\ t.loops[o].inhibitCount = 0
  <2>1. Pauses(t, o) = 0
    BY <1>1, <1>13, <1>15, OnePauseLess
  <2> QED
    BY <1>12, <1>13, <2>1 DEF Leaves
<1>17. ~Steady
  BY <1>1 DEF Fine, AnsweredFine
<1>18. Fine(t, todo, {})
  BY <1>1, <1>2, <1>6, <1>13, <1>14, <1>15, <1>16, <1>17, PoweredFine
<1> QED
  BY <1>13, <1>18

\* What is kept when outputs are switched on: the outputs themselves, what they show
\* and which page flips are awaited; nothing at all when all outputs are on.
PictureKept(g, t) ==
    /\ t.exists = g.exists /\ t.enabled = g.enabled /\ t.active = g.active
    /\ t.flip = g.flip /\ t.kernel = g.kernel
    /\ Steady => SameAsks(g, t)

LEMMA PictureKeeps ==
    ASSUME NEW g, NEW t, Fine(t, {}, {}), PictureKept(g, t)
    PROVE  Keeps(g, t)
BY SameAsksWait DEF PictureKept, Keeps, ModesetIdle, WaitKept

\* setDrmDpmsMode(On): the mode set comes with the next frame.
LEMMA SwitchOnFine ==
    ASSUME NEW g, NEW todo, Fine(g, todo, {}), NEW o, NEW refused,
           NEW t, t = SwitchOn(g, o, refused)
    PROVE  Fine(t, todo, {}) /\ PictureKept(g, t) /\ t.turnOff = g.turnOff
<1>a. o \in Composited(g) \ g.on => ~Steady
  BY CardFields DEF Fine, AnsweredFine, Composited
<1>1. CASE o \notin Composited(g) \ g.on
  BY <1>1 DEF SwitchOn, PictureKept, SameAsks
<1>2. CASE o \in Composited(g) \ g.on /\ CommitError(g, refused) = "None"
  <2>1. t = SwitchedOn(Activated(g, o, TRUE), o)
    BY <1>2 DEF SwitchOn, Activated
  <2>2. g.active
    BY <1>2, CommitErrorNone
  <2>3. /\ Fine(t, todo, {})
        /\ t.exists = g.exists /\ t.enabled = g.enabled /\ t.active = g.active
        /\ t.turnOff = g.turnOff /\ t.flip = g.flip /\ t.kernel = g.kernel
    BY <1>2, <2>1, <2>2, SwitchedOnFine
  <2> QED
    BY <1>2, <1>a, <2>3 DEF PictureKept
<1>3. CASE o \in Composited(g) \ g.on /\ CommitError(g, refused) # "None"
  <2> DEFINE yes == TRUE
  <2>1. t = RevertPending(Activated(g, o, yes), {o})
    BY <1>3 DEF SwitchOn, Activated
  <2>2. yes \in BOOLEAN
    OBVIOUS
  <2>3. o \in g.exists
    BY <1>3 DEF Composited
  <2> HIDE DEF yes
  <2>4. Fine(t, todo, {}) /\ SameButPipelines(g, t)
    BY <2>1, <2>2, <2>3, GivenUpFine
  <2> QED
    BY <1>3, <1>a, <2>4 DEF PictureKept, SameButPipelines
<1> QED
  BY <1>1, <1>2, <1>3

LEMMA SetDpmsModeOnFine ==
    ASSUME NEW g, NEW todo, Fine(g, todo, {}), NEW o, NEW refused,
           NEW t, t = SetDpmsModeOn(g, o, refused)
    PROVE  Fine(t, todo, {}) /\ PictureKept(g, t)
<1> DEFINE c == CheckOutputsAreOn(g)
           s == IF o \in g.turnOff THEN c ELSE SwitchOn(c, o, refused)
           off == s.turnOff \ {o}
<1>1. t = [s EXCEPT !.turnOff = off]
  BY DEF SetDpmsModeOn
<1>2. Fine(c, todo, {}) /\ PictureKept(g, c) /\ c.turnOff = g.turnOff
  BY CheckOutputsAreOnFine, CheckOutputsAreOnFields
  DEF Fine, SameOutputs, PictureKept, SameAsks
<1> HIDE DEF c
<1>3. Fine(s, todo, {}) /\ PictureKept(g, s)
  <2>1. CASE o \in g.turnOff
    BY <1>2, <2>1
  <2>2. CASE o \notin g.turnOff
    <3>1. s = SwitchOn(c, o, refused)
      BY <2>2
    <3> HIDE DEF s
    <3>2. Fine(s, todo, {}) /\ PictureKept(c, s)
      BY <1>2, <3>1, SwitchOnFine
    <3> QED
      BY <1>2, <3>2 DEF PictureKept, SameAsks
  <2> QED
    BY <2>1, <2>2
<1> HIDE DEF s
<1>4. s \in Card /\ off \in SUBSET Outputs /\ (Steady => off = {})
  BY <1>3, CardFields DEF Fine, AnsweredFine
<1> HIDE DEF off
<1>5. /\ t \in Card /\ SameSet(s, t) /\ t.pending = s.pending /\ t.next = s.next
      /\ t.loops = s.loops /\ t.flip = s.flip /\ t.waiting = s.waiting
      /\ t.kernel = s.kernel /\ (Steady => t.turnOff = {})
  BY <1>1, <1>4 DEF Card, SameSet
<1>6. Fine(t, todo, {})
  BY <1>3, <1>5, FlagsFine
<1> QED
  BY <1>3, <1>5, <1>6 DEF PictureKept, SameSet, SameAsks

LEMMA SubsetsAreFinite ==
    ASSUME NEW S \in SUBSET Outputs
    PROVE  IsFiniteSet(S)
BY OutputsAssumption, FS_Subset

LEMMA AllOnFine ==
    ASSUME NEW g, NEW todo, Fine(g, todo, {}), NEW refused
    PROVE  Fine(AllOn(g, refused), todo, {}) /\ PictureKept(g, AllOn(g, refused))
<1> DEFINE S == Composited(g)
           K == {h \in Card : Fine(h, todo, {}) /\ PictureKept(g, h)}
           Q == [s \in SUBSET S |-> K]
<1>1. IsFiniteSet(S)
  BY SubsetsAreFinite, CardFields DEF Fine, Composited
<1>2. g \in K
  BY DEF Fine, PictureKept, SameAsks
<1>3. ASSUME NEW o, NEW h \in K PROVE SetDpmsModeOn(h, o, refused) \in K
  <2> DEFINE t == SetDpmsModeOn(h, o, refused)
  <2>1. Fine(t, todo, {}) /\ PictureKept(h, t)
    BY <1>3, SetDpmsModeOnFine
  <2> HIDE DEF t
  <2>2. t \in K
    BY <1>3, <2>1 DEF Fine, PictureKept, SameAsks
  <2> QED
    BY <2>2 DEF t
<1>4. AllOn(g, refused) = AllOnIn(g, S, refused)
  BY DEF AllOn, AllOnIn
<1> HIDE DEF K, S
<1>5. /\ g \in Q[{}]
      /\ \A s \in SUBSET S : \A x \in s : \A h \in Q[s \ {x}] :
            SetDpmsModeOn(h, x, refused) \in Q[s]
      /\ Q[S] = K
  BY <1>2, <1>3
<1> HIDE DEF Q
<1>6. AllOn(g, refused) \in K
  <2>1. AllOnIn(g, S, refused) \in Q[S]
    BY <1>1, <1>5, AllOnFolds
  <2> QED
    BY <1>4, <1>5, <2>1
<1> QED
  BY <1>6 DEF K

LEMMA FilterFine ==
    ASSUME NEW g, NEW todo, Fine(g, todo, {}), NEW filter, filter \in BOOLEAN,
           NEW t, t = [g EXCEPT !.filter = filter]
    PROVE  Fine(t, todo, {}) /\ PictureKept(g, t)
<1>1. /\ t \in Card /\ SameSet(g, t) /\ t.pending = g.pending /\ t.next = g.next
      /\ t.loops = g.loops /\ t.flip = g.flip /\ t.waiting = g.waiting
      /\ t.kernel = g.kernel /\ t.turnOff = g.turnOff
  BY DEF Fine, Card, SameSet
<1>2. Steady => t.turnOff = {}
  BY <1>1 DEF Fine, AnsweredFine
<1>3. Fine(t, todo, {})
  BY <1>1, <1>2, FlagsFine
<1> QED
  BY <1>1, <1>3 DEF PictureKept, SameSet, SameAsks

LEMMA TurnOutputsOnFine ==
    ASSUME NEW g, NEW todo, Fine(g, todo, {}), NEW refused
    PROVE  /\ Fine(TurnOutputsOn(g, refused), todo, {})
           /\ PictureKept(g, TurnOutputsOn(g, refused))
<1> DEFINE no == FALSE
           h == [g EXCEPT !.filter = no]
           t == AllOn(h, refused)
<1>1. TurnOutputsOn(g, refused) = t
  BY DEF TurnOutputsOn
<1>2. no \in BOOLEAN
  OBVIOUS
<1> HIDE DEF no
<1>3. Fine(h, todo, {}) /\ PictureKept(g, h)
  BY <1>2, FilterFine
<1> HIDE DEF h
<1>4. Fine(t, todo, {}) /\ PictureKept(h, t)
  BY <1>3, AllOnFine
<1> HIDE DEF t
<1>5. PictureKept(g, t)
  BY <1>3, <1>4 DEF PictureKept, SameAsks
<1> QED
  BY <1>1, <1>4, <1>5

-----------------------------------------------------------------------------
(* Configuration of the outputs.                                            *)

LEMMA FlipsKeptOn ==
    ASSUME NEW g, NEW h, NEW t, FlipsKept(g, h), FlipsKept(h, t)
    PROVE  FlipsKept(g, t)
BY DEF FlipsKept

\* The workspace takes in, or drops, one output whose pipeline is as it will stay.
LEMMA EnabledFine ==
    ASSUME NEW g, NEW todo, Fine(g, todo, {}), NEW o \in g.exists,
           NEW e \in SUBSET Outputs, \A p \in Outputs \ {o} : p \in e <=> p \in g.enabled,
           o \in e => g.pending[o].crtc /\ g.next[o].crtc,
           Steady /\ o \in e => o \in g.enabled,
           Steady /\ o \notin e => o \notin g.waiting,
           NEW t, t = [g EXCEPT !.enabled = e]
    PROVE  /\ Fine(t, todo \ {o}, {})
           /\ t.exists = g.exists /\ t.on = g.on /\ t.active = g.active
           /\ t.flip = g.flip /\ t.kernel = g.kernel /\ t.enabled = e
           /\ SameAsks(g, t)
<1>1. /\ t \in Card /\ t.exists = g.exists /\ t.on = g.on /\ t.active = g.active
      /\ t.flip = g.flip /\ t.kernel = g.kernel /\ t.turnOff = g.turnOff
      /\ t.pending = g.pending /\ t.next = g.next /\ t.waiting = g.waiting
      /\ t.loops = g.loops /\ t.enabled = e
  BY DEF Fine, Card
<1>2. PausesFine(t) /\ OffFine(t) /\ FlipsFine(t)
  BY <1>1 DEF Fine, PausesFine, Pauses, OffFine, FlipsFine
<1>3. LitFine(t, todo \ {o})
  <2>1. LitFine(g, todo)
    BY DEF Fine
  <2>2. \A p \in Composited(t) : p # o => p \in Composited(g)
    BY <1>1, CardFields DEF Composited
  <2> QED
    BY <1>1, <2>1, <2>2 DEF LitFine, Composited
<1>4. \A p : Debt(t, {}, p) = Debt(g, {}, p)
  BY <1>1 DEF Debt
<1>5. Staying => OwedFine(t, {})
  BY <1>1, <1>4 DEF Fine, OwedFine
<1>6. ASSUME Steady PROVE AnsweredFine(t, {})
  <2>1. AnsweredFine(g, {})
    BY <1>6 DEF Fine
  <2>2. ASSUME NEW p \in Outputs
        PROVE  /\ p \in t.enabled => p \in g.enabled
               /\ p \in t.waiting => p \in t.enabled
    BY <1>1, <1>6, <2>1 DEF AnsweredFine
  <2> QED
    BY <1>1, <1>4, <2>1, <2>2 DEF AnsweredFine
<1> QED
  BY <1>1, <1>2, <1>3, <1>5, <1>6 DEF Fine, SameAsks

\* Something shall be drawn on the outputs in S.
LEMMA RepaintFine ==
    ASSUME NEW g, NEW todo, Fine(g, todo, {}), NEW S,
           NEW t, t = WithLoops(g, RepaintOn(g, S))
    PROVE  /\ Fine(t, todo, {}) /\ SameOutputs(g, t)
           /\ t.flip = g.flip /\ t.kernel = g.kernel
           /\ SameAsks(g, t)
<1> DEFINE f == RepaintOn(g, S)
<1>1. t = WithLoops(g, f) /\ LoopsChange(g, f, {}, {})
  BY RepaintChange
<1> HIDE DEF f
<1>2. /\ Fine(t, todo, {}) /\ SameOutputs(g, t) /\ t.flip = g.flip
      /\ t.kernel = g.kernel /\ t.waiting = g.waiting
  BY <1>1, LoopsFine
<1> QED
  BY <1>2 DEF SameAsks, SameOutputs

\* Once the change of an output is applied, its pipeline is configured.
LEMMA ApplyQueuedChangesFine ==
    ASSUME NEW g, NEW todo, Fine(g, todo, {}), NEW o \in g.exists,
           NEW enable \in BOOLEAN, Steady => (o \in g.enabled <=> enable), NEW refused,
           NEW t, t = ApplyQueuedChanges(g, o, enable, refused)
    PROVE  /\ Fine(t, todo \ {o}, {})
           /\ t.exists = g.exists /\ t.active = g.active /\ FlipsKept(g, t)
           /\ \A p \in Outputs \ {o} : p \in t.enabled <=> p \in g.enabled
           /\ Steady /\ Waits(g, todo) => Waits(t, todo \ {o})
<1> DEFINE a == ApplyPending(g, {o})
           enabled == enable /\ g.pending[o].crtc
           e == IF enabled THEN a.enabled \cup {o} ELSE a.enabled \ {o}
           u == [a EXCEPT !.enabled = e]
           s == IF ~enabled /\ g.pending[o].needsModeset
                THEN MaybeModeset(u, refused) ELSE u
           k == WithLoops(s, RepaintOn(s, {o}))
<1>1. t = IF enabled /\ o \in g.on THEN TurnOutputsOn(k, refused) ELSE k
  BY DEF ApplyQueuedChanges, OnLoops, WithLoops, RepaintOn
<1>2. g \in Card /\ o \in Outputs
  BY CardFields DEF Fine
<1>3. /\ Fine(a, todo, {}) /\ SameButPipelines(g, a)
      /\ a.pending[o] = g.pending[o] /\ a.next[o] = g.pending[o]
      /\ a.pending = g.pending
      /\ \A p \in Outputs : p # o => a.next[p] = g.next[p]
  BY <1>2, ApplyPendingFine, ApplyPendingFields
<1> HIDE DEF a
<1> DEFINE later == todo \ {o}
<1>a. Waits(g, todo) => Waits(a, later)
  <2>1. \A p \in g.exists :
           \/ Asks(a.pending[p], g.pending[p]) /\ Asks(a.next[p], g.pending[p])
           \/ /\ p \in later \/ p \notin todo
              /\ Asks(a.pending[p], g.pending[p]) /\ Asks(a.next[p], g.next[p])
    BY <1>2, <1>3, CardFields DEF Asks
  <2> HIDE DEF later
  <2> QED
    BY <1>3, <2>1, PipelinesWait DEF SameButPipelines
<1>4. /\ e \in SUBSET Outputs
      /\ \A p \in Outputs \ {o} : p \in e <=> p \in g.enabled
      /\ o \in e <=> enabled
  BY <1>2, <1>3, CardFields DEF SameButPipelines
<1> HIDE DEF e
<1>5. enabled => enable /\ g.pending[o].crtc
  OBVIOUS
<1>6. Steady /\ o \notin e => o \notin a.waiting
  <2>1. Steady /\ o \in g.waiting => o \in g.enabled /\ g.pending[o].crtc
    BY <1>2 DEF Fine, AnsweredFine, Lights
  <2> QED
    BY <1>3, <1>4, <2>1 DEF SameButPipelines
<1> HIDE DEF enabled
<1>7. /\ Fine(u, todo \ {o}, {})
      /\ u.exists = g.exists /\ u.on = g.on /\ u.active = g.active
      /\ u.flip = g.flip /\ u.kernel = g.kernel /\ u.enabled = e
      /\ SameAsks(a, u)
  <2>1. /\ o \in a.exists /\ a.enabled = g.enabled
        /\ o \in e => a.pending[o].crtc /\ a.next[o].crtc
        /\ Steady /\ o \in e => o \in a.enabled
    BY <1>3, <1>4, <1>5 DEF SameButPipelines
  <2>2. /\ Fine(u, todo \ {o}, {})
        /\ u.exists = a.exists /\ u.on = a.on /\ u.active = a.active
        /\ u.flip = a.flip /\ u.kernel = a.kernel /\ u.enabled = e
        /\ SameAsks(a, u)
    BY <1>3, <1>4, <1>6, <2>1, EnabledFine
  <2> QED
    BY <1>3, <2>2 DEF SameButPipelines
<1> HIDE DEF u
<1>8. /\ Fine(s, todo \ {o}, {}) /\ SameSet(u, s) /\ FlipsKept(u, s)
      /\ Steady /\ Waits(u, later) => Waits(s, later)
  BY <1>7, MaybeModesetFine DEF SameSet, FlipsKept
<1> HIDE DEF s
<1>9. /\ Fine(k, todo \ {o}, {}) /\ SameOutputs(s, k)
      /\ k.flip = s.flip /\ k.kernel = s.kernel /\ SameAsks(s, k)
  BY <1>8, RepaintFine
<1> HIDE DEF k
<1>10. Fine(t, todo \ {o}, {}) /\ PictureKept(k, t)
  BY <1>1, <1>9, TurnOutputsOnFine DEF PictureKept, SameAsks
<1>11. FlipsKept(g, t)
  BY <1>7, <1>8, <1>9, <1>10 DEF FlipsKept, PictureKept
<1>12. t.exists = g.exists /\ t.active = g.active /\ t.enabled = e
  BY <1>7, <1>8, <1>9, <1>10 DEF SameSet, SameOutputs, PictureKept
<1>13. ASSUME Steady, Waits(g, todo) PROVE Waits(t, later)
  <2>1. Waits(s, later)
    BY <1>a, <1>7, <1>8, <1>13, SameAsksWait
  <2>2. SameAsks(s, t)
    BY <1>9, <1>10, <1>13 DEF PictureKept, SameAsks
  <2> QED
    BY <2>1, <2>2, SameAsksWait
<1> QED
  BY <1>4, <1>10, <1>11, <1>12, <1>13

\* Other settings are asked for; only the outputs in "later" are without a CRTC.
LEMMA PendingFine ==
    ASSUME NEW g, NEW todo, NEW later, todo \subseteq later, Fine(g, todo, {}),
           NEW t \in Card, SameButPipelines(g, t), t.next = g.next,
           \A o \in Outputs : t.pending[o].active = g.pending[o].active,
           \A o \in Composited(g) \ later : t.pending[o].crtc,
           Steady => \A o \in Outputs :
              /\ o \in g.enabled \/ o \notin g.exists => t.pending[o].enabled
              /\ o \in g.waiting => t.pending[o].crtc
    PROVE  Fine(t, later, {})
<1>1. PausesFine(t) /\ FlipsFine(t)
  BY DEF Fine, PausesFine, Pauses, FlipsFine, SameButPipelines
<1>2. OffFine(t)
  BY CardFields DEF Fine, OffFine, SameButPipelines
<1>3. LitFine(t, later)
  <2>1. LitFine(g, todo) /\ Composited(t) = Composited(g)
    BY DEF Fine, Composited, SameButPipelines
  <2>2. \A o \in g.exists : o \in Outputs
    BY CardFields DEF Fine
  <2> QED
    BY <2>1, <2>2 DEF LitFine, SameButPipelines
<1>4. Staying => OwedFine(t, {})
  BY DEF Fine, OwedFine, Debt, SameButPipelines
<1>5. ASSUME Steady PROVE AnsweredFine(t, {})
  <2>1. AnsweredFine(g, {})
    BY <1>5 DEF Fine
  <2>2. \A o \in Outputs : Debt(t, {}, o) = Debt(g, {}, o)
    BY DEF Debt, SameButPipelines
  <2> QED
    BY <1>5, <2>1, <2>2 DEF AnsweredFine, SameButPipelines, Lights
<1> QED
  BY <1>1, <1>2, <1>3, <1>4, <1>5 DEF Fine

LEMMA AssignedFields ==
    ASSUME NEW g \in Card, NEW a,
           a = [g EXCEPT !.pending = [o \in Outputs |->
                   [g.pending[o] EXCEPT !.crtc = o \in g.exists /\ g.pending[o].enabled]]]
    PROVE  /\ a \in Card /\ SameButPipelines(g, a) /\ a.next = g.next
           /\ \A o \in Outputs :
                 /\ a.pending[o].active = g.pending[o].active
                 /\ a.pending[o].enabled = g.pending[o].enabled
                 /\ a.pending[o].crtc <=> o \in g.exists /\ g.pending[o].enabled
<1> DEFINE f == [o \in Outputs |->
                    [g.pending[o] EXCEPT !.crtc = o \in g.exists /\ g.pending[o].enabled]]
<1>1. ASSUME NEW o \in Outputs
      PROVE  /\ f[o] \in PipelineState
             /\ f[o].active = g.pending[o].active
             /\ f[o].enabled = g.pending[o].enabled
             /\ f[o].crtc <=> o \in g.exists /\ g.pending[o].enabled
  <2> DEFINE crtc == o \in g.exists /\ g.pending[o].enabled
  <2>1. g.pending[o] \in PipelineState /\ (crtc \in BOOLEAN)
    BY CardFields
  <2>2. f[o] = [g.pending[o] EXCEPT !.crtc = crtc]
    OBVIOUS
  <2> HIDE DEF crtc, f
  <2>3. /\ f[o] \in PipelineState
        /\ f[o].active = g.pending[o].active
        /\ f[o].enabled = g.pending[o].enabled
        /\ f[o].crtc = crtc
    BY <2>1, <2>2 DEF PipelineState
  <2> QED
    BY <2>3 DEF crtc
<1>2. f \in [Outputs -> PipelineState]
  BY <1>1
<1>3. a = [g EXCEPT !.pending = f]
  OBVIOUS
<1> HIDE DEF f
<1>4. a \in Card /\ SameButPipelines(g, a) /\ a.next = g.next /\ a.pending = f
  BY <1>2, <1>3 DEF Card, SameButPipelines
<1> QED
  BY <1>1, <1>4

LEMMA ConfiguredFields ==
    ASSUME NEW g \in Card, NEW t, t = Configured(g)
    PROVE  /\ t \in Card /\ SameButPipelines(g, t) /\ t.next = g.next
           /\ \A o \in Outputs :
                 /\ t.pending[o].active = g.pending[o].active
                 /\ t.pending[o].enabled = g.pending[o].enabled
                 /\ t.pending[o].crtc <=> o \in g.exists /\ g.pending[o].enabled
<1> DEFINE a == [g EXCEPT !.pending = [o \in Outputs |->
                    [g.pending[o] EXCEPT !.crtc = o \in g.exists /\ g.pending[o].enabled]]]
           needed == \E o \in Outputs :
                        (IF a.pending[o].crtc THEN a.pending[o].mode ELSE Dark) # g.kernel[o]
<1>1. t = SetNeedsModeset(a, a.exists, needed)
  BY DEF Configured, Card
<1>2. needed \in BOOLEAN
  OBVIOUS
<1> HIDE DEF needed
<1>3. /\ a \in Card /\ SameButPipelines(g, a) /\ a.next = g.next
      /\ \A o \in Outputs :
            /\ a.pending[o].active = g.pending[o].active
            /\ a.pending[o].enabled = g.pending[o].enabled
            /\ a.pending[o].crtc <=> o \in g.exists /\ g.pending[o].enabled
  BY AssignedFields
<1> HIDE DEF a
<1>4. /\ t \in Card /\ SameButPipelines(a, t) /\ t.next = a.next
      /\ \A o \in Outputs : Alike(t.pending[o], a.pending[o])
  BY <1>1, <1>2, <1>3, SetNeedsModesetFields
<1> QED
  BY <1>3, <1>4 DEF Alike, SameButPipelines

\* As long as all outputs are lit, the pipelines are told whether they show what they
\* ask for.
LEMMA ConfiguredDue ==
    ASSUME NEW g, NEW todo, Fine(g, todo, {}), Steady, NEW t, t = Configured(g)
    PROVE  Due(t)
<1> DEFINE a == [g EXCEPT !.pending = [o \in Outputs |->
                    [g.pending[o] EXCEPT !.crtc = o \in g.exists /\ g.pending[o].enabled]]]
           wanted(o) == IF a.pending[o].crtc THEN a.pending[o].mode ELSE Dark
           needed == \E o \in Outputs : wanted(o) # g.kernel[o]
<1>1. t = SetNeedsModeset(a, a.exists, needed)
  BY DEF Configured, Fine, Card
<1>2. needed \in BOOLEAN
  OBVIOUS
<1>3. g \in Card /\ g.exists \subseteq Outputs
  BY CardFields DEF Fine
<1>4. /\ a \in Card /\ SameButPipelines(g, a)
      /\ \A o \in Outputs : a.pending[o].active = g.pending[o].active
  BY <1>3, AssignedFields
<1>5. \A o \in g.exists : a.pending[o].active
  <2>1. LitFine(g, todo) /\ g.on = Outputs
    BY DEF Fine, AnsweredFine
  <2> QED
    BY <1>3, <1>4, <2>1 DEF LitFine
<1>6. needed \/ \A o \in g.exists : Shown(a.pending[o]) = g.kernel[o]
  BY <1>3, <1>5 DEF Shown
<1> HIDE DEF a, needed
<1>7. /\ SameButPipelines(a, t)
      /\ \A o \in Outputs : /\ Alike(t.pending[o], a.pending[o])
                            /\ t.pending[o].mode = a.pending[o].mode
      /\ \A o \in g.exists : t.pending[o].needsModeset = needed
  BY <1>1, <1>2, <1>3, <1>4, SetNeedsModesetFields, SetNeedsModesetFlag
  DEF SameButPipelines
<1>8. /\ t.exists = g.exists /\ t.waiting = g.waiting /\ t.kernel = g.kernel
      /\ \A o \in g.exists : Shown(t.pending[o]) = Shown(a.pending[o])
  BY <1>3, <1>4, <1>7 DEF SameButPipelines, Alike, Shown
<1>9. CASE g.exists = {}
  <2>1. g.waiting \subseteq g.exists
    BY DEF Fine, OwedFine, Steady, Staying
  <2> QED
    BY <1>8, <1>9, <2>1 DEF Due
<1>10. CASE g.exists # {} /\ needed
  BY <1>7, <1>8, <1>10 DEF Due, NeedsModeset
<1>11. CASE ~needed
  BY <1>6, <1>8, <1>11 DEF Due
<1> QED
  BY <1>9, <1>10, <1>11

\* The test of the configuration gives the outputs that are wanted a CRTC; it is for
\* the pipelines of all outputs to take it over.
LEMMA ConfiguredFine ==
    ASSUME NEW g, NEW todo, todo \subseteq g.exists, Fine(g, todo, {}),
           NEW t, t = Configured(g)
    PROVE  Fine(t, g.exists, {})
<1>1. /\ t \in Card /\ SameButPipelines(g, t) /\ t.next = g.next
      /\ \A o \in Outputs :
            /\ t.pending[o].active = g.pending[o].active
            /\ t.pending[o].enabled = g.pending[o].enabled
            /\ t.pending[o].crtc <=> o \in g.exists /\ g.pending[o].enabled
  BY ConfiguredFields DEF Fine
<1>2. ASSUME Steady, NEW o \in Outputs
      PROVE  /\ o \in g.enabled \/ o \notin g.exists => t.pending[o].enabled
             /\ o \in g.waiting => t.pending[o].crtc
  <2>1. AnsweredFine(g, {}) /\ g.waiting \subseteq g.exists
    BY <1>2 DEF Fine, OwedFine, Steady, Staying
  <2> QED
    BY <1>1, <2>1 DEF AnsweredFine
<1>3. \A o \in Composited(g) \ g.exists : t.pending[o].crtc
  BY DEF Composited
<1> QED
  BY <1>1, <1>2, <1>3, PendingFine

\* Where nothing is disabled, a configuration enables what is enabled.
AsEnabled(c, S, enable) == Steady => \A p \in S : p \in c.enabled <=> p \in enable

LEMMA ApplyAllFine ==
    ASSUME NEW c, NEW todo, Fine(c, todo, {}), NEW S, S \subseteq c.exists, NEW enable,
           AsEnabled(c, S, enable), NEW refused,
           NEW t, t = ApplyAll(c, S, enable, refused)
    PROVE  /\ Fine(t, todo \ S, {})
           /\ t.exists = c.exists /\ t.active = c.active /\ FlipsKept(c, t)
           /\ \A p \in Outputs \ S : p \in t.enabled <=> p \in c.enabled
           /\ Steady /\ Waits(c, todo) => Waits(t, todo \ S)
<1> DEFINE Kept(h, s) == /\ Fine(h, todo \ s, {})
                         /\ h.exists = c.exists /\ h.active = c.active
                         /\ FlipsKept(c, h)
                         /\ Steady /\ Waits(c, todo) => Waits(h, todo \ s)
                         /\ \A p \in Outputs \ s : p \in h.enabled <=> p \in c.enabled
           Q == [s \in SUBSET S |-> {h \in Card : Kept(h, s)}]
<1>1. IsFiniteSet(S) /\ S \subseteq Outputs
  BY SubsetsAreFinite, CardFields DEF Fine
<1>2. c \in Q[{}]
  <2>1. todo \ {} = todo /\ c \in Card
    BY DEF Fine
  <2> QED
    BY <2>1 DEF FlipsKept
<1>3. ASSUME NEW s \in SUBSET S, NEW x \in s, NEW h \in Q[s \ {x}]
      PROVE  ApplyQueuedChanges(h, x, x \in enable, refused) \in Q[s]
  <2> DEFINE want == x \in enable
             u == ApplyQueuedChanges(h, x, want, refused)
             before == todo \ (s \ {x})
  <2>1. s \ {x} \in SUBSET S
    OBVIOUS
  <2>2. Kept(h, s \ {x})
    BY <2>1
  <2>3. /\ Fine(h, before, {}) /\ h.exists = c.exists /\ h.active = c.active
        /\ FlipsKept(c, h) /\ x \in h.exists /\ x \in Outputs
        /\ Steady /\ Waits(c, todo) => Waits(h, before)
        /\ \A p \in Outputs \ (s \ {x}) : p \in h.enabled <=> p \in c.enabled
    BY <1>1, <2>2
  <2>4. before \ {x} = todo \ s
    OBVIOUS
  <2>5. (want \in BOOLEAN) /\ (Steady => (x \in h.enabled <=> want))
    BY <2>3 DEF AsEnabled
  <2>6. u = ApplyQueuedChanges(h, x, want, refused)
    OBVIOUS
  <2> HIDE DEF Kept, Q, before, want, u
  <2>7. /\ Fine(u, before \ {x}, {})
        /\ u.exists = h.exists /\ u.active = h.active /\ FlipsKept(h, u)
        /\ Steady /\ Waits(h, before) => Waits(u, before \ {x})
        /\ \A p \in Outputs \ {x} : p \in u.enabled <=> p \in h.enabled
    <3>1. Fine(h, before, {}) /\ x \in h.exists
      BY <2>3
    <3>2. Steady => (x \in h.enabled <=> want)
      BY <2>5
    <3>3. want \in BOOLEAN
      BY <2>5
    <3> QED
      BY <2>6, <3>1, <3>2, <3>3, ApplyQueuedChangesFine
  <2>8. Kept(u, s)
    <3>1. FlipsKept(c, u)
      BY <2>3, <2>7, FlipsKeptOn
    <3>2. \A p \in Outputs \ s : p \in u.enabled <=> p \in c.enabled
      BY <2>3, <2>7
    <3> QED
      BY <2>3, <2>4, <2>7, <3>1, <3>2 DEF Kept
  <2>9. u \in Card
    BY <2>7 DEF Fine
  <2> QED
    BY <2>8, <2>9 DEF Q, u, want
<1>4. Q[S] \subseteq {h \in Card : Kept(h, S)}
  OBVIOUS
<1> HIDE DEF Q, Kept
<1>5. \A s \in SUBSET S : \A x \in s : \A h \in Q[s \ {x}] :
         ApplyQueuedChanges(h, x, x \in enable, refused) \in Q[s]
  BY <1>3
<1>6. ApplyAll(c, S, enable, refused) \in Q[S]
  BY <1>1, <1>2, <1>5, ApplyQueuedFolds
<1>7. Kept(t, S)
  BY <1>4, <1>6
<1> QED
  BY <1>7 DEF Kept

\* The settings of the outputs as the user wants them.
Queued(g, enable, mode) ==
    [g EXCEPT !.pending = [o \in Outputs |-> IF o \in g.exists
        THEN [@[o] EXCEPT !.enabled = o \in enable, !.mode = mode[o]] ELSE @[o]]]

LEMMA QueuedFields ==
    ASSUME NEW g \in Card, NEW enable, NEW mode \in [Outputs -> Modes],
           NEW t, t = Queued(g, enable, mode)
    PROVE  /\ t \in Card /\ SameButPipelines(g, t) /\ t.next = g.next
           /\ \A o \in Outputs :
                 /\ t.pending[o].active = g.pending[o].active
                 /\ t.pending[o].crtc = g.pending[o].crtc
                 /\ o \in g.exists => (t.pending[o].enabled <=> o \in enable)
                 /\ o \notin g.exists => t.pending[o] = g.pending[o]
<1> DEFINE f == [o \in Outputs |-> IF o \in g.exists
                    THEN [g.pending[o] EXCEPT !.enabled = o \in enable, !.mode = mode[o]]
                    ELSE g.pending[o]]
<1>1. t = [g EXCEPT !.pending = f]
  BY DEF Queued, Card
<1>2. ASSUME NEW o \in Outputs
      PROVE  /\ f[o] \in PipelineState
             /\ f[o].active = g.pending[o].active
             /\ f[o].crtc = g.pending[o].crtc
             /\ o \in g.exists => (f[o].enabled <=> o \in enable)
             /\ o \notin g.exists => f[o] = g.pending[o]
  <2> DEFINE enabled == o \in enable
             c == [g.pending[o] EXCEPT !.enabled = enabled, !.mode = mode[o]]
  <2>1. g.pending[o] \in PipelineState /\ (enabled \in BOOLEAN) /\ mode[o] \in Modes
    BY CardFields
  <2>2. f[o] = IF o \in g.exists THEN c ELSE g.pending[o]
    OBVIOUS
  <2> HIDE DEF enabled, f
  <2>3. /\ c \in PipelineState /\ c.active = g.pending[o].active
        /\ c.crtc = g.pending[o].crtc /\ c.enabled = enabled
    BY <2>1 DEF PipelineState
  <2> HIDE DEF c
  <2> QED
    BY <2>1, <2>2, <2>3 DEF enabled
<1>3. f \in [Outputs -> PipelineState]
  BY <1>2
<1> HIDE DEF f
<1>4. /\ t \in Card /\ SameButPipelines(g, t) /\ t.next = g.next /\ t.pending = f
  BY <1>1, <1>3 DEF Card, SameButPipelines
<1> QED
  BY <1>2, <1>4

LEMMA QueuedFine ==
    ASSUME NEW g, Fine(g, {}, {}), NEW enable, Steady => enable = g.enabled,
           NEW mode \in [Outputs -> Modes], NEW t, t = Queued(g, enable, mode)
    PROVE  Fine(t, {}, {}) /\ SameButPipelines(g, t)
<1>1. /\ t \in Card /\ SameButPipelines(g, t) /\ t.next = g.next
      /\ \A o \in Outputs :
            /\ t.pending[o].active = g.pending[o].active
            /\ t.pending[o].crtc = g.pending[o].crtc
            /\ o \in g.exists => (t.pending[o].enabled <=> o \in enable)
            /\ o \notin g.exists => t.pending[o] = g.pending[o]
  BY QueuedFields DEF Fine
<1> DEFINE none == {}
<1>2. \A o \in Composited(g) \ none : t.pending[o].crtc
  <2>1. LitFine(g, {})
    BY DEF Fine
  <2>2. \A o \in Composited(g) : o \in Outputs /\ o \in Composited(g) \ {}
    BY CardFields DEF Fine, Composited
  <2> QED
    BY <1>1, <2>1, <2>2 DEF LitFine
<1>3. ASSUME Steady, NEW o \in Outputs
      PROVE  /\ o \in g.enabled \/ o \notin g.exists => t.pending[o].enabled
             /\ o \in g.waiting => t.pending[o].crtc
  <2>1. AnsweredFine(g, {})
    BY <1>3 DEF Fine
  <2> QED
    BY <1>1, <1>3, <2>1 DEF AnsweredFine, Lights
<1>4. Fine(g, none, {}) /\ none \subseteq none
  OBVIOUS
<1> HIDE DEF none
<1>5. Fine(t, none, {})
  BY <1>1, <1>2, <1>3, <1>4, PendingFine
<1> QED
  BY <1>1, <1>5 DEF none

\* applyOutputChanges: either the configuration is applied to every output, or the
\* pipelines ask for what they asked for before.
LEMMA ApplyOutputChangesKeeps ==
    ASSUME NEW g, Fine(g, {}, {}), NEW enable, Steady => enable = g.enabled,
           NEW mode \in [Outputs -> Modes], NEW refused,
           NEW t, t = ApplyOutputChanges(g, enable, mode, refused)
    PROVE  Keeps(g, t)
<1> DEFINE q == Queued(g, enable, mode)
           r == RevertPending(q, g.exists)
           c == Configured(q)
           S1 == g.exists \cap enable
           S2 == g.exists \ enable
           u == ApplyAll(c, S1, enable, refused)
           v == ApplyAll(u, S2, enable, refused)
           New == Composited(v) \ Composited(g)
           all == g.exists
<1>1. g \in Card /\ g.exists \subseteq Outputs
  BY CardFields DEF Fine
<1>2. \/ t = r
      \/ t = WithLoops(v, RepaintOn(v, New))
  BY DEF ApplyOutputChanges, RepaintNew, Queued, ApplyAll, OnLoops, WithLoops, RepaintOn
<1>3. Fine(q, {}, {}) /\ SameButPipelines(g, q)
  BY QueuedFine
<1>4. /\ r \in Card /\ Fine(r, {}, {}) /\ SameButPipelines(g, r)
      /\ Waits(g, {}) => Waits(r, {})
  <2>1. /\ q.next = g.next
        /\ \A o \in Outputs : o \notin g.exists => q.pending[o] = g.pending[o]
    BY <1>1, QueuedFields
  <2>2. q \in Card
    BY <1>3 DEF Fine
  <2> HIDE DEF q
  <2>3. /\ r \in Card /\ SameButPipelines(q, r) /\ r.next = q.next
        /\ \A o \in Outputs : r.pending[o] = IF o \in g.exists THEN q.next[o]
                                                               ELSE q.pending[o]
    BY <2>2, RevertPendingFields
  <2> HIDE DEF r
  <2>4. SameButPipelines(g, r)
    BY <1>3, <2>3 DEF SameButPipelines
  <2>5. \A o \in Outputs :
           /\ Alike(r.pending[o], g.pending[o]) \/ Alike(r.pending[o], g.next[o])
           /\ Alike(r.next[o], g.pending[o]) \/ Alike(r.next[o], g.next[o])
           /\ o \notin g.exists => Alike(r.pending[o], g.pending[o])
    BY <2>1, <2>3 DEF Alike
  <2>6. Fine(r, {}, {})
    BY <2>3, <2>4, <2>5, PipelinesFine
  <2>7. \A o \in g.exists :
           /\ o \notin {}
           /\ Asks(r.pending[o], g.next[o]) /\ Asks(r.next[o], g.next[o])
    BY <1>1, <2>1, <2>3 DEF Asks
  <2>8. Waits(g, {}) => Waits(r, {})
    BY <2>4, <2>7, PipelinesWait DEF SameButPipelines
  <2> QED
    BY <2>3, <2>4, <2>6, <2>8
<1> HIDE DEF q
<1>5. Fine(c, all, {}) /\ SameButPipelines(q, c) /\ (Steady => Due(c))
  <2>1. Fine(c, q.exists, {})
    BY <1>3, ConfiguredFine
  <2>2. SameButPipelines(q, c)
    BY <1>3, ConfiguredFields DEF Fine
  <2>3. Steady => Due(c)
    BY <1>3, ConfiguredDue
  <2> QED
    BY <1>3, <2>1, <2>2, <2>3 DEF SameButPipelines
<1> HIDE DEF c
<1>6. /\ c.exists = g.exists /\ c.enabled = g.enabled /\ c.flip = g.flip
      /\ c.kernel = g.kernel
  BY <1>3, <1>5 DEF SameButPipelines
<1>a. Steady /\ Waits(g, {}) => Waits(c, all)
  BY <1>5, <1>6 DEF Waits, Settled
<1>7. /\ S1 \subseteq c.exists /\ S2 \subseteq c.exists
      /\ all \ S1 = S2 /\ S2 \ S2 = {} /\ S2 \subseteq Outputs \ S1
      /\ \A p \in S1 : p \in enable
      /\ \A p \in S2 : p \notin enable
  BY <1>1, <1>6
<1> HIDE DEF S1, S2, all
<1>8. /\ Fine(u, S2, {}) /\ u.exists = c.exists /\ FlipsKept(c, u)
      /\ \A p \in Outputs \ S1 : p \in u.enabled <=> p \in c.enabled
      /\ Steady /\ Waits(c, all) => Waits(u, S2)
  <2>1. AsEnabled(c, S1, enable)
    BY <1>6 DEF AsEnabled
  <2>2. Fine(c, all, {}) /\ S1 \subseteq c.exists
    BY <1>5, <1>7
  <2>3. /\ Fine(u, all \ S1, {})
        /\ u.exists = c.exists /\ u.active = c.active /\ FlipsKept(c, u)
        /\ \A p \in Outputs \ S1 : p \in u.enabled <=> p \in c.enabled
        /\ Steady /\ Waits(c, all) => Waits(u, all \ S1)
    BY <2>1, <2>2, ApplyAllFine
  <2> HIDE DEF u
  <2> QED
    BY <1>7, <2>3
<1> HIDE DEF u
<1>9. Fine(v, {}, {}) /\ FlipsKept(u, v) /\ (Steady /\ Waits(u, S2) => Waits(v, {}))
  <2>1. AsEnabled(u, S2, enable)
    BY <1>6, <1>7, <1>8 DEF AsEnabled
  <2>2. /\ Fine(v, S2 \ S2, {}) /\ FlipsKept(u, v)
        /\ Steady /\ Waits(u, S2) => Waits(v, S2 \ S2)
    BY <1>7, <1>8, <2>1, ApplyAllFine
  <2> QED
    BY <1>7, <2>2
<1> HIDE DEF v, New
<1>10. CASE t = r
  BY <1>4, <1>10 DEF Keeps, ModesetIdle, WaitKept, SameButPipelines
<1>11. CASE t = WithLoops(v, RepaintOn(v, New))
  <2>1. /\ Fine(t, {}, {}) /\ t.flip = v.flip /\ t.kernel = v.kernel
        /\ SameAsks(v, t)
    BY <1>9, <1>11, RepaintFine
  <2>2. FlipsKept(c, v)
    BY <1>8, <1>9, FlipsKeptOn
  <2>3. WaitKept(g, t)
    BY <1>a, <1>8, <1>9, <2>1, SameAsksWait DEF WaitKept
  <2> QED
    BY <1>6, <2>1, <2>2, <2>3 DEF Keeps, ModesetIdle, FlipsKept
<1> QED
  BY <1>2, <1>10, <1>11

-----------------------------------------------------------------------------
(* Hot-plug, and taking the card over again.                                *)

\* The loops of the outputs that leave are gone with them.
Reset(g, gone) ==
    [o \in Outputs |-> IF o \in gone THEN InitialLoop ELSE g.loops[o]]

LEMMA RemoveOutputsFields ==
    ASSUME NEW g \in Card, NEW gone \in SUBSET Outputs, NEW t, t = RemoveOutputs(g, gone)
    PROVE  /\ t \in Card
           /\ t.exists = g.exists \ gone /\ t.enabled = g.enabled \ gone
           /\ t.turnOff = g.turnOff \ gone /\ t.on = g.on /\ t.loops = Reset(g, gone)
           /\ t.pending = g.pending /\ t.next = g.next /\ t.flip = g.flip
           /\ t.waiting = g.waiting /\ t.kernel = g.kernel /\ t.active = g.active
<1> DEFINE f == Reset(g, gone)
           x == g.exists \ gone
           e == g.enabled \ gone
           d == g.turnOff \ gone
<1>1. f \in [Outputs -> Loop]
  BY CardFields, InitialLeaves DEF Leaves, Reset
<1>2. x \in SUBSET Outputs /\ e \in SUBSET Outputs /\ d \in SUBSET Outputs
  BY CardFields
<1>3. t = [[g EXCEPT !.loops = f] EXCEPT !.exists = x, !.enabled = e, !.turnOff = d]
  BY DEF RemoveOutputs, OnLoops, Reset, Card
<1> HIDE DEF f, x, e, d
<1>4. /\ t \in Card
      /\ t.exists = x /\ t.enabled = e
      /\ t.turnOff = d /\ t.on = g.on /\ t.loops = f
      /\ t.pending = g.pending /\ t.next = g.next /\ t.flip = g.flip
      /\ t.waiting = g.waiting /\ t.kernel = g.kernel /\ t.active = g.active
  BY <1>1, <1>2, <1>3 DEF Card
<1> QED
  BY <1>4 DEF f, x, e, d

LEMMA RemovedFine ==
    ASSUME NEW g, Fine(g, {}, {}), g.flip = {}, NEW gone \in SUBSET Outputs,
           Staying => gone = {}, NEW t, t = RemoveOutputs(g, gone)
    PROVE  /\ Fine(t, {}, {}) /\ t.flip = {} /\ t.active = g.active
           /\ t.exists = g.exists \ gone
<1>1. /\ t \in Card
      /\ t.exists = g.exists \ gone /\ t.enabled = g.enabled \ gone
      /\ t.turnOff = g.turnOff \ gone /\ t.on = g.on /\ t.loops = Reset(g, gone)
      /\ t.pending = g.pending /\ t.next = g.next /\ t.flip = g.flip
      /\ t.waiting = g.waiting /\ t.kernel = g.kernel /\ t.active = g.active
  BY RemoveOutputsFields DEF Fine
<1>2. ASSUME NEW o \in Outputs
      PROVE  /\ t.loops[o].inhibitCount = Pauses(t, o)
             /\ t.loops[o].timer => t.loops[o].inhibitCount = 0
  <2>1. CASE o \in gone
    <3>1. t.loops[o] = InitialLoop /\ Pauses(t, o) = 0
      BY <1>1, <2>1 DEF Reset, Pauses
    <3> QED
      BY <3>1, InitialLeaves DEF Leaves
  <2>2. CASE o \notin gone
    <3>1. t.loops[o] = g.loops[o] /\ Pauses(t, o) = Pauses(g, o)
      BY <1>1, <2>2 DEF Reset, Pauses
    <3> QED
      BY <3>1 DEF Fine, PausesFine
  <2> QED
    BY <2>1, <2>2
<1>3. OffFine(t) /\ FlipsFine(t) /\ LitFine(t, {})
  BY <1>1 DEF Fine, OffFine, FlipsFine, LitFine, Composited
<1>4. ASSUME Staying
      PROVE  /\ t.exists = g.exists /\ t.enabled = g.enabled /\ t.turnOff = g.turnOff
             /\ \A o \in Outputs : t.loops[o] = g.loops[o]
  BY <1>1, <1>4 DEF Reset
<1>5. \A o : Debt(t, {}, o) = Debt(g, {}, o)
  BY <1>1 DEF Debt
<1>6. Staying => OwedFine(t, {})
  BY <1>1, <1>4, <1>5 DEF Fine, OwedFine
<1>7. ASSUME Steady PROVE AnsweredFine(t, {})
  <2>1. AnsweredFine(g, {}) /\ Staying
    BY <1>7 DEF Fine, Steady, Staying
  <2> QED
    BY <1>1, <1>4, <1>5, <2>1 DEF AnsweredFine
<1> QED
  BY <1>1, <1>2, <1>3, <1>6, <1>7 DEF Fine, PausesFine

LEMMA AddOutputsFields ==
    ASSUME NEW g \in Card, NEW added \in SUBSET Outputs, NEW t, t = AddOutputs(g, added)
    PROVE  /\ t \in Card
           /\ t.exists = g.exists \cup added /\ t.enabled = g.enabled \cup added
           /\ t.on = g.on \cup added /\ t.turnOff = g.turnOff /\ t.loops = g.loops
           /\ t.flip = g.flip /\ t.waiting = g.waiting /\ t.kernel = g.kernel
           /\ t.active = g.active
           /\ \A o \in added : /\ t.pending[o].active /\ t.next[o] = t.pending[o]
                               /\ t.pending[o].enabled = g.pending[o].enabled
           /\ \A o \in Outputs \ added :
                 t.pending[o] = g.pending[o] /\ t.next[o] = g.next[o]
<1> DEFINE f == [o \in Outputs |-> IF o \in added
                    THEN [g.pending[o] EXCEPT !.active = TRUE] ELSE g.pending[o]]
           x == g.exists \cup added
           e == g.enabled \cup added
           n == g.on \cup added
           c == [g EXCEPT !.exists = x, !.enabled = e, !.on = n, !.pending = f]
<1>1. ASSUME NEW o \in Outputs
      PROVE  /\ f[o] \in PipelineState
             /\ f[o].enabled = g.pending[o].enabled
             /\ o \in added => f[o].active
             /\ o \notin added => f[o] = g.pending[o]
  <2> DEFINE p == [g.pending[o] EXCEPT !.active = TRUE]
  <2>1. g.pending[o] \in PipelineState /\ f[o] = IF o \in added THEN p ELSE g.pending[o]
    BY CardFields
  <2>2. p \in PipelineState /\ p.enabled = g.pending[o].enabled /\ p.active
    BY <2>1 DEF PipelineState
  <2> HIDE DEF p, f
  <2> QED
    BY <2>1, <2>2
<1>2. f \in [Outputs -> PipelineState]
  BY <1>1
<1>3. x \in SUBSET Outputs /\ e \in SUBSET Outputs /\ n \in SUBSET Outputs
  BY CardFields
<1>4. t = ApplyPending(c, added)
  BY DEF AddOutputs, Card
<1> HIDE DEF f, x, e, n
<1>5. /\ c \in Card /\ c.exists = x /\ c.enabled = e /\ c.on = n /\ c.pending = f
      /\ c.turnOff = g.turnOff /\ c.loops = g.loops /\ c.next = g.next
      /\ c.flip = g.flip /\ c.waiting = g.waiting /\ c.kernel = g.kernel
      /\ c.active = g.active
  BY <1>2, <1>3 DEF Card
<1> HIDE DEF c
<1>6. /\ t \in Card /\ SameButPipelines(c, t) /\ t.pending = c.pending
      /\ \A o \in Outputs : t.next[o] = IF o \in added THEN c.pending[o] ELSE c.next[o]
  BY <1>4, <1>5, ApplyPendingFields
<1> QED
  BY <1>1, <1>5, <1>6 DEF SameButPipelines, x, e, n

\* New outputs are on, and wait for their configuration.
LEMMA AddedFine ==
    ASSUME NEW g, Fine(g, {}, {}), g.flip = {}, NEW added \in SUBSET Outputs,
           added \cap g.exists = {}, g.active \/ added = {},
           NEW t, t = AddOutputs(g, added)
    PROVE  /\ Fine(t, added, {}) /\ t.flip = {} /\ t.active = g.active
           /\ t.exists = g.exists \cup added
           /\ Staying => added \cap t.waiting = {}
<1>1. /\ t \in Card
      /\ t.exists = g.exists \cup added /\ t.enabled = g.enabled \cup added
      /\ t.on = g.on \cup added /\ t.turnOff = g.turnOff /\ t.loops = g.loops
      /\ t.flip = g.flip /\ t.waiting = g.waiting /\ t.kernel = g.kernel
      /\ t.active = g.active
      /\ \A o \in added : /\ t.pending[o].active /\ t.next[o] = t.pending[o]
                          /\ t.pending[o].enabled = g.pending[o].enabled
      /\ \A o \in Outputs \ added :
            t.pending[o] = g.pending[o] /\ t.next[o] = g.next[o]
  BY AddOutputsFields DEF Fine
<1>2. ASSUME NEW o \in Outputs
      PROVE  /\ t.loops[o].inhibitCount = Pauses(t, o)
             /\ t.loops[o].timer => t.loops[o].inhibitCount = 0
  <2>1. Pauses(t, o) = Pauses(g, o)
    BY <1>1 DEF Pauses, Count
  <2> QED
    BY <1>1, <2>1 DEF Fine, PausesFine
<1>3. OffFine(t) /\ FlipsFine(t)
  BY <1>1, CardFields DEF Fine, OffFine, FlipsFine
<1>4. LitFine(t, added)
  <2>1. LitFine(g, {}) /\ g.exists \subseteq Outputs
    BY CardFields DEF Fine
  <2> QED
    BY <1>1, <2>1 DEF LitFine, Composited
<1>5. \A o : Debt(t, {}, o) = Debt(g, {}, o)
  BY <1>1 DEF Debt
<1>6. ASSUME Staying PROVE OwedFine(t, {}) /\ added \cap t.waiting = {}
  BY <1>1, <1>5, <1>6 DEF Fine, OwedFine
<1>7. ASSUME Steady PROVE AnsweredFine(t, {})
  <2>1. AnsweredFine(g, {}) /\ added \cap t.waiting = {}
    BY <1>6, <1>7 DEF Fine, Steady, Staying
  <2>2. ASSUME NEW o \in Outputs
        PROVE  /\ o \in t.enabled \/ o \notin t.exists => t.pending[o].enabled
               /\ o \in t.enabled => t.next[o].enabled
               /\ o \in t.waiting => /\ o \in t.enabled
                                     /\ Lights(t.pending[o])
                                     /\ Lights(t.next[o])
    <3>1. CASE o \in added
      BY <1>1, <2>1, <3>1 DEF AnsweredFine
    <3>2. CASE o \notin added
      BY <1>1, <2>1, <3>2 DEF AnsweredFine
    <3> QED
      BY <3>1, <3>2
  <2>3. t.on = Outputs
    BY <1>1, <2>1 DEF AnsweredFine
  <2> QED
    BY <1>1, <1>5, <2>1, <2>2, <2>3 DEF AnsweredFine
<1> QED
  BY <1>1, <1>2, <1>3, <1>4, <1>6, <1>7 DEF Fine, PausesFine

\* What the pipelines are left with that the test gave no CRTC.
Lost(c) == {o \in c.exists : ~c.pending[o].crtc}

Dropped(a, lost) ==
    [a EXCEPT !.enabled = @ \ lost,
              !.pending = [o \in Outputs |-> IF o \in lost
                  THEN [@[o] EXCEPT !.enabled = FALSE] ELSE @[o]]]

\* The configuration has passed the test, and outputs without a CRTC are dropped.
LEMMA AppliedFine ==
    ASSUME NEW g, NEW todo, todo \subseteq g.exists, Fine(g, todo, {}),
           NEW c, c = Configured(g), NEW a, a = ApplyPending(c, c.exists),
           NEW lost, lost = Lost(c), NEW t, t = Dropped(a, lost)
    PROVE  /\ Fine(t, {}, {}) /\ t.flip = g.flip
           /\ Steady /\ g.exists \in {{}, Outputs} => Waits(t, {})
<1> DEFINE f == [o \in Outputs |-> IF o \in lost
                    THEN [a.pending[o] EXCEPT !.enabled = FALSE] ELSE a.pending[o]]
           e == a.enabled \ lost
<1>1. Fine(c, g.exists, {}) /\ g \in Card
  BY ConfiguredFine DEF Fine
<1>2. /\ c \in Card /\ SameButPipelines(g, c) /\ c.next = g.next
      /\ \A o \in Outputs :
            /\ c.pending[o].enabled = g.pending[o].enabled
            /\ c.pending[o].crtc <=> o \in g.exists /\ g.pending[o].enabled
  BY <1>1, ConfiguredFields
<1>3. /\ a \in Card /\ SameButPipelines(c, a) /\ a.pending = c.pending
      /\ \A o \in Outputs : a.next[o] = IF o \in c.exists THEN c.pending[o] ELSE c.next[o]
  BY <1>2, ApplyPendingFields
<1>4. Fine(a, g.exists, {})
  BY <1>1, ApplyPendingFine
<1>5. /\ a.exists = g.exists /\ a.waiting = g.waiting /\ a.flip = g.flip
      /\ a.enabled = g.enabled
      /\ \A o \in g.exists : a.next[o] = a.pending[o]
      /\ \A o : o \in lost <=> o \in g.exists /\ ~a.pending[o].crtc
      /\ \A o \in lost : ~g.pending[o].enabled
  BY <1>1, <1>2, <1>3, CardFields DEF SameButPipelines, Lost
<1>6. ASSUME NEW o \in Outputs
      PROVE  /\ f[o] \in PipelineState
             /\ f[o].active = a.pending[o].active /\ f[o].crtc = a.pending[o].crtc
             /\ f[o].mode = a.pending[o].mode
             /\ f[o].needsModeset = a.pending[o].needsModeset
             /\ o \notin lost => f[o] = a.pending[o]
  <2> DEFINE p == [a.pending[o] EXCEPT !.enabled = FALSE]
  <2>1. a.pending[o] \in PipelineState /\ f[o] = IF o \in lost THEN p ELSE a.pending[o]
    BY <1>3, CardFields
  <2>2. /\ p \in PipelineState /\ p.active = a.pending[o].active
        /\ p.crtc = a.pending[o].crtc /\ p.mode = a.pending[o].mode
        /\ p.needsModeset = a.pending[o].needsModeset
    BY <2>1 DEF PipelineState
  <2> HIDE DEF p, f
  <2> QED
    BY <2>1, <2>2
<1>7. f \in [Outputs -> PipelineState] /\ e \in SUBSET Outputs
  BY <1>3, <1>6, CardFields
<1>8. t = [a EXCEPT !.enabled = e, !.pending = f]
  BY <1>3 DEF Card, Dropped
<1> HIDE DEF f, e
<1>9. /\ t \in Card /\ t.exists = a.exists /\ t.enabled = e /\ t.on = a.on
      /\ t.turnOff = a.turnOff /\ t.loops = a.loops /\ t.pending = f
      /\ t.next = a.next /\ t.flip = a.flip /\ t.waiting = a.waiting
      /\ t.kernel = a.kernel /\ t.active = a.active
  BY <1>3, <1>7, <1>8 DEF Card
<1>10. PausesFine(t) /\ FlipsFine(t)
  BY <1>4, <1>9 DEF Fine, PausesFine, Pauses, FlipsFine
<1>11. OffFine(t)
  BY <1>3, <1>4, <1>6, <1>9, CardFields DEF Fine, OffFine
<1>12. LitFine(t, {})
  <2>1. LitFine(a, g.exists) /\ a.exists \subseteq Outputs
    BY <1>3, <1>4, CardFields DEF Fine
  <2>2. \A o \in Composited(t) : o \in Outputs /\ o \in g.exists /\ o \notin lost
    BY <1>3, <1>5, <1>9, CardFields DEF Composited, e
  <2>3. ASSUME NEW o \in Composited(t) PROVE t.pending[o].crtc /\ t.next[o].crtc
    <3>1. o \in Outputs /\ o \in g.exists /\ o \notin lost /\ a.pending[o].crtc
      BY <1>5, <2>2
    <3>2. t.pending[o] = a.pending[o] /\ t.next[o] = a.pending[o]
      BY <1>5, <1>6, <1>9, <3>1
    <3> QED
      BY <3>1, <3>2
  <2>4. ASSUME NEW o \in t.exists \cap t.on PROVE t.pending[o].active /\ t.next[o].active
    <3>1. o \in Outputs /\ a.pending[o].active /\ a.next[o].active
      BY <1>9, <2>1 DEF LitFine
    <3> QED
      BY <1>6, <1>9, <3>1
  <2> QED
    BY <2>3, <2>4 DEF LitFine
<1>13. \A o : Debt(t, {}, o) = Debt(a, {}, o)
  BY <1>9 DEF Debt
<1>14. Staying => OwedFine(t, {})
  BY <1>4, <1>9, <1>13 DEF Fine, OwedFine
<1>15. ASSUME Steady PROVE AnsweredFine(t, {})
  <2>1. AnsweredFine(a, {}) /\ AnsweredFine(g, {}) /\ g.waiting \subseteq g.exists
    BY <1>4, <1>15 DEF Fine, OwedFine, Steady, Staying
  <2>2. ASSUME NEW o \in Outputs
        PROVE  /\ o \in t.enabled \/ o \notin t.exists => t.pending[o].enabled
               /\ o \in t.enabled => t.next[o].enabled
               /\ o \in t.waiting => /\ o \in t.enabled
                                     /\ Lights(t.pending[o])
                                     /\ Lights(t.next[o])
    <3>1. CASE o \in lost
      <4>1. o \in g.exists /\ o \notin g.enabled /\ o \notin t.enabled
        BY <1>5, <1>9, <2>1, <3>1 DEF AnsweredFine, e
      <4> QED
        BY <1>5, <1>9, <2>1, <4>1 DEF AnsweredFine
    <3>2. CASE o \notin lost
      BY <1>5, <1>6, <1>9, <2>1, <3>2 DEF AnsweredFine, e
    <3> QED
      BY <3>1, <3>2
  <2> QED
    BY <1>9, <1>13, <2>1, <2>2 DEF AnsweredFine
<1>16. t.flip = g.flip
  BY <1>5, <1>9
<1>17. ASSUME Steady, g.exists \in {{}, Outputs} PROVE Waits(t, {})
  <2>1. Due(c)
    BY <1>17, ConfiguredDue
  <2>2. Waits(c, c.exists)
    BY <1>2, <1>17, <2>1 DEF Waits, Settled, SameButPipelines
  <2>3. Waits(a, {})
    <3>1. \A o \in c.exists : Asks(a.pending[o], c.pending[o])
                              /\ Asks(a.next[o], c.pending[o])
      BY <1>2, <1>3, CardFields DEF Asks
    <3> QED
      BY <1>3, <2>2, <3>1, PipelinesWait DEF SameButPipelines
  <2>4. \A o \in a.exists : Asks(t.pending[o], a.pending[o]) /\ Asks(t.next[o], a.next[o])
    BY <1>3, <1>6, <1>9, CardFields DEF Asks, Shown
  <2> QED
    BY <1>9, <2>3, <2>4, PipelinesWait
<1> QED
  BY <1>9, <1>10, <1>11, <1>12, <1>14, <1>15, <1>16, <1>17 DEF Fine

\* No configuration has passed the test: the new outputs stay disabled.
LEMMA DisabledFine ==
    ASSUME NEW g, NEW added \in SUBSET Outputs, Fine(g, added, {}),
           added \subseteq g.exists, Staying => added \cap g.waiting = {},
           NEW t, t = DisableOutputs(g, added)
    PROVE  /\ Fine(t, {}, {}) /\ t.flip = g.flip
           /\ Waits(g, {}) => Waits(t, {})
<1> DEFINE f == [o \in Outputs |-> IF o \in added
                    THEN [g.pending[o] EXCEPT !.enabled = FALSE] ELSE g.pending[o]]
           e == g.enabled \ added
           b == [g EXCEPT !.enabled = e, !.pending = f]
<1>1. g \in Card
  BY DEF Fine
<1>2. ASSUME NEW o \in Outputs
      PROVE  /\ f[o] \in PipelineState
             /\ f[o].active = g.pending[o].active
             /\ Asks(f[o], g.pending[o])
             /\ o \notin added => f[o] = g.pending[o]
  <2> DEFINE p == [g.pending[o] EXCEPT !.enabled = FALSE]
  <2>1. g.pending[o] \in PipelineState /\ f[o] = IF o \in added THEN p ELSE g.pending[o]
    BY <1>1, CardFields
  <2>2. /\ p \in PipelineState /\ p.active = g.pending[o].active
        /\ p.crtc = g.pending[o].crtc /\ p.mode = g.pending[o].mode
        /\ p.needsModeset = g.pending[o].needsModeset
    BY <2>1 DEF PipelineState
  <2> HIDE DEF p, f
  <2> QED
    BY <2>1, <2>2 DEF Asks, Shown
<1>3. f \in [Outputs -> PipelineState] /\ e \in SUBSET Outputs
  BY <1>1, <1>2, CardFields
<1>4. t = ApplyPending(b, added)
  BY <1>1 DEF DisableOutputs, Card
<1> HIDE DEF f, e
<1>5. /\ b \in Card /\ b.exists = g.exists /\ b.enabled = e /\ b.on = g.on
      /\ b.turnOff = g.turnOff /\ b.loops = g.loops /\ b.pending = f
      /\ b.next = g.next /\ b.flip = g.flip /\ b.waiting = g.waiting
      /\ b.kernel = g.kernel /\ b.active = g.active
  BY <1>1, <1>3 DEF Card
<1> HIDE DEF b
<1>6. /\ t \in Card /\ SameButPipelines(b, t) /\ t.pending = b.pending
      /\ \A o \in Outputs : t.next[o] = IF o \in added THEN b.pending[o] ELSE b.next[o]
  BY <1>4, <1>5, ApplyPendingFields
<1>7. /\ t.exists = g.exists /\ t.enabled = e /\ t.on = g.on /\ t.active = g.active
      /\ t.turnOff = g.turnOff /\ t.loops = g.loops /\ t.flip = g.flip
      /\ t.waiting = g.waiting /\ t.kernel = g.kernel
      /\ \A o \in Outputs : /\ t.pending[o] = f[o]
                            /\ t.next[o] = IF o \in added THEN f[o] ELSE g.next[o]
  BY <1>5, <1>6 DEF SameButPipelines
<1>8. PausesFine(t) /\ FlipsFine(t)
  BY <1>7 DEF Fine, PausesFine, Pauses, FlipsFine
<1>9. OffFine(t)
  BY <1>1, <1>2, <1>7, CardFields DEF Fine, OffFine
<1>10. LitFine(t, {})
  <2>1. LitFine(g, added) /\ g.exists \subseteq Outputs
    BY <1>1, CardFields DEF Fine
  <2>2. \A o \in Composited(t) : o \in Outputs /\ o \in Composited(g) \ added
    BY <1>7, <2>1 DEF Composited, e
  <2> QED
    BY <1>2, <1>7, <2>1, <2>2 DEF LitFine
<1>11. \A o : Debt(t, {}, o) = Debt(g, {}, o)
  BY <1>7 DEF Debt
<1>12. Staying => OwedFine(t, {})
  BY <1>7, <1>11 DEF Fine, OwedFine
<1>13. ASSUME Steady PROVE AnsweredFine(t, {})
  <2>1. AnsweredFine(g, {}) /\ added \cap g.waiting = {}
    BY <1>13 DEF Fine, Steady, Staying
  <2>2. ASSUME NEW o \in Outputs
        PROVE  /\ o \in t.enabled \/ o \notin t.exists => t.pending[o].enabled
               /\ o \in t.enabled => t.next[o].enabled
               /\ o \in t.waiting => /\ o \in t.enabled
                                     /\ Lights(t.pending[o])
                                     /\ Lights(t.next[o])
    <3>1. CASE o \in added
      BY <1>7, <2>1, <3>1 DEF e
    <3>2. CASE o \notin added
      BY <1>2, <1>7, <2>1, <3>2 DEF AnsweredFine, e
    <3> QED
      BY <3>1, <3>2
  <2> QED
    BY <1>7, <1>11, <2>1, <2>2 DEF AnsweredFine
<1>14. Waits(g, {}) => Waits(t, {})
  <2>1. \A o \in g.exists :
           \/ Asks(t.pending[o], g.pending[o]) /\ Asks(t.next[o], g.pending[o])
           \/ /\ o \in {} \/ o \notin {}
              /\ Asks(t.pending[o], g.pending[o]) /\ Asks(t.next[o], g.next[o])
    BY <1>1, <1>2, <1>7, CardFields DEF Asks
  <2> QED
    BY <1>7, <2>1, PipelinesWait
<1> QED
  BY <1>6, <1>7, <1>8, <1>9, <1>10, <1>12, <1>13, <1>14 DEF Fine

\* Without the session there is no configuration: the new connectors are erased.
LEMMA ErasedFine ==
    ASSUME NEW g, Fine(g, {}, {}), g.flip = {}, ~g.active,
           NEW added \in SUBSET Outputs, added \cap g.exists = {},
           NEW c, c = AddOutputs(g, added), NEW r, r = RevertPending(c, c.exists),
           NEW t, t = EraseConnectors(r, added)
    PROVE  Fine(t, {}, {}) /\ t.flip = {}
<1> DEFINE m == RemoveOutputs(r, added)
           f == [o \in Outputs |-> IF o \in added THEN NewPipeline ELSE m.pending[o]]
           h == [o \in Outputs |-> IF o \in added THEN NewPipeline ELSE m.next[o]]
           w == m.waiting \ added
<1>1. g \in Card
  BY DEF Fine
<1>2. /\ c \in Card
      /\ c.exists = g.exists \cup added /\ c.enabled = g.enabled \cup added
      /\ c.on = g.on \cup added /\ c.loops = g.loops
      /\ c.flip = g.flip /\ c.waiting = g.waiting /\ c.kernel = g.kernel
      /\ c.active = g.active
      /\ \A o \in Outputs \ added :
            c.pending[o] = g.pending[o] /\ c.next[o] = g.next[o]
  BY <1>1, AddOutputsFields
<1>3. /\ r \in Card /\ SameButPipelines(c, r) /\ r.next = c.next
      /\ \A o \in Outputs : r.pending[o] = IF o \in c.exists THEN c.next[o]
                                                             ELSE c.pending[o]
  BY <1>2, RevertPendingFields
<1>4. /\ m \in Card
      /\ m.exists = r.exists \ added /\ m.enabled = r.enabled \ added
      /\ m.on = r.on /\ m.loops = Reset(r, added)
      /\ m.pending = r.pending /\ m.next = r.next /\ m.flip = r.flip
      /\ m.waiting = r.waiting /\ m.kernel = r.kernel /\ m.active = r.active
  BY <1>3, RemoveOutputsFields
<1>5. t = [m EXCEPT !.pending = f, !.next = h, !.waiting = w, !.update = TRUE]
  BY DEF EraseConnectors
<1> HIDE DEF m
<1>6. NewPipeline \in PipelineState
  BY ModesAssumption DEF NewPipeline, PipelineState
<1>7. /\ f \in [Outputs -> PipelineState] /\ h \in [Outputs -> PipelineState]
      /\ w \in SUBSET Outputs
  BY <1>4, <1>6, CardFields
<1>8. /\ \A o \in Outputs \ added :
            /\ f[o] = IF o \in g.exists THEN g.next[o] ELSE g.pending[o]
            /\ h[o] = g.next[o]
      /\ w \subseteq g.waiting /\ w \cap added = {}
  <2>1. ASSUME NEW o \in Outputs \ added
        PROVE  /\ f[o] = IF o \in g.exists THEN g.next[o] ELSE g.pending[o]
               /\ h[o] = g.next[o]
    <3>1. f[o] = r.pending[o] /\ h[o] = r.next[o]
      BY <1>4
    <3>2. o \in c.exists <=> o \in g.exists
      BY <1>2
    <3>3. c.pending[o] = g.pending[o] /\ c.next[o] = g.next[o]
      BY <1>2
    <3> QED
      BY <1>3, <3>1, <3>2, <3>3
  <2>2. w = g.waiting \ added
    BY <1>2, <1>3, <1>4 DEF SameButPipelines
  <2> QED
    BY <2>1, <2>2
<1> HIDE DEF f, h, w
<1>9. /\ t \in Card
      /\ t.pending = f /\ t.next = h /\ t.waiting = w
      /\ t.exists = m.exists /\ t.enabled = m.enabled /\ t.on = m.on
      /\ t.loops = m.loops /\ t.flip = m.flip /\ t.kernel = m.kernel
      /\ t.active = m.active
  <2> DEFINE u == [m EXCEPT !.pending = f, !.next = h]
  <2>1. t = [u EXCEPT !.waiting = w, !.update = TRUE]
    BY <1>4, <1>5 DEF Card
  <2>2. /\ u \in Card /\ u.pending = f /\ u.next = h
        /\ u.exists = m.exists /\ u.enabled = m.enabled /\ u.on = m.on
        /\ u.loops = m.loops /\ u.flip = m.flip /\ u.kernel = m.kernel
        /\ u.active = m.active
    BY <1>4, <1>7 DEF Card
  <2> HIDE DEF u
  <2> QED
    BY <1>7, <2>1, <2>2 DEF Card
<1>10. /\ t.exists = g.exists /\ t.enabled = g.enabled \ added
       /\ t.on = g.on \cup added /\ t.loops = Reset(g, added)
       /\ t.flip = {} /\ t.kernel = g.kernel /\ t.active = g.active
  <2>1. Reset(r, added) = Reset(g, added)
    BY <1>2, <1>3 DEF Reset, SameButPipelines
  <2>2. /\ (g.exists \cup added) \ added = g.exists
        /\ (g.enabled \cup added) \ added = g.enabled \ added
    OBVIOUS
  <2>3. /\ r.exists = g.exists \cup added /\ r.enabled = g.enabled \cup added
        /\ r.on = g.on \cup added /\ r.flip = {} /\ r.kernel = g.kernel
        /\ r.active = g.active
    BY <1>2, <1>3 DEF SameButPipelines
  <2>4. /\ m.exists = g.exists /\ m.enabled = g.enabled \ added
        /\ m.on = g.on \cup added /\ m.flip = {} /\ m.kernel = g.kernel
        /\ m.active = g.active
    BY <1>4, <2>2, <2>3
  <2> QED
    BY <1>4, <1>9, <2>1, <2>4
<1>11. ASSUME NEW o \in Outputs
       PROVE  /\ t.loops[o].inhibitCount = Pauses(t, o)
              /\ t.loops[o].timer => t.loops[o].inhibitCount = 0
  <2>1. CASE o \in added
    <3>1. t.loops[o] = InitialLoop /\ Pauses(t, o) = 0
      BY <1>10, <2>1 DEF Reset, Pauses
    <3> QED
      BY <3>1, InitialLeaves DEF Leaves
  <2>2. CASE o \notin added
    <3>1. t.loops[o] = g.loops[o] /\ Pauses(t, o) = Pauses(g, o)
      BY <1>10, <2>2 DEF Reset, Pauses, Count
    <3> QED
      BY <3>1 DEF Fine, PausesFine
  <2> QED
    BY <2>1, <2>2
<1>12. g.exists \subseteq Outputs \ added
  BY <1>1, CardFields
<1>13. OffFine(t) /\ FlipsFine(t)
  BY <1>8, <1>9, <1>10, <1>12 DEF Fine, OffFine, FlipsFine
<1>14. LitFine(t, {})
  <2>1. LitFine(g, {})
    BY DEF Fine
  <2>2. \A o \in t.exists : t.pending[o] = g.next[o] /\ t.next[o] = g.next[o]
    BY <1>8, <1>9, <1>10, <1>12
  <2>3. \A o \in t.exists \cap t.on : o \in g.exists \cap g.on
    BY <1>10, <1>12
  <2>4. \A o \in Composited(t) : o \in Composited(g) \ {} /\ o \in t.exists
    BY <1>10 DEF Composited
  <2> QED
    BY <2>1, <2>2, <2>3, <2>4 DEF LitFine
<1>15. ASSUME Staying PROVE OwedFine(t, {})
  <2>1. OwedFine(g, {})
    BY <1>15 DEF Fine
  <2>2. t.waiting \subseteq t.exists
    BY <1>8, <1>9, <1>10, <2>1 DEF OwedFine
  <2>3. ASSUME NEW o \in Outputs
        PROVE  t.loops[o].pendingFrameCount >= Debt(t, {}, o)
    <3>1. CASE o \in added
      <4>1. t.loops[o] = InitialLoop /\ Debt(t, {}, o) = 0
        BY <1>8, <1>9, <1>10, <3>1 DEF Reset, Debt, Count
      <4> QED
        BY <4>1, InitialLeaves DEF Leaves
    <3>2. CASE o \notin added
      <4>1. t.loops[o] = g.loops[o] /\ Debt(t, {}, o) <= Debt(g, {}, o)
        BY <1>8, <1>9, <1>10, <3>2 DEF Reset, Debt, Count
      <4>2. g.loops[o].pendingFrameCount >= Debt(g, {}, o)
        BY <2>1 DEF OwedFine
      <4>3. /\ g.loops[o].pendingFrameCount \in Int
            /\ Debt(t, {}, o) \in Int /\ Debt(g, {}, o) \in Int
        BY <1>1, LoopNumbers DEF Debt, Count
      <4> QED
        BY <4>1, <4>2, <4>3
    <3> QED
      BY <3>1, <3>2
  <2> QED
    BY <2>2, <2>3 DEF OwedFine
<1>16. ~Steady
  BY DEF Fine, AnsweredFine
<1> QED
  BY <1>9, <1>10, <1>11, <1>13, <1>14, <1>15, <1>16 DEF Fine, PausesFine

LEMMA SwitchOffAllFine ==
    ASSUME NEW g, Fine(g, {}, {}), g.flip = {}, NEW S \in SUBSET Outputs,
           Staying => S = {}, NEW refused, NEW t, t = SwitchOffAll(g, S, refused)
    PROVE  /\ Fine(t, {}, {}) /\ t.flip = {}
           /\ t.exists = g.exists /\ t.active = g.active
           /\ S = {} => t = g
<1> DEFINE K == {h \in Card : /\ Fine(h, {}, {}) /\ h.flip = {}
                              /\ h.exists = g.exists /\ h.active = g.active
                              /\ S = {} => h = g}
           Q == [s \in SUBSET S |-> K]
<1>1. IsFiniteSet(S)
  BY SubsetsAreFinite
<1>2. g \in K
  BY DEF Fine
<1>3. ASSUME NEW o \in S, NEW h \in K PROVE SwitchOff(h, o, refused) \in K
  <2> DEFINE u == SwitchOff(h, o, refused)
  <2>1. ~Steady
    BY <1>3 DEF Steady, Staying
  <2>2. Fine(h, {}, {}) /\ h.flip = {} /\ h.exists = g.exists /\ h.active = g.active
    BY <1>3
  <2>3. /\ Fine(u, {}, {}) /\ u.exists = h.exists /\ u.active = h.active
        /\ FlipsKept(h, u)
    BY <2>1, <2>2, SwitchOffFine
  <2> HIDE DEF u
  <2>4. u \in K
    BY <2>2, <2>3 DEF Fine, FlipsKept
  <2> QED
    BY <2>4 DEF u
<1>4. K = {h \in Card : /\ Fine(h, {}, {}) /\ h.flip = {}
                        /\ h.exists = g.exists /\ h.active = g.active
                        /\ S = {} => h = g}
  OBVIOUS
<1> HIDE DEF K
<1>5. /\ g \in Q[{}]
      /\ \A s \in SUBSET S : \A x \in s : \A h \in Q[s \ {x}] :
            SwitchOff(h, x, refused) \in Q[s]
      /\ Q[S] = K
  BY <1>2, <1>3
<1> HIDE DEF Q
<1>6. SwitchOffAll(g, S, refused) \in Q[S]
  BY <1>1, <1>5, SwitchOffFolds
<1>7. t \in K
  BY <1>5, <1>6
<1> QED
  BY <1>4, <1>7

\* Reverting all pipelines takes no mode set back that a frame waits for.
LEMMA RevertedWaits ==
    ASSUME NEW g \in Card, Waits(g, {})
    PROVE  Waits(RevertPending(g, g.exists), {})
<1> DEFINE all == g.exists
           t == RevertPending(g, all)
<1>1. /\ SameButPipelines(g, t) /\ t.next = g.next
      /\ \A o \in Outputs : t.pending[o] = IF o \in all THEN g.next[o] ELSE g.pending[o]
  BY RevertPendingFields
<1>2. \A o \in g.exists : /\ o \notin {}
                          /\ Asks(t.pending[o], g.next[o]) /\ Asks(t.next[o], g.next[o])
  BY <1>1, CardFields DEF Asks
<1> HIDE DEF t
<1>3. Waits(t, {})
  BY <1>1, <1>2, PipelinesWait DEF SameButPipelines
<1> QED
  BY <1>3 DEF t

\* What the pipelines of the existing outputs ask for is all that matters.
SameAsked(g, t) ==
    /\ t.exists = g.exists /\ t.waiting = g.waiting /\ t.kernel = g.kernel
    /\ \A o \in g.exists : t.pending[o] = g.pending[o] /\ t.next[o] = g.next[o]

LEMMA SameAskedWait ==
    ASSUME NEW g, NEW todo, Waits(g, todo), NEW t, SameAsked(g, t)
    PROVE  Waits(t, todo)
<1>1. t.exists \in {{}, Outputs} /\ Settled(t, todo)
  BY DEF SameAsked, Waits, Settled
<1>2. Due(t)
  BY DEF SameAsked, Waits, Due, NeedsModeset
<1> QED
  BY <1>1, <1>2 DEF Waits

\* Outputs are found at once and before any frame is drawn.
LEMMA AddedWaits ==
    ASSUME NEW g, Fine(g, {}, {}), Steady, NEW added \in SUBSET Outputs,
           NEW t, t = AddOutputs(g, added)
    PROVE  added = Outputs \ g.exists /\ Waits(g, {}) => Waits(t, {}) /\ t.exists = Outputs
<1>1. g \in Card
  BY DEF Fine
<1>2. /\ t.exists = g.exists \cup added /\ t.waiting = g.waiting /\ t.kernel = g.kernel
      /\ \A o \in added : t.next[o] = t.pending[o]
      /\ \A o \in Outputs \ added :
            t.pending[o] = g.pending[o] /\ t.next[o] = g.next[o]
  BY <1>1, AddOutputsFields
<1> SUFFICES ASSUME added = Outputs \ g.exists, Waits(g, {})
             PROVE  Waits(t, {}) /\ t.exists = Outputs
  OBVIOUS
<1>3. /\ g.exists \in {{}, Outputs} /\ g.waiting \subseteq g.exists
  BY DEF Fine, Waits, OwedFine, Steady, Staying
<1>4. t.exists = Outputs
  BY <1>2, <1>3
<1>5. CASE g.exists = {}
  BY <1>2, <1>3, <1>4, <1>5 DEF Waits, Settled, Due
<1>6. CASE g.exists = Outputs
  <2>1. \A o \in g.exists : t.pending[o] = g.pending[o] /\ t.next[o] = g.next[o]
    BY <1>2, <1>6
  <2>2. t.exists = g.exists /\ t.waiting = g.waiting /\ t.kernel = g.kernel
    BY <1>2, <1>4, <1>6
  <2>3. SameAsked(g, t)
    BY <2>1, <2>2 DEF SameAsked
  <2> QED
    BY <1>4, <2>3, SameAskedWait
<1> QED
  BY <1>3, <1>5, <1>6

\* How updateOutputs finds the card, when no page flip is to come any more.
Idle(g) == [WaitIdle(g) EXCEPT !.update = FALSE]

\* updateOutputs: whatever becomes of the test, the outputs are as fine as before, and
\* no page flip is awaited.
LEMMA UpdateOutputsFine ==
    ASSUME NEW g, NEW idle, idle = Idle(g),
           Fine(idle, {}, {}), idle.flip = {}, idle.exists = g.exists,
           idle.active = g.active, NEW cables \in SUBSET Outputs,
           Staying => cables = Outputs, NEW refused,
           NEW t, t = UpdateOutputs(g, cables, refused)
    PROVE  /\ Fine(t, {}, {}) /\ t.flip = {}
           /\ Steady /\ Waits(idle, {}) => Waits(t, {})
<1> DEFINE gone == g.exists \ cables
           added == cables \ g.exists
           dark == SwitchOffAll(idle, gone, refused)
           removed == RemoveOutputs(dark, gone)
           changed == AddOutputs(removed, added)
           c == Configured(changed)
           a == ApplyPending(c, c.exists)
           lost == Lost(c)
           r == RevertPending(changed, changed.exists)
           err == IF changed.exists = {} THEN "None" ELSE CommitError(g, refused)
           s == Dropped(a, lost)
           d == DisableOutputs(r, added)
           e == EraseConnectors(r, added)
           x == CASE err = "None" -> s
                  [] err = "NoPermission" -> e
                  [] OTHER -> d
           New == Composited(x) \ Composited(g)
<1>1. t = WithLoops(x, RepaintOn(x, New))
  <2>1. \A y : RepaintNew(g, y)
                = WithLoops(y, RepaintOn(y, Composited(y) \ Composited(g)))
    BY DEF RepaintNew, OnLoops, WithLoops, RepaintOn
  <2>2. t = RepaintNew(g, x)
    BY DEF UpdateOutputs, SwitchOffAll, Lost, Dropped, Idle
  <2> QED
    BY <2>1, <2>2
<1>2. /\ gone \in SUBSET Outputs /\ added \in SUBSET Outputs
      /\ added \cap g.exists = {} /\ (Staying => gone = {})
  BY CardFields DEF Fine
<1>3. \/ x = s /\ (changed.exists = {} \/ CommitError(g, refused) = "None")
      \/ x = e /\ changed.exists # {} /\ CommitError(g, refused) = "NoPermission"
      \/ x = d /\ changed.exists # {} /\ CommitError(g, refused) = "InvalidArguments"
  <2>1. CommitError(g, refused) \in {"None", "NoPermission", "InvalidArguments"}
    BY DEF CommitError
  <2> HIDE DEF s, e, d, changed
  <2> QED
    BY <2>1
<1>4. dark = SwitchOffAll(idle, gone, refused)
  OBVIOUS
<1> HIDE DEF gone, dark, x, New
<1>5. /\ Fine(dark, {}, {}) /\ dark.flip = {}
      /\ dark.exists = g.exists /\ dark.active = g.active
      /\ Staying => dark = idle
  <2>1. /\ Fine(dark, {}, {}) /\ dark.flip = {}
        /\ dark.exists = idle.exists /\ dark.active = idle.active
        /\ gone = {} => dark = idle
    BY <1>2, <1>4, SwitchOffAllFine
  <2> QED
    BY <1>2, <2>1
<1>6. /\ Fine(removed, {}, {}) /\ removed.flip = {} /\ removed.active = g.active
      /\ removed.exists \subseteq g.exists
      /\ Staying => SameAsks(idle, removed)
  <2>1. /\ Fine(removed, {}, {}) /\ removed.flip = {} /\ removed.active = dark.active
        /\ removed.exists = dark.exists \ gone
    BY <1>2, <1>5, RemovedFine
  <2>2. /\ removed.exists = dark.exists \ gone /\ removed.waiting = dark.waiting
        /\ removed.kernel = dark.kernel /\ removed.pending = dark.pending
        /\ removed.next = dark.next
    BY <1>2, <1>5, RemoveOutputsFields DEF Fine
  <2> QED
    BY <1>2, <1>5, <2>1, <2>2 DEF SameAsks
<1> HIDE DEF removed
<1>a. ASSUME Steady, Waits(idle, {}) PROVE Waits(changed, {}) /\ changed.exists = Outputs
  <2>1. Staying
    BY <1>a DEF Steady, Staying
  <2>2. Waits(removed, {}) /\ added = Outputs \ removed.exists
    BY <1>6, <1>a, <2>1, SameAsksWait DEF SameAsks
  <2>3. changed = AddOutputs(removed, added) /\ Fine(removed, {}, {})
    BY <1>6
  <2> HIDE DEF added, changed
  <2> QED
    BY <1>2, <1>a, <2>2, <2>3, AddedWaits
<1> HIDE DEF added
<1>7. added \in SUBSET Outputs /\ added \cap removed.exists = {}
  BY <1>2, <1>6
<1>8. changed = AddOutputs(removed, added) /\ changed.exists = removed.exists \cup added
  BY <1>6, <1>7, AddOutputsFields DEF Fine
<1> HIDE DEF changed
<1>9. ASSUME g.active \/ added = {}
      PROVE  /\ Fine(changed, added, {}) /\ changed.flip = {}
             /\ added \subseteq changed.exists
             /\ Staying => added \cap changed.waiting = {}
  <2>1. removed.active \/ added = {}
    BY <1>6, <1>9
  <2>2. /\ Fine(changed, added, {}) /\ changed.flip = {}
        /\ Staying => added \cap changed.waiting = {}
    BY <1>6, <1>7, <1>8, <2>1, AddedFine
  <2> QED
    BY <1>8, <2>2
<1>10. CASE x = s /\ (changed.exists = {} \/ CommitError(g, refused) = "None")
  <2>1. g.active \/ added = {}
    BY <1>8, <1>10, CommitErrorNone
  <2>2. /\ c = Configured(changed) /\ a = ApplyPending(c, c.exists)
        /\ lost = Lost(c) /\ s = Dropped(a, lost)
    OBVIOUS
  <2> HIDE DEF c, a, lost, s
  <2>3. /\ Fine(s, {}, {}) /\ s.flip = changed.flip
        /\ Steady /\ changed.exists \in {{}, Outputs} => Waits(s, {})
    BY <1>9, <2>1, <2>2, AppliedFine
  <2>4. /\ Fine(x, {}, {}) /\ x.flip = {}
        /\ Steady /\ Waits(idle, {}) => Waits(x, {})
    BY <1>9, <1>10, <1>a, <2>1, <2>3
  <2> QED
    BY <1>1, <2>4, RepaintFine, SameAsksWait
<1>11. CASE /\ x = e /\ changed.exists # {}
            /\ CommitError(g, refused) = "NoPermission"
  <2>1. ~removed.active
    BY <1>6, <1>11 DEF CommitError
  <2>2. r = RevertPending(changed, changed.exists) /\ e = EraseConnectors(r, added)
    OBVIOUS
  <2> HIDE DEF r, e
  <2>3. Fine(e, {}, {}) /\ e.flip = {}
    BY <1>6, <1>7, <1>8, <2>1, <2>2, ErasedFine
  <2>4. ~Steady
    BY <1>6, <2>1 DEF Fine, AnsweredFine
  <2> QED
    BY <1>1, <1>11, <2>3, <2>4, RepaintFine
<1>12. CASE /\ x = d /\ changed.exists # {}
            /\ CommitError(g, refused) = "InvalidArguments"
  <2>1. g.active
    BY <1>12 DEF CommitError
  <2>2. /\ Fine(changed, added, {}) /\ changed.flip = {}
        /\ added \subseteq changed.exists
        /\ Staying => added \cap changed.waiting = {}
    BY <1>9, <2>1
  <2>3. Fine(r, added, {})
    BY <2>2, RevertPendingFine
  <2>a. Waits(changed, {}) => Waits(r, {})
    BY <2>2, RevertedWaits DEF Fine
  <2>4. SameButPipelines(changed, r)
    BY <2>2, RevertPendingFields DEF Fine
  <2>5. d = DisableOutputs(r, added)
    OBVIOUS
  <2> HIDE DEF r, d
  <2>6. added \subseteq r.exists /\ (Staying => added \cap r.waiting = {}) /\ r.flip = {}
    BY <2>2, <2>4 DEF SameButPipelines
  <2>7. /\ Fine(d, {}, {}) /\ d.flip = r.flip
        /\ Waits(r, {}) => Waits(d, {})
    BY <1>7, <2>3, <2>5, <2>6, DisabledFine
  <2>8. /\ Fine(x, {}, {}) /\ x.flip = {}
        /\ Steady /\ Waits(idle, {}) => Waits(x, {})
    BY <1>12, <1>a, <2>a, <2>6, <2>7
  <2> QED
    BY <1>1, <2>8, RepaintFine, SameAsksWait
<1> QED
  BY <1>3, <1>10, <1>11, <1>12

LEMMA IdleFine ==
    ASSUME NEW g, Fine(g, {}, {}), NEW t, t = Idle(g)
    PROVE  /\ Fine(t, {}, {}) /\ t.flip = {} /\ t.exists = g.exists /\ t.on = g.on
           /\ t.active = g.active
           /\ SameAsks(g, t)
<1> DEFINE h == WaitIdle(g)
           no == FALSE
<1>1. /\ Fine(h, {}, {}) /\ SameOutputs(g, h) /\ h.flip = {}
      /\ h.waiting = g.waiting /\ h.kernel = g.kernel
  BY WaitIdleFine
<1>2. t = [h EXCEPT !.update = no] /\ (no \in BOOLEAN)
  BY DEF Idle
<1> HIDE DEF h, no
<1>3. /\ t \in Card /\ SameSet(h, t) /\ t.pending = h.pending /\ t.next = h.next
      /\ t.loops = h.loops /\ t.flip = h.flip /\ t.waiting = h.waiting
      /\ t.kernel = h.kernel /\ t.turnOff = h.turnOff
  BY <1>1, <1>2 DEF Fine, Card, SameSet
<1>4. Steady => t.turnOff = {}
  BY <1>1, <1>3 DEF Fine, AnsweredFine
<1>5. Fine(t, {}, {})
  BY <1>1, <1>3, <1>4, FlagsFine
<1> QED
  BY <1>1, <1>3, <1>5 DEF SameOutputs, SameSet, SameAsks

LEMMA RunUpdateOutputsKeeps ==
    ASSUME NEW g, Fine(g, {}, {}), NEW cables \in SUBSET Outputs,
           Staying => cables = Outputs, NEW refused,
           NEW t, t = UpdateOutputs(g, cables, refused)
    PROVE  Keeps(g, t)
<1> DEFINE idle == Idle(g)
<1>1. idle = Idle(g)
  OBVIOUS
<1> HIDE DEF idle
<1>2. /\ Fine(idle, {}, {}) /\ idle.flip = {} /\ idle.exists = g.exists
      /\ idle.active = g.active
      /\ SameAsks(g, idle)
  BY <1>1, IdleFine
<1>3. /\ Fine(t, {}, {}) /\ t.flip = {}
      /\ Steady /\ Waits(idle, {}) => Waits(t, {})
  BY <1>1, <1>2, UpdateOutputsFine
<1>4. WaitKept(g, t)
  BY <1>2, <1>3, SameAsksWait DEF WaitKept
<1> QED
  BY <1>3, <1>4 DEF Keeps, ModesetIdle

\* The session comes or goes: every loop has a pause less or more.
SessionChange(g, t) ==
    /\ t \in Card
    /\ t.exists = g.exists /\ t.enabled = g.enabled /\ t.on = g.on
    /\ t.pending = g.pending /\ t.next = g.next
    /\ t.turnOff = g.turnOff /\ t.flip = g.flip /\ t.waiting = g.waiting
    /\ t.kernel = g.kernel
    /\ \A o \in Outputs :
          /\ t.loops[o].pendingFrameCount = g.loops[o].pendingFrameCount
          /\ t.loops[o].inhibitCount = Pauses(t, o)
          /\ t.loops[o].timer => t.loops[o].inhibitCount = 0

LEMMA SessionFine ==
    ASSUME NEW g, Fine(g, {}, {}), ~Steady, NEW t, SessionChange(g, t)
    PROVE  Fine(t, {}, {})
<1> USE DEF SessionChange
<1>1. PausesFine(t)
  BY DEF PausesFine
<1>2. OffFine(t) /\ FlipsFine(t) /\ LitFine(t, {})
  BY DEF Fine, OffFine, FlipsFine, LitFine, Composited
<1>3. \A o : Debt(t, {}, o) = Debt(g, {}, o)
  BY DEF Debt
<1>4. Staying => OwedFine(t, {})
  BY <1>3 DEF Fine, OwedFine
<1> QED
  BY <1>1, <1>2, <1>4 DEF Fine

InhibitAll(g) ==
    [o \in Outputs |-> IF o \in g.exists THEN Inhibit(g.loops[o]) ELSE g.loops[o]]

UninhibitAll(g) ==
    [o \in Outputs |-> IF o \in g.exists THEN Uninhibit(g.loops[o]) ELSE g.loops[o]]

LEMMA PauseDeviceKeeps ==
    ASSUME NEW g, Fine(g, {}, {}), ~Steady, g.active,
           NEW t, t = [OnLoops(g, g.exists, Inhibit) EXCEPT !.active = FALSE]
    PROVE  Keeps(g, t)
<1> DEFINE f == InhibitAll(g)
           no == FALSE
<1>1. g \in Card
  BY DEF Fine
<1>2. t = [[g EXCEPT !.loops = f] EXCEPT !.active = no] /\ (no \in BOOLEAN)
  BY DEF OnLoops, InhibitAll
<1>3. ASSUME NEW o \in Outputs, o \in g.exists
      PROVE  Leaves(f[o], g.loops[o].pendingFrameCount, g.loops[o].inhibitCount + 1,
                    g.loops[o].timer /\ g.loops[o].inhibitCount # 0)
  BY <1>1, <1>3, LoopNumbers, InhibitLeaves DEF InhibitAll
<1>4. \A o \in Outputs : o \notin g.exists => f[o] = g.loops[o]
  BY DEF InhibitAll
<1>5. f \in [Outputs -> Loop]
  <2>1. \A o \in Outputs : f[o] \in Loop
    BY <1>1, <1>3, <1>4, LoopNumbers DEF Leaves
  <2> QED
    BY <2>1 DEF InhibitAll
<1>6. ~no
  OBVIOUS
<1> HIDE DEF f, no
<1>7. /\ t \in Card
      /\ t.exists = g.exists /\ t.enabled = g.enabled /\ t.on = g.on
      /\ t.loops = f /\ t.pending = g.pending /\ t.next = g.next
      /\ t.turnOff = g.turnOff /\ t.flip = g.flip /\ t.waiting = g.waiting
      /\ t.kernel = g.kernel /\ t.active = no
  BY <1>1, <1>2, <1>5 DEF Card
<1>8. ASSUME NEW o \in Outputs
      PROVE  /\ t.loops[o].pendingFrameCount = g.loops[o].pendingFrameCount
             /\ t.loops[o].inhibitCount = Pauses(t, o)
             /\ t.loops[o].timer => t.loops[o].inhibitCount = 0
  <2>1. /\ g.loops[o].inhibitCount \in Nat
        /\ g.loops[o].inhibitCount = Pauses(g, o)
        /\ g.loops[o].timer => g.loops[o].inhibitCount = 0
    BY <1>1, LoopNumbers DEF Fine, PausesFine
  <2>2. CASE o \in g.exists
    <3>1. Pauses(t, o) = Pauses(g, o) + 1
      BY <1>6, <1>7, <2>2 DEF Pauses, Count
    <3> QED
      BY <1>3, <1>7, <2>1, <2>2, <3>1 DEF Leaves
  <2>3. CASE o \notin g.exists
    <3>1. Pauses(t, o) = Pauses(g, o)
      BY <1>7, <2>3 DEF Pauses
    <3> QED
      BY <1>4, <1>7, <2>1, <2>3, <3>1
  <2> QED
    BY <2>2, <2>3
<1>9. SessionChange(g, t)
  BY <1>7, <1>8 DEF SessionChange
<1> QED
  BY <1>7, <1>9, SessionFine DEF Keeps, ModesetIdle, WaitKept

LEMMA UninhibitedFine ==
    ASSUME NEW g, Fine(g, {}, {}), ~g.active,
           NEW t, t = [OnLoops(g, g.exists, Uninhibit) EXCEPT !.active = TRUE]
    PROVE  /\ Fine(t, {}, {})
           /\ t.exists = g.exists /\ t.on = g.on
           /\ t.flip = g.flip /\ t.kernel = g.kernel
<1> DEFINE f == UninhibitAll(g)
           yes == TRUE
<1>1. g \in Card /\ ~Steady
  BY DEF Fine, AnsweredFine
<1>2. t = [[g EXCEPT !.loops = f] EXCEPT !.active = yes] /\ (yes \in BOOLEAN)
  BY DEF OnLoops, UninhibitAll
<1>3. ASSUME NEW o \in Outputs, o \in g.exists
      PROVE  /\ g.loops[o].inhibitCount > 0
             /\ Leaves(f[o], g.loops[o].pendingFrameCount, g.loops[o].inhibitCount - 1,
                       g.loops[o].timer \/ g.loops[o].inhibitCount = 1)
  <2>1. g.loops[o].inhibitCount = Pauses(g, o) /\ g.loops[o] \in Loop
    BY <1>1, LoopNumbers DEF Fine, PausesFine
  <2>2. Pauses(g, o) > 0
    BY <1>3 DEF Pauses, Count
  <2> QED
    BY <1>3, <2>1, <2>2, UninhibitLeaves DEF UninhibitAll
<1>4. \A o \in Outputs : o \notin g.exists => f[o] = g.loops[o]
  BY DEF UninhibitAll
<1>5. f \in [Outputs -> Loop]
  <2>1. \A o \in Outputs : f[o] \in Loop
    BY <1>1, <1>3, <1>4, LoopNumbers DEF Leaves
  <2> QED
    BY <2>1 DEF UninhibitAll
<1>6. yes
  OBVIOUS
<1> HIDE DEF f, yes
<1>7. /\ t \in Card
      /\ t.exists = g.exists /\ t.enabled = g.enabled /\ t.on = g.on
      /\ t.loops = f /\ t.pending = g.pending /\ t.next = g.next
      /\ t.turnOff = g.turnOff /\ t.flip = g.flip /\ t.waiting = g.waiting
      /\ t.kernel = g.kernel /\ t.active = yes
  BY <1>1, <1>2, <1>5 DEF Card
<1>8. ASSUME NEW o \in Outputs
      PROVE  /\ t.loops[o].pendingFrameCount = g.loops[o].pendingFrameCount
             /\ t.loops[o].inhibitCount = Pauses(t, o)
             /\ t.loops[o].timer => t.loops[o].inhibitCount = 0
  <2>1. /\ g.loops[o].inhibitCount \in Nat
        /\ g.loops[o].inhibitCount = Pauses(g, o)
        /\ g.loops[o].timer => g.loops[o].inhibitCount = 0
    BY <1>1, LoopNumbers DEF Fine, PausesFine
  <2>2. CASE o \in g.exists
    <3>1. Pauses(g, o) = Pauses(t, o) + 1 /\ Pauses(t, o) \in Nat
      BY <1>6, <1>7, <2>2 DEF Pauses, Count
    <3> QED
      BY <1>3, <1>7, <2>1, <2>2, <3>1 DEF Leaves
  <2>3. CASE o \notin g.exists
    <3>1. Pauses(t, o) = Pauses(g, o)
      BY <1>7, <2>3 DEF Pauses
    <3> QED
      BY <1>4, <1>7, <2>1, <2>3, <3>1
  <2> QED
    BY <2>2, <2>3
<1>9. SessionChange(g, t)
  BY <1>7, <1>8 DEF SessionChange
<1> QED
  BY <1>1, <1>7, <1>9, SessionFine

\* What is left on the screens while the session was away.
WithKernel(g, left) == [g EXCEPT !.kernel = left]

LEMMA IdleWithKernel ==
    ASSUME NEW g \in Card, NEW left
    PROVE  Idle(WithKernel(g, left)) = WithKernel(Idle(g), left)
<1> DEFINE f == DoneOn(g, g.flip)
           k == WithKernel(g, left)
<1>1. /\ k = [g EXCEPT !.kernel = left] /\ k.loops = g.loops /\ k.flip = g.flip
  BY DEF WithKernel, Card
<1>2. Idle(g) = [[[g EXCEPT !.loops = f] EXCEPT !.flip = {}] EXCEPT !.update = FALSE]
  BY DEF Idle, WaitIdle, FramesDone, OnLoops, DoneOn
<1>3. Idle(k) = [[[k EXCEPT !.loops = f] EXCEPT !.flip = {}] EXCEPT !.update = FALSE]
  BY <1>1 DEF Idle, WaitIdle, FramesDone, OnLoops, DoneOn
<1> HIDE DEF f, k
<1>4. Idle(k) = WithKernel(Idle(g), left)
  BY <1>1, <1>2, <1>3 DEF WithKernel, Card
<1> QED
  BY <1>4 DEF k

LEMMA WithKernelFine ==
    ASSUME NEW g, Fine(g, {}, {}), g.flip = {},
           NEW left \in [Outputs -> Modes \cup {Dark}],
           \A o \in g.exists \ g.on : Dimmed(o, left[o]), NEW t, t = WithKernel(g, left)
    PROVE  /\ Fine(t, {}, {}) /\ t.flip = {} /\ t.exists = g.exists
           /\ t.active = g.active
<1>1. /\ t \in Card /\ SameOutputs(g, t) /\ t.loops = g.loops /\ t.flip = {}
      /\ t.waiting = g.waiting /\ t.kernel = left
  BY DEF Fine, Card, WithKernel, SameOutputs
<1>2. PausesFine(t) /\ OffFine(t) /\ FlipsFine(t) /\ LitFine(t, {})
  BY <1>1 DEF Fine, PausesFine, Pauses, OffFine, FlipsFine, LitFine, Composited,
              SameOutputs
<1>3. \A o : Debt(t, {}, o) = Debt(g, {}, o)
  BY <1>1 DEF Debt
<1>4. (Staying => OwedFine(t, {})) /\ (Steady => AnsweredFine(t, {}))
  BY <1>1, <1>3 DEF Fine, OwedFine, AnsweredFine, SameOutputs
<1> QED
  BY <1>1, <1>2, <1>4 DEF Fine, SameOutputs

LEMMA ResumeDeviceKeeps ==
    ASSUME NEW g, Fine(g, {}, {}), ~g.active, ~gpu.active,
           NEW left \in [Outputs -> Modes \cup {Dark}],
           NEW cables \in SUBSET Outputs, Staying => cables = Outputs, NEW refused,
           NEW r, r = [OnLoops(g, g.exists, Uninhibit)
                         EXCEPT !.active = TRUE, !.kernel = left],
           NEW t, t = UpdateOutputs(r, cables, refused)
    PROVE  Keeps(g, t)
<1> DEFINE x == [OnLoops(g, g.exists, Uninhibit) EXCEPT !.active = TRUE]
           i == Idle(x)
           idle == Idle(r)
<1>1. r = WithKernel(x, left)
  BY DEF WithKernel
<1>2. x = [OnLoops(g, g.exists, Uninhibit) EXCEPT !.active = TRUE]
  OBVIOUS
<1> HIDE DEF x
<1>3. /\ Fine(x, {}, {}) /\ x.exists = g.exists /\ x.on = g.on
  BY <1>2, UninhibitedFine
<1>4. i = Idle(x)
  OBVIOUS
<1> HIDE DEF i
<1>5. /\ Fine(i, {}, {}) /\ i.flip = {} /\ i.exists = g.exists /\ i.on = g.on
      /\ i.active = x.active
  BY <1>3, <1>4, IdleFine
<1>6. idle = WithKernel(i, left)
  BY <1>1, <1>3, <1>4, IdleWithKernel DEF Fine
<1>7. /\ left \in [Outputs -> Modes \cup {Dark}]
      /\ \A o \in i.exists \ i.on : Dimmed(o, left[o])
  BY DEF Dimmed
<1> HIDE DEF idle
<1>8. /\ Fine(idle, {}, {}) /\ idle.flip = {} /\ idle.exists = i.exists
      /\ idle.active = i.active
  BY <1>5, <1>6, <1>7, WithKernelFine
<1>9. r.exists = idle.exists /\ r.active = idle.active
  <2>1. x \in Card /\ x.exists = g.exists
    BY <1>3 DEF Fine
  <2>2. r.exists = x.exists /\ r.active = x.active
    BY <1>1, <2>1 DEF WithKernel, Card
  <2> QED
    BY <1>5, <1>8, <2>1, <2>2
<1>10. idle = Idle(r)
  BY DEF idle
<1>11. Fine(t, {}, {}) /\ t.flip = {}
  BY <1>8, <1>9, <1>10, UpdateOutputsFine
<1>12. ~Steady
  BY DEF Fine, AnsweredFine
<1> QED
  BY <1>11, <1>12 DEF Keeps, ModesetIdle, WaitKept

-----------------------------------------------------------------------------
(* The other steps.                                                         *)

LEMMA RepaintKeeps ==
    ASSUME NEW g, Fine(g, {}, {}), NEW o,
           NEW t, t = OnLoops(g, {o}, LAMBDA l : ScheduleRepaint(l, NoItem))
    PROVE  Keeps(g, t)
<1> DEFINE S == {o}
           f == RepaintOn(g, S)
<1>1. t = WithLoops(g, f)
  BY DEF OnLoops, WithLoops, RepaintOn
<1> HIDE DEF S
<1>2. LoopsChange(g, f, {}, {})
  BY RepaintChange
<1> HIDE DEF f
<1> QED
  BY <1>1, <1>2, LoopsKeep

LEMMA TimerOfDisabledKeeps ==
    ASSUME NEW g, Fine(g, {}, {}), NEW o,
           NEW t, t = OnLoops(g, {o}, LAMBDA l : DispatchEnd(DispatchBegin(l)))
    PROVE  Keeps(g, t)
<1> DEFINE S == {o}
           f == DispatchOn(g, S)
<1>1. t = WithLoops(g, f)
  BY DEF OnLoops, WithLoops, DispatchOn
<1> HIDE DEF S
<1>2. LoopsChange(g, f, {}, {})
  BY DispatchChange
<1> HIDE DEF f
<1> QED
  BY <1>1, <1>2, LoopsKeep

LEMMA TryPropertyKeeps ==
    ASSUME NEW g, Fine(g, {}, {}), NEW o \in g.exists, NEW refused,
           NEW t, LET tested == TestPipeline(g, o, refused)
                  IN  t = IF FlipError(g, o, refused) = "None"
                          THEN OnLoops(tested, {o}, LAMBDA l : ScheduleRepaint(l, NoItem))
                          ELSE tested
    PROVE  Keeps(g, t)
<1> DEFINE h == TestPipeline(g, o, refused)
<1>1. Fine(h, {}, {}) /\ h.kernel = g.kernel /\ WaitKept(g, h)
  BY TestPipelineFine DEF SameButPipelines, WaitKept
<1>2. \/ t = h
      \/ t = OnLoops(h, {o}, LAMBDA l : ScheduleRepaint(l, NoItem))
  OBVIOUS
<1> HIDE DEF h
<1>3. CASE t = h
  BY <1>1, <1>3 DEF Keeps, ModesetIdle
<1>4. CASE t = OnLoops(h, {o}, LAMBDA l : ScheduleRepaint(l, NoItem))
  <2>1. t = WithLoops(h, RepaintOn(h, {o}))
    BY <1>4 DEF OnLoops, WithLoops, RepaintOn
  <2>2. Fine(t, {}, {}) /\ t.kernel = h.kernel /\ SameAsks(h, t)
    <3> DEFINE S == {o}
    <3>1. t = WithLoops(h, RepaintOn(h, S))
      BY <2>1
    <3> HIDE DEF S
    <3> QED
      BY <1>1, <3>1, RepaintFine
  <2>3. WaitKept(g, t)
    BY <1>1, <2>2, SameAsksWait DEF WaitKept
  <2> QED
    BY <1>1, <2>2, <2>3 DEF Keeps, ModesetIdle
<1> QED
  BY <1>2, <1>3, <1>4

LEMMA SetDpmsModeOffKeeps ==
    ASSUME NEW g, Fine(g, {}, {}), ~Steady, NEW o \in g.exists,
           NEW t, t = [g EXCEPT !.turnOff = @ \cup {o},
                                !.filter = @ \/ o \in g.enabled]
    PROVE  Keeps(g, t)
<1>1. g \in Card /\ o \in Outputs
  BY CardFields DEF Fine
<1> DEFINE dimmed == g.turnOff \cup {o}
           filter == g.filter \/ o \in g.enabled
<1>2. dimmed \in SUBSET Outputs /\ filter \in BOOLEAN
  BY <1>1, CardFields
<1>3. t = [g EXCEPT !.turnOff = dimmed, !.filter = filter]
  BY <1>1 DEF Card
<1> HIDE DEF dimmed, filter
<1>4. /\ t \in Card /\ SameSet(g, t) /\ t.pending = g.pending /\ t.next = g.next
      /\ t.loops = g.loops /\ t.flip = g.flip /\ t.waiting = g.waiting
      /\ t.kernel = g.kernel
  BY <1>1, <1>2, <1>3 DEF Card, SameSet
<1> QED
  BY <1>4, FlagsKeep

LEMMA TurnOffTimerKeeps ==
    ASSUME NEW g, Fine(g, {}, {}), NEW o \in g.turnOff, NEW refused,
           NEW t, t = SwitchOff([g EXCEPT !.turnOff = @ \ {o}], o, refused)
    PROVE  Keeps(g, t)
<1> DEFINE left == g.turnOff \ {o}
           h == [g EXCEPT !.turnOff = left]
<1>1. g \in Card /\ left \in SUBSET Outputs
  BY CardFields DEF Fine
<1>2. ~Steady
  BY DEF Fine, AnsweredFine
<1>3. t = SwitchOff(h, o, refused)
  OBVIOUS
<1> HIDE DEF left
<1>4. /\ h \in Card /\ SameSet(g, h) /\ h.pending = g.pending /\ h.next = g.next
      /\ h.loops = g.loops /\ h.flip = g.flip /\ h.waiting = g.waiting
      /\ h.kernel = g.kernel
  BY <1>1 DEF Card, SameSet
<1> HIDE DEF h
<1>5. Fine(h, {}, {})
  BY <1>2, <1>4, FlagsFine
<1>6. Fine(t, {}, {}) /\ FlipsKept(h, t)
  BY <1>2, <1>3, <1>5, SwitchOffFine
<1> QED
  BY <1>2, <1>4, <1>6 DEF Keeps, ModesetIdle, FlipsKept, WaitKept

LEMMA ChangeCableKeeps ==
    ASSUME NEW g, Fine(g, {}, {}),
           NEW t, t = [g EXCEPT !.update = @ \/ g.active]
    PROVE  Keeps(g, t)
<1>1. g \in Card
  BY DEF Fine
<1> DEFINE due == g.update \/ g.active
<1>2. due \in BOOLEAN
  BY <1>1, CardFields
<1>3. t = [g EXCEPT !.update = due]
  BY <1>1 DEF Card
<1> HIDE DEF due
<1>4. /\ t \in Card /\ SameSet(g, t) /\ t.pending = g.pending /\ t.next = g.next
      /\ t.loops = g.loops /\ t.flip = g.flip /\ t.waiting = g.waiting
      /\ t.kernel = g.kernel /\ t.turnOff = g.turnOff
  BY <1>1, <1>2, <1>3 DEF Card, SameSet
<1>5. Steady => t.turnOff = {}
  BY <1>4 DEF Fine, AnsweredFine
<1> QED
  BY <1>4, <1>5, FlagsKeep

-----------------------------------------------------------------------------
(* The specification.                                                       *)

\* Nothing exists before the first updateOutputs(), so little can be wrong.
LEMMA InitIInv == Init => IInv
<1> SUFFICES ASSUME Init PROVE IInv
  OBVIOUS
<1>1. PICK left \in {[o \in Outputs |-> PreferredMode], Blank} :
         gpu = [exists |-> {}, enabled |-> {}, on |-> Outputs, turnOff |-> {},
                loops |-> [o \in Outputs |-> InitialLoop],
                pending |-> [o \in Outputs |-> NewPipeline],
                next |-> [o \in Outputs |-> NewPipeline],
                flip |-> {}, waiting |-> {},
                kernel |-> left,
                active |-> TRUE, filter |-> FALSE, update |-> TRUE]
  BY DEF Init
<1>2. left \in [Outputs -> Modes \cup {Dark}]
  BY ModesAssumption DEF Blank
<1> DEFINE loops == [o \in Outputs |-> InitialLoop]
           pipelines == [o \in Outputs |-> NewPipeline]
<1>3. /\ loops \in [Outputs -> Loop]
      /\ \A o \in Outputs : Leaves(loops[o], 0, 0, FALSE)
  BY InitialLeaves DEF Leaves
<1>4. /\ pipelines \in [Outputs -> PipelineState]
      /\ \A o \in Outputs : pipelines[o].enabled
  BY ModesAssumption DEF NewPipeline, PipelineState
<1>5. /\ gpu.loops = loops /\ gpu.pending = pipelines /\ gpu.next = pipelines
      /\ gpu.exists = {} /\ gpu.enabled = {} /\ gpu.on = Outputs /\ gpu.turnOff = {}
      /\ gpu.flip = {} /\ gpu.waiting = {} /\ gpu.active
  BY <1>1
<1>6. gpu \in Card
  <2> HIDE DEF loops, pipelines
  <2>1. gpu = [exists |-> {}, enabled |-> {}, on |-> Outputs, turnOff |-> {},
               loops |-> loops, pending |-> pipelines, next |-> pipelines,
               flip |-> {}, waiting |-> {}, kernel |-> left,
               active |-> TRUE, filter |-> FALSE, update |-> TRUE]
    BY <1>1 DEF loops, pipelines
  <2> QED
    BY <1>2, <1>3, <1>4, <2>1 DEF Card
<1> HIDE DEF loops, pipelines
<1>7. PausesFine(gpu)
  BY <1>3, <1>5 DEF PausesFine, Pauses, Leaves
<1>8. OffFine(gpu) /\ FlipsFine(gpu) /\ LitFine(gpu, {})
  BY <1>5 DEF OffFine, FlipsFine, LitFine, Composited
<1>9. \A o \in Outputs : gpu.loops[o].pendingFrameCount = 0 /\ Debt(gpu, {}, o) = 0
  BY <1>3, <1>5 DEF Debt, Count, Leaves
<1>10. OwedFine(gpu, {}) /\ AnsweredFine(gpu, {})
  BY <1>3, <1>4, <1>5, <1>9 DEF OwedFine, AnsweredFine, Leaves
<1>11. Waits(gpu, {})
  BY <1>5 DEF Waits, Settled, Due
<1> QED
  BY <1>6, <1>7, <1>8, <1>10, <1>11 DEF Init, IInv, Fine

\* Every action keeps the card fine, and sets no mode over a page flip.
LEMMA NextKeeps ==
    ASSUME IInv, Next
    PROVE  Keeps(gpu, gpu')
<1>1. Fine(gpu, {}, {})
  BY DEF IInv
<1>2. ASSUME NEW o \in Outputs, NEW resync, NEW refused, Render(o, resync, refused)
      PROVE  Keeps(gpu, gpu')
  <2>1. o \in Composited(gpu) /\ gpu.loops[o].timer
    BY <1>2 DEF Render
  <2>2. LET begun == OnLoops(gpu, {o}, LAMBDA l : BeginFrame(DispatchBegin(l)))
            tuned == IF resync THEN TestPipeline(begun, o, refused) ELSE begun
        IN  gpu' = OnLoops(Present(tuned, o, refused), {o}, DispatchEnd)
    BY <1>2 DEF Render
  <2> QED
    BY <1>1, <2>1, <2>2, RenderKeeps
<1>3. ASSUME NEW o \in Outputs, TimerOfDisabled(o)
      PROVE  Keeps(gpu, gpu')
  <2>1. gpu' = OnLoops(gpu, {o}, LAMBDA l : DispatchEnd(DispatchBegin(l)))
    BY <1>3 DEF TimerOfDisabled
  <2> QED
    BY <1>1, <2>1, TimerOfDisabledKeeps
<1>4. ASSUME NEW o \in Outputs, PageFlipHandler(o)
      PROVE  Keeps(gpu, gpu')
  BY <1>1, <1>4, PageFlipKeeps DEF PageFlipHandler
<1>5. ASSUME NEW refused, RunUpdateOutputs(refused)
      PROVE  Keeps(gpu, gpu')
  BY <1>1, <1>5, RunUpdateOutputsKeeps DEF RunUpdateOutputs, IInv
<1>6. ASSUME NEW o \in Outputs, NEW refused, TurnOffTimer(o, refused)
      PROVE  Keeps(gpu, gpu')
  BY <1>1, <1>6, TurnOffTimerKeeps DEF TurnOffTimer
<1>7. ASSUME NEW o \in Outputs, Repaint(o)
      PROVE  Keeps(gpu, gpu')
  <2>1. gpu' = OnLoops(gpu, {o}, LAMBDA l : ScheduleRepaint(l, NoItem))
    BY <1>7 DEF Repaint
  <2> QED
    BY <1>1, <2>1, RepaintKeeps
<1>8. ASSUME NEW o \in Outputs, NEW refused, TryProperty(o, refused)
      PROVE  Keeps(gpu, gpu')
  <2>1. o \in gpu.exists
    BY <1>8 DEF TryProperty, Composited
  <2>2. LET tested == TestPipeline(gpu, o, refused)
        IN  gpu' = IF FlipError(gpu, o, refused) = "None"
                   THEN OnLoops(tested, {o}, LAMBDA l : ScheduleRepaint(l, NoItem))
                   ELSE tested
    BY <1>8 DEF TryProperty
  <2> QED
    BY <1>1, <2>1, <2>2, TryPropertyKeeps
<1>9. ASSUME NEW enable, NEW mode \in [Outputs -> Modes], NEW refused,
             Configure(enable, mode, refused)
      PROVE  Keeps(gpu, gpu')
  <2>1. Steady => enable = gpu.enabled
    BY <1>9 DEF Configure, Steady
  <2>2. gpu' = ApplyOutputChanges(gpu, enable, mode, refused)
    BY <1>9 DEF Configure
  <2> QED
    BY <1>1, <2>1, <2>2, ApplyOutputChangesKeeps
<1>10. ASSUME NEW o \in Outputs, SetDpmsModeOff(o)
       PROVE  Keeps(gpu, gpu')
  BY <1>1, <1>10, SetDpmsModeOffKeeps DEF SetDpmsModeOff, Steady
<1>11. ASSUME NEW o \in Outputs, NEW refused, SwitchOnRequest(o, refused)
       PROVE  Keeps(gpu, gpu')
  <2>1. gpu' = SetDpmsModeOn(gpu, o, refused)
    BY <1>11 DEF SwitchOnRequest
  <2>2. Fine(gpu', {}, {}) /\ PictureKept(gpu, gpu')
    BY <1>1, <2>1, SetDpmsModeOnFine
  <2> QED
    BY <2>2, PictureKeeps
<1>12. ASSUME NEW refused, Notify(refused)
       PROVE  Keeps(gpu, gpu')
  <2>1. Fine(gpu', {}, {}) /\ PictureKept(gpu, gpu')
    BY <1>1, <1>12, AllOnFine DEF Notify
  <2> QED
    BY <2>1, PictureKeeps
<1>13. ASSUME NEW o \in Outputs, ChangeCable(o)
       PROVE  Keeps(gpu, gpu')
  BY <1>1, <1>13, ChangeCableKeeps DEF ChangeCable
<1>14. ASSUME PauseDevice
       PROVE  Keeps(gpu, gpu')
  <2>1. /\ ~Steady /\ gpu.active
        /\ gpu' = [OnLoops(gpu, gpu.exists, Inhibit) EXCEPT !.active = FALSE]
    BY <1>14 DEF PauseDevice, Steady
  <2> QED
    BY <1>1, <2>1, PauseDeviceKeeps
<1>15. ASSUME NEW left \in [Outputs -> Modes \cup {Dark}], NEW refused,
              ResumeDevice(left, refused)
       PROVE  Keeps(gpu, gpu')
  <2>1. ~gpu.active /\ plugged \in SUBSET Outputs /\ (Staying => plugged = Outputs)
    BY <1>15 DEF ResumeDevice, IInv
  <2> DEFINE r == [OnLoops(gpu, gpu.exists, Uninhibit)
                     EXCEPT !.active = TRUE, !.kernel = left]
  <2>2. gpu' = UpdateOutputs(r, plugged, refused)
    BY <1>15 DEF ResumeDevice
  <2> QED
    BY <1>1, <2>1, <2>2, ResumeDeviceKeeps
<1> QED
  BY <1>2, <1>3, <1>4, <1>5, <1>6, <1>7, <1>8, <1>9, <1>10, <1>11, <1>12,
     <1>13, <1>14, <1>15 DEF Next, LoopStep, PageFlips, Timers, Requests

\* The cables and the scenario: only ChangeCable touches them.
LEMMA NextCables ==
    ASSUME IInv, Next
    PROVE  /\ plugged' \in SUBSET Outputs
           /\ Staying => plugged' = Outputs
           /\ events' = events
<1>1. CASE \E o \in Outputs : ChangeCable(o)
  BY <1>1 DEF ChangeCable, IInv, Staying
<1>2. CASE UNCHANGED <<plugged, events>>
  BY <1>2 DEF IInv
<1> QED
  BY <1>1, <1>2
     DEF Next, LoopStep, PageFlips, Timers, Requests, Render, TimerOfDisabled,
         PageFlipHandler, RunUpdateOutputs, TurnOffTimer, Repaint, TryProperty,
         Configure, SetDpmsModeOff, SwitchOnRequest, Notify, PauseDevice, ResumeDevice

LEMMA NextIInv == IInv /\ [Next]_vars => IInv'
<1> SUFFICES ASSUME IInv, [Next]_vars PROVE IInv'
  OBVIOUS
<1>1. CASE Next
  <2>1. Fine(gpu', {}, {}) /\ WaitKept(gpu, gpu')
    BY <1>1, NextKeeps DEF Keeps
  <2>2. /\ plugged' \in SUBSET Outputs /\ (Staying => plugged' = Outputs)
        /\ events' = events
    BY <1>1, NextCables
  <2>3. (Staying' <=> Staying) /\ (Steady' <=> Steady)
    BY <2>2 DEF Staying, Steady
  <2>4. OffFine(gpu)'
    BY <2>1, CardFields DEF Fine, OffFine, Dimmed
  <2>5. Fine(gpu, {}, {})'
    BY <2>1, <2>3, <2>4 DEF Fine
  <2>6. (Steady => Waits(gpu, {}))'
    BY <2>1, <2>3 DEF IInv, WaitKept
  <2> QED
    BY <2>2, <2>3, <2>5, <2>6 DEF IInv
<1>2. CASE UNCHANGED vars
  BY <1>2 DEF vars, IInv, Fine, Staying, Steady, OffFine, Dimmed
<1> QED
  BY <1>1, <1>2

\* Whatever happens to the card, it stays fine.
THEOREM CardStaysFine == Spec => []IInv
BY InitIInv, NextIInv, PTL DEF Spec

-----------------------------------------------------------------------------
(* The properties.                                                          *)

\* A negative count of frames is only met where cables may be pulled.
LEMMA CountedLoop ==
    ASSUME NEW l \in Loop, "plug" \notin events => l.pendingFrameCount >= 0
    PROVE  Counted(l) \in LoopState
<1>1. l.pendingFrameCount \in Int
  BY DEF Loop
<1>2. ASSUME "plug" \in events, l.pendingFrameCount < 0
      PROVE  Counted(l) \in LoopState
  <2>1. Counted(l) = [l EXCEPT !.pendingFrameCount = 0]
    BY <1>2 DEF Counted
  <2> QED
    BY <2>1 DEF Loop, LoopState
<1>3. ASSUME ~("plug" \in events /\ l.pendingFrameCount < 0)
      PROVE  Counted(l) \in LoopState
  <2>1. Counted(l) = l
    BY <1>3 DEF Counted
  <2>2. l.pendingFrameCount \in Nat
    BY <1>1, <1>3
  <2> QED
    BY <2>1, <2>2 DEF Loop, LoopState
<1> QED
  BY <1>2, <1>3

\* Every handler of DrmGpu, DrmPipeline and DrmOutput leaves each field of the card
\* in its type, and no loop with a negative count of frames unless a cable is pulled.
THEOREM TypeCorrect == Spec => []TypeInv
<1>1. IInv => TypeInv
  <2> SUFFICES ASSUME IInv PROVE TypeInv
    OBVIOUS
  <2>1. gpu \in Card
    BY DEF IInv, Fine
  <2>2. ASSUME NEW o \in Outputs PROVE Counted(gpu.loops[o]) \in LoopState
    <3>1. gpu.loops[o] \in Loop /\ gpu.loops[o].pendingFrameCount \in Int
      BY <2>1, LoopNumbers
    <3>2. Debt(gpu, {}, o) \in Nat
      BY DEF Debt, Count
    <3>3. "plug" \notin events => gpu.loops[o].pendingFrameCount >= Debt(gpu, {}, o)
      BY DEF IInv, Fine, OwedFine, Staying
    <3>4. "plug" \notin events => gpu.loops[o].pendingFrameCount >= 0
      BY <3>1, <3>2, <3>3
    <3> QED
      BY <3>1, <3>4, CountedLoop
  <2>3. [gpu EXCEPT !.loops = {}] \in
            [exists : SUBSET Outputs, enabled : SUBSET Outputs,
             on : SUBSET Outputs, turnOff : SUBSET Outputs,
             loops : {{}},
             pending : [Outputs -> PipelineState],
             next : [Outputs -> PipelineState],
             flip : SUBSET Outputs, waiting : SUBSET Outputs,
             kernel : [Outputs -> Modes \cup {Dark}],
             active : BOOLEAN, filter : BOOLEAN, update : BOOLEAN]
    BY <2>1 DEF Card
  <2> QED
    BY <2>2, <2>3 DEF TypeInv, IInv
<1> QED
  BY CardStaysFine, <1>1, PTL

\* notifyFrameCompleted() and notifyFrameFailed() never find pendingFrameCount at
\* zero: the loop has begun every frame that a page flip or a mode set is still to
\* report, as long as no output is unplugged.
THEOREM AnswersAreAlwaysOwed == Spec => []AnswersAreOwed
<1>1. IInv => AnswersAreOwed
  <2> SUFFICES ASSUME IInv, "plug" \notin events, NEW o \in gpu.exists
               PROVE  gpu.loops[o].pendingFrameCount
                        >= Count(o \in gpu.flip) + Count(o \in gpu.waiting)
    BY DEF AnswersAreOwed
  <2>1. o \in Outputs
    BY CardFields DEF IInv, Fine
  <2>2. gpu.loops[o].pendingFrameCount >= Debt(gpu, {}, o)
    BY <2>1 DEF IInv, Fine, OwedFine, Staying
  <2> QED
    BY <2>2 DEF Debt, Count
<1> QED
  BY CardStaysFine, <1>1, PTL

\* While every output stays lit and the session active, a loop counts no frame but one
\* with a page flip to come or one that waits for the mode set; and a frame only waits
\* while a mode set is due, or while every output shows what its pipeline asks for: a
\* mode change that is taken back leaves such a frame, which nobody reports.
THEOREM FramesAreAlwaysAnswered == Spec => []FramesAreAnswered
<1>1. IInv => FramesAreAnswered
  <2> SUFFICES ASSUME IInv, events \cap {"disable", "dpms", "plug", "session"} = {},
                      NEW o \in gpu.exists
               PROVE  /\ gpu.loops[o].pendingFrameCount
                            <= Count(o \in gpu.flip) + Count(o \in gpu.waiting)
                      /\ o \in gpu.waiting => NeedsModeset(gpu) \/ NothingToSet
    BY DEF FramesAreAnswered
  <2>1. o \in Outputs
    BY CardFields DEF IInv, Fine
  <2>2. gpu.loops[o].pendingFrameCount <= Debt(gpu, {}, o)
    BY <2>1 DEF IInv, Fine, AnsweredFine, Steady
  <2>3. gpu.loops[o].pendingFrameCount
           <= Count(o \in gpu.flip) + Count(o \in gpu.waiting)
    BY <2>2 DEF Debt, Count
  <2>4. o \in gpu.waiting => NeedsModeset(gpu) \/ NothingToSet
    BY DEF IInv, Steady, Waits, Due, NothingToSet
  <2> QED
    BY <2>3, <2>4
<1> QED
  BY CardStaysFine, <1>1, PTL

\* No commit of an active session lights an output that DPMS has switched off, no page
\* flip is awaited from an output that is dark or gone, and the pauses of each render
\* loop nest, through hot-plug, configuration changes, VT switches and refused commits.
THEOREM DarkIsAlwaysQuiet == Spec => DarkIsQuiet
<1>1. IInv => NoFlipInTheDark /\ PausesAreBalanced
  <2> SUFFICES ASSUME IInv PROVE NoFlipInTheDark /\ PausesAreBalanced
    OBVIOUS
  <2>1. gpu \in Card
    BY DEF IInv, Fine
  <2>2. NoFlipInTheDark
    BY DEF IInv, Fine, FlipsFine, NoFlipInTheDark
  <2>3. PausesAreBalanced
    BY <2>1, CardFields DEF IInv, Fine, PausesFine, Pauses, PausesAreBalanced
  <2> QED
    BY <2>2, <2>3
<1>2. IInv /\ [Next]_vars => [OffIsNotLit]_vars
  <2> SUFFICES ASSUME IInv, Next PROVE OffIsNotLit
    OBVIOUS
  <2>1. OffFine(gpu')
    BY NextKeeps DEF Keeps, Fine
  <2> QED
    BY <2>1 DEF OffFine, Dimmed, OffIsNotLit
<1> QED
  BY CardStaysFine, <1>1, <1>2, PTL DEF Spec, DarkIsQuiet

\* Every commit that changes what the card shows comes after waitIdle(), or with no
\* page flip in flight: the driver never sees a mode set during a page flip.
THEOREM ModesetsWaitForFlips == Spec => ModesetWaitsForFlips
<1>1. IInv /\ [Next]_vars => [gpu'.kernel # gpu.kernel => gpu'.flip = {}]_vars
  <2> SUFFICES ASSUME IInv, Next PROVE gpu'.kernel # gpu.kernel => gpu'.flip = {}
    OBVIOUS
  <2> QED
    BY NextKeeps DEF Keeps, ModesetIdle
<1> QED
  BY CardStaysFine, <1>1, PTL DEF Spec, ModesetWaitsForFlips

=============================================================================
