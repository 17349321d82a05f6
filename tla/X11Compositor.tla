---------------------------- MODULE X11Compositor ----------------------------
(***************************************************************************)
(* The life of the compositor of an X11 session (src/composite.cpp): it is *)
(* started, stopped, suspended for several reasons at a time and restarted *)
(* by itself, and it shares with the X server the compositor selection and *)
(* the properties by which effects announce what they support.             *)
(*                                                                         *)
(* `c' has                                                                 *)
(*   state, backend  Off or On (Starting and Stopping last within one      *)
(*               call), and the type of the backend; Crashed: see          *)
(*               HandleDConfigUserTypeChanged                              *)
(*   suspended   m_suspended, the set of reasons                           *)
(*   type        m_effectType                                              *)
(*   owning      the selection owner's m_owning                            *)
(*   release     m_releaseSelectionTimer runs                              *)
(*   users       the effects that have announced each property             *)
(*   unused, expire   m_unusedSupportProperties and its timer              *)
(*   queue       calls that were posted to the event loop                  *)
(*   blocking, gone   the X11 windows that block compositing; there are    *)
(*               closed ones that were not discarded                       *)
(* `x' is outside: the selection belongs to KWin (owner), the news that it *)
(* does not any more are underway (clear), what became of the last claim,  *)
(* the properties of the root window, the effect type that DConfig keeps   *)
(* and whether valueChanged is underway.  The claim, of KSelectionOwner,   *)
(* is "waiting" until the X server has answered, then "claimed", or "idle" *)
(* when it was refused or is over; "released" when it was given up before  *)
(* the answer, and "stray" when the answer has granted it all the same.    *)
(* Left out: scenes, outputs, frames, safe points and the termination.     *)
(***************************************************************************)
EXTENDS Integers, Sequences, FiniteSets

CONSTANTS
    Effects,
    Properties,     \* the support properties
    Windows,        \* X11 windows that may block compositing
    MaxQueue        \* bound: nothing happens outside while more calls wait

ASSUME BoundAssumption == MaxQueue \in Nat \ {0}

VARIABLES c, x

vars == <<c, x>>

Reasons == {"User", "BlockRule"}
OpenGL  == {"OpenGLComplete", "OpenGLNoMotion"}
Types   == OpenGL \cup {"AutoSelect", "XRenderComplete", "NoneCompositor"}
Claim   == {"idle", "waiting", "claimed", "released", "stray"}
Calls   == {"start", "reinitialize", "suspend", "resume"}

TypeInv ==
    /\ c \in [state : {"Off", "On", "Crashed"}, backend : {"none", "OpenGL", "XRender"},
              suspended : SUBSET Reasons, type : Types, owning : BOOLEAN,
              release : BOOLEAN, users : [Properties -> SUBSET Effects],
              unused : SUBSET Properties, expire : BOOLEAN, queue : Seq(Calls),
              blocking : SUBSET Windows, gone : BOOLEAN]
    /\ x \in [owner : BOOLEAN, clear : BOOLEAN, claim : Claim, root : SUBSET Properties,
              type : Types, changed : BOOLEAN]

\* start() runs in the next turn of the event loop; the first look at DConfig, if it
\* is there, has taken its type and posted a reinitialize() before.
Init ==
    \E t \in Types, r \in {{}, {"User"}}, q \in {<<"start">>, <<"reinitialize", "start">>} :
        /\ c = [state |-> "Off", backend |-> "none", suspended |-> r,
                type |-> IF Len(q) = 2 THEN t ELSE "AutoSelect", owning |-> FALSE,
                release |-> FALSE, users |-> [p \in Properties |-> {}], unused |-> {},
                expire |-> FALSE, queue |-> q, blocking |-> {}, gone |-> FALSE]
        /\ x = [owner |-> FALSE, clear |-> FALSE, claim |-> "idle", root |-> {},
                type |-> t, changed |-> FALSE]

-----------------------------------------------------------------------------
(* Handlers, on pairs [c, x].                                              *)

Both == [c |-> c, x |-> x]
Step(S) == \E s \in S : c' = s.c /\ x' = s.x

Post(s, call) == [s EXCEPT !.c.queue = Append(@, call)]

\* updateClientCompositeBlocking(), without a window.
CheckResume(s) ==
    IF "BlockRule" \in s.c.suspended /\ s.c.blocking = {} THEN Post(s, "resume") ELSE s

\* The closed windows that are left are discarded (removeDeleted).
DiscardDeleted(s) ==
    IF s.c.gone THEN CheckResume([s EXCEPT !.c.gone = FALSE]) ELSE s

\* destroyEffect of all effects: the properties are removed with a delay.
UnloadAllEffects(s) ==
    LET used == {p \in Properties : s.c.users[p] # {}}
    IN  [s EXCEPT !.c.users = [p \in Properties |-> {}],
                  !.c.unused = @ \cup used, !.c.expire = @ \/ used # {}]

\* Mutant: the selection is kept for the next start.
Stop_KeepsSelection(s) ==
    IF s.c.state # "On" THEN s
    ELSE [DiscardDeleted(UnloadAllEffects(s))
             EXCEPT !.c.state = "Off", !.c.backend = "none"]

\* stop: the selection is released after a while.
Stop(s) ==
    IF s.c.state # "On" THEN s
    ELSE [DiscardDeleted(UnloadAllEffects([s EXCEPT !.c.release = TRUE]))
             EXCEPT !.c.state = "Off", !.c.backend = "none"]

\* KSelectionOwner::release() ends a claim that was granted; one that is underway is not
\* known to the X server yet, and may be granted later.
ReleaseSelection(s) ==
    [s EXCEPT !.c.owning = FALSE, !.x.owner = FALSE,
              !.x.claim = IF @ \in {"waiting", "released"} THEN "released" ELSE "idle"]

\* initializeX11: a forced claim, unless the selection is believed to be owned.  claim()
\* gives up what it owned before and returns; setOwning(true) does not wait for the answer.
InitializeX11(s) ==
    IF s.c.owning THEN s
    ELSE [s EXCEPT !.c.owning = TRUE, !.x.owner = FALSE, !.x.claim = "waiting"]

\* setupStart and startupWithWorkspace with the first backend that works.
SetupStart(s, backend) ==
    LET t == DiscardDeleted(InitializeX11(s))
    IN  CASE s.c.state # "Off"  -> s
          [] s.c.state = "Off" /\ backend = "none" -> ReleaseSelection(t)
          [] OTHER -> [t EXCEPT !.c.state = "On", !.c.backend = backend, !.c.release = FALSE]

\* Mutant: DConfig is told of OpenGL also when it was the fallback of XRender.
Report_Fallback(s, asked) ==
    LET type == CASE s.c.backend = "none"    -> "NoneCompositor"
                  [] s.c.backend = "XRender" -> "XRenderComplete"
                  [] OTHER                   -> IF asked \in OpenGL THEN asked ELSE "OpenGLComplete"
    IN  IF type = s.c.type THEN s
        ELSE [s EXCEPT !.x.type = type, !.x.changed = @ \/ type # s.x.type]

\* The end of start(): DConfig is told the type there is, by an asynchronous call.
Report(s, asked) ==
    LET type == CASE s.c.backend = "none"    -> "NoneCompositor"
                  [] s.c.backend = "XRender" -> "XRenderComplete"
                  [] OTHER                   -> asked
    IN  IF type = s.c.type THEN s
        ELSE [s EXCEPT !.x.type = type, !.x.changed = @ \/ type # s.x.type]

\* Mutant: the reasons that are left do not count.
Start_Suspended(s) ==
    {Report(u, s.c.type) : u \in {SetupStart(s, b) : b \in {"none", "OpenGL", "XRender"}}}

\* start: nothing while suspended; compositing may not be possible; the device's
\* performance decides for AutoSelect; each backend may fail.
Start(s) ==
    LET asked == IF s.c.type = "AutoSelect" THEN OpenGL \cup {"XRenderComplete"} ELSE {s.c.type}
        tried == IF s.c.type = "NoneCompositor" THEN {} ELSE {"none", "OpenGL", "XRender"}
    IN  {Report(s, s.c.type)} \cup
        IF s.c.suspended # {} THEN {}
        ELSE {Report(u, t) : u \in {SetupStart(s, b) : b \in tried}, t \in asked}

Suspend(s, reason) == {Stop([s EXCEPT !.c.suspended = @ \cup {reason}])}
Resume(s, reasons) == Start([s EXCEPT !.c.suspended = @ \ reasons])
Reinitialize(s)    == Start(Stop([s EXCEPT !.c.suspended = {}]))

-----------------------------------------------------------------------------
(* Actions.                                                                *)

Alive == c.state # "Crashed"
Calm  == Alive /\ Len(c.queue) < MaxQueue

\* A posted call runs.
RunQueued ==
    /\ Alive /\ c.queue # <<>>
    /\ LET s == [Both EXCEPT !.c.queue = Tail(@)]
       IN  CASE Head(c.queue) = "start"        -> Step(Start(s))
             [] Head(c.queue) = "reinitialize" -> Step(Reinitialize(s))
             [] Head(c.queue) = "suspend"      -> Step(Suspend(s, "BlockRule"))
             [] Head(c.queue) = "resume"       -> Step(Resume(s, {"BlockRule"}))

\* D-Bus: suspend, resume; D-Bus or a graphics reset: reinitialize.
DBusSuspend      == Calm /\ Step(Suspend(Both, "User"))
DBusResume       == Calm /\ Step(Resume(Both, {"User"}))
DBusReinitialize == Calm /\ Step(Reinitialize(Both))

\* The user's shortcut clears all reasons, or sets the user's.
ToggleCompositing ==
    /\ Calm
    /\ Step(IF c.suspended # {} THEN Resume(Both, Reasons) ELSE Suspend(Both, "User"))

\* Options::configChanged
ConfigChanged ==
    /\ Calm
    /\ Step(IF c.suspended # {} THEN {Stop(Both)} ELSE Start(Both))

\* updateClientCompositeBlocking(window): blockingCompositingChanged.
BlockCompositing(w) ==
    /\ Calm /\ w \notin c.blocking
    /\ LET s == [Both EXCEPT !.c.blocking = @ \cup {w}]
       IN  Step({IF "BlockRule" \in c.suspended THEN s ELSE Post(s, "suspend")})

UnblockCompositing(w) ==
    /\ Calm /\ w \in c.blocking
    /\ Step({CheckResume([Both EXCEPT !.c.blocking = @ \ {w}])})

\* A window closes; its closing animation keeps it for a while.
CloseWindow(w) ==
    /\ Calm
    /\ c' = [c EXCEPT !.blocking = @ \ {w}, !.gone = TRUE]
    /\ UNCHANGED x

\* removeDeleted of one of the windows.
RemoveDeleted ==
    /\ Calm /\ c.gone
    /\ \E more \in BOOLEAN : Step({CheckResume([Both EXCEPT !.c.gone = more])})

\* The user's setting, and valueChanged: `effects' is used also when it is null.
UserSetsType(type) ==
    /\ Calm /\ type # x.type
    /\ x' = [x EXCEPT !.type = type, !.changed = TRUE]
    /\ UNCHANGED c

HandleDConfigUserTypeChanged ==
    /\ Calm /\ x.changed
    /\ LET s == [Both EXCEPT !.c.type = x.type, !.x.changed = FALSE]
       IN  Step({CASE x.type = c.type /\ x.type # "AutoSelect" -> s
                   [] x.type # c.type /\ {x.type, c.type} = OpenGL /\ c.state = "On" -> s
                   [] x.type # c.type /\ {x.type, c.type} = OpenGL /\ c.state = "Off" ->
                        [s EXCEPT !.c.state = "Crashed"]
                   [] OTHER -> Post(s, "reinitialize")})

\* The X server answers a claim: claimedOwnership and failedToClaimOwnership, which
\* the compositor is not connected to.
ClaimAnswered(granted) ==
    /\ Alive /\ x.claim \in {"waiting", "released"}
    /\ x' = [x EXCEPT !.owner = granted,
                      !.claim = IF ~granted THEN "idle"
                                ELSE IF @ = "waiting" THEN "claimed" ELSE "stray"]
    /\ UNCHANGED c

\* Another compositor takes the selection; lostOwnership, unless it was released.
OtherClaims ==
    /\ Alive /\ x.owner
    /\ x' = [x EXCEPT !.owner = FALSE, !.clear = TRUE]
    /\ UNCHANGED c

LostOwnership ==
    /\ Alive /\ x.clear
    /\ LET s == [Both EXCEPT !.x.clear = FALSE]
       IN  Step({IF x.claim \in {"claimed", "stray"}
                 THEN Stop([s EXCEPT !.c.owning = FALSE, !.x.owner = FALSE, !.x.claim = "idle"])
                 ELSE s})

\* m_releaseSelectionTimer: releaseCompositorSelection.
ReleaseCompositorSelection ==
    /\ Alive /\ c.release
    /\ LET s == [Both EXCEPT !.c.release = FALSE]
       IN  Step({IF c.state = "Off" THEN ReleaseSelection(s) ELSE s})

\* Mutant: a property that is about to be removed is not kept.
AnnounceSupportProperty_NotKept(e, p) ==
    /\ Alive /\ c.state = "On" /\ e \notin c.users[p]
    /\ c' = [c EXCEPT !.users[p] = @ \cup {e}]
    /\ x' = [x EXCEPT !.root = @ \cup {p}]

\* An effect is loaded: announceSupportProperty, keepSupportProperty.
AnnounceSupportProperty(e, p) ==
    /\ Alive /\ c.state = "On" /\ e \notin c.users[p]
    /\ c' = [c EXCEPT !.users[p] = @ \cup {e},
                      !.unused = IF c.users[p] = {} THEN @ \ {p} ELSE @]
    /\ x' = [x EXCEPT !.root = IF c.users[p] = {} THEN @ \cup {p} ELSE @]

\* An effect is unloaded: removeSupportProperty.
RemoveSupportProperty(e, p) ==
    /\ Alive /\ c.state = "On" /\ e \in c.users[p]
    /\ c' = [c EXCEPT !.users[p] = @ \ {e},
                      !.unused = IF c.users[p] = {e} THEN @ \cup {p} ELSE @,
                      !.expire = @ \/ c.users[p] = {e}]
    /\ UNCHANGED x

DeleteUnusedSupportProperties ==
    /\ Alive /\ c.expire
    /\ c' = [c EXCEPT !.expire = FALSE, !.unused = {}]
    /\ x' = [x EXCEPT !.root = @ \ c.unused]

\* What comes from outside: users, clients and other programs.
Outside ==
    \/ DBusSuspend \/ DBusResume \/ DBusReinitialize \/ ToggleCompositing \/ ConfigChanged
    \/ \E w \in Windows : BlockCompositing(w) \/ UnblockCompositing(w) \/ CloseWindow(w)
    \/ \E t \in Types : UserSetsType(t)
    \/ OtherClaims
    \/ \E e \in Effects, p \in Properties :
            AnnounceSupportProperty(e, p) \/ RemoveSupportProperty(e, p)

\* What the event loop does.
Inside ==
    \/ \E granted \in BOOLEAN : ClaimAnswered(granted)
    \/ DeleteUnusedSupportProperties \/ ReleaseCompositorSelection \/ LostOwnership
    \/ RemoveDeleted \/ HandleDConfigUserTypeChanged \/ RunQueued

Next == Outside \/ Inside

\* The event loop delivers posted calls and D-Bus signals.
Fairness == WF_vars(RunQueued) /\ WF_vars(HandleDConfigUserTypeChanged)

Spec == Init /\ [][Next]_vars /\ Fairness

-----------------------------------------------------------------------------
(* Properties.                                                             *)

\* While there is a reason to suspend there is no compositing, although every reason
\* is given and taken away on its own and restarts come from elsewhere (suspend, start).
SuspendedMeansOff == c.suspended # {} => c.state # "On"

\* While KWin composites it believes to own the selection; it does once the claim was
\* granted, or cannot know yet that another compositor took it since.  (It composites
\* without one while the claim is unanswered, and after a refusal, which it does not
\* notice.)  While it does not composite, it keeps the selection only until a timer that
\* runs gives it back, unless the claim of a start that failed at once was granted after
\* it had been given up (initializeX11, setupStart, releaseCompositorSelection).
SelectionFollowsState ==
    /\ c.state = "On" => c.owning /\ (x.claim = "claimed" => x.owner \/ x.clear)
    /\ c.state = "Off" /\ c.owning => c.release
    /\ c.state = "Off" /\ x.owner => c.owning \/ x.claim = "stray"

\* Every property that a loaded effect has announced is on the root window and is not
\* about to be removed, also after quick restarts; every other one that is there is about
\* to be removed (keepSupportProperty, deleteUnusedSupportProperties).
SupportIsAnnounced ==
    \A p \in Properties :
        /\ c.users[p] # {} => p \in x.root \ c.unused
        /\ p \in x.root /\ c.users[p] = {} => p \in c.unused /\ c.expire

\* The compositor, which writes the effect type that every start() has led to and restarts
\* when it changes, does not go on restarting itself: when nothing comes from outside
\* any more, it comes to rest (start, handleDConfigUserTypeChanged).
RestartsEnd ==
    []<><<~Inside>>_vars \/ <>[](c.state = "Crashed" \/ (c.queue = <<>> /\ ~x.changed))

\* A comment: `effects' may be null, since start() may fail.
EffectsAreThere == c.state # "Crashed"

=============================================================================
