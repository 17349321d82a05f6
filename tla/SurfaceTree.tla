---------------------------- MODULE SurfaceTree ----------------------------
(***************************************************************************)
(* wl_surface and wl_subsurface (src/wayland/surface_interface.cpp,        *)
(* subcompositor_interface.cpp): surfaces with double-buffered state in a  *)
(* tree whose synchronised parts are to be applied together.               *)
(*                                                                         *)
(* What a client sets goes to `pending'.  A commit applies it, or, while   *)
(* the surface is a synchronised sub-surface, merges it into `cached'; the *)
(* parent's commit applies that.  Every surface has                        *)
(*   role      it is a sub-surface (SurfaceInterfacePrivate::subSurface)   *)
(*   parent    the surface it belongs to, NoSurface once that is destroyed *)
(*   mode      "sync" or "desync"                                          *)
(*   pending, cached, current, hasCache, mapped      as in the code        *)
(*   position, pendingPosition       0 stands for the initial / no request *)
(* Requests are numbered: a buffer is the number of its attach request,    *)
(* negative for a null buffer, 0 where no buffer is set; frame callbacks   *)
(* and positions are numbers too.  The lists `below' and `above' are one   *)
(* sequence, `order', with the surface itself between the two.             *)
(* Damage, regions, transforms and sizes follow the buffer and are left    *)
(* out, and so are the requests that are protocol errors.                  *)
(***************************************************************************)
EXTENDS Integers, FiniteSets, SequencesExt

CONSTANTS
    Surfaces,
    NoSurface,
    Toplevels,      \* surfaces with another role: windows
    Scenarios,      \* what may be requested together: sets of Requests
    MaxRequests     \* bound on the number of these requests

Requests == {"attach", "frame", "set_position", "place"}

ASSUME SurfacesAssumption ==
    NoSurface \notin Surfaces /\ Toplevels \subseteq Surfaces /\ IsFiniteSet(Surfaces)
ASSUME RequestsAssumption == Scenarios \subseteq SUBSET Requests /\ MaxRequests \in Nat

VARIABLES
    surfaces,   \* the surfaces of the client
    alive,      \* those that are not destroyed
    requests,   \* how many numbered requests were made
    scenario,   \* the kinds of request made in this behaviour
    orphaned,   \* history: surfaces that lost their role with a state cached
    misfits     \* history: surfaces whose role or parent changed without their mapped

vars == <<surfaces, alive, requests, scenario, orphaned, misfits>>

-----------------------------------------------------------------------------
EmptyState(s) == [buffer |-> 0, callbacks |-> {}, order |-> <<s>>, childrenChanged |-> FALSE]

NewSurface(s) ==
    [role |-> FALSE, parent |-> NoSurface, mode |-> "sync",
     pending |-> EmptyState(s), cached |-> EmptyState(s), current |-> EmptyState(s),
     hasCache |-> FALSE, mapped |-> FALSE, position |-> 0, pendingPosition |-> 0]

Init ==
    /\ surfaces = [s \in Surfaces |-> NewSurface(s)]
    /\ alive = Surfaces
    /\ requests = 0
    /\ scenario \in Scenarios
    /\ orphaned = {} /\ misfits = {}

Buffers == (-MaxRequests) .. MaxRequests
SurfaceState == [buffer : Buffers, callbacks : SUBSET (1 .. MaxRequests),
                 order : Seq(Surfaces), childrenChanged : BOOLEAN]

\* Type invariant; a parent is a surface that exists.
TypeInv ==
    /\ surfaces \in
        [Surfaces -> [role : BOOLEAN, parent : Surfaces \cup {NoSurface},
                      mode : {"sync", "desync"},
                      pending : SurfaceState, cached : SurfaceState, current : SurfaceState,
                      hasCache : BOOLEAN, mapped : BOOLEAN,
                      position : 0 .. MaxRequests, pendingPosition : 0 .. MaxRequests]]
    /\ alive \subseteq Surfaces /\ orphaned \subseteq Surfaces
    /\ misfits \subseteq Surfaces
    /\ \A s \in Surfaces : surfaces[s].parent \in alive \cup {NoSurface}
    /\ requests \in 0 .. MaxRequests /\ scenario \in Scenarios

-----------------------------------------------------------------------------
(* The tree.                                                               *)

Children(t, s) == ToSet(t[s].current.order) \ {s}

\* SubSurfaceInterface::isSynchronized, for a surface that may have no role.
IsSynchronized(t, s) ==
    LET sync[x \in Surfaces] ==
            /\ t[x].role
            /\ \/ t[x].mode = "sync"
               \/ t[x].parent # NoSurface /\ sync[t[x].parent]
    IN  sync[s]

\* SubSurfaceInterface::mainSurface: NoSurface when an ancestor is gone.
MainSurface(t, s) ==
    LET main[x \in Surfaces] ==
            IF t[x].parent # NoSurface /\ t[t[x].parent].role
            THEN main[t[x].parent] ELSE t[x].parent
    IN  main[s]

\* updateEffectiveMapped: the surface, and its sub-surfaces where that changed it.
UpdateEffectiveMapped(t, s) ==
    LET mapped[x \in Surfaces] ==
            LET p == t[x].parent
                above == IF x = s /\ p # NoSurface THEN t[p].mapped ELSE mapped[p]
            IN  IF x = s \/ (p # NoSurface /\ x \in Children(t, p) /\ mapped[p] # t[p].mapped)
                THEN t[x].current.buffer > 0 /\ (t[x].role => p # NoSurface /\ above)
                ELSE t[x].mapped
    IN  [x \in Surfaces |-> [t[x] EXCEPT !.mapped = mapped[x]]]

-----------------------------------------------------------------------------
(* Merging and applying states.                                            *)

\* Mutant: the callbacks that the target had are dropped.
MergeInto_Replaces(next, target) ==
    [buffer |-> IF next.buffer # 0 THEN next.buffer ELSE target.buffer,
     callbacks |-> next.callbacks,
     order |-> IF next.childrenChanged THEN next.order ELSE target.order,
     childrenChanged |-> target.childrenChanged \/ next.childrenChanged]

\* SurfaceState::mergeInto, the target.
MergeInto(next, target) ==
    [buffer |-> IF next.buffer # 0 THEN next.buffer ELSE target.buffer,
     callbacks |-> target.callbacks \cup next.callbacks,
     order |-> IF next.childrenChanged THEN next.order ELSE target.order,
     childrenChanged |-> target.childrenChanged \/ next.childrenChanged]

\* Mutant: a fresh state knows no children.
MergedFrom_Fresh(s, target) == EmptyState(s)

\* What is left of the merged state: nothing but the target's children.
MergedFrom(s, target) == [EmptyState(s) EXCEPT !.order = target.order]

\* Sub-surfaces whose position their parent's commit applies.
PositionApplied(x) ==
    IF x.pendingPosition = 0 THEN x
    ELSE [x EXCEPT !.position = x.pendingPosition, !.pendingPosition = 0]

\* applyState, without the cached states of the sub-surfaces.  The flags of the
\* current state are never read.
ApplyOne(t, s, which) ==
    LET next    == t[s][which]
        current == [MergeInto(next, t[s].current) EXCEPT !.childrenChanged = FALSE]
        merged  == [t EXCEPT ![s].current = current, ![s][which] = MergedFrom(s, current),
                             ![s].hasCache = @ /\ which # "cached"]
        shown   == IF next.buffer # 0 /\ (next.buffer > 0) # (t[s].current.buffer > 0)
                   THEN UpdateEffectiveMapped(merged, s) ELSE merged
    IN  [x \in Surfaces |->
            IF \/ x \in Children(shown, s)
               \/ x = s /\ shown[s].role /\ shown[s].mode = "desync"
            THEN PositionApplied(shown[x]) ELSE shown[x]]

\* applyState: then the sub-surfaces that are synchronised to this one, and theirs.
ApplyState(t, s, which) ==
    LET level[n \in Nat] ==
            IF n = 0 THEN {s}
            ELSE {x \in Surfaces : t[x].mode = "sync"
                                   /\ \E p \in level[n - 1] : x \in Children(t, p)}
        applied[n \in Nat] ==
            IF n = 0 THEN ApplyOne(t, s, which)
            ELSE FoldSet(LAMBDA x, u : ApplyOne(u, x, "cached"), applied[n - 1], level[n])
    IN  applied[Cardinality(Surfaces) - 1]

CommitToCache(t, s) ==
    LET cached == MergeInto(t[s].pending, t[s].cached)
    IN  [t EXCEPT ![s].cached = cached, ![s].pending = MergedFrom(s, cached),
                  ![s].hasCache = TRUE]

CommitFromCache(t, s) == ApplyState(t, s, "cached")

-----------------------------------------------------------------------------
(* Requests of the client.                                                 *)

NumberedRequest(kind) ==
    /\ kind \in scenario
    /\ requests < MaxRequests
    /\ requests' = requests + 1
    /\ UNCHANGED <<alive, scenario, orphaned, misfits>>

\* wl_surface.attach, of a buffer or of none.
Attach(s, real) ==
    /\ NumberedRequest("attach")
    /\ s \in alive
    /\ surfaces' = [surfaces EXCEPT ![s].pending.buffer =
                       IF real THEN requests' ELSE -requests']

\* wl_surface.frame.
Frame(s) ==
    /\ NumberedRequest("frame")
    /\ s \in alive
    /\ surfaces' = [surfaces EXCEPT ![s].pending.callbacks = @ \cup {requests'}]

\* wl_subsurface.set_position.
SetPosition(s) ==
    /\ NumberedRequest("set_position")
    /\ s \in alive /\ surfaces[s].role
    /\ surfaces' = [surfaces EXCEPT ![s].pendingPosition = requests']

\* wl_subsurface.place_above (shift 1) and place_below (shift 0): next to the
\* parent or to a sibling that the parent's pending state knows.
Place(s, anchor, shift) ==
    LET p    == surfaces[s].parent
        rest == Remove(surfaces[p].pending.order, s)
    IN  /\ NumberedRequest("place")
        /\ s \in alive /\ surfaces[s].role /\ p # NoSurface
        /\ Contains(rest, anchor)
        /\ surfaces' = [surfaces EXCEPT
               ![p].pending.order =
                   InsertAt(rest, SelectInSeq(rest, LAMBDA x : x = anchor) + shift, s),
               ![p].pending.childrenChanged = TRUE]

\* Mutants: the ancestors are not asked; a state in the cache is passed over.
Commit_OwnMode(s) ==
    /\ s \in alive
    /\ surfaces' =
        IF surfaces[s].role /\ surfaces[s].mode = "sync" THEN CommitToCache(surfaces, s)
        ELSE IF surfaces[s].role /\ surfaces[s].hasCache
        THEN CommitFromCache(CommitToCache(surfaces, s), s)
        ELSE ApplyState(surfaces, s, "pending")
    /\ UNCHANGED <<alive, requests, scenario, orphaned, misfits>>

Commit_PassesCache(s) ==
    /\ s \in alive
    /\ surfaces' =
        IF IsSynchronized(surfaces, s) THEN CommitToCache(surfaces, s)
        ELSE ApplyState(surfaces, s, "pending")
    /\ UNCHANGED <<alive, requests, scenario, orphaned, misfits>>

\* wl_surface.commit.
Commit(s) ==
    /\ s \in alive
    /\ surfaces' =
        IF IsSynchronized(surfaces, s) THEN CommitToCache(surfaces, s)
        ELSE IF surfaces[s].role /\ surfaces[s].hasCache
        THEN CommitFromCache(CommitToCache(surfaces, s), s)
        ELSE ApplyState(surfaces, s, "pending")
    /\ UNCHANGED <<alive, requests, scenario, orphaned, misfits>>

\* wl_subsurface.set_sync.
SetSync(s) ==
    /\ s \in alive /\ surfaces[s].role
    /\ surfaces' = [surfaces EXCEPT ![s].mode = "sync"]
    /\ UNCHANGED <<alive, requests, scenario, orphaned, misfits>>

\* wl_subsurface.set_desync.
SetDesync(s) ==
    LET t == [surfaces EXCEPT ![s].mode = "desync"]
    IN  /\ s \in alive /\ surfaces[s].role /\ surfaces[s].mode = "sync"
        /\ surfaces' = IF IsSynchronized(t, s) THEN t ELSE CommitFromCache(t, s)
        /\ UNCHANGED <<alive, requests, scenario, orphaned, misfits>>

\* A surface is mapped if it has a buffer and so is the parent it must have.
MappedMatches(t, s) ==
    t[s].mapped <=>
        /\ t[s].current.buffer > 0
        /\ t[s].role => t[s].parent # NoSurface /\ t[t[s].parent].mapped

\* The step changes roles or parents, but calls no updateEffectiveMapped.
RoleChanged == misfits' = misfits \cup {x \in alive' : ~ MappedMatches(surfaces', x)}

\* addChild: to all three states.
AddChild(t, p, s) ==
    [t EXCEPT ![p].pending.order = Append(@, s), ![p].cached.order = Append(@, s),
              ![p].current.order = Append(@, s)]

\* removeChild.
RemoveChild(t, p, s) ==
    [t EXCEPT ![p].pending.order = Remove(@, s), ![p].cached.order = Remove(@, s),
              ![p].current.order = Remove(@, s)]

\* Whether s may become a sub-surface of p.
MayBeChild(s, p) ==
    /\ ~ surfaces[s].role /\ s \notin Toplevels
    /\ s # p
    /\ surfaces[p].role => MainSurface(surfaces, p) # s

\* wl_subcompositor.get_subsurface.
GetSubsurface(s, p) ==
    /\ s \in alive /\ p \in alive /\ MayBeChild(s, p)
    /\ surfaces' = [AddChild(surfaces, p, s) EXCEPT
           ![s].role = TRUE, ![s].parent = p, ![s].mode = "sync",
           ![s].position = 0, ![s].pendingPosition = 0]
    /\ UNCHANGED <<alive, requests, scenario, orphaned>>
    /\ RoleChanged

\* ~SubSurfaceInterface: the parent forgets the sub-surface.
RemoveRole(t, s) ==
    LET p == t[s].parent
        u == IF p = NoSurface THEN t ELSE RemoveChild(t, p, s)
    IN  [u EXCEPT ![s].role = FALSE, ![s].parent = NoSurface]

\* wl_subsurface.destroy: the surface stays, with what it has cached.
DestroySubsurface(s) ==
    /\ s \in alive /\ surfaces[s].role
    /\ surfaces' = RemoveRole(surfaces, s)
    /\ orphaned' = IF surfaces[s].hasCache THEN orphaned \cup {s} ELSE orphaned
    /\ UNCHANGED <<alive, requests, scenario>>
    /\ RoleChanged

\* wl_surface.destroy: its role goes with it, its sub-surfaces lose their parent.
DestroySurface(s) ==
    /\ s \in alive
    /\ LET t == IF surfaces[s].role THEN RemoveRole(surfaces, s) ELSE surfaces
       IN  surfaces' = [x \in Surfaces |->
               IF x = s THEN NewSurface(s)
               ELSE IF t[x].parent = s THEN [t[x] EXCEPT !.parent = NoSurface] ELSE t[x]]
    /\ alive' = alive \ {s}
    /\ UNCHANGED <<requests, scenario, orphaned>>
    /\ RoleChanged

\* SurfaceInterface::frameRendered: a window was painted; it and all below it are told.
FrameRendered(w) ==
    LET tree[n \in Nat] ==
            IF n = 0 THEN {w} ELSE UNION {Children(surfaces, p) : p \in tree[n - 1]}
        painted == UNION {tree[n] : n \in 0 .. Cardinality(Surfaces) - 1}
    IN  /\ w \in alive /\ w \in Toplevels
        /\ surfaces' = [x \in Surfaces |->
               IF x \in painted THEN [surfaces[x] EXCEPT !.current.callbacks = {}]
               ELSE surfaces[x]]
        /\ UNCHANGED <<alive, requests, scenario, orphaned, misfits>>

Next ==
    \E s \in Surfaces :
        \/ \E real \in BOOLEAN : Attach(s, real)
        \/ Frame(s) \/ SetPosition(s) \/ Commit(s)
        \/ \E anchor \in Surfaces, shift \in {0, 1} : Place(s, anchor, shift)
        \/ SetSync(s) \/ SetDesync(s)
        \/ \E p \in Surfaces : GetSubsurface(s, p)
        \/ DestroySubsurface(s) \/ DestroySurface(s)
        \/ FrameRendered(s)

Spec == Init /\ [][Next]_vars

-----------------------------------------------------------------------------
(* Properties.                                                             *)

\* Every sub-surface is listed once in the pending, the cached and the current
\* state of its parent, and these lists hold nothing else, however places, commits
\* and caches follow each other: no child is lost, shown twice or left dangling.
ChildrenAreListed ==
    \A p \in alive : \A which \in {"pending", "cached", "current"} :
        LET order == surfaces[p][which].order
        IN  /\ ToSet(order) = {p} \cup {s \in alive : surfaces[s].parent = p}
            /\ Len(order) = Cardinality(ToSet(order))

\* No surface becomes its own ancestor, although only the root of the tree is
\* compared: everything that walks the tree would never end.
TreeIsAcyclic ==
    ~ \E S \in SUBSET alive \ {{}} : \A s \in S : surfaces[s].parent \in S

\* What is mapped follows the buffers and the tree, through commits of parents and
\* children in any order, except where a role has changed since.
MappedFollowsTree == \A s \in alive \ misfits : MappedMatches(surfaces, s)

\* The tree of the surfaces is one, in the lists, in the parents and in what is mapped.
TreeIsSound == ChildrenAreListed /\ TreeIsAcyclic /\ MappedFollowsTree

Ancestors(s) ==
    LET up[n \in Nat] ==
            IF n = 0 THEN {s}
            ELSE {surfaces[x].parent : x \in up[n - 1]} \ {NoSurface}
    IN  UNION {up[n] : n \in 1 .. Cardinality(Surfaces)}

\* What a synchronised sub-surface shows changes only together with an ancestor
\* that is not synchronised: with its commit, or its change to desynchronised.
SyncAppliesWithParent ==
    [][\A s \in alive \cap alive' :
          (/\ IsSynchronized(surfaces, s) /\ IsSynchronized(surfaces', s)
           /\ surfaces[s].current.buffer # surfaces'[s].current.buffer)
          => \E a \in Ancestors(s) : (Commit(a) \/ SetDesync(a))
                                     /\ ~ IsSynchronized(surfaces', a)]_vars

Abs(n) == IF n < 0 THEN -n ELSE n

\* Content never goes back: a buffer that was attached before the one that is shown
\* is not shown any more.  Not of a surface that lost its role with a state cached.
ContentNeverGoesBack ==
    [][\A s \in (alive \cap alive') \ orphaned :
          Abs(surfaces'[s].current.buffer) >= Abs(surfaces[s].current.buffer)]_vars

Callbacks(x) == x.pending.callbacks \cup x.cached.callbacks \cup x.current.callbacks

\* A frame callback is answered once the state it came with is applied, not before,
\* and merging loses none.
CallbacksSurvive ==
    [][\A s \in alive \cap alive' :
          Callbacks(surfaces[s]) \ Callbacks(surfaces'[s])
              \subseteq surfaces[s].current.callbacks]_vars

=============================================================================
