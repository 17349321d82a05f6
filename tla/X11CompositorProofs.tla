------------------------ MODULE X11CompositorProofs ------------------------
(***************************************************************************)
(* Proofs about X11Compositor, for any effects, properties and windows.    *)
(*                                                                         *)
(* The three invariants are about fields of their own: the reasons and the *)
(* state, the selection, the support properties.  Only the selection needs *)
(* more than its invariant says: a start that believes to own it does not  *)
(* claim it, so what is believed is tied to the claim in every state: one  *)
(* that is believed in was not given up, and when it was granted it still  *)
(* holds or the news that it does not are underway.                        *)
(***************************************************************************)
EXTENDS X11Compositor, TLAPS

Compositors ==
    [state : {"Off", "On", "Crashed"}, backend : {"none", "OpenGL", "XRender"},
     suspended : SUBSET Reasons, type : Types, owning : BOOLEAN,
     release : BOOLEAN, users : [Properties -> SUBSET Effects],
     unused : SUBSET Properties, expire : BOOLEAN, queue : Seq(Calls),
     blocking : SUBSET Windows, gone : BOOLEAN]

Servers ==
    [owner : BOOLEAN, clear : BOOLEAN, claim : Claim, root : SUBSET Properties,
     type : Types, changed : BOOLEAN]

Pairs == [c : Compositors, x : Servers]

\* SuspendedMeansOff.
Obeys(s) == s.c.suspended # {} => s.c.state # "On"

\* SelectionFollowsState, and what is believed in every state.
Claims(s) ==
    /\ s.c.owning => /\ s.x.claim \in {"idle", "waiting", "claimed"}
                     /\ s.x.claim = "claimed" => s.x.owner \/ s.x.clear
    /\ ~s.c.owning => s.x.claim \in {"idle", "released", "stray"}
    /\ s.x.owner => s.x.claim \in {"claimed", "stray"}
    /\ s.c.state = "On" => s.c.owning
    /\ s.c.state = "Off" /\ s.c.owning => s.c.release

\* SupportIsAnnounced.
Announces(s) ==
    \A p \in Properties :
        /\ s.c.users[p] # {} => p \in s.x.root \ s.c.unused
        /\ p \in s.x.root /\ s.c.users[p] = {} => p \in s.c.unused /\ s.c.expire

Sound(s) == s \in Pairs /\ Obeys(s) /\ Claims(s) /\ Announces(s)

\* The fields that the three parts read.
SameObeys(s, t) == t.c.suspended = s.c.suspended /\ t.c.state = s.c.state
SameClaims(s, t) ==
    /\ t.c.owning = s.c.owning /\ t.c.release = s.c.release
    /\ t.x.owner = s.x.owner /\ t.x.clear = s.x.clear /\ t.x.claim = s.x.claim
SameAnnounces(s, t) ==
    /\ t.c.users = s.c.users /\ t.c.unused = s.c.unused /\ t.c.expire = s.c.expire
    /\ t.x.root = s.x.root
Same(s, t) == SameObeys(s, t) /\ SameClaims(s, t) /\ SameAnnounces(s, t)

-----------------------------------------------------------------------------
(* Functions.                                                              *)

LEMMA SameTransitive ==
    ASSUME NEW s, NEW t, NEW u, Same(s, t), Same(t, u)
    PROVE  Same(s, u)
BY Zenon DEF Same, SameObeys, SameClaims, SameAnnounces

\* Fields of the compositor's part, changed together.
WithComp(s, d) == [s EXCEPT !.c = d]

LEMMA CompSet ==
    ASSUME NEW s \in Pairs, NEW d \in Compositors
    PROVE  WithComp(s, d) \in Pairs /\ WithComp(s, d).c = d /\ WithComp(s, d).x = s.x
BY DEF Pairs, WithComp

\* A call that is posted changes the queue only.
LEMMA PostKeeps ==
    ASSUME NEW s \in Pairs, NEW call \in Calls
    PROVE  /\ Post(s, call) \in Pairs /\ Same(s, Post(s, call))
           /\ Post(s, call).c.backend = s.c.backend
<1> DEFINE q == Append(s.c.queue, call)
           d == [s.c EXCEPT !.queue = q]
<1>1. s.c \in Compositors /\ s.c.queue \in Seq(Calls)
  BY DEF Pairs, Compositors
<1>2. q \in Seq(Calls)
  BY <1>1
<1>3. Post(s, call) = WithComp(s, d)
  BY DEF Post, Pairs, Compositors, WithComp
<1> HIDE DEF q
<1>4. d \in Compositors
  BY <1>1, <1>2, Zenon DEF Compositors
<1>5. /\ d.suspended = s.c.suspended /\ d.state = s.c.state /\ d.owning = s.c.owning
      /\ d.release = s.c.release /\ d.users = s.c.users /\ d.unused = s.c.unused
      /\ d.expire = s.c.expire /\ d.backend = s.c.backend
  BY <1>1, Zenon DEF Compositors
<1> HIDE DEF d
<1> QED
  BY <1>3, <1>4, <1>5, CompSet DEF Same, SameObeys, SameClaims, SameAnnounces

LEMMA SameSound ==
    ASSUME NEW s, NEW t \in Pairs, Sound(s), Same(s, t)
    PROVE  Sound(t)
BY Zenon DEF Sound, Same, SameObeys, SameClaims, SameAnnounces, Obeys, Claims, Announces

\* Suspending is not resumed as long as a window blocks.
LEMMA CheckResumeKeeps ==
    ASSUME NEW s \in Pairs, NEW t, t = CheckResume(s)
    PROVE  t \in Pairs /\ Same(s, t) /\ t.c.backend = s.c.backend
<1>1. t = s \/ t = Post(s, "resume")
  BY DEF CheckResume
<1>2. Same(s, s)
  BY DEF Same, SameObeys, SameClaims, SameAnnounces
<1>3. "resume" \in Calls
  BY DEF Calls
<1> QED
  BY <1>1, <1>2, <1>3, PostKeeps

LEMMA DiscardDeletedKeeps ==
    ASSUME NEW s \in Pairs, NEW t, t = DiscardDeleted(s)
    PROVE  t \in Pairs /\ Same(s, t)
<1> DEFINE no == FALSE
           d == [s.c EXCEPT !.gone = no]
           u == WithComp(s, d)
<1>1. s.c \in Compositors
  BY DEF Pairs
<1>2. t = s \/ t = CheckResume([s EXCEPT !.c.gone = no])
  BY DEF DiscardDeleted
<1>3. no \in BOOLEAN
  OBVIOUS
<1> HIDE DEF no
<1>4. [s EXCEPT !.c.gone = no] = u
  BY DEF Pairs, Compositors, WithComp
<1>5. d \in Compositors
  BY <1>1, <1>3, Zenon DEF Compositors
<1>6. /\ d.suspended = s.c.suspended /\ d.state = s.c.state /\ d.owning = s.c.owning
      /\ d.release = s.c.release /\ d.users = s.c.users /\ d.unused = s.c.unused
      /\ d.expire = s.c.expire
  BY <1>1, Zenon DEF Compositors
<1> HIDE DEF d
<1>7. u \in Pairs /\ Same(s, u)
  BY <1>5, <1>6, CompSet DEF Same, SameObeys, SameClaims, SameAnnounces
<1> HIDE DEF u
<1>8. Same(s, s)
  BY DEF Same, SameObeys, SameClaims, SameAnnounces
<1> QED
  BY <1>2, <1>4, <1>7, <1>8, CheckResumeKeeps, SameTransitive

\* The properties of unloaded effects are about to be removed, and it is known.
LEMMA UnloadAllEffectsKeeps ==
    ASSUME NEW s \in Pairs, NEW t, t = UnloadAllEffects(s)
    PROVE  /\ t \in Pairs /\ SameObeys(s, t) /\ SameClaims(s, t)
           /\ Announces(s) => Announces(t)
<1> DEFINE used == {p \in Properties : s.c.users[p] # {}}
           none == [p \in Properties |-> {}]
           un == s.c.unused \cup used
           ex == s.c.expire \/ used # {}
           d == [s.c EXCEPT !.users = none, !.unused = un, !.expire = ex]
<1>1. s.c \in Compositors
  BY DEF Pairs
<1>2. t = WithComp(s, d)
  <2>1. t = [s EXCEPT !.c.users = none, !.c.unused = @ \cup used, !.c.expire = @ \/ used # {}]
    BY Zenon DEF UnloadAllEffects
  <2> HIDE DEF used, none
  <2> QED
    BY <2>1 DEF Pairs, Compositors, WithComp
<1>3. none \in [Properties -> SUBSET Effects] /\ \A p \in Properties : none[p] = {}
  OBVIOUS
<1>4. un \in SUBSET Properties /\ ex \in BOOLEAN
  BY <1>1 DEF Compositors
<1>5. \A p \in Properties : p \in un <=> p \in s.c.unused \/ s.c.users[p] # {}
  BY <1>1 DEF Compositors
<1>6. \A p \in Properties : s.c.users[p] # {} => ex
  OBVIOUS
<1>7. s.c.expire => ex
  OBVIOUS
<1> HIDE DEF used, none, un, ex
<1>8. d \in Compositors
  BY <1>1, <1>3, <1>4, Zenon DEF Compositors
<1>9. /\ d.suspended = s.c.suspended /\ d.state = s.c.state /\ d.owning = s.c.owning
      /\ d.release = s.c.release /\ d.users = none /\ d.unused = un /\ d.expire = ex
  BY <1>1, Zenon DEF Compositors
<1> HIDE DEF d
<1>10. t \in Pairs /\ t.c = d /\ t.x = s.x
  BY <1>2, <1>8, CompSet
<1>11. SameObeys(s, t) /\ SameClaims(s, t)
  BY <1>9, <1>10 DEF SameObeys, SameClaims
<1>12. ASSUME Announces(s) PROVE Announces(t)
  BY <1>3, <1>5, <1>6, <1>7, <1>9, <1>10, <1>12 DEF Announces
<1> QED
  BY <1>10, <1>11, <1>12

\* stop() leaves the selection, and a timer that gives it back.
LEMMA StopStops ==
    ASSUME NEW s \in Pairs, Announces(s), NEW t, t = Stop(s)
    PROVE  /\ t \in Pairs /\ Announces(t) /\ t.c.state # "On"
           /\ t.c.suspended = s.c.suspended /\ t.c.owning = s.c.owning
           /\ t.x.owner = s.x.owner /\ t.x.clear = s.x.clear /\ t.x.claim = s.x.claim
           /\ s.c.state = "On" => t.c.release
           /\ s.c.state # "On" => t.c.release = s.c.release /\ t.c.state = s.c.state
<1>1. CASE s.c.state # "On"
  BY <1>1 DEF Stop
<1>2. CASE s.c.state = "On"
  <2> DEFINE yes == TRUE
             d == [s.c EXCEPT !.release = yes]
             r == WithComp(s, d)
             u == UnloadAllEffects(r)
             v == DiscardDeleted(u)
             e == [v.c EXCEPT !.state = "Off", !.backend = "none"]
  <2>1. t = [DiscardDeleted(UnloadAllEffects([s EXCEPT !.c.release = yes]))
                EXCEPT !.c.state = "Off", !.c.backend = "none"]
    BY <1>2, Zenon DEF Stop
  <2>2. yes \in BOOLEAN /\ s.c \in Compositors
    BY DEF Pairs
  <2>3. yes
    OBVIOUS
  <2> HIDE DEF yes
  <2>4. [s EXCEPT !.c.release = yes] = r
    BY DEF Pairs, Compositors, WithComp
  <2>5. d \in Compositors
    BY <2>2, Zenon DEF Compositors
  <2>6. /\ d.suspended = s.c.suspended /\ d.state = s.c.state /\ d.owning = s.c.owning
        /\ d.release = yes /\ d.users = s.c.users /\ d.unused = s.c.unused
        /\ d.expire = s.c.expire
    BY <2>2, Zenon DEF Compositors
  <2> HIDE DEF d
  <2>7. r \in Pairs /\ r.c = d /\ r.x = s.x
    BY <2>5, CompSet
  <2>8. Announces(r)
    BY <2>6, <2>7 DEF Announces
  <2> HIDE DEF r
  <2>9. u \in Pairs /\ SameObeys(r, u) /\ SameClaims(r, u) /\ Announces(u)
    BY <2>7, <2>8, UnloadAllEffectsKeeps
  <2>10. t = [v EXCEPT !.c.state = "Off", !.c.backend = "none"]
    BY <2>1, <2>4
  <2> HIDE DEF u
  <2>11. v \in Pairs /\ Same(u, v)
    BY <2>9, DiscardDeletedKeeps
  <2> HIDE DEF v
  <2>12. t = WithComp(v, e)
    BY <2>10, <2>11 DEF Pairs, Compositors, WithComp
  <2>13. v.c \in Compositors
    BY <2>11 DEF Pairs
  <2>14. e \in Compositors
    BY <2>13 DEF Compositors
  <2>15. /\ e.suspended = v.c.suspended /\ e.state = "Off" /\ e.owning = v.c.owning
         /\ e.release = v.c.release /\ e.users = v.c.users /\ e.unused = v.c.unused
         /\ e.expire = v.c.expire
    BY <2>13, Zenon DEF Compositors
  <2> HIDE DEF e
  <2>16. t \in Pairs /\ t.c = e /\ t.x = v.x
    BY <2>11, <2>12, <2>14, CompSet
  <2>17. Announces(v)
    BY <2>9, <2>11 DEF Same, SameAnnounces, Announces
  <2>18. Announces(t)
    BY <2>15, <2>16, <2>17 DEF Announces
  <2>19. /\ v.c.suspended = r.c.suspended /\ v.c.owning = r.c.owning
         /\ v.c.release = r.c.release /\ v.x.owner = r.x.owner /\ v.x.clear = r.x.clear /\ v.x.claim = r.x.claim
    BY <2>9, <2>11, Zenon DEF Same, SameObeys, SameClaims
  <2>20. /\ r.c.suspended = s.c.suspended /\ r.c.owning = s.c.owning
         /\ r.c.release = yes /\ r.x.owner = s.x.owner /\ r.x.clear = s.x.clear /\ r.x.claim = s.x.claim
    BY <2>6, <2>7
  <2>21. /\ t.c.suspended = v.c.suspended /\ t.c.owning = v.c.owning /\ t.c.state = "Off"
         /\ t.c.release = v.c.release /\ t.x.owner = v.x.owner /\ t.x.clear = v.x.clear /\ t.x.claim = v.x.claim
    BY <2>15, <2>16
  <2> QED
    BY <1>2, <2>3, <2>16, <2>18, <2>19, <2>20, <2>21
<1> QED
  BY <1>1, <1>2

\* The selection, on both sides.
WithOwning(s, b, o, k) == [s EXCEPT !.c.owning = b, !.x.owner = o, !.x.claim = k]

LEMMA OwningSet ==
    ASSUME NEW s \in Pairs, NEW b \in BOOLEAN, NEW o \in BOOLEAN, NEW k \in Claim,
           NEW t, t = WithOwning(s, b, o, k)
    PROVE  /\ t \in Pairs /\ SameObeys(s, t) /\ SameAnnounces(s, t)
           /\ t.c.owning = b /\ t.x.owner = o /\ t.x.claim = k
           /\ t.c.release = s.c.release /\ t.x.clear = s.x.clear
<1> DEFINE d == [s.c EXCEPT !.owning = b]
           y == [s.x EXCEPT !.owner = o, !.claim = k]
<1>1. s.c \in Compositors /\ s.x \in Servers
  BY DEF Pairs
<1>2. t = [s EXCEPT !.c = d, !.x = y]
  BY DEF Pairs, Compositors, Servers, WithOwning
<1>3. d \in Compositors /\ y \in Servers
  BY <1>1, Zenon DEF Compositors, Servers
<1>4. /\ d.suspended = s.c.suspended /\ d.state = s.c.state /\ d.owning = b
      /\ d.release = s.c.release /\ d.users = s.c.users /\ d.unused = s.c.unused
      /\ d.expire = s.c.expire
      /\ y.owner = o /\ y.claim = k /\ y.clear = s.x.clear /\ y.root = s.x.root
  BY <1>1, Zenon DEF Compositors, Servers
<1> HIDE DEF d, y
<1>5. t \in Pairs /\ t.c = d /\ t.x = y
  BY <1>2, <1>3 DEF Pairs
<1> QED
  BY <1>4, <1>5 DEF SameObeys, SameAnnounces

\* What is released is not owned, and not believed to be; only a claim that has not been
\* answered may still be granted.
LEMMA ReleaseSelectionReleases ==
    ASSUME NEW s \in Pairs, NEW t, t = ReleaseSelection(s)
    PROVE  /\ t \in Pairs /\ SameObeys(s, t) /\ SameAnnounces(s, t)
           /\ ~t.c.owning /\ ~t.x.owner /\ t.x.claim \in {"idle", "released"}
           /\ t.c.release = s.c.release /\ t.x.clear = s.x.clear
<1> DEFINE b == FALSE
           k == IF s.x.claim \in {"waiting", "released"} THEN "released" ELSE "idle"
<1>1. t = WithOwning(s, b, b, k)
  BY Zenon DEF ReleaseSelection, WithOwning
<1>2. b \in BOOLEAN /\ k \in Claim /\ k \in {"idle", "released"}
  BY DEF Claim
<1>3. ~b
  OBVIOUS
<1> HIDE DEF b, k
<1> QED
  BY <1>1, <1>2, <1>3, OwningSet

\* The selection is claimed unless it is believed to be owned.
LEMMA InitializeX11Claims ==
    ASSUME NEW s \in Pairs, Claims(s), NEW t, t = InitializeX11(s)
    PROVE  /\ t \in Pairs /\ SameObeys(s, t) /\ SameAnnounces(s, t)
           /\ t.c.owning /\ t.c.release = s.c.release
           /\ t.x.claim \in {"idle", "waiting", "claimed"}
           /\ t.x.claim = "claimed" => t.x.owner \/ t.x.clear
           /\ t.x.owner => t.x.claim = "claimed"
<1> DEFINE b == TRUE
           o == FALSE
           k == "waiting"
<1>1. t = IF s.c.owning THEN s ELSE WithOwning(s, b, o, k)
  BY Zenon DEF InitializeX11, WithOwning
<1>2. b \in BOOLEAN /\ o \in BOOLEAN /\ k \in Claim
  BY DEF Claim
<1>3. b /\ ~o /\ k = "waiting"
  OBVIOUS
<1> HIDE DEF b, o, k
<1>4. CASE s.c.owning
  <2>1. t = s
    BY <1>1, <1>4
  <2>2. /\ s.x.claim \in {"idle", "waiting", "claimed"}
        /\ s.x.claim = "claimed" => s.x.owner \/ s.x.clear
        /\ s.x.owner => s.x.claim = "claimed"
    BY <1>4 DEF Claims
  <2> QED
    BY <1>4, <2>1, <2>2, Zenon DEF SameObeys, SameAnnounces
<1>5. CASE ~s.c.owning
  <2>1. t = WithOwning(s, b, o, k)
    BY <1>1, <1>5
  <2>2. /\ t \in Pairs /\ SameObeys(s, t) /\ SameAnnounces(s, t)
        /\ t.c.owning = b /\ t.x.owner = o /\ t.x.claim = k /\ t.c.release = s.c.release
    BY <1>2, <2>1, OwningSet
  <2> QED
    BY <1>3, <2>2
<1> QED
  BY <1>4, <1>5

\* A start that succeeds has the selection or has claimed it; one that fails owns nothing.
LEMMA SetupStartSound ==
    ASSUME NEW s, Sound(s), s.c.suspended = {}, NEW b \in {"none", "OpenGL", "XRender"},
           NEW t, t = SetupStart(s, b)
    PROVE  Sound(t)
<1> DEFINE i == InitializeX11(s)
           u == DiscardDeleted(i)
<1>1. CASE s.c.state # "Off"
  BY <1>1 DEF SetupStart
<1>2. CASE s.c.state = "Off"
  <2>1. t = IF b = "none" THEN ReleaseSelection(u)
            ELSE [u EXCEPT !.c.state = "On", !.c.backend = b, !.c.release = FALSE]
    BY <1>2, Zenon DEF SetupStart
  <2>2. /\ i \in Pairs /\ SameObeys(s, i) /\ SameAnnounces(s, i)
        /\ i.c.owning /\ i.x.claim \in {"idle", "waiting", "claimed"}
        /\ (i.x.claim = "claimed" => i.x.owner \/ i.x.clear)
        /\ (i.x.owner => i.x.claim = "claimed")
    BY InitializeX11Claims DEF Sound
  <2> HIDE DEF i
  <2>3. u \in Pairs /\ Same(i, u)
    BY <2>2, DiscardDeletedKeeps
  <2> HIDE DEF u
  <2>4. /\ u.c.suspended = {} /\ u.c.state = "Off" /\ Announces(u)
        /\ u.c.owning /\ u.x.claim \in {"idle", "waiting", "claimed"}
        /\ (u.x.claim = "claimed" => u.x.owner \/ u.x.clear)
        /\ (u.x.owner => u.x.claim = "claimed")
    BY <1>2, <2>2, <2>3 DEF Sound, Same, SameObeys, SameClaims, SameAnnounces, Announces
  <2>5. CASE b = "none"
    <3>1. /\ t \in Pairs /\ SameObeys(u, t) /\ SameAnnounces(u, t) /\ ~t.c.owning
          /\ ~t.x.owner /\ t.x.claim \in {"idle", "released"}
      BY <2>1, <2>3, <2>4, <2>5, ReleaseSelectionReleases
    <3> QED
      BY <2>4, <3>1 DEF Sound, SameObeys, SameAnnounces, Obeys, Claims, Announces
  <2>6. CASE b # "none"
    <3> DEFINE no == FALSE
               e == [u.c EXCEPT !.state = "On", !.backend = b, !.release = no]
    <3>1. t = [u EXCEPT !.c.state = "On", !.c.backend = b, !.c.release = no]
      BY <2>1, <2>6
    <3>2. no \in BOOLEAN /\ u.c \in Compositors
      BY <2>3 DEF Pairs
    <3> HIDE DEF no
    <3>3. t = WithComp(u, e)
      BY <2>3, <3>1 DEF Pairs, Compositors, WithComp
    <3>4. e \in Compositors
      BY <3>2 DEF Compositors
    <3>5. /\ e.suspended = u.c.suspended /\ e.state = "On" /\ e.owning = u.c.owning
          /\ e.users = u.c.users /\ e.unused = u.c.unused /\ e.expire = u.c.expire
      BY <3>2, Zenon DEF Compositors
    <3> HIDE DEF e
    <3>6. t \in Pairs /\ t.c = e /\ t.x = u.x
      BY <2>3, <3>3, <3>4, CompSet
    <3> QED
      BY <2>4, <3>5, <3>6 DEF Sound, Obeys, Claims, Announces
  <2> QED
    BY <2>5, <2>6
<1> QED
  BY <1>1, <1>2

\* DConfig is told the type, and nothing else changes.
LEMMA ReportKeeps ==
    ASSUME NEW s \in Pairs, NEW asked \in Types, NEW t, t = Report(s, asked)
    PROVE  t \in Pairs /\ Same(s, t)
<1> DEFINE type == CASE s.c.backend = "none"    -> "NoneCompositor"
                     [] s.c.backend = "XRender" -> "XRenderComplete"
                     [] OTHER                   -> asked
           b == s.x.changed \/ type # s.x.type
           y == [s.x EXCEPT !.type = type, !.changed = b]
<1>1. type \in Types
  BY DEF Types, OpenGL
<1>2. t = IF type = s.c.type THEN s ELSE [s EXCEPT !.x.type = type, !.x.changed = @ \/ type # s.x.type]
  BY Zenon DEF Report
<1> HIDE DEF type
<1>3. [s EXCEPT !.x.type = type, !.x.changed = @ \/ type # s.x.type] = [s EXCEPT !.x = y]
  BY DEF Pairs, Servers
<1>4. b \in BOOLEAN /\ s.x \in Servers
  BY DEF Pairs, Servers
<1> HIDE DEF b
<1>5. y \in Servers
  BY <1>1, <1>4, Zenon DEF Servers
<1>6. y.owner = s.x.owner /\ y.clear = s.x.clear /\ y.claim = s.x.claim /\ y.root = s.x.root
  BY <1>4, Zenon DEF Servers
<1> HIDE DEF y
<1>7. CASE type = s.c.type
  BY <1>2, <1>7 DEF Same, SameObeys, SameClaims, SameAnnounces
<1>8. CASE type # s.c.type
  <2>1. t = [s EXCEPT !.x = y]
    BY <1>2, <1>3, <1>8
  <2>2. t \in Pairs /\ t.c = s.c /\ t.x = y
    BY <1>5, <2>1 DEF Pairs
  <2> QED
    BY <1>6, <2>2 DEF Same, SameObeys, SameClaims, SameAnnounces
<1> QED
  BY <1>7, <1>8

\* start() composites only when there is no reason left to suspend.
LEMMA StartSound ==
    ASSUME NEW s, Sound(s), NEW t \in Start(s)
    PROVE  Sound(t)
<1>1. s \in Pairs /\ s.c.type \in Types
  BY DEF Sound, Pairs, Compositors
<1>2. \/ t = Report(s, s.c.type)
      \/ /\ s.c.suspended = {}
         /\ \E b \in {"none", "OpenGL", "XRender"}, a \in Types : t = Report(SetupStart(s, b), a)
  BY <1>1 DEF Start, Types, OpenGL
<1>3. CASE t = Report(s, s.c.type)
  BY <1>1, <1>3, ReportKeeps, SameSound
<1>4. ASSUME s.c.suspended = {}, NEW b \in {"none", "OpenGL", "XRender"}, NEW a \in Types,
             t = Report(SetupStart(s, b), a)
      PROVE  Sound(t)
  <2> DEFINE u == SetupStart(s, b)
  <2>1. Sound(u)
    BY <1>4, SetupStartSound
  <2>2. t = Report(u, a)
    BY <1>4
  <2> HIDE DEF u
  <2>3. t \in Pairs /\ Same(u, t)
    BY <2>1, <2>2, <1>4, ReportKeeps DEF Sound
  <2> QED
    BY <2>1, <2>3, SameSound
<1> QED
  BY <1>2, <1>3, <1>4

\* The set of reasons is about nothing else.
WithSuspended(s, r) == [s EXCEPT !.c.suspended = r]

LEMMA SuspendedSet ==
    ASSUME NEW s \in Pairs, NEW r \in SUBSET Reasons, NEW t, t = WithSuspended(s, r)
    PROVE  /\ t \in Pairs /\ t.c.suspended = r /\ t.c.state = s.c.state
           /\ SameClaims(s, t) /\ SameAnnounces(s, t)
<1> DEFINE d == [s.c EXCEPT !.suspended = r]
<1>1. s.c \in Compositors
  BY DEF Pairs
<1>2. t = WithComp(s, d)
  BY DEF Pairs, Compositors, WithComp, WithSuspended
<1>3. d \in Compositors
  BY <1>1, Zenon DEF Compositors
<1>4. /\ d.suspended = r /\ d.state = s.c.state /\ d.owning = s.c.owning
      /\ d.release = s.c.release /\ d.users = s.c.users /\ d.unused = s.c.unused
      /\ d.expire = s.c.expire
  BY <1>1, Zenon DEF Compositors
<1> HIDE DEF d
<1>5. t \in Pairs /\ t.c = d /\ t.x = s.x
  BY <1>2, <1>3, CompSet
<1> QED
  BY <1>4, <1>5 DEF SameClaims, SameAnnounces

\* Whatever the reasons, after stop() there is no compositing.
LEMMA StopSound ==
    ASSUME NEW s \in Pairs, Claims(s), Announces(s), NEW t, t = Stop(s)
    PROVE  Sound(t)
<1>1. /\ t \in Pairs /\ Announces(t) /\ t.c.state # "On"
      /\ t.c.suspended = s.c.suspended /\ t.c.owning = s.c.owning
      /\ t.x.owner = s.x.owner /\ t.x.clear = s.x.clear /\ t.x.claim = s.x.claim
      /\ s.c.state = "On" => t.c.release
      /\ s.c.state # "On" => t.c.release = s.c.release /\ t.c.state = s.c.state
  BY StopStops
<1> QED
  BY <1>1 DEF Sound, Obeys, Claims

LEMMA SuspendSound ==
    ASSUME NEW s, Sound(s), NEW reason \in Reasons, NEW t \in Suspend(s, reason)
    PROVE  Sound(t)
<1> DEFINE r == s.c.suspended \cup {reason}
           u == WithSuspended(s, r)
<1>1. t = Stop(u)
  BY DEF Suspend, WithSuspended
<1>2. s \in Pairs /\ r \in SUBSET Reasons
  BY DEF Sound, Pairs, Compositors
<1> HIDE DEF r
<1>3. /\ u \in Pairs /\ u.c.state = s.c.state /\ SameClaims(s, u) /\ SameAnnounces(s, u)
  BY <1>2, SuspendedSet
<1> HIDE DEF u
<1>4. Claims(u) /\ Announces(u)
  BY <1>3, Zenon DEF Sound, SameClaims, SameAnnounces, Claims, Announces
<1> QED
  BY <1>1, <1>3, <1>4, StopSound

\* A reason that is taken away leaves the others.
LEMMA ResumeSound ==
    ASSUME NEW s, Sound(s), NEW reasons \in SUBSET Reasons, NEW t \in Resume(s, reasons)
    PROVE  Sound(t)
<1> DEFINE r == s.c.suspended \ reasons
           u == WithSuspended(s, r)
<1>1. t \in Start(u)
  BY DEF Resume, WithSuspended
<1>2. s \in Pairs /\ r \in SUBSET Reasons
  BY DEF Sound, Pairs, Compositors
<1>3. r # {} => s.c.suspended # {}
  OBVIOUS
<1> HIDE DEF r
<1>4. /\ u \in Pairs /\ u.c.state = s.c.state /\ SameClaims(s, u) /\ SameAnnounces(s, u)
      /\ u.c.suspended = r
  BY <1>2, SuspendedSet
<1> HIDE DEF u
<1>5. Claims(u) /\ Announces(u)
  BY <1>4, Zenon DEF Sound, SameClaims, SameAnnounces, Claims, Announces
<1>6. Sound(u)
  BY <1>3, <1>4, <1>5 DEF Sound, Obeys
<1> QED
  BY <1>1, <1>6, StartSound

LEMMA ReinitializeSound ==
    ASSUME NEW s, Sound(s), NEW t \in Reinitialize(s)
    PROVE  Sound(t)
<1> DEFINE u == WithSuspended(s, {})
           v == Stop(u)
<1>1. t \in Start(v)
  BY DEF Reinitialize, WithSuspended
<1>2. s \in Pairs /\ {} \in SUBSET Reasons
  BY DEF Sound
<1>3. /\ u \in Pairs /\ u.c.state = s.c.state /\ SameClaims(s, u) /\ SameAnnounces(s, u)
  BY <1>2, SuspendedSet
<1> HIDE DEF u
<1>4. Claims(u) /\ Announces(u)
  BY <1>3, Zenon DEF Sound, SameClaims, SameAnnounces, Claims, Announces
<1>5. Sound(v)
  BY <1>3, <1>4, StopSound
<1> HIDE DEF v
<1> QED
  BY <1>1, <1>5, StartSound

-----------------------------------------------------------------------------
(* The steps.                                                              *)

\* The state after a step is one of the pairs it is given.
LEMMA StepSound ==
    ASSUME NEW S, \A s \in S : Sound(s), Step(S)
    PROVE  Sound(Both)'
<1>1. PICK s \in S : c' = s.c /\ x' = s.x
  BY DEF Step
<1>2. s \in Pairs /\ Sound(s)
  BY <1>1 DEF Sound
<1>3. s = [c |-> s.c, x |-> s.x]
  BY <1>2 DEF Pairs
<1>4. Both' = s
  BY <1>1, <1>3 DEF Both
<1> QED
  BY <1>2, <1>4

\* Both of the pair of the two variables.
LEMMA BothFields ==
    ASSUME Sound(Both)
    PROVE  /\ Both.c = c /\ Both.x = x /\ c \in Compositors /\ x \in Servers
           /\ Both \in Pairs
<1>1. Both.c = c /\ Both.x = x
  BY DEF Both
<1> QED
  BY <1>1 DEF Sound, Pairs

LEMMA InitSound == Init => Sound(Both)
<1> SUFFICES ASSUME Init PROVE Sound(Both)
  OBVIOUS
<1>1. PICK t \in Types, r \in {{}, {"User"}}, q \in {<<"start">>, <<"reinitialize", "start">>} :
        /\ c = [state |-> "Off", backend |-> "none", suspended |-> r,
                type |-> IF Len(q) = 2 THEN t ELSE "AutoSelect", owning |-> FALSE,
                release |-> FALSE, users |-> [p \in Properties |-> {}], unused |-> {},
                expire |-> FALSE, queue |-> q, blocking |-> {}, gone |-> FALSE]
        /\ x = [owner |-> FALSE, clear |-> FALSE, claim |-> "idle", root |-> {},
                type |-> t, changed |-> FALSE]
  BY DEF Init
<1> DEFINE y == IF Len(q) = 2 THEN t ELSE "AutoSelect"
<1>2. y \in Types /\ r \in SUBSET Reasons
  BY DEF Types, Reasons
<1>3. q \in Seq(Calls)
  <2>1. "start" \in Calls /\ "reinitialize" \in Calls
    BY DEF Calls
  <2>2. <<"start">> \in Seq(Calls) /\ <<"reinitialize", "start">> \in Seq(Calls)
    BY <2>1
  <2> QED
    BY <2>2
<1>4. c = [state |-> "Off", backend |-> "none", suspended |-> r,
           type |-> y, owning |-> FALSE,
           release |-> FALSE, users |-> [p \in Properties |-> {}], unused |-> {},
           expire |-> FALSE, queue |-> q, blocking |-> {}, gone |-> FALSE]
  BY <1>1
<1> HIDE DEF y
<1>5. c \in Compositors
  BY <1>2, <1>3, <1>4 DEF Compositors
<1>6. x \in Servers
  BY <1>1 DEF Servers, Claim
<1>7. /\ c.state = "Off" /\ ~c.owning /\ (\A p \in Properties : c.users[p] = {})
      /\ ~x.owner /\ x.claim = "idle" /\ x.root = {}
  BY <1>1
<1>8. Both.c = c /\ Both.x = x /\ Both \in Pairs
  BY <1>5, <1>6 DEF Both, Pairs
<1> QED
  BY <1>7, <1>8 DEF Sound, Obeys, Claims, Announces

\* Fields that none of the parts reads.
SameComp(d, e) ==
    /\ e.suspended = d.suspended /\ e.state = d.state /\ e.owning = d.owning
    /\ e.release = d.release /\ e.users = d.users /\ e.unused = d.unused
    /\ e.expire = d.expire

SameServer(y, z) ==
    z.owner = y.owner /\ z.clear = y.clear /\ z.claim = y.claim /\ z.root = y.root

LEMMA OtherSound ==
    ASSUME NEW s, Sound(s), NEW d \in Compositors, SameComp(s.c, d),
           NEW y \in Servers, SameServer(s.x, y), NEW t, t = [s EXCEPT !.c = d, !.x = y]
    PROVE  Sound(t)
<1>1. s \in Pairs
  BY DEF Sound
<1>2. t \in Pairs /\ t.c = d /\ t.x = y
  BY <1>1 DEF Pairs
<1>3. Same(s, t)
  BY <1>2 DEF Same, SameObeys, SameClaims, SameAnnounces, SameComp, SameServer
<1> QED
  BY <1>2, <1>3, SameSound

\* The queue, the windows that block and those that are gone.
WithLoop(q, b, g) == [Both EXCEPT !.c.queue = q, !.c.blocking = b, !.c.gone = g]

LEMMA LoopSet ==
    ASSUME Sound(Both), NEW q \in Seq(Calls), NEW b \in SUBSET Windows, NEW g \in BOOLEAN
    PROVE  Sound(WithLoop(q, b, g))
<1> DEFINE d == [c EXCEPT !.queue = q, !.blocking = b, !.gone = g]
<1>1. /\ Both.c = c /\ Both.x = x /\ c \in Compositors /\ x \in Servers /\ Both \in Pairs
  BY BothFields
<1>2. WithLoop(q, b, g) = [Both EXCEPT !.c = d, !.x = x]
  BY <1>1 DEF Pairs, Compositors, WithLoop
<1>3. d \in Compositors
  BY <1>1, Zenon DEF Compositors
<1>4. SameComp(c, d)
  BY <1>1, Zenon DEF Compositors, SameComp
<1>5. SameServer(x, x)
  BY DEF SameServer
<1> HIDE DEF d
<1> QED
  BY <1>1, <1>2, <1>3, <1>4, <1>5, OtherSound

\* Each field of these on its own.
LEMMA LoopFields ==
    ASSUME Sound(Both), NEW q, NEW b, NEW g
    PROVE  /\ [Both EXCEPT !.c.queue = q] = WithLoop(q, c.blocking, c.gone)
           /\ [Both EXCEPT !.c.blocking = b] = WithLoop(c.queue, b, c.gone)
           /\ [Both EXCEPT !.c.gone = g] = WithLoop(c.queue, c.blocking, g)
           /\ c.queue \in Seq(Calls) /\ c.blocking \in SUBSET Windows /\ c.gone \in BOOLEAN
<1>1. /\ Both.c = c /\ Both.x = x /\ c \in Compositors /\ Both \in Pairs
  BY BothFields
<1>2. c.queue \in Seq(Calls) /\ c.blocking \in SUBSET Windows /\ c.gone \in BOOLEAN
  BY <1>1 DEF Compositors
<1>3. [Both EXCEPT !.c.queue = q] = WithLoop(q, c.blocking, c.gone)
  BY <1>1 DEF Pairs, Compositors, WithLoop
<1>4. [Both EXCEPT !.c.blocking = b] = WithLoop(c.queue, b, c.gone)
  BY <1>1 DEF Pairs, Compositors, WithLoop
<1>5. [Both EXCEPT !.c.gone = g] = WithLoop(c.queue, c.blocking, g)
  BY <1>1 DEF Pairs, Compositors, WithLoop
<1> QED
  BY <1>2, <1>3, <1>4, <1>5

LEMMA RunQueuedSound ==
    ASSUME Sound(Both), RunQueued
    PROVE  Sound(Both)'
<1> DEFINE q == Tail(c.queue)
           s == [Both EXCEPT !.c.queue = q]
<1>1. c.queue \in Seq(Calls) /\ c.queue # <<>> /\ Both.c = c
  BY LoopFields, BothFields DEF RunQueued
<1>2. q \in Seq(Calls)
  BY <1>1
<1>3. [Both EXCEPT !.c.queue = Tail(@)] = s
  BY <1>1, Zenon
<1>4. (CASE Head(c.queue) = "start"        -> Step(Start(s))
         [] Head(c.queue) = "reinitialize" -> Step(Reinitialize(s))
         [] Head(c.queue) = "suspend"      -> Step(Suspend(s, "BlockRule"))
         [] Head(c.queue) = "resume"       -> Step(Resume(s, {"BlockRule"})))
  BY <1>3, Zenon DEF RunQueued
<1> HIDE DEF q
<1>5. s = WithLoop(q, c.blocking, c.gone)
  BY LoopFields
<1> HIDE DEF s
<1>6. c.blocking \in SUBSET Windows /\ c.gone \in BOOLEAN
  BY LoopFields
<1>7. Sound(s)
  BY <1>2, <1>5, <1>6, LoopSet
<1>8. Head(c.queue) \in Calls
  BY <1>1
<1>9. "BlockRule" \in Reasons
  BY DEF Reasons
<1>10. \/ Step(Start(s)) \/ Step(Reinitialize(s)) \/ Step(Suspend(s, "BlockRule"))
      \/ Step(Resume(s, {"BlockRule"}))
  BY <1>4, <1>8 DEF Calls
<1>11. CASE Step(Start(s))
  BY <1>7, <1>11, StartSound, StepSound
<1>12. CASE Step(Reinitialize(s))
  BY <1>7, <1>12, ReinitializeSound, StepSound
<1>13. CASE Step(Suspend(s, "BlockRule"))
  BY <1>7, <1>9, <1>13, SuspendSound, StepSound
<1>14. CASE Step(Resume(s, {"BlockRule"}))
  <2>1. {"BlockRule"} \in SUBSET Reasons
    BY <1>9
  <2> QED
    BY <1>7, <1>14, <2>1, ResumeSound, StepSound
<1> QED
  BY <1>10, <1>11, <1>12, <1>13, <1>14

\* D-Bus, the shortcut and the settings.
LEMMA RequestSound ==
    ASSUME Sound(Both),
           DBusSuspend \/ DBusResume \/ DBusReinitialize \/ ToggleCompositing \/ ConfigChanged
    PROVE  Sound(Both)'
<1>1. "User" \in Reasons /\ {"User"} \in SUBSET Reasons /\ Reasons \in SUBSET Reasons
  BY DEF Reasons
<1>2. Both \in Pairs /\ Claims(Both) /\ Announces(Both)
  BY DEF Sound
<1>3. \/ Step(Suspend(Both, "User")) \/ Step(Resume(Both, {"User"})) \/ Step(Reinitialize(Both))
      \/ Step(Resume(Both, Reasons)) \/ Step({Stop(Both)}) \/ Step(Start(Both))
  BY DEF DBusSuspend, DBusResume, DBusReinitialize, ToggleCompositing, ConfigChanged
<1>4. CASE Step(Suspend(Both, "User"))
  BY <1>1, <1>4, SuspendSound, StepSound
<1>5. CASE Step(Resume(Both, {"User"}))
  BY <1>1, <1>5, ResumeSound, StepSound
<1>6. CASE Step(Reinitialize(Both))
  BY <1>6, ReinitializeSound, StepSound
<1>7. CASE Step(Resume(Both, Reasons))
  BY <1>1, <1>7, ResumeSound, StepSound
<1>8. CASE Step({Stop(Both)})
  BY <1>2, <1>8, StopSound, StepSound
<1>9. CASE Step(Start(Both))
  BY <1>9, StartSound, StepSound
<1> QED
  BY <1>3, <1>4, <1>5, <1>6, <1>7, <1>8, <1>9

\* Posting, and looking whether anything blocks, in a pair.
LEMMA PostSound ==
    ASSUME NEW s, Sound(s), NEW call \in Calls
    PROVE  Sound(Post(s, call)) /\ Sound(CheckResume(s))
BY PostKeeps, CheckResumeKeeps, SameSound DEF Sound

LEMMA BlockCompositingSound ==
    ASSUME Sound(Both), NEW w \in Windows, BlockCompositing(w) \/ UnblockCompositing(w)
    PROVE  Sound(Both)'
<1> DEFINE b == IF w \notin c.blocking THEN c.blocking \cup {w} ELSE c.blocking \ {w}
           s == [Both EXCEPT !.c.blocking = b]
<1>1. Both.c = c /\ c.blocking \in SUBSET Windows
  BY BothFields, LoopFields
<1>2. b \in SUBSET Windows
  BY <1>1
<1>3. Step({s}) \/ Step({Post(s, "suspend")}) \/ Step({CheckResume(s)})
  <2>1. CASE BlockCompositing(w)
    BY <1>1, <2>1 DEF BlockCompositing
  <2>2. CASE UnblockCompositing(w)
    BY <1>1, <2>2 DEF UnblockCompositing
  <2> QED
    BY <2>1, <2>2
<1> HIDE DEF b
<1>4. s = WithLoop(c.queue, b, c.gone)
  BY LoopFields
<1> HIDE DEF s
<1>5. c.queue \in Seq(Calls) /\ c.gone \in BOOLEAN
  BY LoopFields
<1>6. Sound(s)
  BY <1>2, <1>4, <1>5, LoopSet
<1>7. Sound(Post(s, "suspend")) /\ Sound(CheckResume(s))
  BY <1>6, PostSound DEF Calls
<1> QED
  BY <1>3, <1>6, <1>7, StepSound

LEMMA CloseWindowSound ==
    ASSUME Sound(Both), NEW w \in Windows, CloseWindow(w)
    PROVE  Sound(Both)'
<1> DEFINE b == c.blocking \ {w}
           g == TRUE
<1>1. Both.c = c /\ Both.x = x /\ Both \in Pairs /\ c \in Compositors /\ x \in Servers
  BY BothFields
<1>2. c' = [c EXCEPT !.blocking = b, !.gone = g] /\ x' = x
  BY DEF CloseWindow
<1>3. b \in SUBSET Windows /\ g \in BOOLEAN
  BY LoopFields
<1> HIDE DEF b, g
<1>4. Both' = [Both EXCEPT !.c = c']
  BY <1>1, <1>2 DEF Both, Pairs
<1>5. Both' = WithLoop(c.queue, b, g)
  BY <1>1, <1>2, <1>4 DEF WithLoop, Pairs, Compositors
<1>6. Sound(WithLoop(c.queue, b, g))
  BY <1>3, LoopFields, LoopSet
<1> QED
  BY <1>5, <1>6

LEMMA RemoveDeletedSound ==
    ASSUME Sound(Both), RemoveDeleted
    PROVE  Sound(Both)'
<1>1. PICK more \in BOOLEAN : Step({CheckResume([Both EXCEPT !.c.gone = more])})
  BY DEF RemoveDeleted
<1> DEFINE s == WithLoop(c.queue, c.blocking, more)
<1>2. [Both EXCEPT !.c.gone = more] = s
  BY LoopFields
<1>3. Sound(s)
  BY LoopFields, LoopSet
<1>4. Step({CheckResume(s)})
  BY <1>1, <1>2
<1> HIDE DEF s
<1>5. Sound(CheckResume(s))
  BY <1>3, PostSound DEF Calls
<1> QED
  BY <1>4, <1>5, StepSound

\* Steps that set the two variables themselves.
LEMMA FieldsSound ==
    ASSUME Sound(Both), c' \in Compositors, x' \in Servers,
           Obeys(Both'), Claims(Both'), Announces(Both')
    PROVE  Sound(Both)'
BY DEF Sound, Pairs, Both

LEMMA UserSetsTypeSound ==
    ASSUME Sound(Both), NEW type \in Types, UserSetsType(type)
    PROVE  Sound(Both)'
<1> DEFINE b == TRUE
           y == [x EXCEPT !.type = type, !.changed = b]
<1>1. /\ Both.c = c /\ Both.x = x /\ c \in Compositors /\ x \in Servers /\ Both \in Pairs
  BY BothFields
<1>2. c' = c /\ x' = y
  BY DEF UserSetsType
<1>3. b \in BOOLEAN
  OBVIOUS
<1> HIDE DEF b
<1>4. y \in Servers /\ SameServer(x, y)
  BY <1>1, <1>3, Zenon DEF Servers, SameServer
<1> HIDE DEF y
<1>5. Both'.c = c /\ Both'.x = y
  BY <1>2 DEF Both
<1>6. Obeys(Both') /\ Claims(Both') /\ Announces(Both')
  BY <1>1, <1>4, <1>5 DEF Sound, Obeys, Claims, Announces, SameServer
<1> QED
  BY <1>1, <1>2, <1>4, <1>6, FieldsSound

\* The type that the user has set; the effects are used before they are there.
LEMMA HandleDConfigUserTypeChangedSound ==
    ASSUME Sound(Both), HandleDConfigUserTypeChanged
    PROVE  Sound(Both)'
<1> DEFINE no == FALSE
           d == [c EXCEPT !.type = x.type]
           y == [x EXCEPT !.changed = no]
           s == [Both EXCEPT !.c.type = x.type, !.x.changed = no]
           e == [s.c EXCEPT !.state = "Crashed"]
           u == WithComp(s, e)
<1>1. /\ Both.c = c /\ Both.x = x /\ c \in Compositors /\ x \in Servers /\ Both \in Pairs
  BY BothFields
<1>2. \/ Step({s}) \/ Step({Post(s, "reinitialize")})
      \/ Step({[s EXCEPT !.c.state = "Crashed"]})
  BY DEF HandleDConfigUserTypeChanged
<1>3. no \in BOOLEAN /\ x.type \in Types
  BY <1>1 DEF Servers
<1> HIDE DEF no
<1>4. s = [Both EXCEPT !.c = d, !.x = y]
  BY <1>1 DEF Pairs, Compositors, Servers
<1>5. d \in Compositors /\ SameComp(c, d)
  BY <1>1, <1>3, Zenon DEF Compositors, SameComp
<1>6. y \in Servers /\ SameServer(x, y)
  BY <1>1, <1>3, Zenon DEF Servers, SameServer
<1> HIDE DEF d, y, s
<1>7. Sound(s)
  BY <1>1, <1>4, <1>5, <1>6, OtherSound
<1>8. s \in Pairs /\ s.c \in Compositors
  BY <1>7 DEF Sound, Pairs
<1>9. [s EXCEPT !.c.state = "Crashed"] = u
  BY <1>8 DEF Pairs, Compositors, WithComp
<1>10. e \in Compositors
  BY <1>8 DEF Compositors
<1>11. /\ e.state = "Crashed" /\ e.owning = s.c.owning
       /\ e.users = s.c.users /\ e.unused = s.c.unused /\ e.expire = s.c.expire
  BY <1>8, Zenon DEF Compositors
<1> HIDE DEF e
<1>12. u \in Pairs /\ u.c = e /\ u.x = s.x
  BY <1>8, <1>10, CompSet
<1>13. Sound(u)
  BY <1>7, <1>11, <1>12 DEF Sound, Obeys, Claims, Announces
<1> HIDE DEF u
<1>14. Sound(Post(s, "reinitialize"))
  BY <1>7, PostSound DEF Calls
<1> QED
  BY <1>2, <1>7, <1>9, <1>13, <1>14, StepSound

\* A claim is granted or refused, and counts only if it has not been given up before.
LEMMA ClaimAnsweredSound ==
    ASSUME Sound(Both), NEW granted \in BOOLEAN, ClaimAnswered(granted)
    PROVE  Sound(Both)'
<1> DEFINE k == IF ~granted THEN "idle"
                ELSE IF x.claim = "waiting" THEN "claimed" ELSE "stray"
<1>1. /\ Both.c = c /\ Both.x = x /\ c \in Compositors /\ x \in Servers /\ Both \in Pairs
  BY BothFields
<1>2. c' = c /\ x' = [x EXCEPT !.owner = granted, !.claim = k]
  BY DEF ClaimAnswered
<1>3. /\ x.claim \in {"waiting", "released"}
      /\ ~granted => k = "idle"
      /\ granted /\ x.claim = "waiting" => k = "claimed"
      /\ granted /\ x.claim = "released" => k = "stray"
  <2>1. x.claim \in {"waiting", "released"}
    BY DEF ClaimAnswered
  <2>2. CASE granted
    BY <2>1, <2>2
  <2>3. CASE ~granted
    BY <2>1, <2>3
  <2> QED
    BY <2>2, <2>3
<1> HIDE DEF k
<1>4. k \in Claim
  BY <1>3 DEF Claim
<1>5. /\ x' \in Servers /\ x'.owner = granted /\ x'.clear = x.clear /\ x'.claim = k
      /\ x'.root = x.root
  BY <1>1, <1>2, <1>4, Zenon DEF Servers
<1>6. Both'.c = c /\ Both'.x = x'
  BY <1>2 DEF Both
<1>7. Obeys(Both') /\ Announces(Both')
  BY <1>1, <1>5, <1>6 DEF Sound, Obeys, Announces
<1>8. Claims(Both')
  <2>1. ~c.owning => x.claim = "released"
    BY <1>1, <1>3 DEF Sound, Claims
  <2>2. c.owning => x.claim = "waiting"
    BY <1>1, <1>3 DEF Sound, Claims
  <2>3. c.owning => k \in {"idle", "claimed"} /\ (k = "claimed" => granted)
    BY <1>3, <2>2
  <2>4. ~c.owning => k \in {"idle", "stray"}
    BY <1>3, <2>1
  <2>5. granted => k \in {"claimed", "stray"}
    BY <1>3
  <2>6. /\ c.state = "On" => c.owning
        /\ c.state = "Off" /\ c.owning => c.release
    BY <1>1 DEF Sound, Claims
  <2> QED
    BY <1>5, <1>6, <2>3, <2>4, <2>5, <2>6 DEF Claims
<1> QED
  BY <1>1, <1>2, <1>5, <1>7, <1>8, FieldsSound

\* That the selection is lost is known later.
LEMMA OtherClaimsSound ==
    ASSUME Sound(Both), OtherClaims
    PROVE  Sound(Both)'
<1>1. /\ Both.c = c /\ Both.x = x /\ c \in Compositors /\ x \in Servers /\ Both \in Pairs
  BY BothFields
<1>2. c' = c /\ x' = [x EXCEPT !.owner = FALSE, !.clear = TRUE]
  BY DEF OtherClaims
<1>3. /\ x' \in Servers /\ ~x'.owner /\ x'.clear /\ x'.claim = x.claim
      /\ x'.root = x.root
  BY <1>1, <1>2 DEF Servers
<1>4. Both'.c = c /\ Both'.x = x'
  BY <1>2 DEF Both
<1>5. Obeys(Both') /\ Claims(Both') /\ Announces(Both')
  BY <1>1, <1>3, <1>4 DEF Sound, Obeys, Claims, Announces
<1> QED
  BY <1>1, <1>2, <1>3, <1>5, FieldsSound

\* Whoever has lost the selection stops, unless it had given it back before.
LEMMA LostOwnershipSound ==
    ASSUME Sound(Both), LostOwnership
    PROVE  Sound(Both)'
<1> DEFINE no == FALSE
           y == [x EXCEPT !.clear = no]
           s == [Both EXCEPT !.x.clear = no]
           k == "idle"
           r == WithOwning(s, no, no, k)
           v == Stop(r)
<1>1. /\ Both.c = c /\ Both.x = x /\ c \in Compositors /\ x \in Servers /\ Both \in Pairs
  BY BothFields
<1>2. Step({IF x.claim \in {"claimed", "stray"}
            THEN Stop([s EXCEPT !.c.owning = no, !.x.owner = no, !.x.claim = k]) ELSE s})
  BY Zenon DEF LostOwnership
<1>3. no \in BOOLEAN /\ k \in Claim
  BY DEF Claim
<1>4. ~no /\ k = "idle"
  OBVIOUS
<1> HIDE DEF no, k
<1>5. s = [Both EXCEPT !.x = y]
  BY <1>1 DEF Pairs, Servers
<1>6. y \in Servers /\ y.owner = x.owner /\ y.claim = x.claim /\ y.root = x.root
  BY <1>1, <1>3, Zenon DEF Servers
<1> HIDE DEF y
<1>7. s \in Pairs /\ s.c = c /\ s.x = y
  BY <1>1, <1>5, <1>6 DEF Pairs
<1> HIDE DEF s
<1>8. Announces(s) /\ Obeys(s)
  BY <1>1, <1>6, <1>7 DEF Sound, Announces, Obeys
<1>9. CASE x.claim \in {"claimed", "stray"}
  <2>1. Step({v})
    BY <1>2, <1>9, Zenon DEF WithOwning
  <2>2. /\ r \in Pairs /\ SameAnnounces(s, r) /\ r.c.owning = no /\ r.x.owner = no
        /\ r.x.claim = k
    BY <1>3, <1>7, OwningSet
  <2> HIDE DEF r
  <2>3. Announces(r)
    BY <1>8, <2>2, Zenon DEF Announces, SameAnnounces
  <2>4. /\ v \in Pairs /\ Announces(v) /\ v.c.state # "On"
        /\ v.c.owning = r.c.owning /\ v.x.owner = r.x.owner /\ v.x.claim = r.x.claim
    BY <2>2, <2>3, StopStops
  <2> HIDE DEF v
  <2>5. Sound(v)
    BY <1>4, <2>2, <2>4 DEF Sound, Obeys, Claims
  <2> QED
    BY <2>1, <2>5, StepSound
<1>10. CASE x.claim \notin {"claimed", "stray"}
  <2>1. Claims(s)
    BY <1>1, <1>6, <1>7, <1>10 DEF Sound, Claims
  <2> QED
    BY <1>2, <1>7, <1>8, <1>10, <2>1, StepSound DEF Sound
<1> QED
  BY <1>9, <1>10

\* The timer gives the selection back unless compositing has been started again.
LEMMA ReleaseCompositorSelectionSound ==
    ASSUME Sound(Both), ReleaseCompositorSelection
    PROVE  Sound(Both)'
<1> DEFINE no == FALSE
           d == [c EXCEPT !.release = no]
           s == [Both EXCEPT !.c.release = no]
           v == ReleaseSelection(s)
<1>1. /\ Both.c = c /\ Both.x = x /\ c \in Compositors /\ x \in Servers /\ Both \in Pairs
  BY BothFields
<1>2. Step({IF c.state = "Off" THEN v ELSE s}) /\ c.state # "Crashed"
  BY Zenon DEF ReleaseCompositorSelection, Alive
<1>3. no \in BOOLEAN
  OBVIOUS
<1> HIDE DEF no
<1>4. s = WithComp(Both, d)
  BY <1>1 DEF Pairs, Compositors, WithComp
<1>5. d \in Compositors
  BY <1>1, <1>3, Zenon DEF Compositors
<1>6. /\ d.suspended = c.suspended /\ d.state = c.state /\ d.owning = c.owning
      /\ d.users = c.users /\ d.unused = c.unused /\ d.expire = c.expire
  BY <1>1, Zenon DEF Compositors
<1> HIDE DEF d
<1>7. s \in Pairs /\ s.c = d /\ s.x = x
  BY <1>1, <1>4, <1>5, CompSet
<1> HIDE DEF s
<1>8. Announces(s) /\ Obeys(s)
  BY <1>1, <1>6, <1>7 DEF Sound, Announces, Obeys
<1>9. CASE c.state = "Off"
  <2>1. /\ v \in Pairs /\ SameObeys(s, v) /\ SameAnnounces(s, v)
        /\ ~v.c.owning /\ ~v.x.owner /\ v.x.claim \in {"idle", "released"}
    BY <1>7, ReleaseSelectionReleases
  <2> HIDE DEF v
  <2>3. Announces(v)
    BY <1>8, <2>1, Zenon DEF Announces, SameAnnounces
  <2>4. Sound(v)
    BY <1>6, <1>7, <1>9, <2>1, <2>3 DEF Sound, SameObeys, Obeys, Claims
  <2> QED
    BY <1>2, <1>9, <2>4, StepSound
<1>10. CASE c.state # "Off"
  <2>1. Claims(s)
    BY <1>1, <1>6, <1>7, <1>10 DEF Sound, Claims
  <2> QED
    BY <1>2, <1>7, <1>8, <1>10, <2>1, StepSound DEF Sound
<1> QED
  BY <1>9, <1>10

\* An effect announces a property, which is kept if it was about to be removed.
LEMMA AnnounceSupportPropertySound ==
    ASSUME Sound(Both), NEW e \in Effects, NEW p \in Properties, AnnounceSupportProperty(e, p)
    PROVE  Sound(Both)'
<1> DEFINE us == [c.users EXCEPT ![p] = c.users[p] \cup {e}]
           un == IF c.users[p] = {} THEN c.unused \ {p} ELSE c.unused
           ro == IF c.users[p] = {} THEN x.root \cup {p} ELSE x.root
<1>1. /\ Both.c = c /\ Both.x = x /\ c \in Compositors /\ x \in Servers /\ Both \in Pairs
  BY BothFields
<1>2. c' = [c EXCEPT !.users = us, !.unused = un] /\ x' = [x EXCEPT !.root = ro]
  BY <1>1 DEF AnnounceSupportProperty, Compositors, Servers
<1>3. /\ c.users \in [Properties -> SUBSET Effects] /\ c.unused \in SUBSET Properties
      /\ x.root \in SUBSET Properties
  BY <1>1 DEF Compositors, Servers
<1>4. /\ us \in [Properties -> SUBSET Effects] /\ us[p] # {}
      /\ \A q \in Properties : q # p => us[q] = c.users[q]
  BY <1>3
<1>5. un \in SUBSET Properties /\ ro \in SUBSET Properties
  BY <1>3
<1>6. \A q \in Properties : q # p => (q \in un <=> q \in c.unused) /\ (q \in ro <=> q \in x.root)
  OBVIOUS
<1>7. \A q \in Properties : c.users[q] # {} => q \in x.root \ c.unused
  BY <1>1 DEF Sound, Announces
<1>8. p \in ro /\ p \notin un
  BY <1>7
<1> HIDE DEF us, un, ro
<1>9. c' \in Compositors /\ x' \in Servers
  BY <1>1, <1>2, <1>4, <1>5, Zenon DEF Compositors, Servers
<1>10. /\ SameObeys(Both, Both') /\ SameClaims(Both, Both')
       /\ c'.users = us /\ c'.unused = un /\ c'.expire = c.expire /\ x'.root = ro
       /\ Both'.c = c' /\ Both'.x = x'
  <2>1. Both'.c = c' /\ Both'.x = x'
    BY DEF Both
  <2>2. /\ c'.users = us /\ c'.unused = un /\ c'.expire = c.expire /\ x'.root = ro
        /\ c'.suspended = c.suspended /\ c'.state = c.state /\ c'.owning = c.owning
        /\ c'.release = c.release /\ x'.owner = x.owner /\ x'.clear = x.clear
        /\ x'.claim = x.claim
    BY <1>1, <1>2, Zenon DEF Compositors, Servers
  <2> QED
    BY <1>1, <2>1, <2>2 DEF SameObeys, SameClaims
<1>11. Announces(Both')
  BY <1>1, <1>4, <1>6, <1>8, <1>10 DEF Sound, Announces
<1> QED
  BY <1>9, <1>10, <1>11, FieldsSound DEF Sound, SameObeys, SameClaims, Obeys, Claims

\* A property that the last effect gives up is about to be removed.
LEMMA RemoveSupportPropertySound ==
    ASSUME Sound(Both), NEW e \in Effects, NEW p \in Properties, RemoveSupportProperty(e, p)
    PROVE  Sound(Both)'
<1> DEFINE us == [c.users EXCEPT ![p] = c.users[p] \ {e}]
           un == IF c.users[p] = {e} THEN c.unused \cup {p} ELSE c.unused
           ex == c.expire \/ c.users[p] = {e}
<1>1. /\ Both.c = c /\ Both.x = x /\ c \in Compositors /\ x \in Servers /\ Both \in Pairs
  BY BothFields
<1>2. c' = [c EXCEPT !.users = us, !.unused = un, !.expire = ex] /\ x' = x
  BY <1>1 DEF RemoveSupportProperty, Compositors
<1>3. /\ c.users \in [Properties -> SUBSET Effects] /\ c.unused \in SUBSET Properties
      /\ e \in c.users[p]
  BY <1>1 DEF Compositors, RemoveSupportProperty
<1>4. /\ us \in [Properties -> SUBSET Effects] /\ us[p] = c.users[p] \ {e}
      /\ \A q \in Properties : q # p => us[q] = c.users[q]
  BY <1>3
<1>5. un \in SUBSET Properties /\ ex \in BOOLEAN
  BY <1>1, <1>3 DEF Compositors
<1>6. \A q \in Properties : q # p => (q \in un <=> q \in c.unused)
  OBVIOUS
<1>7. us[p] = {} => p \in un /\ ex
  BY <1>3, <1>4
<1>8. us[p] # {} => (p \in un <=> p \in c.unused)
  BY <1>3, <1>4
<1>9. c.expire => ex
  OBVIOUS
<1> HIDE DEF us, un, ex
<1>10. c' \in Compositors
  BY <1>1, <1>2, <1>4, <1>5, Zenon DEF Compositors
<1>11. /\ SameObeys(Both, Both') /\ SameClaims(Both, Both')
       /\ c'.users = us /\ c'.unused = un /\ c'.expire = ex
       /\ Both'.c = c' /\ Both'.x = x
  <2>1. Both'.c = c' /\ Both'.x = x
    BY <1>2 DEF Both
  <2>2. /\ c'.users = us /\ c'.unused = un /\ c'.expire = ex
        /\ c'.suspended = c.suspended /\ c'.state = c.state /\ c'.owning = c.owning
        /\ c'.release = c.release
    BY <1>1, <1>2, Zenon DEF Compositors
  <2> QED
    BY <1>1, <2>1, <2>2 DEF SameObeys, SameClaims
<1>12. Announces(Both')
  BY <1>1, <1>3, <1>4, <1>6, <1>7, <1>8, <1>9, <1>11 DEF Sound, Announces
<1> QED
  BY <1>1, <1>2, <1>10, <1>11, <1>12, FieldsSound DEF Sound, SameObeys, SameClaims, Obeys, Claims

\* What nobody uses is removed.
LEMMA DeleteUnusedSupportPropertiesSound ==
    ASSUME Sound(Both), DeleteUnusedSupportProperties
    PROVE  Sound(Both)'
<1> DEFINE no == FALSE
           ro == x.root \ c.unused
<1>1. /\ Both.c = c /\ Both.x = x /\ c \in Compositors /\ x \in Servers /\ Both \in Pairs
  BY BothFields
<1>2. c' = [c EXCEPT !.expire = no, !.unused = {}] /\ x' = [x EXCEPT !.root = ro]
  BY DEF DeleteUnusedSupportProperties
<1>3. no \in BOOLEAN /\ {} \in SUBSET Properties /\ ro \in SUBSET Properties
  BY <1>1 DEF Servers
<1>4. \A q : q \in ro <=> q \in x.root /\ q \notin c.unused
  OBVIOUS
<1> HIDE DEF no, ro
<1>5. c' \in Compositors /\ x' \in Servers
  BY <1>1, <1>2, <1>3, Zenon DEF Compositors, Servers
<1>6. /\ SameObeys(Both, Both') /\ SameClaims(Both, Both')
      /\ c'.users = c.users /\ c'.unused = {} /\ x'.root = ro
      /\ Both'.c = c' /\ Both'.x = x'
  <2>1. Both'.c = c' /\ Both'.x = x'
    BY DEF Both
  <2>2. /\ c'.users = c.users /\ c'.unused = {} /\ x'.root = ro
        /\ c'.suspended = c.suspended /\ c'.state = c.state /\ c'.owning = c.owning
        /\ c'.release = c.release /\ x'.owner = x.owner /\ x'.clear = x.clear
        /\ x'.claim = x.claim
    BY <1>1, <1>2, Zenon DEF Compositors, Servers
  <2> QED
    BY <1>1, <2>1, <2>2 DEF SameObeys, SameClaims
<1>7. Announces(Both')
  BY <1>1, <1>4, <1>6 DEF Sound, Announces
<1> QED
  BY <1>5, <1>6, <1>7, FieldsSound DEF Sound, SameObeys, SameClaims, Obeys, Claims

-----------------------------------------------------------------------------
(* The theorems.                                                           *)

\* What the three properties say, and that the belief to own the selection fits its claim,
\* holds through every start, stop and restart (src/composite.cpp).
THEOREM InvariantHolds == Spec => []Sound(Both)
<1>1. Sound(Both) /\ [Next]_vars => Sound(Both)'
  <2> SUFFICES ASSUME Sound(Both), [Next]_vars PROVE Sound(Both)'
    OBVIOUS
  <2>1. CASE DBusSuspend \/ DBusResume \/ DBusReinitialize \/ ToggleCompositing \/ ConfigChanged
    BY <2>1, RequestSound
  <2>2. ASSUME NEW w \in Windows,
               BlockCompositing(w) \/ UnblockCompositing(w) \/ CloseWindow(w)
        PROVE  Sound(Both)'
    BY <2>2, BlockCompositingSound, CloseWindowSound
  <2>3. ASSUME NEW t \in Types, UserSetsType(t) PROVE Sound(Both)'
    BY <2>3, UserSetsTypeSound
  <2>4. CASE OtherClaims
    BY <2>4, OtherClaimsSound
  <2>5. ASSUME NEW e \in Effects, NEW p \in Properties,
               AnnounceSupportProperty(e, p) \/ RemoveSupportProperty(e, p)
        PROVE  Sound(Both)'
    BY <2>5, AnnounceSupportPropertySound, RemoveSupportPropertySound
  <2>6. CASE RunQueued
    BY <2>6, RunQueuedSound
  <2>7. CASE RemoveDeleted
    BY <2>7, RemoveDeletedSound
  <2>8. CASE HandleDConfigUserTypeChanged
    BY <2>8, HandleDConfigUserTypeChangedSound
  <2>9. CASE LostOwnership
    BY <2>9, LostOwnershipSound
  <2>10. CASE ReleaseCompositorSelection
    BY <2>10, ReleaseCompositorSelectionSound
  <2>11. CASE DeleteUnusedSupportProperties
    BY <2>11, DeleteUnusedSupportPropertiesSound
  <2>11a. ASSUME NEW granted \in BOOLEAN, ClaimAnswered(granted) PROVE Sound(Both)'
    BY <2>11a, ClaimAnsweredSound
  <2>12. CASE UNCHANGED vars
    <3>1. Both' = Both
      BY <2>12 DEF vars, Both
    <3> QED
      BY <3>1
  <2> QED
    BY <2>1, <2>2, <2>3, <2>4, <2>5, <2>6, <2>7, <2>8, <2>9, <2>10, <2>11, <2>11a,
       <2>12, Zenon
       DEF Next, Outside, Inside
<1> QED
  BY InitSound, <1>1, PTL DEF Spec

\* The type invariant, whatever the length of the queue.
THEOREM TypeCorrect == Spec => []TypeInv
<1>1. Sound(Both) => TypeInv
  BY BothFields, Zenon DEF TypeInv, Compositors, Servers
<1> QED
  BY <1>1, InvariantHolds, PTL

\* While there is a reason to suspend there is no compositing, wherever starts and
\* restarts come from (suspend, resume, reinitialize, start).
THEOREM SuspendedIsOff == Spec => []SuspendedMeansOff
<1>1. Sound(Both) => SuspendedMeansOff
  BY BothFields DEF Sound, Obeys, SuspendedMeansOff
<1> QED
  BY <1>1, InvariantHolds, PTL

\* While KWin composites it believes to own the selection, and does once its claim was
\* granted, until another compositor takes it; it gives it back after it has stopped,
\* unless the claim is granted after it was given up (initializeX11,
\* releaseCompositorSelection).
THEOREM SelectionIsFollowed == Spec => []SelectionFollowsState
<1>1. Sound(Both) => SelectionFollowsState
  BY BothFields DEF Sound, Claims, SelectionFollowsState
<1> QED
  BY <1>1, InvariantHolds, PTL

\* The properties on the root window are those of the loaded effects and those that are
\* about to be removed (keepSupportProperty, deleteUnusedSupportProperties).
THEOREM SupportIsAlwaysAnnounced == Spec => []SupportIsAnnounced
<1>1. Sound(Both) => SupportIsAnnounced
  BY BothFields DEF Sound, Announces, SupportIsAnnounced
<1> QED
  BY <1>1, InvariantHolds, PTL

=============================================================================
