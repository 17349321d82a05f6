-------------------------- MODULE XwaylandLauncher --------------------------
(***************************************************************************)
(* The Xwayland server and the part of the startup that waits for it       *)
(* (src/xwayland/xwaylandlauncher.cpp, xwayland.cpp, main_wayland.cpp).    *)
(*                                                                         *)
(* Everything runs in the main thread.  start(), stop() and the signal     *)
(* that the server is ready are queued: `calls' is the part of the event   *)
(* queue they are in, and what they were decided on may have changed when  *)
(* their turn comes.  Servers are numbered by `server', the number of      *)
(* process objects created so far; `process' is the current one's state:   *)
(*   "none"      no process object (m_xwaylandProcess is null)             *)
(*   "starting", "running", "ready"      the program as it comes up        *)
(*   "failed", "crashed", "quit"         it ended, QProcess has not told   *)
(*   "exited"    QProcess::NotRunning, with the object still there         *)
(* The ready notifier reads a pipe whose other end is the server's alone,  *)
(* so it is activated when the server writes its display and also, by end  *)
(* of file, when the server ends.                                          *)
(* Outside the module: the selection (KSelectionOwner), xcb, and QProcess, *)
(* which signals an error for a crash and for a program it cannot start,   *)
(* none for a regular exit.                                                *)
(***************************************************************************)
EXTENDS Integers, Sequences

CONSTANTS
    MaxCrashCount,      \* options->xwaylandMaxCrashCount()
    MaxResets,          \* bound: how often the crash counter's timer fires
    MaxCalls            \* bound on the calls queued by a broken connection

ASSUME BoundsAssumption == MaxCrashCount \in Nat /\ MaxResets \in Nat /\ MaxCalls \in Nat

VARIABLES
    k,          \* the launcher, its connection and the startup, see TypeInv
    calls,      \* queued calls: <<"start", 0>>, <<"stop", 0>>, <<"ready", server>>
    policy,     \* options->xwaylandCrashPolicy()
    resets      \* how often the timer fired

vars == <<k, calls, policy, resets>>

Servers == 0 .. (1 + MaxCrashCount * (MaxResets + 1))
Ended == {"failed", "crashed", "quit", "exited"}

\* Type invariant; `k' has in `blocked' whether the main thread waits for a server
\* that will not answer, and in `silent' the servers whose end, by themselves or by a
\* stop(), errorOccurred did not tell and never will (history: no guard reads it).
TypeInv ==
    /\ k \in [process : {"none", "starting", "running", "ready"} \cup Ended,
              server : Servers, notifier : BOOLEAN, timer : BOOLEAN,
              crashCount : 0 .. (MaxCrashCount + 1),
              x11 : Servers, broken : BOOLEAN, owner : {"none", "claiming", "claimed"},
              listening : BOOLEAN, sessions : Nat, blocked : BOOLEAN,
              silent : SUBSET Servers]
    /\ policy \in {"Restart", "Stop"} /\ resets \in 0 .. MaxResets
    /\ \A i \in DOMAIN calls : calls[i] \in {"start", "stop", "ready"} \X Servers

Stop == <<"stop", 0>>

\* continueStartupWithScene has connected the signals and asked for the start.
Init ==
    /\ k = [process |-> "none", server |-> 0, notifier |-> FALSE, timer |-> FALSE,
            crashCount |-> 0, x11 |-> 0, broken |-> FALSE, owner |-> "none",
            listening |-> TRUE, sessions |-> 0, blocked |-> FALSE,
            silent |-> {}]
    /\ calls = << <<"start", 0>> >>
    /\ policy \in {"Restart", "Stop"}
    /\ resets = 0

-----------------------------------------------------------------------------
(* Handlers, as functions of the state `k'.                                *)

\* Mutant: the signals stay connected.
FinalizeStartup_Connected(s) == [s EXCEPT !.sessions = IF s.listening THEN @ + 1 ELSE @]

\* ApplicationWayland::finalizeStartup: disconnects itself, starts the session.
FinalizeStartup(s) ==
    IF s.listening THEN [s EXCEPT !.listening = FALSE, !.sessions = @ + 1] ELSE s

\* Mutant: Xwayland does not forward the signal, nobody is told.
ErrorOccurred_NotForwarded(s) == s

\* errorOccurred, forwarded by Xwayland.
ErrorOccurred(s) == FinalizeStartup(s)

\* startInternal where a pipe, a socket or the Wayland connection cannot be made.
FailStart(s) == ErrorOccurred(s)

\* startInternal: the process object and the ready notifier are created.
CreateProcess(s) ==
    [s EXCEPT !.process = "starting", !.server = @ + 1, !.notifier = TRUE]

\* Xwayland::handleXwaylandFinished.
Disconnect(s) == [s EXCEPT !.x11 = 0, !.broken = FALSE, !.owner = "none"]

\* Mutant: finished is not emitted for a server that has ended by itself.
StopInternal_OnlyRunning(s) ==
    [(IF s.process \in Ended THEN s ELSE Disconnect(s))
        EXCEPT !.notifier = FALSE, !.process = "none"]

\* stopInternal: emits finished, ends and deletes the process.
StopInternal(s) ==
    [Disconnect(s) EXCEPT !.notifier = FALSE, !.process = "none"]

\* History: a server ends, and no error is signalled for it.
EndsSilently(s) == [s EXCEPT !.silent = @ \cup {s.server}]

-----------------------------------------------------------------------------
(* Events of the main thread.                                              *)

Queue(call) == calls' = Append(calls, call)

\* onStartRequested.
Start ==
    /\ ~k.blocked /\ calls # <<>> /\ Head(calls)[1] = "start"
    /\ calls' = Tail(calls)
    /\ k' \in IF k.process # "none" THEN {k} ELSE {CreateProcess(k), FailStart(k)}
    /\ UNCHANGED <<policy, resets>>

\* onStopRequested.
StopRequested ==
    /\ ~k.blocked /\ calls # <<>> /\ Head(calls)[1] = "stop"
    /\ calls' = Tail(calls)
    /\ k' = CASE k.process = "none"   -> k
              [] k.process = "exited" -> StopInternal(k)
              [] OTHER                -> StopInternal(EndsSilently(k))
    /\ UNCHANGED <<policy, resets>>

\* Xwayland::handleXwaylandReady.  xcb_connect_to_fd waits for the server's answer; of
\* a server that has ended none comes, and no end of file either, because the launcher
\* keeps the server's end of the socket pair open itself.
Ready ==
    /\ ~k.blocked /\ calls # <<>> /\ Head(calls)[1] = "ready"
    /\ calls' = Tail(calls)
    /\ IF k.process = "ready" /\ Head(calls)[2] = k.server
       THEN k' \in {[k EXCEPT !.x11 = k.server, !.owner = "claiming"], ErrorOccurred(k)}
       ELSE k' = [k EXCEPT !.blocked = TRUE]
    /\ UNCHANGED <<policy, resets>>

\* The ready notifier is activated: the display was written, or end of file.
NotifierActivated ==
    /\ ~k.blocked /\ k.notifier /\ k.process \in {"ready"} \cup Ended
    /\ k' = [k EXCEPT !.notifier = FALSE]
    /\ Queue(<<"ready", k.server>>)
    /\ UNCHANGED <<policy, resets>>

\* handleXwaylandError for QProcess::FailedToStart: returns.
FailedToStart ==
    /\ ~k.blocked /\ k.process = "failed"
    /\ k' = [EndsSilently(k) EXCEPT !.process = "exited"]
    /\ UNCHANGED <<calls, policy, resets>>

\* Mutant: the process is left as it is when the crashes were too many.
GiveUp_Keep(s) ==
    /\ k' = [s EXCEPT !.timer = FALSE, !.process = "exited"]
    /\ UNCHANGED calls

\* handleXwaylandFinished, where the server is not restarted.
GiveUp(s) ==
    /\ k' = [s EXCEPT !.timer = FALSE, !.process = "exited"]
    /\ Queue(Stop)

\* handleXwaylandFinished, where it is; the result of startInternal is ignored.
Restart(s) ==
    /\ \E t \in {CreateProcess(StopInternal(s)), FailStart(StopInternal(s))} :
           k' = [t EXCEPT !.timer = TRUE]
    /\ UNCHANGED calls

\* QProcess tells the end of the server: an error if it crashed, then finished.
ServerEnded ==
    /\ ~k.blocked /\ k.process \in {"crashed", "quit"}
    /\ LET s == IF k.process = "crashed" THEN ErrorOccurred(k) ELSE EndsSilently(k)
           counted == [s EXCEPT !.crashCount = @ + 1]
       IN  CASE policy = "Stop" -> GiveUp(s)
             [] policy = "Restart" /\ counted.crashCount <= MaxCrashCount -> Restart(counted)
             [] OTHER -> GiveUp(counted)
    /\ UNCHANGED <<policy, resets>>

\* resetCrashCount.
ResetCrashCount ==
    /\ ~k.blocked /\ k.timer /\ resets < MaxResets
    /\ k' = [k EXCEPT !.timer = FALSE, !.crashCount = 0]
    /\ resets' = resets + 1
    /\ UNCHANGED <<calls, policy>>

\* handleSelectionClaimedOwnership: Xwayland has started.
SelectionClaimed ==
    /\ ~k.blocked /\ k.owner = "claiming"
    /\ k' = FinalizeStartup([k EXCEPT !.owner = "claimed"])
    /\ UNCHANGED <<calls, policy, resets>>

\* handleSelectionFailedToClaimOwnership, handleSelectionLostOwnership.
SelectionLost ==
    /\ ~k.blocked /\ k.owner # "none" /\ Len(calls) < MaxCalls
    /\ k' = [k EXCEPT !.owner = "none"]
    /\ Queue(Stop)
    /\ UNCHANGED <<policy, resets>>

\* dispatchEvents on a broken connection, at every turn of the event loop.
DispatchBroken ==
    /\ ~k.blocked /\ k.x11 # 0 /\ k.broken /\ Len(calls) < MaxCalls
    /\ Queue(Stop)
    /\ UNCHANGED <<k, policy, resets>>

\* Options::setXwaylandCrashPolicy.
SetXwaylandCrashPolicy ==
    /\ ~k.blocked /\ policy' \in {"Restart", "Stop"} \ {policy}
    /\ UNCHANGED <<k, calls, resets>>

-----------------------------------------------------------------------------
(* The server and its connection.                                          *)

Becomes(from, to) ==
    /\ k.process \in from
    /\ k' = [k EXCEPT !.process = to]
    /\ UNCHANGED <<calls, policy, resets>>

ServerComesUp ==
    \/ Becomes({"starting"}, "running") \/ Becomes({"starting"}, "failed")
    \/ Becomes({"running"}, "ready") \/ Becomes({"running"}, "crashed")
    \/ Becomes({"running"}, "quit")

ServerEnds == Becomes({"ready"}, "crashed") \/ Becomes({"ready"}, "quit")

ConnectionBreaks ==
    /\ k.x11 # 0 /\ ~k.broken /\ k' = [k EXCEPT !.broken = TRUE]
    /\ UNCHANGED <<calls, policy, resets>>

Next ==
    \/ Start \/ StopRequested \/ Ready \/ NotifierActivated
    \/ FailedToStart \/ ServerEnded \/ ResetCrashCount
    \/ SelectionClaimed \/ SelectionLost \/ DispatchBroken \/ SetXwaylandCrashPolicy
    \/ ServerComesUp \/ ServerEnds \/ ConnectionBreaks

\* The event loop goes on; a server comes up or ends; a selection is claimed or not.
Fairness ==
    /\ WF_vars(Start) /\ WF_vars(StopRequested) /\ WF_vars(Ready)
    /\ WF_vars(NotifierActivated) /\ WF_vars(FailedToStart) /\ WF_vars(ServerEnded)
    /\ WF_vars(k.process = "ready" /\ SelectionClaimed) /\ WF_vars(ServerComesUp)

Spec == Init /\ [][Next]_vars /\ Fairness

-----------------------------------------------------------------------------
(* Properties.                                                             *)

\* The X11 connection is one to the server whose process object exists, and only the
\* owner of a connection has the selection: handleXwaylandFinished has undone the
\* old one whenever a server is replaced or stopped, whatever was queued meanwhile.
ConnectionIsCurrent ==
    /\ k.x11 # 0 => k.x11 = k.server /\ k.process # "none" /\ ~k.notifier
    /\ k.owner # "none" => k.x11 # 0

\* The session is started once, although errorOccurred and started come again with
\* every crash and every restart (finalizeStartup).
SessionStartsOnce == k.sessions <= 1

\* A server that has ended is replaced or its process object and its connection are
\* released, at the latest by the queued stop(); unless the main thread is blocked.
DeadServerIsReleased == (k.process \in Ended) ~> (k.process \notin Ended \/ k.blocked)

\* The session starts, with Xwayland or without, whatever crashes and is restarted, with
\* these exceptions: the main thread is blocked, or the launcher has come to have no
\* server and the last one could not be executed, quit by itself or was stopped, for
\* which there is no errorOccurred (finalizeStartup, handleXwaylandError).
StartupIsFinalised ==
    <>(\/ k.sessions > 0
       \/ k.blocked
       \/ k.process \in {"none", "exited"} /\ k.server \in k.silent)

=============================================================================
