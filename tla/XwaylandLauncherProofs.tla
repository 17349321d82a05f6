----------------------- MODULE XwaylandLauncherProofs -----------------------
(***************************************************************************)
(* Proofs about XwaylandLauncher, for any number of crashes and calls.     *)
(*                                                                         *)
(* ConnectionIsCurrent and SessionStartsOnce follow from one inductive     *)
(* invariant: a process object has a number, a server is reported ready at *)
(* most once, after which its notifier is gone, and the session waits as   *)
(* long as the launcher's signals are connected.                           *)
(***************************************************************************)
EXTENDS XwaylandLauncher, TLAPS

Calls == {"start", "stop", "ready"} \X Nat

Processes == {"none", "starting", "running", "ready"} \cup Ended

\* TypeInv without its bounds.
Launchers ==
    [process : Processes,
     server : Nat, notifier : BOOLEAN, timer : BOOLEAN, crashCount : Nat,
     x11 : Nat, broken : BOOLEAN, owner : {"none", "claiming", "claimed"},
     listening : BOOLEAN, sessions : Nat, blocked : BOOLEAN,
     silent : SUBSET Nat]

\* A server is at most once in the queue as ready, and was then heard of; the next one
\* gets a number that is not there.
ReadyOnce(s, queue) ==
    \A i \in 1 .. Len(queue) :
        queue[i][1] = "ready" =>
            queue[i][2] <= s.server /\ (queue[i][2] = s.server => ~s.notifier)

\* What holds of the launcher by itself.
Sound(s) ==
    /\ s \in Launchers
    /\ s.process # "none" => s.server # 0
    /\ s.x11 # 0 => s.x11 = s.server /\ s.process # "none" /\ ~s.notifier
    /\ s.owner # "none" => s.x11 # 0
    /\ s.sessions <= 1
    /\ s.listening => s.sessions = 0

IInv == calls \in Seq(Calls) /\ Sound(k) /\ ReadyOnce(k, calls)

-----------------------------------------------------------------------------
(* What the functions of the launcher do.                                  *)

\* What the functions that tell of the start or of an error leave alone.
Same(s, t) ==
    /\ t.process = s.process /\ t.server = s.server /\ t.notifier = s.notifier
    /\ t.x11 = s.x11 /\ t.owner = s.owner /\ t.crashCount = s.crashCount

\* Starting the session keeps everything else.
LEMMA FinalizeStartupKeeps ==
    ASSUME NEW s, Sound(s)
    PROVE  Sound(FinalizeStartup(s)) /\ Same(s, FinalizeStartup(s))
<1>1. CASE ~s.listening
  BY <1>1 DEF FinalizeStartup, Same
<1>2. CASE s.listening
  <2> DEFINE t == FinalizeStartup(s)
  <2>1. t = [s EXCEPT !.listening = FALSE, !.sessions = @ + 1]
    BY <1>2 DEF FinalizeStartup
  <2>2. s \in Launchers /\ s.sessions + 1 \in Nat
    BY DEF Sound, Launchers
  <2>3. t \in Launchers
    BY <2>1, <2>2, Zenon DEF Launchers
  <2>4. Same(s, t) /\ t.listening = FALSE /\ t.sessions = s.sessions + 1
    BY <2>1, <2>2 DEF Launchers, Same
  <2>5. s.sessions = 0
    BY <1>2 DEF Sound
  <2> HIDE DEF t
  <2>6. Sound(t)
    BY <2>3, <2>4, <2>5 DEF Sound, Same
  <2> QED
    BY <2>4, <2>6 DEF t
<1> QED
  BY <1>1, <1>2

\* So does telling an error.
LEMMA ErrorOccurredKeeps ==
    ASSUME NEW s, Sound(s)
    PROVE  Sound(ErrorOccurred(s)) /\ Same(s, ErrorOccurred(s))
  BY FinalizeStartupKeeps DEF ErrorOccurred

\* So does an end that nobody tells.
LEMMA EndsSilentlyKeeps ==
    ASSUME NEW s, Sound(s)
    PROVE  Sound(EndsSilently(s)) /\ Same(s, EndsSilently(s))
<1> DEFINE t == EndsSilently(s)
<1>1. s \in Launchers
  BY DEF Sound
<1>2. s.silent \cup {s.server} \in SUBSET Nat
  BY <1>1 DEF Launchers
<1>3. t \in Launchers
  BY <1>1, <1>2, Zenon DEF EndsSilently, Launchers
<1>4. Same(s, t) /\ t.listening = s.listening /\ t.sessions = s.sessions
  BY <1>1 DEF EndsSilently, Launchers, Same
<1> HIDE DEF t
<1>5. Sound(t)
  BY <1>3, <1>4 DEF Sound, Same
<1> QED
  BY <1>4, <1>5 DEF t

\* Where there was no process, the new one's server has the next number.
LEMMA CreateProcessKeeps ==
    ASSUME NEW s, Sound(s), s.process = "none"
    PROVE  Sound(CreateProcess(s)) /\ CreateProcess(s).server = s.server + 1
<1> DEFINE t == CreateProcess(s)
<1>1. s \in Launchers
  BY DEF Sound
<1>2. /\ t \in Launchers
      /\ t.process = "starting" /\ t.server = s.server + 1 /\ t.x11 = s.x11
      /\ t.owner = s.owner /\ t.listening = s.listening /\ t.sessions = s.sessions
  <2>1. "starting" \in Processes /\ s.server + 1 \in Nat
    BY <1>1 DEF Processes, Launchers
  <2>2. t \in Launchers
    BY <1>1, <2>1, Zenon DEF CreateProcess, Launchers
  <2>3. /\ t.process = "starting" /\ t.server = s.server + 1 /\ t.x11 = s.x11
        /\ t.owner = s.owner /\ t.listening = s.listening /\ t.sessions = s.sessions
    BY <1>1 DEF CreateProcess, Launchers
  <2> QED
    BY <2>2, <2>3
<1>3. t.server # 0 /\ s.x11 = 0
  BY <1>1, <1>2 DEF Sound, Launchers
<1> HIDE DEF t
<1>4. Sound(t)
  BY <1>2, <1>3 DEF Sound
<1> QED
  BY <1>2, <1>4 DEF t

\* Stopping undoes the connection with the process.
LEMMA StopInternalKeeps ==
    ASSUME NEW s, Sound(s)
    PROVE  /\ Sound(StopInternal(s))
           /\ StopInternal(s).process = "none"
           /\ StopInternal(s).server = s.server
           /\ StopInternal(s).notifier = FALSE
           /\ StopInternal(s).crashCount = s.crashCount
<1> DEFINE t == StopInternal(s)
<1>1. s \in Launchers
  BY DEF Sound
<1> DEFINE d == Disconnect(s)
<1>2. /\ d \in Launchers
      /\ d.x11 = 0 /\ d.owner = "none" /\ d.server = s.server
      /\ d.listening = s.listening /\ d.sessions = s.sessions /\ d.crashCount = s.crashCount
  BY <1>1 DEF Disconnect, Launchers
<1>3. /\ t \in Launchers
      /\ t.process = "none" /\ t.server = s.server /\ t.notifier = FALSE /\ t.x11 = 0
      /\ t.owner = "none" /\ t.listening = s.listening /\ t.sessions = s.sessions
      /\ t.crashCount = s.crashCount
  <2>1. t = [d EXCEPT !.notifier = FALSE, !.process = "none"]
    BY DEF StopInternal
  <2> HIDE DEF t, d
  <2>2. "none" \in Processes
    BY DEF Processes
  <2>3. t \in Launchers
    BY <1>2, <2>1, <2>2, Zenon DEF Launchers
  <2>4. /\ t.process = "none" /\ t.server = d.server /\ t.notifier = FALSE /\ t.x11 = d.x11
        /\ t.owner = d.owner /\ t.listening = d.listening /\ t.sessions = d.sessions
        /\ t.crashCount = d.crashCount
    BY <1>2, <2>1 DEF Launchers
  <2> QED
    BY <1>2, <2>3, <2>4
<1> HIDE DEF t
<1>4. Sound(t)
  BY <1>3 DEF Sound
<1> QED
  BY <1>3, <1>4 DEF t

\* Reports in the queue stay true of a launcher that is of the same server and has not
\* armed the notifier again, or is of a new one.
LEMMA ReadyOnceKeeps ==
    ASSUME NEW s \in Launchers, NEW t \in Launchers, NEW q \in Seq(Calls), ReadyOnce(s, q),
           \/ t.server = s.server /\ (t.notifier => s.notifier)
           \/ t.server = s.server + 1
    PROVE  ReadyOnce(t, q)
<1>1. s.server \in Nat /\ t.server \in Nat
  BY DEF Launchers
<1>2. \A i \in 1 .. Len(q) : q[i][2] \in Nat
  BY DEF Calls
<1> QED
  BY <1>1, <1>2 DEF ReadyOnce

\* They stay true when a call is taken from the queue, and the call taken was one.
LEMMA TailKeeps ==
    ASSUME NEW q \in Seq(Calls), q # <<>>, NEW s, ReadyOnce(s, q)
    PROVE  /\ Tail(q) \in Seq(Calls) /\ ReadyOnce(s, Tail(q))
           /\ Head(q)[1] = "ready" /\ Head(q)[2] = s.server => ~s.notifier
<1>1. Tail(q) \in Seq(Calls) /\ Len(Tail(q)) = Len(q) - 1 /\ Len(q) \in Nat \ {0}
  OBVIOUS
<1>2. \A i \in 1 .. Len(Tail(q)) : Tail(q)[i] = q[i + 1] /\ i + 1 \in 1 .. Len(q)
  BY <1>1
<1>3. Head(q) = q[1] /\ 1 \in 1 .. Len(q)
  BY <1>1
<1> QED
  BY <1>1, <1>2, <1>3 DEF ReadyOnce

\* A call that is added is a new report or none.
LEMMA AppendKeeps ==
    ASSUME NEW q \in Seq(Calls), NEW s \in Launchers, ReadyOnce(s, q), NEW call \in Calls,
           call[1] = "ready" => call[2] = s.server /\ ~s.notifier
    PROVE  Append(q, call) \in Seq(Calls) /\ ReadyOnce(s, Append(q, call))
<1>1. Append(q, call) \in Seq(Calls) /\ Len(Append(q, call)) = Len(q) + 1
  OBVIOUS
<1>2. \A i \in 1 .. Len(q) : Append(q, call)[i] = q[i]
  OBVIOUS
<1>3. Append(q, call)[Len(q) + 1] = call /\ s.server \in Nat
  BY DEF Launchers
<1> QED
  BY <1>1, <1>2, <1>3 DEF ReadyOnce

-----------------------------------------------------------------------------
(* The invariant.                                                          *)

LEMMA InitIsGood == Init => IInv
<1> SUFFICES ASSUME Init PROVE IInv
  OBVIOUS
<1>1. k \in Launchers
  BY DEF Init, Launchers, Processes
<1>2. calls \in Seq(Calls) /\ Len(calls) = 1 /\ calls[1] = <<"start", 0>>
  BY DEF Init, Calls
<1> QED
  BY <1>1, <1>2 DEF Init, IInv, Sound, ReadyOnce

\* The end of a server is told, and what handleXwaylandFinished does.
LEMMA ServerEndedKeeps == IInv /\ ServerEnded => IInv'
<1> SUFFICES ASSUME IInv, ServerEnded PROVE IInv'
  OBVIOUS
<1> DEFINE s == IF k.process = "crashed" THEN ErrorOccurred(k) ELSE EndsSilently(k)
           counted == [s EXCEPT !.crashCount = @ + 1]
<1>1. k \in Launchers /\ Sound(k) /\ calls \in Seq(Calls) /\ ReadyOnce(k, calls)
  BY DEF IInv, Sound
<1>2. Sound(s) /\ s.server = k.server /\ s.notifier = k.notifier /\ s.process # "none"
  BY <1>1, ErrorOccurredKeeps, EndsSilentlyKeeps DEF ServerEnded, Same
<1>3. GiveUp(s) \/ Restart(counted) \/ GiveUp(counted)
  BY Zenon DEF ServerEnded
<1> HIDE DEF s
<1>4. s \in Launchers /\ s.crashCount + 1 \in Nat
  BY <1>2 DEF Sound, Launchers
<1>5. counted \in Launchers
  BY <1>4, Zenon DEF Launchers
<1>6. /\ counted.process = s.process /\ counted.server = s.server /\ counted.x11 = s.x11
      /\ counted.notifier = s.notifier /\ counted.owner = s.owner
      /\ counted.listening = s.listening /\ counted.sessions = s.sessions
  BY <1>4 DEF Launchers
<1> HIDE DEF counted
<1>7. Sound(counted)
  BY <1>2, <1>5, <1>6 DEF Sound
<1>8. ASSUME NEW t, Sound(t), t.server = k.server, t.notifier = k.notifier,
             t.process # "none", GiveUp(t)
      PROVE  IInv'
  <2>1. t \in Launchers
    BY <1>8 DEF Sound
  <2>2. k' = [t EXCEPT !.timer = FALSE, !.process = "exited"] /\ calls' = Append(calls, Stop)
    BY <1>8 DEF GiveUp, Queue
  <2>3. "exited" \in Processes
    BY DEF Processes, Ended
  <2>4. k' \in Launchers
    BY <2>1, <2>2, <2>3, Zenon DEF Launchers
  <2>5. /\ k'.process = "exited" /\ k'.server = t.server /\ k'.x11 = t.x11
        /\ k'.notifier = t.notifier /\ k'.owner = t.owner
        /\ k'.listening = t.listening /\ k'.sessions = t.sessions
    BY <2>1, <2>2 DEF Launchers
  <2>6. Sound(k')
    BY <1>8, <2>4, <2>5 DEF Sound
  <2>7. ReadyOnce(k', calls)
    BY <1>1, <1>8, <2>4, <2>5, ReadyOnceKeeps
  <2>8. Stop \in Calls /\ Stop[1] # "ready"
    BY DEF Stop, Calls
  <2>9. calls' \in Seq(Calls) /\ ReadyOnce(k', calls')
    BY <1>1, <2>2, <2>4, <2>7, <2>8, AppendKeeps
  <2> QED
    BY <2>6, <2>9 DEF IInv
<1>9. ASSUME Restart(counted) PROVE IInv'
  <2> DEFINE t == StopInternal(counted)
  <2>1. Sound(t) /\ t.process = "none" /\ t.server = k.server /\ t.notifier = FALSE
    BY <1>2, <1>6, <1>7, StopInternalKeeps
  <2>2. PICK u \in {CreateProcess(t), FailStart(t)} : k' = [u EXCEPT !.timer = TRUE]
    BY <1>9 DEF Restart
  <2>3. Sound(u) /\ (\/ u.server = k.server /\ u.notifier = FALSE
                     \/ u.server = k.server + 1)
    BY <2>1, CreateProcessKeeps, ErrorOccurredKeeps DEF FailStart, Same
  <2>4. u \in Launchers
    BY <2>3 DEF Sound
  <2>5. k' \in Launchers
    BY <2>2, <2>4, Zenon DEF Launchers
  <2>6. /\ k'.process = u.process /\ k'.server = u.server /\ k'.x11 = u.x11
        /\ k'.notifier = u.notifier /\ k'.owner = u.owner
        /\ k'.listening = u.listening /\ k'.sessions = u.sessions
    BY <2>2, <2>4 DEF Launchers
  <2>7. Sound(k')
    BY <2>3, <2>5, <2>6 DEF Sound
  <2>8. calls' = calls
    BY <1>9 DEF Restart
  <2>9. ReadyOnce(k', calls)
    BY <1>1, <2>3, <2>5, <2>6, ReadyOnceKeeps
  <2> QED
    BY <1>1, <2>7, <2>8, <2>9 DEF IInv
<1> QED
  BY <1>2, <1>3, <1>6, <1>7, <1>8, <1>9

\* The queued calls.
LEMMA CallKeeps == IInv /\ (Start \/ StopRequested \/ Ready) => IInv'
<1> SUFFICES ASSUME IInv, Start \/ StopRequested \/ Ready PROVE IInv'
  OBVIOUS
<1>1. k \in Launchers /\ Sound(k) /\ calls \in Seq(Calls) /\ ReadyOnce(k, calls)
  BY DEF IInv, Sound
<1>2. /\ calls' \in Seq(Calls) /\ ReadyOnce(k, calls')
      /\ Head(calls)[1] = "ready" /\ Head(calls)[2] = k.server => ~k.notifier
  <2>1. calls # <<>> /\ calls' = Tail(calls)
    BY DEF Start, StopRequested, Ready
  <2> QED
    BY <1>1, <2>1, TailKeeps
<1>3. SUFFICES Sound(k') /\ (\/ k'.server = k.server /\ (k'.notifier => k.notifier)
                             \/ k'.server = k.server + 1)
  <2>1. ASSUME Sound(k'), \/ k'.server = k.server /\ (k'.notifier => k.notifier)
                          \/ k'.server = k.server + 1
        PROVE  IInv'
    <3>1. k' \in Launchers
      BY <2>1 DEF Sound
    <3>2. ReadyOnce(k', calls')
      BY <1>1, <1>2, <2>1, <3>1, ReadyOnceKeeps
    <3> QED
      BY <1>2, <2>1, <3>2 DEF IInv
  <2> QED
    BY <2>1
<1>4. CASE Start
  <2>1. \/ k' = k
        \/ k.process = "none" /\ (k' = CreateProcess(k) \/ k' = FailStart(k))
    BY <1>4 DEF Start
  <2> QED
    BY <1>1, <2>1, CreateProcessKeeps, ErrorOccurredKeeps DEF FailStart, Same
<1>5. CASE StopRequested
  <2>1. k' = k \/ k' = StopInternal(k) \/ k' = StopInternal(EndsSilently(k))
    BY <1>5, Zenon DEF StopRequested
  <2> QED
    BY <1>1, <2>1, StopInternalKeeps, EndsSilentlyKeeps DEF Same
<1>6. CASE Ready
  <2>1. CASE k' = ErrorOccurred(k)
    BY <1>1, <2>1, ErrorOccurredKeeps DEF Same
  <2>2. CASE k' = [k EXCEPT !.blocked = TRUE]
    <3>1. /\ k' \in Launchers
          /\ k'.process = k.process /\ k'.server = k.server /\ k'.x11 = k.x11
          /\ k'.notifier = k.notifier /\ k'.owner = k.owner
          /\ k'.listening = k.listening /\ k'.sessions = k.sessions
      BY <1>1, <2>2 DEF Launchers
    <3> QED
      BY <1>1, <3>1 DEF Sound
  <2>3. CASE /\ k.process = "ready" /\ Head(calls)[1] = "ready" /\ Head(calls)[2] = k.server
             /\ k' = [k EXCEPT !.x11 = k.server, !.owner = "claiming"]
    <3>1. k.server \in Nat /\ k.server # 0 /\ k.process # "none"
      BY <1>1, <2>3 DEF Sound, Launchers
    <3>2. /\ k' \in Launchers
          /\ k'.process = k.process /\ k'.server = k.server /\ k'.x11 = k.server
          /\ k'.notifier = k.notifier
          /\ k'.listening = k.listening /\ k'.sessions = k.sessions
      BY <1>1, <2>3, <3>1 DEF Launchers
    <3> QED
      BY <1>1, <1>2, <2>3, <3>1, <3>2 DEF Sound
  <2> QED
    BY <1>6, <2>1, <2>2, <2>3 DEF Ready
<1> QED
  BY <1>4, <1>5, <1>6

\* What the event loop tells the launcher, beside the end of a server.
LEMMA EventKeeps ==
    ASSUME IInv,
           \/ NotifierActivated \/ FailedToStart \/ ResetCrashCount \/ SelectionClaimed
           \/ SelectionLost \/ DispatchBroken \/ SetXwaylandCrashPolicy
    PROVE  IInv'
<1>1. k \in Launchers /\ Sound(k) /\ calls \in Seq(Calls) /\ ReadyOnce(k, calls)
  BY DEF IInv, Sound
<1>2. Stop \in Calls /\ Stop[1] # "ready"
  BY DEF Stop, Calls
<1>3. CASE NotifierActivated
  <2>1. k' = [k EXCEPT !.notifier = FALSE] /\ calls' = Append(calls, <<"ready", k.server>>)
    BY <1>3 DEF NotifierActivated, Queue
  <2>2. /\ k' \in Launchers
        /\ k'.process = k.process /\ k'.server = k.server /\ k'.x11 = k.x11
        /\ k'.notifier = FALSE /\ k'.owner = k.owner
        /\ k'.listening = k.listening /\ k'.sessions = k.sessions
    BY <1>1, <2>1 DEF Launchers
  <2>3. Sound(k')
    BY <1>1, <2>2 DEF Sound
  <2>4. ReadyOnce(k', calls)
    BY <1>1, <2>2, ReadyOnceKeeps
  <2>5. <<"ready", k.server>> \in Calls
    BY <1>1 DEF Calls, Launchers
  <2>6. calls' \in Seq(Calls) /\ ReadyOnce(k', calls')
    BY <1>1, <2>1, <2>2, <2>4, <2>5, AppendKeeps
  <2> QED
    BY <2>3, <2>6 DEF IInv
<1>4. CASE FailedToStart
  <2> DEFINE t == EndsSilently(k)
  <2>1. k.process = "failed" /\ k' = [t EXCEPT !.process = "exited"] /\ calls' = calls
    BY <1>4 DEF FailedToStart
  <2>2. Sound(t) /\ Same(k, t)
    BY <1>1, EndsSilentlyKeeps
  <2>3. "exited" \in Processes
    BY DEF Processes, Ended
  <2> HIDE DEF t
  <2>4. t \in Launchers
    BY <2>2 DEF Sound
  <2>5. k' \in Launchers
    BY <2>1, <2>3, <2>4, Zenon DEF Launchers
  <2>6. /\ k'.process = "exited" /\ k'.server = t.server /\ k'.x11 = t.x11
        /\ k'.notifier = t.notifier /\ k'.owner = t.owner
        /\ k'.listening = t.listening /\ k'.sessions = t.sessions
    BY <2>1, <2>4 DEF Launchers
  <2>7. Sound(k')
    BY <2>1, <2>2, <2>5, <2>6 DEF Sound, Same
  <2>8. k'.server = k.server /\ k'.notifier = k.notifier
    BY <2>2, <2>6 DEF Same
  <2>9. ReadyOnce(k', calls)
    BY <1>1, <2>5, <2>8, ReadyOnceKeeps
  <2> QED
    BY <1>1, <2>1, <2>7, <2>9 DEF IInv
<1>5. CASE ResetCrashCount
  <2>1. k' = [k EXCEPT !.timer = FALSE, !.crashCount = 0] /\ calls' = calls
    BY <1>5 DEF ResetCrashCount
  <2>2. /\ k' \in Launchers
        /\ k'.process = k.process /\ k'.server = k.server /\ k'.x11 = k.x11
        /\ k'.notifier = k.notifier /\ k'.owner = k.owner
        /\ k'.listening = k.listening /\ k'.sessions = k.sessions
    BY <1>1, <2>1 DEF Launchers
  <2>3. Sound(k')
    BY <1>1, <2>2 DEF Sound
  <2>4. ReadyOnce(k', calls)
    BY <1>1, <2>2, ReadyOnceKeeps
  <2> QED
    BY <1>1, <2>1, <2>3, <2>4 DEF IInv
<1>6. CASE SelectionClaimed
  <2> DEFINE t == [k EXCEPT !.owner = "claimed"]
  <2>1. k.owner = "claiming" /\ k' = FinalizeStartup(t) /\ calls' = calls
    BY <1>6 DEF SelectionClaimed
  <2>2. "claimed" \in {"none", "claiming", "claimed"}
    OBVIOUS
  <2>3. t \in Launchers
    BY <1>1, <2>2, Zenon DEF Launchers
  <2>4. /\ t.process = k.process /\ t.server = k.server /\ t.x11 = k.x11
        /\ t.notifier = k.notifier
        /\ t.listening = k.listening /\ t.sessions = k.sessions
    BY <1>1 DEF Launchers
  <2> HIDE DEF t
  <2>5. Sound(t)
    BY <1>1, <2>1, <2>3, <2>4 DEF Sound
  <2>6. Sound(k') /\ Same(t, k')
    BY <2>1, <2>5, FinalizeStartupKeeps
  <2>7. k' \in Launchers /\ k'.server = k.server /\ k'.notifier = k.notifier
    BY <2>4, <2>6 DEF Sound, Same
  <2>8. ReadyOnce(k', calls)
    BY <1>1, <2>7, ReadyOnceKeeps
  <2> QED
    BY <1>1, <2>1, <2>6, <2>8 DEF IInv
<1>7. CASE SelectionLost
  <2>1. k' = [k EXCEPT !.owner = "none"] /\ calls' = Append(calls, Stop)
    BY <1>7 DEF SelectionLost, Queue
  <2>2. /\ k' \in Launchers
        /\ k'.process = k.process /\ k'.server = k.server /\ k'.x11 = k.x11
        /\ k'.notifier = k.notifier /\ k'.owner = "none"
        /\ k'.listening = k.listening /\ k'.sessions = k.sessions
    BY <1>1, <2>1 DEF Launchers
  <2>3. Sound(k')
    BY <1>1, <2>2 DEF Sound
  <2>4. ReadyOnce(k', calls)
    BY <1>1, <2>2, ReadyOnceKeeps
  <2>5. calls' \in Seq(Calls) /\ ReadyOnce(k', calls')
    BY <1>1, <1>2, <2>1, <2>2, <2>4, AppendKeeps
  <2> QED
    BY <2>3, <2>5 DEF IInv
<1>8. CASE DispatchBroken
  <2>1. k' = k /\ calls' = Append(calls, Stop)
    BY <1>8 DEF DispatchBroken, Queue
  <2> QED
    BY <1>1, <1>2, <2>1, AppendKeeps DEF IInv
<1>9. CASE SetXwaylandCrashPolicy
  BY <1>1, <1>9 DEF SetXwaylandCrashPolicy, IInv
<1> QED
  BY <1>3, <1>4, <1>5, <1>6, <1>7, <1>8, <1>9

\* What the server and the connection do by themselves.
LEMMA ServerKeeps ==
    ASSUME IInv, ServerComesUp \/ ServerEnds \/ ConnectionBreaks
    PROVE  IInv'
<1>1. k \in Launchers /\ Sound(k) /\ calls \in Seq(Calls) /\ ReadyOnce(k, calls)
  BY DEF IInv, Sound
<1>2. ASSUME NEW from \in SUBSET {"starting", "running", "ready"},
             NEW to \in Processes \ {"none"}, Becomes(from, to)
      PROVE  IInv'
  <2>1. k.process # "none" /\ calls' = calls /\ k' = [k EXCEPT !.process = to]
    BY <1>2 DEF Becomes
  <2>3. k' \in Launchers
    BY <1>1, <1>2, <2>1, Zenon DEF Launchers
  <2>4. /\ k'.process = to /\ k'.server = k.server /\ k'.x11 = k.x11
        /\ k'.notifier = k.notifier /\ k'.owner = k.owner
        /\ k'.listening = k.listening /\ k'.sessions = k.sessions
    BY <1>1, <2>1 DEF Launchers
  <2>5. Sound(k')
    BY <1>1, <2>1, <2>3, <2>4 DEF Sound
  <2>6. ReadyOnce(k', calls)
    BY <1>1, <2>3, <2>4, ReadyOnceKeeps
  <2> QED
    BY <1>1, <2>1, <2>5, <2>6 DEF IInv
<1>3. {"running", "failed", "ready", "crashed", "quit"} \subseteq Processes \ {"none"}
  BY DEF Processes, Ended
<1>4. CASE ServerComesUp
  BY <1>2, <1>3, <1>4 DEF ServerComesUp
<1>5. CASE ServerEnds
  BY <1>2, <1>3, <1>5 DEF ServerEnds
<1>6. CASE ConnectionBreaks
  <2>1. k' = [k EXCEPT !.broken = TRUE] /\ calls' = calls
    BY <1>6 DEF ConnectionBreaks
  <2>2. /\ k' \in Launchers
        /\ k'.process = k.process /\ k'.server = k.server /\ k'.x11 = k.x11
        /\ k'.notifier = k.notifier /\ k'.owner = k.owner
        /\ k'.listening = k.listening /\ k'.sessions = k.sessions
    BY <1>1, <2>1 DEF Launchers
  <2>3. Sound(k')
    BY <1>1, <2>2 DEF Sound
  <2>4. ReadyOnce(k', calls)
    BY <1>1, <2>2, ReadyOnceKeeps
  <2> QED
    BY <1>1, <2>1, <2>3, <2>4 DEF IInv
<1> QED
  BY <1>4, <1>5, <1>6

\* The launcher's state stays sound, whatever ends, breaks or is queued (all handlers of
\* xwaylandlauncher.cpp and xwayland.cpp).
THEOREM InvariantHolds == Spec => []IInv
<1>1. IInv /\ [Next]_vars => IInv'
  <2> SUFFICES ASSUME IInv, [Next]_vars PROVE IInv'
    OBVIOUS
  <2>1. CASE UNCHANGED vars
    BY <2>1 DEF vars, IInv
  <2>2. CASE Start \/ StopRequested \/ Ready
    BY <2>2, CallKeeps
  <2>3. CASE ServerEnded
    BY <2>3, ServerEndedKeeps
  <2>4. CASE \/ NotifierActivated \/ FailedToStart \/ ResetCrashCount \/ SelectionClaimed
             \/ SelectionLost \/ DispatchBroken \/ SetXwaylandCrashPolicy
    BY <2>4, EventKeeps
  <2>5. CASE ServerComesUp \/ ServerEnds \/ ConnectionBreaks
    BY <2>5, ServerKeeps
  <2> QED
    BY <2>1, <2>2, <2>3, <2>4, <2>5 DEF Next
<1> QED
  BY InitIsGood, <1>1, PTL DEF Spec

\* KWin is connected to the server whose process object exists and to no other, and has
\* the selection only over that connection (handleXwaylandReady, handleXwaylandFinished).
THEOREM ConnectionStaysCurrent == Spec => []ConnectionIsCurrent
<1>1. IInv => ConnectionIsCurrent
  BY DEF IInv, Sound, ConnectionIsCurrent
<1> QED
  BY <1>1, InvariantHolds, PTL

\* The session is started at most once, for any number of crashes and restarts
\* (ApplicationWayland::finalizeStartup).
THEOREM SessionIsStartedOnce == Spec => []SessionStartsOnce
<1>1. IInv => SessionStartsOnce
  BY DEF IInv, Sound, SessionStartsOnce
<1> QED
  BY <1>1, InvariantHolds, PTL

=============================================================================
