------------------------------- MODULE XdgPing -------------------------------
(***************************************************************************)
(* The pings of xdg_wm_base: XdgShellInterface of                          *)
(* src/wayland/xdgshell_interface.cpp, which keeps one repeating timer per *)
(* unanswered ping, and the toplevel windows of src/xdgshellwindow.cpp,    *)
(* which remember why they asked.                                          *)
(*                                                                         *)
(* There is one shell object for all clients.  Its signals carry only a    *)
(* serial and reach every toplevel window of every client; a window tells  *)
(* its own pings from the others by the serial, where it looks.            *)
(***************************************************************************)
EXTENDS Integers, FiniteSets

CONSTANTS
    Clients,      \* the clients of the display
    PerClient,    \* toplevel windows of each
    MaxPings      \* bound on the pings sent (focus changes and close clicks)

ASSUME PingAssumption == PerClient \in Nat /\ MaxPings \in Nat

VARIABLES
    timers,       \* serial -> number of times its timer has fired, while it runs
    pings,        \* window -> (serial -> reason), what the window remembers
    unresponsive, \* window -> whether it is shown as not responding
    windows,      \* the windows that exist
    killed,       \* the clients that have been sent SIGTERM
    inbox,        \* client -> the pings it has not answered yet
    sent,         \* history: serial -> the window it was sent for and the reason
    answered      \* history: the serials some client has answered

vars == <<timers, pings, unresponsive, windows, killed, inbox, sent, answered>>

Windows == Clients \X (1 .. PerClient)
Owner(w) == w[1]
Reasons == {"FocusWindow", "CloseWindow"}

Without(f, s) == [x \in DOMAIN f \ {s} |-> f[x]]
With(f, s, v) == [x \in DOMAIN f \cup {s} |-> IF x = s THEN v ELSE f[x]]

Init ==
    /\ timers = <<>> /\ sent = <<>>
    /\ pings = [w \in Windows |-> <<>>]
    /\ unresponsive = [w \in Windows |-> FALSE]
    /\ windows = Windows
    /\ killed = {} /\ answered = {}
    /\ inbox = [c \in Clients |-> {}]

\* Mutant: the shell starts no timer.
SendPing_NoTimer(w, reason) ==
    LET serial == Cardinality(DOMAIN sent) + 1
    IN  /\ serial <= MaxPings
        /\ w \in windows
        /\ pings' = [pings EXCEPT ![w] = With(@, serial, reason)]
        /\ inbox' = [inbox EXCEPT ![Owner(w)] = @ \cup {serial}]
        /\ sent' = With(sent, serial, [win |-> w, reason |-> reason])
        /\ UNCHANGED <<timers, unresponsive, windows, killed, answered>>

\* sendPing: a fresh serial, a timer in the shell, a reason in the window.
SendPing(w, reason) ==
    LET serial == Cardinality(DOMAIN sent) + 1
    IN  /\ serial <= MaxPings
        /\ w \in windows
        /\ timers' = With(timers, serial, 0)
        /\ pings' = [pings EXCEPT ![w] = With(@, serial, reason)]
        /\ inbox' = [inbox EXCEPT ![Owner(w)] = @ \cup {serial}]
        /\ sent' = With(sent, serial, [win |-> w, reason |-> reason])
        /\ UNCHANGED <<unresponsive, windows, killed, answered>>

\* Mutant: the serial is not looked at.
PingDelayed_Everyone(serial) ==
    /\ serial \in DOMAIN timers /\ timers[serial] = 0
    /\ timers' = [timers EXCEPT ![serial] = 1]
    /\ unresponsive' = [w \in Windows |-> unresponsive[w] \/ w \in windows]
    /\ UNCHANGED <<pings, windows, killed, inbox, sent, answered>>

\* The first time the timer of a ping fires: the window that asked is marked.
PingDelayed(serial) ==
    /\ serial \in DOMAIN timers /\ timers[serial] = 0
    /\ timers' = [timers EXCEPT ![serial] = 1]
    /\ unresponsive' = [w \in Windows |->
           unresponsive[w] \/ (w \in windows /\ serial \in DOMAIN pings[w])]
    /\ UNCHANGED <<pings, windows, killed, inbox, sent, answered>>

\* Mutant: the reason is not looked at.

PingTimeout_KillsAll(serial) ==
    LET asking == {w \in windows : serial \in DOMAIN pings[w]}
    IN  /\ serial \in DOMAIN timers /\ timers[serial] = 1
        /\ timers' = Without(timers, serial)
        /\ pings' = [w \in Windows |->
               IF w \in asking THEN Without(pings[w], serial) ELSE pings[w]]
        /\ killed' = killed \cup {Owner(w) : w \in asking}
        /\ UNCHANGED <<unresponsive, windows, inbox, sent, answered>>

\* The second time: the ping is forgotten, and a window that was asked to close
\* has its client killed.
PingTimeout(serial) ==
    LET asking == {w \in windows : serial \in DOMAIN pings[w]}
        closing == {w \in asking : pings[w][serial] = "CloseWindow"}
    IN  /\ serial \in DOMAIN timers /\ timers[serial] = 1
        /\ timers' = Without(timers, serial)
        /\ pings' = [w \in Windows |->
               IF w \in asking THEN Without(pings[w], serial) ELSE pings[w]]
        /\ killed' = killed \cup {Owner(w) : w \in closing}
        /\ UNCHANGED <<unresponsive, windows, inbox, sent, answered>>

\* Mutant: the timer of an answered ping runs on.
Pong_KeepsTimer(c, serial) ==
    /\ serial \in inbox[c] /\ \A s \in inbox[c] : serial <= s
    /\ inbox' = [inbox EXCEPT ![c] = @ \ {serial}]
    /\ pings' = [w \in Windows |->
           IF w \in windows THEN Without(pings[w], serial) ELSE pings[w]]
    /\ unresponsive' = [w \in Windows |-> unresponsive[w] /\ w \notin windows]
    /\ answered' = answered \cup {serial}
    /\ UNCHANGED <<timers, windows, killed, sent>>

\* A pong, in the order of the pings: every window hears of it, and no window that
\* exists stays marked.
Pong(c, serial) ==
    /\ serial \in inbox[c] /\ \A s \in inbox[c] : serial <= s
    /\ inbox' = [inbox EXCEPT ![c] = @ \ {serial}]
    /\ timers' = Without(timers, serial)
    /\ pings' = [w \in Windows |->
           IF w \in windows THEN Without(pings[w], serial) ELSE pings[w]]
    /\ unresponsive' = [w \in Windows |-> unresponsive[w] /\ w \notin windows]
    /\ answered' = answered \cup {serial}
    /\ UNCHANGED <<windows, killed, sent>>

\* The client closes a window, with the answers to its pings still under way.
CloseWindow(w) ==
    /\ w \in windows
    /\ windows' = windows \ {w}
    /\ pings' = [pings EXCEPT ![w] = <<>>]
    /\ UNCHANGED <<timers, unresponsive, killed, inbox, sent, answered>>

\* SIGTERM ends the client, or five seconds later its connection is destroyed.
ClientGone(c) ==
    /\ c \in killed
    /\ \E w \in windows : Owner(w) = c
    /\ windows' = {w \in windows : Owner(w) # c}
    /\ pings' = [w \in Windows |-> IF Owner(w) = c THEN <<>> ELSE pings[w]]
    /\ inbox' = [inbox EXCEPT ![c] = {}]
    /\ UNCHANGED <<timers, unresponsive, killed, sent, answered>>

Expire(serial) == PingDelayed(serial) \/ PingTimeout(serial)

Next ==
    \/ \E w \in Windows, reason \in Reasons : SendPing(w, reason)
    \/ \E serial \in DOMAIN timers : Expire(serial)
    \/ \E c \in Clients : ClientGone(c) \/ \E serial \in inbox[c] : Pong(c, serial)
    \/ \E w \in Windows : CloseWindow(w)

\* Timers fire and a killed client goes away; a client may stop to answer.
Fairness ==
    /\ \A serial \in 1 .. MaxPings : WF_vars(Expire(serial))
    /\ \A c \in Clients : WF_vars(ClientGone(c))

Spec == Init /\ [][Next]_vars /\ Fairness

-----------------------------------------------------------------------------
\* Type invariant.
TypeInv ==
    /\ windows \subseteq Windows /\ killed \subseteq Clients
    /\ DOMAIN timers \subseteq DOMAIN sent
    /\ \A s \in DOMAIN timers : timers[s] \in {0, 1}
    /\ \A w \in Windows :
           /\ unresponsive[w] \in BOOLEAN
           /\ \A s \in DOMAIN pings[w] : pings[w][s] \in Reasons
    /\ \A c \in Clients : inbox[c] \subseteq DOMAIN sent

\* What a window remembers and what the shell has timers for are the same pings,
\* through pongs, timeouts and windows that go away: no window waits for a ping
\* whose timer is gone, and no timer of a living window fires for nothing.
PingsHaveTimers ==
    \A w \in windows :
        DOMAIN pings[w] = {s \in DOMAIN timers : sent[s].win = w}

\* A client is killed only for a window that was asked to close, and only when
\* that very ping has never been answered.
KilledForSilence ==
    [][\A c \in killed' \ killed :
           \E s \in DOMAIN timers \ DOMAIN timers' :
               /\ sent[s].reason = "CloseWindow" /\ Owner(sent[s].win) = c
               /\ s \notin answered]_vars

\* A window is not left marked once its client has answered everything: as long
\* as it is, one of its own pings is unanswered.
AnswersClearTheMark ==
    \A w \in windows :
        unresponsive[w] => \E s \in inbox[Owner(w)] : sent[s].win = w

CloseSent(s) == s \in DOMAIN sent /\ sent[s].reason = "CloseWindow"

\* Closing a window of a client that has stopped to answer ends: the window goes
\* away, or the client has answered the ping.
CloseIsForced ==
    \A s \in 1 .. MaxPings :
        CloseSent(s) ~> (CloseSent(s) /\ (s \in answered \/ sent[s].win \notin windows))

=============================================================================
