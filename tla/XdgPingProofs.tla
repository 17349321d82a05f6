---------------------------- MODULE XdgPingProofs ----------------------------
(***************************************************************************)
(* Proofs about XdgPing, for any clients, any number of windows and pings.  *)
(*                                                                          *)
(* PingsHaveTimers, AnswersClearTheMark and KilledForSilence follow from    *)
(* one inductive invariant: serials are fresh, a window remembers of its    *)
(* pings the reason they were sent for, those it remembers have not been    *)
(* answered, and an answered ping has no timer left.                        *)
(***************************************************************************)
EXTENDS XdgPing, TLAPS, FiniteSetTheorems

Serials == DOMAIN sent

\* What the variables are, with the domains TypeInv leaves open.
Shapes ==
    /\ windows \subseteq Windows
    /\ killed \subseteq Clients
    /\ \E n \in Nat : Serials = 1 .. n
    /\ \A s \in Serials : sent[s] \in [win : Windows, reason : Reasons]
    /\ DOMAIN timers \subseteq Serials
    /\ \A s \in DOMAIN timers : timers[s] \in {0, 1}
    /\ DOMAIN pings = Windows
    /\ \A w \in Windows : DOMAIN pings[w] \subseteq Serials
    /\ unresponsive \in [Windows -> BOOLEAN]
    /\ inbox \in [Clients -> SUBSET Serials]
    /\ answered \subseteq Serials

\* A window remembers why it sent each of its pings.
ReasonsAgree ==
    \A w \in Windows : \A s \in DOMAIN pings[w] : pings[w][s] = sent[s].reason

\* A ping that a window remembers is still in the client's inbox.
RememberedIsUnanswered ==
    \A w \in windows : DOMAIN pings[w] \subseteq inbox[Owner(w)]

\* The shell deletes the timer of a ping that is answered.
AnsweredIsOver == answered \cap DOMAIN timers = {}

IInv ==
    /\ Shapes
    /\ ReasonsAgree
    /\ RememberedIsUnanswered
    /\ AnsweredIsOver
    /\ PingsHaveTimers
    /\ AnswersClearTheMark

-----------------------------------------------------------------------------
\* Windows belong to clients.
LEMMA OwnerIsClient ==
    ASSUME NEW w \in Windows
    PROVE  Owner(w) \in Clients
BY DEF Windows, Owner

\* The serial of a new ping has not been used.
LEMMA SerialIsFresh ==
    ASSUME Shapes
    PROVE  /\ Cardinality(Serials) + 1 \notin Serials
           /\ \E n \in Nat : Serials \cup {Cardinality(Serials) + 1} = 1 .. n
<1>1. PICK n \in Nat : Serials = 1 .. n
  BY DEF Shapes
<1>2. Cardinality(Serials) = n
  BY <1>1, FS_Interval
<1>3. 1 .. n \cup {n + 1} = 1 .. (n + 1)
  OBVIOUS
<1> QED
  BY <1>1, <1>2, <1>3

-----------------------------------------------------------------------------
LEMMA InitIsGood == Init => IInv
<1> SUFFICES ASSUME Init PROVE IInv
  OBVIOUS
<1>1. DOMAIN sent = {} /\ DOMAIN timers = {}
  BY DEF Init
<1>2. \A w \in Windows : DOMAIN pings[w] = {}
  BY DEF Init
<1>3. Serials = 1 .. 0
  BY <1>1 DEF Serials
<1>4. Shapes
  BY <1>1, <1>2, <1>3 DEF Init, Shapes, Serials
<1>5. PingsHaveTimers /\ AnswersClearTheMark
  BY <1>1, <1>2 DEF Init, PingsHaveTimers, AnswersClearTheMark, Windows
<1> QED
  BY <1>1, <1>2, <1>4, <1>5
  DEF Init, IInv, ReasonsAgree, RememberedIsUnanswered, AnsweredIsOver

-----------------------------------------------------------------------------
\* A ping is sent with a serial of its own, and is in every list at once.
LEMMA SendPingIsGood ==
    ASSUME IInv, NEW w \in Windows, NEW reason \in Reasons, SendPing(w, reason)
    PROVE  IInv'
<1> DEFINE serial == Cardinality(Serials) + 1
<1>1. /\ w \in windows
      /\ timers' = With(timers, serial, 0)
      /\ pings' = [pings EXCEPT ![w] = With(@, serial, reason)]
      /\ inbox' = [inbox EXCEPT ![Owner(w)] = @ \cup {serial}]
      /\ sent' = With(sent, serial, [win |-> w, reason |-> reason])
      /\ UNCHANGED <<unresponsive, windows, killed, answered>>
  BY DEF SendPing, Serials
<1>2. serial \notin Serials /\ \E n \in Nat : Serials \cup {serial} = 1 .. n
  BY SerialIsFresh DEF IInv
<1> HIDE DEF serial
<1>3. /\ Serials' = Serials \cup {serial}
      /\ sent'[serial] = [win |-> w, reason |-> reason]
      /\ \A x \in Serials : sent'[x] = sent[x]
  BY <1>1, <1>2 DEF Serials, With
<1>4. /\ DOMAIN timers' = DOMAIN timers \cup {serial}
      /\ timers'[serial] = 0
      /\ \A x \in DOMAIN timers : timers'[x] = timers[x]
  BY <1>1, <1>2 DEF IInv, Shapes, With
<1>5. /\ DOMAIN pings' = Windows
      /\ \A v \in Windows : v # w => pings'[v] = pings[v]
      /\ pings'[w] = With(pings[w], serial, reason)
  BY <1>1 DEF IInv, Shapes
<1>6. /\ DOMAIN pings'[w] = DOMAIN pings[w] \cup {serial}
      /\ pings'[w][serial] = reason
      /\ \A x \in DOMAIN pings[w] : pings'[w][x] = pings[w][x]
  BY <1>2, <1>5 DEF IInv, Shapes, With
<1>7. Owner(w) \in Clients
  BY OwnerIsClient
<1>8. /\ inbox' \in [Clients -> SUBSET Serials']
      /\ \A c \in Clients : inbox[c] \subseteq inbox'[c]
      /\ serial \in inbox'[Owner(w)]
  BY <1>1, <1>3, <1>7 DEF IInv, Shapes
<1>9. Shapes'
  <2>1. \A s \in Serials' : sent'[s] \in [win : Windows, reason : Reasons]
    BY <1>3 DEF IInv, Shapes
  <2>2. \A v \in Windows : DOMAIN pings'[v] \subseteq Serials'
    BY <1>3, <1>5, <1>6 DEF IInv, Shapes
  <2>3. DOMAIN timers' \subseteq Serials' /\ \A s \in DOMAIN timers' : timers'[s] \in {0, 1}
    BY <1>3, <1>4 DEF IInv, Shapes
  <2> QED
    BY <1>1, <1>2, <1>3, <1>5, <1>8, <2>1, <2>2, <2>3 DEF IInv, Shapes
<1>10. ReasonsAgree'
  BY <1>2, <1>3, <1>5, <1>6 DEF IInv, Shapes, ReasonsAgree
<1>11. RememberedIsUnanswered'
  <2> SUFFICES ASSUME NEW v \in windows PROVE DOMAIN pings'[v] \subseteq inbox'[Owner(v)]
    BY <1>1 DEF RememberedIsUnanswered
  <2>1. v \in Windows /\ Owner(v) \in Clients
    BY OwnerIsClient DEF IInv, Shapes
  <2>2. DOMAIN pings[v] \subseteq inbox'[Owner(v)]
    BY <1>8, <2>1 DEF IInv, RememberedIsUnanswered
  <2> QED
    BY <1>5, <1>6, <1>8, <2>1, <2>2
<1>12. AnsweredIsOver'
  BY <1>1, <1>2, <1>4 DEF IInv, Shapes, AnsweredIsOver
<1>13. PingsHaveTimers'
  <2> SUFFICES ASSUME NEW v \in windows
               PROVE  DOMAIN pings'[v] = {s \in DOMAIN timers' : sent'[s].win = v}
    BY <1>1 DEF PingsHaveTimers
  <2>1. DOMAIN pings[v] = {s \in DOMAIN timers : sent[s].win = v}
    BY DEF IInv, PingsHaveTimers
  <2>2. \A s \in DOMAIN timers : sent'[s] = sent[s]
    BY <1>3 DEF IInv, Shapes
  <2>3. DOMAIN pings'[v] = DOMAIN pings[v] \cup (IF v = w THEN {serial} ELSE {})
    BY <1>5, <1>6 DEF IInv, Shapes
  <2> QED
    BY <1>3, <1>4, <2>1, <2>2, <2>3
<1>14. AnswersClearTheMark'
  <2> SUFFICES ASSUME NEW v \in windows, unresponsive[v]
               PROVE  \E s \in inbox'[Owner(v)] : sent'[s].win = v
    BY <1>1 DEF AnswersClearTheMark
  <2>1. Owner(v) \in Clients
    BY OwnerIsClient DEF IInv, Shapes
  <2>2. PICK s \in inbox[Owner(v)] : sent[s].win = v
    BY DEF IInv, AnswersClearTheMark
  <2>3. s \in Serials
    BY <2>1, <2>2 DEF IInv, Shapes
  <2> QED
    BY <1>3, <1>8, <2>1, <2>2, <2>3
<1> QED
  BY <1>9, <1>10, <1>11, <1>12, <1>13, <1>14 DEF IInv

\* A ping that is late marks the window that remembers it.
LEMMA PingDelayedIsGood ==
    ASSUME IInv, NEW serial, PingDelayed(serial)
    PROVE  IInv'
<1>1. /\ serial \in DOMAIN timers
      /\ timers' = [timers EXCEPT ![serial] = 1]
      /\ unresponsive' = [w \in Windows |->
             unresponsive[w] \/ (w \in windows /\ serial \in DOMAIN pings[w])]
      /\ UNCHANGED <<pings, windows, killed, inbox, sent, answered>>
  BY DEF PingDelayed
<1>2. /\ DOMAIN timers' = DOMAIN timers
      /\ \A x \in DOMAIN timers' : timers'[x] \in {0, 1}
  BY <1>1 DEF IInv, Shapes
<1>3. unresponsive' \in [Windows -> BOOLEAN]
  <2>1. \A w \in Windows : unresponsive[w] \in BOOLEAN
    BY DEF IInv, Shapes
  <2> QED
    BY <1>1, <2>1
<1>4. Shapes'
  BY <1>1, <1>2, <1>3 DEF IInv, Shapes, Serials
<1>5. AnswersClearTheMark'
  <2> SUFFICES ASSUME NEW v \in windows, unresponsive'[v]
               PROVE  \E s \in inbox[Owner(v)] : sent[s].win = v
    BY <1>1 DEF AnswersClearTheMark
  <2>1. v \in Windows
    BY DEF IInv, Shapes
  <2>2. unresponsive[v] \/ serial \in DOMAIN pings[v]
    BY <1>1, <2>1
  <2>3. CASE unresponsive[v]
    BY <2>3 DEF IInv, AnswersClearTheMark
  <2>4. CASE serial \in DOMAIN pings[v]
    BY <2>4 DEF IInv, RememberedIsUnanswered, PingsHaveTimers
  <2> QED
    BY <2>2, <2>3, <2>4
<1> QED
  BY <1>1, <1>2, <1>4, <1>5
  DEF IInv, ReasonsAgree, RememberedIsUnanswered, AnsweredIsOver, PingsHaveTimers

\* A ping that is not answered in time is forgotten by shell and window together.
LEMMA PingTimeoutIsGood ==
    ASSUME IInv, NEW serial, PingTimeout(serial)
    PROVE  IInv'
<1> DEFINE asking == {w \in windows : serial \in DOMAIN pings[w]}
           closing == {w \in asking : pings[w][serial] = "CloseWindow"}
<1>1. /\ serial \in DOMAIN timers
      /\ timers' = Without(timers, serial)
      /\ pings' = [w \in Windows |->
             IF w \in asking THEN Without(pings[w], serial) ELSE pings[w]]
      /\ killed' = killed \cup {Owner(w) : w \in closing}
      /\ UNCHANGED <<unresponsive, windows, inbox, sent, answered>>
  BY DEF PingTimeout
<1>2. killed' \subseteq Clients
  BY <1>1, OwnerIsClient DEF IInv, Shapes
<1>3. /\ DOMAIN timers' = DOMAIN timers \ {serial}
      /\ \A s \in DOMAIN timers' : timers'[s] = timers[s]
  BY <1>1 DEF Without
<1>4. \A w \in Windows :
        /\ DOMAIN pings'[w] = IF w \in windows THEN DOMAIN pings[w] \ {serial}
                                               ELSE DOMAIN pings[w]
        /\ \A s \in DOMAIN pings'[w] : pings'[w][s] = pings[w][s]
  BY <1>1 DEF Without
<1>5. Shapes'
  <2>1. DOMAIN pings' = Windows /\ \A w \in Windows : DOMAIN pings'[w] \subseteq Serials
    <3>1. DOMAIN pings' = Windows
      BY <1>1
    <3>2. \A w \in Windows : DOMAIN pings[w] \subseteq Serials
      BY DEF IInv, Shapes
    <3>3. \A w \in Windows : DOMAIN pings'[w] \subseteq DOMAIN pings[w]
      BY <1>4
    <3> QED
      BY <3>1, <3>2, <3>3
  <2>2. DOMAIN timers' \subseteq Serials /\ \A s \in DOMAIN timers' : timers'[s] \in {0, 1}
    BY <1>3 DEF IInv, Shapes
  <2>3. Serials' = Serials
    BY <1>1 DEF Serials
  <2> HIDE DEF asking, closing
  <2> QED
    BY <1>1, <1>2, <2>1, <2>2, <2>3 DEF IInv, Shapes
<1>6. ReasonsAgree' /\ RememberedIsUnanswered'
  <2>1. ReasonsAgree'
    <3> SUFFICES ASSUME NEW w \in Windows, NEW s \in DOMAIN pings'[w]
                 PROVE  pings'[w][s] = sent[s].reason
      BY <1>1 DEF ReasonsAgree
    <3>1. s \in DOMAIN pings[w] /\ pings'[w][s] = pings[w][s]
      BY <1>4
    <3> QED
      BY <3>1 DEF IInv, ReasonsAgree
  <2>2. \A w \in windows : w \in Windows /\ DOMAIN pings'[w] \subseteq DOMAIN pings[w]
    BY <1>4 DEF IInv, Shapes
  <2>3. RememberedIsUnanswered'
    BY <1>1, <2>2 DEF IInv, RememberedIsUnanswered
  <2> QED
    BY <2>1, <2>3
<1>7. AnsweredIsOver'
  BY <1>1, <1>3 DEF IInv, AnsweredIsOver
<1>8. PingsHaveTimers'
  BY <1>1, <1>3, <1>4 DEF IInv, Shapes, PingsHaveTimers
<1>9. AnswersClearTheMark'
  BY <1>1 DEF IInv, AnswersClearTheMark
<1> QED
  BY <1>5, <1>6, <1>7, <1>8, <1>9 DEF IInv

\* A pong takes its ping out of every list and the mark off every window.
LEMMA PongIsGood ==
    ASSUME IInv, NEW c \in Clients, NEW serial \in inbox[c], Pong(c, serial)
    PROVE  IInv'
<1>1. /\ inbox' = [inbox EXCEPT ![c] = @ \ {serial}]
      /\ timers' = Without(timers, serial)
      /\ pings' = [w \in Windows |->
             IF w \in windows THEN Without(pings[w], serial) ELSE pings[w]]
      /\ unresponsive' = [w \in Windows |-> unresponsive[w] /\ w \notin windows]
      /\ answered' = answered \cup {serial}
      /\ UNCHANGED <<windows, killed, sent>>
  BY DEF Pong
<1>2. serial \in Serials
  BY DEF IInv, Shapes
<1>3. /\ DOMAIN timers' = DOMAIN timers \ {serial}
      /\ \A s \in DOMAIN timers' : timers'[s] = timers[s]
  BY <1>1 DEF Without
<1>4. \A w \in Windows :
        /\ DOMAIN pings'[w] = IF w \in windows THEN DOMAIN pings[w] \ {serial}
                                               ELSE DOMAIN pings[w]
        /\ \A s \in DOMAIN pings'[w] : pings'[w][s] = pings[w][s]
  BY <1>1 DEF Without
<1>5. /\ inbox' \in [Clients -> SUBSET Serials]
      /\ \A d \in Clients : inbox[d] \ {serial} \subseteq inbox'[d]
  BY <1>1 DEF IInv, Shapes
<1>6. /\ unresponsive' \in [Windows -> BOOLEAN]
      /\ \A w \in windows : ~unresponsive'[w]
  <2>1. \A w \in Windows : unresponsive[w] \in BOOLEAN
    BY DEF IInv, Shapes
  <2>2. windows \subseteq Windows
    BY DEF IInv, Shapes
  <2> QED
    BY <1>1, <2>1, <2>2
<1>7. Shapes'
  <2>1. DOMAIN pings' = Windows /\ \A w \in Windows : DOMAIN pings'[w] \subseteq Serials
    <3>1. DOMAIN pings' = Windows
      BY <1>1
    <3>2. \A w \in Windows : DOMAIN pings[w] \subseteq Serials
      BY DEF IInv, Shapes
    <3>3. \A w \in Windows : DOMAIN pings'[w] \subseteq DOMAIN pings[w]
      BY <1>4
    <3> QED
      BY <3>1, <3>2, <3>3
  <2>2. DOMAIN timers' \subseteq Serials /\ \A s \in DOMAIN timers' : timers'[s] \in {0, 1}
    BY <1>3 DEF IInv, Shapes
  <2>3. Serials' = Serials /\ answered' \subseteq Serials
    BY <1>1, <1>2 DEF IInv, Shapes, Serials
  <2> QED
    BY <1>1, <1>5, <1>6, <2>1, <2>2, <2>3 DEF IInv, Shapes
<1>8. ReasonsAgree'
  BY <1>1, <1>4 DEF IInv, ReasonsAgree
<1>9. RememberedIsUnanswered'
  <2> SUFFICES ASSUME NEW v \in windows PROVE DOMAIN pings'[v] \subseteq inbox'[Owner(v)]
    BY <1>1 DEF RememberedIsUnanswered
  <2>1. v \in Windows /\ Owner(v) \in Clients
    BY OwnerIsClient DEF IInv, Shapes
  <2> QED
    BY <1>4, <1>5, <2>1 DEF IInv, RememberedIsUnanswered
<1>10. AnsweredIsOver'
  BY <1>1, <1>3 DEF IInv, AnsweredIsOver
<1>11. PingsHaveTimers'
  BY <1>1, <1>3, <1>4 DEF IInv, Shapes, PingsHaveTimers
<1>12. AnswersClearTheMark'
  BY <1>1, <1>6 DEF AnswersClearTheMark
<1> QED
  BY <1>7, <1>8, <1>9, <1>10, <1>11, <1>12 DEF IInv

\* A window that goes away leaves its timers and the client's answers behind.
LEMMA CloseWindowIsGood ==
    ASSUME IInv, NEW w \in Windows, CloseWindow(w)
    PROVE  IInv'
<1>1. /\ windows' = windows \ {w}
      /\ pings' = [pings EXCEPT ![w] = <<>>]
      /\ UNCHANGED <<timers, unresponsive, killed, inbox, sent, answered>>
  BY DEF CloseWindow
<1>2. /\ DOMAIN pings' = Windows
      /\ DOMAIN pings'[w] = {}
      /\ \A v \in Windows : v # w => pings'[v] = pings[v]
  BY <1>1 DEF IInv, Shapes
<1>3. \A v \in windows' : v \in windows /\ v \in Windows /\ pings'[v] = pings[v]
  BY <1>1, <1>2 DEF IInv, Shapes
<1>4. Shapes'
  BY <1>1, <1>2 DEF IInv, Shapes, Serials
<1>5. ReasonsAgree' /\ AnsweredIsOver'
  BY <1>1, <1>2 DEF IInv, ReasonsAgree, AnsweredIsOver
<1>6. RememberedIsUnanswered' /\ PingsHaveTimers' /\ AnswersClearTheMark'
  BY <1>1, <1>3 DEF IInv, RememberedIsUnanswered, PingsHaveTimers, AnswersClearTheMark
<1> QED
  BY <1>4, <1>5, <1>6 DEF IInv

\* A killed client goes away with all its windows.
LEMMA ClientGoneIsGood ==
    ASSUME IInv, NEW c \in Clients, ClientGone(c)
    PROVE  IInv'
<1>1. /\ windows' = {w \in windows : Owner(w) # c}
      /\ pings' = [w \in Windows |-> IF Owner(w) = c THEN <<>> ELSE pings[w]]
      /\ inbox' = [inbox EXCEPT ![c] = {}]
      /\ UNCHANGED <<timers, unresponsive, killed, sent, answered>>
  BY DEF ClientGone
<1>2. /\ DOMAIN pings' = Windows
      /\ \A v \in Windows : IF Owner(v) = c THEN DOMAIN pings'[v] = {}
                                            ELSE pings'[v] = pings[v]
  BY <1>1
<1>3. /\ inbox' \in [Clients -> SUBSET Serials]
      /\ \A d \in Clients : d # c => inbox'[d] = inbox[d]
  BY <1>1 DEF IInv, Shapes
<1>4. Shapes'
  BY <1>1, <1>2, <1>3 DEF IInv, Shapes, Serials
<1>5. ReasonsAgree' /\ AnsweredIsOver'
  BY <1>1, <1>2 DEF IInv, ReasonsAgree, AnsweredIsOver
<1>6. \A v \in windows' : /\ v \in windows /\ v \in Windows /\ pings'[v] = pings[v]
                          /\ inbox'[Owner(v)] = inbox[Owner(v)]
  BY <1>1, <1>2, <1>3, OwnerIsClient DEF IInv, Shapes
<1>7. RememberedIsUnanswered'
  BY <1>6 DEF IInv, RememberedIsUnanswered
<1>8. PingsHaveTimers'
  BY <1>1, <1>6 DEF IInv, PingsHaveTimers
<1>9. AnswersClearTheMark'
  BY <1>1, <1>6 DEF IInv, AnswersClearTheMark
<1> QED
  BY <1>4, <1>5, <1>7, <1>8, <1>9 DEF IInv

-----------------------------------------------------------------------------
LEMMA StepIsGood == IInv /\ [Next]_vars => IInv'
<1> SUFFICES ASSUME IInv, [Next]_vars PROVE IInv'
  OBVIOUS
<1>1. CASE UNCHANGED vars
  BY <1>1 DEF vars, IInv, Shapes, Serials, ReasonsAgree, RememberedIsUnanswered,
              AnsweredIsOver, PingsHaveTimers, AnswersClearTheMark
<1>2. ASSUME NEW w \in Windows, NEW reason \in Reasons, SendPing(w, reason)
      PROVE  IInv'
  BY <1>2, SendPingIsGood
<1>3. ASSUME NEW serial \in DOMAIN timers, Expire(serial)
      PROVE  IInv'
  BY <1>3, PingDelayedIsGood, PingTimeoutIsGood DEF Expire
<1>4. ASSUME NEW c \in Clients, ClientGone(c)
      PROVE  IInv'
  BY <1>4, ClientGoneIsGood
<1>5. ASSUME NEW c \in Clients, NEW serial \in inbox[c], Pong(c, serial)
      PROVE  IInv'
  BY <1>5, PongIsGood
<1>6. ASSUME NEW w \in Windows, CloseWindow(w)
      PROVE  IInv'
  BY <1>6, CloseWindowIsGood
<1> QED
  BY <1>1, <1>2, <1>3, <1>4, <1>5, <1>6 DEF Next

\* The inductive invariant holds in every behaviour of the pings.
THEOREM InvariantHolds == Spec => []IInv
<1> QED
  BY InitIsGood, StepIsGood, PTL DEF Spec

\* The variables have their types.
THEOREM TypeCorrect == Spec => []TypeInv
<1>1. IInv => TypeInv
  <2> SUFFICES ASSUME IInv PROVE TypeInv
    OBVIOUS
  <2>1. \A w \in Windows : \A s \in DOMAIN pings[w] : pings[w][s] \in Reasons
    BY DEF IInv, Shapes, ReasonsAgree
  <2> QED
    BY <2>1 DEF IInv, Shapes, Serials, TypeInv
<1> QED
  BY <1>1, InvariantHolds, PTL

\* Windows and shell always wait for the same pings (XdgShellInterface's timers and
\* XdgToplevelWindow::m_pings).
THEOREM PingListsAgree == Spec => []PingsHaveTimers
<1>1. IInv => PingsHaveTimers
  BY DEF IInv
<1> QED
  BY <1>1, InvariantHolds, PTL

\* A window whose client has answered everything is not left marked unresponsive.
THEOREM MarksAreCleared == Spec => []AnswersClearTheMark
<1>1. IInv => AnswersClearTheMark
  BY DEF IInv
<1> QED
  BY <1>1, InvariantHolds, PTL

\* XdgToplevelWindow kills a client only for a close request that it never answered.
THEOREM KilledOnlyForSilence == Spec => KilledForSilence
<1> DEFINE Deserved ==
      \A c \in killed' \ killed :
          \E s \in DOMAIN timers \ DOMAIN timers' :
              /\ sent[s].reason = "CloseWindow" /\ Owner(sent[s].win) = c
              /\ s \notin answered
<1>1. IInv /\ [Next]_vars => [Deserved]_vars
  <2> SUFFICES ASSUME IInv, Next, NEW c \in killed' \ killed
               PROVE  \E s \in DOMAIN timers \ DOMAIN timers' :
                          /\ sent[s].reason = "CloseWindow" /\ Owner(sent[s].win) = c
                          /\ s \notin answered
    OBVIOUS
  <2>1. PICK serial \in DOMAIN timers : PingTimeout(serial)
    BY DEF Next, SendPing, Expire, PingDelayed, Pong, CloseWindow, ClientGone
  <2>2. PICK w \in windows : /\ serial \in DOMAIN pings[w]
                             /\ pings[w][serial] = "CloseWindow"
                             /\ c = Owner(w)
    BY <2>1 DEF PingTimeout
  <2>3. w \in Windows
    BY DEF IInv, Shapes
  <2>4. sent[serial].win = w /\ sent[serial].reason = "CloseWindow"
    BY <2>2, <2>3 DEF IInv, PingsHaveTimers, ReasonsAgree
  <2>5. serial \notin DOMAIN timers' /\ serial \notin answered
    BY <2>1 DEF PingTimeout, Without, IInv, AnsweredIsOver
  <2> QED
    BY <2>2, <2>4, <2>5
<1> QED
  BY <1>1, InvariantHolds, PTL DEF Spec, KilledForSilence
=============================================================================
