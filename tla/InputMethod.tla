----------------------------- MODULE InputMethod -----------------------------
(***************************************************************************)
(* The input method (src/inputmethod.cpp, inputpanelv1window.cpp,          *)
(* wayland/inputmethod_v1_interface.cpp): a process that KWin starts and   *)
(* restarts, the context that tells it of the focused text field, the      *)
(* keyboard grab it takes on that context, and the panel it shows.         *)
(*                                                                         *)
(* Each surface is one of a client of its own with one text input object:  *)
(* text-input-v3 for those in V3, v2 for the others.  `m' has              *)
(*   process     "none", "running", or "dead": the program has ended and   *)
(*               m_inputMethodProcess is still there                       *)
(*   runs        the command it was started with                           *)
(*   bound, told it has bound the protocol; it has been sent activate      *)
(*   context     the context exists: isActive()                            *)
(*   grab        "none", "live" or "dead": the grab's client is gone       *)
(*   focus, entered, text    the seat's focusedTextInputSurface, that of   *)
(*               the text inputs, and the surfaces with an enabled one     *)
(*   panel       the panel's window, see NewPanel                          *)
(*   missed      history: text inputs or the context have changed since    *)
(*               the last refreshActive() in some other way                *)
(* Texts, styles, serials, key events and geometries are left out.         *)
(***************************************************************************)
EXTENDS Integers, FiniteSets

CONSTANTS
    Surfaces,
    NoSurface,
    V3,             \* the surfaces whose client uses text-input-v3
    Commands,
    NoCommand,      \* the empty command
    CrashLimit,     \* 5 in the code
    Scripted        \* D-Bus calls setActive and forceActivate are made

ASSUME SurfacesAssumption == NoSurface \notin Surfaces /\ V3 \subseteq Surfaces
ASSUME CommandsAssumption == NoCommand \notin Commands
ASSUME LimitAssumption == CrashLimit \in Nat \ {0} /\ Scripted \in BOOLEAN

VARIABLES
    m,          \* the input method and what it sees
    touch       \* the last input came from a touch screen or tablet

vars == <<m, touch>>

-----------------------------------------------------------------------------
NoPanel ==
    [exists |-> FALSE, mode |-> "none", allowed |-> FALSE, should |-> FALSE,
     mapped |-> FALSE, ready |-> FALSE, hidden |-> FALSE]
NewPanel == [NoPanel EXCEPT !.exists = TRUE]

\* Type invariant; the text inputs enter and leave with the seat.
TypeInv ==
    /\ m \in [enabled : BOOLEAN, command : Commands \cup {NoCommand},
              process : {"none", "running", "dead"}, runs : Commands \cup {NoCommand},
              crashes : 0 .. CrashLimit, timer : BOOLEAN,
              bound : BOOLEAN, told : BOOLEAN, context : BOOLEAN,
              grab : {"none", "live", "dead"},
              focus : Surfaces \cup {NoSurface}, entered : Surfaces \cup {NoSurface},
              text : SUBSET Surfaces, shouldShow : BOOLEAN,
              panel : [exists : BOOLEAN, mode : {"none", "keyboard", "overlay"},
                       allowed : BOOLEAN, should : BOOLEAN, mapped : BOOLEAN,
                       ready : BOOLEAN, hidden : BOOLEAN],
              missed : BOOLEAN]
    /\ m.entered = m.focus
    /\ touch \in BOOLEAN

Init ==
    /\ m = [enabled |-> TRUE, command |-> NoCommand, process |-> "none", runs |-> NoCommand,
            crashes |-> 0, timer |-> FALSE, bound |-> FALSE, told |-> FALSE,
            context |-> FALSE, grab |-> "none", focus |-> NoSurface, entered |-> NoSurface,
            text |-> {}, shouldShow |-> FALSE, panel |-> NoPanel, missed |-> FALSE]
    /\ touch = FALSE

-----------------------------------------------------------------------------
(* The panel.                                                              *)

MaybeShow(p) ==
    IF p.mapped /\ (p.mode = "overlay" \/ (p.mode = "keyboard" /\ p.allowed /\ p.should))
    THEN [p EXCEPT !.ready = TRUE, !.hidden = FALSE] ELSE p

\* updateInputPanelState: allows the panel after touch input.
UpdatePanelState(s) ==
    IF s.panel.exists /\ touch
    THEN [s EXCEPT !.panel = MaybeShow([@ EXCEPT !.allowed = TRUE])] ELSE s

\* InputMethod::show
Show(s) ==
    LET t == [s EXCEPT !.shouldShow = TRUE]
    IN  IF t.panel.exists
        THEN UpdatePanelState([t EXCEPT !.panel = MaybeShow([@ EXCEPT !.should = TRUE])])
        ELSE t

\* InputMethod::hide; an overlay stays.
Hide(s) ==
    LET t == [s EXCEPT !.shouldShow = FALSE]
    IN  IF t.panel.exists
        THEN UpdatePanelState([t EXCEPT !.panel.should = FALSE,
                !.panel.hidden = @ \/ (t.panel.ready /\ t.panel.mode # "overlay")])
        ELSE t

\* Mutant: the keyboard of a restarted input method waits for the next request.
SetPanel_Waits(s) == UpdatePanelState([s EXCEPT !.panel = NewPanel])

\* setPanel
SetPanel(s) ==
    LET t == UpdatePanelState([s EXCEPT !.panel = NewPanel])
    IN  IF t.shouldShow THEN Show(t) ELSE t

-----------------------------------------------------------------------------
(* The context.                                                            *)

\* TextInputInterface::isEnabled, of any version.
TextEnabled(s) == s.entered # NoSurface /\ s.entered \in s.text

\* sendActivate, sendDeactivate; the grab belongs to the context.
Activate(s)   == [s EXCEPT !.context = TRUE, !.told = s.bound]
Deactivate(s) == [s EXCEPT !.context = FALSE, !.told = FALSE, !.grab = "none"]

SetActive(s, active) ==
    IF active
    THEN IF s.enabled /\ ~s.context THEN Activate(s) ELSE s
    ELSE UpdatePanelState(IF s.context THEN Deactivate(s) ELSE s)

RefreshActive(s) ==
    [SetActive(s, s.focus # NoSurface /\ TextEnabled(s)) EXCEPT !.missed = @ /\ ~s.enabled]

\* textInputInterfaceV2EnabledChanged and V3EnabledChanged.
EnabledChanged(s, surface) ==
    CASE ~s.enabled -> [s EXCEPT !.missed = TRUE]
      [] s.enabled /\ surface \in V3 /\ TextEnabled(s) -> Show(RefreshActive(s))
      [] OTHER -> RefreshActive(s)

\* Mutant: the text inputs tell nobody that they left.
Leave_Silently(s) == [s EXCEPT !.entered = NoSurface]

\* sendLeave of the text inputs, while the seat's focus is still the old one.
Leave(s) ==
    LET t == [s EXCEPT !.entered = NoSurface]
    IN  IF TextEnabled(s) THEN EnabledChanged(t, s.entered) ELSE t

\* sendEnter; setFocusedTextInputSurface has changed the focus before.
Enter(s, surface) ==
    LET t == [s EXCEPT !.focus = surface, !.entered = surface]
    IN  IF TextEnabled(t) THEN EnabledChanged(t, surface) ELSE t

\* handleFocusedSurfaceChanged: another window is tracked.
SetTrackedWindow(s) == UpdatePanelState([s EXCEPT !.shouldShow = FALSE])

-----------------------------------------------------------------------------
(* The process.                                                            *)

\* The connection of the process ends, and with it what the process has created.
Disconnect(s) ==
    [s EXCEPT !.bound = FALSE, !.told = FALSE, !.panel = NoPanel,
              !.grab = IF @ = "live" THEN "dead" ELSE @]

StopInputMethod(s) ==
    IF s.process = "none" THEN s
    ELSE [Disconnect(s) EXCEPT !.process = "none", !.runs = NoCommand]

\* startInputMethod: the connection may not be created, the command be invalid.
StartInputMethod(s) ==
    LET t == StopInputMethod(s)
    IN  {t} \cup IF t.command = NoCommand THEN {}
                 ELSE {[t EXCEPT !.process = "running", !.runs = t.command]}

\* Mutant: an input method that runs is left alone.
SetInputMethodCommand_KeepsRunning(command) ==
    /\ command # m.command
    /\ LET s == [m EXCEPT !.command = command]
       IN  m' \in IF s.enabled /\ s.process = "none" THEN StartInputMethod(s) ELSE {s}
    /\ UNCHANGED touch

SetInputMethodCommand(command) ==
    /\ command # m.command
    /\ LET s == [m EXCEPT !.command = command]
       IN  m' \in IF s.enabled THEN StartInputMethod(s) ELSE {s}
    /\ UNCHANGED touch

\* setEnabled, the user's switch.
SetEnabled ==
    /\ LET s == [m EXCEPT !.enabled = ~@]
       IN  m' \in IF s.enabled THEN StartInputMethod(s) ELSE {StopInputMethod(Hide(s))}
    /\ UNCHANGED touch

\* The process crashed: started again, or stopped if that came too often.
Crash ==
    /\ m.process = "running"
    /\ LET s == [m EXCEPT !.crashes = IF @ < CrashLimit THEN @ + 1 ELSE @, !.timer = TRUE]
       IN  m' \in IF s.crashes < CrashLimit THEN StartInputMethod(s) ELSE {StopInputMethod(s)}
    /\ UNCHANGED touch

\* The process ended otherwise, or was never executed: nothing is done.
Exit ==
    /\ m.process = "running"
    /\ m' = [Disconnect(m) EXCEPT !.process = "dead"]
    /\ UNCHANGED touch

\* m_inputMethodCrashTimer
CrashTimer ==
    /\ m.timer
    /\ m' = [m EXCEPT !.timer = FALSE, !.crashes = 0]
    /\ UNCHANGED touch

\* Mutant: one that binds late learns of the next text field.
Bind_Late ==
    /\ m.process = "running" /\ ~m.bound
    /\ m' = [m EXCEPT !.bound = TRUE]
    /\ UNCHANGED touch

\* zwp_input_method_v1_bind_resource
Bind ==
    /\ m.process = "running" /\ ~m.bound
    /\ m' = [m EXCEPT !.bound = TRUE, !.told = m.context]
    /\ UNCHANGED touch

\* zwp_input_method_context_v1_grab_keyboard, installKeyboardGrab
GrabKeyboard ==
    /\ m.told
    /\ m' = [m EXCEPT !.grab = "live"]
    /\ UNCHANGED touch

-----------------------------------------------------------------------------
(* The panel's client, the text inputs, the seat and D-Bus.                *)

\* get_input_panel_surface; a second one replaces the first.
CreatePanel == m.bound /\ m' = SetPanel(m) /\ UNCHANGED touch

\* showTopLevel, showOverlayPanel
SetPanelMode(mode) ==
    /\ m.panel.exists
    /\ m' = [m EXCEPT !.panel = MaybeShow([@ EXCEPT !.mode = mode])]
    /\ UNCHANGED touch

\* handleMapped; that the surface is unmapped is not handled.
MapPanel ==
    /\ m.panel.exists
    /\ m' = [m EXCEPT !.panel = IF m.panel.mapped THEN [@ EXCEPT !.mapped = FALSE]
                                ELSE MaybeShow([@ EXCEPT !.mapped = TRUE])]
    /\ UNCHANGED touch

DestroyPanel ==
    /\ m.panel.exists
    /\ m' = [m EXCEPT !.panel = NoPanel]
    /\ UNCHANGED touch

\* zwp_text_input_v3_commit after enable or disable, zwp_text_input_v2_enable or
\* disable; enableRequested when it was enabled before and the version is 3.
CommitText(surface, enable) ==
    /\ LET s == [m EXCEPT !.text = IF enable THEN @ \cup {surface} ELSE @ \ {surface}]
       IN  m' = IF m.entered = surface /\ s.text # m.text THEN EnabledChanged(s, surface)
                ELSE IF enable /\ s.text = m.text /\ surface \in V3 THEN Show(RefreshActive(s))
                ELSE s
    /\ UNCHANGED touch

\* zwp_text_input_v3_destroy: forgets that it was enabled.
DestroyText(surface) ==
    /\ surface \in V3 \cap m.text
    /\ m' = [m EXCEPT !.text = @ \ {surface}, !.missed = @ \/ m.entered = surface]
    /\ UNCHANGED touch

\* requestShowInputPanel, requestHideInputPanel; hide also before the screen locks.
RequestPanel(show) ==
    /\ m' = IF show THEN Show(m) ELSE Hide(m)
    /\ UNCHANGED touch

\* SeatInterface::setFocusedTextInputSurface and handleFocusedSurfaceChanged.
SetFocusedTextInputSurface(surface) ==
    /\ surface # m.focus
    /\ LET s == IF m.focus = NoSurface THEN m ELSE Leave(m)
           t == IF surface = NoSurface THEN [s EXCEPT !.focus = NoSurface]
                ELSE Enter(s, surface)
       IN  m' = SetTrackedWindow(t)
    /\ UNCHANGED touch

\* VirtualKeyboardDBus::setActive
DBusSetActive(active) ==
    /\ Scripted
    /\ m' = [SetActive(m, active) EXCEPT !.missed = TRUE]
    /\ UNCHANGED touch

ForceActivate ==
    /\ Scripted
    /\ m' = [Show(SetActive(m, TRUE)) EXCEPT !.missed = TRUE]
    /\ UNCHANGED touch

\* The geometry of the panel or of the tracked window changes.
UpdateInputPanelState == m.panel.exists /\ m' = UpdatePanelState(m) /\ UNCHANGED touch

LastInputHandler == touch' = ~touch /\ UNCHANGED m

Next ==
    \/ \E c \in Commands \cup {NoCommand} : SetInputMethodCommand(c)
    \/ SetEnabled \/ Crash \/ Exit \/ CrashTimer \/ Bind \/ GrabKeyboard
    \/ CreatePanel \/ MapPanel \/ DestroyPanel \/ UpdateInputPanelState
    \/ \E mode \in {"keyboard", "overlay"} : SetPanelMode(mode)
    \/ \E s \in Surfaces, b \in BOOLEAN : CommitText(s, b)
    \/ \E s \in Surfaces : DestroyText(s)
    \/ \E s \in Surfaces \cup {NoSurface} : SetFocusedTextInputSurface(s)
    \/ \E b \in BOOLEAN : RequestPanel(b) \/ DBusSetActive(b)
    \/ ForceActivate \/ LastInputHandler

Spec == Init /\ [][Next]_vars

-----------------------------------------------------------------------------
(* Properties.                                                             *)

\* The process that exists is one of the command that is configured and exists only
\* while the input method is enabled, whatever crashed, was switched or was
\* configured meanwhile (startInputMethod, stopInputMethod).
ServerIsCurrent ==
    m.process # "none" => m.enabled /\ m.runs = m.command /\ m.command # NoCommand

\* An input method that has bound the protocol knows whether there is a context, also
\* one that was restarted while a text field had the focus; one that is gone has
\* left no panel (zwp_input_method_v1_bind_resource).
ContextIsKnown ==
    /\ m.told <=> m.bound /\ m.context
    /\ m.panel.exists \/ m.grab = "live" => m.bound

\* There is a context exactly when the focused surface has an enabled text input,
\* through every order of focus changes and requests, unless D-Bus or a change while
\* the input method was disabled or a destroyed text input has come in between.
ActiveFollowsText == ~m.missed => (m.context <=> TextEnabled(m))

\* A keyboard that is asked for, allowed and has content is shown, and a request that
\* was made before the panel was created, or before its process crashed, counts
\* (setPanel, maybeShow).
KeyboardReturns ==
    /\ m.panel.exists /\ m.shouldShow => m.panel.should
    /\ LET p == m.panel
       IN  p.mode = "keyboard" /\ p.mapped /\ p.allowed /\ p.should => p.ready /\ ~p.hidden

=============================================================================
