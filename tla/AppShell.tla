------------------------------- MODULE AppShell -------------------------------
(* The shell of the interface (crates/app/src/application.rs, setup_guide.rs, *)
(* tray.rs): the window and the tray, the three views, the guided setup, the  *)
(* modal dialogs, the dialog that captures a reference picture, and the way   *)
(* out of the program.                                                        *)
(*                                                                            *)
(* One thread runs it: a pass of `logic' (commands of other instances, the    *)
(* tray, a close request of the window) and, while the window is visible, a   *)
(* pass of `ui' (the view, then the dialog above it).  An action is what one  *)
(* event makes of a pass.  Between passes the runtime works on the commands   *)
(* the interface sent: they wait in a bounded queue, which refuses a command  *)
(* when it is full, and the interface only sees its snapshots.                *)
(*                                                                            *)
(* A dialog is modal: clicks reach only it.  Keys are asked for by each part  *)
(* in the order of the pass, the view first.  Where the clock decides, `late' *)
(* says that the time allowed for the current wait is over.                   *)
EXTENDS Naturals, Sequences

CONSTANTS
    Animations,     \* whether the guide fades between its steps (BOOLEAN)
    QueueCapacity,  \* commands the runtime's queue holds
    Events          \* bound: events of the user, the tray and other instances

ShellAssumption ==
    Animations \in BOOLEAN /\ QueueCapacity \in Nat \ {0} /\ Events \in Nat

VARIABLES
    window,     \* [visible, closeSent]: window_visible; a close request waits
    leaving,    \* "no", "exit" (exit_requested) or "ended"
    setting,    \* [tray, confirm]: close_to_tray, confirm_exit
    view,       \* AppView
    guide,      \* the setup session: [step, pending, back], step 0 for none
    completed,  \* the guide is marked completed in ui-state.json
    dialog,     \* the kind of the active dialog
    capture,    \* SetupReferenceCaptureState: [state, seen]
    late,
    queue,      \* commands about the reference picture on their way
    candidate,  \* number of the candidate of the snapshot, 0 for none
    reference,  \* number of the reference of the snapshot, 0 for none
    events

vars == <<window, leaving, setting, view, guide, completed, dialog, capture,
          late, queue, candidate, reference, events>>

Views == {"Dashboard", "Settings", "SetupGuide"}
Dialogs == {"None", "Exit", "ClearLogs", "Admin", "AdminConfirm",
            "ReferenceCapture"}
Reference == 4
Ready == 5
NoGuide == [step |-> 0, pending |-> 0, back |-> "Dashboard"]

\* setup_reference_requires_decision
Undecided ==
    {"Preparing", "Capturing", "Review", "Saving", "SaveFailed"}
RequiresDecision == capture.state \in Undecided
Waiting == {"Preparing", "Capturing", "Saving"}

State(state) == [state |-> state, seen |-> 0]

Init ==
    /\ window \in [visible : BOOLEAN, closeSent : {FALSE}]
    /\ leaving = "no"
    /\ setting \in [tray : BOOLEAN, confirm : BOOLEAN]
    /\ \/ view = "Dashboard" /\ guide = NoGuide /\ completed = TRUE
       \/ view = "SetupGuide" /\ guide = [NoGuide EXCEPT !.step = 1]
                              /\ completed = FALSE
    /\ dialog = "None"
    /\ capture = State("Idle")
    /\ late = FALSE
    /\ queue = <<>>
    /\ candidate = 0
    /\ reference \in {0, 1}
    /\ events = 0

----------------------------------------------------------------------------
\* Sending to the runtime.

Accepted == Len(queue) < QueueCapacity

(* send_setup_reference_command: refused with a notice when the queue is full.*)
Sends(command) ==
    queue' = IF Accepted THEN Append(queue, command) ELSE queue

Event == leaving # "ended" /\ events < Events /\ events' = events + 1

----------------------------------------------------------------------------
\* The window, the tray and the way out.

Shown == [window EXCEPT !.visible = TRUE]

\* prepare_reference_capture: the old candidate is discarded first.
Prepares ==
    /\ Sends("discard")
    /\ capture' = IF Accepted THEN State("Preparing") ELSE capture
    /\ late' = (late /\ ~Accepted)

(* The tray opens the window, the settings, or the settings with the capture  *)
(* dialog, whatever view or dialog is there; so does a second launch.         *)
TrayShow ==
    /\ Event
    /\ window' = Shown
    /\ UNCHANGED <<leaving, setting, view, guide, completed, dialog, capture,
                   late, queue, candidate, reference>>

TraySettings ==
    /\ Event
    /\ view' = "Settings" /\ window' = Shown
    /\ UNCHANGED <<leaving, setting, guide, completed, dialog, capture, late,
                   queue, candidate, reference>>

TrayCapture ==
    /\ Event
    /\ view' = "Settings" /\ window' = Shown
    /\ Prepares
    /\ dialog' = "ReferenceCapture"
    /\ UNCHANGED <<leaving, setting, guide, completed, candidate, reference>>

TrayExit ==
    /\ Event
    /\ IF setting.confirm
       THEN dialog' = "Exit" /\ window' = Shown /\ UNCHANGED leaving
       ELSE /\ leaving' = "exit" /\ window' = [window EXCEPT !.closeSent = TRUE]
            /\ UNCHANGED dialog
    /\ UNCHANGED <<setting, view, guide, completed, capture, late, queue,
                   candidate, reference>>

\* ShutdownForReplacement
Replaced ==
    /\ Event
    /\ leaving' = "exit"
    /\ dialog' = "None"
    /\ window' = [window EXCEPT !.closeSent = TRUE]
    /\ UNCHANGED <<setting, view, guide, completed, capture, late, queue,
                   candidate, reference>>

\* The user closes the window.
CloseWindow ==
    /\ Event /\ window.visible
    /\ window' = [window EXCEPT !.closeSent = TRUE]
    /\ UNCHANGED <<leaving, setting, view, guide, completed, dialog, capture,
                   late, queue, candidate, reference>>

\* A bug: a close request hides the window or asks again although the exit
\* was decided.
BugCloses ==
    /\ leaving # "ended" /\ window.closeSent
    /\ \/ /\ setting.tray
          /\ window' = [visible |-> FALSE, closeSent |-> FALSE]
          /\ UNCHANGED <<leaving, dialog>>
       \/ /\ ~setting.tray /\ setting.confirm
          /\ window' = [window EXCEPT !.closeSent = FALSE]
          /\ dialog' = "Exit"
          /\ UNCHANGED leaving
       \/ /\ ~setting.tray /\ ~setting.confirm
          /\ leaving' = "ended"
          /\ UNCHANGED <<window, dialog>>
    /\ UNCHANGED <<setting, view, guide, completed, capture, late, queue,
                   candidate, reference, events>>

(* The end of logic: a close request is cancelled to hide the window, or to   *)
(* ask first, unless the exit is decided; else the program ends.              *)
Closes ==
    /\ leaving # "ended" /\ window.closeSent
    /\ \/ /\ leaving = "no" /\ setting.tray
          /\ window' = [visible |-> FALSE, closeSent |-> FALSE]
          /\ UNCHANGED <<leaving, dialog>>
       \/ /\ leaving = "no" /\ ~setting.tray /\ setting.confirm
          /\ window' = [window EXCEPT !.closeSent = FALSE]
          /\ dialog' = "Exit"
          /\ UNCHANGED leaving
       \/ /\ (leaving = "exit" \/ (~setting.tray /\ ~setting.confirm))
          /\ leaving' = "ended"
          /\ UNCHANGED <<window, dialog>>
    /\ UNCHANGED <<setting, view, guide, completed, capture, late, queue,
                   candidate, reference, events>>

----------------------------------------------------------------------------
\* Clicks in a view; a dialog takes them all.

Click == Event /\ window.visible /\ dialog = "None"

OpenSettings ==
    /\ Click /\ view = "Dashboard"
    /\ view' = "Settings"
    /\ UNCHANGED <<window, leaving, setting, guide, completed, dialog, capture,
                   late, queue, candidate, reference>>

\* close_settings
CloseSettings ==
    /\ Click /\ view = "Settings"
    /\ view' = "Dashboard"
    /\ UNCHANGED <<window, leaving, setting, guide, completed, dialog, capture,
                   late, queue, candidate, reference>>

ChangeSetting ==
    /\ Click /\ view = "Settings"
    /\ \/ setting' = [setting EXCEPT !.tray = ~@]
       \/ setting' = [setting EXCEPT !.confirm = ~@]
    /\ UNCHANGED <<window, leaving, view, guide, completed, dialog, capture,
                   late, queue, candidate, reference>>

AskInSettings ==
    /\ Click /\ view = "Settings"
    /\ dialog' \in {"ClearLogs", "Admin"}
    /\ UNCHANGED <<window, leaving, setting, view, guide, completed, capture,
                   late, queue, candidate, reference>>

(* begin_reference_capture, offered by the dashboard, the settings and the    *)
(* guide's reference step (there not while a picture waits for a decision).   *)
BeginCapture ==
    /\ Click
    /\ view = "SetupGuide" => guide.step = Reference /\ ~RequiresDecision
    /\ Prepares
    /\ dialog' = "ReferenceCapture"
    /\ UNCHANGED <<window, leaving, setting, view, guide, completed, candidate,
                   reference>>

\* start_setup_guide, from the settings.
StartGuide ==
    /\ Click /\ view = "Settings"
    /\ view' = "SetupGuide"
    /\ guide' = [step |-> 1, pending |-> 0, back |-> "Settings"]
    /\ capture' = State("Idle")
    /\ Sends("discard")
    /\ UNCHANGED <<window, leaving, setting, completed, dialog, late, candidate,
                   reference>>

----------------------------------------------------------------------------
\* The guided setup.

\* SetupSession::transition_to
MovedTo(step) ==
    IF step = guide.step THEN guide
    ELSE IF Animations THEN [guide EXCEPT !.pending = step]
    ELSE [guide EXCEPT !.step = step, !.pending = 0]

ReferenceAvailable == reference # 0 \/ capture.state = "Confirmed"

\* The early return of apply_setup_action.
MayGo(forward) ==
    forward /\ guide.step = Reference
        => ReferenceAvailable /\ ~RequiresDecision

(* Leaving the reference step with an undecided picture discards it; when the *)
(* queue refuses that, the step is not left.                                  *)
MustDiscard == guide.step = Reference /\ RequiresDecision

Moves(step) ==
    /\ guide.step # 0 /\ MayGo(step > Reference \/ step = guide.step + 1)
    /\ IF MustDiscard /\ step # Reference
       THEN Accepted /\ Sends("discard") /\ capture' = State("Idle")
       ELSE UNCHANGED <<queue, capture>>
    /\ guide' = MovedTo(step)
    /\ UNCHANGED <<view, completed>>

\* finish_setup_guide
Finishes ==
    /\ guide.step = Ready
    /\ completed' = TRUE
    /\ Sends("discard")
    /\ guide' = NoGuide /\ capture' = State("Idle") /\ view' = "Dashboard"

\* SetupAction::Close: dismiss_setup_guide
Dismisses ==
    /\ guide.step # 0
    /\ MustDiscard => Accepted
    /\ completed' = TRUE
    /\ Sends("discard")
    /\ view' = guide.back
    /\ guide' = NoGuide /\ capture' = State("Idle")

\* The guide's own gate before it offers to go on (next_enabled).
NextEnabled ==
    guide.step = Reference => ReferenceAvailable /\ ~RequiresDecision

GuideClick ==
    /\ Click /\ view = "SetupGuide"
    /\ \/ \E step \in 1 .. Ready :
             (NextEnabled \/ step <= guide.step) /\ Moves(step)
       \/ NextEnabled /\ Finishes
       \/ Dismisses
    /\ UNCHANGED <<window, leaving, setting, dialog, late, candidate, reference>>

(* setup_guide_keyboard_action: the arrows, Enter, Space and Escape, not      *)
(* during a fade.  Nothing asks whether a dialog is open.                     *)
GuideKey ==
    /\ Event /\ window.visible /\ view = "SetupGuide" /\ guide.pending = 0
    /\ \/ guide.step > 1 /\ Moves(guide.step - 1)
       \/ guide.step < Ready /\ NextEnabled /\ Moves(guide.step + 1)
       \/ NextEnabled /\ Finishes
       \/ Dismisses
    /\ UNCHANGED <<window, leaving, setting, dialog, late, candidate, reference>>

\* transition_opacity: the step changes half way, and then the fade ends.
Fades ==
    /\ leaving # "ended" /\ window.visible /\ view = "SetupGuide"
    /\ guide.pending # 0
    /\ guide' = IF guide.step # guide.pending
                THEN [guide EXCEPT !.step = guide.pending]
                ELSE [guide EXCEPT !.pending = 0]
    /\ UNCHANGED <<window, leaving, setting, view, completed, dialog, capture,
                   late, queue, candidate, reference, events>>

\* setup_guide_view without a session.
NoSession ==
    /\ leaving # "ended" /\ window.visible
    /\ view = "SetupGuide" /\ guide.step = 0
    /\ view' = "Dashboard"
    /\ UNCHANGED <<window, leaving, setting, guide, completed, dialog, capture,
                   late, queue, candidate, reference, events>>

----------------------------------------------------------------------------
\* The capture of a reference picture.

\* The passes that look at the capture: the guide's, and the dialog's.
Watched ==
    /\ leaving # "ended" /\ window.visible
    /\ view = "SetupGuide" \/ dialog = "ReferenceCapture"

\* A bug: the wait for the captured picture has no end.
BugTimedOut == late /\ capture.state # "Capturing"

\* REFERENCE_CAPTURE_TIMEOUT has passed since the wait began.
TimedOut == late

\* update_setup_reference_capture
Update ==
    /\ Watched
    /\ \/ /\ capture.state = "Preparing" /\ candidate = 0
          /\ Accepted /\ Sends("capture")
          /\ capture' = [state |-> "Capturing", seen |-> candidate]
       \/ /\ capture.state = "Preparing" /\ candidate # 0 /\ TimedOut
          /\ capture' = State("CaptureFailed")
          /\ UNCHANGED queue
       \/ /\ capture.state = "Capturing"
          /\ IF candidate \notin {0, capture.seen}
             THEN capture' = State("Review")
             ELSE TimedOut /\ capture' = State("CaptureFailed")
          /\ UNCHANGED queue
       \/ /\ capture.state = "Review" /\ candidate = 0
          /\ capture' = State("CaptureFailed")
          /\ UNCHANGED queue
       \/ /\ capture.state \in {"Saving", "SaveFailed"}
          /\ \/ reference \notin {0, capture.seen} /\ capture' = State("Confirmed")
             \/ /\ reference \in {0, capture.seen} /\ capture.state = "Saving"
                /\ TimedOut /\ capture' = [capture EXCEPT !.state = "SaveFailed"]
             \/ /\ reference \in {0, capture.seen}
                /\ capture.state = "SaveFailed" /\ candidate = 0
                /\ capture' = State("CaptureFailed")
          /\ UNCHANGED queue
    /\ late' = FALSE
    /\ UNCHANGED <<window, leaving, setting, view, guide, completed, dialog,
                   candidate, reference, events>>

TimePasses ==
    /\ leaving # "ended" /\ capture.state \in Waiting /\ ~late
    /\ late' = TRUE
    /\ UNCHANGED <<window, leaving, setting, view, guide, completed, dialog,
                   capture, queue, candidate, reference, events>>

(* The dialog finds the picture confirmed: it closes, and the guide goes on   *)
(* when it stands at its reference step.                                      *)
CaptureConfirmed ==
    /\ Watched /\ dialog = "ReferenceCapture" /\ capture.state = "Confirmed"
    /\ dialog' = "None"
    /\ guide' = IF guide.step = Reference THEN MovedTo(Ready) ELSE guide
    /\ UNCHANGED <<window, leaving, setting, view, completed, capture, late,
                   queue, candidate, reference, events>>

----------------------------------------------------------------------------
\* Clicks in a dialog.

DialogClick == Event /\ window.visible

CancelCapture ==
    /\ DialogClick /\ dialog = "ReferenceCapture"
    /\ capture.state \notin {"Saving", "Confirmed"} /\ Accepted
    /\ Sends("discard")
    /\ capture' = State("Idle") /\ dialog' = "None"
    /\ UNCHANGED <<window, leaving, setting, view, guide, completed, late,
                   candidate, reference>>

Retake ==
    /\ DialogClick /\ dialog = "ReferenceCapture"
    /\ capture.state \in {"Review", "SaveFailed", "CaptureFailed"}
    /\ Prepares
    /\ UNCHANGED <<window, leaving, setting, view, guide, completed, dialog,
                   candidate, reference>>

\* confirm_reference_candidate
Confirm ==
    /\ DialogClick /\ dialog = "ReferenceCapture"
    /\ capture.state \in {"Review", "SaveFailed"} /\ Accepted
    /\ Sends("confirm")
    /\ capture' = [state |-> "Saving", seen |-> reference]
    /\ late' = FALSE
    /\ UNCHANGED <<window, leaving, setting, view, guide, completed, dialog,
                   candidate, reference>>

Dismiss ==
    /\ DialogClick /\ dialog \notin {"None", "ReferenceCapture"}
    /\ dialog' = "None"
    /\ UNCHANGED <<window, leaving, setting, view, guide, completed, capture,
                   late, queue, candidate, reference>>

ConfirmExit ==
    /\ DialogClick /\ dialog = "Exit"
    /\ dialog' = "None"
    /\ leaving' = "exit"
    /\ window' = [window EXCEPT !.closeSent = TRUE]
    /\ UNCHANGED <<setting, view, guide, completed, capture, late, queue,
                   candidate, reference>>

\* The administration dialog asks again before it replaces, loads or removes.
AdminAsks ==
    /\ DialogClick /\ dialog = "Admin"
    /\ dialog' = "AdminConfirm"
    /\ UNCHANGED <<window, leaving, setting, view, guide, completed, capture,
                   late, queue, candidate, reference>>

\* Done, it returns to the administration dialog.
AdminDone ==
    /\ DialogClick /\ dialog = "AdminConfirm"
    /\ dialog' \in {"Admin", "None"}
    /\ UNCHANGED <<window, leaving, setting, view, guide, completed, capture,
                   late, queue, candidate, reference>>

----------------------------------------------------------------------------
(* The runtime, as this module needs it: it works on the commands in order;   *)
(* a capture and a save may fail; a picture has a number of its own.          *)
Runtime ==
    /\ leaving # "ended" /\ queue # <<>>
    /\ queue' = Tail(queue)
    /\ \/ /\ Head(queue) = "discard" /\ candidate' = 0
          /\ UNCHANGED reference
       \/ /\ Head(queue) = "capture"
          /\ candidate' \in {candidate} \cup ({1, 2, 3} \ {candidate, reference})
          /\ UNCHANGED reference
       \/ /\ Head(queue) = "confirm" /\ candidate # 0
          /\ reference' = candidate /\ candidate' = 0
       \/ /\ Head(queue) = "confirm"
          /\ UNCHANGED <<candidate, reference>>
    /\ UNCHANGED <<window, leaving, setting, view, guide, completed, dialog,
                   capture, late, events>>

Next ==
    \/ TrayShow \/ TraySettings \/ TrayCapture \/ TrayExit \/ Replaced
    \/ CloseWindow \/ Closes
    \/ OpenSettings \/ CloseSettings \/ ChangeSetting \/ AskInSettings
    \/ BeginCapture \/ StartGuide
    \/ GuideClick \/ GuideKey \/ Fades \/ NoSession
    \/ Update \/ TimePasses \/ CaptureConfirmed
    \/ CancelCapture \/ Retake \/ Confirm \/ Dismiss \/ ConfirmExit
    \/ AdminAsks \/ AdminDone
    \/ Runtime

Spec == Init /\ [][Next]_vars

(* A visible window passes every few milliseconds, a hidden one twice a       *)
(* second; the runtime works; time passes.                                    *)
Fairness ==
    /\ WF_vars(Closes) /\ WF_vars(Fades) /\ WF_vars(Update)
    /\ WF_vars(TimePasses) /\ WF_vars(CaptureConfirmed) /\ WF_vars(Runtime)

FairSpec == Spec /\ Fairness

----------------------------------------------------------------------------
TypeOK ==
    /\ window \in [visible : BOOLEAN, closeSent : BOOLEAN]
    /\ leaving \in {"no", "exit", "ended"}
    /\ setting \in [tray : BOOLEAN, confirm : BOOLEAN]
    /\ view \in Views /\ dialog \in Dialogs
    /\ guide \in [step : 0 .. Ready, pending : 0 .. Ready,
                  back : {"Dashboard", "Settings"}]
    /\ completed \in BOOLEAN /\ late \in BOOLEAN
    /\ capture.state \in Undecided \cup {"Idle", "Confirmed", "CaptureFailed"}
    /\ capture.seen \in 0 .. 3
    /\ Len(queue) <= QueueCapacity
    /\ candidate \in 0 .. 3 /\ reference \in 0 .. 3
    /\ events \in 0 .. Events

(* An exit that was decided, in the dialog, from the tray or because another  *)
(* version takes over, happens: no setting that keeps the program in the tray *)
(* or asks first takes it back, whatever is open meanwhile (logic, the guards *)
(* on exit_requested).                                                        *)
ExitHappens == leaving = "exit" ~> leaving = "ended"

(* The capture dialog never waits for good: a discard, a capture or a save    *)
(* the runtime refused, lost or failed to make ends in a state that offers    *)
(* the user a way on, as long as the dialog is watched                        *)
(* (update_setup_reference_capture, REFERENCE_CAPTURE_TIMEOUT).               *)
WaitingEnds ==
    capture.state \in Waiting ~> (capture.state \notin Waiting \/ ~Watched)

(* "flow_setup_guide_keyboard_navigation_matches_the_visible_actions"         *)
(* (application.rs:11459): the keys do what the buttons on the screen do, so  *)
(* the guide does not end under a dialog that stays open.                     *)
KeysMatchVisibleActions ==
    [][(dialog # "None" /\ dialog' = dialog /\ guide.step # 0)
        => guide'.step # 0]_vars
=============================================================================
