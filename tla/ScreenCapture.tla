---------------------------- MODULE ScreenCapture ----------------------------
(* The capture of the selected display and its supervision                    *)
(* (crates/windows/src/screen_input.rs; the screen's part of DevicePlatform   *)
(* in crates/app/src/runtime.rs).                                             *)
(*                                                                            *)
(* A capture session has a thread of its own: Windows calls it with a frame   *)
(* when the display shows something new, and once when it begins.  It keeps   *)
(* the last converted frame, or the reason it ended, where the device worker  *)
(* looks at every cycle.  Every half minute the recovery looks too: a black   *)
(* or a missing frame twice in a row makes it start the capture again.        *)
(*                                                                            *)
(* Stopping a session moves the generation on, waits for the session's thread *)
(* and clears what it left.  Only whether a session's generation is still the *)
(* current one matters: the field `current'.  A frame is the display it was   *)
(* taken from and what that showed.                                           *)
EXTENDS Naturals

CONSTANTS
    Displays,
    HdrDisplays,    \* those with HDR or more than 8 bits
    Nothing,    \* no display, no frame
    Troubles,   \* bound: changes of the displays, and captures that fail
    Clicks      \* bound: commands of the user, and displays found by a scan

CaptureAssumption ==
    /\ Nothing \notin Displays /\ HdrDisplays \subseteq Displays
    /\ Troubles \in Nat /\ Clicks \in Nat

Showing == {"picture", "dark", "odd"}   \* "odd" cannot be converted
Frames == [display : Displays, showing : Showing]
NoFrame == [display |-> Nothing, showing |-> "dark"]

VARIABLES
    world,      \* [attached, showing]: the displays as they are
    stored,     \* the display of the saved label
    selected,   \* selected_monitor
    hdr,        \* selected_display_hdr_unsupported
    setting,    \* [recover, automatic]: automatic_screen_capture_recovery, and
                \* the mode is Automatic
    session,    \* the capture's thread
    latest,     \* Shared::latest
    failure,    \* Shared::failure is there
    owner,      \* where the device worker is
    checks,     \* [due, failures]: the recovery's timer and its confirmations
    component,  \* ComponentStatus of the screen
    shown,      \* previews.screen
    ready,      \* availability.screen_ready
    troubles,
    clicks

vars == <<world, stored, selected, hdr, setting, session, latest, failure,
          owner, checks, component, shown, ready, troubles, clicks>>

capture == <<session, latest, failure>>
outside == <<world, stored, troubles>>

NoSession == [state |-> "none", display |-> Nothing, current |-> FALSE,
              fresh |-> FALSE, closing |-> FALSE, due |-> TRUE,
              streak |-> 0, got |-> "dark"]

\* The first frame of a session is due at once.
Session(display) ==
    [NoSession EXCEPT !.state = "waits", !.display = display,
                      !.current = TRUE, !.fresh = TRUE]

Idle == [at |-> "idle", back |-> "idle", automatic |-> FALSE, seen |-> NoFrame]

\* mark_failed, waiting_for_first_frame and mark_ready
Fails(c) == [c EXCEPT !.life = "Failed", !.deadline = "none"]
Awaits(c) ==
    [c EXCEPT !.life = "WaitingForFirstFrame", !.deadline = "set"]
BecomesReady == [life |-> "Ready", deadline |-> "none", failures |-> 0,
                 blocked |-> 0]

Starting == [life |-> "Starting", deadline |-> "none", failures |-> 0,
             blocked |-> 0]

(* DevicePlatform::new: the stored display is captured; when that fails no    *)
(* display is selected.                                                       *)
Init ==
    /\ world \in [attached : {Displays}, showing : [Displays -> {"picture"}]]
    /\ stored \in Displays
    /\ setting \in [recover : BOOLEAN, automatic : {TRUE}]
    /\ latest = NoFrame /\ failure = FALSE
    /\ owner = Idle
    /\ checks = [due |-> FALSE, failures |-> 0]
    /\ shown = NoFrame /\ ready = FALSE
    /\ clicks = 0
    /\ \/ /\ session = Session(stored) /\ selected = stored
          /\ hdr = (stored \in HdrDisplays)
          /\ component = Awaits(Starting)
          /\ troubles = 0
       \/ /\ Troubles > 0 /\ troubles = 1
          /\ session = NoSession /\ selected = Nothing /\ hdr = FALSE
          /\ component = Fails(Starting)

----------------------------------------------------------------------------
\* The displays.

Trouble == troubles < Troubles /\ troubles' = troubles + 1
Alive == session.state \in {"waits", "works"}

(* The display shows something else: Windows has a new frame for the session. *)
Shows ==
    /\ Trouble
    /\ \E d \in Displays, s \in Showing :
          /\ s # world.showing[d]
          /\ world' = [world EXCEPT !.showing[d] = s]
          /\ session' = IF Alive /\ session.display = d
                        THEN [session EXCEPT !.fresh = TRUE] ELSE session
    /\ UNCHANGED <<stored, selected, hdr, setting, latest, failure, owner,
                   checks, component, shown, ready, clicks>>

\* A display goes; its session will be closed.
Detach ==
    /\ Trouble
    /\ \E d \in world.attached :
          /\ world' = [world EXCEPT !.attached = @ \ {d}]
          /\ session' = IF Alive /\ session.display = d
                        THEN [session EXCEPT !.closing = TRUE] ELSE session
    /\ UNCHANGED <<stored, selected, hdr, setting, latest, failure, owner,
                   checks, component, shown, ready, clicks>>

Attach ==
    /\ world.attached # Displays
    /\ world' = [world EXCEPT !.attached = Displays]
    /\ UNCHANGED <<stored, selected, hdr, setting, session, latest, failure,
                   owner, checks, component, shown, ready, troubles, clicks>>

----------------------------------------------------------------------------
\* The session's thread.

\* Shared::record_failure
RecordFailure ==
    IF session.current THEN latest' = NoFrame /\ failure' = TRUE
                       ELSE UNCHANGED <<latest, failure>>

(* on_frame_arrived up to the conversion: a frame of a replaced session and   *)
(* one that comes before the pacer's time are thrown away.                    *)
FrameArrives ==
    /\ session.state = "waits" /\ ~session.closing
    /\ session' = IF session.current /\ session.due
                  THEN [session EXCEPT !.state = "works", !.due = FALSE,
                            !.fresh = FALSE,
                            !.got = world.showing[session.display]]
                  ELSE [session EXCEPT !.fresh = FALSE]
    /\ UNCHANGED <<outside, selected, hdr, setting, latest, failure, owner,
                   checks, component, shown, ready, clicks>>

Converted == session.got # "odd"

(* The rest of it.  A frame that could not be converted is dropped; the third *)
(* in a row ends the session (ProcessingFailureStreak).                       *)
FrameIsKept ==
    /\ session.state = "works" /\ Converted
    /\ IF session.current
       THEN /\ latest' = [display |-> session.display, showing |-> session.got]
            /\ failure' = FALSE
            /\ session' = [session EXCEPT !.state = "waits", !.streak = 0]
       ELSE /\ session' = [session EXCEPT !.state = "waits"]
            /\ UNCHANGED <<latest, failure>>
    /\ UNCHANGED <<outside, selected, hdr, setting, owner, checks, component,
                   shown, ready, clicks>>

FrameIsDropped ==
    /\ session.state = "works" /\ ~Converted
    /\ IF session.streak < 2
       THEN /\ session' = [session EXCEPT !.state = "waits", !.streak = @ + 1]
            /\ UNCHANGED <<latest, failure>>
       ELSE /\ session' = [session EXCEPT !.state = "ended"]
            /\ RecordFailure
    /\ UNCHANGED <<outside, selected, hdr, setting, owner, checks, component,
                   shown, ready, clicks>>

\* on_closed
Closed ==
    /\ session.state = "waits" /\ session.closing
    /\ session' = [session EXCEPT !.state = "ended"]
    /\ RecordFailure
    /\ UNCHANGED <<outside, selected, hdr, setting, owner, checks, component,
                   shown, ready, clicks>>

\* The thread ends without a word.
Dies ==
    /\ Trouble
    /\ session.state = "waits"
    /\ session' = [session EXCEPT !.state = "ended"]
    /\ UNCHANGED <<world, stored, selected, hdr, setting, latest, failure,
                   owner, checks, component, shown, ready, clicks>>

----------------------------------------------------------------------------
\* Starting the capture again.

(* restart_screen_with_policy up to the wait for the session's thread; the    *)
(* caller goes on at `back'.                                                  *)
Begins(automatic, back) ==
    /\ component' = [component EXCEPT !.life = "Restarting"]
    /\ checks' = [due |-> FALSE, failures |-> 0]
    /\ session' = [session EXCEPT !.current = FALSE]
    /\ owner' = [Idle EXCEPT !.at = "joining", !.back = back,
                             !.automatic = automatic]

\* A bug: what the replaced session left is cleared before its thread ended.
BugStopped ==
    /\ owner.at = "joining"
    /\ latest' = latest /\ failure' = FALSE

\* WindowsGraphicsScreenInput::stop, once its thread has ended
Stopped ==
    /\ owner.at = "joining" /\ session.state # "works"
    /\ latest' = NoFrame /\ failure' = FALSE

\* screen_restart_backoff, in half minutes; the recovery alone waits for it.
BackOff(failures) == IF failures <= 3 THEN 1 ELSE 2

StartRefused ==
    LET failures == IF component.failures < 4 THEN component.failures + 1
                                              ELSE component.failures
    IN /\ session' = NoSession
       /\ component' = [Fails(component) EXCEPT
             !.failures = failures,
             !.blocked = IF owner.automatic THEN BackOff(failures) ELSE @]

(* The rest of restart_screen_with_policy.  A start fails when the display is *)
(* gone, or when Windows refuses.                                             *)
Restarted ==
    /\ Stopped
    /\ shown' = NoFrame /\ ready' = FALSE
    /\ owner' = [Idle EXCEPT !.at = owner.back]
    /\ \/ /\ selected = Nothing
          /\ session' = NoSession
          /\ component' = Fails(component)
          /\ UNCHANGED troubles
       \/ /\ selected \in world.attached
          /\ session' = Session(selected)
          /\ component' = Awaits(component)
          /\ UNCHANGED troubles
       \/ /\ selected # Nothing /\ selected \notin world.attached
          /\ StartRefused
          /\ UNCHANGED troubles
       \/ /\ selected \in world.attached
          /\ Trouble /\ StartRefused
    /\ UNCHANGED <<world, stored, selected, hdr, setting, checks, clicks>>

----------------------------------------------------------------------------
\* Commands of the user, and a display found by a scan.

Command == owner.at = "idle" /\ clicks < Clicks /\ clicks' = clicks + 1

(* SelectMonitor, and refresh_monitor_scan when a display won twice.  The     *)
(* display's color is looked at here, and here alone.                         *)
Select ==
    /\ Command
    /\ \E d \in world.attached :
          selected' = d /\ hdr' = (d \in HdrDisplays) /\ stored' = d
    /\ Begins(FALSE, "idle")
    /\ UNCHANGED <<world, setting, latest, failure, shown, ready, troubles>>

\* Restart of the screen capture, and a change of the cursor setting
Restart ==
    /\ Command
    /\ Begins(FALSE, "idle")
    /\ UNCHANGED <<world, stored, selected, hdr, setting, latest, failure,
                   shown, ready, troubles>>

ToggleRecovery ==
    /\ Command
    /\ setting' = [setting EXCEPT !.recover = ~@]
    /\ checks' = [due |-> FALSE, failures |-> 0]
    /\ UNCHANGED <<world, stored, selected, hdr, capture, owner, component,
                   shown, ready, troubles>>

SetMode ==
    /\ Command
    /\ setting' = [setting EXCEPT !.automatic = ~@]
    /\ UNCHANGED <<world, stored, selected, hdr, capture, owner, checks,
                   component, shown, ready, troubles>>

----------------------------------------------------------------------------
\* The cycle of the device worker: refresh_inputs.

Bad(frame) == frame = NoFrame \/ frame.showing = "dark"

\* A bug: a check that finds the capture dead begins to count anew.
BugConfirmed == FALSE

\* ScreenCaptureRecovery::observe: the second check in a row
Confirmed == checks.failures = 1

(* check_screen_capture_recovery, when it is due.  An automatic restart is    *)
(* left out while the back-off of an earlier one lasts.                       *)
Cycle ==
    /\ owner.at = "idle"
    /\ IF ~(checks.due /\ setting.recover)
       THEN /\ owner' = [Idle EXCEPT !.at = "look"]
            /\ UNCHANGED <<checks, component, session>>
       ELSE \/ /\ ~Bad(latest)
               /\ checks' = [due |-> FALSE, failures |-> 0]
               /\ owner' = [Idle EXCEPT !.at = "look"]
               /\ UNCHANGED <<component, session>>
            \/ /\ Bad(latest) /\ ~Confirmed
               /\ checks' = [due |-> FALSE, failures |-> 1]
               /\ owner' = [Idle EXCEPT !.at = "look"]
               /\ UNCHANGED <<component, session>>
            \/ /\ Bad(latest) /\ Confirmed /\ component.blocked > 0
               /\ checks' = [due |-> FALSE, failures |-> 0]
               /\ owner' = [Idle EXCEPT !.at = "look"]
               /\ UNCHANGED <<component, session>>
            \/ /\ Bad(latest) /\ Confirmed /\ component.blocked = 0
               /\ Begins(TRUE, "look")
    /\ UNCHANGED <<outside, selected, hdr, setting, latest, failure, shown,
                   ready, clicks>>

Look ==
    /\ owner.at = "look"
    /\ owner' = [Idle EXCEPT !.at = "judge", !.seen = latest]
    /\ UNCHANGED <<outside, selected, hdr, setting, capture, checks, component,
                   shown, ready, clicks>>

HdrRefused == hdr /\ setting.automatic

\* A bug: a thread that ended without a word is not noticed.
BugHasError == failure

\* last_error is there
HasError == failure \/ session.state = "ended"

\* last_error gives a session that ended without a reason one.
LastError ==
    IF session.state = "ended" /\ ~failure THEN RecordFailure
                                          ELSE UNCHANGED <<latest, failure>>

Judge ==
    /\ owner.at = "judge"
    /\ owner' = Idle
    /\ \/ /\ HdrRefused
          /\ component' = Fails(component)
          /\ shown' = NoFrame /\ ready' = FALSE
          /\ UNCHANGED <<latest, failure>>
       \/ /\ ~HdrRefused /\ HasError /\ LastError
          /\ component' = Fails(component)
          /\ shown' = NoFrame /\ ready' = FALSE
       \/ /\ ~HdrRefused /\ ~HasError
          /\ UNCHANGED <<latest, failure>>
          /\ shown' = owner.seen
          /\ ready' = (owner.seen # NoFrame)
          /\ component' =
                IF owner.seen # NoFrame THEN BecomesReady
                ELSE IF component.deadline = "passed" THEN Fails(component)
                ELSE component
    /\ UNCHANGED <<outside, selected, hdr, setting, session, checks, clicks>>

----------------------------------------------------------------------------
\* The clock.

IntervalPasses ==
    /\ Alive /\ ~session.due
    /\ session' = [session EXCEPT !.due = TRUE]
    /\ UNCHANGED <<outside, selected, hdr, setting, latest, failure, owner,
                   checks, component, shown, ready, clicks>>

DeadlinePasses ==
    /\ component.deadline = "set"
    /\ component' = [component EXCEPT !.deadline = "passed"]
    /\ UNCHANGED <<outside, selected, hdr, setting, capture, owner, checks,
                   shown, ready, clicks>>

\* A frame that is on its way takes no half minute.
HalfMinutePasses ==
    /\ ~checks.due
    /\ Alive => ~session.fresh /\ session.state = "waits"
    /\ checks' = [checks EXCEPT !.due = TRUE]
    /\ component' = [component EXCEPT !.blocked = IF @ > 0 THEN @ - 1 ELSE 0]
    /\ UNCHANGED <<outside, selected, hdr, setting, capture, owner, shown,
                   ready, clicks>>

Next ==
    \/ Shows \/ Detach \/ Attach
    \/ FrameArrives \/ FrameIsKept \/ FrameIsDropped \/ Closed \/ Dies
    \/ Restarted \/ Select \/ Restart \/ ToggleRecovery \/ SetMode
    \/ Cycle \/ Look \/ Judge
    \/ IntervalPasses \/ DeadlinePasses \/ HalfMinutePasses

Spec == Init /\ [][Next]_vars

(* The device worker's loop goes on, time passes, and the session's thread    *)
(* works on what it is given; that Windows has a further frame is promised    *)
(* only after the display changed or the session began.                       *)
Fairness ==
    /\ WF_vars(Cycle) /\ WF_vars(Look) /\ WF_vars(Judge) /\ WF_vars(Restarted)
    /\ WF_vars(session.fresh /\ FrameArrives)
    /\ WF_vars(FrameIsKept) /\ WF_vars(FrameIsDropped) /\ WF_vars(Closed)
    /\ WF_vars(IntervalPasses) /\ SF_vars(HalfMinutePasses)

FairSpec == Spec /\ Fairness

----------------------------------------------------------------------------
TypeOK ==
    /\ world \in [attached : SUBSET Displays, showing : [Displays -> Showing]]
    /\ stored \in Displays /\ selected \in Displays \cup {Nothing}
    /\ hdr \in BOOLEAN /\ setting \in [recover : BOOLEAN, automatic : BOOLEAN]
    /\ session \in
          [state : {"none", "waits", "works", "ended"},
           display : Displays \cup {Nothing}, current : BOOLEAN,
           fresh : BOOLEAN, closing : BOOLEAN, due : BOOLEAN,
           streak : 0 .. 2, got : Showing]
    /\ {latest, shown, owner.seen} \subseteq Frames \cup {NoFrame}
    /\ failure \in BOOLEAN /\ ready \in BOOLEAN
    /\ owner.at \in {"idle", "joining", "look", "judge"}
    /\ owner.back \in {"idle", "look"} /\ owner.automatic \in BOOLEAN
    /\ checks \in [due : BOOLEAN, failures : 0 .. 1]
    /\ component \in
          [life : {"Starting", "WaitingForFirstFrame", "Ready", "Restarting",
                   "Failed"},
           deadline : {"none", "set", "passed"}, failures : 0 .. 4,
           blocked : 0 .. 2]
    /\ troubles \in 0 .. Troubles /\ clicks \in 0 .. Clicks

(* "Capture sessions are generation-tagged so callbacks from an old session   *)
(* cannot publish or clear replacement state" (docs/ARCHITECTURE.md:69): what *)
(* the device worker publishes as the screen was taken from the display that  *)
(* is selected, and a screen said to be ready has a frame, although a frame   *)
(* of the earlier display may be in conversion when the display changes.      *)
ShownIsSelected ==
    owner.at = "idle" =>
        /\ shown # NoFrame => shown.display = selected
        /\ ready => shown # NoFrame

(* A capture whose thread ended, with or without a word, is reported as       *)
(* failed or was started again: a picture that stands still is otherwise      *)
(* taken for a display that does (WindowsGraphicsScreenInput::last_error).    *)
DeadIsNoticed ==
    session.state = "ended"
        ~> (component.life = "Failed" \/ session.state # "ended")

Recovers(display) ==
    /\ setting.recover /\ ~HdrRefused
    /\ display \in world.attached /\ world.showing[display] = "picture"

(* "Two consecutive missing or near-black checks restart that capture"        *)
(* (docs/ARCHITECTURE.md:67): with the recovery on, a selected display that   *)
(* is there and shows a picture is shown in the end, whatever closed, killed  *)
(* or darkened its capture before, frames the pacer threw away included.      *)
SelectedReturns ==
    /\ <>[][UNCHANGED selected]_vars
    /\ <>[]Recovers(selected)
    => <>[](ready /\ shown = [display |-> selected, showing |-> "picture"])

(* "Recovery retains the stored display identity" (docs/ARCHITECTURE.md:67):  *)
(* so a stored display that is there and shows a picture is shown in the end. *)
StoredReturns ==
    \A d \in Displays : <>[](stored = d /\ Recovers(d)) => <>[]ready
=============================================================================
