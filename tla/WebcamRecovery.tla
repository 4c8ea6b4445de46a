---------------------------- MODULE WebcamRecovery ----------------------------
(***************************************************************************)
(* The owner of the webcam (the device worker): the component's life       *)
(* cycle, the first-frame deadline and the automatic recovery, which       *)
(* retries the saved device after 0.5, 1 and 2 s (runtime.rs).  One        *)
(* execution of refresh_inputs is Look, Judge and Attempt; the user's      *)
(* commands come between executions, capture callbacks at any time.        *)
(*                                                                         *)
(* A timer is "later" until it is "due", and a frame is "fresh" until it   *)
(* is "old": each may change at any moment, so every length of the delays  *)
(* and of the owner's cycles is covered.  Stalls bounds how often a frame  *)
(* grows old before the owner has looked at it (a worker kept busy for     *)
(* longer than FRAME_STALE_AFTER).                                         *)
(*                                                                         *)
(* The capture is the one of WebcamCapture with its start and stop atomic. *)
(* faults names what may happen there, and is chosen once: a callback of a *)
(* stopped session stores its frame ("late frame") or reports its failure  *)
(* ("late failure"), or a start's first request of a sample is refused     *)
(* ("first request"), which both fails the start and is reported.          *)
(*                                                                         *)
(* The lifecycle Restarting is left before the operation that enters it    *)
(* returns, so it is not seen between operations.                          *)
(***************************************************************************)
EXTENDS Naturals

CONSTANTS MaxAttempts,   \* the length of WEBCAM_RECOVERY_DELAYS
          Stalls,        \* bound: frames that grow old unseen
          Faults         \* bound: the faults to choose from, a subset of
                         \* {"late frame", "late failure", "first request"}

AttemptsAssumption == MaxAttempts \in Nat \ {0}
StallsAssumption == Stalls \in Nat
FaultsAssumption == Faults \subseteq {"late frame", "late failure", "first request"}

VARIABLES
  device,      \* selected_video_device_id: "webcam", or "none" when empty
  running,     \* the capture runs a session
  latest,      \* the newest frame: "none", "fresh" or "old"
  failure,     \* last_failure: "none", "retry" (automatically recoverable) or "final"
  recovery,    \* WebcamRecovery
  lifecycle,   \* webcam_component.lifecycle
  deadline,    \* webcam_component.first_frame_deadline
  kind,        \* webcam_component.last_failure_kind: may a retry help?
  cycle,       \* what the owner does next
  seen,        \* the frame this cycle read
  late,        \* what a callback of the stopped session may still do
  tries,       \* automatic starts since the webcam was ready or the user acted
               \* (counted up to MaxAttempts + 1)
  stalls,
  faults       \* the faults of this behaviour

captureVars == <<running, latest, failure, late>>
componentVars == <<recovery, lifecycle, deadline, kind, tries>>
environment == <<stalls, faults>>
vars == <<device, captureVars, componentVars, cycle, seen, environment>>

Timers == {"none", "later", "due"}
Failures == {"none", "retry", "final"}
Recovery == [active : {"yes", "no"}, attempts : 0..MaxAttempts, next : Timers,
             waiting : {"yes", "no"}]

TypeOK ==
  /\ device \in {"webcam", "none"}
  /\ running \in {"yes", "no"} /\ latest \in {"none", "fresh", "old"}
  /\ failure \in Failures
  /\ recovery \in Recovery
  /\ lifecycle \in {"Stopped", "Waiting", "Ready", "Stale", "Failed"}
  /\ deadline \in Timers /\ kind \in Failures
  /\ cycle \in {"idle", "look", "judge", "attempt"} /\ seen \in {"none", "fresh", "old"}
  /\ late \in faults \cup {"none"}
  /\ tries \in 0..MaxAttempts + 1 /\ stalls \in 0..Stalls /\ faults \subseteq Faults

--------------------------------------------------------------------------------
(* WebcamRecovery                                                             *)

Idle == [active |-> "no", attempts |-> 0, next |-> "none", waiting |-> "no"]

\* schedule_initial: a round under way is left alone.
Scheduled(r) ==
  IF r.active = "yes" THEN r ELSE [Idle EXCEPT !.active = "yes", !.next = "later"]

\* begin_due_attempt
AttemptIsDue(r) ==
  r.active = "yes" /\ r.waiting = "no" /\ r.next = "due" /\ r.attempts < MaxAttempts
Begun(r) == [r EXCEPT !.attempts = @ + 1, !.next = "none"]

AttemptStarted(r) == [r EXCEPT !.waiting = "yes", !.next = "none"]

\* Mistaken variant: giving up counts as one more attempt.
BugCountsGivingUp(r) ==
  [r EXCEPT !.active = "no", !.attempts = @ + 1, !.waiting = "no", !.next = "none"]

\* exhaust keeps the number of attempts.
Exhausted(r) == [r EXCEPT !.active = "no", !.waiting = "no", !.next = "none"]

\* Mistaken variant: the count of attempts starts again with each failed one.
BugForgetsAttempts(r) ==
  IF r.attempts >= MaxAttempts THEN Exhausted(r)
  ELSE [r EXCEPT !.attempts = 0, !.waiting = "no", !.next = "later"]

\* Mistaken variant: a failed attempt does not schedule the next one.
BugSchedulesNothing(r) ==
  IF r.attempts >= MaxAttempts THEN Exhausted(r) ELSE [r EXCEPT !.waiting = "no"]

\* attempt_failed: the last attempt ends the round.
AttemptFailed(r) ==
  IF r.attempts >= MaxAttempts THEN Exhausted(r)
  ELSE [r EXCEPT !.waiting = "no", !.next = "later"]

\* The device opens at startup, or does not; nothing is retried before the first
\* execution of refresh_inputs.
Init ==
  /\ device = "webcam" /\ latest = "none" /\ failure = "none" /\ late = "none"
  /\ \/ running = "yes" /\ lifecycle = "Waiting" /\ deadline = "later"
     \/ running = "no" /\ lifecycle = "Stopped" /\ deadline = "none"
  /\ recovery = Idle /\ kind = "none"
  /\ cycle = "idle" /\ seen = "none" /\ tries = 0 /\ stalls = 0 /\ faults \in SUBSET Faults

--------------------------------------------------------------------------------
(* The capture, as the owner calls it                                         *)

\* stop: what the session reported is cleared; one of its callbacks may be under way.
LeavesBehind ==
  late' \in {late} \cup (IF running = "yes" THEN faults \ {"first request"} ELSE {})
Stopped == running' = "no" /\ latest' = "none" /\ failure' = "none" /\ LeavesBehind

Started == running' = "yes" /\ latest' = "none" /\ failure' = "none" /\ LeavesBehind
StartRefused(reason) ==
  /\ running' = "no" /\ latest' = "none" /\ LeavesBehind
  /\ failure' \in {"none"} \cup (IF "first request" \in faults THEN {reason} ELSE {})

\* ComponentStatus
Waits == lifecycle' = "Waiting" /\ deadline' = "later" /\ kind' = "none"
Fails(reason) == lifecycle' = "Failed" /\ deadline' = "none" /\ kind' = reason
ChangesTo(state) == lifecycle' = state /\ UNCHANGED <<deadline, kind>>

--------------------------------------------------------------------------------
(* The user: settings that select another webcam, and a restart               *)

\* Both stop the capture and start the selected device, if there is one.
StartsByHand ==
  \/ Started /\ Waits
  \/ \E reason \in {"retry", "final"} : StartRefused(reason) /\ Fails(reason)
StopsByHand == Stopped /\ ChangesTo("Stopped")

\* Without a device the component is stopped and its deadline is left as it is.
Select(id) ==
  /\ cycle = "idle" /\ (id = "none" => device # "none")
  /\ device' = id
  /\ recovery' = Idle /\ tries' = 0
  /\ IF id = "none" THEN StopsByHand ELSE StartsByHand
  /\ UNCHANGED <<cycle, seen, environment>>

RestartWebcam ==
  /\ cycle = "idle"
  /\ recovery' = Idle /\ tries' = 0
  /\ IF device = "none" THEN StopsByHand ELSE StartsByHand
  /\ UNCHANGED <<device, cycle, seen, environment>>

--------------------------------------------------------------------------------
(* refresh_inputs                                                             *)

BeginCycle ==
  /\ cycle = "idle" /\ cycle' = "look"
  /\ UNCHANGED <<device, captureVars, componentVars, seen, environment>>

\* The newest frame is read first, last_failure in the next section.
Look ==
  /\ cycle = "look" /\ cycle' = "judge"
  /\ seen' = latest
  /\ UNCHANGED <<device, captureVars, componentVars, environment>>

\* queue_webcam_recovery: the session is stopped, and the attempt that was waiting
\* for its first frame has failed, or a round begins.
QueueRecovery ==
  /\ Stopped
  /\ recovery' = IF recovery.active = "yes" /\ recovery.waiting = "yes"
                 THEN AttemptFailed(recovery) ELSE Scheduled(recovery)

\* Mistaken variant: every failure is retried, whatever its kind.
BugRetriesAll ==
  /\ failure # "none"
  /\ Fails(failure)
  /\ QueueRecovery
  /\ UNCHANGED tries

JudgeFailure ==
  /\ failure # "none"
  /\ Fails(failure)
  /\ IF failure = "retry" THEN QueueRecovery ELSE UNCHANGED <<captureVars, recovery>>
  /\ UNCHANGED tries

\* The deadline is left as it is.
JudgeStale ==
  /\ failure = "none" /\ seen = "old"
  /\ ChangesTo("Stale")
  /\ QueueRecovery
  /\ UNCHANGED tries

JudgeFresh ==
  /\ failure = "none" /\ seen = "fresh"
  /\ lifecycle' = "Ready" /\ deadline' = "none" /\ kind' = "none"
  /\ recovery' = Idle /\ tries' = 0
  /\ UNCHANGED captureVars

\* Mistaken variant: an expired deadline is not looked at.
BugNoDeadline ==
  /\ failure = "none" /\ seen = "none"
  /\ UNCHANGED <<lifecycle, deadline, kind, recovery, captureVars, tries>>

JudgeNothing ==
  /\ failure = "none" /\ seen = "none"
  /\ IF deadline = "due"
     THEN Fails("retry") /\ QueueRecovery
     ELSE UNCHANGED <<lifecycle, deadline, kind, recovery, captureVars>>
  /\ UNCHANGED tries

Judge ==
  /\ cycle = "judge" /\ cycle' = "attempt"
  /\ JudgeFailure \/ JudgeStale \/ JudgeFresh \/ JudgeNothing
  /\ seen' = "none"
  /\ UNCHANGED <<device, environment>>

\* attempt_webcam_recovery
AttemptWithoutDevice ==
  /\ device = "none"
  /\ Stopped /\ recovery' = Exhausted(Begun(recovery))
  /\ Fails("none") /\ UNCHANGED tries
CountTry == tries' = IF tries > MaxAttempts THEN tries ELSE tries + 1
AttemptStarts ==
  /\ device # "none"
  /\ Started /\ recovery' = AttemptStarted(Begun(recovery))
  /\ Waits /\ CountTry
AttemptRefused(reason) ==
  /\ device # "none"
  /\ StartRefused(reason) /\ Fails(reason)
  /\ recovery' = IF reason = "retry" THEN AttemptFailed(Begun(recovery))
                 ELSE Exhausted(Begun(recovery))
  /\ CountTry

Attempt ==
  /\ cycle = "attempt" /\ cycle' = "idle"
  /\ IF AttemptIsDue(recovery)
     THEN \/ AttemptWithoutDevice
          \/ AttemptStarts
          \/ \E reason \in {"retry", "final"} : AttemptRefused(reason)
     ELSE UNCHANGED <<captureVars, componentVars>>
  /\ UNCHANGED <<device, seen, environment>>

--------------------------------------------------------------------------------
(* Callbacks and time                                                         *)

ownerVars == <<device, componentVars, cycle, seen>>

Frame ==
  /\ running = "yes"
  /\ latest' = "fresh" /\ failure' = "none"
  /\ UNCHANGED <<ownerVars, running, late, environment>>

\* set_failure: a terminal failure, or the third in a row, ends the session; a frame
\* that cannot be converted (a driver failure) does not.
SetsFailure(reason) ==
  /\ failure' = reason
  /\ \/ running' = "no" /\ latest' = "none"
     \/ reason = "retry" /\ UNCHANGED <<running, latest>>
Failure(reason) ==
  /\ running = "yes"
  /\ SetsFailure(reason)
  /\ UNCHANGED <<ownerVars, late, environment>>

LateFrame ==
  /\ late = "late frame" /\ late' = "none"
  /\ latest' = "fresh" /\ failure' = "none"
  /\ UNCHANGED <<ownerVars, running, environment>>
LateFailure(reason) ==
  /\ late = "late failure" /\ late' = "none"
  /\ SetsFailure(reason)
  /\ UNCHANGED <<ownerVars, environment>>

\* A ready webcam's frames stop coming; the first frame of a session grows old only
\* when the owner stalls.
FrameAges ==
  /\ latest = "fresh" /\ latest' = "old"
  /\ IF lifecycle # "Ready" /\ seen # "fresh"
     THEN stalls < Stalls /\ stalls' = stalls + 1
     ELSE UNCHANGED stalls
  /\ UNCHANGED <<ownerVars, running, failure, late, faults>>

RetryDue ==
  /\ recovery.next = "later" /\ recovery' = [recovery EXCEPT !.next = "due"]
  /\ UNCHANGED <<device, captureVars, lifecycle, deadline, kind, tries, cycle, seen, environment>>
DeadlineDue ==
  /\ deadline = "later" /\ deadline' = "due"
  /\ UNCHANGED <<device, captureVars, recovery, lifecycle, kind, tries, cycle, seen, environment>>

OwnerStep == BeginCycle \/ Look \/ Judge \/ Attempt
User == RestartWebcam \/ \E id \in {"webcam", "none"} : Select(id)
Device ==
  \/ Frame \/ LateFrame
  \/ \E reason \in {"retry", "final"} : Failure(reason) \/ LateFailure(reason)

Next == OwnerStep \/ User \/ Device \/ FrameAges \/ RetryDue \/ DeadlineDue

Spec == Init /\ [][Next]_vars

\* The worker executes refresh_inputs again and again, and time passes; neither the
\* device nor the user owes anything.
FairSpec ==
  /\ Spec
  /\ WF_vars(OwnerStep) /\ WF_vars(RetryDue) /\ WF_vars(DeadlineDue)

--------------------------------------------------------------------------------
(* Properties                                                                 *)

\* The saved webcam is retried at most three times between two successes; then the
\* worker waits for the user (queue_webcam_recovery, attempt_webcam_recovery).  A
\* failure that outlives its session, or a first frame that grows old unseen, is
\* taken for a new one and begins another round.
ThreeTries ==
  stalls = 0 /\ faults \subseteq {"late frame"} => tries <= MaxAttempts

\* What the documentation says: three tries, whatever happens.
ThreeTriesAlways == tries <= MaxAttempts

\* After a failure that a retry cannot help (privacy, a busy device, a format) the
\* webcam is not started again automatically (webcam_failure_is_automatically_
\* recoverable), unless something of an earlier session comes in its way.
FinalFailureWaits ==
  [][stalls = 0 /\ "late failure" \notin faults /\ tries' > tries => kind # "final"]_vars

\* A user who leaves the webcam alone from some moment on.
UserIsDone == <>[][~User]_vars

\* A webcam the user leaves alone settles again and again: it waits for a first
\* frame no longer, and a recovery under way has ended, in success or exhausted, or
\* is kept by a final failure (first_frame_deadline, attempt_webcam_recovery).
RecoveryEnds ==
  UserIsDone => []<>(/\ lifecycle # "Waiting"
                     /\ recovery.active = "no" \/ kind = "final")
================================================================================
