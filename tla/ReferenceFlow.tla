--------------------------- MODULE ReferenceFlow ---------------------------
(***************************************************************************)
(* Capturing, confirming and importing the reference picture: the capture  *)
(* dialog of the interface (crates/app/src/application.rs), the engine of  *)
(* the runtime, the device worker with its coalesced pending commands, and *)
(* the reference worker that writes reference.png (crates/app/src/         *)
(* runtime.rs).  The four run concurrently; the interface reads the        *)
(* engine's last snapshot and sends commands through the mailbox's ordered *)
(* channel (module CommandMailbox), of which only these are modelled.      *)
(*                                                                         *)
(* A picture stands for a frame and its sequence number, for an imported   *)
(* file or for what reference.png held at start.  Saving is atomic         *)
(* (persist_rgba_atomic replaces the file only by a validated one), so a   *)
(* job either writes its picture or fails and leaves the file alone.       *)
(* Timeouts of the dialog may come at any moment: a device or disk may     *)
(* take longer than REFERENCE_CAPTURE_TIMEOUT.                             *)
(*                                                                         *)
(* A definition whose name starts with Bug is not part of Spec.            *)
(***************************************************************************)
EXTENDS Naturals, Sequences, Functions

CONSTANTS
  MaxFrame,     \* bound: frames of the selected screen
  MaxImport,    \* bound: pictures the user may import
  JobCapacity,  \* REFERENCE_JOB_CAPACITY, of jobs and of results
  MaxClicks,    \* bound: what the user does in the dialog or by import
  Timeouts,     \* whether the dialog may run out of patience
  Failures      \* kinds of job that may fail, and "Capture": no frame

\* A picture is a frame of the screen, by its sequence number, a picture the
\* user imports, or what reference.png held at start.
None    == 0
Frames  == 1 .. MaxFrame
Imports == MaxFrame + 1 .. MaxFrame + MaxImport
Stored  == MaxFrame + MaxImport + 1

\* The reference worker's states besides the job it executes.
Waiting == [kind |-> "Waiting"]
Gone == [kind |-> "Gone"]

Pictures == Frames \cup Imports \cup {Stored}

PicturesAssumption ==
  /\ MaxFrame \in Nat \ {0}
  /\ MaxImport \in Nat
  /\ JobCapacity \in Nat \ {0}
  /\ MaxClicks \in Nat
  /\ Timeouts \in BOOLEAN
  /\ Failures \subseteq {"Load", "Persist", "Import", "Capture"}

VARIABLES
  dialog,     \* SetupReferenceCaptureState
  previous,   \* its previous_reference_sequence, 0 for None
  clicks,     \* history: what the user did so far
  snapshot,   \* what the interface sees of candidate and reference
  inbox,      \* commands sent and not yet run
  candidate,  \* the engine's reference_candidate
  reference,  \* the engine's reference, and how often one was installed
  generation, \* reference_generation
  inFlight,   \* in_flight_candidate
  jobs,       \* the reference worker's job channel
  results,    \* and its result channel
  worker,     \* Waiting, Gone or the job it executes
  disk,       \* reference.png
  pending,    \* PendingDeviceCommands: which of the two are set
  screen,     \* sequence number of the newest frame captured so far
  event,      \* the device worker's candidate_event, its own candidate
  published,  \* the candidate_event of the last device snapshot
  seen        \* last_candidate_event_id

uiVars     == <<dialog, previous, clicks>>
engineVars == <<candidate, reference, generation, inFlight, seen>>
workerVars == <<jobs, results, worker, disk>>
deviceVars == <<pending, screen, event, published>>
vars       == <<dialog, previous, clicks, snapshot, inbox, candidate,
                reference, generation, inFlight, jobs, results, worker, disk,
                pending, screen, event, published, seen>>

NoFlight == [frame |-> None, generation |-> 0]

(***************************************************************************)
(* The interface.                                                          *)
(***************************************************************************)

\* A command, with the picture an import names.
Message(name, picture) == [name |-> name, picture |-> picture]

\* Sequence number of the reference in the snapshot, 0 for no reference.
SequenceShown ==
  IF snapshot.reference = None THEN 0 ELSE snapshot.installs

Clicks == clicks < MaxClicks /\ clicks' = clicks + 1

Sends(name, picture) == inbox' = Append(inbox, Message(name, picture))

\* prepare_reference_capture, by asking to retake or by opening the dialog, which
\* the tray does whatever the dialog is at.
UiPrepare ==
  /\ Clicks
  /\ Sends("DiscardReferenceCandidate", None)
  /\ dialog' = "PreparingCandidate"
  /\ UNCHANGED <<previous, snapshot>>
  /\ UNCHANGED <<engineVars, workerVars, deviceVars>>

\* capture_reference_candidate, sent by the dialog itself.
UiCapture ==
  /\ dialog = "PreparingCandidate"
  /\ snapshot.candidate = None
  /\ Sends("CaptureReferenceCandidate", None)
  /\ dialog' = "CapturingCandidate"
  /\ UNCHANGED <<previous, clicks, snapshot>>
  /\ UNCHANGED <<engineVars, workerVars, deviceVars>>

UiConfirm ==
  /\ dialog \in {"Review", "SaveFailed"}
  /\ Clicks
  /\ Sends("ConfirmReferenceCandidate", None)
  /\ dialog' = "SavingCandidate"
  /\ previous' = SequenceShown
  /\ UNCHANGED snapshot
  /\ UNCHANGED <<engineVars, workerVars, deviceVars>>

UiCancel ==
  /\ dialog \notin {"Idle", "SavingCandidate", "Confirmed"}
  /\ Clicks
  /\ Sends("DiscardReferenceCandidate", None)
  /\ dialog' = "Idle"
  /\ UNCHANGED <<previous, snapshot>>
  /\ UNCHANGED <<engineVars, workerVars, deviceVars>>

UiImport(picture) ==
  /\ dialog \in {"Idle", "Confirmed"}
  /\ Clicks
  /\ Sends("ImportReference", picture)
  /\ UNCHANGED <<dialog, previous, snapshot>>
  /\ UNCHANGED <<engineVars, workerVars, deviceVars>>

\* One look of the dialog at the snapshot that changes its state.
Becomes(state) ==
  /\ dialog' = state
  /\ UNCHANGED <<previous, clicks, snapshot, inbox>>
  /\ UNCHANGED <<engineVars, workerVars, deviceVars>>

UiCaptured ==
  /\ dialog = "CapturingCandidate"
  /\ snapshot.candidate # None
  /\ Becomes("Review")

UiLost ==
  /\ \/ dialog = "Review"
     \/ dialog = "SaveFailed" /\ SequenceShown \in {0, previous}
  /\ snapshot.candidate = None
  /\ Becomes("CaptureFailed")

UiSaved ==
  /\ dialog \in {"SavingCandidate", "SaveFailed"}
  /\ SequenceShown \notin {0, previous}
  /\ Becomes("Confirmed")

UiTimeout ==
  /\ Timeouts
  /\ \/ /\ dialog = "PreparingCandidate"
        /\ snapshot.candidate # None
        /\ Becomes("CaptureFailed")
     \/ /\ dialog = "CapturingCandidate"
        /\ snapshot.candidate = None
        /\ Becomes("CaptureFailed")
     \/ /\ dialog = "SavingCandidate"
        /\ SequenceShown \in {0, previous}
        /\ Becomes("SaveFailed")

(***************************************************************************)
(* The engine.                                                             *)
(***************************************************************************)

\* A refused job counts as submitted.
BugSubmit(kind, picture) ==
  IF Len(jobs) < JobCapacity /\ worker # Gone
  THEN /\ generation' = generation + 1
       /\ jobs' = Append(jobs, [kind |-> kind, picture |-> picture,
                                generation |-> generation + 1])
       /\ inFlight' = [frame |-> picture, generation |-> generation]
  ELSE UNCHANGED <<generation, jobs, inFlight>>

\* submit_reference_job: a full channel or a dead worker refuses the job.
Submit(kind, picture) ==
  IF Len(jobs) < JobCapacity /\ worker # Gone
  THEN /\ generation' = generation + 1
       /\ jobs' = Append(jobs, [kind |-> kind, picture |-> picture,
                                generation |-> generation + 1])
       /\ inFlight' = IF kind = "Persist"
                      THEN [frame |-> picture, generation |-> generation + 1]
                      ELSE inFlight
  ELSE UNCHANGED <<generation, jobs, inFlight>>

Discard ==
  /\ Head(inbox).name = "DiscardReferenceCandidate"
  /\ candidate' = None
  /\ pending' = pending \cup {"discard"}
  /\ UNCHANGED <<reference, generation, inFlight, jobs>>

Capture ==
  /\ Head(inbox).name = "CaptureReferenceCandidate"
  /\ pending' = pending \cup {"capture"}
  /\ UNCHANGED <<candidate, reference, generation, inFlight, jobs>>

\* The candidate is submitted again while its first job is under way.
BugConfirm ==
  /\ Head(inbox).name = "ConfirmReferenceCandidate"
  /\ IF candidate = None
     THEN UNCHANGED <<generation, inFlight, jobs>>
     ELSE Submit("Persist", candidate)
  /\ UNCHANGED <<candidate, reference, pending>>

Confirm ==
  /\ Head(inbox).name = "ConfirmReferenceCandidate"
  /\ IF candidate \in {None, inFlight.frame}
     THEN UNCHANGED <<generation, inFlight, jobs>>
     ELSE Submit("Persist", candidate)
  /\ UNCHANGED <<candidate, reference, pending>>

Import ==
  /\ Head(inbox).name = "ImportReference"
  /\ Submit("Import", Head(inbox).picture)
  /\ UNCHANGED <<candidate, reference, pending>>

EngineCommand ==
  /\ inbox # <<>>
  /\ inbox' = Tail(inbox)
  /\ Discard \/ Capture \/ Confirm \/ Import
  /\ UNCHANGED <<snapshot, seen, results, worker, disk, screen, event,
                 published>>
  /\ UNCHANGED uiVars

Install(state, picture) ==
  [state EXCEPT !.reference = picture, !.installs = @ + 1, !.discard = TRUE]

\* An obsolete result is installed like any other.
BugApply(state, result) ==
  LET landed == [state EXCEPT !.inFlight =
                   IF @.generation = result.generation THEN NoFlight ELSE @]
  IN  CASE result.kind \in {"Failed", "LoadFailed"} -> landed
        [] OTHER -> Install([landed EXCEPT !.candidate = None], result.picture)

\* poll_reference_results, one result.
Apply(state, result) ==
  LET landed == [state EXCEPT !.inFlight =
                   IF @.generation = result.generation THEN NoFlight ELSE @]
  IN  IF result.generation # generation \/ result.kind = "Failed" THEN landed
      ELSE CASE result.kind = "LoadFailed" -> [landed EXCEPT !.reference = None]
             [] result.kind = "Load" -> Install(landed, result.picture)
             [] result.kind = "Import" ->
                  Install([landed EXCEPT !.candidate = None], result.picture)
             [] result.kind = "Persist" /\ state.candidate = result.picture ->
                  Install([landed EXCEPT !.candidate = None], result.picture)
             [] OTHER -> landed

\* What the engine has after the first n of the results.
Polled[n \in 0 .. Len(results)] ==
  IF n = 0
    THEN [candidate |-> candidate, reference |-> reference.picture,
          installs |-> reference.installs, inFlight |-> inFlight,
          discard |-> FALSE]
    ELSE Apply(Polled[n - 1], results[n])

AfterPoll == Polled[Len(results)]

\* One step of the engine: results, device snapshot, snapshot to the interface.
EngineStep ==
  LET after == AfterPoll
      new   == IF published.id > seen THEN published.candidate
                                      ELSE after.candidate
  IN  /\ results' = <<>>
      /\ candidate' = new
      /\ seen' = published.id
      /\ reference' = [picture |-> after.reference, installs |-> after.installs]
      /\ inFlight' = after.inFlight
      /\ pending' = IF after.discard THEN pending \cup {"discard"} ELSE pending
      /\ snapshot' = [candidate |-> new, reference |-> after.reference,
                      installs |-> after.installs]
      /\ UNCHANGED <<inbox, generation, jobs, worker, disk, screen,
                     event, published>>
      /\ UNCHANGED uiVars

(***************************************************************************)
(* The reference worker.                                                   *)
(***************************************************************************)

\* recv: the job leaves the channel when the worker takes it.
WorkerTake ==
  /\ worker = Waiting
  /\ jobs # <<>>
  /\ worker' = Head(jobs)
  /\ jobs' = Tail(jobs)
  /\ UNCHANGED <<results, disk, inbox, snapshot>>
  /\ UNCHANGED <<uiVars, engineVars, deviceVars>>

\* The worker ends when the result channel is full.
Answer(result) ==
  IF Len(results) < JobCapacity
  THEN results' = Append(results, result) /\ worker' = Waiting
  ELSE worker' = Gone /\ UNCHANGED results

\* persist_rgba_atomic: a validated pending file replaces reference.png.
Persists(job) == disk' = IF job.kind = "Load" THEN disk ELSE job.picture

\* execute_reference_job.
Execute(job) ==
  \/ /\ Persists(job)
     /\ Answer([job EXCEPT !.picture = disk'])
  \/ /\ job.kind \in Failures
     /\ UNCHANGED disk
     /\ Answer([job EXCEPT !.kind = IF @ = "Load" THEN "LoadFailed"
                                                  ELSE "Failed"])

WorkerExecute ==
  /\ worker \notin {Waiting, Gone}
  /\ Execute(worker)
  /\ UNCHANGED <<jobs, inbox, snapshot>>
  /\ UNCHANGED <<uiVars, engineVars, deviceVars>>

(***************************************************************************)
(* The device worker.                                                      *)
(***************************************************************************)

Event(picture) == [id |-> event.id + 1, candidate |-> picture]

\* CaptureReferenceCandidate takes the latest frame; without one the
\* candidate stays.
DeviceCapture ==
  \/ \E frame \in Frames : /\ frame >= screen
                           /\ screen' = frame
                           /\ event' = Event(frame)
  \/ /\ "Capture" \in Failures
     /\ event' = Event(event.candidate)
     /\ UNCHANGED screen

\* The commands of one batch: a capture runs before a discard.  Nothing reads
\* the event between the two.
DeviceCommands ==
  /\ pending # {}
  /\ pending' = {}
  /\ IF "discard" \in pending THEN event' = Event(None) /\ UNCHANGED screen
                              ELSE DeviceCapture
  /\ UNCHANGED <<published, inbox, snapshot>>
  /\ UNCHANGED <<uiVars, engineVars, workerVars>>

DeviceRefresh ==
  /\ published # event
  /\ published' = event
  /\ UNCHANGED <<pending, screen, event, inbox, snapshot>>
  /\ UNCHANGED <<uiVars, engineVars, workerVars>>

Init ==
  /\ dialog = "Idle"
  /\ previous = 0
  /\ clicks = 0
  /\ snapshot = [candidate |-> None, reference |-> None, installs |-> 0]
  /\ inbox = <<>>
  /\ candidate = None
  /\ reference = [picture |-> None, installs |-> 0]
  /\ generation = 1
  /\ inFlight = NoFlight
  /\ jobs = <<[kind |-> "Load", picture |-> None, generation |-> 1]>>
  /\ results = <<>>
  /\ worker = Waiting
  /\ disk = Stored
  /\ pending = {}
  /\ screen = 1
  /\ event = [id |-> 0, candidate |-> None]
  /\ published = event
  /\ seen = 0

Ui ==
  \/ UiPrepare \/ UiConfirm \/ UiCancel
  \/ \E picture \in Imports : UiImport(picture)

UiLooks == UiCapture \/ UiCaptured \/ UiLost \/ UiSaved

Engine == EngineCommand \/ EngineStep

Worker == WorkerTake \/ WorkerExecute

Device == DeviceCommands \/ DeviceRefresh

Next == Ui \/ UiLooks \/ UiTimeout \/ Engine \/ Worker \/ Device

Fairness ==
  /\ WF_vars(UiLooks) /\ WF_vars(EngineCommand) /\ WF_vars(EngineStep)
  /\ WF_vars(Worker) /\ WF_vars(Device)

Spec == Init /\ [][Next]_vars

LiveSpec == Spec /\ Fairness

(***************************************************************************)
(* Properties.                                                             *)
(***************************************************************************)

JobOf(kinds) ==
  [kind : kinds, picture : Pictures \cup {None}, generation : Nat]

TypeOK ==
  /\ dialog \in {"Idle", "PreparingCandidate", "CapturingCandidate", "Review",
                 "SavingCandidate", "Confirmed", "CaptureFailed", "SaveFailed"}
  /\ previous \in Nat
  /\ clicks \in 0 .. MaxClicks
  /\ snapshot \in [candidate : Frames \cup {None},
                   reference : Pictures \cup {None}, installs : Nat]
  /\ inbox \in Seq([name : {"DiscardReferenceCandidate",
                            "CaptureReferenceCandidate",
                            "ConfirmReferenceCandidate", "ImportReference"},
                    picture : Pictures \cup {None}])
  /\ candidate \in Frames \cup {None}
  /\ reference \in [picture : Pictures \cup {None}, installs : Nat]
  /\ generation \in Nat \ {0}
  /\ inFlight \in [frame : Frames \cup {None}, generation : 0 .. generation]
  /\ jobs \in Seq(JobOf({"Load", "Persist", "Import"}))
  /\ Len(jobs) <= JobCapacity
  /\ results \in Seq(JobOf({"Load", "Persist", "Import",
                            "LoadFailed", "Failed"}))
  /\ Len(results) <= JobCapacity
  /\ worker \in {Waiting, Gone} \cup JobOf({"Load", "Persist", "Import"})
  /\ disk \in Pictures
  /\ pending \subseteq {"discard", "capture"}
  /\ screen \in Frames
  /\ event \in [id : Nat, candidate : Frames \cup {None}]
  /\ published \in [id : 0 .. event.id, candidate : Frames \cup {None}]
  /\ seen \in 0 .. published.id

\* What the engine takes for the reference is what the file holds at that
\* moment: the result of a job that a later one may have overtaken, be it a
\* save, an import or the load at start, is not installed.
\* (poll_reference_results, the generation of a job)
MemoryFollowsDisk ==
  [][reference'.installs # reference.installs
       => reference'.picture = disk]_vars

\* Jobs given to the reference worker whose results were not polled.
Unpolled ==
  Range(jobs) \cup Range(results)
    \cup (IF worker \in {Waiting, Gone} THEN {} ELSE {worker})

\* A candidate is never saved twice: while its save is under way, another click
\* on "Try again", or a retake of the same frame, submits nothing.
\* (ConfirmReferenceCandidate, in_flight_candidate)
SavedOnce ==
  \A one, other \in Unpolled :
     /\ one.kind = "Persist" /\ other.kind = "Persist"
     /\ one.picture = other.picture
     => one.generation = other.generation

\* A save under way ends, and the same picture may be confirmed again, whether
\* it succeeded, failed or was overtaken: unless the worker gave up because
\* nobody had polled its results.  (in_flight_candidate)
InFlightEnds == (inFlight # NoFlight) ~> (inFlight = NoFlight \/ worker = Gone)

\* Everything sent, submitted and published has arrived.
Quiet ==
  /\ inbox = <<>> /\ jobs = <<>> /\ results = <<>> /\ worker = Waiting
  /\ pending = {} /\ published = event /\ seen = event.id
  /\ snapshot = [candidate |-> candidate, reference |-> reference.picture,
                 installs |-> reference.installs]

\* When everything has settled the reference in use is the one in the file.
\* Violated: installing a reference discards the candidate on the device, so a
\* load that ends between capture and save takes the candidate away, the saved
\* file is taken for a replaced candidate's, and the old reference stays in use
\* until the next start.  (poll_reference_results, update_reference)
QuietAgrees == Quiet => reference.picture = disk

\* The dialog that waits for a candidate gets one when the screen has a frame.
\* Violated: the device worker runs a discard and a capture that wait together
\* in this order: first the capture, then the discard.
\* (PendingDeviceCommands::take)
CaptureArrives ==
  Quiet /\ dialog = "CapturingCandidate" => candidate # None
=============================================================================
