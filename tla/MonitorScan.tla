---------------------------- MODULE MonitorScan ----------------------------
(***************************************************************************)
(* Reference discovery: which display shows the reference picture.  The    *)
(* device worker (DevicePlatform, crates/app/src/runtime.rs) asks a scan   *)
(* worker to compare every display with the reference, over a slot that    *)
(* holds one request (CoalescingSlot), and gives the results to the        *)
(* tracker (MonitorTracker, crates/core/src/monitor.rs), which changes the *)
(* selected display when the same one wins twice.  Settings, a new         *)
(* reference and a selection by the user come at any moment of a scan.     *)
(*                                                                         *)
(* A score is the level a display's similarity reaches: 0 stands for any   *)
(* score no threshold accepts, that of a failed capture included.  A scan  *)
(* sees all displays at one instant.  The 30-second timer may be due at    *)
(* any moment.  What restarting the capture does is not modelled here.     *)
(*                                                                         *)
(* A definition whose name starts with Bug is not part of Spec.            *)
(***************************************************************************)
EXTENDS Naturals, FiniteSets

CONSTANTS
  Displays,     \* the connected displays
  Levels,       \* similarity levels, 0 and the thresholds
  Settings,     \* the settings the user chooses from
  MaxChanges    \* bound: settings, references and selections by the user

NoDisplay == "none"

AllSettings ==
  [threshold : Levels \ {0}, cursor : {"shown", "hidden"},
   automatic : {"on", "off"}]

ASSUME DisplaysAssumption ==
  /\ IsFiniteSet(Displays)
  /\ NoDisplay \notin Displays
  /\ Levels \subseteq Nat
  /\ 0 \in Levels
  /\ Settings \subseteq AllSettings
  /\ MaxChanges \in Nat

VARIABLES
  world,      \* similarity of each display to the reference in use
  settings,   \* threshold, cursor_visible, automatic_monitor_rescans
  reference,  \* how often a reference was installed, 0 for none
  selected,   \* selected_monitor
  selections, \* history: how often the user selected a display
  tracker,    \* MonitorTracker: tracked, pending_name, confirmations
  generation, \* monitor_scan_generation
  slot,       \* the request in the CoalescingSlot
  result,     \* the worker's result not yet polled
  worker,     \* where the scan worker is
  scanning,   \* the request it works on
  stop,       \* the worker's stop flag
  owner,      \* "Running", or how far the worker's shutdown has come
  previous    \* history: the last result given to the tracker

vars == <<world, settings, reference, selected, selections, tracker,
          generation, slot, result, worker, scanning, stop, owner, previous>>

workerVars == <<worker, scanning>>
exitVars   == <<stop, owner>>

\* Generations count from 1: 0 is no request, no result, and no result given to
\* the tracker yet.
NoRequest == [generation |-> 0, reference |-> 0, cursor |-> "shown",
              selections |-> 0, origin |-> "user"]
NoResult == [request |-> NoRequest, scores |-> <<>>]
NoWin == [request |-> NoRequest, best |-> NoDisplay, threshold |-> 0]

(***************************************************************************)
(* The slot and the tracker.                                               *)
(***************************************************************************)

\* A request for the generation, the reference and the cursor setting of now;
\* origin and selections are history: whether the user asked for the scan, and
\* after how many selections.
Request(origin, cursor) ==
  [generation |-> generation', reference |-> reference', cursor |-> cursor,
   selections |-> selections', origin |-> origin]

\* The worker holds the slot's lock from looking at the slot until it waits.
SlotFree == worker # "Checked"

\* CoalescingSlot::replace: notify_one wakes the worker only when it waits.
Replace(request) ==
  /\ slot' = request
  /\ worker' = IF worker = "Asleep" THEN "Awake" ELSE worker

Withdraw == slot' = NoRequest /\ UNCHANGED worker

\* The callers that ask for a scan after they invalidate those under way.
RequestIf(automatic, cursor) ==
  IF automatic = "on" THEN Replace(Request("automatic", cursor)) ELSE Withdraw

Tracking(display) ==
  [tracked |-> display, pending |-> NoDisplay, confirmations |-> 0]

\* Only requests and results are withdrawn: a first win is kept.
BugInvalidate ==
  /\ generation' = generation + 1
  /\ result' = NoResult
  /\ UNCHANGED tracker

\* invalidate_monitor_scans; the slot is emptied by Withdraw or RequestIf.
Invalidate ==
  /\ generation' = generation + 1
  /\ result' = NoResult
  /\ tracker' = Tracking(selected)

Winners(scores, threshold) ==
  {display \in DOMAIN scores :
     /\ scores[display] >= threshold
     /\ \A other \in DOMAIN scores : scores[other] <= scores[display]}

\* The count starts again with every win.
BugAfterWin(best) ==
  IF best = tracker.tracked
  THEN Tracking(best)
  ELSE [tracked |-> tracker.tracked, pending |-> best, confirmations |-> 1]

\* A second win is counted and changes nothing.
BugAfterWinCounts(best) ==
  IF best = tracker.tracked
  THEN Tracking(best)
  ELSE [tracker EXCEPT !.pending = best, !.confirmations = @ + 1]

\* apply_scan, for a display that won.
AfterWin(best) ==
  IF best = tracker.tracked \/ best = tracker.pending
  THEN Tracking(best)
  ELSE [tracked |-> tracker.tracked, pending |-> best, confirmations |-> 1]

(***************************************************************************)
(* The device worker.                                                      *)
(***************************************************************************)

Running == owner = "Running" /\ SlotFree

Changes == Running /\ generation <= MaxChanges

\* A change of the automatic rescans alone invalidates nothing.
BugUpdateSettings(new) ==
  /\ Changes
  /\ new # settings
  /\ settings' = new
  /\ UNCHANGED <<world, reference, selected, selections, scanning, previous>>
  /\ UNCHANGED exitVars
  /\ IF new = [settings EXCEPT !.automatic = new.automatic]
     THEN UNCHANGED <<generation, result, tracker, slot, worker>>
     ELSE Invalidate /\ RequestIf(new.automatic, new.cursor)

UpdateSettings(new) ==
  /\ Changes
  /\ new # settings
  /\ settings' = new
  /\ UNCHANGED <<world, reference, selected, selections, scanning, previous>>
  /\ UNCHANGED exitVars
  /\ Invalidate
  /\ RequestIf(new.automatic, new.cursor)

\* Settings read from the file ask for no scan: the load of the reference that
\* comes with them does.
ReloadSettings(new) ==
  /\ Changes
  /\ settings' = new
  /\ Invalidate
  /\ Withdraw
  /\ UNCHANGED <<world, reference, selected, selections, scanning, previous>>
  /\ UNCHANGED exitVars

\* reference_updated.
ReferenceUpdated ==
  /\ Changes
  /\ reference' = reference + 1
  /\ UNCHANGED <<world, settings, selected, selections, scanning, previous>>
  /\ UNCHANGED exitVars
  /\ Invalidate
  /\ RequestIf(settings.automatic, settings.cursor)

\* The tracker does not hear of the user's choice.
BugSelectMonitor(display) ==
  /\ Changes
  /\ selected' = display
  /\ selections' = selections + 1
  /\ generation' = generation + 1
  /\ result' = NoResult
  /\ Withdraw
  /\ UNCHANGED <<world, settings, reference, tracker, scanning, previous>>
  /\ UNCHANGED exitVars

SelectMonitor(display) ==
  /\ Changes
  /\ selected' = display
  /\ selections' = selections + 1
  /\ tracker' = Tracking(display)
  /\ generation' = generation + 1
  /\ result' = NoResult
  /\ Withdraw
  /\ UNCHANGED <<world, settings, reference, scanning, previous>>
  /\ UNCHANGED exitVars

\* A scan with what is there: Rescan, or the automatic one every 30 seconds.
Scan(origin) ==
  /\ Running
  /\ UNCHANGED <<world, settings, reference, selected, selections, tracker,
                 generation, result, scanning, previous>>
  /\ UNCHANGED exitVars
  /\ Replace(Request(origin, settings.cursor))

Rescan == Scan("user")

AutomaticScan == settings.automatic = "on" /\ Scan("automatic")

\* No result, an obsolete one, or one without scores.
RefreshIgnores ==
  /\ Running
  /\ result # NoResult
  /\ \/ result.request.generation # generation
     \/ result.scores = <<>>
  /\ result' = NoResult
  /\ UNCHANGED <<world, settings, reference, selected, selections, tracker,
                 generation, slot, previous>>
  /\ UNCHANGED <<workerVars, exitVars>>

Applies ==
  /\ Running
  /\ result.request.generation = generation
  /\ result.scores # <<>>

\* previous keeps what the properties ask of the last result.
Remembers(best) ==
  previous' = [request |-> result.request, best |-> best,
               threshold |-> settings.threshold]

\* apply_scan without a winner.
RefreshMissing ==
  /\ Applies
  /\ Winners(result.scores, settings.threshold) = {}
  /\ tracker' = Tracking(tracker.tracked)
  /\ result' = NoResult
  /\ Remembers(NoDisplay)
  /\ UNCHANGED <<world, settings, reference, selected, selections, generation,
                 slot>>
  /\ UNCHANGED <<workerVars, exitVars>>

\* apply_scan with a winner: its first win asks for a second scan, its second
\* one selects it.  Of equal scores any display may be the last one listed.
RefreshWon ==
  /\ Applies
  /\ \E best \in Winners(result.scores, settings.threshold) :
        /\ tracker' = AfterWin(best)
        /\ Remembers(best)
  /\ result' = NoResult
  /\ selected' = tracker'.tracked
  /\ UNCHANGED <<world, settings, reference, selections, generation, scanning>>
  /\ UNCHANGED exitVars
  /\ IF tracker'.confirmations = 1
     THEN Replace(Request(result.request.origin, settings.cursor))
     ELSE UNCHANGED <<slot, worker>>

\* MonitorScanWorker::drop, when the device worker ends: the flag, the wakeup,
\* and a wait of at most WORKER_SHUTDOWN_TIMEOUT.
OwnerStops ==
  /\ owner = "Running"
  /\ owner' = "Stopping"
  /\ stop' = "set"
  /\ UNCHANGED <<world, settings, reference, selected, selections, tracker,
                 generation, slot, result, previous>>
  /\ UNCHANGED workerVars

OwnerWakes ==
  /\ owner = "Stopping"
  /\ owner' = "Waiting"
  /\ worker' = IF worker = "Asleep" THEN "Awake" ELSE worker
  /\ UNCHANGED <<world, settings, reference, selected, selections, tracker,
                 generation, slot, result, scanning, stop, previous>>

\* The steps of the worker between two waits take less than the timeout.
OwnerEnds ==
  /\ owner = "Waiting"
  /\ \/ worker = "Gone" /\ owner' = "Joined"
     \/ worker \in {"Scanning", "Asleep"} /\ owner' = "Detached"
  /\ UNCHANGED <<world, settings, reference, selected, selections, tracker,
                 generation, slot, result, stop, previous>>
  /\ UNCHANGED workerVars

(***************************************************************************)
(* The scan worker, and what the displays show.                            *)
(***************************************************************************)

\* wait_take: the predicate, under the slot's lock.
WorkerLooks ==
  /\ worker = "Awake"
  /\ \/ /\ stop = "set"
        /\ worker' = "Gone"
        /\ UNCHANGED <<slot, scanning>>
     \/ /\ stop = "clear"
        /\ slot # NoRequest
        /\ worker' = "Scanning"
        /\ scanning' = slot
        /\ slot' = NoRequest
     \/ /\ stop = "clear"
        /\ slot = NoRequest
        /\ worker' = "Checked"
        /\ UNCHANGED <<slot, scanning>>
  /\ UNCHANGED <<world, settings, reference, selected, selections, tracker,
                 generation, result, previous>>
  /\ UNCHANGED exitVars

\* Condvar::wait releases the lock and sleeps in one step.
WorkerWaits ==
  /\ worker = "Checked"
  /\ worker' = "Asleep"
  /\ UNCHANGED <<world, settings, reference, selected, selections, tracker,
                 generation, slot, result, scanning, previous>>
  /\ UNCHANGED exitVars

\* scan_monitors: no scores without a reference, or when the displays cannot
\* be enumerated.
WorkerScans ==
  /\ worker = "Scanning"
  /\ \E scores \in {<<>>} \cup (IF scanning.reference = 0 THEN {} ELSE {world}) :
        result' = [request |-> scanning, scores |-> scores]
  /\ scanning' = NoRequest
  /\ worker' = "Awake"
  /\ UNCHANGED <<world, settings, reference, selected, selections, tracker,
                 generation, slot, previous>>
  /\ UNCHANGED exitVars

WorldChanges ==
  /\ owner = "Running"
  /\ world' \in [Displays -> Levels]
  /\ UNCHANGED <<settings, reference, selected, selections, tracker,
                 generation, slot, result, previous>>
  /\ UNCHANGED <<workerVars, exitVars>>

(***************************************************************************)
(* The specification.                                                      *)
(***************************************************************************)

\* The selection of DevicePlatform::new and, with automatic rescans, its scan.
Init ==
  /\ world \in [Displays -> Levels]
  /\ settings \in Settings
  /\ reference = 0
  /\ selected \in Displays \cup {NoDisplay}
  /\ selections = 0
  /\ tracker = Tracking(selected)
  /\ generation = 1
  /\ slot = IF settings.automatic = "on"
            THEN [generation |-> 1, reference |-> 0, cursor |-> settings.cursor,
                  selections |-> 0, origin |-> "automatic"]
            ELSE NoRequest
  /\ result = NoResult
  /\ worker = "Awake"
  /\ scanning = NoRequest
  /\ stop = "clear"
  /\ owner = "Running"
  /\ previous = NoWin

Refresh == RefreshIgnores \/ RefreshMissing \/ RefreshWon

Worker == WorkerLooks \/ WorkerWaits \/ WorkerScans

Next ==
  \/ \E new \in Settings : UpdateSettings(new) \/ ReloadSettings(new)
  \/ ReferenceUpdated
  \/ \E display \in Displays : SelectMonitor(display)
  \/ Rescan
  \/ AutomaticScan
  \/ Refresh
  \/ OwnerStops \/ OwnerWakes \/ OwnerEnds
  \/ Worker
  \/ WorldChanges

Spec == Init /\ [][Next]_vars

\* The device worker runs on, its timer comes, and a scan ends.  Strong fairness
\* where a step takes the slot's lock: the worker gives it back each time.
Fairness ==
  /\ SF_vars(AutomaticScan)
  /\ SF_vars(Refresh)
  /\ WF_vars(Worker)

LiveSpec == Spec /\ Fairness

(***************************************************************************)
(* Properties.                                                             *)
(***************************************************************************)

Requests ==
  [generation : 0 .. generation, reference : 0 .. reference,
   cursor : {"shown", "hidden"}, selections : 0 .. selections,
   origin : {"user", "automatic"}]

TypeOK ==
  /\ world \in [Displays -> Levels]
  /\ settings \in Settings
  /\ reference \in Nat
  /\ selected \in Displays \cup {NoDisplay}
  /\ selections \in Nat
  /\ tracker \in [tracked : Displays \cup {NoDisplay},
                  pending : Displays \cup {NoDisplay}, confirmations : 0 .. 1]
  /\ generation \in Nat \ {0}
  /\ slot \in Requests
  /\ scanning \in Requests
  /\ result \in [request : Requests, scores : {<<>>} \cup [Displays -> Levels]]
  /\ previous \in [request : Requests, best : Displays \cup {NoDisplay},
                   threshold : Levels]
  /\ worker \in {"Awake", "Checked", "Asleep", "Scanning", "Gone"}
  /\ stop \in {"clear", "set"}
  /\ owner \in {"Running", "Stopping", "Waiting", "Joined", "Detached"}

\* The tracker judges wins against the display that is captured, and a win is
\* pending only for another one.  (MonitorTracker::select, selected_monitor)
TrackerAgrees ==
  /\ tracker.tracked = selected
  /\ tracker.confirmations = IF tracker.pending = NoDisplay THEN 0 ELSE 1
  /\ tracker.pending \in Displays => tracker.pending # selected

\* A request of the current generation asks for what is current, and for the
\* user when rescans are off.
IsCurrent(request) ==
  /\ request.generation <= generation
  /\ request.generation = generation
       => /\ request.reference = reference
          /\ request.cursor = settings.cursor
          /\ request.selections = selections
          /\ settings.automatic = "off" => request.origin = "user"

\* Every request under way is one of the current generation that asks for what
\* is current, or an obsolete one; and a first win was the last result given to
\* the tracker, for such a request and by the threshold of now.  This is what
\* WonTwice and OffMeansOff rest on.  (monitor_scan_generation, pending_name)
WinsAreCurrent ==
  /\ IsCurrent(slot)
  /\ IsCurrent(scanning)
  /\ IsCurrent(result.request)
  /\ tracker.pending # NoDisplay
       => /\ previous.best = tracker.pending
          /\ previous.threshold = settings.threshold
          /\ previous.request.generation = generation
          /\ IsCurrent(previous.request)

\* A step of the device worker that changes the display by a scan.
Switches == selected' # selected /\ selections' = selections

\* The display changes by itself only to one that won the last two results
\* given to the tracker, both of them scans for the reference and with the
\* cursor setting of now, judged by the threshold of now, and both asked for
\* after the user last selected a display.  (apply_scan, monitor_scan_generation)
WonTwice ==
  [][Switches
       => /\ previous.request.generation = generation
          /\ \A win \in {previous, previous'} :
                /\ win.best = selected'
                /\ win.threshold = settings.threshold
                /\ win.request.reference = reference
                /\ win.request.cursor = settings.cursor
                /\ win.request.selections = selections]_vars

\* While automatic rescans are off the display changes by itself only after a
\* scan the user asked for.  (AppConfig::automatic_monitor_rescans)
OffMeansOff ==
  [][Switches /\ settings.automatic = "off"
       => previous'.request.origin = "user"]_vars

\* A worker that is left behind at exit is in a call of the system, it does not
\* wait for a request.  Violated: the stop flag is set and the wakeup given
\* without the slot's lock, and a worker between its look at the flag and its
\* wait misses both.  (signal_shutdown, CoalescingSlot::wake)
DetachedIsBusy ==
  [][owner' = "Detached" /\ owner # "Detached" => worker = "Scanning"]_vars

\* From some time on scans see the displays.
ScansWork ==
  <>[][worker = "Scanning" /\ worker' # "Scanning"
         => result'.scores # <<>>]_vars

\* With automatic rescans and a steady picture, the display that matches best
\* is selected, and stays so.  (automatic_screen_tasks_due, queue_monitor_scan)
BestIsTracked ==
  ScansWork =>
    \A display \in Displays :
       <>[](/\ owner = "Running" /\ settings.automatic = "on" /\ reference > 0
            /\ Winners(world, settings.threshold) = {display})
         => <>[](selected = display)
=============================================================================
