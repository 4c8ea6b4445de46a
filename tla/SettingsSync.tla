---------------------------- MODULE SettingsSync ----------------------------
(***************************************************************************)
(* Which webcam and which display are meant: the interface's configuration *)
(* (SwitcherApp::config, crates/app/src/application.rs), config.json, and  *)
(* what the device worker has open (DeviceWorker, crates/app/src/          *)
(* runtime.rs).  The interface sends its choices through the runtime's     *)
(* mailbox and the device worker's pending commands and learns of the      *)
(* effect from snapshots only, which lag behind by any time a device takes *)
(* to open.  What a snapshot shows that the interface did not ask for, it  *)
(* takes over and saves: it is how automatic choices reach config.json.    *)
(*                                                                         *)
(* The other settings travel with the webcam's in one UpdateSettings and   *)
(* stand for themselves in `other`, a number that every change counts up.  *)
(* A definition whose name starts with Bug is not part of Spec.            *)
(***************************************************************************)
EXTENDS Naturals, Sequences

CONSTANTS
  Webcams, Displays,   \* device ids and display labels
  Nothing,             \* no device: an empty id; no display selected
  NotAwaiting,         \* awaiting_* is None
  ChannelCapacity,     \* of the mailbox's ordered channel
  Choices,             \* bound: choices of the user
  Mishaps              \* bound: displays that the monitor tracker selects or
                       \* that disappear, and saves that fail

SettingsAssumption ==
  /\ Nothing \notin Webcams \cup Displays
  /\ NotAwaiting \notin Webcams \cup Displays \cup {Nothing}
  /\ ChannelCapacity \in Nat \ {0}
  /\ Choices \in Nat /\ Mishaps \in Nat

VARIABLES
  config,     \* the interface's: webcam, display (its label), other
  awaiting,   \* awaiting_video_device_id and awaiting_monitor_label
  save,       \* pending_settings_save: "no" or "queued"
  saveError,  \* settings_save_error: "no" or "shown"
  disk,       \* config.json
  profile,    \* the admin profile
  settings,   \* the mailbox's settings slot: <<>> or <<the configuration>>
  ordered,    \* SelectMonitor commands in the ordered channel
  waiting,    \* PendingDeviceCommands: settings and monitor, as sequences
  device,     \* what the device worker uses
  latest,     \* the device snapshot
  shown,      \* the runtime snapshot the interface reads
  attached,   \* displays that SelectMonitor finds
  wanted,     \* history: the webcam the user chose last
  budget      \* what is left of the bounds

uiVars     == <<config, awaiting, save, saveError, disk, profile, wanted>>
deviceVars == <<waiting, device, latest, attached>>
vars == <<uiVars, settings, ordered, deviceVars, shown, budget>>

Spends(what) == budget[what] > 0 /\ budget' = [budget EXCEPT ![what] = @ - 1]

(***************************************************************************)
(* Saving (save_config, module ConfigStore) and sending.                   *)
(***************************************************************************)

\* A save of the configuration c: it replaces config.json and takes the error
\* down, or it fails and shows one.
Saves(c) ==
  \/ disk' = c /\ saveError' = "no" /\ UNCHANGED budget
  \/ Spends("mishaps") /\ saveError' = "shown" /\ UNCHANGED disk

\* The last UpdateSettings or ReloadSettings wins (CoalescedCommands::replace).
SendsSettings(c) == settings' = <<c>>

\* SelectMonitor, unless the channel is full (CommandDispatch::Busy); nobody
\* looks at the answer.
SendsMonitor(display) ==
  ordered' = IF Len(ordered) < ChannelCapacity
               THEN Append(ordered, display) ELSE ordered

\* flush_settings with a save queued.
Flushes(c) ==
  /\ save' = "no"
  /\ SendsSettings(c)
  /\ Saves(c)

(***************************************************************************)
(* What the user does.                                                     *)
(***************************************************************************)

\* settings_content around webcam_settings, and setup_webcam_step: another
\* webcam, or none.
ChooseWebcam(webcam) ==
  /\ Spends("choices")
  /\ webcam # config.webcam
  /\ config' = [config EXCEPT !.webcam = webcam]
  /\ awaiting' = [awaiting EXCEPT !.webcam = webcam]
  /\ wanted' = webcam
  /\ save' = "queued"
  /\ UNCHANGED <<saveError, disk, profile, settings, ordered, deviceVars, shown>>

\* settings_content around any other setting of general_settings,
\* screen_settings, matching_settings, updates_settings or diagnostics_settings.
ChangeOther ==
  /\ Spends("choices")
  /\ config' = [config EXCEPT !.other = @ + 1]
  /\ save' = "queued"
  /\ UNCHANGED <<awaiting, saveError, disk, profile, wanted, settings, ordered>>
  /\ UNCHANGED <<deviceVars, shown>>

\* screen_settings: the display is asked for, the configuration left alone.
ChooseDisplay(display) ==
  /\ Spends("choices")
  /\ SendsMonitor(display)
  /\ UNCHANGED <<uiVars, settings, deviceVars, shown>>

\* setup_screen_step: the same, and its confirmation is awaited.
ChooseDisplayInGuide(display) ==
  /\ Spends("choices")
  /\ SendsMonitor(display)
  /\ awaiting' = [awaiting EXCEPT !.display = display]
  /\ UNCHANGED <<config, save, saveError, disk, profile, wanted, settings>>
  /\ UNCHANGED <<deviceVars, shown>>

\* save_admin_baseline; the file is module ConfigStore's.
SaveProfile ==
  /\ Spends("choices")
  /\ profile' = config
  /\ UNCHANGED <<config, awaiting, save, saveError, disk, wanted, settings>>
  /\ UNCHANGED <<ordered, deviceVars, shown>>

\* load_admin_config: the profile replaces config.json and the configuration,
\* a queued save is dropped.  Its display is asked for when it is attached,
\* another one when it is not (snapshot.monitors.get(1) or first).
LoadProfile ==
  /\ profile.other > 0
  /\ Spends("choices")
  /\ disk' = profile /\ config' = profile /\ wanted' = profile.webcam
  /\ save' = "no" /\ saveError' = "no"
  /\ SendsSettings(profile)
  /\ \E display \in Displays :
       /\ profile.display \in Displays => display = profile.display
       /\ awaiting' = [webcam |-> profile.webcam, display |-> display]
       /\ SendsMonitor(display)
  /\ UNCHANGED <<profile, deviceVars, shown>>

(***************************************************************************)
(* SwitcherApp::logic, in every frame of the interface: what the snapshot  *)
(* confirms is no longer awaited, what it shows unasked is taken over and  *)
(* saved.  Webcam and display are saved one after the other; the last save *)
(* holds both.                                                             *)
(***************************************************************************)

TakesWebcam ==
  /\ awaiting.webcam = NotAwaiting
  /\ shown.webcam # Nothing
  /\ shown.webcam # config.webcam

\* sync_selected_monitor_preference.
TakesDisplay ==
  /\ awaiting.display = NotAwaiting
  /\ shown.display # Nothing
  /\ shown.display # config.display

\* Mutant: the display of the snapshot is not taken over.
BugSynchronized ==
  [config EXCEPT !.webcam = IF TakesWebcam THEN shown.webcam ELSE @]

Synchronized ==
  [config EXCEPT !.webcam = IF TakesWebcam THEN shown.webcam ELSE @,
                 !.display = IF TakesDisplay THEN shown.display ELSE @]

Confirmed(part) == awaiting[part] = shown[part]

\* Mutant: what is taken over is not saved.
BugLogic ==
  /\ config' = Synchronized
  /\ awaiting' = [part \in {"webcam", "display"} |->
                    IF Confirmed(part) THEN NotAwaiting ELSE awaiting[part]]
  /\ UNCHANGED <<save, saveError, disk, profile, wanted, settings, ordered>>
  /\ UNCHANGED <<deviceVars, shown, budget>>

Logic ==
  /\ config' = Synchronized
  /\ awaiting' = [part \in {"webcam", "display"} |->
                    IF Confirmed(part) THEN NotAwaiting ELSE awaiting[part]]
  /\ IF config' # config THEN Saves(config')
     ELSE UNCHANGED <<disk, saveError, budget>>
  /\ UNCHANGED <<save, profile, wanted, settings, ordered, deviceVars, shown>>

\* Mutant: the save does not tell the runtime.
BugFlush ==
  /\ save = "queued"
  /\ save' = "no"
  /\ Saves(config)
  /\ UNCHANGED <<config, awaiting, profile, wanted, ordered, settings>>
  /\ UNCHANGED <<deviceVars, shown>>

\* The debounce has run out, or Settings or the setup guide is closed or opened
\* (close_settings, start_setup_guide, finish_setup_guide).
Flush ==
  /\ save = "queued"
  /\ Flushes(config)
  /\ UNCHANGED <<config, awaiting, profile, wanted, ordered, deviceVars, shown>>

(***************************************************************************)
(* The runtime's loop: it passes commands on to the device worker, ordered *)
(* ones before settings, and publishes what the device worker published.   *)
(***************************************************************************)

TakeOrdered ==
  /\ ordered # <<>>
  /\ waiting' = [waiting EXCEPT !.display = <<Head(ordered)>>]
  /\ ordered' = Tail(ordered)
  /\ UNCHANGED <<uiVars, settings, device, latest, attached, shown, budget>>

TakeSettings ==
  /\ ordered = <<>> /\ settings # <<>>
  /\ waiting' = [waiting EXCEPT !.settings = settings]
  /\ settings' = <<>>
  /\ UNCHANGED <<uiVars, ordered, device, latest, attached, shown, budget>>

\* RuntimeEngine::step and Platform::refresh_inputs: the snapshot's webcam and
\* display are the device worker's.
Publish ==
  /\ shown # latest
  /\ shown' = latest
  /\ UNCHANGED <<uiVars, settings, ordered, deviceVars, budget>>

(***************************************************************************)
(* The device worker.                                                      *)
(***************************************************************************)

\* PendingDeviceCommands::take: settings first, then the display.  A webcam is
\* taken down and the new one opened; a failure to open it is reported, but the
\* selection stands.  A display that is not found is refused.
Execute ==
  /\ waiting.settings # <<>> \/ waiting.display # <<>>
  /\ waiting' = [settings |-> <<>>, display |-> <<>>]
  /\ device' =
       [webcam |-> IF waiting.settings = <<>> THEN device.webcam
                   ELSE waiting.settings[1].webcam,
        display |-> IF waiting.display # <<>> /\ waiting.display[1] \in attached
                      THEN waiting.display[1] ELSE device.display]
  /\ UNCHANGED <<uiVars, settings, ordered, latest, attached, shown, budget>>

\* publish_device_snapshot.
Report ==
  /\ latest # device
  /\ latest' = device
  /\ UNCHANGED <<uiVars, settings, ordered, waiting, device, attached, shown, budget>>

\* A confirmed monitor scan selects a display (module MonitorScan).
Track(display) ==
  /\ Spends("mishaps")
  /\ display \in attached
  /\ display # device.display
  /\ device' = [device EXCEPT !.display = display]
  /\ UNCHANGED <<uiVars, settings, ordered, waiting, latest, attached, shown>>

Unplug(display) ==
  /\ Spends("mishaps")
  /\ display \in attached
  /\ attached' = attached \ {display}
  /\ UNCHANGED <<uiVars, settings, ordered, waiting, device, latest, shown>>

(***************************************************************************)
(* The specification.                                                      *)
(***************************************************************************)

Configs == [webcam : Webcams \cup {Nothing}, display : Displays \cup {Nothing},
            other : 1 .. Choices + 1]
Device == [webcam : Webcams \cup {Nothing}, display : Displays \cup {Nothing}]

TypeOK ==
  /\ config \in Configs /\ disk \in Configs
  /\ profile \in Configs \cup {[webcam |-> Nothing, display |-> Nothing, other |-> 0]}
  /\ awaiting \in [webcam : Webcams \cup {Nothing, NotAwaiting},
                   display : Displays \cup {NotAwaiting}]
  /\ save \in {"no", "queued"} /\ saveError \in {"no", "shown"}
  /\ device \in Device /\ latest \in Device /\ shown \in Device
  /\ attached \subseteq Displays
  /\ Len(ordered) <= ChannelCapacity
  /\ wanted \in Webcams \cup {Nothing}

\* choose_video_device and choose_initial_monitor: the saved webcam opens, or
\* the only physical one is taken, or none; a display is found, or there is none.
Init ==
  /\ config \in Configs /\ config.other = 1 /\ disk = config
  /\ profile = [webcam |-> Nothing, display |-> Nothing, other |-> 0]
  /\ awaiting = [webcam |-> NotAwaiting, display |-> NotAwaiting]
  /\ save = "no" /\ saveError = "no"
  /\ settings = <<>> /\ ordered = <<>>
  /\ waiting = [settings |-> <<>>, display |-> <<>>]
  /\ attached = Displays
  /\ \E display \in Displays :
       /\ config.display \in Displays => display = config.display
       /\ device = [webcam |-> config.webcam, display |-> display]
  /\ latest = device /\ shown = device
  /\ wanted = config.webcam
  /\ budget = [choices |-> Choices, mishaps |-> Mishaps]

Next ==
  \/ \E webcam \in Webcams \cup {Nothing} : ChooseWebcam(webcam)
  \/ ChangeOther \/ SaveProfile \/ LoadProfile
  \/ \E display \in Displays :
       \/ ChooseDisplay(display) \/ ChooseDisplayInGuide(display)
       \/ Track(display) \/ Unplug(display)
  \/ Logic \/ Flush
  \/ TakeOrdered \/ TakeSettings \/ Publish \/ Execute \/ Report

Spec == Init /\ [][Next]_vars

\* Every thread goes on: the interface draws frames, the runtime's loop and the
\* device worker have a deadline each cycle.
Fairness ==
  /\ WF_vars(Logic) /\ WF_vars(Flush)
  /\ WF_vars(TakeOrdered) /\ WF_vars(TakeSettings) /\ WF_vars(Publish)
  /\ WF_vars(Execute) /\ WF_vars(Report)

FairSpec == Spec /\ Fairness

(***************************************************************************)
(* Properties.                                                             *)
(***************************************************************************)

\* A change that no save is queued for is in config.json, or the interface shows
\* that it could not be saved (flush_settings, sync_selected_monitor_preference).
SavedOrTold == save = "no" => disk = config \/ saveError = "shown"

\* When the user is done, the webcam that is open is the one the configuration
\* names, whatever was chosen, loaded and taken over on the way
\* (SwitcherApp::logic, awaiting_video_device_id).
WebcamsAgree ==
  <>[](device.webcam # Nothing => config.webcam = device.webcam)

\* The same for the display, unless a display is awaited that never shows: one
\* that was refused, or replaced before a snapshot showed it (SwitcherApp::logic,
\* awaiting_monitor_label).
DisplaysAgree ==
  <>[](awaiting.display = NotAwaiting => config.display = device.display)

\* The webcam in the configuration is the user's last choice.  This is what the
\* architecture says ("does not ... silently choose a replacement"); it does not
\* hold: a choice taken back before its effect shows is taken for confirmed.
LastChoiceHolds == config.webcam = wanted
=============================================================================
