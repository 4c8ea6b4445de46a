----------------------------- MODULE MCInterface ------------------------------
(***************************************************************************)
(* One run for components between the interface, the runtime and the       *)
(* device worker that share no state: the window with its dialogs          *)
(* (AppShell), the notices about devices (Notices), what the runtime hands *)
(* to the device worker (DeviceHandoff) and the activity log               *)
(* (ActivityLog).  A behaviour picks one of them; the others stay as they  *)
(* began.                                                                  *)
(***************************************************************************)
EXTENDS Naturals, Sequences

CONSTANTS Animations, QueueCapacity, Events,
          OwnSources, Messages, NoMessage, AlertLimit, EntryLimit, ToastLimit,
          Changes, OwnChanges, Clicks,
          Settings, Asked, Stalls,
          Limit, Entries, Others, Clears

VARIABLES
  part,        \* the component that moves
  \* AppShell
  window, leaving, setting, view, guide, completed, dialog, capture, late,
  queue, shellCandidate, shellReference, events,
  \* Notices
  sources, reported, warnings, active, alerts, lastAlert, noticesShown, entries,
  toasts, lastEntry, activeKeys, lastSeen, enabled, told, standing, excuse, budget,
  \* DeviceHandoff
  pending, worker, commands, device, snapshot, frame, runtime, sent, owed,
  webcam, warned, stop, pipe, asked, stalls,
  \* ActivityLog
  activityDevice, posted, engine, shown, lastDevice, lastEngine, log, failed,
  others, clears

Shell     == INSTANCE AppShell WITH
                 candidate <- shellCandidate, reference <- shellReference
Notes     == INSTANCE Notices WITH
                 DeviceSources <- <<"Webcam">>,
                 device <- sources, shown <- noticesShown
Handoff   == INSTANCE DeviceHandoff
Activity  == INSTANCE ActivityLog WITH device <- activityDevice

shellVars == <<window, leaving, setting, view, guide, completed, dialog,
               capture, late, queue, shellCandidate, shellReference, events>>
noticeVars == <<sources, reported, warnings, active, alerts, lastAlert,
                noticesShown, entries, toasts, lastEntry, activeKeys, lastSeen,
                enabled, told, standing, excuse, budget>>
handoffVars == <<pending, worker, commands, device, snapshot, frame, runtime,
                 sent, owed, webcam, warned, stop, pipe, asked, stalls>>
activityVars == <<activityDevice, posted, engine, shown, lastDevice,
                  lastEngine, log, failed, others, clears>>

ASSUME InterfaceAssumption ==
  /\ Shell!ShellAssumption
  /\ Notes!NoticesAssumption
  /\ Handoff!HandoffAssumption
  /\ Activity!LogAssumption

Init ==
  /\ part \in {"shell", "notices", "handoff", "activity"}
  /\ Shell!Init /\ (part # "shell" =>
                      /\ window.visible /\ setting.tray /\ setting.confirm
                      /\ completed /\ shellReference = 0)
  /\ Notes!Init
  /\ Handoff!Init
  /\ Activity!Init

Next ==
  \/ /\ part = "shell" /\ Shell!Next
     /\ UNCHANGED <<part, noticeVars, handoffVars, activityVars>>
  \/ /\ part = "notices" /\ Notes!Next
     /\ UNCHANGED <<part, shellVars, handoffVars, activityVars>>
  \/ /\ part = "handoff" /\ Handoff!Next
     /\ UNCHANGED <<part, shellVars, noticeVars, activityVars>>
  \/ /\ part = "activity" /\ Activity!Next
     /\ UNCHANGED <<part, shellVars, noticeVars, handoffVars>>

HandoffWorker ==
  \/ Handoff!Take \/ Handoff!Runs \/ Handoff!Cycle \/ Handoff!Listens
  \/ Handoff!Ends

\* The fairness of each component, for the behaviours that run it.
Fairness ==
  /\ WF_shellVars(part = "shell" /\ Shell!Closes)
  /\ WF_shellVars(part = "shell" /\ Shell!Fades)
  /\ WF_shellVars(part = "shell" /\ Shell!Update)
  /\ WF_shellVars(part = "shell" /\ Shell!TimePasses)
  /\ WF_shellVars(part = "shell" /\ Shell!CaptureConfirmed)
  /\ WF_shellVars(part = "shell" /\ Shell!Runtime)
  /\ WF_noticeVars(part = "notices" /\ Notes!Report)
  /\ WF_noticeVars(part = "notices" /\ Notes!Cycle)
  /\ WF_noticeVars(part = "notices" /\ Notes!Ingest)
  /\ WF_handoffVars(part = "handoff" /\ HandoffWorker)
  /\ WF_handoffVars(part = "handoff" /\ Handoff!OutputCycle)
  /\ WF_handoffVars(part = "handoff" /\ Handoff!Joins)
  /\ WF_handoffVars(part = "handoff" /\ Handoff!Detaches)
  /\ WF_handoffVars(part = "handoff" /\ Handoff!Wakes)
  /\ WF_handoffVars(part = "handoff" /\ Handoff!TimePasses)
  /\ WF_activityVars(part = "activity" /\ Activity!DevicePublishes)
  /\ WF_activityVars(part = "activity" /\ Activity!Refresh)
  /\ WF_activityVars(part = "activity" /\ Activity!Publishes)
  /\ WF_activityVars(part = "activity" /\ Activity!Logs)

Spec ==
  /\ Init
  /\ [][Next]_<<part, shellVars, noticeVars, handoffVars, activityVars>>
  /\ Fairness

\* An exit that was asked for happens, and no dialog waits for good (AppShell).
ShellAnswers ==
  /\ [](part = "shell" => Shell!TypeOK)
  /\ Shell!ExitHappens
  /\ Shell!WaitingEnds

\* Every toast has its entry, and a warning that lasts is told each time it comes up
\* (Notices).
WarningsAreTold ==
  /\ [](part = "notices" => Notes!TypeOK /\ Notes!ToastsHaveEntries)
  /\ Notes!WarningIsTold

\* What the runtime hands to the worker happens, a worker that hangs is told and
\* its picture not used, and the exit takes the picture off the air
\* (DeviceHandoff).
HandoffWorks ==
  /\ [](part = "handoff" => Handoff!TypeOK)
  /\ Handoff!CommandsHappen
  /\ Handoff!DelayIsShown
  /\ Handoff!ExitIsClean

\* Entries are logged once and in order, a gap is marked, and the last entry gets
\* to the log (ActivityLog).
LogIsComplete ==
  /\ [](part = "activity" => Activity!TypeOK /\ Activity!LossIsLogged)
  /\ Activity!LastEntryIsLogged
===============================================================================
