----------------------------- MODULE MCApplication ----------------------------
(***************************************************************************)
(* One run for components that share no state: the installation            *)
(* (PortableInstall), the updates (UpdateFlow) and the way of a setting    *)
(* through the processes' threads (SettingsSync).  A behaviour picks one   *)
(* of them; the others stay as they began.                                 *)
(***************************************************************************)
EXTENDS PortableInstall

CONSTANTS Version, Executables, Torn, NoFile, Changes, Restarts,
          Webcams, Displays, Nothing, NotAwaiting, ChannelCapacity, Choices,
          Mishaps

VARIABLES
  part,        \* the component that moves
  \* UpdateFlow
  github, channel, notify, status, updateAsked, told, requests, results, step,
  job, expected, final, partial, choices, changes, updateTroubles, restarts,
  \* SettingsSync
  config, awaiting, save, saveError, saved, profile, settings, ordered, waiting,
  device, latest, shown, attached, wanted, budget

Updates == INSTANCE UpdateFlow WITH
               Content <- Executables, Choices <- 1, Troubles <- Mishaps,
               asked <- updateAsked, troubles <- updateTroubles
Sync    == INSTANCE SettingsSync WITH disk <- saved

updateVars == <<github, channel, notify, status, updateAsked, told, requests,
                results, step, job, expected, final, partial, choices, changes,
                updateTroubles, restarts>>
syncVars == <<config, awaiting, save, saveError, saved, profile, settings,
              ordered, waiting, device, latest, shown, attached, wanted, budget>>

ASSUME ApplicationAssumption ==
       /\ Updates!VersionAssumption /\ Updates!ContentAssumption
       /\ Updates!UpdateBounds
       /\ Sync!SettingsAssumption

MCInit ==
  /\ part \in {"install", "updates", "settings"}
  /\ Init /\ (part # "install" => managed = "none")
  /\ Updates!Init /\ (part # "updates" =>
                        /\ channel = "stable"
                        /\ \A v \in Version :
                             github[v].exe = CHOOSE c \in Executables : TRUE)
  /\ Sync!Init /\ (part # "settings" =>
                     /\ config.webcam = Nothing
                     /\ config.display = CHOOSE d \in Displays : TRUE)

MCNext ==
  \/ /\ part = "install" /\ Next
     /\ UNCHANGED <<part, updateVars, syncVars>>
  \/ /\ part = "updates" /\ Updates!Next
     /\ UNCHANGED <<part, vars, syncVars>>
  \/ /\ part = "settings" /\ Sync!Next
     /\ UNCHANGED <<part, vars, updateVars>>

\* The fairness of each component, for the behaviours that run it.
MCFairness ==
  /\ \A i \in Installer :
       WF_vars(part = "install" /\ pc[i] \in Locked /\ (Install(i) \/ Uninstall(i)))
  /\ WF_updateVars(part = "updates" /\ Updates!WorkerStep)
  /\ WF_updateVars(part = "updates" /\ Updates!PollUpdateWorker)
  /\ WF_syncVars(part = "settings" /\ Sync!Logic)
  /\ WF_syncVars(part = "settings" /\ Sync!Flush)
  /\ WF_syncVars(part = "settings" /\ Sync!TakeOrdered)
  /\ WF_syncVars(part = "settings" /\ Sync!TakeSettings)
  /\ WF_syncVars(part = "settings" /\ Sync!Publish)
  /\ WF_syncVars(part = "settings" /\ Sync!Execute)
  /\ WF_syncVars(part = "settings" /\ Sync!Report)

MCSpec ==
  MCInit /\ [][MCNext]_<<part, vars, updateVars, syncVars>> /\ MCFairness

\* One installation at a time, a program to start whatever fails, and the one there
\* was when a replacement fails, each with its exceptions (PortableInstall).
InstallIsSafe ==
  /\ [](part = "install" => TypeOK /\ OneAtATime /\ ProgramSurvives)
  /\ FailureLeavesProgram

\* Only a verified executable is launched (UpdateFlow), and a change is saved or its
\* failure told (SettingsSync).
UpdatesAndSettingsAreSafe ==
  /\ [](part = "updates" => Updates!TypeOK /\ Updates!OnlyVerifiedIsLaunched)
  /\ [](part = "settings" => Sync!TypeOK /\ Sync!SavedOrTold)

\* An installation ends (PortableInstall), nothing is busy for good (UpdateFlow), and
\* in the end the configuration names the devices in use (SettingsSync).
ApplicationSettles ==
  /\ InstallationEnds
  /\ Updates!BusyEnds
  /\ Sync!WebcamsAgree
  /\ Sync!DisplaysAgree
===============================================================================
