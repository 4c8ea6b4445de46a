---------------------------- MODULE PortableInstall ----------------------------
(***************************************************************************)
(* Installing, replacing and uninstalling the executable of the user       *)
(* (portable_install.rs), with the instance of the application that must   *)
(* leave first and the one that must become ready (single_instance.rs,     *)
(* instance_control.rs and the start in application.rs).                   *)
(*                                                                         *)
(* Three files lie in the managed directory: the executable, the staged    *)
(* candidate and the previous executable.  The content of a file is named  *)
(* by the candidate it was copied from; a candidate runs once, so the name *)
(* tells the file, wherever it is renamed to.  A running process maps the  *)
(* file it was started from: Windows lets that file be renamed, and        *)
(* neither be removed nor replaced.                                        *)
(*                                                                         *)
(* Every installation holds a named mutex, the application another one.    *)
(* SingleInstance::exists creates and closes the second, so an application *)
(* that starts at that moment takes the probe for an instance.             *)
(*                                                                         *)
(* A call that fails costs one of Troubles, and so does the death of an    *)
(* installer; timeouts are free, since nothing bounds how long a process   *)
(* takes.                                                                  *)
(***************************************************************************)
EXTENDS Naturals, FiniteSets

CONSTANTS Installer,    \* the processes of downloaded executables, one candidate each
          App,          \* the processes of the application
          NoOne,
          Base,         \* the executable that is installed at first
          Troubles      \* bound: calls that fail and installers that die

ASSUME NamesAssumption ==
  /\ NoOne \notin App \cup Installer /\ Base \notin Installer
  /\ {"none", "partial", "elsewhere"} \cap (Installer \cup {Base}) = {}
ASSUME TroublesAssumption == Troubles \in Nat

VARIABLES
  managed,    \* StageSwap.exe
  staging,    \* StageSwap.exe.installing
  previous,   \* StageSwap.exe.previous
  shortcuts,  \* the shortcuts exist: "yes" or "no"
  pc,         \* what an installer does next
  replacing,  \* the argument of install_or_replace: "yes" or "no"
  child,      \* the process install_or_replace launched
  stage,      \* the life of an application process
  image,      \* the file it maps, or "elsewhere"
  owned,      \* history: a version was ready and not uninstalled since
  asked,      \* processes with ShutdownForReplacement in their queue
  misled,     \* history: installers that found other files than they looked for
  troubles

disk == <<managed, staging, previous, owned>>
installer == <<pc, replacing, child>>
processes == <<stage, image, asked>>
vars == <<disk, shortcuts, installer, processes, misled, troubles>>

Whole == Installer \cup {Base}
Content == Whole \cup {"none", "partial"}
Locked == {"stage", "copy", "stop", "await exit", "drop previous", "preserve", "activate",
           "shortcuts", "launch", "await ready", "judge", "clean",
          "roll back", "bring back", "relaunch",
          "roll back late", "bring back late", "relaunch late",
           "stop to uninstall", "await exit to uninstall", "elevate"}
Ended == {"done", "failed", "died", "uninstalled"}
(* The states of a process that holds the application's mutex, and of one  *)
(* that answers on the control pipe.                                       *)
Holding == {"deploying", "starting", "ready", "leaving"}
Serving == {"starting", "ready"}
Alive == Holding \cup {"launched", "left"}

TypeOK ==
  /\ managed \in Content /\ staging \in Content /\ previous \in Content
  /\ shortcuts \in {"yes", "no"}
  /\ pc \in [Installer -> {"new", "lock"} \cup Locked \cup Ended]
  /\ replacing \in [Installer -> {"yes", "no"}]
  /\ child \in [Installer -> App \cup {NoOne}]
  /\ stage \in [App -> Alive \cup {"unused", "gone"}]
  /\ image \in [App -> Whole \cup {"elsewhere"}]
  /\ asked \subseteq App
  /\ owned \in {"yes", "no"}
  /\ misled \subseteq Installer
  /\ troubles \in 0..Troubles

Init ==
  /\ managed \in {"none", Base}
  /\ staging = "none" /\ previous = "none"
  /\ owned = IF managed = "none" THEN "no" ELSE "yes"
  /\ shortcuts = owned
  /\ pc = [i \in Installer |-> "new"]
  /\ replacing = [i \in Installer |-> "no"]
  /\ child = [i \in Installer |-> NoOne]
  /\ stage = [p \in App |-> "unused"]
  /\ image = [p \in App |-> "elsewhere"]
  /\ asked = {} /\ misled = {}
  /\ troubles = Troubles

----------------------------------------------------------------------------
(* The application's mutex, the control pipe, the files.                   *)

Running(p) == p \in App /\ stage[p] \in Alive
Exists == \E p \in App : stage[p] \in Holding
Server(p) == stage[p] \in Serving
Mapped(file) == \E p \in App : Running(p) /\ image[p] = file

(* Installers that may hold the application's mutex for a moment; one that *)
(* finds its own copy installed looks for an instance to show.             *)
Probing == \E i \in Installer :
  pc[i] \in {"new", "stop", "await exit", "judge", "stop to uninstall", "await exit to uninstall"}

Goes(i, to) == pc' = [pc EXCEPT ![i] = to]
Fail(calls) == troubles >= calls /\ troubles' = troubles - calls
Trouble == Fail(1)

(* Removing a file, or renaming another one onto it, fails. *)
FailsOn(file) == IF Mapped(file) THEN UNCHANGED troubles ELSE Trouble

(* Windows starts a process of an executable file. *)
Launched(p, file) ==
  /\ stage[p] = "unused"
  /\ stage' = [stage EXCEPT ![p] = "launched"]
  /\ image' = [image EXCEPT ![p] = file]
  /\ UNCHANGED asked

----------------------------------------------------------------------------
(* The application process. *)

(* A shortcut, the user or Windows starts the managed executable. *)
Open(p) ==
  /\ managed \in Whole
  /\ Launched(p, managed)
  /\ UNCHANGED <<disk, shortcuts, installer, misled, troubles>>

(* "Run once", offered while nothing is installed. *)
RunOnce(p) ==
  /\ managed = "none"
  /\ Launched(p, "elsewhere")
  /\ UNCHANGED <<disk, shortcuts, installer, misled, troubles>>

Moves(p, from, to) ==
  /\ stage[p] \in from
  /\ stage' = [stage EXCEPT ![p] = to]
  /\ image' = IF to = "gone" THEN [image EXCEPT ![p] = "elsewhere"] ELSE image
  /\ UNCHANGED <<disk, shortcuts, installer, misled, troubles>>

(* SingleInstance::acquire, and the process that finds another instance    *)
(* shows it and ends.                                                      *)
Acquire(p) == ~Exists /\ Moves(p, {"launched"}, "deploying") /\ UNCHANGED asked
FindsAnother(p) == (Exists \/ Probing) /\ Moves(p, {"launched"}, "gone") /\ UNCHANGED asked

(* deployment_startup, then InstanceControl::start: from here on the pipe  *)
(* answers.  Without the administrator's approval the process ends.        *)
StartControl(p) == Moves(p, {"deploying"}, "starting") /\ UNCHANGED asked
DeploymentFails(p) == Moves(p, {"deploying"}, "left") /\ UNCHANGED asked

(* The first pass of logic marks the instance ready. *)
MarkReady(p) == Moves(p, {"starting"}, "ready") /\ UNCHANGED asked

(* The next pass finds the request to leave; the user may leave as well.   *)
(* The runtime and the control pipe go first, then the mutex, then the     *)
(* process.                                                                *)
Leave(p) == p \in asked /\ Moves(p, {"ready"}, "leaving") /\ asked' = asked \ {p}
UserLeaves(p) == p \notin asked /\ Moves(p, {"ready"}, "leaving") /\ UNCHANGED asked
Release(p) == Moves(p, {"leaving"}, "left") /\ UNCHANGED asked
Exit(p) == Moves(p, {"left"}, "gone") /\ UNCHANGED asked

----------------------------------------------------------------------------
(* bootstrap of a candidate: what it does depends on the managed file,     *)
(* which it looks at before the dialog.                                    *)

Bootstrap(i) ==
  /\ pc[i] = "new"
  /\ replacing' = [replacing EXCEPT ![i] = IF managed = "none" THEN "no" ELSE "yes"]
  /\ Goes(i, "lock")
  /\ UNCHANGED <<disk, shortcuts, child, processes, misled, troubles>>

(* The managed executable is there or not as install_or_replace was told,  *)
(* and a first installation finds no previous one either, which a          *)
(* replacement that was cut short leaves behind.                           *)
LookHolds(i) ==
  /\ replacing[i] = "yes" <=> managed # "none"
  /\ managed # "none" \/ previous = "none"

(* Mutant: the lock is created and not looked at. *)
BugLockToInstall(i) ==
  /\ pc[i] = "lock"
  /\ Goes(i, "stage")
  /\ misled' = IF LookHolds(i) THEN misled ELSE misled \cup {i}
  /\ UNCHANGED <<disk, shortcuts, replacing, child, processes, troubles>>

(* InstallLock::acquire, at the beginning of install_or_replace.  Nobody   *)
(* looks at the files again.                                               *)
LockToInstall(i) ==
  /\ pc[i] = "lock"
  /\ \/ /\ \E j \in Installer : pc[j] \in Locked
        /\ Goes(i, "failed") /\ UNCHANGED misled
     \/ /\ \A j \in Installer : pc[j] \notin Locked
        /\ Goes(i, "stage")
        /\ misled' = IF LookHolds(i) THEN misled ELSE misled \cup {i}
  /\ UNCHANGED <<disk, shortcuts, replacing, child, processes, troubles>>

(* validate_release and the directory, then the candidate is copied next   *)
(* to the managed file and compared; a copy that differs is removed.       *)
Stage(i) ==
  /\ pc[i] = "stage"
  /\ \/ staging' = "partial" /\ Goes(i, "copy") /\ UNCHANGED troubles
     \/ Trouble /\ Goes(i, "failed") /\ UNCHANGED staging
  /\ UNCHANGED <<managed, previous, owned, shortcuts, replacing, child, processes, misled>>

CopyVerified(i) ==
  /\ pc[i] = "copy"
  /\ \/ staging' = i /\ Goes(i, "stop") /\ UNCHANGED troubles
     \/ staging' \in {"none", "partial"} /\ Trouble /\ Goes(i, "failed")
  /\ UNCHANGED <<managed, previous, owned, shortcuts, replacing, child, processes, misled>>

(* stop_running_instance: a request on the control pipe, then at most ten  *)
(* seconds for the mutex to go.                                            *)
StopInstance(i, at, wait, next) ==
  /\ pc[i] = at
  /\ \/ ~Exists /\ Goes(i, next) /\ UNCHANGED asked
     \/ \E p \in App : Server(p) /\ asked' = asked \cup {p} /\ Goes(i, wait)
     \/ Exists /\ (\A p \in App : ~Server(p)) /\ Goes(i, "failed") /\ UNCHANGED asked
  /\ UNCHANGED <<disk, shortcuts, replacing, child, stage, image, misled, troubles>>

(* Mutant: the wait has no deadline. *)
BugAwaitExit(i, wait, next) ==
  /\ pc[i] = wait /\ ~Exists /\ Goes(i, next)
  /\ UNCHANGED <<disk, shortcuts, replacing, child, processes, misled, troubles>>

AwaitExit(i, wait, next) ==
  /\ pc[i] = wait
  /\ \/ ~Exists /\ Goes(i, next)
     \/ Exists /\ Goes(i, "failed")
  /\ UNCHANGED <<disk, shortcuts, replacing, child, processes, misled, troubles>>

DropPrevious(i) ==
  /\ pc[i] = "drop previous"
  /\ \/ ~Mapped(previous) /\ previous' = "none" /\ Goes(i, "preserve") /\ UNCHANGED troubles
     \/ FailsOn(previous) /\ Goes(i, "failed") /\ UNCHANGED previous
  /\ UNCHANGED <<managed, staging, owned, shortcuts, replacing, child, processes, misled>>

(* Mutant: the managed file is removed, not renamed. *)
BugPreserve(i) ==
  /\ pc[i] = "preserve" /\ ~Mapped(managed)
  /\ managed' = "none" /\ Goes(i, "activate")
  /\ UNCHANGED <<staging, previous, owned, shortcuts, replacing, child, processes, misled, troubles>>

(* fs::rename(managed, previous), when the managed file is to be replaced. *)
Preserve(i) ==
  /\ pc[i] = "preserve"
  /\ IF replacing[i] = "yes" /\ managed # "none"
     THEN \/ /\ previous' = managed /\ managed' = "none"
             /\ Goes(i, "activate") /\ UNCHANGED troubles
          \/ Trouble /\ Goes(i, "failed") /\ UNCHANGED <<managed, previous>>
     ELSE Goes(i, "activate") /\ UNCHANGED <<managed, previous, troubles>>
  /\ UNCHANGED <<staging, owned, shortcuts, replacing, child, processes, misled>>

(* fs::rename(staging, managed), and the previous file back when it fails, *)
(* whether that works or not.                                              *)
Activate(i) ==
  /\ pc[i] = "activate"
  /\ \/ /\ ~Mapped(managed)
        /\ managed' = staging /\ staging' = "none"
        /\ Goes(i, "shortcuts") /\ UNCHANGED <<previous, troubles>>
     \/ /\ FailsOn(managed)
        /\ IF previous # "none" /\ ~Mapped(managed)
           THEN managed' = previous /\ previous' = "none"
           ELSE UNCHANGED <<managed, previous>>
        /\ Goes(i, "failed") /\ UNCHANGED staging
     \/ /\ previous # "none" /\ ~Mapped(managed) /\ Fail(2)
        /\ Goes(i, "failed") /\ UNCHANGED <<managed, staging, previous>>
  /\ UNCHANGED <<owned, shortcuts, replacing, child, processes, misled>>

CreateShortcuts(i) ==
  /\ pc[i] = "shortcuts"
  /\ \/ shortcuts' = "yes" /\ Goes(i, "launch") /\ UNCHANGED troubles
     \/ Trouble /\ Goes(i, "roll back") /\ UNCHANGED shortcuts
  /\ UNCHANGED <<disk, replacing, child, processes, misled>>

(* When all processes of the instance are used up, the child is one that   *)
(* ended at once.                                                          *)
LaunchChild(i) ==
  /\ pc[i] = "launch"
  /\ \/ \E p \in App :
          Launched(p, managed) /\ child' = [child EXCEPT ![i] = p] /\ Goes(i, "await ready")
        /\ UNCHANGED troubles
     \/ /\ \A p \in App : stage[p] # "unused"
        /\ Goes(i, "await ready") /\ UNCHANGED <<child, processes, troubles>>
     \/ Trouble /\ Goes(i, "roll back") /\ UNCHANGED <<child, processes>>
  /\ UNCHANGED <<disk, shortcuts, replacing, misled>>

(* wait_until_ready: the process first, then the status on the control     *)
(* pipe, whoever answers there; after 120 seconds the instance is asked to *)
(* leave, and gets another ten.  The handle of the child goes with it.     *)
Forgets(i) == child' = [child EXCEPT ![i] = NoOne]

ChildExited(i) ==
  /\ pc[i] = "await ready" /\ ~Running(child[i])
  /\ Goes(i, "judge") /\ Forgets(i)
  /\ UNCHANGED <<disk, shortcuts, replacing, processes, misled, troubles>>

StatusReady(i) ==
  /\ pc[i] = "await ready"
  /\ \E p \in App : stage[p] = "ready"
  /\ Goes(i, "clean") /\ Forgets(i)
  /\ owned' = "yes" /\ misled' = {}
  /\ UNCHANGED <<managed, staging, previous, shortcuts, replacing, processes, troubles>>

ReadyTimeout(i) ==
  /\ pc[i] = "await ready" /\ Running(child[i])
  /\ asked' = asked \cup {p \in App : Server(p)}
  /\ Goes(i, "judge") /\ Forgets(i)
  /\ UNCHANGED <<disk, shortcuts, replacing, stage, image, misled, troubles>>

(* An instance that still runs is left alone, with the files as they are.  *)
Judge(i) ==
  /\ pc[i] = "judge"
  /\ Goes(i, IF Exists THEN "failed" ELSE "roll back late")
  /\ UNCHANGED <<disk, shortcuts, replacing, child, processes, misled, troubles>>

(* rollback_files; its errors are ignored. *)
RollBack(i, from, to) ==
  /\ pc[i] = from
  /\ \/ ~Mapped(managed) /\ managed' = "none" /\ UNCHANGED troubles
     \/ FailsOn(managed) /\ UNCHANGED managed
  /\ Goes(i, to)
  /\ UNCHANGED <<staging, previous, owned, shortcuts, replacing, child, processes, misled>>

(* Mutant: the rollback only removes the new executable. *)
BugBringBack(i, from, to) ==
  /\ pc[i] = from /\ Goes(i, to)
  /\ UNCHANGED <<disk, shortcuts, replacing, child, processes, misled, troubles>>

PreviousBack ==
  \/ /\ previous # "none" /\ ~Mapped(managed)
     /\ managed' = previous /\ previous' = "none" /\ UNCHANGED troubles
  \/ previous # "none" /\ FailsOn(managed) /\ UNCHANGED <<managed, previous>>
  \/ previous = "none" /\ UNCHANGED <<managed, previous, troubles>>

BringBack(i, from, to) ==
  /\ pc[i] = from
  /\ PreviousBack
  /\ Goes(i, to)
  /\ UNCHANGED <<staging, owned, shortcuts, replacing, child, processes, misled>>

(* The old version is started again (whether that works is not looked at), *)
(* and without one the shortcuts go.                                       *)
StartsOld ==
  \/ \E p \in App : Launched(p, managed)
  \/ UNCHANGED processes

Relaunch(i) ==
  /\ pc[i] = "relaunch"
  /\ IF replacing[i] = "yes" /\ managed # "none"
     THEN StartsOld /\ UNCHANGED shortcuts
     ELSE shortcuts' = "no" /\ UNCHANGED processes
  /\ Goes(i, "failed")
  /\ UNCHANGED <<disk, replacing, child, misled, troubles>>

(* A previous file that is still there is brought back once more. *)
RelaunchLate(i) ==
  /\ pc[i] = "relaunch late"
  /\ PreviousBack
  /\ IF managed' # "none"
     THEN \/ \E p \in App : Launched(p, managed')
          \/ UNCHANGED processes
     ELSE UNCHANGED processes
  /\ shortcuts' = IF replacing[i] = "no" THEN "no" ELSE shortcuts
  /\ Goes(i, "failed")
  /\ UNCHANGED <<staging, owned, replacing, child, misled>>

(* The installation succeeded, whether the previous file can be removed or *)
(* not; the caller is told of a failure then.                              *)
Clean(i) ==
  /\ pc[i] = "clean"
  /\ \/ ~Mapped(previous) /\ previous' = "none" /\ Goes(i, "done") /\ UNCHANGED troubles
     \/ FailsOn(previous) /\ Goes(i, "failed") /\ UNCHANGED previous
  /\ UNCHANGED <<managed, staging, owned, shortcuts, replacing, child, processes, misled>>

----------------------------------------------------------------------------
(* uninstall: the same lock and the same request to leave, then the        *)
(* elevated process removes the files, and the shortcuts go.  The managed  *)
(* executable is not the one that runs here.                               *)

LockToUninstall(i) ==
  /\ pc[i] = "new" /\ managed # "none"
  /\ Goes(i, IF \E j \in Installer : pc[j] \in Locked THEN "failed" ELSE "stop to uninstall")
  /\ UNCHANGED <<disk, shortcuts, replacing, child, processes, misled, troubles>>

(* remove_managed_files stops at the first file that cannot be removed. *)
RemoveManagedFiles(i) ==
  /\ pc[i] = "elevate"
  /\ \/ /\ ~Mapped(staging) /\ ~Mapped(previous) /\ ~Mapped(managed)
        /\ staging' = "none" /\ previous' = "none" /\ managed' = "none"
        /\ owned' = "no"
        /\ shortcuts' = "no" /\ Goes(i, "uninstalled") /\ UNCHANGED troubles
     \/ /\ FailsOn(staging) /\ Goes(i, "failed") /\ UNCHANGED <<disk, shortcuts>>
     \/ /\ ~Mapped(staging) /\ FailsOn(previous) /\ staging' = "none"
        /\ Goes(i, "failed") /\ UNCHANGED <<managed, previous, owned, shortcuts>>
     \/ /\ ~Mapped(staging) /\ ~Mapped(previous) /\ FailsOn(managed)
        /\ staging' = "none" /\ previous' = "none"
        /\ owned' = "no"
        /\ Goes(i, "failed") /\ UNCHANGED <<managed, shortcuts>>
  /\ UNCHANGED <<replacing, child, processes, misled>>

(* The installer's process dies; its lock goes with it.                    *)
Die(i) ==
  /\ pc[i] \in Locked
  /\ Trouble
  /\ Goes(i, "died")
  /\ UNCHANGED <<disk, shortcuts, replacing, child, processes, misled>>

----------------------------------------------------------------------------
Install(i) ==
  \/ Bootstrap(i) \/ LockToInstall(i) \/ Stage(i) \/ CopyVerified(i)
  \/ StopInstance(i, "stop", "await exit", "drop previous")
  \/ AwaitExit(i, "await exit", "drop previous")
  \/ DropPrevious(i) \/ Preserve(i) \/ Activate(i) \/ CreateShortcuts(i) \/ LaunchChild(i)
  \/ ChildExited(i) \/ StatusReady(i) \/ ReadyTimeout(i) \/ Judge(i)
  \/ RollBack(i, "roll back", "bring back") \/ BringBack(i, "bring back", "relaunch")
  \/ RollBack(i, "roll back late", "bring back late")
  \/ BringBack(i, "bring back late", "relaunch late")
  \/ Relaunch(i) \/ RelaunchLate(i) \/ Clean(i)

Uninstall(i) ==
  \/ LockToUninstall(i)
  \/ StopInstance(i, "stop to uninstall", "await exit to uninstall", "elevate")
  \/ AwaitExit(i, "await exit to uninstall", "elevate")
  \/ RemoveManagedFiles(i)

Starts(p) == Acquire(p) \/ FindsAnother(p) \/ StartControl(p) \/ DeploymentFails(p) \/ MarkReady(p)
Leaves(p) == Leave(p) \/ Release(p) \/ Exit(p)

Next ==
  \/ \E i \in Installer : Install(i) \/ Uninstall(i) \/ Die(i)
  \/ \E p \in App : Open(p) \/ RunOnce(p) \/ Starts(p) \/ UserLeaves(p) \/ Leaves(p)

Spec == Init /\ [][Next]_vars

(* An installer under way goes on; whether an application process ever     *)
(* becomes ready or leaves is nobody's promise.                            *)
FairSpec ==
  Spec /\ \A i \in Installer : WF_vars(pc[i] \in Locked /\ (Install(i) \/ Uninstall(i)))

----------------------------------------------------------------------------
(* The lock and the mutex: one installation at a time, one instance of the *)
(* application; and the managed executable is always a complete one.       *)
OneAtATime ==
  /\ \A i, j \in Installer : pc[i] \in Locked /\ pc[j] \in Locked => i = j
  /\ \A p, q \in App : stage[p] \in Holding /\ stage[q] \in Holding => p = q
  /\ managed # "partial" /\ previous # "partial"

(* A user who had StageSwap keeps it: whatever fails and wherever an       *)
(* installer dies, the managed or the previous executable is there as long *)
(* as nothing was uninstalled (install_or_replace).  The exception is an   *)
(* installer that was misled: the dialog and the lock lie between its look *)
(* at the managed file and its use, and one that finds no managed file     *)
(* drops the previous one that a replacement cut short has left; what such *)
(* an installer removes may be all there is, until a version is ready.     *)
ProgramSurvives ==
  owned = "yes" /\ misled = {} => managed \in Whole \/ previous \in Whole

(* ARCHITECTURE.md: a replacement "retains the previous executable until   *)
(* the new instance reports ready" (wait_until_ready).                     *)
PreviousKeptUntilReady ==
  [][ \A i \in Installer :
        (pc[i] = "await ready" /\ pc'[i] = "clean" /\ replacing[i] = "yes")
        => \E p \in App : stage[p] = "ready" /\ image[p] = managed ]_vars

(* A replacement that failed leaves an executable that can be started,     *)
(* unless its installer was misled, or a second call failed, which may be  *)
(* that of its own rollback (install_or_replace).                          *)
FailureLeavesProgram ==
  [][ \A i \in Installer :
        /\ pc[i] \in Locked /\ pc'[i] = "failed" /\ replacing[i] = "yes"
        /\ i \notin misled /\ Troubles - troubles' < 2
        => managed' \in Whole ]_vars

(* Every installation comes to an end and frees its lock, also when the    *)
(* instance it asked to leave and the one it started do nothing at all     *)
(* (stop_running_instance, wait_until_ready).                              *)
InstallationEnds == \A i \in Installer : pc[i] \in Locked ~> pc[i] \in Ended

================================================================================
