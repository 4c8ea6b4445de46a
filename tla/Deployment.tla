------------------------------ MODULE Deployment ------------------------------
(***************************************************************************)
(* The machine-wide part of an installation (deployment.rs): the camera    *)
(* source's DLL in the program directory and its COM registration          *)
(* (com_server.rs).  The virtual camera and the entry that starts the      *)
(* application with Windows are read by nothing here; the steps of a       *)
(* clean-up that remove them are, with their failures.                     *)
(*                                                                         *)
(* Every version of the application carries its own DLL, whose file name   *)
(* is a hash of its content, so a version stands for its DLL and its file. *)
(* A process without elevation starts one with it and waits for its end;   *)
(* the steps below are those of the elevated one.  A DLL that a camera     *)
(* client has loaded cannot be removed, only scheduled for removal at the  *)
(* next start of Windows.                                                  *)
(*                                                                         *)
(* Nothing keeps two elevated processes apart, and a version may come back *)
(* whose file still waits for its removal.  Either may leave a DLL         *)
(* registered that is not there, until somebody installs or cleans up      *)
(* alone: doubt is the history of that.  Troubles bounds the calls that    *)
(* fail and the elevated processes that die.                               *)
(***************************************************************************)
EXTENDS Naturals, FiniteSets

CONSTANTS Version, Process, None,
          Troubles  \* bound

NoneAssumption == None \notin Version
DeploymentBounds == Troubles \in Nat

VARIABLES
  dll,         \* the file of a version: "none", "whole" or "other" content
  staged,      \* versions with a staging file
  doomed,      \* files that go at the next start of Windows
  loaded,      \* DLLs that a camera client has loaded
  registered,  \* the version in InprocServer32
  threading,   \* its ThreadingModel is written: "yes" or "no"
  pc,          \* what a process of the application does next
  version,     \* the version it belongs to
  existed,     \* source_exists of install
  prior,       \* previous_source of install
  outcome,     \* of its elevated process: "none", "ok" or "failed"
  doubt,       \* history: "yes" once a process was elevated beside another one or
               \* for a version that waits for removal, "mending" in the next that
               \* is alone, "none" when that has done its work
  troubles

files == <<dll, staged, doomed, loaded>>
registry == <<registered, threading>>
process == <<pc, version, existed, prior, outcome, doubt>>
vars == <<files, registry, process, troubles>>

Installing == {"install", "rename", "register", "threading", "register prior", "drop new", "clean"}
Cleaning == {"startup off", "remove camera", "unregister", "delete key", "remove files"}
Elevated == Installing \cup Cleaning

TypeOK ==
  /\ dll \in [Version -> {"none", "whole", "other"}]
  /\ staged \subseteq Version /\ doomed \subseteq Version /\ loaded \subseteq Version
  /\ registered \in Version \cup {None}
  /\ threading \in {"yes", "no"}
  /\ pc \in [Process -> {"idle", "check", "check again", "started", "refused", "cleaned"} \cup Elevated]
  /\ version \in [Process -> Version]
  /\ existed \in [Process -> {"yes", "no"}]
  /\ prior \in [Process -> Version \cup {None}]
  /\ outcome \in [Process -> {"none", "ok", "failed"}]
  /\ doubt \in {"none", "mending", "yes"}
  /\ troubles \in 0..Troubles

Init ==
  /\ dll \in [Version -> {"none", "other"}]
  /\ staged = {} /\ doomed = {} /\ loaded = {}
  /\ registered = None /\ threading = "no"
  /\ pc = [p \in Process |-> "idle"]
  /\ version \in [Process -> Version]
  /\ existed = [p \in Process |-> "no"]
  /\ prior = [p \in Process |-> None]
  /\ outcome = [p \in Process |-> "none"]
  /\ doubt = "none"
  /\ troubles = Troubles

Goes(p, to) == pc' = [pc EXCEPT ![p] = to]
Trouble == troubles > 0 /\ troubles' = troubles - 1
\* The elevated process ends, and its variables with it; p reads its exit code.
Ends(p, how) ==
  /\ existed' = [existed EXCEPT ![p] = "no"] /\ prior' = [prior EXCEPT ![p] = None]
  /\ IF pc[p] \in Installing
     THEN Goes(p, "check again") /\ outcome' = [outcome EXCEPT ![p] = how]
     ELSE /\ Goes(p, IF how = "ok" THEN "cleaned" ELSE "refused")
          /\ outcome' = [outcome EXCEPT ![p] = "none"]

\* run_elevated starts a process for p, whoever else is elevated.
Elevate(p, to) ==
  /\ Goes(p, to)
  /\ LET crosses == \E q \in Process : pc[q] \in Elevated
         returns == to = "install" /\ version[p] \in doomed
     IN  doubt' = IF crosses \/ returns THEN "yes"
                  ELSE IF doubt = "yes" THEN "mending" ELSE doubt

----------------------------------------------------------------------------
(* ensure_deployment, in the process of the application. *)

Launch(p) ==
  /\ pc[p] \in {"idle", "started", "refused", "cleaned"}
  /\ Goes(p, "check")
  /\ UNCHANGED <<files, registry, version, doubt, existed, prior, outcome, troubles>>

SourceRegistrationMatches(v) == registered = v /\ threading = "yes"
Deployed(v) == dll[v] = "whole" /\ SourceRegistrationMatches(v)

EnsureDeployment(p) ==
  /\ pc[p] = "check"
  /\ \/ Deployed(version[p]) /\ Goes(p, "started") /\ UNCHANGED <<doubt, troubles>>
     \/ ~Deployed(version[p]) /\ Elevate(p, "install") /\ UNCHANGED troubles
     \/ ~Deployed(version[p]) /\ Trouble /\ Goes(p, "refused") /\ UNCHANGED doubt
  /\ UNCHANGED <<files, registry, version, existed, prior, outcome>>

(* run_elevated reports the exit code; then the state is looked at again. *)
VerifyDeployment(p) ==
  /\ pc[p] = "check again"
  /\ Goes(p, IF outcome[p] = "ok" /\ Deployed(version[p]) THEN "started" ELSE "refused")
  /\ outcome' = [outcome EXCEPT ![p] = "none"]
  /\ UNCHANGED <<files, registry, version, doubt, existed, prior, troubles>>

----------------------------------------------------------------------------
(* install, elevated. *)

Stage(p) ==
  LET v == version[p]
  IN /\ pc[p] = "install"
     /\ \/ /\ dll[v] = "other"
           /\ staged' = staged \ {v} /\ Ends(p, "failed") /\ UNCHANGED troubles
        \/ /\ dll[v] = "whole"
           /\ staged' = staged \ {v}
           /\ existed' = [existed EXCEPT ![p] = "yes"]
           /\ prior' = [prior EXCEPT ![p] = registered]
           /\ Goes(p, "register") /\ UNCHANGED <<outcome, troubles>>
        \/ /\ dll[v] = "none"
           /\ staged' = staged \cup {v}
           /\ Goes(p, "rename") /\ UNCHANGED <<existed, prior, outcome, troubles>>
        \/ /\ dll[v] = "none" /\ Trouble
           /\ staged' \in {staged \ {v}, staged \cup {v}}
           /\ Ends(p, "failed")
  /\ UNCHANGED <<dll, doomed, loaded, registry, version, doubt>>

(* fs::rename(staging, source); registered_managed_source. *)
Rename(p) ==
  LET v == version[p]
  IN /\ pc[p] = "rename"
     /\ staged' = staged \ {v}
     /\ \/ /\ v \in staged /\ dll' = [dll EXCEPT ![v] = "whole"] /\ UNCHANGED troubles
        \/ /\ IF v \in staged THEN Trouble ELSE UNCHANGED troubles
           /\ UNCHANGED dll
     /\ IF dll'[v] = "whole"
        THEN /\ prior' = [prior EXCEPT ![p] = registered]
             /\ Goes(p, "register") /\ UNCHANGED <<existed, outcome>>
        ELSE Ends(p, "failed")
  /\ UNCHANGED <<doomed, loaded, registry, version, doubt>>

(* DllRegisterServer: the path, then the threading model; on an error the  *)
(* whole key is removed.  A DLL that is not there cannot be loaded.        *)
InvokeRegistration(p) ==
  LET v == version[p]
  IN /\ pc[p] = "register"
     /\ \/ /\ dll[v] = "whole"
           /\ registered' = v
           /\ Goes(p, "threading") /\ UNCHANGED <<threading, troubles>>
        \/ /\ IF dll[v] = "whole" THEN Trouble ELSE UNCHANGED troubles
           /\ \/ UNCHANGED <<registered, threading>>
              \/ dll[v] = "whole" /\ registered' = None /\ threading' = "no"
           /\ Goes(p, "register prior")
  /\ UNCHANGED <<files, version, doubt, existed, prior, outcome>>

WriteThreadingModel(p) ==
  /\ pc[p] = "threading"
  /\ \/ threading' = "yes" /\ Goes(p, "clean") /\ UNCHANGED <<registered, troubles>>
     \/ /\ Trouble /\ registered' = None /\ threading' = "no"
        /\ Goes(p, "register prior")
  /\ UNCHANGED <<files, version, doubt, existed, prior, outcome>>

(* Mutant: a failed registration is left as it is. *)
BugRegisterPrior(p) ==
  /\ pc[p] = "register prior"
  /\ Goes(p, "drop new")
  /\ UNCHANGED <<files, registry, version, doubt, existed, prior, outcome, troubles>>

(* The previous source is registered again, whether that works or not. *)
RegisterPrior(p) ==
  LET old == prior[p]
      may == old # None /\ old # version[p]
  IN /\ pc[p] = "register prior"
     /\ \/ /\ may /\ dll[old] # "none"
           /\ registered' = old /\ threading' = "yes" /\ UNCHANGED troubles
        \/ /\ IF may /\ dll[old] # "none" THEN Trouble ELSE UNCHANGED troubles
           /\ \/ UNCHANGED <<registered, threading>>
              \/ /\ may /\ dll[old] # "none"
                 /\ registered' = None /\ threading' = "no"
     /\ Goes(p, "drop new")
  /\ UNCHANGED <<files, version, doubt, existed, prior, outcome>>

(* Loaded by camera clients or by a process that is about to register it. *)
InUse == loaded \cup {version[q] : q \in {r \in Process : pc[r] = "threading"}}

(* A new file that could not be registered is removed again. *)
DropNew(p) ==
  LET v == version[p]
  IN /\ pc[p] = "drop new"
     /\ dll' = [dll EXCEPT ![v] = IF existed[p] = "no" /\ v \notin InUse THEN "none" ELSE @]
     /\ Ends(p, "failed")
  /\ UNCHANGED <<staged, doomed, loaded, registry, version, doubt, troubles>>

(* cleanup_managed_sources: files with the name of a source, all or all    *)
(* but one; those in use are scheduled.  The work is done.                 *)
RemoveSources(keep) ==
  /\ dll' = [v \in Version |-> IF v \in keep \cup InUse THEN dll[v] ELSE "none"]
  /\ staged' = {}
  /\ doomed' = doomed \cup {v \in InUse \ keep : dll[v] # "none"}
  /\ doubt' = IF doubt = "mending" THEN "none" ELSE doubt

(* Mutant: the clean-up keeps the previous source, not the new one. *)
BugCleanManagedSources(p) ==
  /\ pc[p] = "clean"
  /\ RemoveSources({prior[p]})
  /\ Ends(p, "ok")
  /\ UNCHANGED <<loaded, registry, version, troubles>>

CleanManagedSources(p) ==
  /\ pc[p] = "clean"
  /\ RemoveSources({version[p]})
  /\ Ends(p, "ok")
  /\ UNCHANGED <<loaded, registry, version, troubles>>

----------------------------------------------------------------------------
(* cleanup, elevated; also the first part of --uninstall. *)

Cleanup(p) ==
  /\ pc[p] \in {"idle", "started", "refused", "cleaned"}
  /\ Elevate(p, "startup off")
  /\ UNCHANGED <<files, registry, version, existed, prior, outcome, troubles>>

ConfigureStartupOff(p) ==
  /\ pc[p] = "startup off"
  /\ \/ Goes(p, "remove camera") /\ UNCHANGED <<existed, prior, outcome, troubles>>
     \/ Trouble /\ Ends(p, "failed")
  /\ UNCHANGED <<files, registry, version, doubt>>

(* The result of this step is returned at the end. *)
RemoveVirtualCamera(p) ==
  /\ pc[p] = "remove camera"
  /\ \/ outcome' = [outcome EXCEPT ![p] = "ok"] /\ UNCHANGED troubles
     \/ Trouble /\ outcome' = [outcome EXCEPT ![p] = "failed"]
  /\ Goes(p, "unregister")
  /\ UNCHANGED <<files, registry, version, doubt, existed, prior>>

Unregister(p) ==
  /\ pc[p] = "unregister"
  /\ \/ registered' = None /\ threading' = "no" /\ UNCHANGED troubles
     \/ /\ IF registered # None /\ dll[registered] = "none" THEN UNCHANGED troubles ELSE Trouble
        /\ UNCHANGED <<registered, threading>>
  /\ Goes(p, "delete key")
  /\ UNCHANGED <<files, version, doubt, existed, prior, outcome>>

DeleteRegistryTree(p) ==
  /\ pc[p] = "delete key"
  /\ \/ /\ registered' = None /\ threading' = "no"
        /\ Goes(p, "remove files") /\ UNCHANGED <<existed, prior, outcome, troubles>>
     \/ Trouble /\ Ends(p, "failed") /\ UNCHANGED <<registered, threading>>
  /\ UNCHANGED <<files, version, doubt>>

RemoveFiles(p) ==
  /\ pc[p] = "remove files"
  /\ RemoveSources({})
  /\ Ends(p, outcome[p])
  /\ UNCHANGED <<loaded, registry, version, troubles>>

----------------------------------------------------------------------------
(* Windows: camera clients, a process that dies, a restart. *)

LoadSource ==
  /\ registered # None /\ threading = "yes" /\ dll[registered] = "whole"
  /\ loaded' = loaded \cup {registered}
  /\ UNCHANGED <<dll, staged, doomed, registry, process, troubles>>

UnloadSource ==
  /\ \E v \in loaded : loaded' = loaded \ {v}
  /\ UNCHANGED <<dll, staged, doomed, registry, process, troubles>>

Die(p) ==
  /\ pc[p] \in Elevated
  /\ Trouble
  /\ Ends(p, "failed")
  /\ UNCHANGED <<files, registry, version, doubt>>

Reboot ==
  /\ dll' = [v \in Version |-> IF v \in doomed THEN "none" ELSE dll[v]]
  /\ doomed' = {} /\ loaded' = {}
  /\ pc' = [p \in Process |-> "idle"]
  /\ existed' = [p \in Process |-> "no"] /\ prior' = [p \in Process |-> None]
  /\ outcome' = [p \in Process |-> "none"]
  /\ UNCHANGED <<staged, registry, version, doubt, troubles>>

Install(p) ==
  Stage(p) \/ Rename(p) \/ InvokeRegistration(p) \/ WriteThreadingModel(p)
    \/ RegisterPrior(p) \/ DropNew(p) \/ CleanManagedSources(p)

Clean(p) ==
  Cleanup(p) \/ ConfigureStartupOff(p) \/ RemoveVirtualCamera(p)
    \/ Unregister(p) \/ DeleteRegistryTree(p) \/ RemoveFiles(p)

Next ==
  \/ \E p \in Process :
       Launch(p) \/ EnsureDeployment(p) \/ VerifyDeployment(p)
         \/ Install(p) \/ Clean(p) \/ Die(p)
  \/ LoadSource \/ UnloadSource \/ Reboot

Spec == Init /\ [][Next]_vars

----------------------------------------------------------------------------
(* A registration names a DLL that is there, whatever step fails and       *)
(* wherever a process dies: clients of the camera can always load it       *)
(* (install registers before it removes, cleanup removes the registration  *)
(* before the files).  Excepted is the time from an elevated process that  *)
(* overlaps another, or brings back a file that is to be removed, to the   *)
(* next that does its work alone.                                          *)
RegisteredIsOnDisk == doubt = "none" /\ registered # None => dll[registered] = "whole"

(* A version whose registration fails leaves the one before it registered, *)
(* unless a second call fails as well, with the same exception (install).  *)
FailedRegistrationRestores ==
  [][ \A p \in Process :
        doubt = "none" /\ pc[p] = "drop new" /\ prior[p] \notin {None, version[p]}
          /\ dll[prior[p]] = "whole" /\ Troubles - troubles < 2
        => registered = prior[p] /\ threading = "yes" ]_vars

================================================================================
