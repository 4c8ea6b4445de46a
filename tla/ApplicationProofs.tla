-------------------------- MODULE ApplicationProofs --------------------------
(***************************************************************************)
(* Proofs about the components that MCApplication composes: installing and *)
(* uninstalling, the updates, and the way of a setting.  Every component   *)
(* has an inductive invariant of its own; a behaviour of MCApplication is  *)
(* a behaviour of each of them, most of them resting.                      *)
(***************************************************************************)
EXTENDS MCApplication, Integers, Sequences, TLAPS

----------------------------------------------------------------------------
(***************************************************************************)
(* Installing and uninstalling (PortableInstall).                          *)
(***************************************************************************)

\* What an installer has copied is its own candidate, in the staging file and then
\* in the managed file.
Copied == \A i \in Installer :
  /\ pc[i] \in {"stop", "await exit", "drop previous", "preserve", "activate"}
       => staging = i
  /\ pc[i] \in {"shortcuts", "launch"} => managed = i

\* The inductive invariant of the installation, whatever fails.
InstallInv == TypeOK /\ OneAtATime /\ Copied

\* Names of files are not names of troubles.
LEMMA InstallNames ==
  /\ NoOne \notin App /\ Troubles \in Nat
  /\ "none" \notin Whole /\ "partial" \notin Whole /\ "elsewhere" \notin Whole
  /\ \A i \in Installer : i \in Whole
  /\ Base \in Whole /\ Content = Whole \cup {"none", "partial"}
BY NamesAssumption, TroublesAssumption DEF Whole, Content

\* What an application process does to itself.
LEMMA ProcessKeeps ==
  ASSUME InstallInv, NEW p \in App,
         Open(p) \/ RunOnce(p) \/ Starts(p) \/ UserLeaves(p) \/ Leaves(p)
  PROVE  InstallInv' /\ UNCHANGED <<disk, shortcuts, installer, misled, troubles>>
<1> USE InstallNames
<1>1. UNCHANGED <<disk, shortcuts, installer, misled, troubles>>
  BY DEF Open, RunOnce, Starts, UserLeaves, Leaves, Acquire, FindsAnother,
     StartControl, DeploymentFails, MarkReady, Leave, Release, Exit, Moves
<1>2. stage' \in [App -> Alive \cup {"unused", "gone"}]
        /\ image' \in [App -> Whole \cup {"elsewhere"}]
      /\ asked' \subseteq App
  BY DEF Open, RunOnce, Starts, UserLeaves, Leaves, Acquire, FindsAnother,
     StartControl, DeploymentFails, MarkReady, Leave, Release, Exit, Moves, Launched,
     InstallInv, TypeOK, Alive, Holding
<1>3. \A q, r \in App : stage'[q] \in Holding /\ stage'[r] \in Holding => q = r
  <2>1. CASE Acquire(p)
    BY <2>1 DEF Acquire, Exists, Moves, InstallInv, TypeOK, Holding
  <2>2. CASE ~Acquire(p)
    <3>1. \A q \in App : stage'[q] \in Holding => stage[q] \in Holding
      BY <2>2 DEF Open, RunOnce, Starts, UserLeaves, Leaves, FindsAnother,
         StartControl, DeploymentFails, MarkReady, Leave, Release, Exit, Moves,
         Launched, InstallInv, TypeOK, Alive, Holding
    <3> QED BY <3>1 DEF InstallInv, OneAtATime
  <2> QED BY <2>1, <2>2
<1> QED
  BY <1>1, <1>2, <1>3 DEF InstallInv, TypeOK, OneAtATime, Copied, disk, installer

\* An installer moves on by itself: nobody else's place changes.
LEMMA InstallerMoves ==
  ASSUME InstallInv, NEW i \in Installer, Install(i) \/ Uninstall(i) \/ Die(i)
  PROVE  /\ \E to \in {"lock"} \cup Locked \cup Ended : pc' = [pc EXCEPT ![i] = to]
         /\ replacing' \in [Installer -> {"yes", "no"}]
         /\ \A j \in Installer \ {i} : replacing'[j] = replacing[j]
BY DEF Install, Uninstall, Bootstrap, LockToInstall, Stage, CopyVerified,
   StopInstance, AwaitExit, DropPrevious, Preserve, Activate, CreateShortcuts,
   LaunchChild, ChildExited, StatusReady, ReadyTimeout, Judge, RollBack, BringBack,
   Relaunch, RelaunchLate, Clean, LockToUninstall, RemoveManagedFiles, Die, Goes,
   installer, InstallInv, TypeOK, Locked, Ended

\* It holds the lock as long as it is under way, and takes it when it is free.
LEMMA LockIsExclusive ==
  ASSUME InstallInv, NEW i \in Installer, Install(i) \/ Uninstall(i) \/ Die(i)
  PROVE  /\ pc[i] \in {"new", "lock"} \/ (pc[i] \in Locked /\ UNCHANGED replacing)
         /\ pc[i] \in {"new", "lock"} /\ pc'[i] \in Locked =>
              \A j \in Installer : pc[j] \notin Locked
         /\ \A j, k \in Installer : pc'[j] \in Locked /\ pc'[k] \in Locked => j = k
<1>1. pc[i] \in {"new", "lock"} \/ (pc[i] \in Locked /\ UNCHANGED replacing)
  BY DEF Install, Uninstall, Bootstrap, LockToInstall, Stage, CopyVerified,
     StopInstance, AwaitExit, DropPrevious, Preserve, Activate, CreateShortcuts,
     LaunchChild, ChildExited, StatusReady, ReadyTimeout, Judge, RollBack, BringBack,
     Relaunch, RelaunchLate, Clean, LockToUninstall, RemoveManagedFiles, Die, Locked,
     installer
<1>2. ASSUME pc[i] \in {"new", "lock"}, pc'[i] \in Locked
      PROVE  \A j \in Installer : pc[j] \notin Locked
  <2>1. Bootstrap(i) \/ LockToInstall(i) \/ LockToUninstall(i)
    BY <1>2 DEF Install, Uninstall, Bootstrap, LockToInstall, Stage, CopyVerified,
       StopInstance, AwaitExit, DropPrevious, Preserve, Activate, CreateShortcuts,
       LaunchChild, ChildExited, StatusReady, ReadyTimeout, Judge, RollBack,
       BringBack, Relaunch, RelaunchLate, Clean, LockToUninstall, RemoveManagedFiles,
       Die, Locked
  <2>2. CASE Bootstrap(i)
    BY <1>2, <2>2 DEF Bootstrap, Goes, InstallInv, TypeOK, Locked
  <2>3. CASE LockToInstall(i)
    BY <1>2, <2>3 DEF LockToInstall, Goes, InstallInv, TypeOK, Locked
  <2>4. CASE LockToUninstall(i)
    BY <1>2, <2>4 DEF LockToUninstall, Goes, InstallInv, TypeOK, Locked
  <2> QED BY <2>1, <2>2, <2>3, <2>4
<1>3. \A j, k \in Installer : pc'[j] \in Locked /\ pc'[k] \in Locked => j = k
  BY <1>1, <1>2, InstallerMoves DEF InstallInv, OneAtATime, TypeOK
<1> QED BY <1>1, <1>2, <1>3

\* Where the files come from: each is left alone, taken from another one, or the
\* installer's candidate.
LEMMA FilesTyped ==
  ASSUME InstallInv, NEW i \in Installer, Install(i) \/ Uninstall(i) \/ Die(i)
  PROVE  /\ managed' \in Whole \cup {"none"} /\ previous' \in Whole \cup {"none"}
         /\ staging' \in Content /\ owned' \in {"yes", "no"}
         /\ shortcuts' \in {"yes", "no"}
<1> USE InstallNames DEF InstallInv, TypeOK, OneAtATime
<1>1. CASE pc[i] = "activate"
  BY <1>1 DEF Copied, Install, Uninstall, Bootstrap, LockToInstall, Stage,
     CopyVerified, StopInstance, AwaitExit, DropPrevious, Preserve, Activate,
     CreateShortcuts, LaunchChild, ChildExited, StatusReady, ReadyTimeout, Judge,
     RollBack, BringBack, Relaunch, RelaunchLate, Clean, LockToUninstall,
     RemoveManagedFiles, Die, disk
<1>2. CASE pc[i] # "activate"
  <2>1. managed' \in {managed, previous, "none"}
          /\ previous' \in {previous, managed, "none"}
        /\ staging' \in {staging, "none", "partial", i}
    BY <1>2 DEF Install, Uninstall, Bootstrap, LockToInstall, Stage, CopyVerified,
       StopInstance, AwaitExit, DropPrevious, Preserve, Activate, CreateShortcuts,
       LaunchChild, ChildExited, StatusReady, ReadyTimeout, Judge, RollBack,
       BringBack, Relaunch, RelaunchLate, Clean, LockToUninstall, RemoveManagedFiles,
       Die, PreviousBack, disk
  <2>2. owned' \in {owned, "yes", "no"} /\ shortcuts' \in {shortcuts, "yes", "no"}
    BY <1>2 DEF Install, Uninstall, Bootstrap, LockToInstall, Stage, CopyVerified,
       StopInstance, AwaitExit, DropPrevious, Preserve, Activate, CreateShortcuts,
       LaunchChild, ChildExited, StatusReady, ReadyTimeout, Judge, RollBack,
       BringBack, Relaunch, RelaunchLate, Clean, LockToUninstall, RemoveManagedFiles,
       Die, disk
  <2> QED BY <2>1, <2>2
<1> QED BY <1>1, <1>2

\* An installer starts processes of complete files only.
LEMMA ProcessesTyped ==
  ASSUME InstallInv, NEW i \in Installer, Install(i) \/ Uninstall(i) \/ Die(i)
  PROVE  /\ stage' \in [App -> Alive \cup {"unused", "gone"}]
         /\ image' \in [App -> Whole \cup {"elsewhere"}] /\ asked' \subseteq App
         /\ child' \in [Installer -> App \cup {NoOne}] /\ troubles' \in 0 .. Troubles
         /\ misled' \subseteq Installer
         /\ \A p \in App : stage'[p] \in Holding => stage[p] \in Holding
<1> USE InstallNames DEF InstallInv, TypeOK, OneAtATime
<1>1. \/ UNCHANGED <<stage, image>>
      \/ \E p \in App : \E file \in Whole :
           stage' = [stage EXCEPT ![p] = "launched"] /\ image' = [image EXCEPT ![p] = file]
  <2>1. managed # "none" => managed \in Whole
    OBVIOUS
  <2>2. managed' # "none" => managed' \in Whole
    BY FilesTyped
  <2>3. pc[i] = "launch" => managed \in Whole
    BY DEF Copied
  <2>4. CASE LaunchChild(i)
    BY <2>3, <2>4 DEF LaunchChild, Launched, processes
  <2>5. CASE Relaunch(i)
    BY <2>1, <2>5 DEF Relaunch, StartsOld, Launched, processes
  <2>6. CASE RelaunchLate(i)
    BY <2>2, <2>6 DEF RelaunchLate, Launched, processes
  <2> QED BY <2>4, <2>5, <2>6 DEF Install, Uninstall, Bootstrap, LockToInstall, Stage,
     CopyVerified, StopInstance, AwaitExit, DropPrevious, Preserve, Activate,
     CreateShortcuts, LaunchChild, ChildExited, StatusReady, ReadyTimeout, Judge,
     RollBack, BringBack, Relaunch, RelaunchLate, Clean, LockToUninstall,
     RemoveManagedFiles, Die, processes
<1>2. /\ stage' \in [App -> Alive \cup {"unused", "gone"}]
      /\ image' \in [App -> Whole \cup {"elsewhere"}]
      /\ \A p \in App : stage'[p] \in Holding => stage[p] \in Holding
  BY <1>1 DEF Alive, Holding
<1>3. asked' \subseteq App
  BY DEF Install, Uninstall, Bootstrap, LockToInstall, Stage, CopyVerified,
     StopInstance, AwaitExit, DropPrevious, Preserve, Activate, CreateShortcuts,
     LaunchChild, ChildExited, StatusReady, ReadyTimeout, Judge, RollBack, BringBack,
     Relaunch, RelaunchLate, Clean, LockToUninstall, RemoveManagedFiles, Die,
     StartsOld, Launched, processes
<1>4. child' \in [Installer -> App \cup {NoOne}]
  BY DEF Install, Uninstall, Bootstrap, LockToInstall, Stage, CopyVerified,
     StopInstance, AwaitExit, DropPrevious, Preserve, Activate, CreateShortcuts,
     LaunchChild, ChildExited, StatusReady, ReadyTimeout, Judge, RollBack, BringBack,
     Relaunch, RelaunchLate, Clean, LockToUninstall, RemoveManagedFiles, Die,
     installer, Forgets
<1>5. troubles' \in 0 .. Troubles
  <2>1. UNCHANGED troubles \/ Fail(1) \/ Fail(2)
    BY DEF Install, Uninstall, Bootstrap, LockToInstall, Stage, CopyVerified,
       StopInstance, AwaitExit, DropPrevious, Preserve, Activate, CreateShortcuts,
       LaunchChild, ChildExited, StatusReady, ReadyTimeout, Judge, RollBack,
       BringBack, Relaunch, RelaunchLate, Clean, LockToUninstall, RemoveManagedFiles,
       Die, FailsOn, PreviousBack, Trouble, processes
  <2> QED BY <2>1 DEF Fail
<1>6. misled' \subseteq Installer
  BY DEF Install, Uninstall, Bootstrap, LockToInstall, Stage, CopyVerified,
     StopInstance, AwaitExit, DropPrevious, Preserve, Activate, CreateShortcuts,
     LaunchChild, ChildExited, StatusReady, ReadyTimeout, Judge, RollBack, BringBack,
     Relaunch, RelaunchLate, Clean, LockToUninstall, RemoveManagedFiles, Die
<1> QED BY <1>2, <1>3, <1>4, <1>5, <1>6

\* The candidate stays where the installer has put it.
LEMMA CopyStays ==
  ASSUME InstallInv, NEW i \in Installer, Install(i) \/ Uninstall(i) \/ Die(i)
  PROVE  Copied'
<1> SUFFICES ASSUME NEW j \in Installer,
                    pc'[j] \in {"stop", "await exit", "drop previous", "preserve", "activate",
                               "shortcuts", "launch"}
             PROVE  /\ pc'[j] \in {"stop", "await exit", "drop previous", "preserve", "activate"}
                         => staging' = j
                    /\ pc'[j] \in {"shortcuts", "launch"} => managed' = j
  BY DEF Copied
<1>1. CASE j = i
  <2>1. CASE CopyVerified(i)
    BY <1>1, <2>1 DEF CopyVerified, Goes, InstallInv, TypeOK
  <2>2. CASE Activate(i)
    BY <1>1, <2>2 DEF Activate, Goes, InstallInv, TypeOK, Copied
  <2>3. CASE CreateShortcuts(i)
    BY <1>1, <2>3 DEF CreateShortcuts, Goes, InstallInv, TypeOK, Copied, disk
  <2>4. CASE ~CopyVerified(i) /\ ~Activate(i) /\ ~CreateShortcuts(i)
    <3>1. \/ StopInstance(i, "stop", "await exit", "drop previous")
          \/ AwaitExit(i, "await exit", "drop previous") \/ DropPrevious(i) \/ Preserve(i)
      <4> USE DEF InstallInv, TypeOK, Goes
      <4>1. ~(Bootstrap(i) \/ LockToInstall(i) \/ Stage(i) \/ LaunchChild(i) \/ ChildExited(i)
              \/ StatusReady(i) \/ ReadyTimeout(i) \/ Judge(i))
        BY <1>1 DEF Bootstrap, LockToInstall, Stage, LaunchChild, ChildExited,
           StatusReady, ReadyTimeout, Judge
      <4>2. /\ ~RollBack(i, "roll back", "bring back")
            /\ ~BringBack(i, "bring back", "relaunch")
            /\ ~RollBack(i, "roll back late", "bring back late")
            /\ ~BringBack(i, "bring back late", "relaunch late")
            /\ ~(Relaunch(i) \/ RelaunchLate(i) \/ Clean(i))
        BY <1>1 DEF RollBack, BringBack, Relaunch, RelaunchLate, Clean
      <4>3. ~(Uninstall(i) \/ Die(i))
        BY <1>1 DEF Uninstall, LockToUninstall, StopInstance, AwaitExit,
           RemoveManagedFiles, Die
      <4> QED BY <2>4, <4>1, <4>2, <4>3 DEF Install
    <3>2. /\ pc[j] \in {"stop", "await exit", "drop previous", "preserve"}
          /\ pc'[j] \notin {"shortcuts", "launch"} /\ staging' = staging
      BY <1>1, <3>1 DEF InstallInv, TypeOK, StopInstance, AwaitExit, DropPrevious,
         Preserve, Goes, disk
    <3> QED BY <1>1, <3>2 DEF InstallInv, Copied
  <2> QED BY <2>1, <2>2, <2>3, <2>4
<1>2. CASE j # i
  <2>1. pc'[j] = pc[j] /\ pc[j] \in Locked
    BY <1>2, InstallerMoves DEF InstallInv, TypeOK, Locked
  <2>2. pc[i] \notin Locked
    BY <1>2, <2>1 DEF InstallInv, OneAtATime
  <2>3. UNCHANGED <<managed, staging>>
    BY <2>2 DEF Install, Uninstall, Bootstrap, LockToInstall, Stage, CopyVerified,
       StopInstance, AwaitExit, DropPrevious, Preserve, Activate, CreateShortcuts,
       LaunchChild, ChildExited, StatusReady, ReadyTimeout, Judge, RollBack,
       BringBack, Relaunch, RelaunchLate, Clean, LockToUninstall, RemoveManagedFiles,
       Die, disk, Locked
  <2> QED BY <2>1, <2>3 DEF InstallInv, Copied
<1> QED BY <1>1, <1>2

\* So does what an installer does.
LEMMA InstallerKeeps ==
  ASSUME InstallInv, NEW i \in Installer, Install(i) \/ Uninstall(i) \/ Die(i)
  PROVE  InstallInv'
<1>1. pc' \in [Installer -> {"new", "lock"} \cup Locked \cup Ended]
  BY InstallerMoves DEF InstallInv, TypeOK
<1>2. TypeOK'
  BY <1>1, FilesTyped, ProcessesTyped, InstallerMoves, InstallNames DEF TypeOK
<1>3. OneAtATime'
  BY LockIsExclusive, FilesTyped, ProcessesTyped, InstallNames DEF OneAtATime, InstallInv
<1> QED BY <1>2, <1>3, CopyStays DEF InstallInv

\* It holds at the start.
LEMMA InstallInit == Init => InstallInv
BY InstallNames DEF Init, InstallInv, TypeOK, OneAtATime, Copied, Locked, Holding, Alive

\* No step breaks it.
LEMMA InstallNext == InstallInv /\ [Next]_vars => InstallInv'
<1> SUFFICES ASSUME InstallInv, [Next]_vars PROVE InstallInv'
  OBVIOUS
<1>1. CASE UNCHANGED vars
  BY <1>1 DEF InstallInv, TypeOK, OneAtATime, Copied, vars, disk, installer, processes
<1> QED BY <1>1, InstallerKeeps, ProcessKeeps DEF Next

\* One installation at a time, one instance of the application, and complete
\* executables only, whatever fails and however many processes there are.
THEOREM OneInstallation == Spec => [](TypeOK /\ OneAtATime)
<1>1. InstallInv => TypeOK /\ OneAtATime
  BY DEF InstallInv
<1> QED BY <1>1, InstallInit, InstallNext, PTL DEF Spec

----------------------------------------------------------------------------
\* The program, for any number of calls that fail and installers that die.

\* Nothing was moved yet; the old executable is out of the way; the new one is in
\* its place; the files are to be removed.
Early   == {"stage", "copy", "stop", "await exit", "drop previous", "preserve"}
Undone  == {"activate", "bring back", "bring back late"}
Active  == {"shortcuts", "launch", "await ready", "judge", "clean", "roll back", "roll back late"}
Removal == {"stop to uninstall", "await exit to uninstall", "elevate"}

\* The calls that have failed, and the installers that have died.
Failed == Troubles - troubles

\* What the place of an installer says of the files: a replacement that was not misled
\* keeps the previous executable until it is over, at most two failures apart from the
\* managed one; and unless someone was misled, an installation found no executable and
\* no user who had it.
Fits(i) ==
  /\ pc[i] \in {"new"} \cup Removal => replacing[i] = "no"
  /\ pc[i] = "preserve" => previous = "none"
  /\ pc[i] \in Active => managed = i
  /\ pc[i] \in {"roll back", "bring back"} => Failed >= 1
  /\ i \notin misled =>
       /\ pc[i] \in Early => (replacing[i] = "yes" <=> managed # "none")
       /\ pc[i] = "activate" => managed = "none"
       /\ pc[i] \in (Undone \cup Active) \ {"clean"} /\ replacing[i] = "yes" =>
            previous \in Whole
       /\ pc[i] = "relaunch" /\ replacing[i] = "yes" =>
            managed \in Whole \/ (previous \in Whole /\ Failed >= 2)
       /\ pc[i] = "relaunch late" /\ replacing[i] = "yes" =>
            managed \in Whole \/ (previous \in Whole /\ Failed >= 1)
  /\ misled = {} =>
       (pc[i] \in Locked \ (Removal \cup {"clean"}) /\ replacing[i] = "no" => owned = "no")

\* The inductive invariant of the program.
ProgramInv == ProgramSurvives /\ \A i \in Installer : Fits(i)

\* While one installer is under way, the others do nothing to the files.
LEMMA OthersFit ==
  ASSUME InstallInv, ProgramInv, NEW i \in Installer, Install(i) \/ Uninstall(i) \/ Die(i),
         NEW j \in Installer, j # i
  PROVE  Fits(j)'
<1>1. pc'[j] = pc[j] /\ replacing'[j] = replacing[j]
  BY InstallerMoves DEF InstallInv, TypeOK
<1>2. CASE pc[j] \in Locked
  <2>1. pc[i] \in {"new", "lock"}
    BY <1>2, LockIsExclusive DEF InstallInv, OneAtATime
  <2>2. UNCHANGED <<disk, troubles>>
    BY <2>1 DEF Install, Uninstall, Bootstrap, LockToInstall, Stage, CopyVerified,
       StopInstance, AwaitExit, DropPrevious, Preserve, Activate, CreateShortcuts,
       LaunchChild, ChildExited, StatusReady, ReadyTimeout, Judge, RollBack,
       BringBack, Relaunch, RelaunchLate, Clean, LockToUninstall, RemoveManagedFiles,
       Die, Locked, disk
  <2>3. misled' = misled
    BY <1>2, <2>1 DEF Install, Uninstall, Bootstrap, LockToInstall, Stage, CopyVerified,
       StopInstance, AwaitExit, DropPrevious, Preserve, Activate, CreateShortcuts,
       LaunchChild, ChildExited, StatusReady, ReadyTimeout, Judge, RollBack,
       BringBack, Relaunch, RelaunchLate, Clean, LockToUninstall, RemoveManagedFiles,
       Die, Locked
  <2> QED BY <1>1, <2>2, <2>3 DEF ProgramInv, Fits, Failed, disk
<1>3. CASE pc[j] \notin Locked
  BY <1>1, <1>3 DEF ProgramInv, Fits, Locked, Early, Undone, Active, Removal
<1> QED BY <1>2, <1>3

\* A file in use is complete, and no process maps one that is not there.
LEMMA FilesAreWhole ==
  ASSUME InstallInv
  PROVE  /\ managed \in Whole \cup {"none"} /\ previous \in Whole \cup {"none"}
         /\ ~Mapped("none") /\ \A file \in Whole : Mapped(file) => file # "none"
         /\ troubles \in Int /\ Troubles \in Int
BY InstallNames DEF InstallInv, TypeOK, OneAtATime, Mapped, Running

\* What a failure costs, and a file that is in use costs nothing.
LEMMA Costs ==
  ASSUME InstallInv
  PROVE  /\ Trouble => Failed' = Failed + 1
         /\ Fail(2) => Failed' = Failed + 2
         /\ FailsOn("none") => Failed' = Failed + 1
         /\ \A file : FailsOn(file) => Failed' >= Failed
         /\ UNCHANGED troubles => Failed' = Failed
         /\ Failed \in Nat
BY FilesAreWhole, InstallNames DEF Trouble, Fail, FailsOn, Failed, InstallInv, TypeOK

\* A failure is one at least.
LEMMA AtLeastOne ==
  ASSUME InstallInv
  PROVE  /\ Failed \in Nat
         /\ Trouble => Failed' \in Nat /\ Failed' >= 1
BY FilesAreWhole, InstallNames DEF Trouble, Fail, Failed, InstallInv, TypeOK

\* Taking the lock, or finding it taken.
LEMMA LockFits ==
  ASSUME InstallInv, ProgramInv, NEW i \in Installer,
         Bootstrap(i) \/ LockToInstall(i) \/ LockToUninstall(i)
  PROVE  Fits(i)' /\ ProgramSurvives'
<1> USE InstallNames DEF InstallInv, TypeOK, Goes, disk
<1>1. UNCHANGED <<managed, previous, owned>> /\ misled \subseteq misled'
  BY DEF Bootstrap, LockToInstall, LockToUninstall
<1>2. ProgramSurvives'
  BY <1>1 DEF ProgramInv, ProgramSurvives
<1>3. CASE Bootstrap(i)
  <2>1. pc'[i] = "lock"
    BY <1>3 DEF Bootstrap
  <2> QED BY <1>2, <2>1 DEF Fits, Early, Undone, Active, Removal, Locked
<1>4. CASE LockToInstall(i)
  <2>1. CASE pc'[i] = "failed"
    BY <1>2, <2>1 DEF Fits, Early, Undone, Active, Removal, Locked
  <2>2. CASE pc'[i] = "stage"
    <3>1. /\ misled' = IF LookHolds(i) THEN misled ELSE misled \cup {i}
          /\ replacing' = replacing
      BY <1>4, <2>2 DEF LockToInstall
    <3>2. misled' = {} /\ replacing'[i] = "no" => owned' = "no"
      <4>1. SUFFICES ASSUME misled' = {}, replacing'[i] = "no" PROVE owned' = "no"
        OBVIOUS
      <4>2. misled = {} /\ managed = "none" /\ previous = "none"
        BY <3>1, <4>1 DEF LookHolds
      <4> QED BY <1>1, <4>2 DEF ProgramInv, ProgramSurvives
    <3>3. i \notin misled' => (replacing'[i] = "yes" <=> managed' # "none")
      BY <1>1, <3>1 DEF LookHolds
    <3> QED BY <1>2, <2>2, <3>2, <3>3 DEF Fits, Early, Undone, Active, Removal, Locked
  <2> QED BY <1>4, <2>1, <2>2 DEF LockToInstall
<1>5. CASE LockToUninstall(i)
  <2>1. pc'[i] \in {"failed", "stop to uninstall"} /\ replacing'[i] = "no"
    BY <1>5 DEF LockToUninstall, ProgramInv, Fits
  <2> QED BY <1>2, <2>1 DEF Fits, Early, Undone, Active, Removal, Locked
<1> QED BY <1>3, <1>4, <1>5

\* A step under the lock, with what the invariant says of its installer.
UnderLock(i) ==
  /\ InstallInv /\ Fits(i) /\ ProgramSurvives /\ pc[i] \in Locked
  /\ UNCHANGED replacing /\ managed' \in Whole \cup {"none"}

\* Staging touches the staging file only; a failure ends the installer.
LEMMA StageFits ==
  ASSUME NEW i \in Installer, UnderLock(i), Stage(i)
  PROVE  Fits(i)' /\ ProgramSurvives'
BY InstallNames, FilesAreWhole DEF UnderLock, InstallInv, TypeOK, Goes, disk, Fits,
   ProgramSurvives, Failed, Early, Undone, Active, Removal, Locked, Stage

\* So does copying the candidate.
LEMMA CopyVerifiedFits ==
  ASSUME NEW i \in Installer, UnderLock(i), CopyVerified(i)
  PROVE  Fits(i)' /\ ProgramSurvives'
BY InstallNames, FilesAreWhole DEF UnderLock, InstallInv, TypeOK, Goes, disk, Fits,
   ProgramSurvives, Failed, Early, Undone, Active, Removal, Locked, CopyVerified

\* Asking the running instance to stop touches no file.
LEMMA StopInstanceFits ==
  ASSUME NEW i \in Installer, UnderLock(i),
         StopInstance(i, "stop", "await exit", "drop previous")
  PROVE  Fits(i)' /\ ProgramSurvives'
BY InstallNames, FilesAreWhole DEF UnderLock, InstallInv, TypeOK, Goes, disk, Fits,
   ProgramSurvives, Failed, Early, Undone, Active, Removal, Locked, StopInstance

\* Nor does waiting for it to end.
LEMMA AwaitExitFits ==
  ASSUME NEW i \in Installer, UnderLock(i), AwaitExit(i, "await exit", "drop previous")
  PROVE  Fits(i)' /\ ProgramSurvives'
BY InstallNames, FilesAreWhole DEF UnderLock, InstallInv, TypeOK, Goes, disk, Fits,
   ProgramSurvives, Failed, Early, Undone, Active, Removal, Locked, AwaitExit

\* The previous executable is dropped while the managed one is in place.
LEMMA DropPreviousFits ==
  ASSUME NEW i \in Installer, UnderLock(i), DropPrevious(i)
  PROVE  Fits(i)' /\ ProgramSurvives'
BY InstallNames, FilesAreWhole DEF UnderLock, InstallInv, TypeOK, Goes, disk, Fits,
   ProgramSurvives, Failed, Early, Undone, Active, Removal, Locked, DropPrevious

\* A replacement keeps the old executable as the previous one.
LEMMA PreserveFits ==
  ASSUME NEW i \in Installer, UnderLock(i), Preserve(i)
  PROVE  Fits(i)' /\ ProgramSurvives'
BY InstallNames, FilesAreWhole DEF UnderLock, InstallInv, TypeOK, Goes, disk, Fits,
   ProgramSurvives, Failed, Early, Undone, Active, Removal, Locked, Preserve

\* The new executable takes its place; if it cannot, the old one comes back, or stays
\* the previous one.
LEMMA ActivateFits ==
  ASSUME NEW i \in Installer, UnderLock(i), Activate(i)
  PROVE  Fits(i)' /\ ProgramSurvives'
<1> USE InstallNames, FilesAreWhole DEF UnderLock, InstallInv, TypeOK, Goes
<1>1. staging = i /\ misled' = misled /\ owned' = owned
  BY DEF Activate, Copied
<1>2. CASE pc'[i] = "shortcuts"
  <2>1. managed' = i /\ previous' = previous
    BY <1>1, <1>2 DEF Activate
  <2> QED BY <1>1, <1>2, <2>1 DEF UnderLock, InstallInv, TypeOK, Goes, disk, Fits,
     ProgramSurvives, Failed, Early, Undone, Active, Removal, Locked, Activate
<1>3. CASE pc'[i] = "failed"
  <2>1. UNCHANGED <<managed, previous>> \/ (managed' = previous /\ previous \in Whole)
    BY <1>1, <1>3 DEF Activate
  <2>2. ProgramSurvives'
    BY <1>1, <2>1 DEF ProgramSurvives
  <2> QED BY <1>3, <2>2 DEF UnderLock, InstallInv, TypeOK, Goes, disk, Fits,
     Early, Undone, Active, Removal, Locked
<1> QED BY <1>2, <1>3 DEF Activate

\* The shortcuts: a failure rolls back.
LEMMA CreateShortcutsFits ==
  ASSUME NEW i \in Installer, UnderLock(i), CreateShortcuts(i)
  PROVE  Fits(i)' /\ ProgramSurvives'
<1>1. pc'[i] = "roll back" => Failed' >= 1
  <2>1. pc'[i] = "roll back" => Trouble
    BY DEF CreateShortcuts, Goes, UnderLock, InstallInv, TypeOK
  <2> QED BY <2>1, AtLeastOne DEF UnderLock
<1> QED BY <1>1, InstallNames, FilesAreWhole DEF UnderLock, InstallInv, TypeOK, Goes, disk, Fits,
     ProgramSurvives, Early, Undone, Active, Removal, Locked,
     CreateShortcuts

\* The new program is launched: a failure rolls back.
LEMMA LaunchChildFits ==
  ASSUME NEW i \in Installer, UnderLock(i), LaunchChild(i)
  PROVE  Fits(i)' /\ ProgramSurvives'
<1>1. pc'[i] = "roll back" => Failed' >= 1
  <2>1. pc'[i] = "roll back" => Trouble
    BY DEF LaunchChild, Goes, UnderLock, InstallInv, TypeOK
  <2> QED BY <2>1, AtLeastOne DEF UnderLock
<1> QED BY <1>1, InstallNames, FilesAreWhole DEF UnderLock, InstallInv, TypeOK, Goes, disk, Fits,
     ProgramSurvives, Early, Undone, Active, Removal, Locked,
     LaunchChild

\* It ends too early.
LEMMA ChildExitedFits ==
  ASSUME NEW i \in Installer, UnderLock(i), ChildExited(i)
  PROVE  Fits(i)' /\ ProgramSurvives'
BY InstallNames, FilesAreWhole DEF UnderLock, InstallInv, TypeOK, Goes, disk, Fits,
   ProgramSurvives, Failed, Early, Undone, Active, Removal, Locked, ChildExited

\* It is ready.
LEMMA StatusReadyFits ==
  ASSUME NEW i \in Installer, UnderLock(i), StatusReady(i)
  PROVE  Fits(i)' /\ ProgramSurvives'
BY InstallNames, FilesAreWhole DEF UnderLock, InstallInv, TypeOK, Goes, disk, Fits,
   ProgramSurvives, Failed, Early, Undone, Active, Removal, Locked, StatusReady

\* It is not ready in time.
LEMMA ReadyTimeoutFits ==
  ASSUME NEW i \in Installer, UnderLock(i), ReadyTimeout(i)
  PROVE  Fits(i)' /\ ProgramSurvives'
BY InstallNames, FilesAreWhole DEF UnderLock, InstallInv, TypeOK, Goes, disk, Fits,
   ProgramSurvives, Failed, Early, Undone, Active, Removal, Locked, ReadyTimeout

\* An installer that gave up waiting looks whether an instance is there.
LEMMA JudgeFits ==
  ASSUME NEW i \in Installer, UnderLock(i), Judge(i)
  PROVE  Fits(i)' /\ ProgramSurvives'
BY InstallNames, FilesAreWhole DEF UnderLock, InstallInv, TypeOK, Goes, disk, Fits,
   ProgramSurvives, Failed, Early, Undone, Active, Removal, Locked, Judge

\* The new executable is removed, or stays.
LEMMA RollBackFits ==
  ASSUME NEW i \in Installer, UnderLock(i), RollBack(i, "roll back", "bring back")
  PROVE  Fits(i)' /\ ProgramSurvives'
<1>1. Failed' >= 1
  <2>1. Failed >= 1 /\ (UNCHANGED troubles \/ FailsOn(managed))
    BY DEF RollBack, UnderLock, Fits
  <2> QED BY <2>1, Costs, AtLeastOne DEF UnderLock, FailsOn
<1> QED BY <1>1, InstallNames, FilesAreWhole DEF UnderLock, InstallInv, TypeOK, Goes, disk, Fits,
     ProgramSurvives, Early, Undone, Active, Removal, Locked,
     RollBack

\* The previous executable comes back, or stays where it is at the cost of a failure
\* when there is no managed one.
LEMMA ComesBack ==
  ASSUME InstallInv, PreviousBack
  PROVE  /\ \/ UNCHANGED <<managed, previous>>
            \/ previous \in Whole /\ managed' = previous /\ previous' = "none"
         /\ previous \in Whole => managed' \in Whole
              \/ (managed' = "none" /\ previous' \in Whole /\ Failed' >= Failed + 1)
         /\ Failed' >= Failed /\ Failed \in Nat /\ Failed' \in Nat
<1>1. Failed' >= Failed /\ Failed \in Nat /\ Failed' \in Nat
  <2>1. UNCHANGED troubles \/ FailsOn(managed)
    BY DEF PreviousBack
  <2>2. troubles' \in Int
    BY <2>1, FilesAreWhole DEF FailsOn, Trouble, Fail
  <2>3. Failed' \in Int
    BY <2>2, FilesAreWhole DEF Failed
  <2> QED BY <2>1, <2>3, Costs
<1>2. CASE UNCHANGED <<managed, previous>>
  <2>1. CASE previous \in Whole /\ managed = "none"
    <3>1. FailsOn("none")
      BY <1>2, <2>1, InstallNames DEF PreviousBack
    <3>2. Failed' = Failed + 1
      BY <3>1, Costs
    <3>3. managed' = "none" /\ previous' \in Whole /\ Failed' >= Failed + 1
      BY <1>1, <1>2, <2>1, <3>2
    <3> QED BY <1>1, <1>2, <3>3
  <2>2. CASE ~(previous \in Whole /\ managed = "none")
    BY <1>1, <1>2, <2>2, FilesAreWhole
  <2> QED BY <2>1, <2>2
<1>3. CASE ~UNCHANGED <<managed, previous>>
  BY <1>1, <1>3, FilesAreWhole DEF PreviousBack
<1> QED BY <1>2, <1>3

\* A step that may bring the previous executable back keeps the program.
LEMMA BackKeeps ==
  ASSUME InstallInv, PreviousBack, UNCHANGED <<owned, misled>>, ProgramSurvives
  PROVE  ProgramSurvives'
BY ComesBack DEF ProgramSurvives

\* What one more amounts to.
LEMMA NextCount ==
  \A m, n \in Nat : n >= m + 1 => n >= 1 /\ (m >= 1 => n >= 2)
OBVIOUS

\* The old one comes back.
LEMMA BringBackFits ==
  ASSUME NEW i \in Installer, UnderLock(i), BringBack(i, "bring back", "relaunch")
  PROVE  Fits(i)' /\ ProgramSurvives'
<1>1. InstallInv /\ PreviousBack /\ UNCHANGED <<owned, misled, replacing>> /\ Fits(i)
  BY DEF BringBack, UnderLock
<1>2. pc[i] = "bring back" /\ pc'[i] = "relaunch"
  BY DEF BringBack, Goes, UnderLock, InstallInv, TypeOK
<1>3. Failed \in Nat /\ Failed' \in Nat /\ Failed >= 1
  BY <1>1, <1>2, ComesBack DEF Fits
<1>4. i \notin misled' /\ replacing'[i] = "yes" =>
         managed' \in Whole \/ (previous' \in Whole /\ Failed' >= 2)
  <2>1. i \notin misled' /\ replacing'[i] = "yes" => previous \in Whole
    BY <1>1, <1>2 DEF Fits, Undone
  <2>2. previous \in Whole => managed' \in Whole
          \/ (previous' \in Whole /\ Failed' >= Failed + 1)
    BY <1>1, ComesBack
  <2>3. Failed' >= Failed + 1 => Failed' >= 2
    BY <1>3, NextCount
  <2> QED BY <2>1, <2>2, <2>3
<1>5. misled' = {} /\ replacing'[i] = "no" => owned' = "no"
  BY <1>1, <1>2 DEF Fits, Locked, Removal
<1> QED BY <1>1, <1>2, <1>4, <1>5, BackKeeps DEF UnderLock, Fits, Early, Undone,
     Active, Removal, Locked

\* A late rollback, of which the installer has not failed at anything yet.
LEMMA RollBackLateFits ==
  ASSUME NEW i \in Installer, UnderLock(i), RollBack(i, "roll back late", "bring back late")
  PROVE  Fits(i)' /\ ProgramSurvives'
BY InstallNames, FilesAreWhole DEF UnderLock, InstallInv, TypeOK, Goes, disk, Fits,
   ProgramSurvives, Failed, Early, Undone, Active, Removal, Locked, RollBack

\* The old one comes back, or stays the previous one.
LEMMA BringBackLateFits ==
  ASSUME NEW i \in Installer, UnderLock(i), BringBack(i, "bring back late", "relaunch late")
  PROVE  Fits(i)' /\ ProgramSurvives'
<1>1. InstallInv /\ PreviousBack /\ UNCHANGED <<owned, misled, replacing>> /\ Fits(i)
  BY DEF BringBack, UnderLock
<1>2. pc[i] = "bring back late" /\ pc'[i] = "relaunch late"
  BY DEF BringBack, Goes, UnderLock, InstallInv, TypeOK
<1>3. Failed \in Nat /\ Failed' \in Nat
  BY <1>1, ComesBack
<1>4. i \notin misled' /\ replacing'[i] = "yes" =>
         managed' \in Whole \/ (previous' \in Whole /\ Failed' >= 1)
  <2>1. i \notin misled' /\ replacing'[i] = "yes" => previous \in Whole
    BY <1>1, <1>2 DEF Fits, Undone
  <2>2. previous \in Whole => managed' \in Whole
          \/ (previous' \in Whole /\ Failed' >= Failed + 1)
    BY <1>1, ComesBack
  <2>3. Failed' >= Failed + 1 => Failed' >= 1
    BY <1>3, NextCount
  <2> QED BY <2>1, <2>2, <2>3
<1>5. misled' = {} /\ replacing'[i] = "no" => owned' = "no"
  BY <1>1, <1>2 DEF Fits, Locked, Removal
<1> QED BY <1>1, <1>2, <1>4, <1>5, BackKeeps DEF UnderLock, Fits, Early, Undone,
     Active, Removal, Locked

\* The old program is launched again.
LEMMA RelaunchFits ==
  ASSUME NEW i \in Installer, UnderLock(i), Relaunch(i)
  PROVE  Fits(i)' /\ ProgramSurvives'
BY InstallNames, FilesAreWhole DEF UnderLock, InstallInv, TypeOK, Goes, disk, Fits,
   ProgramSurvives, Failed, Early, Undone, Active, Removal, Locked, Relaunch

\* A previous executable that is still there is brought back once more.
LEMMA RelaunchLateFits ==
  ASSUME NEW i \in Installer, UnderLock(i), RelaunchLate(i)
  PROVE  Fits(i)' /\ ProgramSurvives'
<1>1. ProgramSurvives'
  BY BackKeeps DEF RelaunchLate, UnderLock
<1>2. pc'[i] = "failed"
  BY DEF RelaunchLate, Goes, UnderLock, InstallInv, TypeOK
<1> QED BY <1>1, <1>2 DEF Fits, Early, Undone, Active, Removal, Locked

\* The previous executable is removed, or stays behind.
LEMMA CleanFits ==
  ASSUME NEW i \in Installer, UnderLock(i), Clean(i)
  PROVE  Fits(i)' /\ ProgramSurvives'
BY InstallNames, FilesAreWhole DEF UnderLock, InstallInv, TypeOK, Goes, disk, Fits,
   ProgramSurvives, Failed, Early, Undone, Active, Removal, Locked, Clean

\* Removing the program: the running instance is asked to stop.
LEMMA StopInstanceToUninstallFits ==
  ASSUME NEW i \in Installer, UnderLock(i),
         StopInstance(i, "stop to uninstall", "await exit to uninstall", "elevate")
  PROVE  Fits(i)' /\ ProgramSurvives'
BY InstallNames, FilesAreWhole DEF UnderLock, InstallInv, TypeOK, Goes, disk, Fits,
   ProgramSurvives, Failed, Early, Undone, Active, Removal, Locked, StopInstance

\* It is waited for.
LEMMA AwaitExitToUninstallFits ==
  ASSUME NEW i \in Installer, UnderLock(i),
         AwaitExit(i, "await exit to uninstall", "elevate")
  PROVE  Fits(i)' /\ ProgramSurvives'
BY InstallNames, FilesAreWhole DEF UnderLock, InstallInv, TypeOK, Goes, disk, Fits,
   ProgramSurvives, Failed, Early, Undone, Active, Removal, Locked, AwaitExit

\* The files are removed, and the user no longer has the program.
LEMMA RemoveManagedFilesFits ==
  ASSUME NEW i \in Installer, UnderLock(i), RemoveManagedFiles(i)
  PROVE  Fits(i)' /\ ProgramSurvives'
BY InstallNames, FilesAreWhole DEF UnderLock, InstallInv, TypeOK, Goes, disk, Fits,
   ProgramSurvives, Failed, Early, Undone, Active, Removal, Locked, RemoveManagedFiles

\* An installer dies, and leaves the files as they are.
LEMMA DieFits ==
  ASSUME NEW i \in Installer, UnderLock(i), Die(i)
  PROVE  Fits(i)' /\ ProgramSurvives'
BY InstallNames, FilesAreWhole DEF UnderLock, InstallInv, TypeOK, Goes, disk, Fits,
   ProgramSurvives, Failed, Early, Undone, Active, Removal, Locked, Die

\* What an installer does keeps the program.
LEMMA InstallerFits ==
  ASSUME InstallInv, ProgramInv, NEW i \in Installer,
         Install(i) \/ Uninstall(i) \/ Die(i)
  PROVE  ProgramInv'
<1>1. CASE Bootstrap(i) \/ LockToInstall(i) \/ LockToUninstall(i)
  BY <1>1, LockFits, OthersFit DEF ProgramInv
<1>2. CASE ~(Bootstrap(i) \/ LockToInstall(i) \/ LockToUninstall(i))
  <2>1. pc[i] \in Locked
    BY <1>2 DEF Install, Uninstall, Bootstrap, LockToInstall, Stage, CopyVerified,
       StopInstance, AwaitExit, DropPrevious, Preserve, Activate, CreateShortcuts,
       LaunchChild, ChildExited, StatusReady, ReadyTimeout, Judge, RollBack,
       BringBack, Relaunch, RelaunchLate, Clean, LockToUninstall, RemoveManagedFiles,
       Die, Locked
  <2>2. UnderLock(i)
    <3>1. UNCHANGED replacing
      BY <2>1, LockIsExclusive DEF Locked
    <3> QED BY <2>1, <3>1, FilesTyped DEF UnderLock, ProgramInv
  <2>3. Fits(i)' /\ ProgramSurvives'
    BY <1>2, <2>2, StageFits, CopyVerifiedFits, StopInstanceFits, AwaitExitFits,
       DropPreviousFits, PreserveFits, ActivateFits, CreateShortcutsFits,
       LaunchChildFits, ChildExitedFits, StatusReadyFits, ReadyTimeoutFits, JudgeFits,
       RollBackFits, BringBackFits, RollBackLateFits, BringBackLateFits, RelaunchFits,
       RelaunchLateFits, CleanFits, StopInstanceToUninstallFits,
       AwaitExitToUninstallFits, RemoveManagedFilesFits, DieFits DEF Install,
       Uninstall
  <2> QED BY <2>3, OthersFit DEF ProgramInv
<1> QED BY <1>1, <1>2

\* An application process leaves the files and the installers alone.
LEMMA ProcessFits ==
  ASSUME InstallInv, ProgramInv, NEW p \in App,
         Open(p) \/ RunOnce(p) \/ Starts(p) \/ UserLeaves(p) \/ Leaves(p)
  PROVE  ProgramInv'
BY ProcessKeeps DEF ProgramInv, ProgramSurvives, Fits, Failed, disk, installer

\* It holds at the start.
LEMMA ProgramInit == Init => ProgramInv
BY InstallNames DEF Init, ProgramInv, ProgramSurvives, Fits, Early, Undone, Active,
   Removal, Locked

\* No step breaks it.
LEMMA ProgramNext ==
  ASSUME InstallInv, ProgramInv, [Next]_vars
  PROVE  ProgramInv'
<1>1. CASE UNCHANGED vars
  BY <1>1 DEF ProgramInv, ProgramSurvives, Fits, Failed, vars, disk, installer
<1> QED BY <1>1, InstallerFits, ProcessFits DEF Next

\* An installer that gives up a replacement leaves an executable in place, unless it was
\* misled or a second call failed.
LEMMA FailureLeaves ==
  ASSUME InstallInv, ProgramInv, [Next]_vars,
         NEW i \in Installer, pc[i] \in Locked, pc'[i] = "failed", replacing[i] = "yes",
         i \notin misled, Failed' < 2
  PROVE  managed' \in Whole
<1>1. pc'[i] # pc[i]
  BY DEF Locked
<1>2. Install(i) \/ Uninstall(i) \/ Die(i)
  <2>1. ~UNCHANGED vars
    BY <1>1 DEF vars, installer
  <2>2. \A p \in App : ~(Open(p) \/ RunOnce(p) \/ Starts(p) \/ UserLeaves(p) \/ Leaves(p))
    BY <1>1, ProcessKeeps DEF installer
  <2>3. PICK j \in Installer : Install(j) \/ Uninstall(j) \/ Die(j)
    BY <2>1, <2>2 DEF Next
  <2>4. j = i
    BY <1>1, <2>3, InstallerMoves DEF InstallInv, TypeOK
  <2> QED BY <2>3, <2>4
<1>3. managed' \in Whole \cup {"none"}
  BY <1>2, FilesTyped
<1> USE InstallNames, FilesAreWhole DEF InstallInv, TypeOK, Goes
<1>4. Fits(i)
  BY DEF ProgramInv
<1>5. CASE pc[i] \in Early
  <2>1. managed # "none" /\ pc[i] \notin {"new", "lock"}
    BY <1>4, <1>5 DEF Fits, Early
  <2>2. managed' = managed
    <3>1. Stage(i) \/ CopyVerified(i)
            \/ StopInstance(i, "stop", "await exit", "drop previous")
          \/ AwaitExit(i, "await exit", "drop previous") \/ DropPrevious(i) \/ Preserve(i)
          \/ Die(i)
      BY <1>2, <1>5 DEF Install, Uninstall, Bootstrap, LockToInstall, Stage,
         CopyVerified, StopInstance, AwaitExit, DropPrevious, Preserve, Activate,
         CreateShortcuts, LaunchChild, ChildExited, StatusReady, ReadyTimeout, Judge,
         RollBack, BringBack, Relaunch, RelaunchLate, Clean, LockToUninstall,
         RemoveManagedFiles, Die, Early
    <3> QED BY <3>1 DEF Stage, CopyVerified, StopInstance, AwaitExit, DropPrevious,
       Preserve, Die, disk
  <2> QED BY <2>1, <2>2
<1>6. CASE pc[i] = "activate"
  <2>1. Activate(i) \/ Die(i)
    BY <1>2, <1>6 DEF Install, Uninstall, Bootstrap, LockToInstall, Stage,
       CopyVerified, StopInstance, AwaitExit, DropPrevious, Preserve, Activate,
       CreateShortcuts, LaunchChild, ChildExited, StatusReady, ReadyTimeout, Judge,
       RollBack, BringBack, Relaunch, RelaunchLate, Clean, LockToUninstall,
       RemoveManagedFiles, Die
  <2>2. Activate(i)
    BY <2>1 DEF Die
  <2>3. managed = "none" /\ previous \in Whole
    BY <1>4, <1>6 DEF Fits, Undone
  <2>4. ~Fail(2)
    BY Costs DEF Failed
  <2> QED BY <2>2, <2>3, <2>4 DEF Activate
<1>7. CASE pc[i] \in Active
  <2>1. managed = i
    BY <1>4, <1>7 DEF Fits
  <2>2. managed' = managed
    <3>1. /\ ~RollBack(i, "roll back", "bring back")
          /\ ~RollBack(i, "roll back late", "bring back late")
      BY DEF RollBack
    <3> QED BY <1>2, <1>7, <3>1 DEF Install, Uninstall, Bootstrap, LockToInstall,
       Stage, CopyVerified, StopInstance, AwaitExit, DropPrevious, Preserve, Activate,
       CreateShortcuts, LaunchChild, ChildExited, StatusReady, ReadyTimeout, Judge,
       RollBack, BringBack, Relaunch, RelaunchLate, Clean, LockToUninstall,
       RemoveManagedFiles, Die, Active, disk
  <2> QED BY <2>1, <2>2
<1>8. CASE pc[i] = "relaunch"
  <2>1. managed \in Whole
    <3>1. UNCHANGED troubles \/ Trouble
      BY <1>2, <1>8 DEF Install, Uninstall, Bootstrap, LockToInstall, Stage,
         CopyVerified, StopInstance, AwaitExit, DropPrevious, Preserve, Activate,
         CreateShortcuts, LaunchChild, ChildExited, StatusReady, ReadyTimeout, Judge,
         RollBack, BringBack, Relaunch, RelaunchLate, Clean, LockToUninstall,
         RemoveManagedFiles, Die
    <3>2. Failed < 2
      BY <3>1, Costs DEF Failed
    <3> QED BY <1>4, <1>8, <3>2 DEF Fits, Failed
  <2>2. managed' = managed
    BY <1>2, <1>8 DEF Install, Uninstall, Bootstrap, LockToInstall, Stage,
       CopyVerified, StopInstance, AwaitExit, DropPrevious, Preserve, Activate,
       CreateShortcuts, LaunchChild, ChildExited, StatusReady, ReadyTimeout, Judge,
       RollBack, BringBack, Relaunch, RelaunchLate, Clean, LockToUninstall,
       RemoveManagedFiles, Die, disk
  <2> QED BY <2>1, <2>2
<1>9. CASE pc[i] = "relaunch late"
  <2>1. managed \in Whole \/ (previous \in Whole /\ Failed >= 1)
    BY <1>4, <1>9 DEF Fits
  <2>2. RelaunchLate(i) \/ Die(i)
    BY <1>2, <1>9 DEF Install, Uninstall, Bootstrap, LockToInstall, Stage,
       CopyVerified, StopInstance, AwaitExit, DropPrevious, Preserve, Activate,
       CreateShortcuts, LaunchChild, ChildExited, StatusReady, ReadyTimeout, Judge,
       RollBack, BringBack, Relaunch, RelaunchLate, Clean, LockToUninstall,
       RemoveManagedFiles, Die
  <2>3. RelaunchLate(i)
    BY <2>2 DEF Die
  <2>4. PreviousBack /\ Failed \in Nat /\ Failed' \in Nat
    BY <2>3, ComesBack DEF RelaunchLate
  <2>5. CASE previous \in Whole /\ Failed >= 1
    BY <2>4, <2>5, ComesBack
  <2>6. CASE managed \in Whole
    BY <2>4, <2>6, ComesBack
  <2> QED BY <2>1, <2>5, <2>6
<1>10. pc[i] \notin Removal
  BY <1>4 DEF Fits
<1>11. pc[i] \notin {"bring back", "bring back late"}
  BY <1>2 DEF Install, Uninstall, Bootstrap, LockToInstall, Stage, CopyVerified,
     StopInstance, AwaitExit, DropPrevious, Preserve, Activate, CreateShortcuts,
     LaunchChild, ChildExited, StatusReady, ReadyTimeout, Judge, RollBack, BringBack,
     Relaunch, RelaunchLate, Clean, LockToUninstall, RemoveManagedFiles, Die
<1> QED BY <1>5, <1>6, <1>7, <1>8, <1>9, <1>10, <1>11 DEF Locked, Early, Active, Removal

\* For any number of installers and processes of the application, of calls that fail and
\* of installers that die: one installation at a time, a user who has the program keeps
\* it unless an installer was misled, and a replacement that fails leaves an executable
\* unless it was misled or a second call failed.
THEOREM ProgramStays ==
  Spec => [](TypeOK /\ OneAtATime /\ ProgramSurvives) /\ FailureLeavesProgram
<1> DEFINE Leaves_ == \A i \in Installer :
             /\ pc[i] \in Locked /\ pc'[i] = "failed" /\ replacing[i] = "yes"
             /\ i \notin misled /\ Troubles - troubles' < 2
             => managed' \in Whole
<1>1. Init => InstallInv /\ ProgramInv
  BY InstallInit, ProgramInit
<1>2. (InstallInv /\ ProgramInv) /\ [Next]_vars => (InstallInv /\ ProgramInv)'
  BY InstallNext, ProgramNext
<1>3. InstallInv /\ ProgramInv => TypeOK /\ OneAtATime /\ ProgramSurvives
  BY DEF InstallInv, ProgramInv
<1>4. (InstallInv /\ ProgramInv) /\ [Next]_vars => [Leaves_]_vars
  BY FailureLeaves DEF Failed
<1> QED BY <1>1, <1>2, <1>3, <1>4, PTL DEF Spec, FailureLeavesProgram

----------------------------------------------------------------------------
(***************************************************************************)
(* Updates (UpdateFlow).                                                   *)
(***************************************************************************)

\* A message at the end of a queue.
LEMMA QueueGrows ==
  ASSUME NEW S, NEW q \in Seq(S), NEW e \in S
  PROVE  /\ Append(q, e) \in Seq(S) /\ Len(Append(q, e)) = Len(q) + 1 /\ Len(q) \in Nat
         /\ \A P \in SUBSET S : (\A k \in DOMAIN q : q[k] \in P) /\ e \in P
              => \A k \in DOMAIN Append(q, e) : Append(q, e)[k] \in P
<1>1. /\ Append(q, e) \in Seq(S) /\ Len(Append(q, e)) = Len(q) + 1 /\ Len(q) \in Nat
      /\ DOMAIN q = 1 .. Len(q) /\ DOMAIN Append(q, e) = 1 .. Len(q) + 1
      /\ \A k \in 1 .. Len(q) : Append(q, e)[k] = q[k]
      /\ Append(q, e)[Len(q) + 1] = e
  OBVIOUS
<1>2. \A k \in DOMAIN Append(q, e) : k \in 1 .. Len(q) \/ k = Len(q) + 1
  BY <1>1
<1> QED BY <1>1, <1>2

\* A queue that is not full has room for one more.
LEMMA OneMore ==
  ASSUME NEW n \in Nat, n < 2, NEW m, m = n + 1
  PROVE  m <= 2
OBVIOUS

\* A message taken from the front of a queue.
LEMMA QueueShrinks ==
  ASSUME NEW S, NEW q \in Seq(S), q # <<>>
  PROVE  /\ Head(q) \in S /\ 1 \in DOMAIN q /\ Head(q) = q[1]
         /\ Tail(q) \in Seq(S) /\ Len(Tail(q)) = Len(q) - 1 /\ Len(q) \in Nat
         /\ Len(q) > 0
         /\ \A P \in SUBSET S : (\A k \in DOMAIN q : q[k] \in P)
              => \A k \in DOMAIN Tail(q) : Tail(q)[k] \in P
<1>1. /\ Head(q) \in S /\ Head(q) = q[1]
      /\ Tail(q) \in Seq(S) /\ Len(Tail(q)) = Len(q) - 1 /\ Len(q) \in Nat /\ Len(q) > 0
      /\ DOMAIN q = 1 .. Len(q) /\ DOMAIN Tail(q) = 1 .. Len(q) - 1
      /\ \A k \in 1 .. Len(q) - 1 : Tail(q)[k] = q[k + 1]
  OBVIOUS
<1>2. \A k \in 1 .. Len(q) - 1 : k + 1 \in DOMAIN q
  BY <1>1
<1> QED BY <1>1, <1>2

\* Messages that name a release name a real one.
GoodRequest == {r \in Updates!Request : r.what = "install" => r.release \in Updates!Release}
GoodResult  == {r \in Updates!Result : r.what = "found" => r.release \in Updates!Release}

\* The release that is offered, asked for, answered or installed is a real one; and the
\* file at hand, once it was compared, has the content of the checksum.
UpdateInv ==
  /\ Updates!TypeOK
  /\ \A k \in DOMAIN requests : requests[k] \in GoodRequest
  /\ \A k \in DOMAIN results : results[k] \in GoodResult
  /\ status.kind = "available" => status.release \in Updates!Release
  /\ step \notin {"idle", "query"} => job.release \in Updates!Release
  /\ step \in {"replace", "activate"} => partial[Updates!Target] = expected
  /\ step = "launch" => final[Updates!Target] = expected

\* What the proofs need to know of the constants.
LEMMA UpdateConstants ==
  /\ Version \subseteq Nat /\ 0 \notin Version
  /\ Changes \in Nat /\ Mishaps \in Nat /\ Restarts \in Nat
  /\ Updates!NoRelease.version = 0 /\ Updates!NoRelease \notin Updates!Release
BY ApplicationAssumption DEF Updates!VersionAssumption, Updates!UpdateBounds,
   Updates!NoRelease, Updates!Release

\* The messages the program makes.
LEMMA MessagesGood ==
  /\ \A c \in Updates!Channel, m \in {"yes", "no"} : Updates!Check(c, m) \in GoodRequest
  /\ \A r \in Updates!Release : Updates!Install(r) \in GoodRequest
  /\ Updates!NoJob \in Updates!Request
  /\ \A w \in {"idle", "up to date", "failed", "checking", "installing"} :
       Updates!Status(w, Updates!NoRelease) \in Updates!Statuses
  /\ \A w \in {"available", "downloading"}, r \in Updates!Release :
       Updates!Status(w, r) \in Updates!Statuses
  /\ GoodRequest \subseteq Updates!Request /\ GoodResult \subseteq Updates!Result
BY DEF Updates!Check, Updates!Install, Updates!NoJob, GoodRequest, Updates!Request,
   Updates!Channel, Updates!Status, Updates!Statuses, Updates!Busy, GoodResult

\* What a report does to the results.
LEMMA ReportGood ==
  ASSUME UpdateInv, NEW what, NEW release, Updates!Reports(what, release),
         (what \in {"nothing", "check failed", "started", "install failed"} /\ release = Updates!NoRelease)
           \/ (what = "found" /\ release \in Updates!Release)
  PROVE  /\ results' \in Seq(Updates!Result) /\ Len(results') <= Updates!Slots
         /\ \A k \in DOMAIN results' : results'[k] \in GoodResult
         /\ step' = "idle" /\ job' \in Updates!Request /\ expected' \in Updates!Digest
<1> DEFINE m == [what |-> what, release |-> release,
                 manual |-> IF what = "check failed" THEN job.manual ELSE "no"]
<1>1. m \in GoodResult /\ m \in Updates!Result
  BY DEF UpdateInv, Updates!TypeOK, GoodResult, Updates!Result, Updates!Request
<1>2. /\ results' = Append(results, m) /\ Len(results) < 2
      /\ results \in Seq(Updates!Result)
      /\ \A k \in DOMAIN results : results[k] \in GoodResult
  BY DEF Updates!Reports, Updates!Slots, UpdateInv, Updates!TypeOK
<1> HIDE DEF m
<1>3. /\ results' \in Seq(Updates!Result) /\ Len(results') <= 2
      /\ \A k \in DOMAIN results' : results'[k] \in GoodResult
  <2>1. /\ Append(results, m) \in Seq(Updates!Result)
        /\ Len(Append(results, m)) = Len(results) + 1
        /\ Len(results) \in Nat
        /\ \A P \in SUBSET Updates!Result : (\A k \in DOMAIN results : results[k] \in P)
             /\ m \in P
             => \A k \in DOMAIN Append(results, m) : Append(results, m)[k] \in P
    BY <1>1, <1>2, QueueGrows
  <2>2. GoodResult \in SUBSET Updates!Result
    BY MessagesGood
  <2>3. \A k \in DOMAIN Append(results, m) : Append(results, m)[k] \in GoodResult
    BY <2>1, <2>2, <1>1, <1>2
  <2>4. Len(results) < 2 /\ Len(results) \in Nat /\ Len(results') = Len(results) + 1
    BY <2>1, <1>2
  <2>5. Len(results') <= 2
    BY <2>4, OneMore
  <2> QED BY <2>1, <2>3, <2>5, <1>2
<1>4. step' = "idle" /\ job' \in Updates!Request /\ expected' \in Updates!Digest
  BY MessagesGood DEF Updates!Reports, Updates!Digest
<1> QED BY <1>3, <1>4 DEF Updates!Slots

\* What a request does to the requests.
LEMMA RequestGood ==
  ASSUME UpdateInv, Len(requests) < Updates!Slots, NEW m \in GoodRequest,
         requests' = Append(requests, m)
  PROVE  /\ requests' \in Seq(Updates!Request) /\ Len(requests') <= Updates!Slots
         /\ \A k \in DOMAIN requests' : requests'[k] \in GoodRequest
<1>1. /\ m \in Updates!Request /\ GoodRequest \in SUBSET Updates!Request
      /\ requests \in Seq(Updates!Request)
      /\ \A k \in DOMAIN requests : requests[k] \in GoodRequest
  BY MessagesGood DEF UpdateInv, Updates!TypeOK
<1>2. /\ Append(requests, m) \in Seq(Updates!Request)
      /\ Len(Append(requests, m)) = Len(requests) + 1
      /\ Len(requests) \in Nat
      /\ \A P \in SUBSET Updates!Request : (\A k \in DOMAIN requests : requests[k] \in P)
           /\ m \in P
           => \A k \in DOMAIN Append(requests, m) : Append(requests, m)[k] \in P
  BY <1>1, QueueGrows
<1> QED BY <1>1, <1>2 DEF Updates!Slots

\* A step that leaves the worker, the files and the results alone.
LEMMA WorkerRests ==
  ASSUME UpdateInv,
         UNCHANGED <<results, Updates!worker, Updates!files, Updates!site, restarts>>,
         updateTroubles' \in 0 .. Mishaps, channel' \in Updates!Channel,
         notify' \in {"yes", "no"},
         updateAsked' \in {"yes", "no"}, choices' \in 0 .. 1,
         told' \in [Updates!Channel -> Version \cup {0}],
         requests' \in Seq(Updates!Request) /\ Len(requests') <= Updates!Slots,
         \A k \in DOMAIN requests' : requests'[k] \in GoodRequest,
         status' \in Updates!Statuses,
         status'.kind = "available" => status'.release \in Updates!Release
  PROVE  UpdateInv'
<1>1. Updates!TypeOK'
  <2>1. /\ results' = results /\ step' = step /\ job' = job /\ expected' = expected
        /\ final' = final /\ partial' = partial /\ github' = github /\ changes' = changes
        /\ restarts' = restarts
    BY DEF Updates!worker, Updates!files, Updates!site
  <2>2. /\ github' \in Updates!Sites
        /\ results' \in Seq(Updates!Result) /\ Len(results') <= Updates!Slots
        /\ job' \in Updates!Request /\ expected' \in Updates!Digest
        /\ final' \in [Version -> Updates!Files]
        /\ partial' \in [Version -> Updates!Files]
        /\ changes' \in 0..Changes /\ restarts' \in 0..Restarts
    BY <2>1 DEF UpdateInv, Updates!TypeOK
  <2>3. step' \in Updates!Steps
    BY <2>1 DEF UpdateInv, Updates!TypeOK
  <2> QED BY <2>2, <2>3 DEF Updates!TypeOK
<1>2. Updates!Target' = Updates!Target /\ step' = step /\ job' = job /\ expected' = expected
      /\ final' = final /\ partial' = partial /\ results' = results
  BY DEF Updates!worker, Updates!files, Updates!Target
<1> QED BY <1>1, <1>2 DEF UpdateInv

\* A check that is asked for.
LEMMA AskingGood ==
  ASSUME UpdateInv, NEW c \in Updates!Channel, NEW m \in {"yes", "no"}, NEW from,
         Updates!AsksCheck(from, c, m),
         from \in Updates!Statuses,
         from.kind = "available" => from.release \in Updates!Release
  PROVE  /\ requests' \in Seq(Updates!Request) /\ Len(requests') <= Updates!Slots
         /\ \A k \in DOMAIN requests' : requests'[k] \in GoodRequest
         /\ status' \in Updates!Statuses
         /\ status'.kind = "available" => status'.release \in Updates!Release
<1> DEFINE Queued == /\ requests' \in Seq(Updates!Request)
                     /\ Len(requests') <= Updates!Slots
                     /\ \A k \in DOMAIN requests' : requests'[k] \in GoodRequest
           Stated == status' \in Updates!Statuses
                       /\ (status'.kind = "available" => status'.release \in Updates!Release)
<1>1. requests' = requests => Queued
  BY DEF UpdateInv, Updates!TypeOK
<1>2. CASE from.kind \in Updates!Busy
  BY <1>1, <1>2 DEF Updates!AsksCheck
<1>3. CASE from.kind \notin Updates!Busy /\ Len(requests) < Updates!Slots
  <2>1. Queued
    BY <1>3, RequestGood, MessagesGood DEF Updates!AsksCheck
  <2>2. Stated
    <3>1. Updates!Status("checking", Updates!NoRelease) \in Updates!Statuses
            /\ Updates!Status("checking", Updates!NoRelease).kind = "checking"
      BY MessagesGood DEF Updates!Status
    <3>2. status' = Updates!Status("checking", Updates!NoRelease)
      BY <1>3 DEF Updates!AsksCheck
    <3> QED BY <3>1, <3>2
  <2> QED BY <2>1, <2>2
<1>4. CASE from.kind \notin Updates!Busy /\ ~(Len(requests) < Updates!Slots)
  <2>1. Queued
    BY <1>4, <1>1 DEF Updates!AsksCheck
  <2>2. Stated
    <3>1. Updates!Status("failed", Updates!NoRelease) \in Updates!Statuses
            /\ Updates!Status("failed", Updates!NoRelease).kind = "failed"
      BY MessagesGood DEF Updates!Status
    <3>2. status' = Updates!Status("failed", Updates!NoRelease) \/ status' = from
      BY <1>4 DEF Updates!AsksCheck
    <3> QED BY <3>1, <3>2
  <2> QED BY <2>1, <2>2
<1> QED BY <1>2, <1>3, <1>4

\* A step that leaves the interface and GitHub alone.
LEMMA InterfaceRests ==
  ASSUME UpdateInv, UNCHANGED <<Updates!site, Updates!ui, requests, restarts>>,
         updateTroubles' \in 0 .. Mishaps,
         results' \in Seq(Updates!Result) /\ Len(results') <= Updates!Slots,
         \A k \in DOMAIN results' : results'[k] \in GoodResult,
         step' \in Updates!Steps,
         job' \in Updates!Request, expected' \in Updates!Digest,
         final' \in [Version -> Updates!Files], partial' \in [Version -> Updates!Files],
         step' \notin {"idle", "query"} => job'.release \in Updates!Release,
         step' \in {"replace", "activate"} => partial'[job'.release.version] = expected',
         step' = "launch" => final'[job'.release.version] = expected'
  PROVE  UpdateInv'
<1>1. /\ github' = github /\ changes' = changes /\ channel' = channel /\ notify' = notify
      /\ status' = status /\ updateAsked' = updateAsked /\ told' = told
      /\ choices' = choices
      /\ requests' = requests /\ restarts' = restarts
  BY DEF Updates!site, Updates!ui
<1>2. Updates!TypeOK'
  <2>1. /\ github' \in Updates!Sites
        /\ channel' \in Updates!Channel /\ notify' \in {"yes", "no"}
        /\ updateAsked' \in {"yes", "no"}
        /\ changes' \in 0..Changes /\ restarts' \in 0..Restarts
    BY <1>1 DEF UpdateInv, Updates!TypeOK
  <2>2. /\ told' \in [Updates!Channel -> Version \cup {0}] /\ choices' \in 0..1
        /\ requests' \in Seq(Updates!Request) /\ Len(requests') <= Updates!Slots
    BY <1>1 DEF UpdateInv, Updates!TypeOK
  <2>3. status' \in Updates!Statuses
    BY <1>1 DEF UpdateInv, Updates!TypeOK
  <2> QED BY <2>1, <2>2, <2>3 DEF Updates!TypeOK
<1>3. /\ \A k \in DOMAIN requests' : requests'[k] \in GoodRequest
      /\ status'.kind = "available" => status'.release \in Updates!Release
  BY <1>1 DEF UpdateInv
<1> QED BY <1>2, <1>3 DEF UpdateInv, Updates!Target

\* A step of the worker in the middle of an installation.
LEMMA WorkerGoesOn ==
  ASSUME UpdateInv, UNCHANGED <<Updates!site, Updates!ui, requests, restarts>>,
         updateTroubles' \in 0 .. Mishaps,
         step \notin {"idle", "query"},
         NEW to \in {"checksum", "cached", "download", "downloading", "verify", "replace",
                     "activate", "launch"},
         Updates!Goes(to), expected' \in Updates!Digest,
         final' \in [Version -> Updates!Files], partial' \in [Version -> Updates!Files],
         to \in {"replace", "activate"} => partial'[Updates!Target] = expected',
         to = "launch" => final'[Updates!Target] = expected'
  PROVE  UpdateInv'
<1>1. step' = to /\ job' = job /\ results' = results
  BY DEF Updates!Goes
<1>2. /\ results' \in Seq(Updates!Result) /\ Len(results') <= Updates!Slots
      /\ \A k \in DOMAIN results' : results'[k] \in GoodResult
      /\ job' \in Updates!Request /\ job'.release \in Updates!Release
  BY <1>1 DEF UpdateInv, Updates!TypeOK
<1>3. /\ to \in {"replace", "activate"} => partial'[job'.release.version] = expected'
      /\ to = "launch" => final'[job'.release.version] = expected'
  BY <1>1 DEF Updates!Target
<1> QED BY <1>1, <1>2, <1>3, InterfaceRests DEF Updates!Steps

\* A step of the worker that ends what it was asked to do.
LEMMA WorkerReports ==
  ASSUME UpdateInv, UNCHANGED <<Updates!site, Updates!ui, requests, restarts>>,
         updateTroubles' \in 0 .. Mishaps,
         NEW what, NEW release, Updates!Reports(what, release),
         (what \in {"nothing", "check failed", "started", "install failed"} /\ release = Updates!NoRelease)
           \/ (what = "found" /\ release \in Updates!Release),
         final' \in [Version -> Updates!Files], partial' \in [Version -> Updates!Files]
  PROVE  UpdateInv'
<1>1. /\ results' \in Seq(Updates!Result) /\ Len(results') <= Updates!Slots
      /\ \A k \in DOMAIN results' : results'[k] \in GoodResult
      /\ step' = "idle" /\ job' \in Updates!Request /\ expected' \in Updates!Digest
  BY ReportGood
<1> QED BY <1>1, InterfaceRests DEF Updates!Steps

\* A step that fails.
LEMMA WorkerFails ==
  ASSUME UpdateInv, UNCHANGED <<Updates!site, Updates!ui, requests, restarts>>,
         Updates!Failing,
         final' \in [Version -> Updates!Files], partial' \in [Version -> Updates!Files]
  PROVE  UpdateInv'
<1>1. updateTroubles' \in 0 .. Mishaps
  <2>1. updateTroubles \in 0 .. Mishaps
    BY DEF UpdateInv, Updates!TypeOK
  <2>2. Mishaps \in Nat
    BY UpdateConstants
  <2>3. updateTroubles > 0 /\ updateTroubles' = updateTroubles - 1
    BY DEF Updates!Failing, Updates!Trouble
  <2> QED BY <2>1, <2>2, <2>3
<1>2. Updates!Reports("install failed", Updates!NoRelease)
  BY DEF Updates!Failing
<1> QED BY <1>1, <1>2, WorkerReports

\* What holds of the files while something is installed.
LEMMA InstallingTyped ==
  ASSUME UpdateInv
  PROVE  /\ updateTroubles \in 0 .. Mishaps /\ expected \in Updates!Digest
         /\ final \in [Version -> Updates!Files] /\ partial \in [Version -> Updates!Files]
         /\ step \notin {"idle", "query"} =>
              /\ Updates!Target \in Version
              /\ github[Updates!Target].exe \in Executables
              /\ github[Updates!Target].sum \in Executables
         /\ Torn \in Updates!Files /\ NoFile \in Updates!Files
         /\ Executables \subseteq Updates!Files /\ Executables \subseteq Updates!Digest
<1>1. /\ updateTroubles \in 0 .. Mishaps /\ expected \in Updates!Digest
      /\ final \in [Version -> Updates!Files] /\ partial \in [Version -> Updates!Files]
      /\ github \in Updates!Sites
  BY DEF UpdateInv, Updates!TypeOK
<1>2. step \notin {"idle", "query"} => Updates!Target \in Version
  BY DEF UpdateInv, Updates!Target, Updates!Release
<1> QED BY <1>1, <1>2 DEF Updates!Files, Updates!Digest, Updates!Sites

\* Every step of the interface.
LEMMA UserSteps == ASSUME UpdateInv, Updates!UserStep PROVE UpdateInv'
<1>1. /\ updateTroubles \in 0 .. Mishaps /\ channel \in Updates!Channel
      /\ notify \in {"yes", "no"}
      /\ updateAsked \in {"yes", "no"} /\ choices \in 0 .. 1
      /\ told \in [Updates!Channel -> Version \cup {0}]
      /\ requests \in Seq(Updates!Request) /\ Len(requests) <= Updates!Slots
  BY DEF UpdateInv, Updates!TypeOK
<1>2. /\ \A k \in DOMAIN requests : requests[k] \in GoodRequest
      /\ status.kind = "available" => status.release \in Updates!Release
      /\ status \in Updates!Statuses
  BY DEF UpdateInv, Updates!TypeOK
<1>3. CASE Updates!RequestUpdateCheck
  <2>1. /\ requests' \in Seq(Updates!Request) /\ Len(requests') <= Updates!Slots
        /\ \A k \in DOMAIN requests' : requests'[k] \in GoodRequest
        /\ status' \in Updates!Statuses
        /\ status'.kind = "available" => status'.release \in Updates!Release
    <3>1. Updates!AsksCheck(status, channel, "yes")
      BY <1>3 DEF Updates!RequestUpdateCheck
    <3> QED BY <3>1, <1>1, <1>2, AskingGood
  <2>2. /\ UNCHANGED <<results, Updates!worker, Updates!files, Updates!site, restarts>>
        /\ updateTroubles' = updateTroubles /\ channel' = channel /\ notify' = notify
        /\ updateAsked' = updateAsked
        /\ choices' = choices /\ told' = told
    BY <1>3 DEF Updates!RequestUpdateCheck
  <2> QED BY <2>1, <2>2, <1>1, WorkerRests
<1>4. CASE Updates!StartupCheck
  <2>1. /\ requests' \in Seq(Updates!Request) /\ Len(requests') <= Updates!Slots
        /\ \A k \in DOMAIN requests' : requests'[k] \in GoodRequest
        /\ status' \in Updates!Statuses
        /\ status'.kind = "available" => status'.release \in Updates!Release
    <3>1. Updates!AsksCheck(status, channel, "no")
      BY <1>4 DEF Updates!StartupCheck
    <3> QED BY <3>1, <1>1, <1>2, AskingGood
  <2>2. /\ UNCHANGED <<results, Updates!worker, Updates!files, Updates!site, restarts>>
        /\ updateTroubles' = updateTroubles /\ channel' = channel /\ notify' = notify
        /\ updateAsked' = "yes"
        /\ choices' = choices /\ told' = told
    BY <1>4 DEF Updates!StartupCheck
  <2> QED BY <2>1, <2>2, <1>1, WorkerRests
<1>5. CASE Updates!InstallAvailableUpdate
  <2>1. /\ UNCHANGED <<results, Updates!worker, Updates!files, Updates!site, restarts>>
        /\ updateTroubles' = updateTroubles /\ channel' = channel /\ notify' = notify
        /\ updateAsked' = updateAsked
        /\ choices' = choices /\ told' = told /\ status.release \in Updates!Release
    BY <1>5, <1>2 DEF Updates!InstallAvailableUpdate
  <2>2. CASE Len(requests) < Updates!Slots
    <3>1. /\ requests' = Append(requests, Updates!Install(status.release))
          /\ status' = Updates!Status("downloading", status.release)
      BY <1>5, <2>2 DEF Updates!InstallAvailableUpdate
    <3>2. /\ requests' \in Seq(Updates!Request) /\ Len(requests') <= Updates!Slots
          /\ \A k \in DOMAIN requests' : requests'[k] \in GoodRequest
      BY <3>1, <2>1, <2>2, MessagesGood, RequestGood
    <3>3. /\ status' \in Updates!Statuses
          /\ status'.kind = "available" => status'.release \in Updates!Release
      BY <3>1, <2>1, MessagesGood DEF Updates!Status
    <3> QED BY <3>2, <3>3, <2>1, <1>1, WorkerRests
  <2>3. CASE ~(Len(requests) < Updates!Slots)
    <3>1. requests' = requests /\ status' = Updates!Status("failed", Updates!NoRelease)
      BY <1>5, <2>3 DEF Updates!InstallAvailableUpdate
    <3>2. /\ status' \in Updates!Statuses
          /\ status'.kind = "available" => status'.release \in Updates!Release
      BY <3>1, MessagesGood DEF Updates!Status
    <3> QED BY <3>1, <3>2, <2>1, <1>1, <1>2, WorkerRests
  <2> QED BY <2>2, <2>3
<1>6. CASE Updates!ChangeChannel
  <2>1. /\ UNCHANGED <<results, Updates!worker, Updates!files, Updates!site, restarts>>
        /\ updateTroubles' = updateTroubles /\ channel' \in Updates!Channel
        /\ notify' = notify /\ updateAsked' = updateAsked
        /\ told' = told /\ choices > 0 /\ choices' = choices - 1
        /\ Updates!AsksCheck(Updates!Status("idle", Updates!NoRelease), channel', "no")
    BY <1>6 DEF Updates!ChangeChannel
  <2>2. choices' \in 0 .. 1
    BY <2>1, <1>1
  <2>3. /\ Updates!Status("idle", Updates!NoRelease) \in Updates!Statuses
        /\ Updates!Status("idle", Updates!NoRelease).kind # "available"
    BY MessagesGood DEF Updates!Status
  <2>4. /\ requests' \in Seq(Updates!Request) /\ Len(requests') <= Updates!Slots
        /\ \A k \in DOMAIN requests' : requests'[k] \in GoodRequest
        /\ status' \in Updates!Statuses
        /\ status'.kind = "available" => status'.release \in Updates!Release
    <3> DEFINE s == Updates!Status("idle", Updates!NoRelease)
               c == channel'
    <3> HIDE DEF s, c
    <3>1. /\ Updates!AsksCheck(s, c, "no") /\ c \in Updates!Channel
          /\ s \in Updates!Statuses
          /\ s.kind = "available" => s.release \in Updates!Release
      BY <2>1, <2>3 DEF s, c
    <3> QED BY <3>1, AskingGood
  <2> QED BY <2>1, <2>2, <2>4, <1>1, WorkerRests
<1>7. CASE Updates!ChangeSettings
  <2>1. /\ UNCHANGED <<results, Updates!worker, Updates!files, Updates!site, restarts>>
        /\ updateTroubles' = updateTroubles /\ channel' \in Updates!Channel
        /\ notify' \in {"yes", "no"}
        /\ updateAsked' = updateAsked /\ told' = told /\ choices > 0
        /\ choices' = choices - 1
        /\ requests' = requests /\ status' = status
    BY <1>7, <1>1 DEF Updates!ChangeSettings
  <2>2. choices' \in 0 .. 1
    BY <2>1, <1>1
  <2> QED BY <2>1, <2>2, <1>1, <1>2, WorkerRests
<1> QED BY <1>3, <1>4, <1>5, <1>6, <1>7 DEF Updates!UserStep

\* GitHub changes.
LEMMA SiteSteps == ASSUME UpdateInv, Updates!ChangeSite PROVE UpdateInv'
<1>1. /\ UNCHANGED <<Updates!ui, requests, results, Updates!worker, Updates!files, updateTroubles, restarts>>
      /\ changes > 0 /\ changes' = changes - 1
  BY DEF Updates!ChangeSite
<1>2. changes' \in 0 .. Changes
  <2>1. changes \in 0 .. Changes
    BY DEF UpdateInv, Updates!TypeOK
  <2> QED BY <2>1, <1>1, UpdateConstants
<1>3. github' \in Updates!Sites
  <2>1. github \in Updates!Sites
    BY DEF UpdateInv, Updates!TypeOK
  <2>2. PICK v \in Version :
          \/ \E k \in Updates!Channel \cup {"no"} : github' = [github EXCEPT ![v].kind = k]
          \/ \E c \in Executables : github' = [github EXCEPT ![v].exe = c]
          \/ github' = [github EXCEPT ![v].sum = github[v].exe]
    BY DEF Updates!ChangeSite
  <2>3. github[v]
          \in [kind : Updates!Channel \cup {"no"}, exe : Executables, sum : Executables]
    BY <2>1 DEF Updates!Sites
  <2>4. \E r \in [kind : Updates!Channel \cup {"no"}, exe : Executables, sum : Executables] :
          github' = [github EXCEPT ![v] = r]
    <3>1. CASE \E k \in Updates!Channel \cup {"no"} :
                 github' = [github EXCEPT ![v].kind = k]
      <4>1. PICK k \in Updates!Channel \cup {"no"} : github' = [github EXCEPT ![v].kind = k]
        BY <3>1
      <4>2. [github[v] EXCEPT !.kind = k]
              \in [kind : Updates!Channel \cup {"no"}, exe : Executables, sum : Executables]
        BY <2>3
      <4> QED BY <4>1, <4>2
    <3>2. CASE \E c \in Executables : github' = [github EXCEPT ![v].exe = c]
      <4>1. PICK c \in Executables : github' = [github EXCEPT ![v].exe = c]
        BY <3>2
      <4>2. [github[v] EXCEPT !.exe = c]
              \in [kind : Updates!Channel \cup {"no"}, exe : Executables, sum : Executables]
        BY <2>3
      <4> QED BY <4>1, <4>2
    <3>3. CASE github' = [github EXCEPT ![v].sum = github[v].exe]
      <4>1. [github[v] EXCEPT !.sum = github[v].exe]
              \in [kind : Updates!Channel \cup {"no"}, exe : Executables, sum : Executables]
        BY <2>3
      <4> QED BY <3>3, <4>1
    <3> QED BY <2>2, <3>1, <3>2, <3>3
  <2> QED BY <2>1, <2>4 DEF Updates!Sites
<1>4. /\ channel' = channel /\ notify' = notify /\ status' = status
      /\ updateAsked' = updateAsked
      /\ told' = told /\ choices' = choices /\ requests' = requests /\ results' = results
      /\ step' = step /\ job' = job /\ expected' = expected /\ final' = final
      /\ partial' = partial /\ updateTroubles' = updateTroubles /\ restarts' = restarts
  BY <1>1 DEF Updates!ui, Updates!worker, Updates!files
<1>5. Updates!TypeOK'
  <2>1. /\ channel' \in Updates!Channel /\ notify' \in {"yes", "no"}
        /\ updateAsked' \in {"yes", "no"}
        /\ status' \in Updates!Statuses
        /\ told' \in [Updates!Channel -> Version \cup {0}] /\ choices' \in 0..1
    BY <1>4 DEF UpdateInv, Updates!TypeOK
  <2>2. /\ requests' \in Seq(Updates!Request) /\ Len(requests') <= Updates!Slots
        /\ results' \in Seq(Updates!Result) /\ Len(results') <= Updates!Slots
        /\ step' \in Updates!Steps
        /\ job' \in Updates!Request /\ expected' \in Updates!Digest
    BY <1>4 DEF UpdateInv, Updates!TypeOK
  <2>3. /\ final' \in [Version -> Updates!Files]
        /\ partial' \in [Version -> Updates!Files]
        /\ updateTroubles' \in 0..Mishaps /\ restarts' \in 0..Restarts
    BY <1>4 DEF UpdateInv, Updates!TypeOK
  <2> QED BY <2>1, <2>2, <2>3, <1>2, <1>3 DEF Updates!TypeOK
<1>6. Updates!Target' = Updates!Target
  BY <1>4 DEF Updates!Target
<1> QED BY <1>4, <1>5, <1>6 DEF UpdateInv

\* A release found for a channel is a real one.
LEMMA SelectedIsRelease == \A c : Updates!SelectUpdate(c) \subseteq Updates!Release
BY DEF Updates!SelectUpdate

\* Every step of the worker: the checksum is compared before the download takes the
\* place of the cached file, and nothing is launched but that file.
LEMMA WorkerSteps == ASSUME UpdateInv, Updates!WorkerStep PROVE UpdateInv'
<1> DEFINE Still == UNCHANGED <<Updates!site, Updates!ui, requests, restarts>>
<1>1. /\ updateTroubles \in 0 .. Mishaps /\ expected \in Updates!Digest
      /\ final \in [Version -> Updates!Files] /\ partial \in [Version -> Updates!Files]
      /\ step \notin {"idle", "query"} =>
           /\ Updates!Target \in Version
           /\ github[Updates!Target].exe \in Executables
           /\ github[Updates!Target].sum \in Executables
      /\ Torn \in Updates!Files /\ NoFile \in Updates!Files
      /\ Executables \subseteq Updates!Files /\ Executables \subseteq Updates!Digest
  BY InstallingTyped
<1>2. CASE Updates!TakeRequest
  <2>1. /\ requests # <<>> /\ requests \in Seq(Updates!Request)
        /\ Len(requests) <= Updates!Slots
        /\ \A k \in DOMAIN requests : requests[k] \in GoodRequest
        /\ GoodRequest \in SUBSET Updates!Request
    BY <1>2, MessagesGood DEF Updates!TakeRequest, UpdateInv, Updates!TypeOK
  <2>2. /\ Head(requests) = requests[1] /\ 1 \in DOMAIN requests
        /\ Tail(requests) \in Seq(Updates!Request)
        /\ Len(Tail(requests)) = Len(requests) - 1
        /\ Len(requests) \in Nat
        /\ \A P \in SUBSET Updates!Request : (\A k \in DOMAIN requests : requests[k] \in P)
             => \A k \in DOMAIN Tail(requests) : Tail(requests)[k] \in P
    BY <2>1, QueueShrinks
  <2>3. /\ requests' = Tail(requests) /\ job' = Head(requests)
        /\ step' = IF job'.what = "check" THEN "query" ELSE "prepare"
        /\ UNCHANGED <<Updates!site, Updates!ui, results, expected, Updates!files, updateTroubles, restarts>>
    BY <1>2 DEF Updates!TakeRequest
  <2>4. /\ requests' \in Seq(Updates!Request)
        /\ \A k \in DOMAIN requests' : requests'[k] \in GoodRequest
    BY <2>1, <2>2, <2>3
  <2>5. Len(requests') <= Updates!Slots
    BY <2>1, <2>2, <2>3 DEF Updates!Slots
  <2>6. job' \in GoodRequest /\ job' \in Updates!Request
    BY <2>1, <2>2, <2>3
  <2>7. /\ step' \in {"query", "prepare"}
        /\ step' = "prepare" => job'.release \in Updates!Release
    BY <2>3, <2>6 DEF GoodRequest, Updates!Request
  <2>8. /\ github' = github /\ changes' = changes /\ channel' = channel
        /\ notify' = notify
        /\ status' = status /\ updateAsked' = updateAsked /\ told' = told
        /\ choices' = choices
        /\ results' = results /\ expected' = expected /\ final' = final
        /\ partial' = partial
        /\ updateTroubles' = updateTroubles /\ restarts' = restarts
    BY <2>3 DEF Updates!site, Updates!ui, Updates!files
  <2>9. Updates!TypeOK'
    <3>1. /\ github' \in Updates!Sites
          /\ channel' \in Updates!Channel /\ notify' \in {"yes", "no"}
          /\ updateAsked' \in {"yes", "no"}
          /\ changes' \in 0..Changes /\ restarts' \in 0..Restarts
          /\ updateTroubles' \in 0..Mishaps
      BY <2>8 DEF UpdateInv, Updates!TypeOK
    <3>2. /\ told' \in [Updates!Channel -> Version \cup {0}] /\ choices' \in 0..1
          /\ results' \in Seq(Updates!Result) /\ Len(results') <= Updates!Slots
          /\ expected' \in Updates!Digest
          /\ final' \in [Version -> Updates!Files]
          /\ partial' \in [Version -> Updates!Files]
      BY <2>8 DEF UpdateInv, Updates!TypeOK
    <3>3. status' \in Updates!Statuses
      BY <2>8 DEF UpdateInv, Updates!TypeOK
    <3> QED BY <3>1, <3>2, <3>3, <2>4, <2>5, <2>6, <2>7 DEF Updates!TypeOK, Updates!Steps
  <2>10. /\ \A k \in DOMAIN results' : results'[k] \in GoodResult
         /\ status'.kind = "available" => status'.release \in Updates!Release
    BY <2>8 DEF UpdateInv
  <2> QED BY <2>4, <2>7, <2>9, <2>10 DEF UpdateInv
<1>3. CASE Updates!CheckForUpdate
  <2>1. /\ UNCHANGED <<Updates!site, Updates!ui, requests, restarts>> /\ step = "query"
        /\ final' \in [Version -> Updates!Files]
        /\ partial' \in [Version -> Updates!Files]
    BY <1>3, <1>1 DEF Updates!CheckForUpdate, Updates!files
  <2>2. CASE \E r \in Updates!SelectUpdate(job.channel) : Updates!Reports("found", r)
               /\ updateTroubles' = updateTroubles
    BY <2>1, <2>2, <1>1, SelectedIsRelease, WorkerReports
  <2>3. CASE Updates!Reports("nothing", Updates!NoRelease)
               /\ updateTroubles' = updateTroubles
    BY <2>1, <2>3, <1>1, WorkerReports
  <2>4. CASE Updates!Trouble /\ Updates!Reports("check failed", Updates!NoRelease)
    <3>1. updateTroubles' \in 0 .. Mishaps
      <4>1. Mishaps \in Nat
        BY UpdateConstants
      <4>2. updateTroubles > 0 /\ updateTroubles' = updateTroubles - 1
        BY <2>4 DEF Updates!Trouble
      <4> QED BY <4>1, <4>2, <1>1
    <3> QED BY <3>1, <2>1, <2>4, WorkerReports
  <2> QED BY <1>3, <2>2, <2>3, <2>4 DEF Updates!CheckForUpdate
<1>4. CASE Updates!PrepareDownload
  <2>1. Still /\ step = "prepare"
    BY <1>4 DEF Updates!PrepareDownload
  <2>2. CASE Updates!Goes("checksum") /\ UNCHANGED <<expected, updateTroubles>>
               /\ final' = [v \in Version |-> IF v = Updates!Target THEN final[v] ELSE NoFile]
               /\ partial' = [v \in Version |-> IF v = Updates!Target THEN partial[v] ELSE NoFile]
    <3>1. final' \in [Version -> Updates!Files] /\ partial' \in [Version -> Updates!Files]
      BY <2>2, <1>1
    <3> QED BY <3>1, <2>1, <2>2, <1>1, WorkerGoesOn
  <2>3. CASE Updates!Failing /\ UNCHANGED Updates!files
    BY <2>1, <2>3, <1>1, WorkerFails DEF Updates!files
  <2> QED BY <1>4, <2>2, <2>3 DEF Updates!PrepareDownload
<1>5. CASE Updates!FetchChecksum
  <2>1. Still /\ step = "checksum" /\ final' = final /\ partial' = partial
    BY <1>5 DEF Updates!FetchChecksum, Updates!files
  <2>2. CASE expected' = github[Updates!Target].sum /\ Updates!Goes("cached")
               /\ UNCHANGED updateTroubles
    <3>1. expected' \in Updates!Digest /\ updateTroubles' \in 0 .. Mishaps
      BY <2>1, <2>2, <1>1
    <3> QED BY <3>1, <2>1, <2>2, <1>1, WorkerGoesOn
  <2>3. CASE Updates!Reports("install failed", Updates!NoRelease)
               /\ UNCHANGED updateTroubles
    BY <2>1, <2>3, <1>1, WorkerReports
  <2>4. CASE Updates!Failing
    BY <2>1, <2>4, <1>1, WorkerFails
  <2> QED BY <1>5, <2>2, <2>3, <2>4 DEF Updates!FetchChecksum
<1>6. CASE Updates!UseCached
  <2>1. Still /\ step = "cached" /\ final' = final
    BY <1>6 DEF Updates!UseCached
  <2>2. CASE final[Updates!Target] = expected /\ Updates!Goes("launch")
               /\ UNCHANGED <<expected, updateTroubles, partial>>
    BY <2>1, <2>2, <1>1, WorkerGoesOn
  <2>3. CASE partial' = [partial EXCEPT ![Updates!Target] = NoFile]
               /\ Updates!Goes("download")
               /\ UNCHANGED <<expected, updateTroubles>>
    <3>1. partial' \in [Version -> Updates!Files]
      BY <2>3, <1>1
    <3> QED BY <3>1, <2>1, <2>3, <1>1, WorkerGoesOn
  <2>4. CASE Updates!Failing /\ UNCHANGED partial
    BY <2>1, <2>4, <1>1, WorkerFails
  <2> QED BY <1>6, <2>2, <2>3, <2>4 DEF Updates!UseCached
<1>7. CASE Updates!StartDownload
  <2>1. Still /\ step = "download" /\ final' = final
    BY <1>7 DEF Updates!StartDownload
  <2>2. CASE partial' = [partial EXCEPT ![Updates!Target] = Torn]
               /\ Updates!Goes("downloading")
               /\ UNCHANGED <<expected, updateTroubles>>
    <3>1. partial' \in [Version -> Updates!Files]
      BY <2>2, <1>1
    <3> QED BY <3>1, <2>1, <2>2, <1>1, WorkerGoesOn
  <2>3. CASE Updates!Failing /\ UNCHANGED partial
    BY <2>1, <2>3, <1>1, WorkerFails
  <2> QED BY <1>7, <2>2, <2>3 DEF Updates!StartDownload
<1>8. CASE Updates!FinishDownload
  <2>1. Still /\ step = "downloading" /\ final' = final
    BY <1>8 DEF Updates!FinishDownload
  <2>2. CASE partial' = [partial EXCEPT ![Updates!Target] = github[Updates!Target].exe]
               /\ UNCHANGED updateTroubles
               /\ Updates!Goes("verify") /\ UNCHANGED expected
    <3>1. partial' \in [Version -> Updates!Files]
      BY <2>1, <2>2, <1>1
    <3> QED BY <3>1, <2>1, <2>2, <1>1, WorkerGoesOn
  <2>3. CASE Updates!Trouble /\ UNCHANGED partial /\ Updates!Goes("verify")
               /\ UNCHANGED expected
    <3>1. updateTroubles' \in 0 .. Mishaps
      <4>1. Mishaps \in Nat
        BY UpdateConstants
      <4>2. updateTroubles > 0 /\ updateTroubles' = updateTroubles - 1
        BY <2>3 DEF Updates!Trouble
      <4> QED BY <4>1, <4>2, <1>1
    <3> QED BY <3>1, <2>1, <2>3, <1>1, WorkerGoesOn
  <2>4. CASE /\ \/ /\ Updates!Reports("install failed", Updates!NoRelease)
                   /\ UNCHANGED updateTroubles
                \/ Updates!Failing
             /\ partial' = [partial EXCEPT ![Updates!Target] = NoFile]
    <3>1. partial' \in [Version -> Updates!Files]
      BY <2>4, <1>1
    <3>2. CASE Updates!Reports("install failed", Updates!NoRelease)
                 /\ UNCHANGED updateTroubles
      BY <3>1, <3>2, <2>1, <1>1, WorkerReports
    <3>3. CASE Updates!Failing
      BY <3>1, <3>3, <2>1, <1>1, WorkerFails
    <3> QED BY <2>4, <3>2, <3>3
  <2> QED BY <1>8, <2>2, <2>3, <2>4 DEF Updates!FinishDownload
<1>9. CASE Updates!VerifyDownload
  <2>1. Still /\ step = "verify" /\ final' = final
    BY <1>9 DEF Updates!VerifyDownload
  <2>2. CASE Updates!Agrees(partial[Updates!Target]) /\ Updates!Goes("replace")
               /\ UNCHANGED <<expected, updateTroubles, partial>>
    BY <2>1, <2>2, <1>1, WorkerGoesOn DEF Updates!Agrees
  <2>3. CASE partial' = [partial EXCEPT ![Updates!Target] = NoFile]
               /\ Updates!Reports("install failed", Updates!NoRelease)
               /\ UNCHANGED updateTroubles
    <3>1. partial' \in [Version -> Updates!Files]
      BY <2>3, <1>1
    <3> QED BY <3>1, <2>1, <2>3, <1>1, WorkerReports
  <2>4. CASE Updates!Failing /\ UNCHANGED partial
    BY <2>1, <2>4, <1>1, WorkerFails
  <2> QED BY <1>9, <2>2, <2>3, <2>4 DEF Updates!VerifyDownload
<1>10. CASE Updates!RemoveCached
  <2>1. Still /\ step = "replace" /\ partial' = partial
    BY <1>10 DEF Updates!RemoveCached
  <2>2. CASE final' = [final EXCEPT ![Updates!Target] = NoFile] /\ Updates!Goes("activate")
               /\ UNCHANGED <<expected, updateTroubles>>
    <3>1. final' \in [Version -> Updates!Files]
      BY <2>2, <1>1
    <3>2. partial'[Updates!Target] = expected'
      BY <2>1, <2>2 DEF UpdateInv
    <3> QED BY <3>1, <3>2, <2>1, <2>2, <1>1, WorkerGoesOn
  <2>3. CASE Updates!Failing /\ UNCHANGED final
    BY <2>1, <2>3, <1>1, WorkerFails
  <2> QED BY <1>10, <2>2, <2>3 DEF Updates!RemoveCached
<1>11. CASE Updates!ActivateDownload
  <2>1. Still /\ step = "activate"
    BY <1>11 DEF Updates!ActivateDownload
  <2>2. CASE final' = [final EXCEPT ![Updates!Target] = partial[Updates!Target]]
               /\ partial' = [partial EXCEPT ![Updates!Target] = NoFile]
               /\ Updates!Goes("launch") /\ UNCHANGED <<expected, updateTroubles>>
    <3>1. final' \in [Version -> Updates!Files] /\ partial' \in [Version -> Updates!Files]
      BY <2>1, <2>2, <1>1
    <3>2. final'[Updates!Target] = expected'
      <4>1. partial[Updates!Target] = expected
        BY <2>1 DEF UpdateInv
      <4> QED BY <4>1, <2>1, <2>2, <1>1
    <3> QED BY <3>1, <3>2, <2>1, <2>2, <1>1, WorkerGoesOn
  <2>3. CASE Updates!Failing /\ UNCHANGED Updates!files
    BY <2>1, <2>3, <1>1, WorkerFails DEF Updates!files
  <2> QED BY <1>11, <2>2, <2>3 DEF Updates!ActivateDownload
<1>12. CASE Updates!LaunchUpdate
  <2>1. Still /\ final' = final /\ partial' = partial
    BY <1>12 DEF Updates!LaunchUpdate, Updates!files
  <2>2. CASE Updates!Reports("started", Updates!NoRelease) /\ UNCHANGED updateTroubles
    BY <2>1, <2>2, <1>1, WorkerReports
  <2>3. CASE Updates!Failing
    BY <2>1, <2>3, <1>1, WorkerFails
  <2> QED BY <1>12, <2>2, <2>3 DEF Updates!LaunchUpdate
<1> QED
  BY <1>2, <1>3, <1>4, <1>5, <1>6, <1>7, <1>8, <1>9, <1>10, <1>11, <1>12 DEF
     Updates!WorkerStep

\* An answer that the interface reads.
LEMMA PollSteps == ASSUME UpdateInv, Updates!PollUpdateWorker PROVE UpdateInv'
<1> DEFINE r == Head(results)
<1>1. /\ results # <<>> /\ results \in Seq(Updates!Result)
      /\ Len(results) <= Updates!Slots
      /\ \A k \in DOMAIN results : results[k] \in GoodResult
      /\ GoodResult \in SUBSET Updates!Result
  BY MessagesGood DEF Updates!PollUpdateWorker, UpdateInv, Updates!TypeOK
<1>2. /\ Head(results) = results[1] /\ 1 \in DOMAIN results
      /\ Tail(results) \in Seq(Updates!Result) /\ Len(Tail(results)) = Len(results) - 1
      /\ Len(results) \in Nat
      /\ \A P \in SUBSET Updates!Result : (\A k \in DOMAIN results : results[k] \in P)
           => \A k \in DOMAIN Tail(results) : Tail(results)[k] \in P
  BY <1>1, QueueShrinks
<1>3. /\ results' \in Seq(Updates!Result)
      /\ \A k \in DOMAIN results' : results'[k] \in GoodResult
  BY <1>1, <1>2 DEF Updates!PollUpdateWorker
<1>4. Len(results') <= Updates!Slots
  <2>1. Len(results') = Len(results) - 1 /\ Len(results) <= 2 /\ Len(results) \in Nat
    BY <1>1, <1>2 DEF Updates!PollUpdateWorker, Updates!Slots
  <2> HIDE DEF r
  <2>2. \A n \in Nat : \A m : n <= 2 /\ m = n - 1 => m <= 2
    OBVIOUS
  <2> QED BY <2>1, <2>2 DEF Updates!Slots
<1>5. r \in GoodResult /\ r \in Updates!Result
  BY <1>1, <1>2
<1>6. /\ github' = github /\ changes' = changes /\ channel' = channel /\ notify' = notify
      /\ updateAsked' = updateAsked /\ choices' = choices /\ requests' = requests
      /\ step' = step /\ job' = job /\ expected' = expected /\ final' = final
      /\ partial' = partial /\ updateTroubles' = updateTroubles /\ restarts' = restarts
  BY DEF Updates!PollUpdateWorker, Updates!site, Updates!worker, Updates!files
<1>7. /\ status' \in Updates!Statuses
      /\ status'.kind = "available" => status'.release \in Updates!Release
  <2>1. r.what \in {"found", "nothing", "check failed", "started", "install failed"}
    BY <1>5 DEF Updates!Result
  <2>2. r.what = "found" => r.release \in Updates!Release
    BY <1>5 DEF GoodResult
  <2>3. \/ r.what = "found" /\ status' = Updates!Status("available", r.release)
        \/ \E w \in {"idle", "up to date", "failed", "installing"} :
             status' = Updates!Status(w, Updates!NoRelease)
    BY <2>1 DEF Updates!PollUpdateWorker
  <2>4. CASE r.what = "found" /\ status' = Updates!Status("available", r.release)
    BY <2>2, <2>4, MessagesGood DEF Updates!Status
  <2>5. CASE \E w \in {"idle", "up to date", "failed", "installing"} :
               status' = Updates!Status(w, Updates!NoRelease)
    <3>1. PICK w \in {"idle", "up to date", "failed", "installing"} :
                 status' = Updates!Status(w, Updates!NoRelease)
      BY <2>5
    <3>2. status'.kind = w
      BY <3>1 DEF Updates!Status
    <3> QED BY <3>1, <3>2, MessagesGood
  <2> QED BY <2>3, <2>4, <2>5
<1>8. told' \in [Updates!Channel -> Version \cup {0}]
  <2>1. told \in [Updates!Channel -> Version \cup {0}] /\ channel \in Updates!Channel
    BY DEF UpdateInv, Updates!TypeOK
  <2>2. CASE r.what = "found"
    <3>1. r.release.version \in Version
      BY <1>5, <2>2 DEF GoodResult, Updates!Release
    <3>2. told' = told \/ told' = [told EXCEPT ![channel] = r.release.version]
      BY <2>2 DEF Updates!PollUpdateWorker, Updates!ShouldNotify
    <3> QED BY <2>1, <3>1, <3>2
  <2>3. CASE r.what # "found"
    BY <2>1, <2>3 DEF Updates!PollUpdateWorker
  <2> QED BY <2>2, <2>3
<1>9. Updates!TypeOK'
  <2>1. /\ github' \in Updates!Sites
        /\ channel' \in Updates!Channel /\ notify' \in {"yes", "no"}
        /\ updateAsked' \in {"yes", "no"}
        /\ choices' \in 0..1 /\ requests' \in Seq(Updates!Request)
        /\ Len(requests') <= Updates!Slots
        /\ changes' \in 0..Changes /\ restarts' \in 0..Restarts
        /\ updateTroubles' \in 0..Mishaps
    BY <1>6 DEF UpdateInv, Updates!TypeOK
  <2>2. /\ step' \in Updates!Steps
        /\ job' \in Updates!Request /\ expected' \in Updates!Digest
        /\ final' \in [Version -> Updates!Files]
        /\ partial' \in [Version -> Updates!Files]
    BY <1>6 DEF UpdateInv, Updates!TypeOK
  <2> QED BY <2>1, <2>2, <1>3, <1>4, <1>7, <1>8 DEF Updates!TypeOK
<1>10. Updates!Target' = Updates!Target
  BY <1>6 DEF Updates!Target
<1> QED BY <1>3, <1>6, <1>7, <1>9, <1>10 DEF UpdateInv

\* The program starts again.
LEMMA RestartSteps == ASSUME UpdateInv, Updates!Restart PROVE UpdateInv'
<1>1. /\ restarts > 0 /\ restarts' = restarts - 1
      /\ status' = Updates!Status("idle", Updates!NoRelease) /\ updateAsked' = "no"
      /\ requests' = <<>> /\ results' = <<>>
      /\ step' = "idle" /\ job' = Updates!NoJob /\ expected' = NoFile
      /\ github' = github /\ changes' = changes /\ channel' = channel /\ notify' = notify
      /\ choices' = choices /\ final' = final /\ partial' = partial
  BY DEF Updates!Restart, Updates!site, Updates!files
<1>2. restarts' \in 0 .. Restarts
  <2>1. restarts \in 0 .. Restarts
    BY DEF UpdateInv, Updates!TypeOK
  <2>2. Restarts \in Nat
    BY UpdateConstants
  <2> QED BY <1>1, <2>1, <2>2
<1>3. told' \in [Updates!Channel -> Version \cup {0}] /\ updateTroubles' \in 0 .. Mishaps
  <2>1. told \in [Updates!Channel -> Version \cup {0}] /\ updateTroubles \in 0 .. Mishaps
    BY DEF UpdateInv, Updates!TypeOK
  <2>2. Mishaps \in Nat
    BY UpdateConstants
  <2>3. \/ told' = told /\ updateTroubles' = updateTroubles
        \/ told' = [c \in Updates!Channel |-> 0] /\ updateTroubles > 0
             /\ updateTroubles' = updateTroubles - 1
    BY DEF Updates!Restart, Updates!Trouble
  <2> QED BY <2>1, <2>2, <2>3
<1>4. /\ requests' \in Seq(Updates!Request) /\ Len(requests') <= Updates!Slots
      /\ DOMAIN requests' = {}
      /\ results' \in Seq(Updates!Result) /\ Len(results') <= Updates!Slots
      /\ DOMAIN results' = {}
  BY <1>1 DEF Updates!Slots
<1>5. /\ status' \in Updates!Statuses
      /\ status'.kind # "available"
  BY <1>1, MessagesGood DEF Updates!Status
<1>6. Updates!TypeOK'
  <2>1. /\ github' \in Updates!Sites
        /\ channel' \in Updates!Channel /\ notify' \in {"yes", "no"}
        /\ updateAsked' \in {"yes", "no"}
        /\ choices' \in 0..1 /\ changes' \in 0..Changes
        /\ final' \in [Version -> Updates!Files]
        /\ partial' \in [Version -> Updates!Files]
    BY <1>1 DEF UpdateInv, Updates!TypeOK
  <2>2. step' = "idle" /\ job' \in Updates!Request /\ expected' \in Updates!Digest
    BY <1>1, MessagesGood DEF Updates!Digest
  <2> QED BY <2>1, <2>2, <1>2, <1>3, <1>4, <1>5 DEF Updates!TypeOK, Updates!Steps
<1> QED BY <1>1, <1>4, <1>5, <1>6 DEF UpdateInv

\* The invariant holds at the start.
LEMMA UpdateStarts == Updates!Init => UpdateInv
<1> SUFFICES ASSUME Updates!Init PROVE UpdateInv
  OBVIOUS
<1>1. /\ github \in Updates!Sites
      /\ channel \in Updates!Channel /\ notify \in {"yes", "no"}
      /\ updateAsked \in {"yes", "no"}
      /\ told \in [Updates!Channel -> Version \cup {0}] /\ choices \in 0..1
  <2>1. /\ github \in [Version -> [kind : {"no"}, exe : Executables, sum : Executables]]
        /\ channel \in Updates!Channel /\ notify = "yes" /\ updateAsked = "no"
        /\ told = [c \in Updates!Channel |-> 0] /\ choices = 1
    BY DEF Updates!Init
  <2> QED BY <2>1 DEF Updates!Sites
<1>2. /\ status \in Updates!Statuses
      /\ status.kind # "available"
  BY MessagesGood DEF Updates!Init, Updates!Status
<1>3. /\ requests \in Seq(Updates!Request) /\ Len(requests) <= Updates!Slots
      /\ DOMAIN requests = {}
      /\ results \in Seq(Updates!Result) /\ Len(results) <= Updates!Slots
      /\ DOMAIN results = {}
  BY DEF Updates!Init, Updates!Slots
<1>4. step = "idle" /\ job \in Updates!Request /\ expected \in Updates!Digest
  BY MessagesGood DEF Updates!Init, Updates!Digest
<1>5. final \in [Version -> Updates!Files] /\ partial \in [Version -> Updates!Files]
  BY DEF Updates!Init, Updates!Files
<1>6. changes \in 0..Changes /\ updateTroubles \in 0..Mishaps /\ restarts \in 0..Restarts
  BY UpdateConstants DEF Updates!Init
<1>7. Updates!TypeOK
  BY <1>1, <1>2, <1>3, <1>4, <1>5, <1>6 DEF Updates!TypeOK, Updates!Steps
<1> QED BY <1>2, <1>3, <1>4, <1>7 DEF UpdateInv

\* A step that changes nothing.
LEMMA UpdateUnchanged == ASSUME UpdateInv, UNCHANGED Updates!vars PROVE UpdateInv'
<1>1. /\ UNCHANGED <<Updates!site, Updates!ui, requests, restarts>>
      /\ step' = step /\ job' = job /\ expected' = expected /\ results' = results
      /\ final' = final /\ partial' = partial /\ updateTroubles' = updateTroubles
  BY DEF Updates!vars, Updates!worker, Updates!files
<1> QED BY <1>1, InterfaceRests DEF UpdateInv, Updates!TypeOK, Updates!Target

\* No step breaks the invariant.
LEMMA UpdateInvariance == Updates!Spec => []UpdateInv
<1>1. UpdateInv /\ [Updates!Next]_(Updates!vars) => UpdateInv'
  <2> SUFFICES ASSUME UpdateInv, [Updates!Next]_(Updates!vars) PROVE UpdateInv'
    OBVIOUS
  <2>1. CASE UNCHANGED Updates!vars
    BY <2>1, UpdateUnchanged
  <2>2. CASE Updates!Next
    BY <2>2, SiteSteps, UserSteps, PollSteps, WorkerSteps, RestartSteps DEF Updates!Next
  <2> QED BY <2>1, <2>2
<1> QED BY <1>1, UpdateStarts, PTL DEF Updates!Spec

\* Only a complete file whose content is that of the checksum read for this very
\* installation is started (download_update, launch_update), whatever crash, early end
\* or change on GitHub came between.
THEOREM OnlyVerifiedUpdates == Updates!Spec
  => [](Updates!TypeOK /\ Updates!OnlyVerifiedIsLaunched)
<1>1. UpdateInv => Updates!TypeOK /\ Updates!OnlyVerifiedIsLaunched
  BY DEF UpdateInv, Updates!OnlyVerifiedIsLaunched
<1> QED BY <1>1, UpdateInvariance, PTL

----------------------------------------------------------------------------
(***************************************************************************)
(* The way of a setting (SettingsSync).                                    *)
(***************************************************************************)

\* What the mailbox and the device worker hold: at most one configuration, at most one
\* display.
SettingsSlot == {<<>>} \cup {<<c>> : c \in Sync!Configs}
DisplaySlot  == {<<>>} \cup {<<d>> : d \in Displays}

\* The interface, the mailbox, the device worker and what is left of the bounds.
SyncUi ==
  /\ config \in Sync!Configs /\ saved \in Sync!Configs
  /\ profile \in Sync!Configs \cup {[webcam |-> Nothing, display |-> Nothing, other |-> 0]}
  /\ awaiting \in [webcam : Webcams \cup {Nothing, NotAwaiting},
                   display : Displays \cup {NotAwaiting}]
  /\ save \in {"no", "queued"} /\ saveError \in {"no", "shown"}
  /\ wanted \in Webcams \cup {Nothing}
SyncMail ==
  /\ settings \in SettingsSlot
  /\ ordered \in Seq(Displays) /\ Len(ordered) <= ChannelCapacity
SyncDevice ==
  /\ device \in Sync!Device /\ latest \in Sync!Device /\ shown \in Sync!Device
  /\ attached \subseteq Displays
  /\ waiting \in [settings : SettingsSlot, display : DisplaySlot]
SyncBudget ==
  /\ budget \in [choices : Nat, mishaps : Nat]
  /\ config.other + budget.choices <= Choices + 1
  /\ profile.other + budget.choices <= Choices + 1

\* A change is saved, about to be saved, or its failure shown; and every change of the
\* other settings was one of the user's choices.
SyncInv == SyncUi /\ SyncMail /\ SyncDevice /\ SyncBudget /\ Sync!SavedOrTold

\* What the proofs need to know of the constants.
LEMMA SyncConstants == ChannelCapacity \in Nat /\ ChannelCapacity > 0 /\ Choices \in Nat
  /\ Mishaps \in Nat
BY ApplicationAssumption DEF Sync!SettingsAssumption

\* What is spent of a bound.
LEMMA SpendingChoices ==
  ASSUME SyncBudget, Sync!Spends("choices")
  PROVE  /\ budget' \in [choices : Nat, mishaps : Nat]
         /\ budget'.choices = budget.choices - 1 /\ budget.choices \in Nat
         /\ budget.choices > 0
<1>1. budget \in [choices : Nat, mishaps : Nat]
  BY DEF SyncBudget
<1>2. budget.choices > 0 /\ budget' = [budget EXCEPT !.choices = @ - 1]
  BY DEF Sync!Spends
<1> QED BY <1>1, <1>2

\* The same for the mishaps, which leave the choices alone.
LEMMA SpendingMishaps ==
  ASSUME SyncBudget, Sync!Spends("mishaps")
  PROVE  /\ budget' \in [choices : Nat, mishaps : Nat]
         /\ budget'.choices = budget.choices
<1>1. budget \in [choices : Nat, mishaps : Nat]
  BY DEF SyncBudget
<1>2. budget.mishaps > 0 /\ budget' = [budget EXCEPT !.mishaps = @ - 1]
  BY DEF Sync!Spends
<1> QED BY <1>1, <1>2

\* A save leaves the choices alone; and the configuration saved is on disk or the
\* failure is shown.
LEMMA Saving ==
  ASSUME SyncUi, SyncBudget, NEW c \in Sync!Configs, Sync!Saves(c)
  PROVE  /\ saved' \in Sync!Configs /\ saveError' \in {"no", "shown"}
         /\ saved' = c \/ saveError' = "shown"
         /\ budget' \in [choices : Nat, mishaps : Nat] /\ budget'.choices = budget.choices
<1>1. CASE saved' = c /\ saveError' = "no" /\ UNCHANGED budget
  BY <1>1 DEF SyncBudget
<1>2. CASE Sync!Spends("mishaps") /\ saveError' = "shown" /\ UNCHANGED saved
  BY <1>2, SpendingMishaps DEF SyncUi
<1> QED BY <1>1, <1>2 DEF Sync!Saves

\* A display that is asked for.
LEMMA Sending ==
  ASSUME SyncMail, NEW display \in Displays, Sync!SendsMonitor(display)
  PROVE  ordered' \in Seq(Displays) /\ Len(ordered') <= ChannelCapacity
<1>1. ordered \in Seq(Displays) /\ Len(ordered) <= ChannelCapacity /\ Len(ordered) \in Nat
  BY DEF SyncMail
<1>2. CASE Len(ordered) < ChannelCapacity
  <2>1. ordered' = Append(ordered, display)
    BY <1>2 DEF Sync!SendsMonitor
  <2>2. /\ ordered' \in Seq(Displays) /\ Len(ordered') = Len(ordered) + 1
    BY <1>1, <2>1
  <2>3. \A n \in Nat, m \in Nat : n < m => n + 1 <= m
    OBVIOUS
  <2> QED BY <1>1, <1>2, <2>2, <2>3, SyncConstants
<1>3. CASE ~(Len(ordered) < ChannelCapacity)
  BY <1>1, <1>3 DEF Sync!SendsMonitor
<1> QED BY <1>2, <1>3

\* Another webcam in a configuration.
LEMMA WebcamTyped ==
  ASSUME NEW c \in Sync!Configs, NEW w \in Webcams \cup {Nothing}
  PROVE  /\ [c EXCEPT !.webcam = w] \in Sync!Configs
         /\ [c EXCEPT !.webcam = w].other = c.other
BY DEF Sync!Configs

\* Another display in a configuration.
LEMMA DisplayTyped ==
  ASSUME NEW c \in Sync!Configs, NEW d \in Displays \cup {Nothing}
  PROVE  /\ [c EXCEPT !.display = d] \in Sync!Configs
         /\ [c EXCEPT !.display = d].other = c.other
BY DEF Sync!Configs

\* What the interface takes over from a snapshot changes the devices only.
LEMMA SynchronizedTyped ==
  ASSUME SyncUi, SyncDevice
  PROVE  Sync!Synchronized \in Sync!Configs /\ Sync!Synchronized.other = config.other
<1>1. config \in Sync!Configs /\ shown \in Sync!Device
  BY DEF SyncUi, SyncDevice
<1>2. /\ (IF Sync!TakesWebcam THEN shown.webcam ELSE config.webcam)
           \in Webcams \cup {Nothing}
      /\ (IF Sync!TakesDisplay THEN shown.display ELSE config.display)
           \in Displays \cup {Nothing}
  BY <1>1 DEF Sync!Configs, Sync!Device
<1> DEFINE w == IF Sync!TakesWebcam THEN shown.webcam ELSE config.webcam
           d == IF Sync!TakesDisplay THEN shown.display ELSE config.display
<1>3. Sync!Synchronized = [[config EXCEPT !.webcam = w] EXCEPT !.display = d]
  BY DEF Sync!Synchronized
<1>4. w \in Webcams \cup {Nothing} /\ d \in Displays \cup {Nothing}
  BY <1>2
<1> HIDE DEF w, d
<1>5. [config EXCEPT !.webcam = w] \in Sync!Configs
        /\ [config EXCEPT !.webcam = w].other = config.other
  BY <1>1, <1>4, WebcamTyped
<1> QED BY <1>3, <1>4, <1>5, DisplayTyped

\* What the user does.
LEMMA ChooseWebcamKeeps ==
  ASSUME SyncInv, NEW webcam \in Webcams \cup {Nothing}, Sync!ChooseWebcam(webcam)
  PROVE  SyncInv'
<1>1. SyncUi /\ SyncMail /\ SyncDevice /\ SyncBudget
  BY DEF SyncInv
<1>2. /\ budget' \in [choices : Nat, mishaps : Nat]
      /\ budget'.choices = budget.choices - 1 /\ budget.choices \in Nat
  BY <1>1, SpendingChoices DEF Sync!ChooseWebcam
<1>3. config' \in Sync!Configs /\ config'.other = config.other /\ config.other \in Nat
  BY <1>1, WebcamTyped, SyncConstants DEF Sync!ChooseWebcam, SyncUi, Sync!Configs
<1>4. awaiting'
        \in [webcam : Webcams \cup {Nothing, NotAwaiting}, display : Displays \cup {NotAwaiting}]
  BY <1>1 DEF Sync!ChooseWebcam, SyncUi
<1>5. /\ wanted' = webcam /\ save' = "queued" /\ saveError' = saveError /\ saved' = saved
      /\ profile' = profile /\ settings' = settings /\ ordered' = ordered
      /\ shown' = shown
      /\ device' = device /\ latest' = latest /\ attached' = attached
      /\ waiting' = waiting
  BY DEF Sync!ChooseWebcam, Sync!deviceVars
<1>6. SyncUi'
  BY <1>1, <1>3, <1>4, <1>5 DEF SyncUi
<1>7. SyncBudget'
  <2>1. config.other + budget.choices <= Choices + 1
          /\ profile.other + budget.choices <= Choices + 1
        /\ profile.other \in Nat
    BY <1>1, SyncConstants DEF SyncBudget, SyncUi, Sync!Configs
  <2> QED BY <2>1, <1>2, <1>3, <1>5, SyncConstants DEF SyncBudget
<1>8. SyncMail' /\ SyncDevice' /\ Sync!SavedOrTold'
  BY <1>1, <1>5 DEF SyncMail, SyncDevice, Sync!SavedOrTold
<1> QED BY <1>6, <1>7, <1>8 DEF SyncInv

\* Any other setting: a change uses one choice up.
LEMMA ChangeOtherKeeps == ASSUME SyncInv, Sync!ChangeOther PROVE SyncInv'
<1>1. SyncUi /\ SyncMail /\ SyncDevice /\ SyncBudget
  BY DEF SyncInv
<1>2. /\ budget' \in [choices : Nat, mishaps : Nat]
      /\ budget'.choices = budget.choices - 1 /\ budget.choices \in Nat
      /\ budget.choices > 0
  BY <1>1, SpendingChoices DEF Sync!ChangeOther
<1>3. /\ config \in Sync!Configs /\ config.other \in 1 .. Choices + 1 /\ Choices \in Nat
      /\ config.other + budget.choices <= Choices + 1
      /\ profile.other + budget.choices <= Choices + 1
  BY <1>1, SyncConstants DEF SyncBudget, SyncUi, Sync!Configs
<1>4. config.other + 1 \in 1 .. Choices + 1
  BY <1>2, <1>3
<1>5. config' = [config EXCEPT !.other = config.other + 1]
  BY DEF Sync!ChangeOther
<1>6. config' \in Sync!Configs /\ config'.other = config.other + 1
  BY <1>3, <1>4, <1>5 DEF Sync!Configs
<1>7. /\ save' = "queued" /\ saveError' = saveError /\ saved' = saved
      /\ awaiting' = awaiting
      /\ profile' = profile /\ settings' = settings /\ ordered' = ordered
      /\ shown' = shown
      /\ device' = device /\ latest' = latest /\ attached' = attached
      /\ waiting' = waiting
      /\ wanted' = wanted
  BY DEF Sync!ChangeOther, Sync!deviceVars
<1>8. SyncUi'
  BY <1>1, <1>6, <1>7 DEF SyncUi
<1>9. SyncBudget'
  <2>1. profile.other \in Nat
    BY <1>1, SyncConstants DEF SyncUi, Sync!Configs
  <2> QED BY <2>1, <1>2, <1>3, <1>6, <1>7 DEF SyncBudget
<1>10. SyncMail' /\ SyncDevice' /\ Sync!SavedOrTold'
  BY <1>1, <1>7 DEF SyncMail, SyncDevice, Sync!SavedOrTold
<1> QED BY <1>8, <1>9, <1>10 DEF SyncInv

\* A display that is asked for, in the settings or in the guide.
LEMMA ChooseDisplayKeeps ==
  ASSUME SyncInv, NEW display \in Displays,
         Sync!ChooseDisplay(display) \/ Sync!ChooseDisplayInGuide(display)
  PROVE  SyncInv'
<1>1. SyncUi /\ SyncMail /\ SyncDevice /\ SyncBudget /\ Sync!SavedOrTold
  BY DEF SyncInv
<1>2. /\ budget' \in [choices : Nat, mishaps : Nat]
      /\ budget'.choices = budget.choices - 1 /\ budget.choices \in Nat
  BY <1>1, SpendingChoices DEF Sync!ChooseDisplay, Sync!ChooseDisplayInGuide
<1>3. ordered' \in Seq(Displays) /\ Len(ordered') <= ChannelCapacity
  BY <1>1, Sending DEF Sync!ChooseDisplay, Sync!ChooseDisplayInGuide
<1>4. awaiting'
        \in [webcam : Webcams \cup {Nothing, NotAwaiting}, display : Displays \cup {NotAwaiting}]
  BY <1>1 DEF Sync!ChooseDisplay, Sync!ChooseDisplayInGuide, Sync!uiVars, SyncUi
<1>5. /\ config' = config /\ save' = save /\ saveError' = saveError /\ saved' = saved
      /\ profile' = profile /\ settings' = settings /\ shown' = shown /\ wanted' = wanted
      /\ device' = device /\ latest' = latest /\ attached' = attached
      /\ waiting' = waiting
  BY DEF Sync!ChooseDisplay, Sync!ChooseDisplayInGuide, Sync!uiVars, Sync!deviceVars
<1>6. SyncUi'
  BY <1>1, <1>4, <1>5 DEF SyncUi
<1>7. SyncBudget'
  <2>1. /\ config.other + budget.choices <= Choices + 1
        /\ profile.other + budget.choices <= Choices + 1
        /\ profile.other \in Nat /\ config.other \in Nat
    BY <1>1, SyncConstants DEF SyncBudget, SyncUi, Sync!Configs
  <2> QED BY <2>1, <1>2, <1>5, SyncConstants DEF SyncBudget
<1>8. SyncMail' /\ SyncDevice' /\ Sync!SavedOrTold'
  BY <1>1, <1>3, <1>5 DEF SyncMail, SyncDevice, Sync!SavedOrTold
<1> QED BY <1>6, <1>7, <1>8 DEF SyncInv

\* The admin profile is saved.
LEMMA SaveProfileKeeps == ASSUME SyncInv, Sync!SaveProfile PROVE SyncInv'
<1>1. SyncUi /\ SyncMail /\ SyncDevice /\ SyncBudget /\ Sync!SavedOrTold
  BY DEF SyncInv
<1>2. /\ budget' \in [choices : Nat, mishaps : Nat]
      /\ budget'.choices = budget.choices - 1 /\ budget.choices \in Nat
  BY <1>1, SpendingChoices DEF Sync!SaveProfile
<1>3. /\ profile' = config /\ config' = config /\ save' = save /\ saveError' = saveError
      /\ saved' = saved /\ awaiting' = awaiting /\ wanted' = wanted
      /\ settings' = settings /\ ordered' = ordered /\ shown' = shown
      /\ device' = device /\ latest' = latest /\ attached' = attached
      /\ waiting' = waiting
  BY DEF Sync!SaveProfile, Sync!deviceVars
<1>4. SyncUi'
  BY <1>1, <1>3 DEF SyncUi
<1>5. SyncBudget'
  <2>1. config.other + budget.choices <= Choices + 1 /\ config.other \in Nat
    BY <1>1, SyncConstants DEF SyncBudget, SyncUi, Sync!Configs
  <2> QED BY <2>1, <1>2, <1>3, SyncConstants DEF SyncBudget
<1>6. SyncMail' /\ SyncDevice' /\ Sync!SavedOrTold'
  BY <1>1, <1>3 DEF SyncMail, SyncDevice, Sync!SavedOrTold
<1> QED BY <1>4, <1>5, <1>6 DEF SyncInv

\* The admin profile is loaded: it is on disk when it is the configuration.
LEMMA LoadProfileKeeps == ASSUME SyncInv, Sync!LoadProfile PROVE SyncInv'
<1>1. SyncUi /\ SyncMail /\ SyncDevice /\ SyncBudget
  BY DEF SyncInv
<1>2. /\ budget' \in [choices : Nat, mishaps : Nat]
      /\ budget'.choices = budget.choices - 1 /\ budget.choices \in Nat
  BY <1>1, SpendingChoices DEF Sync!LoadProfile
<1>3. profile \in Sync!Configs
  <2>1. profile.other > 0
    BY DEF Sync!LoadProfile
  <2>2. [webcam |-> Nothing, display |-> Nothing, other |-> 0].other = 0
    OBVIOUS
  <2> QED BY <2>1, <2>2, <1>1 DEF SyncUi
<1>4. PICK display \in Displays :
        /\ awaiting' = [webcam |-> profile.webcam, display |-> display]
        /\ Sync!SendsMonitor(display)
  BY DEF Sync!LoadProfile
<1>5. ordered' \in Seq(Displays) /\ Len(ordered') <= ChannelCapacity
  BY <1>1, <1>4, Sending
<1>6. /\ saved' = profile /\ config' = profile /\ wanted' = profile.webcam /\ save' = "no"
      /\ saveError' = "no" /\ settings' = <<profile>> /\ profile' = profile
      /\ shown' = shown
      /\ device' = device /\ latest' = latest /\ attached' = attached
      /\ waiting' = waiting
  BY DEF Sync!LoadProfile, Sync!SendsSettings, Sync!deviceVars
<1>7. profile.webcam \in Webcams \cup {Nothing} /\ profile.other \in Nat
  BY <1>3, SyncConstants DEF Sync!Configs
<1>8. SyncUi'
  BY <1>3, <1>4, <1>6, <1>7 DEF SyncUi
<1>9. SyncBudget'
  <2>1. profile.other + budget.choices <= Choices + 1
    BY <1>1 DEF SyncBudget
  <2> QED BY <2>1, <1>2, <1>6, <1>7, SyncConstants DEF SyncBudget
<1>10. SyncMail'
  BY <1>3, <1>5, <1>6 DEF SyncMail, SettingsSlot
<1>11. SyncDevice' /\ Sync!SavedOrTold'
  BY <1>1, <1>6 DEF SyncDevice, Sync!SavedOrTold
<1> QED BY <1>8, <1>9, <1>10, <1>11 DEF SyncInv

\* A frame of the interface: what is taken over is saved, or its failure shown.
LEMMA LogicKeeps == ASSUME SyncInv, Sync!Logic PROVE SyncInv'
<1>1. SyncUi /\ SyncMail /\ SyncDevice /\ SyncBudget /\ Sync!SavedOrTold
  BY DEF SyncInv
<1>2. config' \in Sync!Configs /\ config'.other = config.other
  BY <1>1, SynchronizedTyped DEF Sync!Logic
<1>3. awaiting'
        \in [webcam : Webcams \cup {Nothing, NotAwaiting}, display : Displays \cup {NotAwaiting}]
  <2>1. awaiting \in [webcam : Webcams \cup {Nothing, NotAwaiting}, display : Displays \cup {NotAwaiting}]
    BY <1>1 DEF SyncUi
  <2>2. awaiting'
          = [webcam  |-> IF Sync!Confirmed("webcam") THEN NotAwaiting ELSE awaiting.webcam,
                     display |-> IF Sync!Confirmed("display")
                       THEN NotAwaiting ELSE awaiting.display]
    BY DEF Sync!Logic
  <2> QED BY <2>1, <2>2
<1>4. /\ save' = save /\ profile' = profile /\ wanted' = wanted
      /\ settings' = settings /\ ordered' = ordered /\ shown' = shown
      /\ device' = device /\ latest' = latest /\ attached' = attached
      /\ waiting' = waiting
  BY DEF Sync!Logic, Sync!deviceVars
<1>5. /\ saved' \in Sync!Configs /\ saveError' \in {"no", "shown"}
      /\ budget' \in [choices : Nat, mishaps : Nat] /\ budget'.choices = budget.choices
      /\ saved' = config' \/ saveError' = "shown"
         \/ (config' = config /\ saved' = saved /\ saveError' = saveError)
  <2>1. CASE config' # config
    <3> DEFINE c == config'
    <3>1. c \in Sync!Configs /\ Sync!Saves(c)
      BY <1>2, <2>1 DEF Sync!Logic
    <3> HIDE DEF c
    <3>2. /\ saved' \in Sync!Configs /\ saveError' \in {"no", "shown"}
          /\ saved' = c \/ saveError' = "shown"
          /\ budget' \in [choices : Nat, mishaps : Nat]
          /\ budget'.choices = budget.choices
      BY <3>1, <1>1, Saving
    <3> QED BY <3>2 DEF c
  <2>2. CASE config' = config
    BY <1>1, <2>2 DEF Sync!Logic, SyncUi, SyncBudget
  <2> QED BY <2>1, <2>2
<1>6. SyncUi'
  BY <1>1, <1>2, <1>3, <1>4, <1>5 DEF SyncUi
<1>7. SyncBudget'
  BY <1>1, <1>2, <1>4, <1>5 DEF SyncBudget
<1>8. SyncMail' /\ SyncDevice' /\ Sync!SavedOrTold'
  BY <1>1, <1>4, <1>5 DEF SyncMail, SyncDevice, Sync!SavedOrTold
<1> QED BY <1>6, <1>7, <1>8 DEF SyncInv

\* A queued save is written, or its failure shown.
LEMMA FlushKeeps == ASSUME SyncInv, Sync!Flush PROVE SyncInv'
<1>1. SyncUi /\ SyncMail /\ SyncDevice /\ SyncBudget
  BY DEF SyncInv
<1>2. config \in Sync!Configs
  BY <1>1 DEF SyncUi
<1>3. /\ save' = "no" /\ settings' = <<config>> /\ Sync!Saves(config)
      /\ config' = config /\ awaiting' = awaiting /\ profile' = profile
      /\ wanted' = wanted
      /\ ordered' = ordered /\ shown' = shown
      /\ device' = device /\ latest' = latest /\ attached' = attached
      /\ waiting' = waiting
  BY DEF Sync!Flush, Sync!Flushes, Sync!SendsSettings, Sync!deviceVars
<1>4. /\ saved' \in Sync!Configs /\ saveError' \in {"no", "shown"}
      /\ saved' = config \/ saveError' = "shown"
      /\ budget' \in [choices : Nat, mishaps : Nat] /\ budget'.choices = budget.choices
  BY <1>1, <1>2, <1>3, Saving
<1>5. SyncUi'
  BY <1>1, <1>3, <1>4 DEF SyncUi
<1>6. SyncBudget'
  BY <1>1, <1>3, <1>4 DEF SyncBudget
<1>7. SyncMail'
  BY <1>1, <1>2, <1>3 DEF SyncMail, SettingsSlot
<1>8. SyncDevice' /\ Sync!SavedOrTold'
  BY <1>1, <1>3, <1>4 DEF SyncDevice, Sync!SavedOrTold
<1> QED BY <1>5, <1>6, <1>7, <1>8 DEF SyncInv

\* A step of the runtime's loop or of the device worker leaves the interface alone.
LEMMA InterfaceUntouched ==
  ASSUME SyncInv, UNCHANGED Sync!uiVars, SyncMail', SyncDevice',
         budget' \in [choices : Nat, mishaps : Nat], budget'.choices = budget.choices
  PROVE  SyncInv'
<1>1. /\ config' = config /\ awaiting' = awaiting /\ save' = save
      /\ saveError' = saveError
      /\ saved' = saved /\ profile' = profile /\ wanted' = wanted
  BY DEF Sync!uiVars
<1>2. SyncUi'
  BY <1>1 DEF SyncInv, SyncUi
<1>3. SyncBudget' /\ Sync!SavedOrTold'
  BY <1>1 DEF SyncInv, SyncBudget, Sync!SavedOrTold
<1> QED BY <1>2, <1>3 DEF SyncInv

\* The runtime's loop passes commands and snapshots on.
LEMMA RuntimeKeeps ==
  ASSUME SyncInv, Sync!TakeOrdered \/ Sync!TakeSettings \/ Sync!Publish
  PROVE  SyncInv'
<1>1. SyncMail /\ SyncDevice /\ budget \in [choices : Nat, mishaps : Nat]
  BY DEF SyncInv, SyncBudget
<1>2. CASE Sync!TakeOrdered
  <2>1. /\ ordered # <<>> /\ ordered' = Tail(ordered) /\ settings' = settings
        /\ waiting' = [waiting EXCEPT !.display = <<Head(ordered)>>]
        /\ UNCHANGED Sync!uiVars /\ device' = device /\ latest' = latest
        /\ attached' = attached
        /\ shown' = shown /\ budget' = budget
    BY <1>2 DEF Sync!TakeOrdered
  <2>2. ordered \in Seq(Displays) /\ Len(ordered) <= ChannelCapacity
    BY <1>1 DEF SyncMail
  <2>3. /\ Head(ordered) \in Displays /\ Tail(ordered) \in Seq(Displays)
        /\ Len(Tail(ordered)) = Len(ordered) - 1 /\ Len(ordered) \in Nat
    BY <2>1, <2>2
  <2>4. SyncMail'
    <3>1. \A n \in Nat, m \in Nat : n <= m => n - 1 <= m
      OBVIOUS
    <3>2. Len(ordered') <= ChannelCapacity
      BY <2>1, <2>2, <2>3, <3>1, SyncConstants
    <3> QED BY <2>1, <2>3, <3>2, <1>1 DEF SyncMail
  <2>5. SyncDevice'
    BY <1>1, <2>1, <2>3 DEF SyncDevice, DisplaySlot
  <2> QED BY <2>1, <2>4, <2>5, <1>1, InterfaceUntouched
<1>3. CASE Sync!TakeSettings
  <2>1. /\ waiting' = [waiting EXCEPT !.settings = settings] /\ settings' = <<>>
        /\ UNCHANGED Sync!uiVars /\ ordered' = ordered /\ device' = device
        /\ latest' = latest
        /\ attached' = attached /\ shown' = shown /\ budget' = budget
    BY <1>3 DEF Sync!TakeSettings
  <2>2. SyncMail'
    BY <1>1, <2>1 DEF SyncMail, SettingsSlot
  <2>3. SyncDevice'
    BY <1>1, <2>1 DEF SyncDevice, SyncMail
  <2> QED BY <2>1, <2>2, <2>3, <1>1, InterfaceUntouched
<1>4. CASE Sync!Publish
  <2>1. /\ shown' = latest /\ UNCHANGED Sync!uiVars /\ settings' = settings
        /\ ordered' = ordered
        /\ waiting' = waiting /\ device' = device /\ latest' = latest
        /\ attached' = attached
        /\ budget' = budget
    BY <1>4 DEF Sync!Publish, Sync!deviceVars
  <2>2. SyncMail' /\ SyncDevice'
    BY <1>1, <2>1 DEF SyncMail, SyncDevice
  <2> QED BY <2>1, <2>2, <1>1, InterfaceUntouched
<1> QED BY <1>2, <1>3, <1>4

\* The device worker does what waits for it and reports.
LEMMA WorkerKeeps ==
  ASSUME SyncInv, Sync!Execute \/ Sync!Report
  PROVE  SyncInv'
<1>1. SyncMail /\ SyncDevice /\ budget \in [choices : Nat, mishaps : Nat]
  BY DEF SyncInv, SyncBudget
<1>2. CASE Sync!Execute
  <2> DEFINE w == IF waiting.settings
                    = <<>> THEN device.webcam ELSE waiting.settings[1].webcam
             d == IF waiting.display # <<>> /\ waiting.display[1] \in attached
                  THEN waiting.display[1] ELSE device.display
  <2>1. /\ waiting' = [settings |-> <<>>, display |-> <<>>]
        /\ device' = [webcam |-> w, display |-> d]
        /\ UNCHANGED Sync!uiVars /\ settings' = settings /\ ordered' = ordered
        /\ latest' = latest
        /\ attached' = attached /\ shown' = shown /\ budget' = budget
    BY <1>2 DEF Sync!Execute
  <2>2. w \in Webcams \cup {Nothing}
    <3>1. waiting.settings \in SettingsSlot /\ device.webcam \in Webcams \cup {Nothing}
      BY <1>1 DEF SyncDevice, Sync!Device
    <3>2. CASE waiting.settings = <<>>
      BY <3>1, <3>2
    <3>3. CASE waiting.settings # <<>>
      <4>1. PICK c \in Sync!Configs : waiting.settings = <<c>>
        BY <3>1, <3>3 DEF SettingsSlot
      <4>2. waiting.settings[1] = c /\ c.webcam \in Webcams \cup {Nothing}
        BY <4>1 DEF Sync!Configs
      <4> QED BY <3>3, <4>2
    <3> QED BY <3>2, <3>3
  <2>3. d \in Displays \cup {Nothing}
    BY <1>1 DEF SyncDevice, Sync!Device
  <2>4. device' \in Sync!Device
    BY <2>1, <2>2, <2>3 DEF Sync!Device
  <2>5. SyncMail' /\ SyncDevice'
    BY <1>1, <2>1, <2>4 DEF SyncMail, SyncDevice, SettingsSlot, DisplaySlot
  <2> QED BY <2>1, <2>5, <1>1, InterfaceUntouched
<1>3. CASE Sync!Report
  <2>1. /\ latest' = device /\ UNCHANGED Sync!uiVars /\ settings' = settings
        /\ ordered' = ordered
        /\ waiting' = waiting /\ device' = device /\ shown' = shown
        /\ attached' = attached
        /\ budget' = budget
    BY <1>3 DEF Sync!Report
  <2>2. SyncMail' /\ SyncDevice'
    BY <1>1, <2>1 DEF SyncMail, SyncDevice
  <2> QED BY <2>1, <2>2, <1>1, InterfaceUntouched
<1> QED BY <1>2, <1>3

\* The monitor tracker selects a display; a display disappears.
LEMMA MishapsKeep ==
  ASSUME SyncInv, NEW display \in Displays, Sync!Track(display) \/ Sync!Unplug(display)
  PROVE  SyncInv'
<1>1. SyncMail /\ SyncDevice /\ SyncBudget
  BY DEF SyncInv
<1>2. budget' \in [choices : Nat, mishaps : Nat] /\ budget'.choices = budget.choices
  BY <1>1, SpendingMishaps DEF Sync!Track, Sync!Unplug
<1>3. device' \in Sync!Device
  BY <1>1 DEF Sync!Track, Sync!Unplug, SyncDevice, Sync!Device
<1>4. /\ attached' = attached \/ attached' = attached \ {display}
      /\ UNCHANGED Sync!uiVars /\ settings' = settings /\ ordered' = ordered
      /\ waiting' = waiting /\ latest' = latest /\ shown' = shown
  BY DEF Sync!Track, Sync!Unplug
<1>5. SyncMail' /\ SyncDevice'
  BY <1>1, <1>3, <1>4 DEF SyncMail, SyncDevice
<1> QED BY <1>2, <1>4, <1>5, InterfaceUntouched

\* The invariant holds at the start.
LEMMA SyncStarts == Sync!Init => SyncInv
<1> SUFFICES ASSUME Sync!Init PROVE SyncInv
  OBVIOUS
<1>1. /\ config \in Sync!Configs /\ config.other = 1 /\ saved = config
      /\ profile = [webcam |-> Nothing, display |-> Nothing, other |-> 0]
      /\ awaiting = [webcam |-> NotAwaiting, display |-> NotAwaiting]
      /\ save = "no" /\ saveError = "no" /\ settings = <<>> /\ ordered = <<>>
      /\ waiting = [settings |-> <<>>, display |-> <<>>] /\ attached = Displays
      /\ \E display \in Displays : device = [webcam |-> config.webcam, display |-> display]
      /\ latest = device /\ shown = device /\ wanted = config.webcam
      /\ budget = [choices |-> Choices, mishaps |-> Mishaps]
  BY DEF Sync!Init
<1>2. config.webcam \in Webcams \cup {Nothing}
  BY <1>1 DEF Sync!Configs
<1>3. SyncUi
  BY <1>1, <1>2 DEF SyncUi
<1>4. SyncMail
  BY <1>1, SyncConstants DEF SyncMail, SettingsSlot
<1>5. device \in Sync!Device
  BY <1>1, <1>2 DEF Sync!Device
<1>6. SyncDevice
  BY <1>1, <1>5 DEF SyncDevice, SettingsSlot, DisplaySlot
<1>7. SyncBudget
  BY <1>1, SyncConstants DEF SyncBudget
<1> QED BY <1>1, <1>3, <1>4, <1>6, <1>7 DEF SyncInv, Sync!SavedOrTold

\* No step breaks the invariant.
LEMMA SyncInvariance == Sync!Spec => []SyncInv
<1>1. SyncInv /\ [Sync!Next]_(Sync!vars) => SyncInv'
  <2> SUFFICES ASSUME SyncInv, [Sync!Next]_(Sync!vars) PROVE SyncInv'
    OBVIOUS
  <2>1. CASE UNCHANGED Sync!vars
    <3>1. /\ UNCHANGED Sync!uiVars /\ settings' = settings /\ ordered' = ordered
          /\ waiting' = waiting /\ device' = device /\ latest' = latest
          /\ attached' = attached
          /\ shown' = shown /\ budget' = budget
      BY <2>1 DEF Sync!vars, Sync!deviceVars
    <3>2. SyncMail' /\ SyncDevice' /\ budget' \in [choices : Nat, mishaps : Nat]
      BY <3>1 DEF SyncInv, SyncMail, SyncDevice, SyncBudget
    <3> QED BY <3>1, <3>2, InterfaceUntouched
  <2>2. CASE \E webcam \in Webcams \cup {Nothing} : Sync!ChooseWebcam(webcam)
    BY <2>2, ChooseWebcamKeeps
  <2>3. CASE Sync!ChangeOther \/ Sync!SaveProfile \/ Sync!LoadProfile
    BY <2>3, ChangeOtherKeeps, SaveProfileKeeps, LoadProfileKeeps
  <2>4. CASE \E display \in Displays : Sync!ChooseDisplay(display)
               \/ Sync!ChooseDisplayInGuide(display)
    BY <2>4, ChooseDisplayKeeps
  <2>5. CASE \E display \in Displays : Sync!Track(display) \/ Sync!Unplug(display)
    BY <2>5, MishapsKeep
  <2>6. CASE Sync!Logic \/ Sync!Flush
    BY <2>6, LogicKeeps, FlushKeeps
  <2>7. CASE Sync!TakeOrdered \/ Sync!TakeSettings \/ Sync!Publish
    BY <2>7, RuntimeKeeps
  <2>8. CASE Sync!Execute \/ Sync!Report
    BY <2>8, WorkerKeeps
  <2> QED BY <2>1, <2>2, <2>3, <2>4, <2>5, <2>6, <2>7, <2>8 DEF Sync!Next
<1> QED BY <1>1, SyncStarts, PTL DEF Sync!Spec

\* A change that no save is queued for is in config.json, or the interface shows that it
\* could not be saved (flush_settings, sync_selected_monitor_preference).
THEOREM ChangesAreSavedOrTold == Sync!Spec => [](Sync!TypeOK /\ Sync!SavedOrTold)
<1>1. SyncInv => Sync!TypeOK /\ Sync!SavedOrTold
  BY DEF SyncInv, SyncUi, SyncMail, SyncDevice, Sync!TypeOK
<1> QED BY <1>1, SyncInvariance, PTL

----------------------------------------------------------------------------
(***************************************************************************)
(* The composition (MCApplication).                                        *)
(***************************************************************************)

\* A behaviour of the composition is a behaviour of the installation.
LEMMA ApplicationRunsInstallation == MCSpec => Spec
<1>1. MCInit => Init
  BY DEF MCInit
<1>2. [MCNext]_<<part, vars, updateVars, syncVars>> => [Next]_vars
  BY DEF MCNext
<1> QED BY <1>1, <1>2, PTL DEF MCSpec, Spec

\* It is a behaviour of the updates.
LEMMA ApplicationRunsUpdates == MCSpec => Updates!Spec
<1>1. MCInit => Updates!Init
  BY DEF MCInit
<1>2. updateVars' = updateVars => Updates!vars' = Updates!vars
  BY DEF updateVars, Updates!vars, Updates!site, Updates!ui, Updates!worker, Updates!files
<1>3. [MCNext]_<<part, vars, updateVars, syncVars>> => [Updates!Next]_(Updates!vars)
  BY <1>2 DEF MCNext
<1> QED BY <1>1, <1>3, PTL DEF MCSpec, Updates!Spec

\* It is a behaviour of the settings.
LEMMA ApplicationRunsSettings == MCSpec => Sync!Spec
<1>1. MCInit => Sync!Init
  BY DEF MCInit
<1>2. syncVars' = syncVars => Sync!vars' = Sync!vars
  BY DEF syncVars, Sync!vars, Sync!uiVars, Sync!deviceVars
<1>3. [MCNext]_<<part, vars, updateVars, syncVars>> => [Sync!Next]_(Sync!vars)
  BY <1>2 DEF MCNext
<1> QED BY <1>1, <1>3, PTL DEF MCSpec, Sync!Spec

\* For any number of installers, processes and failures: one installation runs at a time,
\* a user who has the program keeps it unless an installer was misled, and a replacement
\* that fails leaves an executable unless it was misled or a second call failed.
THEOREM InstallationStaysSafe == MCSpec => InstallIsSafe
<1>1. Spec => [](TypeOK /\ OneAtATime /\ ProgramSurvives) /\ FailureLeavesProgram
  BY ProgramStays
<1>2. TypeOK /\ OneAtATime /\ ProgramSurvives
        => (part = "install" => TypeOK /\ OneAtATime /\ ProgramSurvives)
  OBVIOUS
<1> QED BY <1>1, <1>2, ApplicationRunsInstallation, PTL DEF InstallIsSafe

\* For any versions, contents, devices and capacity, whatever fails and however often the
\* program starts again: only a verified executable is launched, and a change is saved or
\* its failure shown.
THEOREM UpdatesAndSettingsStaySafe == MCSpec => UpdatesAndSettingsAreSafe
<1>1. Updates!TypeOK /\ Updates!OnlyVerifiedIsLaunched
        => (part = "updates" => Updates!TypeOK /\ Updates!OnlyVerifiedIsLaunched)
  OBVIOUS
<1>2. Sync!TypeOK /\ Sync!SavedOrTold
        => (part = "settings" => Sync!TypeOK /\ Sync!SavedOrTold)
  OBVIOUS
<1> QED
  BY <1>1, <1>2, OnlyVerifiedUpdates, ChangesAreSavedOrTold, ApplicationRunsUpdates,
     ApplicationRunsSettings, PTL DEF UpdatesAndSettingsAreSafe
==============================================================================
