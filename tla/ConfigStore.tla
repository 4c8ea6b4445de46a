------------------------------ MODULE ConfigStore ------------------------------
(***************************************************************************)
(* What survives the program: config.json and its backup, the reference    *)
(* picture, the admin profile with its snapshots (core/config.rs) and the  *)
(* state of the setup guide (setup_guide.rs), with the calls the           *)
(* application makes at launch, while it runs and when it is dropped       *)
(* (application.rs).                                                       *)
(*                                                                         *)
(* A file is its content: a configuration or a picture, None when it is    *)
(* not there, Torn when it is incomplete or unreadable.  A replacement     *)
(* (MoveFileEx) is one step, a copy or a write over a file is two.  The    *)
(* temporary files are left out: each is written anew before it is used.   *)
(*                                                                         *)
(* Troubles bounds the operations that fail, Crashes the ends without a    *)
(* shutdown, Spoilings the damages to config.json from outside, Captures   *)
(* the pictures the reference worker saves, Snapshots those of profiles.   *)
(***************************************************************************)
EXTENDS Naturals, FiniteSets

CONSTANTS Config, Default, Picture, Torn, None,
          Troubles, Crashes, Spoilings, Captures, Snapshots  \* bounds

ContentAssumption ==
  /\ Default \in Config /\ Torn # None
  /\ {Torn, None} \cap (Config \cup Picture \cup {"open", "dismissed"}) = {}
StoreBounds ==
  Troubles \in Nat /\ Crashes \in Nat /\ Spoilings \in Nat /\ Captures \in Nat /\ Snapshots \in Nat

VARIABLES
  primary, backup,   \* config.json, config.backup.json
  reference,         \* reference.png
  profile,           \* admin-profile.json
  snapshots,         \* the pictures of the admin-reference files, by number
  guide,             \* ui-state.json: None, Torn, "open" or "dismissed"
  config,            \* the configuration in memory
  shown,             \* the launch shows the setup guide: "yes" or "no"
  pc,                \* "off", "on", or the next step of an operation
  op,                \* the operation under way, and what it remembers
  counts             \* troubles, crashes, spoilings, captures and snapshots so far

store == <<primary, backup>>
admin == <<profile, snapshots>>
vars == <<store, reference, admin, guide, config, shown, pc, op, counts>>

SnapshotName == 1..Snapshots
Profile == [config : Config, file : SnapshotName \cup {0}, auto : {"yes", "no"}]
NoProfile == [config |-> Default, file |-> 0, auto |-> "missing"]
Profiles == Profile \cup {NoProfile}

(* then: what follows the save under way; from: who restores; saving: the  *)
(* configuration being written; job: the profile used; kept: the file      *)
(* reference.restore-backup.png; before: <<primary, reference>> when a     *)
(* restore began (history).                                                *)
Operation == [then : {"on", "off", "restore"}, from : {"launch", "dialog"}, saving : Config,
              job : Profiles, kept : Picture \cup {None},
              before : (Config \cup {Torn, None}) \X (Picture \cup {None})]
NoOperation == [then |-> "on", from |-> "launch", saving |-> Default, job |-> NoProfile,
                kept |-> None, before |-> <<None, None>>]

Steps == {"load", "initial", "backup", "copying", "replace", "keep", "reference", "roll back",
          "restored", "not restored", "snapshot", "snapping", "profile", "drop old",
          "drop removed", "guide"}

TypeOK ==
  /\ primary \in Config \cup {Torn, None} /\ backup \in Config \cup {Torn, None}
  /\ reference \in Picture \cup {None}
  /\ profile \in Profiles
  /\ snapshots \in [SnapshotName -> Picture \cup {Torn, None}]
  /\ guide \in {None, Torn, "open", "dismissed"}
  /\ config \in Config /\ shown \in {"yes", "no"}
  /\ pc \in {"off", "on"} \cup Steps
  /\ op \in Operation
  /\ counts \in [trouble : 0..Troubles, crash : 0..Crashes, spoil : 0..Spoilings,
                 capture : 0..Captures, snapshot : 0..Snapshots, overlap : 0..1]

Init ==
  /\ primary = None /\ backup = None /\ reference = None
  /\ profile = NoProfile /\ snapshots = [n \in SnapshotName |-> None] /\ guide = None
  /\ config = Default /\ shown = "no"
  /\ pc = "off" /\ op = NoOperation
  /\ counts = [trouble |-> 0, crash |-> 0, spoil |-> 0, capture |-> 0, snapshot |-> 0, overlap |-> 0]

Goes(to) == pc' = to /\ UNCHANGED op
Ends(to) == pc' = to /\ op' = NoOperation
Works == UNCHANGED counts
Trouble == counts.trouble < Troubles /\ counts' = [counts EXCEPT !.trouble = @ + 1]

----------------------------------------------------------------------------
(* ConfigStore::save_with_replace: write the temporary file, copy the old  *)
(* configuration to the backup, replace.                                   *)

Saves(c, next) == op' = [op EXCEPT !.saving = c, !.then = next] /\ pc' = "backup"

(* A launch, a flush and a shutdown go on when a save fails. *)
SaveEnds(restore) == IF op.then = "restore" THEN Goes(restore) ELSE Ends(op.then)

BeginBackup ==
  /\ pc = "backup"
  /\ \/ Works /\ IF primary = None THEN Goes("replace") /\ UNCHANGED backup
                 ELSE Goes("copying") /\ backup' = Torn
     \/ Trouble /\ SaveEnds("roll back") /\ UNCHANGED backup
  /\ UNCHANGED <<primary, reference, admin, guide, config, shown>>

EndBackup ==
  /\ pc = "copying"
  /\ \/ Works /\ Goes("replace") /\ backup' = primary
     \/ Trouble /\ SaveEnds("roll back") /\ UNCHANGED backup
  /\ UNCHANGED <<primary, reference, admin, guide, config, shown>>

(* Mutant: a failed replacement has already removed the content. *)
ReplaceConfigBug ==
  /\ pc = "replace"
  /\ \/ Works /\ SaveEnds("restored") /\ primary' = op.saving
     \/ Trouble /\ SaveEnds("roll back") /\ primary' = Torn
  /\ UNCHANGED <<backup, reference, admin, guide, config, shown>>

ReplaceConfig ==
  /\ pc = "replace"
  /\ \/ Works /\ SaveEnds("restored") /\ primary' = op.saving
     \/ Trouble /\ SaveEnds("roll back") /\ UNCHANGED primary
  /\ UNCHANGED <<backup, reference, admin, guide, config, shown>>

----------------------------------------------------------------------------
(* AdminProfileStore::restore_with_replace. *)

(* load_profile: the profile and the picture it names are read. *)
Loadable(p) == p # NoProfile /\ (p.file # 0 => snapshots[p.file] \in Picture)

(* An error, a missing and a disabled profile leave everything alone. *)
Restores(who, next) ==
  \/ /\ Loadable(profile) /\ (who = "launch" => profile.auto = "yes")
     /\ Works /\ pc' = "keep"
     /\ op' = [op EXCEPT !.from = who, !.job = profile, !.before = <<primary, reference>>]
  \/ /\ ~Loadable(profile) \/ (who = "launch" /\ profile.auto = "no")
     /\ Works /\ Ends(next)
  \/ profile # NoProfile /\ Trouble /\ Ends(next)

KeepReference ==
  /\ pc = "keep"
  /\ \/ Works /\ op' = [op EXCEPT !.kept = reference] /\ pc' = "reference"
     \/ Trouble /\ Goes("not restored")
  /\ UNCHANGED <<store, reference, admin, guide, config, shown>>

Snapshot(p) == IF p.file = 0 THEN None ELSE snapshots[p.file]

RestoreReference ==
  /\ pc = "reference"
  /\ \/ Works /\ reference' = Snapshot(op.job) /\ Saves(op.job.config, "restore")
     \/ Trouble /\ Goes("not restored") /\ UNCHANGED reference
  /\ UNCHANGED <<store, admin, guide, config, shown>>

(* Mutant: the picture is not put back. *)
RollBackReferenceBug ==
  /\ pc = "roll back" /\ Goes("not restored") /\ Works
  /\ UNCHANGED <<store, reference, admin, guide, config, shown>>

RollBackReference ==
  /\ pc = "roll back" /\ Goes("not restored")
  /\ \/ Works /\ reference' = op.kept
     \/ Trouble /\ UNCHANGED reference
  /\ UNCHANGED <<store, admin, guide, config, shown>>

----------------------------------------------------------------------------
(* Launch: initialize the setup guide, restore, load, save the defaults    *)
(* (run, load_config_with_admin_restore).                                  *)

HasExistingUserData ==
  primary # None \/ backup # None \/ reference # None \/ profile # NoProfile
    \/ \E n \in SnapshotName : snapshots[n] # None

(* Mutant: an unreadable state counts as a first launch. *)
InitializeGuideBug ==
  /\ pc = "off" /\ Goes("load") /\ Works
  /\ shown' = IF guide = "dismissed" THEN "no" ELSE "yes"
  /\ guide' = IF guide = "dismissed" THEN guide ELSE "open"
  /\ UNCHANGED <<store, reference, admin, config>>

(* The file is written over its old content. *)
InitializeGuide ==
  /\ pc = "off"
  /\ shown' = IF guide = "open" \/ (guide # "dismissed" /\ ~HasExistingUserData)
              THEN "yes" ELSE "no"
  /\ \/ guide \in {"open", "dismissed"} /\ Works /\ UNCHANGED guide
     \/ guide \in {None, Torn} /\ Works /\ guide' = IF HasExistingUserData THEN "dismissed" ELSE "open"
     \/ guide \in {None, Torn} /\ Trouble /\ guide' \in {guide, Torn}
  /\ Goes("load")
  /\ UNCHANGED <<store, reference, admin, config>>

RestoreOnLaunch ==
  /\ pc = "load"
  /\ Restores("launch", "initial")
  /\ UNCHANGED <<store, reference, admin, guide, config, shown>>

(* ConfigStore::load *)
Loaded == IF primary \in Config THEN primary
          ELSE IF primary = Torn /\ backup \in Config THEN backup ELSE Default
UsedDefaults == primary = None \/ (primary = Torn /\ backup \notin Config)

LoadConfig ==
  /\ pc = "initial"
  /\ config' = Loaded
  /\ IF UsedDefaults THEN Saves(Loaded, "on") ELSE Ends("on")
  /\ UNCHANGED <<store, reference, admin, guide, shown, counts>>

(* After a restore the launch loads, the dialog only when it worked. *)
EndRestore ==
  /\ pc \in {"restored", "not restored"}
  /\ IF op.from = "launch" THEN Ends("initial") /\ UNCHANGED config
     ELSE Ends("on") /\ config' = IF pc = "restored" THEN Loaded ELSE config
  /\ UNCHANGED <<store, reference, admin, guide, shown, counts>>

----------------------------------------------------------------------------
(* While the application runs: all of this on the interface's thread,      *)
(* except the reference worker.                                            *)

(* A change of the settings and the flush that saves it. *)
FlushSettings ==
  /\ pc = "on"
  /\ config' \in Config /\ Saves(config', "on")
  /\ UNCHANGED <<store, reference, admin, guide, shown, counts>>

LoadAdminConfig ==
  /\ pc = "on"
  /\ Restores("dialog", "on")
  /\ UNCHANGED <<store, reference, admin, guide, config, shown>>

(* AdminProfileStore::save_with_replace: a profile that cannot be read     *)
(* counts as none; a new file for the picture, the profile, then the old   *)
(* picture goes.                                                           *)
SaveAdminBaseline ==
  /\ pc = "on"
  /\ \/ /\ Works /\ pc' = IF reference = None THEN "profile" ELSE "snapshot"
        /\ op' = [op EXCEPT !.job = [config |-> config, file |-> 0,
                      auto |-> IF Loadable(profile) THEN profile.auto ELSE "no"]]
     \/ Trouble /\ Ends("on")
  /\ UNCHANGED <<store, reference, admin, guide, config, shown>>

CreateSnapshot ==
  /\ pc = "snapshot" /\ counts.snapshot < Snapshots
  /\ LET n == counts.snapshot + 1
     IN /\ op' = [op EXCEPT !.job.file = n] /\ pc' = "snapping"
        /\ snapshots' = [snapshots EXCEPT ![n] = Torn]
        /\ counts' = [counts EXCEPT !.snapshot = n]
  /\ UNCHANGED <<store, reference, profile, guide, config, shown>>

(* Mutant: a copy that fails is used all the same. *)
CopySnapshotBug ==
  /\ pc = "snapping" /\ Goes("profile")
  /\ \/ Works /\ snapshots' = [snapshots EXCEPT ![op.job.file] = reference]
     \/ Trouble /\ UNCHANGED snapshots
  /\ UNCHANGED <<store, reference, profile, guide, config, shown>>

CopySnapshot ==
  /\ pc = "snapping"
  /\ \/ Works /\ snapshots' = [snapshots EXCEPT ![op.job.file] = reference] /\ Goes("profile")
     \/ Trouble /\ snapshots' = [snapshots EXCEPT ![op.job.file] = None] /\ Ends("on")
  /\ UNCHANGED <<store, reference, profile, guide, config, shown>>

WithoutFile(n) == [m \in SnapshotName |-> IF m = n THEN None ELSE snapshots[m]]

(* Mutant: the old picture is forgotten. *)
DropsOldBug == pc' = "drop old" /\ op' = [op EXCEPT !.job = NoProfile]

(* The old picture is that of the profile read at the beginning. *)
DropsOld ==
  /\ pc' = "drop old"
  /\ op' = [op EXCEPT !.job = IF Loadable(profile) THEN profile ELSE NoProfile]

ReplaceProfile ==
  /\ pc = "profile"
  /\ \/ Works /\ profile' = op.job /\ DropsOld /\ UNCHANGED snapshots
     \/ Trouble /\ Ends("on") /\ snapshots' = WithoutFile(op.job.file) /\ UNCHANGED profile
  /\ UNCHANGED <<store, reference, guide, config, shown>>

DropOldSnapshot ==
  /\ pc = "drop old" /\ Ends("on")
  /\ \/ Works /\ snapshots' = WithoutFile(op.job.file)
     \/ Trouble /\ UNCHANGED snapshots
  /\ UNCHANGED <<store, reference, profile, guide, config, shown>>

SetAdminAutoRestore ==
  /\ pc = "on" /\ Loadable(profile)
  /\ \/ \E on \in {"yes", "no"} : profile' = [profile EXCEPT !.auto = on] /\ Works
     \/ Trouble /\ UNCHANGED profile
  /\ UNCHANGED <<store, reference, snapshots, guide, config, shown, pc, op>>

RemoveAdminBaseline ==
  /\ pc = "on" /\ profile # NoProfile
  /\ \/ Works /\ profile' = NoProfile /\ DropsOld
     \/ Trouble /\ UNCHANGED <<profile, pc, op>>
  /\ UNCHANGED <<store, reference, snapshots, guide, config, shown>>

Restoring ==
  pc \in {"keep", "reference", "roll back", "restored", "not restored"}
    \/ (op.then = "restore" /\ pc \in {"backup", "copying", "replace"})

(* The worker saves a picture at any time, also while the dialog restores: *)
(* overlap remembers that.                                                 *)
SaveReference ==
  /\ pc \notin {"off", "load", "initial"} /\ (Restoring => op.from = "dialog")
  /\ counts.capture < Captures
  /\ \E p \in Picture : reference' = p
  /\ counts' = [counts EXCEPT !.capture = @ + 1, !.overlap = IF Restoring THEN 1 ELSE @]
  /\ UNCHANGED <<store, admin, guide, config, shown, pc, op>>

MarkGuideCompleted ==
  /\ pc = "on"
  /\ \/ Works /\ guide' = Torn /\ Goes("guide")
     \/ Trouble /\ guide' \in {guide, Torn} /\ Goes("on")
  /\ UNCHANGED <<store, reference, admin, config, shown>>

GuideWritten ==
  /\ pc = "guide" /\ guide' = "dismissed" /\ Goes("on")
  /\ UNCHANGED <<store, reference, admin, config, shown, counts>>

(* Drop saves once more. *)
Exit ==
  /\ pc = "on" /\ Saves(config, "off")
  /\ UNCHANGED <<store, reference, admin, guide, config, shown, counts>>

Crash ==
  /\ pc # "off" /\ counts.crash < Crashes
  /\ Ends("off") /\ counts' = [counts EXCEPT !.crash = @ + 1]
  /\ UNCHANGED <<store, reference, admin, guide, config, shown>>

(* config.json is damaged from outside. *)
Spoil ==
  /\ pc = "off" /\ primary # None /\ counts.spoil < Spoilings
  /\ primary' = Torn /\ counts' = [counts EXCEPT !.spoil = @ + 1]
  /\ UNCHANGED <<backup, reference, admin, guide, config, shown, pc, op>>

Next ==
  \/ InitializeGuide \/ RestoreOnLaunch \/ LoadConfig
  \/ BeginBackup \/ EndBackup \/ ReplaceConfig
  \/ KeepReference \/ RestoreReference \/ RollBackReference \/ EndRestore
  \/ FlushSettings \/ LoadAdminConfig \/ SaveReference
  \/ SaveAdminBaseline \/ CreateSnapshot \/ CopySnapshot \/ ReplaceProfile \/ DropOldSnapshot
  \/ SetAdminAutoRestore \/ RemoveAdminBaseline
  \/ MarkGuideCompleted \/ GuideWritten
  \/ Exit \/ Crash \/ Spoil

Spec == Init /\ [][Next]_vars

----------------------------------------------------------------------------
(* No crash and no failing operation spoils config.json, and when it is    *)
(* damaged from outside a backup that was complete is loaded instead of    *)
(* the defaults: between two operations one of the two files can be read   *)
(* once there are two (save_with_replace, load).  The first save after a   *)
(* damage makes the damaged file the backup, so one damage is survived.    *)
ConfigSurvives ==
  /\ primary = Torn => counts.spoil > 0
  /\ (pc \in {"off", "on"} /\ primary = Torn
      /\ counts.crash = 0 /\ counts.trouble = 0 /\ counts.spoil <= 1)
       => backup \in Config \cup {None}

(* A restore that fails leaves the configuration and the picture as they   *)
(* were, one that works replaces both by the profile's, unless the         *)
(* rollback fails as well or the reference worker saves at the same time   *)
(* (restore_with_replace).                                                 *)
RestoreIsWhole ==
  /\ pc = "restored" /\ counts.overlap = 0
       => primary = op.job.config /\ reference = Snapshot(op.job)
  /\ pc = "not restored" /\ counts.overlap = 0 /\ counts.trouble <= 1
       => <<primary, reference>> = op.before

(* The profile never names a picture that is missing or incomplete, at     *)
(* whatever step the program dies (save_with_replace, remove).             *)
ProfileIsWhole == profile # NoProfile => Loadable(profile)

(* Without crashes and failures no snapshot is left behind that no profile *)
(* names (save_with_replace, remove).                                      *)
NoOrphans ==
  pc = "on" /\ counts.crash = 0 /\ counts.trouble = 0
    => \A n \in SnapshotName : snapshots[n] # None => n = profile.file

(* A guide that was dismissed is not shown again, even when the program    *)
(* dies while it writes that down (initialize, has_existing_user_data).    *)
DismissedStays ==
  [][ primary # None /\ guide \in {"dismissed", Torn}
        => ( /\ guide' # "open"
             /\ (pc = "off" /\ pc' = "load" => shown' = "no") ) ]_vars

================================================================================
