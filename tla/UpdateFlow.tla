------------------------------ MODULE UpdateFlow ------------------------------
(***************************************************************************)
(* Updates: the interface's status (application.rs), the update worker and *)
(* its two bounded channels (update.rs), the transfers (http.rs) and the   *)
(* releases on GitHub, which change while the program runs.                *)
(*                                                                         *)
(* A file is its content; Torn is an incomplete one.  Only versions above  *)
(* the current one are modelled, and only complete releases (a release     *)
(* without its two files is skipped as if it were not published).          *)
(*                                                                         *)
(* Changes bounds the changes on GitHub, Choices those of the settings,    *)
(* Troubles the failures of network and disk, Restarts those of the        *)
(* program.                                                                *)
(***************************************************************************)
EXTENDS Naturals, Sequences, FiniteSets

CONSTANTS Version,   \* the versions above the current one, as numbers
          Content, Torn, NoFile,
          Changes, Choices, Troubles, Restarts  \* bounds

VersionAssumption == Version \subseteq Nat \ {0}
ContentAssumption == Torn \notin Content /\ NoFile \notin Content \cup {Torn}
UpdateBounds ==
  Changes \in Nat /\ Choices \in Nat /\ Troubles \in Nat /\ Restarts \in Nat

Channel == {"stable", "beta"}
Slots == 2  \* sync_channel(2), both ways

VARIABLES
  github,     \* the releases: [kind, exe, sum] of each version
  channel,    \* config.update_channel
  notify,     \* config.notify_updates, "yes" or "no"
  status,     \* update_status
  asked,      \* update_check_started, "yes" or "no"
  told,       \* update_notifications: the version last notified in a channel
  requests, results,
  step,       \* what the worker does next
  job,        \* the request it works on
  expected,   \* the checksum of its download
  final, partial,  \* the files of a version in the updates directory
  choices,    \* changes of the settings to come
  changes, troubles, restarts

site == <<github, changes>>
ui == <<channel, notify, status, asked, told, choices>>
worker == <<step, job, expected>>
files == <<final, partial>>
vars == <<site, ui, requests, results, worker, files, troubles, restarts>>

Digest == Content \cup {NoFile}
Release == [version : Version, kind : Channel, digest : Digest]
NoRelease == [version |-> 0, kind |-> "stable", digest |-> NoFile]
Check(c, m) == [what |-> "check", channel |-> c, manual |-> m, release |-> NoRelease]
Install(r) == [what |-> "install", channel |-> "stable", manual |-> "yes", release |-> r]
NoJob == Check("stable", "no")
Request == [what : {"check", "install"}, channel : Channel, manual : {"yes", "no"},
            release : Release \cup {NoRelease}]
Result == [what : {"found", "nothing", "check failed", "started", "install failed"},
           manual : {"yes", "no"}, release : Release \cup {NoRelease}]
Status(k, r) == [kind |-> k, release |-> r]
Busy == {"checking", "downloading", "installing"}
Files == Content \cup {Torn, NoFile}
Statuses == [kind : {"idle", "up to date", "available", "failed"} \cup Busy,
             release : Release \cup {NoRelease}]
Steps == {"idle", "query", "prepare", "checksum", "cached", "download", "downloading",
          "verify", "replace", "activate", "launch"}
Sites == [Version -> [kind : Channel \cup {"no"}, exe : Content, sum : Content]]

TypeOK ==
  /\ github \in Sites
  /\ channel \in Channel /\ notify \in {"yes", "no"} /\ asked \in {"yes", "no"}
  /\ status \in Statuses
  /\ told \in [Channel -> Version \cup {0}] /\ choices \in 0..Choices
  /\ requests \in Seq(Request) /\ Len(requests) <= Slots
  /\ results \in Seq(Result) /\ Len(results) <= Slots
  /\ step \in Steps
  /\ job \in Request /\ expected \in Digest
  /\ final \in [Version -> Files] /\ partial \in [Version -> Files]
  /\ changes \in 0..Changes /\ troubles \in 0..Troubles /\ restarts \in 0..Restarts

Init ==
  /\ github \in [Version -> [kind : {"no"}, exe : Content, sum : Content]]
  /\ \A v \in Version : github[v].exe = github[v].sum
  /\ channel \in Channel /\ notify = "yes" /\ status = Status("idle", NoRelease) /\ asked = "no"
  /\ told = [c \in Channel |-> 0] /\ choices = Choices
  /\ requests = <<>> /\ results = <<>>
  /\ step = "idle" /\ job = NoJob /\ expected = NoFile
  /\ final = [v \in Version |-> NoFile] /\ partial = final
  /\ changes = Changes /\ troubles = Troubles /\ restarts = Restarts

Trouble == troubles > 0 /\ troubles' = troubles - 1

----------------------------------------------------------------------------
(* GitHub: a release is published, promoted, withdrawn, its executable and *)
(* its checksum file are replaced one after the other.                     *)

ChangeSite ==
  /\ changes > 0 /\ changes' = changes - 1
  /\ \E v \in Version :
       \/ \E k \in Channel \cup {"no"} : github' = [github EXCEPT ![v].kind = k]
       \/ \E c \in Content : github' = [github EXCEPT ![v].exe = c]
       \/ github' = [github EXCEPT ![v].sum = github[v].exe]
  /\ github' # github
  /\ UNCHANGED <<ui, requests, results, worker, files, troubles, restarts>>

Selectable(c) ==
  {v \in Version : github[v].kind \in {"stable", c}}

(* The newest release of a channel; GitHub may give the digest of a file. *)
SelectUpdate(c) ==
  {r \in Release :
     /\ r.version \in Selectable(c) /\ \A w \in Selectable(c) : w <= r.version
     /\ r.kind = github[r.version].kind
     /\ r.digest \in {github[r.version].exe, NoFile}}

----------------------------------------------------------------------------
(* The interface. *)

(* request_update_check; an unsolicited check that finds the channel full  *)
(* leaves the status alone.                                                *)
AsksCheck(from, c, manual) ==
  IF from.kind \in Busy
  THEN status' = from /\ UNCHANGED requests
  ELSE IF Len(requests) < Slots
  THEN /\ requests' = Append(requests, Check(c, manual))
       /\ status' = Status("checking", NoRelease)
  ELSE /\ status' = IF manual = "yes" THEN Status("failed", NoRelease) ELSE from
       /\ UNCHANGED requests

RequestUpdateCheck ==
  /\ status.kind \notin Busy \cup {"available"}
  /\ AsksCheck(status, channel, "yes")
  /\ UNCHANGED <<site, channel, notify, asked, told, choices, results, worker, files,
                 troubles, restarts>>

(* The first pass of the interface asks by itself.  *)
StartupCheck ==
  /\ asked = "no" /\ asked' = "yes"
  /\ AsksCheck(status, channel, "no")
  /\ UNCHANGED <<site, channel, notify, told, choices, results, worker, files,
                 troubles, restarts>>

InstallAvailableUpdate ==
  /\ status.kind = "available"
  /\ IF Len(requests) < Slots
     THEN /\ requests' = Append(requests, Install(status.release))
          /\ status' = Status("downloading", status.release)
     ELSE status' = Status("failed", NoRelease) /\ UNCHANGED requests
  /\ UNCHANGED <<site, channel, notify, asked, told, choices, results, worker, files,
                 troubles, restarts>>

(* Another channel: the status is forgotten, whatever is under way. *)
ChangeChannel ==
  /\ choices > 0 /\ choices' = choices - 1
  /\ channel' \in Channel \ {channel}
  /\ AsksCheck(Status("idle", NoRelease), channel', "no")
  /\ UNCHANGED <<site, notify, asked, told, results, worker, files, troubles,
                 restarts>>

(* The other settings that matter here; an admin profile replaces them all *)
(* (load_admin_config) and leaves the status alone.                        *)
ChangeSettings ==
  /\ choices > 0 /\ choices' = choices - 1
  /\ \/ notify' \in {"yes", "no"} \ {notify} /\ UNCHANGED channel
     \/ channel' \in Channel \ {channel} /\ notify' \in {"yes", "no"}
  /\ UNCHANGED <<site, status, asked, told, requests, results, worker, files,
                 troubles, restarts>>

(* should_notify: one version per channel is remembered, under the channel *)
(* of the settings now.                                                    *)
ShouldNotify(v) == told' = IF notify = "yes" THEN [told EXCEPT ![channel] = v] ELSE told

PollUpdateWorker ==
  /\ results # <<>>
  /\ results' = Tail(results)
  /\ LET r == Head(results)
     IN /\ status' =
             CASE r.what = "found" -> Status("available", r.release)
               [] r.what = "nothing" -> Status("up to date", NoRelease)
               [] r.what = "check failed" ->
                    Status(IF r.manual = "yes" THEN "failed" ELSE "idle", NoRelease)
               [] r.what = "started" -> Status("installing", NoRelease)
               [] r.what = "install failed" -> Status("failed", NoRelease)
        /\ IF r.what = "found" THEN ShouldNotify(r.release.version)
           ELSE UNCHANGED told
  /\ UNCHANGED <<site, channel, notify, asked, choices, requests, worker, files, troubles, restarts>>

----------------------------------------------------------------------------
(* The worker. *)

TakeRequest ==
  /\ step = "idle" /\ requests # <<>>
  /\ job' = Head(requests) /\ requests' = Tail(requests)
  /\ step' = IF job'.what = "check" THEN "query" ELSE "prepare"
  /\ UNCHANGED <<site, ui, results, expected, files, troubles, restarts>>

(* results.send blocks while the interface has two results to read. *)
Reports(what, release) ==
  /\ Len(results) < Slots
  /\ results' = Append(results, [what |-> what, release |-> release,
                                 manual |-> IF what = "check failed" THEN job.manual ELSE "no"])
  /\ step' = "idle" /\ job' = NoJob /\ expected' = NoFile

Failing == Trouble /\ Reports("install failed", NoRelease)

(* A failed check that nobody asked for is not reported. *)
CheckForUpdateBug ==
  /\ step = "query"
  /\ \/ /\ Selectable(job.channel) # {}
        /\ \E r \in SelectUpdate(job.channel) : Reports("found", r)
        /\ UNCHANGED troubles
     \/ Selectable(job.channel) = {} /\ Reports("nothing", NoRelease) /\ UNCHANGED troubles
     \/ Trouble /\ step' = "idle" /\ job' = NoJob /\ UNCHANGED <<results, expected>>
  /\ UNCHANGED <<site, ui, requests, files, restarts>>

CheckForUpdate ==
  /\ step = "query"
  /\ \/ /\ Selectable(job.channel) # {}
        /\ \E r \in SelectUpdate(job.channel) : Reports("found", r)
        /\ UNCHANGED troubles
     \/ Selectable(job.channel) = {} /\ Reports("nothing", NoRelease) /\ UNCHANGED troubles
     \/ Trouble /\ Reports("check failed", NoRelease)
  /\ UNCHANGED <<site, ui, requests, files, restarts>>

Target == job.release.version
Goes(to) == step' = to /\ UNCHANGED <<job, results>>

(* The directory, and the files of other versions. *)
PrepareDownload ==
  /\ step = "prepare"
  /\ \/ /\ Goes("checksum") /\ UNCHANGED <<expected, troubles>>
        /\ final' = [v \in Version |-> IF v = Target THEN final[v] ELSE NoFile]
        /\ partial' = [v \in Version |-> IF v = Target THEN partial[v] ELSE NoFile]
     \/ Failing /\ UNCHANGED files
  /\ UNCHANGED <<site, ui, requests, restarts>>

FetchChecksum ==
  /\ step = "checksum"
  /\ \/ /\ github[Target].kind # "no"
        /\ expected' = github[Target].sum /\ Goes("cached") /\ UNCHANGED troubles
     \/ github[Target].kind = "no" /\ Reports("install failed", NoRelease) /\ UNCHANGED troubles
     \/ Failing
  /\ UNCHANGED <<site, ui, requests, files, restarts>>

UseCached ==
  /\ step = "cached"
  /\ \/ final[Target] = expected /\ Goes("launch") /\ UNCHANGED <<expected, troubles, partial>>
     \/ /\ final[Target] # expected
        /\ partial' = [partial EXCEPT ![Target] = NoFile]
        /\ Goes("download") /\ UNCHANGED <<expected, troubles>>
     \/ final[Target] # NoFile /\ Failing /\ UNCHANGED partial
  /\ UNCHANGED <<site, ui, requests, final, restarts>>

StartDownload ==
  /\ step = "download"
  /\ \/ partial' = [partial EXCEPT ![Target] = Torn] /\ Goes("downloading")
        /\ UNCHANGED <<expected, troubles>>
     \/ Failing /\ UNCHANGED partial
  /\ UNCHANGED <<site, ui, requests, final, restarts>>

(* A transfer that ends early without an error leaves an incomplete file; *)
(* one that fails removes it.                                              *)
FinishDownload ==
  /\ step = "downloading"
  /\ \/ /\ github[Target].kind # "no"
        /\ \/ partial' = [partial EXCEPT ![Target] = github[Target].exe] /\ UNCHANGED troubles
           \/ Trouble /\ UNCHANGED partial
        /\ Goes("verify") /\ UNCHANGED expected
     \/ /\ IF github[Target].kind = "no" THEN Reports("install failed", NoRelease) /\ UNCHANGED troubles
           ELSE Failing
        /\ partial' = [partial EXCEPT ![Target] = NoFile]
  /\ UNCHANGED <<site, ui, requests, final, restarts>>

(* The checksum is not compared. *)
AgreesBug(c) == job.release.digest # NoFile => job.release.digest = c

Agrees(c) == c = expected /\ (job.release.digest # NoFile => job.release.digest = c)

VerifyDownload ==
  /\ step = "verify"
  /\ \/ /\ Agrees(partial[Target])
        /\ Goes("replace") /\ UNCHANGED <<expected, troubles, partial>>
     \/ /\ ~Agrees(partial[Target])
        /\ partial' = [partial EXCEPT ![Target] = NoFile]
        /\ Reports("install failed", NoRelease) /\ UNCHANGED troubles
     \/ Failing /\ UNCHANGED partial
  /\ UNCHANGED <<site, ui, requests, final, restarts>>

RemoveCached ==
  /\ step = "replace"
  /\ \/ final' = [final EXCEPT ![Target] = NoFile] /\ Goes("activate")
        /\ UNCHANGED <<expected, troubles>>
     \/ final[Target] # NoFile /\ Failing /\ UNCHANGED final
  /\ UNCHANGED <<site, ui, requests, partial, restarts>>

ActivateDownload ==
  /\ step = "activate"
  /\ \/ /\ final' = [final EXCEPT ![Target] = partial[Target]]
        /\ partial' = [partial EXCEPT ![Target] = NoFile]
        /\ Goes("launch") /\ UNCHANGED <<expected, troubles>>
     \/ Failing /\ UNCHANGED files
  /\ UNCHANGED <<site, ui, requests, restarts>>

LaunchUpdate ==
  /\ step = "launch"
  /\ \/ /\ final[Target] # NoFile
        /\ Reports("started", NoRelease) /\ UNCHANGED troubles
     \/ Failing
  /\ UNCHANGED <<site, ui, requests, files, restarts>>

----------------------------------------------------------------------------
(* The program ends, by a crash or by the installer, and starts again; a  *)
(* notification state that was not saved is lost.                          *)

Restart ==
  /\ restarts > 0 /\ restarts' = restarts - 1
  /\ status' = Status("idle", NoRelease) /\ asked' = "no"
  /\ \/ UNCHANGED <<told, troubles>>
     \/ Trouble /\ told' = [c \in Channel |-> 0]
  /\ requests' = <<>> /\ results' = <<>>
  /\ step' = "idle" /\ job' = NoJob /\ expected' = NoFile
  /\ UNCHANGED <<site, channel, notify, choices, files>>

WorkerStep ==
  \/ TakeRequest \/ CheckForUpdate
  \/ PrepareDownload \/ FetchChecksum \/ UseCached \/ StartDownload \/ FinishDownload
  \/ VerifyDownload \/ RemoveCached \/ ActivateDownload \/ LaunchUpdate

UserStep ==
  RequestUpdateCheck \/ StartupCheck \/ InstallAvailableUpdate \/ ChangeChannel \/ ChangeSettings

Next == ChangeSite \/ UserStep \/ PollUpdateWorker \/ WorkerStep \/ Restart

Spec == Init /\ [][Next]_vars
FairSpec == Spec /\ WF_vars(WorkerStep) /\ WF_vars(PollUpdateWorker)

----------------------------------------------------------------------------
(* Only a complete file whose content is that of the checksum read for     *)
(* this very installation is started, whatever crash, early end or change  *)
(* on GitHub came between (download_update, launch_update).                *)
OnlyVerifiedIsLaunched == step = "launch" => final[Target] = expected

(* A check and a download come to an end: the interface does not stay busy *)
(* (the worker answers every request, the interface reads every answer).   *)
BusyEnds == status.kind \in {"checking", "downloading"} ~>
            status.kind \notin {"checking", "downloading"}

(* Nothing newer than the channel allows is offered: on Stable the offered *)
(* release is not a prerelease (select_update with config.update_channel). *)
StableIgnoresPrereleases ==
  status.kind = "available" /\ channel = "stable" => status.release.kind = "stable"

(* What is started agrees with the digest that GitHub gave for the release *)
(* (download_update).                                                      *)
DigestAgrees == step = "launch" => job.release.digest \in {NoFile, final[Target]}

================================================================================
