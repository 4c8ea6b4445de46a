-------------------------- MODULE SourceSelection --------------------------
(***************************************************************************)
(* What StageSwap puts on air: RuntimeState of the application             *)
(* (crates/app/src/runtime.rs) with the decision, the debounced detector,  *)
(* the still-image detector and the two fades it drives                    *)
(* (crates/core/src/decision.rs, detector.rs, stillness.rs,                *)
(* transition.rs).  One Step is one output cycle of RuntimeEngine::step:   *)
(* inputs are refreshed, the screen is classified when a detection is due, *)
(* and the output is decided, faded and composed.                          *)
(*                                                                         *)
(* Time is counted in units that Step lets pass; a picture matches the     *)
(* reference when it is the reference; a mix of 0..Fade stands for 0..1.   *)
(*                                                                         *)
(* A definition whose name starts with Bug is not part of Spec: it is the  *)
(* definition after it with a plausible defect, which a property catches.  *)
(***************************************************************************)
EXTENDS Integers, Sequences

CONSTANTS
  Pictures,            \* what the screen may show
  NearlyBlack,         \* those of them that gray_image_is_nearly_black takes
  NoPicture,           \* no valid screen frame; also: no reference
  Nobody,              \* the still detector has no baseline
  MatchesRequired, MismatchesRequired,   \* DetectorSettings
  DetectPeriod,        \* time between two detections
  Fade,                \* duration of a source or picture-in-picture fade
  StillDelay,          \* still_image_pip_delay_seconds
  Elapsed              \* times that may pass between two output cycles

ASSUME SelectionAssumption ==
  /\ NearlyBlack \subseteq Pictures
  /\ NoPicture \notin Pictures /\ Nobody \notin Pictures
  /\ MatchesRequired \in Nat \ {0} /\ MismatchesRequired \in Nat \ {0}
  /\ DetectPeriod \in Nat \ {0} /\ Fade \in Nat \ {0}
  /\ StillDelay \in Nat /\ Fade <= StillDelay
  /\ Elapsed \subseteq Nat \ {0}

VARIABLES
  runState,     \* "stopped" or "running"
  mode,         \* OutputMode
  pip, layout,  \* settings: picture-in-picture "on"/"off" and its main source
  camera,       \* "ready" or "lost": availability.camera_ready
  screen,       \* the valid screen frame's picture, or NoPicture
  reference,    \* the reference picture, or NoPicture
  sinceDetection,                    \* time since last_detection, capped
  detection, matches, mismatches,    \* DebouncedDetector
  baseline, stillFor, still,         \* StillImageDetector
  pipMix, pipGoal, renderLayout,     \* ReversibleMix and its layout
  mix, target,                       \* TransitionController
  output,       \* snapshot.actual_output
  shown,        \* snapshot.output_layout
  samples       \* history: the latest detection results since a reset

inputVars     == <<camera, screen>>
settingVars   == <<mode, pip, layout>>
detectorVars  == <<detection, matches, mismatches, samples>>
stillVars     == <<baseline, stillFor, still>>
pipVars       == <<pipMix, pipGoal, renderLayout>>
outputVars    == <<mix, target, output, shown>>
vars == <<runState, settingVars, inputVars, reference, sinceDetection,
          detectorVars, stillVars, pipVars, outputVars>>

Modes == {"Automatic", "ForceCamera", "ForceScreen", "ForcePip"}
Sources == {"Camera", "Screen", "Placeholder"}
Layouts == {"WebcamMain", "ScreenMain"}
Results == {"match", "mismatch", "invalid"}

AtMost(a, b) == IF a <= b THEN a ELSE b

\* The history is long enough for both debounce rules.
HistoryLength ==
  IF MatchesRequired >= MismatchesRequired THEN MatchesRequired ELSE MismatchesRequired

Remember(result) ==
  samples' = IF Len(samples) < HistoryLength
               THEN Append(samples, result)
               ELSE Append(Tail(samples), result)

(***************************************************************************)
(* Detection.                                                              *)
(***************************************************************************)

\* DebouncedDetector::reset, or a new detector for a new threshold.
BugResetKeepsCounters ==
  detection' = "Unknown" /\ samples' = <<>> /\ UNCHANGED <<matches, mismatches>>

ResetDetector ==
  detection' = "Unknown" /\ matches' = 0 /\ mismatches' = 0 /\ samples' = <<>>

ResetStill == baseline' = Nobody /\ stillFor' = 0 /\ still' = "inactive"

\* DebouncedDetector::update.
UpdateDetector(result) ==
  /\ Remember(result)
  /\ matches' = IF result = "match" THEN AtMost(matches + 1, MatchesRequired) ELSE 0
  /\ mismatches' =
       IF result = "mismatch" THEN AtMost(mismatches + 1, MismatchesRequired) ELSE 0
  /\ detection' =
       CASE result = "invalid" -> "ReferenceMissing"
         [] result = "match" /\ matches' = MatchesRequired -> "Matching"
         [] result = "mismatch" /\ mismatches' = MismatchesRequired -> "NotMatching"
         [] OTHER -> detection

Result ==
  IF reference = NoPicture \/ screen' = NoPicture THEN "invalid"
  ELSE IF screen' = reference THEN "match" ELSE "mismatch"

\* Whether a still, unmatched picture may bring up the picture-in-picture.
Eligible ==
  /\ pip = "on" /\ mode = "Automatic"
  /\ camera' = "ready" /\ Result = "mismatch"
  /\ screen' \notin NearlyBlack

\* As if every sample of an eligible picture were a new baseline.
BugSampleRestartsStillness(elapsed) ==
  IF Eligible THEN baseline' = screen' /\ stillFor' = 0 /\ still' = "inactive"
              ELSE ResetStill

\* StillImageDetector::update, elapsed after the baseline was last looked at.
UpdateStill(elapsed) ==
  IF ~Eligible THEN ResetStill
  ELSE IF baseline # screen'
    THEN baseline' = screen' /\ stillFor' = 0 /\ still' = "inactive"
    ELSE /\ UNCHANGED baseline
         /\ stillFor' = AtMost(stillFor + elapsed, StillDelay)
         /\ still' = IF stillFor' = StillDelay THEN "active" ELSE "inactive"

\* No detection is due, but the time of an unchanged picture goes on.
KeepStill(elapsed) ==
  /\ stillFor' = IF baseline = Nobody THEN 0 ELSE AtMost(stillFor + elapsed, StillDelay)
  /\ UNCHANGED <<baseline, still>>

\* RuntimeState::detect; while stopped the cycle resets the still detector.
Detect(elapsed) ==
  LET due == sinceDetection + elapsed >= DetectPeriod IN
  /\ sinceDetection' = IF due THEN 0 ELSE sinceDetection + elapsed
  /\ IF due THEN UpdateDetector(Result) ELSE UNCHANGED detectorVars
  /\ IF runState = "stopped" THEN ResetStill
     ELSE IF due THEN UpdateStill(elapsed) ELSE KeepStill(elapsed)

(***************************************************************************)
(* Decision.                                                               *)
(***************************************************************************)

AutomaticTarget(d) == IF d = "NotMatching" THEN "Screen" ELSE "Camera"

Requested(m, d) ==
  CASE m = "Automatic" -> AutomaticTarget(d)
    [] m = "ForceCamera" -> "Camera"
    [] OTHER -> "Screen"

\* A missing screen falls back to the camera, never the other way round.
BugFallsBackToScreen(source) ==
  IF source = "Camera" /\ camera' = "ready" THEN "Camera"
  ELSE IF screen' # NoPicture THEN "Screen"
  ELSE IF camera' = "ready" THEN "Camera"
  ELSE "Placeholder"

Available(source) ==
  IF source = "Screen" /\ screen' # NoPicture THEN "Screen"
  ELSE IF camera' = "ready" THEN "Camera"
  ELSE "Placeholder"

\* As if the layout's main source were all that a picture-in-picture needs.
BugPipWithoutInset ==
  /\ \/ mode = "ForcePip"
     \/ still' = "active" /\ mode = "Automatic" /\ pip = "on"
  /\ screen' # NoPicture

PipWanted ==
  /\ \/ mode = "ForcePip"
     \/ still' = "active" /\ mode = "Automatic" /\ pip = "on"
  /\ camera' = "ready" /\ screen' # NoPicture

Main(l) == IF l = "WebcamMain" THEN "Camera" ELSE "Screen"

Desired ==
  IF PipWanted THEN Main(renderLayout') ELSE Available(Requested(mode, detection'))

(***************************************************************************)
(* Fades.                                                                  *)
(***************************************************************************)

BugOvershoots(value, goal, elapsed) ==
  IF goal > value THEN value + elapsed ELSE value - elapsed

Toward(value, goal, elapsed) ==
  IF goal > value
    THEN AtMost(value + elapsed, goal)
    ELSE IF value - elapsed > goal THEN value - elapsed ELSE goal

Goal(source) == IF source = "Screen" THEN Fade ELSE 0

\* pip_transition: the elapsed time counts toward the old goal, then the new
\* one is set; the layout that is drawn may change only with a new appearance,
\* or when a picture-in-picture is forced.
BugLayoutFollowsSettings(elapsed) ==
  /\ pipMix' = Toward(pipMix, pipGoal, elapsed)
  /\ pipGoal' = IF PipWanted THEN Fade ELSE 0
  /\ renderLayout' = layout

FadePip(elapsed) ==
  /\ pipMix' = Toward(pipMix, pipGoal, elapsed)
  /\ pipGoal' = IF PipWanted THEN Fade ELSE 0
  /\ renderLayout' =
       IF \/ PipWanted /\ (pipGoal = 0 \/ mode = "ForcePip")
          \/ ~PipWanted /\ pipMix' = 0
         THEN layout ELSE renderLayout

\* transition.request or tick: a placeholder cuts, a new target turns the fade
\* around where it is.
FadeSource(elapsed) ==
  /\ target' = Desired
  /\ mix' = IF Desired = "Placeholder" THEN 0 ELSE Toward(mix, Goal(target), elapsed)

(***************************************************************************)
(* Output.                                                                 *)
(***************************************************************************)

\* show_off_output.
BugOffKeepsPip ==
  /\ mix' = 0 /\ target' = "Placeholder"
  /\ output' = "Placeholder" /\ shown' = "Placeholder"
  /\ UNCHANGED pipVars

ShowOff ==
  /\ mix' = 0 /\ target' = "Placeholder"
  /\ output' = "Placeholder" /\ shown' = "Placeholder"
  /\ pipMix' = 0 /\ pipGoal' = 0 /\ UNCHANGED renderLayout

\* RuntimeState::tick.
Tick(elapsed) ==
  IF runState = "stopped" THEN ShowOff
  ELSE /\ FadePip(elapsed)
       /\ FadeSource(elapsed)
       /\ output' = Desired
       /\ shown' = IF pipMix' > 0 THEN renderLayout' ELSE Desired

\* RuntimeEngine::step: refresh_inputs, detect, tick.
Step ==
  /\ \E elapsed \in Elapsed, c \in {"ready", "lost"}, s \in Pictures \cup {NoPicture} :
       /\ camera' = c /\ screen' = s
       /\ Detect(elapsed)
       /\ Tick(elapsed)
  /\ UNCHANGED <<runState, settingVars, reference>>

(***************************************************************************)
(* Commands, applied between two cycles.                                   *)
(***************************************************************************)

Start ==
  /\ runState' = "running"
  /\ ResetStill
  /\ UNCHANGED <<settingVars, inputVars, reference, sinceDetection, detectorVars,
                 pipVars, outputVars>>

Stop ==
  /\ runState' = "stopped"
  /\ ResetStill
  /\ ShowOff
  /\ UNCHANGED <<settingVars, inputVars, reference, sinceDetection, detectorVars>>

SetMode ==
  /\ \E m \in Modes :
       /\ mode' = m
       /\ IF m # mode THEN ResetStill ELSE UNCHANGED stillVars
  /\ UNCHANGED <<runState, pip, layout, inputVars, reference, sinceDetection,
                 detectorVars, pipVars, outputVars>>

\* UpdateSettings and ReloadSettings.  The threshold, the reference path, the
\* delay and the inset's size may change too: hence the choices to reset.
UpdateSettings ==
  /\ mode' \in Modes /\ pip' \in {"on", "off"} /\ layout' \in Layouts
  /\ ResetStill \/ UNCHANGED <<pip, layout, stillVars>>
  /\ ResetDetector \/ UNCHANGED detectorVars
  /\ UNCHANGED <<runState, inputVars, reference, sinceDetection, pipVars, outputVars>>

\* install_reference, with the result of a reference job.
InstallReference ==
  /\ reference' \in Pictures
  /\ ResetDetector
  /\ ResetStill
  /\ sinceDetection' = DetectPeriod
  /\ UNCHANGED <<runState, settingVars, inputVars, pipVars, outputVars>>

\* A reference that cannot be loaded: poll_reference_results drops the old one.
ReferenceLoadFails ==
  /\ reference' = NoPicture
  /\ ResetDetector
  /\ UNCHANGED <<runState, settingVars, inputVars, sinceDetection, stillVars,
                 pipVars, outputVars>>

-----------------------------------------------------------------------------

Init ==
  /\ runState = "stopped"
  /\ mode \in Modes /\ pip \in {"on", "off"} /\ layout \in Layouts
  /\ camera = "lost" /\ screen = NoPicture
  /\ reference = NoPicture /\ sinceDetection = DetectPeriod
  /\ detection = "Unknown" /\ matches = 0 /\ mismatches = 0 /\ samples = <<>>
  /\ baseline = Nobody /\ stillFor = 0 /\ still = "inactive"
  /\ pipMix = 0 /\ pipGoal = 0 /\ renderLayout = layout
  /\ mix = 0 /\ target = "Placeholder"
  /\ output = "Placeholder" /\ shown = "Placeholder"

Command ==
  Start \/ Stop \/ SetMode \/ UpdateSettings \/ InstallReference \/ ReferenceLoadFails

Next == Step \/ Command

Spec == Init /\ [][Next]_vars

\* The engine keeps its 30 cycles per second going.
FairSpec == Spec /\ WF_vars(Step)

-----------------------------------------------------------------------------
(***************************************************************************)
(* Properties.                                                             *)
(***************************************************************************)

\* Every variable keeps its type, every counter its range.
TypeOK ==
  /\ runState \in {"stopped", "running"} /\ mode \in Modes
  /\ pip \in {"on", "off"} /\ layout \in Layouts /\ renderLayout \in Layouts
  /\ camera \in {"ready", "lost"}
  /\ screen \in Pictures \cup {NoPicture} /\ reference \in Pictures \cup {NoPicture}
  /\ sinceDetection \in 0..DetectPeriod
  /\ detection \in {"Unknown", "Matching", "NotMatching", "ReferenceMissing"}
  /\ matches \in 0..MatchesRequired /\ mismatches \in 0..MismatchesRequired
  /\ samples \in Seq(Results) /\ Len(samples) <= HistoryLength
  /\ baseline \in Pictures \cup {Nobody}
  /\ stillFor \in 0..StillDelay /\ still \in {"inactive", "active"}
  /\ pipMix \in 0..Fade /\ pipGoal \in {0, Fade}
  /\ mix \in 0..Fade /\ target \in Sources
  /\ output \in Sources /\ shown \in Sources \cup Layouts

\* While automation is stopped the off picture is on air, and no fade, inset or
\* still picture of the last run survives to be carried into the next one, even
\* though detection goes on (show_off_output, called by Stop and by every tick).
StoppedIsOff ==
  runState = "stopped" =>
    /\ output = "Placeholder" /\ shown = "Placeholder"
    /\ mix = 0 /\ pipMix = 0 /\ pipGoal = 0
    /\ still = "inactive" /\ baseline = Nobody

\* A source on air was usable in the cycle that put it there, and an inset is
\* faded in only while both sources are (decide, and pip_target in tick).
OnAirIsReady ==
  /\ output = "Screen" => screen # NoPicture
  /\ output = "Camera" => camera = "ready"
  /\ pipGoal = Fade => camera = "ready" /\ screen # NoPicture

LastAre(n, result, history) ==
  /\ Len(history) >= n
  /\ \A i \in Len(history) - n + 1 .. Len(history) : history[i] = result

\* The detector changes its mind only after as many consecutive equal samples,
\* all against the reference and threshold now in force, as its settings ask
\* for; a sample older than a reset never counts (DebouncedDetector).
SwitchIsDebounced ==
  [][/\ detection' = "NotMatching" /\ detection # "NotMatching" =>
          LastAre(MismatchesRequired, "mismatch", samples')
     /\ detection' = "Matching" /\ detection # "Matching" =>
          LastAre(MatchesRequired, "match", samples')]_vars

\* The two sources do not swap places while an inset is visible, whatever is
\* changed in the settings meanwhile, unless the inset is forced
\* (pip_render_layout in tick; it relies on SelectionAssumption's delay).
LayoutSteady ==
  [][pipMix > 0 /\ pipMix' > 0 /\ mode # "ForcePip" => UNCHANGED renderLayout]_vars

\* Why the layout is steady.  A layout other than the one in the settings is
\* drawn only while no picture is waited for, or while its inset fades out; and
\* then the wait for the next inset, begun since, outlasts what is left of it.
LayoutWaits ==
  renderLayout # layout =>
    \/ baseline = Nobody
    \/ pipGoal = 0 /\ stillFor + pipMix <= Fade

\* The still detector is active after the whole delay and with a baseline only.
StillCounts ==
  /\ baseline = Nobody => stillFor = 0 /\ still = "inactive"
  /\ still = "active" => stillFor = StillDelay

\* A count of the detector is backed by as many samples, all since a reset.
HistoryAgrees ==
  LastAre(matches, "match", samples) /\ LastAre(mismatches, "mismatch", samples)

\* The inductive invariant that SourceSelectionProofs uses.
SelectionInv == TypeOK /\ StoppedIsOff /\ OnAirIsReady /\ StillCounts /\ LayoutWaits

\* Forcing the camera takes the screen, full size or inset, off the air, even
\* if the camera is lost meanwhile or detection still asks for the screen.
ForceCameraHidesScreen ==
  runState = "running" /\ mode = "ForceCamera" ~>
    \/ mix = 0 /\ pipMix = 0
    \/ mode # "ForceCamera" \/ runState = "stopped"

\* An inset may appear and nothing resets the wait for it: automation runs in
\* automatic mode, both inputs stay, and the screen shows one picture that is
\* neither the reference nor nearly black.
StillPicture(p) ==
  /\ runState = "running" /\ mode = "Automatic" /\ pip = "on"
  /\ camera = "ready" /\ screen = p
  /\ reference \notin {p, NoPicture} /\ p \notin NearlyBlack

\* Once the commands end and an unmatched picture stands still, the sampled
\* detector does bring its inset up, fully, for good.
StillPictureBringsPip ==
  \A p \in Pictures :
    (<>[][Step]_vars) /\ (<>[]StillPicture(p)) => <>[](pipMix = Fade)

\* Both, and every variable keeps its shape on the way.
PictureFollows ==
  /\ []TypeOK
  /\ ForceCameraHidesScreen
  /\ StillPictureBringsPip

=============================================================================
