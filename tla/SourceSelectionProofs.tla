----------------------- MODULE SourceSelectionProofs -----------------------
(***************************************************************************)
(* Proofs about module SourceSelection, for every set of pictures, every   *)
(* debounce, every cycle time and every delay no shorter than the fade:    *)
(* its type invariant, that a stopped runtime is off and carries nothing   *)
(* over, that only usable inputs go on air, that the two sources of a      *)
(* picture-in-picture do not swap places while it can be seen, and that    *)
(* the detector changes its mind on complete evidence only.                *)
(*                                                                         *)
(* SelectionInv is inductive.  Its one strengthening is LayoutWaits: it    *)
(* bounds the wait of the still detector from below by the fade that is    *)
(* still to run, which is what makes a new appearance an invisible moment  *)
(* to change the layout.  The debounce needs HistoryAgrees besides, which  *)
(* is inductive together with the types: each count is the length of a run *)
(* of equal samples that the history really ends with.                     *)
(***************************************************************************)
EXTENDS SourceSelection, TLAPS

\* What the definitions need to know of the constants.
LEMMA ConstantFacts ==
  /\ MatchesRequired \in Nat /\ MatchesRequired > 0
  /\ MismatchesRequired \in Nat /\ MismatchesRequired > 0
  /\ HistoryLength \in Nat /\ HistoryLength > 0
  /\ MatchesRequired <= HistoryLength /\ MismatchesRequired <= HistoryLength
  /\ DetectPeriod \in Nat /\ DetectPeriod > 0
  /\ Fade \in Nat /\ Fade > 0 /\ StillDelay \in Nat /\ Fade <= StillDelay
  /\ \A elapsed \in Elapsed : elapsed \in Nat /\ elapsed > 0
BY SelectionAssumption DEF SelectionAssumption, HistoryLength

\* The history stays a bounded sequence of results.
LEMMA RememberTyped ==
  ASSUME NEW result \in Results, samples \in Seq(Results),
         Len(samples) <= HistoryLength, Remember(result)
  PROVE  samples' \in Seq(Results) /\ Len(samples') <= HistoryLength
<1>1. CASE Len(samples) < HistoryLength
  <2>1. samples' = Append(samples, result)
    BY <1>1 DEF Remember
  <2> QED BY <1>1, <2>1, ConstantFacts
<1>2. CASE Len(samples) = HistoryLength
  <2>1. samples' = Append(Tail(samples), result)
    BY <1>2, ConstantFacts DEF Remember
  <2>2. Tail(samples) \in Seq(Results) /\ Len(Tail(samples)) = Len(samples) - 1
    BY <1>2, ConstantFacts
  <2> QED BY <1>2, <2>1, <2>2, ConstantFacts
<1> QED BY <1>1, <1>2, ConstantFacts

\* A fade stays in range, and on its way to 0 it falls by the time that passed.
LEMMA TowardFacts ==
  ASSUME NEW value \in 0..Fade, NEW goal \in {0, Fade}, NEW elapsed \in Nat
  PROVE  /\ Toward(value, goal, elapsed) \in 0..Fade
         /\ goal = 0 => \/ Toward(value, goal, elapsed) = 0
                        \/ Toward(value, goal, elapsed) = value - elapsed
BY ConstantFacts DEF Toward, AtMost

\* One detection or none: the debounced detector keeps its types.
LEMMA DetectTyped ==
  ASSUME TypeOK, NEW elapsed \in Elapsed, Detect(elapsed)
  PROVE  /\ sinceDetection' \in 0..DetectPeriod
         /\ detection' \in {"Unknown", "Matching", "NotMatching", "ReferenceMissing"}
         /\ matches' \in 0..MatchesRequired /\ mismatches' \in 0..MismatchesRequired
         /\ samples' \in Seq(Results) /\ Len(samples') <= HistoryLength
<1>1. sinceDetection' \in 0..DetectPeriod
  BY ConstantFacts DEF TypeOK, Detect
<1>2. CASE UNCHANGED detectorVars
  BY <1>1, <1>2 DEF TypeOK, detectorVars
<1>3. CASE UpdateDetector(Result)
  <2>1. Result \in Results
    BY DEF Result, Results
  <2>2. samples' \in Seq(Results) /\ Len(samples') <= HistoryLength
    BY <1>3, <2>1, RememberTyped DEF UpdateDetector, TypeOK
  <2>3. matches' \in 0..MatchesRequired /\ mismatches' \in 0..MismatchesRequired
    BY <1>3, ConstantFacts DEF UpdateDetector, TypeOK, AtMost
  <2>4. detection' \in {"Unknown", "Matching", "NotMatching", "ReferenceMissing"}
    BY <1>3 DEF UpdateDetector, TypeOK
  <2> QED BY <1>1, <2>2, <2>3, <2>4
<1> QED BY <1>2, <1>3 DEF Detect

\* What a cycle does to the still detector.  It either starts to wait anew, or
\* goes on waiting; and it is active after the whole delay only.
LEMMA DetectStill ==
  ASSUME TypeOK, StillCounts, NEW elapsed \in Elapsed, Detect(elapsed),
         screen' \in Pictures \cup {NoPicture}
  PROVE  /\ baseline' \in Pictures \cup {Nobody}
         /\ stillFor' \in 0..StillDelay /\ still' \in {"inactive", "active"}
         /\ StillCounts'
         /\ \/ stillFor' = 0 /\ still' = "inactive"
            \/ /\ baseline # Nobody /\ baseline' = baseline
               /\ stillFor' = AtMost(stillFor + elapsed, StillDelay)
         /\ runState = "stopped" => baseline' = Nobody
<1> Nobody \notin Pictures /\ NoPicture \notin Pictures
  BY SelectionAssumption DEF SelectionAssumption
<1>1. CASE ResetStill
  BY <1>1, ConstantFacts DEF ResetStill, StillCounts
<1>2. CASE runState # "stopped" /\ KeepStill(elapsed)
  BY <1>2, ConstantFacts DEF KeepStill, StillCounts, TypeOK, AtMost
<1>3. CASE runState # "stopped" /\ UpdateStill(elapsed) /\ Eligible
  <2>1. screen' \in Pictures
    BY <1>3 DEF Eligible, Result
  <2>2. CASE baseline # screen'
    BY <1>3, <2>1, <2>2, ConstantFacts DEF UpdateStill, StillCounts
  <2>3. CASE baseline = screen'
    BY <1>3, <2>1, <2>3, ConstantFacts DEF UpdateStill, StillCounts, TypeOK, AtMost
  <2> QED BY <2>2, <2>3
<1>4. CASE UpdateStill(elapsed) /\ ~Eligible
  BY <1>1, <1>4 DEF UpdateStill
<1> QED BY <1>1, <1>2, <1>3, <1>4 DEF Detect

\* What a fade loses, the wait gains at most.
LEMMA WaitArithmetic ==
  ASSUME NEW waited \in Nat, NEW left \in Nat, NEW elapsed \in Nat, NEW limit \in Nat,
         NEW waits \in Nat, waits <= waited + elapsed, waited + left <= limit
  PROVE  waits + (left - elapsed) <= limit
OBVIOUS

\* What a cycle of a running runtime does to the inset.
LEMMA FadePipFacts ==
  ASSUME TypeOK, NEW elapsed \in Elapsed, FadePip(elapsed)
  PROVE  /\ pipMix' \in 0..Fade /\ pipGoal' \in {0, Fade} /\ renderLayout' \in Layouts
         /\ pipMix' = Toward(pipMix, pipGoal, elapsed)
         /\ pipGoal' = Fade => PipWanted
         /\ ~PipWanted => pipGoal' = 0
         /\ renderLayout' \in {layout, renderLayout}
         /\ PipWanted /\ mode = "ForcePip" => renderLayout' = layout
         /\ PipWanted /\ pipGoal = 0 => renderLayout' = layout
         /\ ~PipWanted /\ pipMix' = 0 => renderLayout' = layout
         /\ renderLayout' # renderLayout =>
              \/ PipWanted /\ (pipGoal = 0 \/ mode = "ForcePip")
              \/ ~PipWanted /\ pipMix' = 0
<1>1. elapsed \in Nat
  BY ConstantFacts
<1>2. pipMix \in 0..Fade /\ pipGoal \in {0, Fade}
  BY DEF TypeOK
<1>3. pipMix' = Toward(pipMix, pipGoal, elapsed)
  BY DEF FadePip
<1>4. pipMix' \in 0..Fade
  BY <1>1, <1>2, <1>3, TowardFacts
<1> QED BY <1>3, <1>4, ConstantFacts DEF FadePip, TypeOK

\* The source that a cycle decides on is usable.
LEMMA DesiredReady ==
  ASSUME renderLayout' \in Layouts
  PROVE  /\ Desired \in Sources
         /\ Desired = "Screen" => screen' # NoPicture
         /\ Desired = "Camera" => camera' = "ready"
<1>1. CASE PipWanted
  BY <1>1 DEF Desired, PipWanted, Main, Sources
<1>2. CASE ~PipWanted
  <2> DEFINE source == Requested(mode, detection')
  <2>1. Desired = Available(source)
    BY <1>2 DEF Desired
  <2> HIDE DEF source
  <2> QED BY <2>1 DEF Available, Sources
<1> QED BY <1>1, <1>2

\* One more sample of a kind makes the run of that kind at the end one longer.
LEMMA RememberLast ==
  ASSUME NEW n \in Nat, NEW m \in Nat, NEW result \in Results,
         m <= n + 1, m <= HistoryLength,
         samples \in Seq(Results), Len(samples) <= HistoryLength,
         LastAre(n, result, samples), Remember(result)
  PROVE  LastAre(m, result, samples')
<1>1. Len(samples) >= n /\ Len(samples) \in Nat
      /\ \A i \in Len(samples) - n + 1 .. Len(samples) : samples[i] = result
  BY DEF LastAre
<1>2. CASE Len(samples) < HistoryLength
  <2>1. samples' = Append(samples, result)
    BY <1>2 DEF Remember
  <2>2. Len(samples') = Len(samples) + 1
    BY <2>1
  <2>3. ASSUME NEW i \in Len(samples') - m + 1 .. Len(samples') PROVE samples'[i] = result
    <3>1. CASE i = Len(samples) + 1
      BY <2>1, <3>1
    <3>2. CASE i <= Len(samples)
      <4>1. i \in Len(samples) - n + 1 .. Len(samples) /\ i \in 1..Len(samples)
        BY <1>1, <2>2, <3>2
      <4>2. samples'[i] = samples[i]
        BY <2>1, <4>1
      <4> QED BY <1>1, <4>1, <4>2
    <3> QED BY <1>1, <2>2, <3>1, <3>2
  <2> QED BY <1>1, <2>2, <2>3 DEF LastAre
<1>3. CASE Len(samples) = HistoryLength
  <2>1. samples' = Append(Tail(samples), result)
    BY <1>3, ConstantFacts DEF Remember
  <2>2. Tail(samples) \in Seq(Results) /\ Len(Tail(samples)) = Len(samples) - 1
        /\ \A i \in 1 .. Len(samples) - 1 : Tail(samples)[i] = samples[i + 1]
    BY <1>3, ConstantFacts
  <2>3. Len(samples') = Len(samples)
    BY <1>1, <2>1, <2>2
  <2>4. ASSUME NEW i \in Len(samples') - m + 1 .. Len(samples') PROVE samples'[i] = result
    <3>1. CASE i = Len(samples)
      BY <2>1, <2>2, <3>1
    <3>2. CASE i < Len(samples)
      <4>1. i + 1 \in Len(samples) - n + 1 .. Len(samples) /\ i \in 1 .. Len(samples) - 1
        BY <1>1, <1>3, <2>3, <3>2
      <4>2. samples'[i] = Tail(samples)[i]
        BY <2>1, <2>2, <4>1
      <4>3. samples'[i] = samples[i + 1]
        BY <2>2, <4>1, <4>2
      <4> QED BY <1>1, <4>1, <4>3
    <3> QED BY <1>1, <2>3, <3>1, <3>2
  <2> QED BY <1>3, <2>3, <2>4 DEF LastAre
<1> QED BY <1>1, <1>2, <1>3, ConstantFacts

\* No sample at all is always there.
LEMMA LastNone ==
  ASSUME NEW kind, NEW history \in Seq(Results)
  PROVE  LastAre(0, kind, history)
BY DEF LastAre

\* A sample keeps the detector's counts backed by the history, and changes its
\* mind only when the count it needs is complete.
LEMMA UpdateDebounced ==
  ASSUME TypeOK, HistoryAgrees, NEW result \in Results, UpdateDetector(result)
  PROVE  /\ HistoryAgrees'
         /\ detection' = "NotMatching" /\ detection # "NotMatching" =>
              LastAre(MismatchesRequired, "mismatch", samples')
         /\ detection' = "Matching" /\ detection # "Matching" =>
              LastAre(MatchesRequired, "match", samples')
<1>1. Remember(result) /\ samples \in Seq(Results) /\ Len(samples) <= HistoryLength
  BY DEF TypeOK, UpdateDetector
<1>2. samples' \in Seq(Results)
  BY <1>1, RememberTyped
<1>3. matches \in 0..MatchesRequired /\ mismatches \in 0..MismatchesRequired
  BY DEF TypeOK
<1>4. LastAre(matches', "match", samples')
  <2>1. CASE result = "match"
    <3>1. matches' = AtMost(matches + 1, MatchesRequired)
      BY <2>1 DEF UpdateDetector
    <3>2. matches' \in Nat /\ matches' <= matches + 1 /\ matches' <= HistoryLength
          /\ matches \in Nat
      BY <1>3, <3>1, ConstantFacts DEF AtMost
    <3>3. LastAre(matches, result, samples)
      BY <2>1 DEF HistoryAgrees
    <3>4. LastAre(matches', result, samples')
      BY <1>1, <3>2, <3>3, RememberLast
    <3> QED BY <2>1, <3>4
  <2>2. CASE result # "match"
    <3>1. matches' = 0
      BY <2>2 DEF UpdateDetector
    <3> QED BY <1>2, <3>1, LastNone
  <2> QED BY <2>1, <2>2
<1>5. LastAre(mismatches', "mismatch", samples')
  <2>1. CASE result = "mismatch"
    <3>1. mismatches' = AtMost(mismatches + 1, MismatchesRequired)
      BY <2>1 DEF UpdateDetector
    <3>2. mismatches' \in Nat /\ mismatches' <= mismatches + 1
          /\ mismatches' <= HistoryLength /\ mismatches \in Nat
      BY <1>3, <3>1, ConstantFacts DEF AtMost
    <3>3. LastAre(mismatches, result, samples)
      BY <2>1 DEF HistoryAgrees
    <3>4. LastAre(mismatches', result, samples')
      BY <1>1, <3>2, <3>3, RememberLast
    <3> QED BY <2>1, <3>4
  <2>2. CASE result # "mismatch"
    <3>1. mismatches' = 0
      BY <2>2 DEF UpdateDetector
    <3> QED BY <1>2, <3>1, LastNone
  <2> QED BY <2>1, <2>2
<1>6. detection' =
        CASE result = "invalid" -> "ReferenceMissing"
          [] result = "match" /\ matches' = MatchesRequired -> "Matching"
          [] result = "mismatch" /\ mismatches' = MismatchesRequired -> "NotMatching"
          [] OTHER -> detection
  BY DEF UpdateDetector
<1>7. CASE result = "match"
  BY <1>4, <1>5, <1>6, <1>7 DEF HistoryAgrees
<1>8. CASE result = "mismatch"
  BY <1>4, <1>5, <1>6, <1>8 DEF HistoryAgrees
<1>9. CASE result = "invalid"
  BY <1>4, <1>5, <1>6, <1>9 DEF HistoryAgrees
<1> QED BY <1>7, <1>8, <1>9 DEF Results

\* The same of a cycle, whether a detection is due or not.
LEMMA DetectDebounced ==
  ASSUME TypeOK, HistoryAgrees, NEW elapsed \in Elapsed, Detect(elapsed)
  PROVE  /\ HistoryAgrees'
         /\ detection' = "NotMatching" /\ detection # "NotMatching" =>
              LastAre(MismatchesRequired, "mismatch", samples')
         /\ detection' = "Matching" /\ detection # "Matching" =>
              LastAre(MatchesRequired, "match", samples')
<1>1. CASE UNCHANGED detectorVars
  BY <1>1 DEF HistoryAgrees, detectorVars
<1>2. CASE UpdateDetector(Result)
  <2>1. Result \in Results
    BY DEF Result, Results
  <2> QED BY <1>2, <2>1, UpdateDebounced
<1> QED BY <1>1, <1>2 DEF Detect

-----------------------------------------------------------------------------
(***************************************************************************)
(* Preservation.                                                           *)
(***************************************************************************)

\* The inductive invariant holds at the start.
LEMMA InitEstablishes == Init => SelectionInv
<1> SUFFICES ASSUME Init PROVE SelectionInv
  OBVIOUS
<1>1. TypeOK
  BY ConstantFacts DEF Init, TypeOK, Sources
<1>2. StoppedIsOff /\ OnAirIsReady /\ StillCounts /\ LayoutWaits
  BY ConstantFacts DEF Init, StoppedIsOff, OnAirIsReady, StillCounts, LayoutWaits
<1> QED BY <1>1, <1>2 DEF SelectionInv

\* A cycle of a stopped runtime, whose detection goes on.
LEMMA StoppedCycle ==
  ASSUME SelectionInv, NEW elapsed \in Elapsed, runState = "stopped",
         camera' \in {"ready", "lost"}, screen' \in Pictures \cup {NoPicture},
         Detect(elapsed), Tick(elapsed),
         UNCHANGED <<runState, settingVars, reference>>
  PROVE  SelectionInv'
<1>1. TypeOK /\ StillCounts
  BY DEF SelectionInv
<1>2. ShowOff
  BY DEF Tick
<1>3. baseline' = Nobody /\ stillFor' = 0 /\ still' = "inactive"
  BY <1>1, DetectStill DEF StillCounts
<1>4. TypeOK'
  <2>1. /\ sinceDetection' \in 0..DetectPeriod
        /\ detection' \in {"Unknown", "Matching", "NotMatching", "ReferenceMissing"}
        /\ matches' \in 0..MatchesRequired /\ mismatches' \in 0..MismatchesRequired
        /\ samples' \in Seq(Results) /\ Len(samples') <= HistoryLength
    BY <1>1, DetectTyped
  <2> QED BY <1>1, <1>2, <1>3, <2>1, ConstantFacts
          DEF TypeOK, ShowOff, settingVars, Sources
<1>5. StoppedIsOff' /\ OnAirIsReady'
  BY <1>2, <1>3, ConstantFacts DEF StoppedIsOff, OnAirIsReady, ShowOff
<1>6. StillCounts' /\ LayoutWaits'
  BY <1>3 DEF StillCounts, LayoutWaits
<1> QED BY <1>4, <1>5, <1>6 DEF SelectionInv

\* A layout other than the settings' survives a cycle only in an inset that
\* fades out, and only until the still detector may ask for the next one.
LEMMA RunningCycleWaits ==
  ASSUME SelectionInv, NEW elapsed \in Elapsed,
         screen' \in Pictures \cup {NoPicture},
         Detect(elapsed), FadePip(elapsed), UNCHANGED settingVars
  PROVE  LayoutWaits'
<1> SUFFICES ASSUME renderLayout' # layout, baseline' # Nobody
             PROVE  pipGoal' = 0 /\ stillFor' + pipMix' <= Fade
  BY DEF LayoutWaits, settingVars
<1>1. TypeOK /\ StillCounts /\ LayoutWaits
  BY DEF SelectionInv
<1>2. elapsed \in Nat
  BY ConstantFacts
<1>3. pipMix \in 0..Fade /\ pipGoal \in {0, Fade} /\ stillFor \in 0..StillDelay
  BY <1>1 DEF TypeOK
<1>4. renderLayout # layout /\ renderLayout' = renderLayout
  BY <1>1, FadePipFacts
<1>5. \/ stillFor' = 0 /\ still' = "inactive"
      \/ baseline # Nobody /\ stillFor' = AtMost(stillFor + elapsed, StillDelay)
  BY <1>1, DetectStill
<1>6. pipMix' \in 0..Fade /\ pipMix' = Toward(pipMix, pipGoal, elapsed)
  BY <1>1, FadePipFacts
<1>7. still' = "active" => stillFor' = StillDelay
  BY <1>1, DetectStill DEF StillCounts
<1>8. PipWanted => FALSE
  <2> SUFFICES ASSUME PipWanted PROVE FALSE
    OBVIOUS
  <2>1. pipGoal # 0 /\ mode # "ForcePip"
    BY <1>1, <1>4, FadePipFacts
  <2>2. still' = "active"
    BY <2>1 DEF PipWanted
  <2>3. baseline # Nobody
    BY <1>5, <2>2
  <2> QED BY <1>1, <1>4, <2>1, <2>3 DEF LayoutWaits
<1>9. pipGoal' = 0
  BY <1>1, <1>8, FadePipFacts
<1>10. CASE stillFor' = 0
  BY <1>6, <1>9, <1>10, ConstantFacts
<1>11. CASE baseline # Nobody /\ stillFor' = AtMost(stillFor + elapsed, StillDelay)
  <2>1. pipGoal = 0 /\ stillFor + pipMix <= Fade
    BY <1>1, <1>4, <1>11 DEF LayoutWaits
  <2>2. pipMix' # 0
    BY <1>1, <1>4, <1>8, FadePipFacts
  <2>3. pipMix' = pipMix - elapsed
    BY <1>2, <1>3, <1>6, <2>1, <2>2, TowardFacts
  <2>4. stillFor' <= stillFor + elapsed
    BY <1>2, <1>3, <1>11, ConstantFacts DEF AtMost
  <2>5. stillFor' \in Nat
    BY <1>2, <1>3, <1>11, ConstantFacts DEF AtMost
  <2>6. pipMix \in Nat /\ stillFor \in Nat /\ Fade \in Nat
    BY <1>3, ConstantFacts
  <2>7. stillFor' + pipMix' <= Fade
    BY <1>2, <2>1, <2>3, <2>4, <2>5, <2>6, WaitArithmetic
  <2> QED BY <1>9, <2>7
<1> QED BY <1>5, <1>10, <1>11

\* A cycle of a running runtime.
LEMMA RunningCycle ==
  ASSUME SelectionInv, NEW elapsed \in Elapsed, runState = "running",
         camera' \in {"ready", "lost"}, screen' \in Pictures \cup {NoPicture},
         Detect(elapsed), Tick(elapsed),
         UNCHANGED <<runState, settingVars, reference>>
  PROVE  SelectionInv'
<1>1. TypeOK /\ StillCounts
  BY DEF SelectionInv
<1>2. FadePip(elapsed) /\ FadeSource(elapsed) /\ output' = Desired
      /\ shown' = IF pipMix' > 0 THEN renderLayout' ELSE Desired
  BY DEF Tick
<1>3. /\ pipMix' \in 0..Fade /\ pipGoal' \in {0, Fade} /\ renderLayout' \in Layouts
      /\ pipGoal' = Fade => PipWanted
  BY <1>1, <1>2, FadePipFacts
<1>4. /\ Desired \in Sources
      /\ Desired = "Screen" => screen' # NoPicture
      /\ Desired = "Camera" => camera' = "ready"
  BY <1>3, DesiredReady
<1>5. mix' \in 0..Fade /\ target' \in Sources
  <2>1. elapsed \in Nat /\ mix \in 0..Fade /\ Goal(target) \in {0, Fade} /\ 0 \in 0..Fade
    BY <1>1, ConstantFacts DEF TypeOK, Goal
  <2>2. Toward(mix, Goal(target), elapsed) \in 0..Fade
    BY <2>1, TowardFacts
  <2>3. mix' = IF Desired = "Placeholder" THEN 0 ELSE Toward(mix, Goal(target), elapsed)
    BY <1>2 DEF FadeSource
  <2>4. target' = Desired
    BY <1>2 DEF FadeSource
  <2> QED BY <1>4, <2>1, <2>2, <2>3, <2>4
<1>6. /\ baseline' \in Pictures \cup {Nobody}
      /\ stillFor' \in 0..StillDelay /\ still' \in {"inactive", "active"}
      /\ StillCounts'
  BY <1>1, DetectStill
<1>7. TypeOK'
  <2>1. /\ sinceDetection' \in 0..DetectPeriod
        /\ detection' \in {"Unknown", "Matching", "NotMatching", "ReferenceMissing"}
        /\ matches' \in 0..MatchesRequired /\ mismatches' \in 0..MismatchesRequired
        /\ samples' \in Seq(Results) /\ Len(samples') <= HistoryLength
    BY <1>1, DetectTyped
  <2>2. shown' \in Sources \cup Layouts
    BY <1>2, <1>3, <1>4
  <2> QED BY <1>1, <1>2, <1>3, <1>4, <1>5, <1>6, <2>1, <2>2 DEF TypeOK, settingVars
<1>8. OnAirIsReady'
  BY <1>2, <1>3, <1>4 DEF OnAirIsReady, PipWanted
<1>9. LayoutWaits'
  BY <1>2, RunningCycleWaits
<1>10. StoppedIsOff'
  BY DEF StoppedIsOff
<1> QED BY <1>6, <1>7, <1>8, <1>9, <1>10 DEF SelectionInv

\* Every step of the specification preserves the invariant.
LEMMA NextPreserves == SelectionInv /\ [Next]_vars => SelectionInv'
<1> SUFFICES ASSUME SelectionInv, [Next]_vars PROVE SelectionInv'
  OBVIOUS
<1>1. TypeOK /\ StoppedIsOff /\ OnAirIsReady /\ StillCounts /\ LayoutWaits
  BY DEF SelectionInv
<1>2. CASE Step
  <2>1. PICK elapsed \in Elapsed, c \in {"ready", "lost"}, s \in Pictures \cup {NoPicture} :
          camera' = c /\ screen' = s /\ Detect(elapsed) /\ Tick(elapsed)
    BY <1>2 DEF Step
  <2>2. UNCHANGED <<runState, settingVars, reference>>
    BY <1>2 DEF Step
  <2>3. CASE runState = "stopped"
    BY <2>1, <2>2, <2>3, StoppedCycle
  <2>4. CASE runState = "running"
    BY <2>1, <2>2, <2>4, RunningCycle
  <2> QED BY <1>1, <2>3, <2>4 DEF TypeOK
<1>3. CASE Start
  <2> USE <1>1, <1>3, ConstantFacts DEF Start, ResetStill, settingVars, inputVars,
          detectorVars, pipVars, outputVars
  <2>1. TypeOK'
    BY DEF TypeOK
  <2>2. StoppedIsOff' /\ OnAirIsReady' /\ StillCounts' /\ LayoutWaits'
    BY DEF StoppedIsOff, OnAirIsReady, StillCounts, LayoutWaits
  <2> QED BY <2>1, <2>2 DEF SelectionInv
<1>4. CASE Stop
  <2> USE <1>1, <1>4, ConstantFacts DEF Stop, ShowOff, ResetStill, settingVars,
          inputVars, detectorVars
  <2>1. TypeOK'
    BY DEF TypeOK, Sources
  <2>2. StoppedIsOff' /\ OnAirIsReady' /\ StillCounts' /\ LayoutWaits'
    BY DEF StoppedIsOff, OnAirIsReady, StillCounts, LayoutWaits
  <2> QED BY <2>1, <2>2 DEF SelectionInv
<1>5. CASE SetMode
  <2> USE <1>1, <1>5, ConstantFacts DEF SetMode, ResetStill, stillVars, inputVars,
          detectorVars, pipVars, outputVars
  <2>1. TypeOK'
    BY DEF TypeOK
  <2>2. StoppedIsOff' /\ OnAirIsReady' /\ StillCounts' /\ LayoutWaits'
    BY DEF StoppedIsOff, OnAirIsReady, StillCounts, LayoutWaits
  <2> QED BY <2>1, <2>2 DEF SelectionInv
<1>6. CASE UpdateSettings
  <2> USE <1>1, <1>6, ConstantFacts DEF UpdateSettings, ResetStill, ResetDetector,
          stillVars, inputVars, detectorVars, pipVars, outputVars
  <2>1. TypeOK'
    <3>1. /\ detection' \in {"Unknown", "Matching", "NotMatching", "ReferenceMissing"}
          /\ matches' \in 0..MatchesRequired /\ mismatches' \in 0..MismatchesRequired
          /\ samples' \in Seq(Results) /\ Len(samples') <= HistoryLength
      <4>1. CASE ResetDetector
        BY <4>1
      <4>2. CASE UNCHANGED detectorVars
        BY <4>2 DEF TypeOK
      <4> QED BY <4>1, <4>2
    <3>2. /\ baseline' \in Pictures \cup {Nobody}
          /\ stillFor' \in 0..StillDelay /\ still' \in {"inactive", "active"}
      BY DEF TypeOK
    <3>3. /\ mode' \in Modes /\ pip' \in {"on", "off"} /\ layout' \in Layouts
          /\ UNCHANGED <<runState, camera, screen, reference, sinceDetection, pipMix,
                         pipGoal, renderLayout, mix, target, output, shown>>
      OBVIOUS
    <3> HIDE DEF UpdateSettings, ResetStill, ResetDetector
    <3> QED BY <3>1, <3>2, <3>3 DEF TypeOK
  <2>2. StoppedIsOff' /\ OnAirIsReady' /\ StillCounts' /\ LayoutWaits'
    BY DEF StoppedIsOff, OnAirIsReady, StillCounts, LayoutWaits
  <2> QED BY <2>1, <2>2 DEF SelectionInv
<1>7. CASE InstallReference
  <2> USE <1>1, <1>7, ConstantFacts DEF InstallReference, ResetStill, ResetDetector,
          settingVars, inputVars, pipVars, outputVars
  <2>1. TypeOK'
    BY DEF TypeOK
  <2>2. StoppedIsOff' /\ OnAirIsReady' /\ StillCounts' /\ LayoutWaits'
    BY DEF StoppedIsOff, OnAirIsReady, StillCounts, LayoutWaits
  <2> QED BY <2>1, <2>2 DEF SelectionInv
<1>8. CASE ReferenceLoadFails
  <2> USE <1>1, <1>8, ConstantFacts DEF ReferenceLoadFails, ResetDetector, settingVars,
          inputVars, stillVars, pipVars, outputVars
  <2>1. TypeOK'
    BY DEF TypeOK
  <2>2. StoppedIsOff' /\ OnAirIsReady' /\ StillCounts' /\ LayoutWaits'
    BY DEF StoppedIsOff, OnAirIsReady, StillCounts, LayoutWaits
  <2> QED BY <2>1, <2>2 DEF SelectionInv
<1>9. CASE UNCHANGED vars
  <2> USE <1>1, <1>9 DEF vars, settingVars, inputVars, detectorVars, stillVars,
          pipVars, outputVars
  <2>1. TypeOK'
    BY DEF TypeOK
  <2>2. StoppedIsOff' /\ OnAirIsReady' /\ StillCounts' /\ LayoutWaits'
    BY DEF StoppedIsOff, OnAirIsReady, StillCounts, LayoutWaits
  <2> QED BY <2>1, <2>2 DEF SelectionInv
<1> QED BY <1>2, <1>3, <1>4, <1>5, <1>6, <1>7, <1>8, <1>9 DEF Next, Command

-----------------------------------------------------------------------------
(***************************************************************************)
(* The theorems.                                                           *)
(***************************************************************************)

\* The inductive invariant of the runtime's decision, detection and fades.
THEOREM SelectionInvariance == Spec => []SelectionInv
BY InitEstablishes, NextPreserves, PTL DEF Spec

\* Every variable keeps its type and range.
THEOREM SelectionTypeCorrect == Spec => []TypeOK
<1>1. SelectionInv => TypeOK
  BY DEF SelectionInv
<1> QED BY <1>1, SelectionInvariance, PTL

\* A stopped runtime shows the off picture and keeps nothing for the next run.
THEOREM StoppedStaysOff == Spec => []StoppedIsOff
<1>1. SelectionInv => StoppedIsOff
  BY DEF SelectionInv
<1> QED BY <1>1, SelectionInvariance, PTL

\* Nothing goes on air, and no inset fades in, without the inputs it needs.
THEOREM OnAirStaysReady == Spec => []OnAirIsReady
<1>1. SelectionInv => OnAirIsReady
  BY DEF SelectionInv
<1> QED BY <1>1, SelectionInvariance, PTL

\* The sources of an inset that can be seen do not swap places, for any fade
\* that is no longer than the delay before an inset appears.
THEOREM LayoutIsSteady == Spec => LayoutSteady
<1> DEFINE Steady == pipMix > 0 /\ pipMix' > 0 /\ mode # "ForcePip" => UNCHANGED renderLayout
<1>1. SelectionInv /\ [Next]_vars => [Steady]_vars
  <2> SUFFICES ASSUME SelectionInv, [Next]_vars, pipMix > 0, pipMix' > 0,
                      mode # "ForcePip", renderLayout' # renderLayout
               PROVE  FALSE
    OBVIOUS
  <2>1. TypeOK /\ StillCounts /\ LayoutWaits
    BY DEF SelectionInv
  <2>2. Step
    BY DEF Next, Command, Start, Stop, ShowOff, SetMode, UpdateSettings,
           InstallReference, ReferenceLoadFails, vars, pipVars
  <2>3. PICK elapsed \in Elapsed, c \in {"ready", "lost"}, s \in Pictures \cup {NoPicture} :
          camera' = c /\ screen' = s /\ Detect(elapsed) /\ Tick(elapsed)
    BY <2>2 DEF Step
  <2>4. FadePip(elapsed)
    BY <2>3 DEF Tick, ShowOff
  <2>5. pipMix \in 0..Fade /\ pipMix' \in 0..Fade /\ elapsed \in Nat
        /\ stillFor \in 0..StillDelay
    BY <2>1, <2>4, FadePipFacts, ConstantFacts DEF TypeOK
  <2>6. PipWanted /\ pipGoal = 0 /\ renderLayout' = layout
    BY <2>1, <2>4, <2>5, FadePipFacts
  <2>7. still' = "active"
    BY <2>6 DEF PipWanted
  <2>8. /\ stillFor' = StillDelay /\ baseline # Nobody
        /\ stillFor' = AtMost(stillFor + elapsed, StillDelay)
    BY <2>1, <2>3, <2>7, DetectStill DEF StillCounts
  <2>9. stillFor + pipMix <= Fade
    BY <2>1, <2>6, <2>8 DEF LayoutWaits
  <2>10. pipMix' = pipMix - elapsed
    <3>1. pipMix' = Toward(pipMix, 0, elapsed)
      BY <2>1, <2>4, <2>6, FadePipFacts
    <3> QED BY <2>5, <3>1, TowardFacts
  <2>11. stillFor + elapsed >= StillDelay
    BY <2>5, <2>8, ConstantFacts DEF AtMost
  <2> QED BY <2>5, <2>9, <2>10, <2>11, ConstantFacts
<1> QED BY <1>1, SelectionInvariance, PTL DEF Spec, LayoutSteady

\* Every step keeps the detector's counts backed by its history, and the detector
\* changes its mind only with a complete count.
LEMMA NextDebounced ==
  ASSUME TypeOK, HistoryAgrees, [Next]_vars
  PROVE  /\ HistoryAgrees'
         /\ detection' = "NotMatching" /\ detection # "NotMatching" =>
              LastAre(MismatchesRequired, "mismatch", samples')
         /\ detection' = "Matching" /\ detection # "Matching" =>
              LastAre(MatchesRequired, "match", samples')
<1>1. CASE Step
  <2>1. PICK elapsed \in Elapsed : Detect(elapsed)
    BY <1>1 DEF Step
  <2> QED BY <2>1, DetectDebounced
<1>2. CASE UNCHANGED detectorVars
  BY <1>2 DEF HistoryAgrees, detectorVars
<1>3. CASE ResetDetector
  <2>1. samples' \in Seq(Results)
    BY <1>3 DEF ResetDetector
  <2> QED BY <1>3, <2>1, LastNone DEF HistoryAgrees, ResetDetector
<1>4. CASE Command
  BY <1>2, <1>3, <1>4 DEF Command, Start, Stop, SetMode, UpdateSettings,
     InstallReference, ReferenceLoadFails, detectorVars
<1>5. CASE UNCHANGED vars
  BY <1>2, <1>5 DEF vars
<1> QED BY <1>1, <1>4, <1>5 DEF Next

\* The detector changes its mind only after as many equal samples in a row, all
\* since the last change of the reference or of the threshold, as the settings
\* ask for, however long the two debounces are.
THEOREM SwitchStaysDebounced == Spec => SwitchIsDebounced
<1> DEFINE Debounced ==
      /\ detection' = "NotMatching" /\ detection # "NotMatching" =>
           LastAre(MismatchesRequired, "mismatch", samples')
      /\ detection' = "Matching" /\ detection # "Matching" =>
           LastAre(MatchesRequired, "match", samples')
<1>1. Init => HistoryAgrees
  <2> SUFFICES ASSUME Init PROVE HistoryAgrees
    OBVIOUS
  <2>1. samples \in Seq(Results) /\ matches = 0 /\ mismatches = 0
    BY DEF Init
  <2> QED BY <2>1, LastNone DEF HistoryAgrees
<1>2. TypeOK /\ HistoryAgrees /\ [Next]_vars => HistoryAgrees' /\ [Debounced]_vars
  BY NextDebounced
<1> QED BY <1>1, <1>2, SelectionTypeCorrect, PTL DEF Spec, SwitchIsDebounced

============================================================================
