------------------------- MODULE MonitorScanProofs -------------------------
(***************************************************************************)
(* What holds of reference discovery for any displays, any settings and    *)
(* any number of changes: the types, the tracker's agreement with the      *)
(* selected display, and that the display changes by itself only when it   *)
(* won twice.  The inductive invariant is TypeOK, TrackerAgrees and        *)
(* WinsAreCurrent together.                                                *)
(***************************************************************************)
EXTENDS MonitorScan, TLAPS

\* The initial states have the types.
LEMMA InitTypes == Init => TypeOK
  <1> SUFFICES ASSUME Init PROVE TypeOK
    OBVIOUS
  <1> USE DisplaysAssumption DEF Init, AllSettings, Requests, NoRequest,
          NoResult, NoWin, Tracking
  <1>1. slot \in Requests
    <2>1. CASE settings.automatic = "on"
      BY <2>1
    <2>2. CASE settings.automatic # "on"
      BY <2>2
    <2> QED BY <2>1, <2>2
  <1>2. tracker \in [tracked : Displays \cup {NoDisplay},
                     pending : Displays \cup {NoDisplay}, confirmations : 0 .. 1]
    OBVIOUS
  <1> QED BY <1>1, <1>2 DEF TypeOK

\* Requests under way stay requests when the counters grow.
LEMMA RequestsGrow ==
  ASSUME TypeOK,
         generation' \in Nat, generation <= generation',
         reference' \in Nat, reference <= reference',
         selections' \in Nat, selections <= selections'
  PROVE  Requests \subseteq Requests'
  BY DEF TypeOK, Requests

\* A new request is a request.
LEMMA NewRequest ==
  ASSUME NEW origin \in {"user", "automatic"}, NEW cursor \in {"shown", "hidden"},
         generation' \in Nat, reference' \in Nat, selections' \in Nat
  PROVE  Request(origin, cursor) \in Requests'
  BY DEF Request, Requests

LEMMA NoRequestTypes ==
  ASSUME generation' \in Nat, reference' \in Nat, selections' \in Nat
  PROVE  NoRequest \in Requests'
  BY DEF NoRequest, Requests

\* What a change of settings, reference or selection does to the requests.
LEMMA RequestIfTypes ==
  ASSUME TypeOK, NEW automatic, NEW cursor \in {"shown", "hidden"},
         RequestIf(automatic, cursor),
         generation' \in Nat, reference' \in Nat, selections' \in Nat
  PROVE  /\ slot' \in Requests'
         /\ worker' \in {"Awake", "Checked", "Asleep", "Scanning", "Gone"}
  <1>1. CASE automatic = "on"
    <2>1. slot' = Request("automatic", cursor)
      BY <1>1 DEF RequestIf, Replace
    <2>2. slot' \in Requests'
      BY <2>1, NewRequest
    <2> QED BY <1>1, <2>2 DEF RequestIf, Replace, TypeOK
  <1>2. CASE automatic # "on"
    BY <1>2, NoRequestTypes DEF RequestIf, Withdraw, TypeOK
  <1> QED BY <1>1, <1>2

LEMMA TrackingTypes ==
  ASSUME NEW display \in Displays \cup {NoDisplay}
  PROVE  Tracking(display) \in
           [tracked : Displays \cup {NoDisplay},
            pending : Displays \cup {NoDisplay}, confirmations : 0 .. 1]
  BY DEF Tracking

\* Every step keeps the types.
LEMMA StepTypes == TypeOK /\ [Next]_vars => TypeOK'
  <1> SUFFICES ASSUME TypeOK, [Next]_vars PROVE TypeOK'
    OBVIOUS
  <1> USE DisplaysAssumption DEF AllSettings
  <1>1. ASSUME NEW new \in Settings, UpdateSettings(new)
        PROVE  TypeOK'
    <2>1. /\ generation' \in Nat \ {0} /\ generation <= generation'
          /\ reference' = reference /\ selections' = selections
      BY <1>1 DEF UpdateSettings, Invalidate, TypeOK
    <2>2. Requests \subseteq Requests'
      BY <2>1, RequestsGrow DEF TypeOK
    <2>3. /\ slot' \in Requests'
          /\ worker' \in {"Awake", "Checked", "Asleep", "Scanning", "Gone"}
      BY <1>1, <2>1, RequestIfTypes DEF UpdateSettings, TypeOK
    <2>4. result' \in [request : Requests', scores : {<<>>} \cup [Displays -> Levels]]
      BY <1>1, <2>1, NoRequestTypes DEF UpdateSettings, Invalidate, NoResult, TypeOK
    <2>5. tracker' \in [tracked : Displays \cup {NoDisplay},
                        pending : Displays \cup {NoDisplay}, confirmations : 0 .. 1]
      BY <1>1, TrackingTypes DEF UpdateSettings, Invalidate, TypeOK
    <2> QED BY <1>1, <2>1, <2>2, <2>3, <2>4, <2>5 DEF UpdateSettings, exitVars, TypeOK
  <1>2. ASSUME NEW new \in Settings, ReloadSettings(new)
        PROVE  TypeOK'
    <2>1. /\ generation' \in Nat \ {0} /\ generation <= generation'
          /\ reference' = reference /\ selections' = selections
      BY <1>2 DEF ReloadSettings, Invalidate, TypeOK
    <2>2. Requests \subseteq Requests'
      BY <2>1, RequestsGrow DEF TypeOK
    <2>3. slot' \in Requests' /\ worker' = worker
      BY <1>2, <2>1, NoRequestTypes DEF ReloadSettings, Withdraw, TypeOK
    <2>4. result' \in [request : Requests', scores : {<<>>} \cup [Displays -> Levels]]
      BY <1>2, <2>1, NoRequestTypes DEF ReloadSettings, Invalidate, NoResult, TypeOK
    <2>5. tracker' \in [tracked : Displays \cup {NoDisplay},
                        pending : Displays \cup {NoDisplay}, confirmations : 0 .. 1]
      BY <1>2, TrackingTypes DEF ReloadSettings, Invalidate, TypeOK
    <2> QED BY <1>2, <2>1, <2>2, <2>3, <2>4, <2>5 DEF ReloadSettings, exitVars, TypeOK
  <1>3. ASSUME ReferenceUpdated
        PROVE  TypeOK'
    <2>1. /\ generation' \in Nat \ {0} /\ generation <= generation'
          /\ reference' \in Nat /\ reference <= reference'
          /\ selections' = selections
      BY <1>3 DEF ReferenceUpdated, Invalidate, TypeOK
    <2>2. Requests \subseteq Requests'
      BY <2>1, RequestsGrow DEF TypeOK
    <2>3. /\ slot' \in Requests'
          /\ worker' \in {"Awake", "Checked", "Asleep", "Scanning", "Gone"}
      BY <1>3, <2>1, RequestIfTypes DEF ReferenceUpdated, TypeOK
    <2>4. result' \in [request : Requests', scores : {<<>>} \cup [Displays -> Levels]]
      BY <1>3, <2>1, NoRequestTypes DEF ReferenceUpdated, Invalidate, NoResult, TypeOK
    <2>5. tracker' \in [tracked : Displays \cup {NoDisplay},
                        pending : Displays \cup {NoDisplay}, confirmations : 0 .. 1]
      BY <1>3, TrackingTypes DEF ReferenceUpdated, Invalidate, TypeOK
    <2> QED BY <1>3, <2>1, <2>2, <2>3, <2>4, <2>5 DEF ReferenceUpdated, exitVars, TypeOK
  <1>4. ASSUME NEW display \in Displays, SelectMonitor(display)
        PROVE  TypeOK'
    <2>1. /\ generation' \in Nat \ {0} /\ generation <= generation'
          /\ selections' \in Nat /\ selections <= selections'
          /\ reference' = reference
      BY <1>4 DEF SelectMonitor, TypeOK
    <2>2. Requests \subseteq Requests'
      BY <2>1, RequestsGrow DEF TypeOK
    <2>3. slot' \in Requests' /\ worker' = worker
      BY <1>4, <2>1, NoRequestTypes DEF SelectMonitor, Withdraw, TypeOK
    <2>4. result' \in [request : Requests', scores : {<<>>} \cup [Displays -> Levels]]
      BY <1>4, <2>1, NoRequestTypes DEF SelectMonitor, NoResult, TypeOK
    <2>5. tracker' \in [tracked : Displays \cup {NoDisplay},
                        pending : Displays \cup {NoDisplay}, confirmations : 0 .. 1]
      BY <1>4, TrackingTypes DEF SelectMonitor
    <2> QED BY <1>4, <2>1, <2>2, <2>3, <2>4, <2>5 DEF SelectMonitor, exitVars, TypeOK
  <1>5. ASSUME NEW origin \in {"user", "automatic"}, Scan(origin)
        PROVE  TypeOK'
    <2>1. /\ generation' = generation /\ reference' = reference
          /\ selections' = selections
      BY <1>5 DEF Scan
    <2>2. slot' \in Requests'
      BY <1>5, <2>1, NewRequest DEF Scan, Replace, TypeOK
    <2>3. worker' \in {"Awake", "Checked", "Asleep", "Scanning", "Gone"}
      BY <1>5 DEF Scan, Replace, TypeOK
    <2> QED BY <1>5, <2>1, <2>2, <2>3 DEF Scan, exitVars, TypeOK, Requests
  <1>6. ASSUME RefreshIgnores
        PROVE  TypeOK'
    <2>1. result' \in [request : Requests', scores : {<<>>} \cup [Displays -> Levels]]
      BY <1>6, NoRequestTypes DEF RefreshIgnores, NoResult, TypeOK
    <2> QED BY <1>6, <2>1 DEF RefreshIgnores, workerVars, exitVars, TypeOK, Requests
  <1>7. ASSUME RefreshMissing
        PROVE  TypeOK'
    <2>1. result' \in [request : Requests', scores : {<<>>} \cup [Displays -> Levels]]
      BY <1>7, NoRequestTypes DEF RefreshMissing, NoResult, TypeOK
    <2>2. tracker' \in [tracked : Displays \cup {NoDisplay},
                        pending : Displays \cup {NoDisplay}, confirmations : 0 .. 1]
      BY <1>7, TrackingTypes DEF RefreshMissing, TypeOK
    <2>3. previous' \in [request : Requests', best : Displays \cup {NoDisplay},
                         threshold : Levels]
      BY <1>7 DEF RefreshMissing, Remembers, TypeOK, Requests
    <2> QED BY <1>7, <2>1, <2>2, <2>3 DEF RefreshMissing, workerVars, exitVars, TypeOK, Requests
  <1>8. ASSUME RefreshWon
        PROVE  TypeOK'
    <2>1. /\ generation' = generation /\ reference' = reference
          /\ selections' = selections
      BY <1>8 DEF RefreshWon
    <2>2. result' \in [request : Requests', scores : {<<>>} \cup [Displays -> Levels]]
      BY <1>8, <2>1, NoRequestTypes DEF RefreshWon, NoResult, TypeOK
    <2>3. PICK best \in Winners(result.scores, settings.threshold) :
             tracker' = AfterWin(best) /\ Remembers(best)
      BY <1>8 DEF RefreshWon
    <2>4. best \in Displays
      BY <1>8, <2>3 DEF RefreshWon, Applies, Winners, TypeOK
    <2>5. tracker' \in [tracked : Displays \cup {NoDisplay},
                        pending : Displays \cup {NoDisplay}, confirmations : 0 .. 1]
      <3>1. CASE best = tracker.tracked \/ best = tracker.pending
        BY <2>3, <2>4, <3>1, TrackingTypes DEF AfterWin
      <3>2. CASE ~(best = tracker.tracked \/ best = tracker.pending)
        BY <2>3, <2>4, <3>2 DEF AfterWin, TypeOK
      <3> QED BY <3>1, <3>2
    <2>6. previous' \in [request : Requests', best : Displays \cup {NoDisplay},
                         threshold : Levels]
      BY <2>1, <2>3, <2>4 DEF Remembers, TypeOK, Requests
    <2>7. selected' \in Displays \cup {NoDisplay}
      BY <1>8, <2>5 DEF RefreshWon
    <2>8. /\ slot' \in Requests'
          /\ worker' \in {"Awake", "Checked", "Asleep", "Scanning", "Gone"}
      <3>1. CASE tracker'.confirmations = 1
        <4>1. Request(result.request.origin, settings.cursor) \in Requests'
          BY <2>1, NewRequest DEF TypeOK, Requests
        <4> QED BY <1>8, <3>1, <4>1 DEF RefreshWon, Replace, TypeOK
      <3>2. CASE tracker'.confirmations # 1
        BY <1>8, <2>1, <3>2 DEF RefreshWon, TypeOK, Requests
      <3> QED BY <3>1, <3>2
    <2> QED BY <1>8, <2>1, <2>2, <2>5, <2>6, <2>7, <2>8 DEF RefreshWon, exitVars, TypeOK, Requests
  <1>9. CASE OwnerStops \/ OwnerWakes \/ OwnerEnds
    BY <1>9 DEF OwnerStops, OwnerWakes, OwnerEnds, workerVars, TypeOK, Requests
  <1>10. CASE WorkerLooks
    <2>1. slot' \in Requests' /\ scanning' \in Requests'
      BY <1>10, NoRequestTypes DEF WorkerLooks, TypeOK, Requests
    <2> QED BY <1>10, <2>1 DEF WorkerLooks, exitVars, TypeOK, Requests
  <1>11. CASE WorkerWaits
    BY <1>11 DEF WorkerWaits, exitVars, TypeOK, Requests
  <1>12. CASE WorkerScans
    <2>1. scanning' \in Requests'
      BY <1>12, NoRequestTypes DEF WorkerScans, TypeOK
    <2>2. result' \in [request : Requests', scores : {<<>>} \cup [Displays -> Levels]]
      BY <1>12 DEF WorkerScans, TypeOK, Requests
    <2> QED BY <1>12, <2>1, <2>2 DEF WorkerScans, exitVars, TypeOK, Requests
  <1>13. CASE WorldChanges
    BY <1>13 DEF WorldChanges, workerVars, exitVars, TypeOK, Requests
  <1>14. CASE UNCHANGED vars
    BY <1>14 DEF vars, TypeOK, Requests
  <1> QED
    BY <1>1, <1>2, <1>3, <1>4, <1>5, <1>6, <1>7, <1>8, <1>9, <1>10, <1>11,
       <1>12, <1>13, <1>14
       DEF Next, Refresh, Worker, Rescan, AutomaticScan

\* The types hold throughout, whatever displays, settings and changes.
THEOREM TypeCorrect == Spec => []TypeOK
  BY InitTypes, StepTypes, PTL DEF Spec

(***************************************************************************)
(* The tracker and the selected display.                                   *)
(***************************************************************************)

\* What AfterWin does to a tracker that agrees with the selected display.
LEMMA AfterWinAgrees ==
  ASSUME TypeOK, TrackerAgrees, NEW best \in Displays,
         tracker' = AfterWin(best), selected' = tracker'.tracked
  PROVE  /\ TrackerAgrees'
         /\ selected' # selected => best = tracker.pending /\ best = selected'
         /\ tracker'.pending # NoDisplay => tracker'.pending = best
         /\ tracker'.confirmations = 1 <=> tracker'.pending # NoDisplay
  <1> USE DisplaysAssumption
  <1>1. CASE best = tracker.tracked \/ best = tracker.pending
    <2>1. tracker' = [tracked |-> best, pending |-> NoDisplay, confirmations |-> 0]
      BY <1>1 DEF AfterWin, Tracking
    <2> QED BY <1>1, <2>1 DEF TrackerAgrees, TypeOK
  <1>2. CASE ~(best = tracker.tracked \/ best = tracker.pending)
    <2>1. /\ tracker'.tracked = tracker.tracked
          /\ tracker'.pending = best
          /\ tracker'.confirmations = 1
      BY <1>2 DEF AfterWin
    <2> QED BY <1>2, <2>1 DEF TrackerAgrees
  <1> QED BY <1>1, <1>2

\* A tracker that was just given a display.
LEMMA TrackingAgrees ==
  ASSUME NEW display, tracker' = Tracking(display), selected' = display
  PROVE  TrackerAgrees' /\ tracker'.pending = NoDisplay
  BY DisplaysAssumption DEF Tracking, TrackerAgrees

\* Every step keeps the agreement.
LEMMA StepAgrees == TypeOK /\ TrackerAgrees /\ [Next]_vars => TrackerAgrees'
  <1> SUFFICES ASSUME TypeOK, TrackerAgrees, [Next]_vars PROVE TrackerAgrees'
    OBVIOUS
  <1>1. ASSUME NEW new \in Settings, UpdateSettings(new) \/ ReloadSettings(new)
        PROVE  TrackerAgrees'
    BY <1>1, TrackingAgrees DEF UpdateSettings, ReloadSettings, Invalidate
  <1>2. CASE ReferenceUpdated
    BY <1>2, TrackingAgrees DEF ReferenceUpdated, Invalidate
  <1>3. ASSUME NEW display \in Displays, SelectMonitor(display)
        PROVE  TrackerAgrees'
    BY <1>3, TrackingAgrees DEF SelectMonitor
  <1>4. ASSUME NEW origin, Scan(origin)
        PROVE  TrackerAgrees'
    BY <1>4 DEF Scan, TrackerAgrees
  <1>5. CASE RefreshIgnores
    BY <1>5 DEF RefreshIgnores, TrackerAgrees
  <1>6. CASE RefreshMissing
    BY <1>6, TrackingAgrees DEF RefreshMissing, TrackerAgrees
  <1>7. CASE RefreshWon
    <2>1. PICK best \in Winners(result.scores, settings.threshold) :
             tracker' = AfterWin(best)
      BY <1>7 DEF RefreshWon
    <2>2. best \in Displays
      BY <1>7, <2>1 DEF RefreshWon, Applies, Winners, TypeOK
    <2> QED BY <1>7, <2>1, <2>2, AfterWinAgrees DEF RefreshWon
  <1>8. CASE OwnerStops \/ OwnerWakes \/ OwnerEnds \/ Worker \/ WorldChanges
    BY <1>8 DEF OwnerStops, OwnerWakes, OwnerEnds, Worker, WorkerLooks,
       WorkerWaits, WorkerScans, WorldChanges, TrackerAgrees
  <1>9. CASE UNCHANGED vars
    BY <1>9 DEF vars, TrackerAgrees
  <1> QED
    BY <1>1, <1>2, <1>3, <1>4, <1>5, <1>6, <1>7, <1>8, <1>9
       DEF Next, Refresh, Rescan, AutomaticScan

\* The tracker judges every win against the display that is captured.
THEOREM TrackerAgreement == Spec => []TrackerAgrees
  <1>1. Init => TrackerAgrees
    BY DisplaysAssumption DEF Init, Tracking, TrackerAgrees
  <1> QED BY <1>1, TypeCorrect, StepAgrees, PTL DEF Spec

(***************************************************************************)
(* Wins.                                                                   *)
(***************************************************************************)

\* Every step keeps requests current or obsolete, and wins current.
LEMMA StepWins ==
  TypeOK /\ TrackerAgrees /\ WinsAreCurrent /\ [Next]_vars => WinsAreCurrent'
  <1> SUFFICES ASSUME TypeOK, TrackerAgrees, WinsAreCurrent, [Next]_vars
               PROVE  WinsAreCurrent'
    OBVIOUS
  <1>a. /\ generation \in Nat \ {0}
        /\ slot.generation \in 0 .. generation
        /\ scanning.generation \in 0 .. generation
    BY DEF TypeOK, Requests
  <1>b. NoResult.request.generation = 0 /\ NoRequest.generation = 0
    BY DEF NoResult, NoRequest
  <1>1. ASSUME NEW new \in Settings, UpdateSettings(new)
        PROVE  WinsAreCurrent'
    <2>1. /\ generation' = generation + 1 /\ settings' = new
          /\ scanning' = scanning /\ result' = NoResult
          /\ tracker'.pending = NoDisplay
      BY <1>1 DEF UpdateSettings, Invalidate, Tracking
    <2>2. IsCurrent(slot)'
      <3>1. CASE new.automatic = "on"
        <4>1. slot' = Request("automatic", new.cursor)
          BY <1>1, <3>1 DEF UpdateSettings, RequestIf, Replace
        <4> QED BY <1>a, <2>1, <3>1, <4>1 DEF Request, IsCurrent
      <3>2. CASE new.automatic # "on"
        BY <1>1, <1>a, <1>b, <2>1, <3>2
           DEF UpdateSettings, RequestIf, Withdraw, IsCurrent
      <3> QED BY <3>1, <3>2
    <2> QED BY <1>a, <1>b, <2>1, <2>2 DEF WinsAreCurrent, IsCurrent
  <1>2. ASSUME NEW new \in Settings, ReloadSettings(new)
        PROVE  WinsAreCurrent'
    <2>1. /\ generation' = generation + 1 /\ slot' = NoRequest
          /\ scanning' = scanning /\ result' = NoResult
          /\ tracker'.pending = NoDisplay
      BY <1>2 DEF ReloadSettings, Withdraw, Invalidate, Tracking
    <2> QED BY <1>a, <1>b, <2>1 DEF WinsAreCurrent, IsCurrent
  <1>3. CASE ReferenceUpdated
    <2>1. /\ generation' = generation + 1 /\ settings' = settings
          /\ scanning' = scanning /\ result' = NoResult
          /\ tracker'.pending = NoDisplay
      BY <1>3 DEF ReferenceUpdated, Invalidate, Tracking
    <2>2. IsCurrent(slot)'
      <3>1. CASE settings.automatic = "on"
        <4>1. slot' = Request("automatic", settings.cursor)
          BY <1>3, <3>1 DEF ReferenceUpdated, RequestIf, Replace
        <4> QED BY <1>a, <2>1, <3>1, <4>1 DEF Request, IsCurrent
      <3>2. CASE settings.automatic # "on"
        BY <1>3, <1>a, <1>b, <2>1, <3>2
           DEF ReferenceUpdated, RequestIf, Withdraw, IsCurrent
      <3> QED BY <3>1, <3>2
    <2> QED BY <1>a, <1>b, <2>1, <2>2 DEF WinsAreCurrent, IsCurrent
  <1>4. ASSUME NEW display \in Displays, SelectMonitor(display)
        PROVE  WinsAreCurrent'
    <2>1. /\ generation' = generation + 1 /\ slot' = NoRequest
          /\ scanning' = scanning /\ result' = NoResult
          /\ tracker'.pending = NoDisplay
      BY <1>4 DEF SelectMonitor, Withdraw, Tracking
    <2> QED BY <1>a, <1>b, <2>1 DEF WinsAreCurrent, IsCurrent
  <1>5. ASSUME NEW origin, Scan(origin),
               settings.automatic = "off" => origin = "user"
        PROVE  WinsAreCurrent'
    <2>1. /\ generation' = generation /\ reference' = reference
          /\ settings' = settings /\ selections' = selections
          /\ scanning' = scanning /\ result' = result
          /\ tracker' = tracker /\ previous' = previous
      BY <1>5 DEF Scan
    <2>2. slot' = Request(origin, settings.cursor)
      BY <1>5 DEF Scan, Replace
    <2>3. IsCurrent(slot)'
      BY <1>5, <1>a, <2>1, <2>2 DEF Request, IsCurrent
    <2> QED BY <2>1, <2>3 DEF WinsAreCurrent, IsCurrent
  <1>6. CASE RefreshIgnores
    <2>1. /\ generation' = generation /\ reference' = reference
          /\ settings' = settings /\ selections' = selections
          /\ scanning' = scanning /\ slot' = slot /\ result' = NoResult
          /\ tracker' = tracker /\ previous' = previous
      BY <1>6 DEF RefreshIgnores, workerVars
    <2> QED BY <1>a, <1>b, <2>1 DEF WinsAreCurrent, IsCurrent, TypeOK
  <1>7. CASE RefreshMissing
    <2>1. /\ generation' = generation /\ reference' = reference
          /\ settings' = settings /\ selections' = selections
          /\ scanning' = scanning /\ slot' = slot /\ result' = NoResult
          /\ tracker'.pending = NoDisplay
      BY <1>7 DEF RefreshMissing, workerVars, Tracking
    <2> QED BY <1>a, <1>b, <2>1 DEF WinsAreCurrent, IsCurrent, TypeOK
  <1>8. CASE RefreshWon
    <2>1. /\ generation' = generation /\ reference' = reference
          /\ settings' = settings /\ selections' = selections
          /\ scanning' = scanning /\ result' = NoResult
      BY <1>8 DEF RefreshWon
    <2>2. PICK best \in Winners(result.scores, settings.threshold) :
             tracker' = AfterWin(best) /\ Remembers(best)
      BY <1>8 DEF RefreshWon
    <2>3. best \in Displays /\ selected' = tracker'.tracked
      BY <1>8, <2>2 DEF RefreshWon, Applies, Winners, TypeOK
    <2>4. /\ tracker'.pending # NoDisplay => tracker'.pending = best
          /\ tracker'.confirmations = 1 <=> tracker'.pending # NoDisplay
      BY <2>2, <2>3, AfterWinAgrees
    <2>5. /\ result.request.generation = generation
          /\ IsCurrent(result.request)
      BY <1>8 DEF RefreshWon, Applies, WinsAreCurrent
    <2>6. /\ previous'.best = best
          /\ previous'.threshold = settings.threshold
          /\ previous'.request = result.request
      BY <2>2 DEF Remembers
    <2>7. IsCurrent(slot)'
      <3>1. CASE tracker'.confirmations = 1
        <4>1. slot' = Request(result.request.origin, settings.cursor)
          BY <1>8, <3>1 DEF RefreshWon, Replace
        <4> QED BY <1>a, <2>1, <2>5, <4>1 DEF Request, IsCurrent
      <3>2. CASE tracker'.confirmations # 1
        <4>1. slot' = slot
          BY <1>8, <3>2 DEF RefreshWon
        <4> QED BY <2>1, <4>1 DEF WinsAreCurrent, IsCurrent
      <3> QED BY <3>1, <3>2
    <2>8. IsCurrent(previous.request)'
      BY <2>1, <2>5, <2>6 DEF IsCurrent
    <2>9. IsCurrent(scanning)' /\ IsCurrent(result.request)'
      BY <1>a, <1>b, <2>1 DEF WinsAreCurrent, IsCurrent
    <2>10. tracker'.pending # NoDisplay
             => /\ previous'.best = tracker'.pending
                /\ previous'.threshold = settings'.threshold
                /\ previous'.request.generation = generation'
      BY <2>1, <2>4, <2>5, <2>6
    <2> QED BY <2>7, <2>8, <2>9, <2>10 DEF WinsAreCurrent
  <1>9. CASE OwnerStops \/ OwnerWakes \/ OwnerEnds \/ WorkerWaits \/ WorldChanges
    <2>1. UNCHANGED <<settings, reference, selections, tracker, generation,
                      slot, result, scanning, previous>>
      BY <1>9 DEF OwnerStops, OwnerWakes, OwnerEnds, WorkerWaits, WorldChanges,
         workerVars
    <2> QED BY <2>1 DEF WinsAreCurrent, IsCurrent
  <1>10. CASE WorkerLooks
    <2>1. UNCHANGED <<settings, reference, selections, tracker, generation,
                      result, previous>>
      BY <1>10 DEF WorkerLooks
    <2>2. \/ slot' = slot /\ scanning' = scanning
          \/ slot' = NoRequest /\ scanning' = slot
      BY <1>10 DEF WorkerLooks
    <2> QED BY <1>a, <1>b, <2>1, <2>2 DEF WinsAreCurrent, IsCurrent, TypeOK
  <1>11. CASE WorkerScans
    <2>1. UNCHANGED <<settings, reference, selections, tracker, generation,
                      slot, previous>>
      BY <1>11 DEF WorkerScans
    <2>2. result'.request = scanning /\ scanning' = NoRequest
      BY <1>11 DEF WorkerScans
    <2> QED BY <1>a, <1>b, <2>1, <2>2 DEF WinsAreCurrent, IsCurrent, TypeOK
  <1>12. CASE UNCHANGED vars
    BY <1>12 DEF vars, WinsAreCurrent, IsCurrent
  <1> QED
    BY <1>1, <1>2, <1>3, <1>4, <1>5, <1>6, <1>7, <1>8, <1>9, <1>10, <1>11,
       <1>12
       DEF Next, Refresh, Worker, Rescan, AutomaticScan

LEMMA InitWins == Init => WinsAreCurrent
  BY DisplaysAssumption
     DEF Init, WinsAreCurrent, IsCurrent, NoRequest, NoResult, NoWin, Tracking

\* The invariant on which the two theorems below rest.
THEOREM WinsStayCurrent == Spec => [](TypeOK /\ TrackerAgrees /\ WinsAreCurrent)
  BY InitWins, TypeCorrect, TrackerAgreement, StepWins, PTL DEF Spec

\* What a step that changes the display by itself looks like.
LEMMA SwitchIsWin ==
  ASSUME TypeOK, TrackerAgrees, WinsAreCurrent, [Next]_vars, Switches
  PROVE  /\ previous.best = selected' /\ previous'.best = selected'
         /\ previous.threshold = settings.threshold
         /\ previous'.threshold = settings.threshold
         /\ previous.request.generation = generation
         /\ previous'.request.generation = generation
         /\ IsCurrent(previous.request)
         /\ previous'.request = result.request
         /\ IsCurrent(result.request)
  <1>1. RefreshWon
    <2>1. selected' # selected /\ selections' = selections /\ selections \in Nat
      BY DEF Switches, TypeOK
    <2>2. ASSUME NEW display, SelectMonitor(display) PROVE FALSE
      BY <2>1, <2>2 DEF SelectMonitor
    <2>3. ~(UNCHANGED selected)
      BY <2>1
    <2> QED
      BY <2>2, <2>3
         DEF Next, vars, UpdateSettings, ReloadSettings, ReferenceUpdated, Rescan,
             AutomaticScan, Scan, Refresh, RefreshIgnores, RefreshMissing,
             OwnerStops, OwnerWakes, OwnerEnds, Worker, WorkerLooks,
             WorkerWaits, WorkerScans, WorldChanges
  <1>2. PICK best \in Winners(result.scores, settings.threshold) :
           tracker' = AfterWin(best) /\ Remembers(best)
    BY <1>1 DEF RefreshWon
  <1>3. best \in Displays /\ selected' = tracker'.tracked
    BY <1>1, <1>2 DEF RefreshWon, Applies, Winners, TypeOK
  <1>4. best = tracker.pending /\ best = selected' /\ tracker.pending # NoDisplay
    BY <1>2, <1>3, AfterWinAgrees, DisplaysAssumption DEF Switches
  <1>5. /\ previous.best = best
        /\ previous.threshold = settings.threshold
        /\ previous.request.generation = generation
        /\ IsCurrent(previous.request)
    BY <1>4 DEF WinsAreCurrent
  <1>6. /\ previous'.best = best
        /\ previous'.threshold = settings.threshold
        /\ previous'.request = result.request
    BY <1>2 DEF Remembers
  <1>7. result.request.generation = generation /\ IsCurrent(result.request)
    BY <1>1 DEF RefreshWon, Applies, WinsAreCurrent
  <1> QED BY <1>4, <1>5, <1>6, <1>7

\* The display changes by itself only when it won twice, for what is current.
THEOREM SwitchesAreWonTwice == Spec => WonTwice
  <1>1. TypeOK /\ TrackerAgrees /\ WinsAreCurrent /\ [Next]_vars
          => (Switches
                => /\ previous.request.generation = generation
                   /\ \A win \in {previous, previous'} :
                         /\ win.best = selected'
                         /\ win.threshold = settings.threshold
                         /\ win.request.reference = reference
                         /\ win.request.cursor = settings.cursor
                         /\ win.request.selections = selections)
    <2> SUFFICES ASSUME TypeOK, TrackerAgrees, WinsAreCurrent, [Next]_vars, Switches
                 PROVE  /\ previous.request.generation = generation
                        /\ \A win \in {previous, previous'} :
                              /\ win.best = selected'
                              /\ win.threshold = settings.threshold
                              /\ win.request.reference = reference
                              /\ win.request.cursor = settings.cursor
                              /\ win.request.selections = selections
      OBVIOUS
    <2> QED BY SwitchIsWin DEF IsCurrent
  <1> QED BY <1>1, WinsStayCurrent, PTL DEF Spec, WonTwice

\* With automatic rescans off it changes only after a scan the user asked for.
THEOREM OffIsOff == Spec => OffMeansOff
  <1>1. TypeOK /\ TrackerAgrees /\ WinsAreCurrent /\ [Next]_vars
          => (Switches /\ settings.automatic = "off"
                => previous'.request.origin = "user")
    <2> SUFFICES ASSUME TypeOK, TrackerAgrees, WinsAreCurrent, [Next]_vars,
                        Switches, settings.automatic = "off"
                 PROVE  previous'.request.origin = "user"
      OBVIOUS
    <2> QED BY SwitchIsWin DEF IsCurrent
  <1> QED BY <1>1, WinsStayCurrent, PTL DEF Spec, OffMeansOff
=============================================================================
