----------------------------- MODULE WebcamCapture -----------------------------
(***************************************************************************)
(* The webcam capture: the owner thread starts and stops sessions of a     *)
(* Media Foundation source reader, whose callbacks run on worker threads   *)
(* and share CaptureState with it (video_input.rs).  Nothing joins a       *)
(* callback: Flush discards the outstanding request, and a callback under  *)
(* way goes on; it finds out by the generation number.  Every access to    *)
(* the shared state is a step.                                             *)
(*                                                                         *)
(* A session is named by the generation it runs under; stop and start both *)
(* take a new one.  The actors are the owner and the callback of each      *)
(* session; a source reader calls its callback serially.                   *)
(*                                                                         *)
(* Left out: the conversion of a sample (it yields a frame or fails), the  *)
(* pacer (a sample is admitted or not), formats and buffer pools.          *)
(***************************************************************************)
EXTENDS Naturals

CONSTANTS MaxGeneration,   \* bound: the last generation number used
          Threshold        \* WEBCAM_FAILURE_THRESHOLD

GenerationAssumption == MaxGeneration \in Nat
ThresholdAssumption == Threshold \in Nat \ {0}

Sessions == 1..MaxGeneration
Owner == 0
None == 0

VARIABLES
  generation, running,
  reader,      \* the session of the reader in place, or None
  latest,      \* the session of the newest frame, or None
  failure,     \* the failure reported: none, or whether a retry may help
  failures,    \* consecutive_failures
  requested,   \* ReadSample requests outstanding at each session's reader
  step,        \* the next step of every actor
  goal,        \* what the owner is doing: a stop, the stop a start begins with, or a start
  found,       \* what an actor found wrong, for set_failure
  asked        \* the reader an actor took from its slot, to request a sample

vars == <<generation, running, reader, latest, failure, failures, requested,
          step, goal, found, asked>>

Actors == Sessions \cup {Owner}
Kinds == {"retry", "final"}
OwnerSteps == {"halt", "flush", "drop frame", "open", "configure", "place reader", "run"}
CallbackSteps == {"check", "recheck", "store"}
SharedSteps == {"idle", "reset count", "reset failure",
                "report", "count", "stop running", "forget frame", "request", "read", "ask"}

TypeOK ==
  /\ generation \in 0..MaxGeneration /\ running \in {"yes", "no"}
  /\ reader \in Sessions \cup {None} /\ latest \in Sessions \cup {None}
  /\ failure \in Kinds \cup {"none"} /\ failures \in 0..Threshold
  /\ requested \in [Sessions -> 0..MaxGeneration]
  /\ step \in [Actors -> OwnerSteps \cup CallbackSteps \cup SharedSteps]
  /\ \A s \in Sessions : step[s] \notin OwnerSteps
  /\ step[Owner] \notin CallbackSteps
  /\ goal \in {"none", "stop", "start", "run"}
  /\ found \in [Actors -> [kind : Kinds, terminal : {"yes", "no"}]]
  /\ asked \in [Actors -> Sessions \cup {None}]

Init ==
  /\ generation = 0 /\ running = "no" /\ reader = None /\ latest = None
  /\ failure = "none" /\ failures = 0
  /\ requested = [s \in Sessions |-> 0]
  /\ step = [a \in Actors |-> "idle"]
  /\ goal = "none"
  /\ found = [a \in Actors |-> [kind |-> "retry", terminal |-> "no"]]
  /\ asked = [a \in Actors |-> None]

Goto(a, next) == step' = [step EXCEPT ![a] = next]
At(a, now) == step[a] = now
IsCurrent(s) == running = "yes" /\ generation = s

\* An actor has found a failure and enters set_failure.
Fails(a, terminal) ==
  /\ \E kind \in Kinds :
       found' = [found EXCEPT ![a] = [kind |-> kind, terminal |-> terminal]]
  /\ Goto(a, "report")

--------------------------------------------------------------------------------
(* The owner: stop, and start, which stops first                              *)

\* A stop takes one generation and a start another: both stay below the bound.
BeginStop(purpose) ==
  /\ At(Owner, "idle")
  /\ purpose = "start" => generation + 2 <= MaxGeneration
  /\ generation < MaxGeneration
  /\ generation' = generation + 1
  /\ goal' = purpose
  /\ Goto(Owner, "halt")
  /\ UNCHANGED <<running, reader, latest, failure, failures, requested, found, asked>>

Halt ==
  /\ At(Owner, "halt")
  /\ running' = "no"
  /\ Goto(Owner, "flush")
  /\ UNCHANGED <<generation, reader, latest, failure, failures, requested, goal, found, asked>>

\* The reader is taken and its outstanding requests are discarded.
Flush ==
  /\ At(Owner, "flush")
  /\ reader' = None
  /\ requested' = [s \in Sessions |-> IF s = reader THEN 0 ELSE requested[s]]
  /\ Goto(Owner, "drop frame")
  /\ UNCHANGED <<generation, running, latest, failure, failures, goal, found, asked>>

DropFrame ==
  /\ At(Owner, "drop frame")
  /\ latest' = None
  /\ Goto(Owner, "reset count")
  /\ UNCHANGED <<generation, running, reader, failure, failures, requested, goal, found, asked>>

\* The device may not open; the generation changes once it has.
Open ==
  /\ At(Owner, "open")
  /\ \/ goal' = "none" /\ Goto(Owner, "idle") /\ UNCHANGED generation
     \/ /\ goal' = "run" /\ Goto(Owner, "configure")
        /\ generation' = generation + 1
  /\ UNCHANGED <<running, reader, latest, failure, failures, requested, found, asked>>

\* The reader's creation and the negotiation of its format may fail.
Configure ==
  /\ At(Owner, "configure")
  /\ \/ goal' = "none" /\ Goto(Owner, "idle")
     \/ Goto(Owner, "reset count") /\ UNCHANGED goal
  /\ UNCHANGED <<generation, running, reader, latest, failure, failures, requested, found, asked>>

PlaceReader ==
  /\ At(Owner, "place reader")
  /\ reader' = generation
  /\ Goto(Owner, "run")
  /\ UNCHANGED <<generation, running, latest, failure, failures, requested, goal, found, asked>>

Go ==
  /\ At(Owner, "run")
  /\ running' = "yes"
  /\ goal' = "none"
  /\ Goto(Owner, "request")
  /\ UNCHANGED <<generation, reader, latest, failure, failures, requested, found, asked>>

--------------------------------------------------------------------------------
(* A session's callback: OnReadSample                                         *)

Deliver(s) ==
  /\ At(s, "idle") /\ requested[s] > 0
  /\ requested' = [requested EXCEPT ![s] = @ - 1]
  /\ Goto(s, "check")
  /\ UNCHANGED <<generation, running, reader, latest, failure, failures, goal, found, asked>>

\* An error status, an error flag or an incompatible type ends the session; a
\* sample that is not admitted, or none, asks for the next; a sample that cannot
\* be converted is a failure that does not end the session by itself.
Check(s) ==
  /\ At(s, "check")
  /\ \/ ~IsCurrent(s) /\ Goto(s, "idle") /\ UNCHANGED found
     \/ /\ IsCurrent(s)
        /\ \/ Fails(s, "yes")
           \/ Fails(s, "no")
           \/ Goto(s, "request") /\ UNCHANGED found
           \/ Goto(s, "recheck") /\ UNCHANGED found
  /\ UNCHANGED <<generation, running, reader, latest, failure, failures, requested, goal, asked>>

\* The frame is ready: the generation is read again, and only then is the slot locked.
Recheck(s) ==
  /\ At(s, "recheck")
  /\ Goto(s, IF IsCurrent(s) THEN "store" ELSE "request")
  /\ UNCHANGED <<generation, running, reader, latest, failure, failures, requested, goal, found, asked>>

Store(s) ==
  /\ At(s, "store")
  /\ latest' = s
  /\ Goto(s, "reset count")
  /\ UNCHANGED <<generation, running, reader, failure, failures, requested, goal, found, asked>>

--------------------------------------------------------------------------------
(* What owner and callbacks share: clear_failure, set_failure, request_next   *)

ResetCount(a) ==
  /\ At(a, "reset count")
  /\ failures' = 0
  /\ Goto(a, "reset failure")
  /\ UNCHANGED <<generation, running, reader, latest, failure, requested, goal, found, asked>>

\* Mistaken variant: a callback that stored its frame does not ask for the next.
BugStoresAndReturns(a) ==
  CASE a # Owner -> "idle"
    [] a = Owner /\ goal = "start" -> "open"
    [] a = Owner /\ goal = "run" -> "place reader"
    [] OTHER -> "idle"

\* Where clear_failure returns to: stop calls it last, start before it places the
\* reader, a callback before it asks for the next sample.
AfterReset(a) ==
  CASE a # Owner -> "request"
    [] a = Owner /\ goal = "start" -> "open"
    [] a = Owner /\ goal = "run" -> "place reader"
    [] OTHER -> "idle"

ResetFailure(a) ==
  /\ At(a, "reset failure")
  /\ failure' = "none"
  /\ Goto(a, AfterReset(a))
  /\ goal' = IF AfterReset(a) = "idle" THEN "none" ELSE goal
  /\ UNCHANGED <<generation, running, reader, latest, failures, requested, found, asked>>

Report(a) ==
  /\ At(a, "report")
  /\ failure' = found[a].kind
  /\ Goto(a, "count")
  /\ UNCHANGED <<generation, running, reader, latest, failures, requested, goal, found, asked>>

\* Mistaken variant: a failure that ends the session is cleared like a passing one.
BugClearsFailure(a) == IF found[a].terminal = "yes" THEN "reset failure" ELSE "request"

\* The end of set_failure: a terminal failure ends the callback, another one asks
\* for the next sample.
AfterFailure(a) == IF found[a].terminal = "yes" THEN "idle" ELSE "request"

Count(a) ==
  /\ At(a, "count")
  /\ failures' = IF failures < Threshold THEN failures + 1 ELSE failures
  /\ Goto(a, IF found[a].terminal = "yes" \/ failures + 1 >= Threshold
             THEN "stop running" ELSE AfterFailure(a))
  /\ UNCHANGED <<generation, running, reader, latest, failure, requested, goal, found, asked>>

StopRunning(a) ==
  /\ At(a, "stop running")
  /\ running' = "no"
  /\ Goto(a, "forget frame")
  /\ UNCHANGED <<generation, reader, latest, failure, failures, requested, goal, found, asked>>

ForgetFrame(a) ==
  /\ At(a, "forget frame")
  /\ latest' = None
  /\ Goto(a, AfterFailure(a))
  /\ UNCHANGED <<generation, running, reader, failure, failures, requested, goal, found, asked>>

\* request_next for the session of the actor, which is the current one for the owner.
Request(a) ==
  /\ At(a, "request")
  /\ Goto(a, IF IsCurrent(IF a = Owner THEN generation ELSE a) THEN "read" ELSE "idle")
  /\ UNCHANGED <<generation, running, reader, latest, failure, failures, requested, goal, found, asked>>

\* The reader in place is taken, whichever session it is of, and then asked.
Read(a) ==
  /\ At(a, "read")
  /\ asked' = [asked EXCEPT ![a] = reader]
  /\ Goto(a, IF reader = None THEN "idle" ELSE "ask")
  /\ UNCHANGED <<generation, running, reader, latest, failure, failures, requested, goal, found>>

Ask(a) ==
  /\ At(a, "ask")
  /\ \/ /\ requested' = [requested EXCEPT ![asked[a]] = @ + 1]
        /\ Goto(a, "idle") /\ UNCHANGED found
     \/ Fails(a, "yes") /\ UNCHANGED requested
  /\ asked' = [asked EXCEPT ![a] = None]
  /\ UNCHANGED <<generation, running, reader, latest, failure, failures, goal>>

Shared(a) ==
  \/ ResetCount(a) \/ ResetFailure(a) \/ Report(a) \/ Count(a)
  \/ StopRunning(a) \/ ForgetFrame(a) \/ Request(a) \/ Read(a) \/ Ask(a)
Callback(s) == Check(s) \/ Recheck(s) \/ Store(s) \/ Shared(s)
OwnerGoesOn == Halt \/ Flush \/ DropFrame \/ Open \/ Configure \/ PlaceReader \/ Go \/ Shared(Owner)

Next ==
  \/ \E purpose \in {"stop", "start"} : BeginStop(purpose)
  \/ OwnerGoesOn
  \/ \E s \in Sessions : Deliver(s) \/ Callback(s)

Spec == Init /\ [][Next]_vars

--------------------------------------------------------------------------------
(* Properties                                                                 *)

\* A session that runs never starves: its reader owes a sample or its callback is
\* under way, whatever path the callback takes (a sample not admitted, a frame
\* dropped, a frame stored) and whatever callbacks of older sessions do.
RequestOutstanding ==
  At(Owner, "idle") /\ running = "yes"
    => requested[generation] > 0 \/ step[generation] # "idle"

\* No session was opened before the one there is: opening a second takes the
\* fourth generation.
FirstSession == generation <= 3

\* A session that ended by itself says why, so the owner learns of it: the failure
\* is there once callback and owner have come to rest (set_failure, clear_failure).
\* Only of the first session: a callback of an older one may clear its successor's.
FailureIsReported ==
  FirstSession /\ At(Owner, "idle") /\ reader # None /\ running = "no"
      /\ (\A s \in Sessions : At(s, "idle"))
    => failure # "none"

\* Readiness comes from the current generation: while the owner does not start or
\* stop a session, the newest frame is one of the current session.  It is what the
\* documentation says, and fails when a callback that passed Recheck stores late.
LatestIsCurrent == At(Owner, "idle") /\ latest # None => latest = generation
================================================================================
