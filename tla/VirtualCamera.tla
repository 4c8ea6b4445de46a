---------------------------- MODULE VirtualCamera ----------------------------
(* The controller of the virtual camera (crates/windows/src/virtual_camera.rs *)
(* and the camera's part of DevicePlatform in crates/app/src/runtime.rs).     *)
(*                                                                            *)
(* The device worker opens the camera, looks at every cycle whether it still  *)
(* runs, and opens it again when the user asks.  Windows reports what happens *)
(* to the camera by calling the callback it was started with, on a thread of  *)
(* its own and possibly after that camera was replaced.  A callback acts in   *)
(* two steps: it compares the generation, and then it clears `running'.       *)
EXTENDS Naturals

CONSTANTS
    Restarts,   \* bound: restarts asked for by the user
    Troubles    \* bound: events of Windows, and calls to it that fail

CameraAssumption == Restarts \in Nat /\ Troubles \in Nat

VARIABLES
    publisher,  \* the frame publisher could be started
    controller, \* there is a controller
    camera,     \* the camera itself: "none", "live" or "failed"
    generation,
    running,
    owner,      \* where the device worker is
    component,  \* the lifecycle of the camera shown to the user
    calls,      \* callbacks of Windows under way: generation and step
    late,       \* a callback was past its comparison when its camera went
    restarts,
    troubles

vars == <<publisher, controller, camera, generation, running, owner,
          component, calls, late, restarts, troubles>>

\* open adds one, and so does a restart; the first open is the first.
Generations == 0 .. 2 * Restarts + 3
Calls == [generation : Generations, at : {"called", "clears"}]

Opening == {"create", "arm", "start"}

(* DevicePlatform::new: without a publisher no camera is opened.              *)
Init ==
    /\ publisher \in BOOLEAN
    /\ controller = FALSE /\ camera = "none"
    /\ generation = 0 /\ running = FALSE
    /\ owner = IF publisher THEN "create" ELSE "idle"
    /\ component = IF publisher THEN "Starting" ELSE "Failed"
    /\ calls = {} /\ late = FALSE
    /\ restarts = 0 /\ troubles = 0

Trouble == troubles < Troubles /\ troubles' = troubles + 1

----------------------------------------------------------------------------
\* open, and the caller's judgement of it.

\* A failure in open: a controller that had no camera yet is dropped.
Fails ==
    /\ owner' = "idle" /\ component' = "Failed"
    /\ running' = FALSE
    /\ Trouble
    /\ UNCHANGED <<publisher, controller, camera, generation, calls, late,
                   restarts>>

\* MFCreateVirtualCamera and its attribute
Create ==
    /\ owner = "create"
    /\ \/ Fails
       \/ /\ owner' = "arm"
          /\ UNCHANGED <<publisher, controller, camera, generation, running,
                         component, calls, late, restarts, troubles>>

\* The generation moves on, and the camera counts as running.
Arm ==
    /\ owner = "arm"
    /\ owner' = "start"
    /\ generation' = generation + 1 /\ running' = TRUE
    /\ UNCHANGED <<publisher, controller, camera, component, calls, late,
                   restarts, troubles>>

(* IMFVirtualCamera::Start begins; from here on the callback may be called.   *)
Start ==
    /\ owner = "start"
    /\ \/ Fails
       \/ /\ owner' = "started" /\ camera' = "live"
          /\ UNCHANGED <<publisher, controller, generation, running, component,
                         calls, late, restarts, troubles>>

\* A bug: the camera is said to run once its start has returned.
BugOpened ==
    /\ owner = "started"
    /\ owner' = "idle"
    /\ controller' = TRUE /\ component' = "Ready" /\ running' = TRUE
    /\ UNCHANGED <<publisher, camera, generation, calls, late, restarts,
                   troubles>>

Opened ==
    /\ owner = "started"
    /\ owner' = "idle"
    /\ controller' = TRUE /\ component' = "Ready"
    /\ UNCHANGED <<publisher, camera, generation, running, calls, late,
                   restarts, troubles>>

----------------------------------------------------------------------------
\* The device worker.

(* restart_virtual_camera: the controller's restart, or a first start.        *)
Restart ==
    /\ owner = "idle" /\ restarts < Restarts /\ restarts' = restarts + 1
    /\ IF ~publisher
       THEN /\ component' = "Failed"
            /\ UNCHANGED <<owner, generation, running, camera, late>>
       ELSE /\ component' = "Restarting"
            /\ owner' = "create"
            /\ IF controller
               THEN /\ generation' = generation + 1
                    /\ running' = FALSE /\ camera' = "none"
                    /\ late' = \E call \in calls : call.at = "clears"
               ELSE UNCHANGED <<generation, running, camera, late>>
    /\ UNCHANGED <<publisher, controller, calls, troubles>>

(* The camera's part of refresh_inputs.                                       *)
Cycle ==
    /\ owner = "idle" /\ controller /\ ~running
    /\ component' = "Failed"
    /\ UNCHANGED <<publisher, controller, camera, generation, running, owner,
                   calls, late, restarts, troubles>>

----------------------------------------------------------------------------
\* Windows.

(* The camera fails: an error, a failed status, or the pipeline was shut down *)
(* (camera_event_failed).  Events that mean nothing are left out.             *)
CameraFails ==
    /\ camera = "live" /\ Trouble
    /\ camera' = "failed"
    /\ calls' = calls \cup {[generation |-> generation, at |-> "called"]}
    /\ UNCHANGED <<publisher, controller, generation, running, owner,
                   component, late, restarts>>

\* A bug: an event of a replaced camera counts too.
BugIsCurrent(call) == TRUE

IsCurrent(call) == call.generation = generation

\* Invoke: the comparison
Compares ==
    \E call \in calls :
        /\ call.at = "called"
        /\ calls' = (calls \ {call})
             \cup IF IsCurrent(call) THEN {[call EXCEPT !.at = "clears"]} ELSE {}
        /\ UNCHANGED <<publisher, controller, camera, generation, running,
                       owner, component, late, restarts, troubles>>

\* Invoke: the rest
Clears ==
    \E call \in calls :
        /\ call.at = "clears"
        /\ calls' = calls \ {call}
        /\ running' = FALSE
        /\ UNCHANGED <<publisher, controller, camera, generation, owner,
                       component, late, restarts, troubles>>

Next ==
    \/ Create \/ Arm \/ Start \/ Opened \/ Restart \/ Cycle
    \/ CameraFails \/ Compares \/ Clears

Spec == Init /\ [][Next]_vars

\* The device worker's loop goes on, and Windows' threads finish their calls.
Fairness == WF_vars(Create \/ Arm \/ Start \/ Opened \/ Cycle)
            /\ WF_vars(Compares) /\ WF_vars(Clears)

FairSpec == Spec /\ Fairness

----------------------------------------------------------------------------
TypeOK ==
    /\ publisher \in BOOLEAN /\ controller \in BOOLEAN /\ running \in BOOLEAN
    /\ late \in BOOLEAN
    /\ camera \in {"none", "live", "failed"}
    /\ generation \in Generations /\ calls \subseteq Calls
    /\ owner \in Opening \cup {"idle", "started"}
    /\ component \in {"Starting", "Ready", "Restarting", "Failed"}
    /\ restarts \in 0 .. Restarts /\ troubles \in 0 .. Troubles

(* A camera that works is not reported as stopped because of what happened to *)
(* the one before it, however late Windows tells (the generation in Invoke).  *)
(* Left out is the callback that had compared the generations before the      *)
(* restart and clears `running' after it: nothing in the code prevents that.  *)
LiveIsRunning == camera = "live" /\ owner = "idle" /\ ~late => running

(* A camera that fails is shown as failed, or was replaced, even when it      *)
(* fails before its start has returned (open arms `running' before Start).    *)
FailureIsShown ==
    camera = "failed" ~> (component = "Failed" \/ camera # "failed")
=============================================================================
