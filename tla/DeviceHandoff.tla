---------------------------- MODULE DeviceHandoff ----------------------------
(* The runtime and its device worker (Platform, DeviceWorker and              *)
(* PendingDeviceCommands in crates/app/src/runtime.rs).                       *)
(*                                                                            *)
(* The runtime hands commands over in a record of slots, under a lock, and    *)
(* looks at every output cycle at the last snapshot the worker published.     *)
(* The worker takes all the slots at once, works on them in a fixed order,    *)
(* looks at the devices, publishes, and waits for a notification or for its   *)
(* next cycle, whichever is first.  A call into a driver may take long, or    *)
(* never return.  At the exit the runtime sets a flag, notifies and waits for *)
(* a while; a worker that has not ended by then is left behind.               *)
EXTENDS Naturals

CONSTANTS
    Settings,   \* bound: versions of the settings
    Asked,      \* bound: restarts asked for
    Stalls      \* bound: calls into a driver that take long

HandoffAssumption == Settings \in Nat /\ Asked \in Nat /\ Stalls \in Nat

Targets == {"Webcam", "Screen"}
All == "All"
Old == 2        \* an age above FRAME_STALE_AFTER

VARIABLES
    pending,    \* [settings, restarts, notified]: 0 for no settings
    worker,     \* where the worker is
    commands,   \* [settings, restarts] it took
    device,     \* the version of the settings the devices run with
    snapshot,   \* [there, age, frame]: how old it is, and its webcam picture
    frame,      \* age of the newest webcam picture
    runtime,    \* where the runtime is
    sent,       \* the version of the settings sent last
    owed,       \* targets asked for and not restarted since
    webcam,     \* the webcam picture is in use by the runtime
    warned,     \* "Device worker is delayed"
    stop,       \* DeviceWorker::stop
    pipe,       \* "frame" or "invalid": what was published last
    asked,
    stalls

vars == <<pending, worker, commands, device, snapshot, frame, runtime, sent,
          owed, webcam, warned, stop, pipe, asked, stalls>>

theRuntime == <<runtime, sent, webcam, warned, asked>>
theWorker == <<commands, device, stalls>>

NoCommands == [settings |-> 0, restarts |-> {}]

Init ==
    /\ pending = [settings |-> 0, restarts |-> {}, notified |-> FALSE]
    /\ worker = "cycle" /\ commands = NoCommands
    /\ device = 0 /\ frame = Old
    /\ snapshot = [there |-> FALSE, age |-> 0, frame |-> Old]
    /\ runtime = "runs" /\ sent = 0 /\ owed = {}
    /\ webcam = FALSE /\ warned = FALSE
    /\ stop = FALSE /\ pipe = "invalid"
    /\ asked = 0 /\ stalls = 0

----------------------------------------------------------------------------
\* The runtime's thread.

\* DeviceWorker::push, for settings: the slot is replaced.
SendSettings ==
    /\ runtime = "runs" /\ sent < Settings
    /\ sent' = sent + 1
    /\ pending' = [pending EXCEPT !.settings = sent + 1, !.notified = TRUE]
    /\ UNCHANGED <<worker, theWorker, snapshot, frame, runtime, owed, webcam,
                   warned, stop, pipe, asked>>

\* A bug: a restart of everything does not replace the single ones.
BugJoined(restarts, target) ==
    IF restarts = {} THEN {target} ELSE restarts

(* A restart of everything stands for every single one.                       *)
Joined(restarts, target) ==
    IF target = All THEN {All}
    ELSE IF All \in restarts THEN restarts ELSE restarts \cup {target}

\* DeviceWorker::push, for restarts
AskRestart ==
    /\ runtime = "runs" /\ asked < Asked
    /\ asked' = asked + 1
    /\ \E target \in Targets \cup {All} :
          /\ pending' = [pending EXCEPT
                !.restarts = Joined(@, target), !.notified = TRUE]
          /\ owed' = owed \cup (IF target = All THEN Targets ELSE {target})
    /\ UNCHANGED <<worker, theWorker, snapshot, frame, runtime, sent, webcam,
                   warned, stop, pipe>>

\* A bug: the age is that of the last look, not of the picture.
BugStale(age) == age = Old /\ runtime # "runs"

Stale(age) == age = Old

(* Platform::refresh_inputs and publish, once per output cycle: a late worker *)
(* is reported, and an old webcam picture is not used.                        *)
OutputCycle ==
    /\ runtime = "runs"
    /\ warned' = (snapshot.there /\ Stale(snapshot.age))
    /\ webcam' = ~Stale(snapshot.frame)
    /\ pipe' = IF snapshot.there THEN "frame" ELSE pipe
    /\ UNCHANGED <<pending, worker, theWorker, snapshot, frame, runtime, sent,
                   owed, stop, asked>>

\* signal_shutdown
Exit ==
    /\ runtime = "runs"
    /\ runtime' = "waits"
    /\ stop' = TRUE
    /\ pending' = [pending EXCEPT !.notified = TRUE]
    /\ UNCHANGED <<worker, theWorker, snapshot, frame, sent, owed, webcam,
                   warned, pipe, asked>>

\* finish_worker_shutdown: the worker ended
Joins ==
    /\ runtime = "waits" /\ worker = "ended"
    /\ runtime' = "joined"
    /\ UNCHANGED <<pending, worker, theWorker, snapshot, frame, sent, owed,
                   webcam, warned, stop, pipe, asked>>

\* finish_worker_shutdown: WORKER_SHUTDOWN_TIMEOUT is over
Detaches ==
    /\ runtime = "waits" /\ worker = "stuck"
    /\ runtime' = "detached"
    /\ UNCHANGED <<pending, worker, theWorker, snapshot, frame, sent, owed,
                   webcam, warned, stop, pipe, asked>>

----------------------------------------------------------------------------
\* The worker's thread.

(* The head of the loop: the flag, and PendingDeviceCommands::take.           *)
Take ==
    /\ worker = "top" /\ ~stop
    /\ worker' = "runs"
    /\ commands' = [settings |-> pending.settings,
                    restarts |-> IF All \in pending.restarts
                                 THEN Targets ELSE pending.restarts]
    /\ pending' = [settings |-> 0, restarts |-> {}, notified |-> FALSE]
    /\ UNCHANGED <<theRuntime, device, stalls, snapshot, frame, owed, stop,
                   pipe>>

\* DevicePlatform::command, for each of them in turn
Runs ==
    /\ worker = "runs"
    /\ \/ /\ commands.settings # 0
          /\ device' = commands.settings
          /\ commands' = [commands EXCEPT !.settings = 0]
          /\ UNCHANGED <<owed, worker>>
       \/ /\ commands.settings = 0
          /\ \E target \in commands.restarts :
                /\ commands' = [commands EXCEPT !.restarts = @ \ {target}]
                /\ owed' = owed \ {target}
          /\ UNCHANGED <<device, worker>>
       \/ /\ commands = NoCommands
          /\ worker' = "cycle"
          /\ UNCHANGED <<commands, device, owed>>
    /\ UNCHANGED <<theRuntime, stalls, pending, snapshot, frame, stop, pipe>>

(* refresh_inputs and publish_device_snapshot, when the pacer is due.         *)
Cycle ==
    /\ worker = "cycle"
    /\ worker' = "listens"
    /\ snapshot' = [there |-> TRUE, age |-> 0, frame |-> frame]
    /\ UNCHANGED <<theRuntime, theWorker, pending, frame, owed, stop, pipe>>

(* The worker takes the lock again to wait, and looks at the flag only: a     *)
(* command handed over since `take' notified nobody.                          *)
Listens ==
    /\ worker = "listens"
    /\ worker' = IF stop THEN "top" ELSE "waits"
    /\ pending' = [pending EXCEPT !.notified = FALSE]
    /\ UNCHANGED <<theRuntime, theWorker, snapshot, frame, owed, stop, pipe>>

\* A bug: the wait has no end of its own.
BugWakes ==
    /\ worker = "waits" /\ pending.notified
    /\ worker' = "top"
    /\ UNCHANGED <<theRuntime, theWorker, pending, snapshot, frame, owed, stop,
                   pipe>>

\* The notification, or the end of the wait.
Wakes ==
    /\ worker = "waits"
    /\ worker' = "top"
    /\ UNCHANGED <<theRuntime, theWorker, pending, snapshot, frame, owed, stop,
                   pipe>>

\* A bug: the worker ends without taking the picture off the air.
BugEnds ==
    /\ worker = "top" /\ stop
    /\ worker' = "ended"
    /\ UNCHANGED <<theRuntime, theWorker, pending, snapshot, frame, owed, stop,
                   pipe>>

\* The end of the loop: FramePublisher::invalidate, and the platform is dropped.
Ends ==
    /\ worker = "top" /\ stop
    /\ worker' = "ended"
    /\ pipe' = "invalid"
    /\ UNCHANGED <<theRuntime, theWorker, pending, snapshot, frame, owed, stop>>

(* A call into a driver hangs while commands run or the devices are read; it  *)
(* may return.                                                                *)
Stuck ==
    /\ worker \in {"runs", "cycle"} /\ stalls < Stalls
    /\ stalls' = stalls + 1
    /\ worker' = "stuck"
    /\ UNCHANGED <<theRuntime, commands, device, pending, snapshot, frame, owed,
                   stop, pipe>>

Returns ==
    /\ worker = "stuck"
    /\ worker' = "runs"
    /\ UNCHANGED <<theRuntime, theWorker, pending, snapshot, frame, owed, stop,
                   pipe>>

----------------------------------------------------------------------------
\* The camera and the clock.

Delivers ==
    /\ frame # 0
    /\ frame' = 0
    /\ UNCHANGED <<theRuntime, theWorker, pending, worker, snapshot, owed,
                   stop, pipe>>

Older(age) == IF age < Old THEN age + 1 ELSE age

TimePasses ==
    /\ frame' = Older(frame)
    /\ snapshot' = IF snapshot.there
                   THEN [snapshot EXCEPT !.age = Older(@), !.frame = Older(@)]
                   ELSE snapshot
    /\ UNCHANGED <<theRuntime, theWorker, pending, worker, owed, stop, pipe>>

Next ==
    \/ SendSettings \/ AskRestart \/ OutputCycle \/ Exit \/ Joins \/ Detaches
    \/ Take \/ Runs \/ Cycle \/ Listens \/ Wakes \/ Ends \/ Stuck \/ Returns
    \/ Delivers \/ TimePasses

Spec == Init /\ [][Next]_vars

(* Both loops go on, the clock runs and the exit's wait has an end.  That a   *)
(* driver's call returns is not assumed.                                      *)
Fairness ==
    /\ WF_vars(OutputCycle) /\ WF_vars(Joins) /\ WF_vars(Detaches)
    /\ WF_vars(Take \/ Runs \/ Cycle \/ Listens \/ Ends) /\ WF_vars(Wakes)
    /\ WF_vars(TimePasses)

FairSpec == Spec /\ Fairness

----------------------------------------------------------------------------
TypeOK ==
    /\ pending \in [settings : 0 .. Settings,
                    restarts : SUBSET (Targets \cup {All}), notified : BOOLEAN]
    /\ worker \in {"top", "runs", "cycle", "listens", "waits", "stuck", "ended"}
    /\ commands \in [settings : 0 .. Settings, restarts : SUBSET Targets]
    /\ device \in 0 .. Settings /\ frame \in 0 .. Old
    /\ snapshot \in [there : BOOLEAN, age : 0 .. Old, frame : 0 .. Old]
    /\ runtime \in {"runs", "waits", "joined", "detached"}
    /\ sent \in 0 .. Settings /\ owed \subseteq Targets
    /\ webcam \in BOOLEAN /\ warned \in BOOLEAN /\ stop \in BOOLEAN
    /\ pipe \in {"frame", "invalid"}
    /\ asked \in 0 .. Asked /\ stalls \in 0 .. Stalls

(* No restart the user asked for is lost between the slots, and the devices   *)
(* end with the last settings, although a command may come while the worker   *)
(* is between its `take' and its wait, where no notification reaches it: its  *)
(* wait ends by itself (PendingDeviceCommands, the timeout of wait_timeout).  *)
CommandsHappen ==
    /\ owed # {} ~> (owed = {} \/ runtime # "runs" \/ worker = "stuck")
    /\ device # sent ~> (device = sent \/ runtime # "runs" \/ worker = "stuck")

(* While a driver holds the worker, the runtime says so and does not go on    *)
(* with the last webcam picture it was given (FRAME_STALE_AFTER).             *)
DelayIsShown ==
    <>[](worker = "stuck" /\ runtime = "runs" /\ snapshot.there)
        => <>[](warned /\ ~webcam)

(* The exit ends, and a worker that ended in time has taken the picture off   *)
(* the air after the runtime's last frame: nobody goes on showing it.         *)
ExitIsClean ==
    /\ (runtime = "waits" ~> runtime \in {"joined", "detached"})
    /\ [](runtime = "joined" => pipe = "invalid")
=============================================================================
