----------------------------- MODULE ActivityLog -----------------------------
(* How what happened in the device worker gets into the log file              *)
(* (record_with_verbosity and Platform::refresh_inputs in                     *)
(* crates/app/src/runtime.rs, the log in crates/app/src/application.rs and    *)
(* crates/app/src/local_log.rs).                                              *)
(*                                                                            *)
(* The device worker and the runtime each keep their last few entries,        *)
(* numbered from one.  The runtime takes over what is new in the worker's     *)
(* snapshot and numbers it anew; the interface writes what is new in the      *)
(* runtime's.  Each of them is told only the number of the first entry, and   *)
(* notices by it that entries were pushed out before it looked.               *)
EXTENDS Naturals, Sequences

CONSTANTS
    Limit,      \* ACTIVITY_LIMIT
    Entries,    \* bound: entries of the worker
    Others,     \* bound: entries of the runtime's own
    Clears      \* bound: times the log is cleared or cannot be written

LogAssumption ==
    Limit \in Nat \ {0} /\ Entries \in Nat /\ Others \in Nat /\ Clears \in Nat

\* An entry is where it comes from, and the worker's number for it.
Skipped == [from |-> "skipped", id |-> 0]    \* "Device activity entries were skipped"
Gap == [from |-> "gap", id |-> 0]            \* ACTIVITY_GAP
Own == [from |-> "runtime", id |-> 0]
Cleared == [from |-> "cleared", id |-> 0]    \* LOGS_CLEARED
Device(id) == [from |-> "device", id |-> id]
Items == {Skipped, Gap, Own, Cleared} \cup {Device(id) : id \in 1 .. Entries}

VARIABLES
    device,     \* the worker's entries and its next number
    posted,     \* what its snapshot shows of them
    engine,     \* the runtime's
    shown,      \* what the interface's snapshot shows of them
    lastDevice, \* DeviceWorker::last_activity_id
    lastEngine, \* StageSwapApp::last_activity_id
    log,        \* the files, in order
    failed,     \* an entry could not be written since the log was cleared
    others,
    clears

vars == <<device, posted, engine, shown, lastDevice, lastEngine, log, failed,
          others, clears>>

Empty == [items |-> <<>>, next |-> 1]

Init ==
    /\ device = Empty /\ posted = Empty /\ engine = Empty /\ shown = Empty
    /\ lastDevice = 0 /\ lastEngine = 0
    /\ log = <<>> /\ failed = FALSE
    /\ others = 0 /\ clears = 0

----------------------------------------------------------------------------
\* The last n elements of a sequence.
LastOf(n, s) == IF Len(s) <= n THEN s ELSE SubSeq(s, Len(s) - n + 1, Len(s))

(* record_with_verbosity, for each of the items.                              *)
Record(ring, items) ==
    [items |-> LastOf(Limit, ring.items \o items),
     next |-> ring.next + Len(items)]

\* recent_activity_first_id
First(ring) == ring.next - Len(ring.items)

\* A bug: a reader that is one entry behind is not told.
BugMissed(last, ring) == last + 2 < First(ring)

Missed(last, ring) == last + 1 < First(ring)

\* The entries above the last number a reader has seen.
News(last, ring) ==
    SubSeq(ring.items,
           IF last < First(ring) THEN 1 ELSE last - First(ring) + 2,
           Len(ring.items))

\* Entries that are left out because verbose logging is off have no number.
DeviceRecords ==
    /\ device.next <= Entries
    /\ device' = Record(device, <<Device(device.next)>>)
    /\ UNCHANGED <<posted, engine, shown, lastDevice, lastEngine, log, failed,
                   others, clears>>

RuntimeRecords ==
    /\ others < Others /\ others' = others + 1
    /\ engine' = Record(engine, <<Own>>)
    /\ UNCHANGED <<device, posted, shown, lastDevice, lastEngine, log, failed,
                   clears>>

\* publish_device_snapshot
DevicePublishes ==
    /\ posted # device
    /\ posted' = device
    /\ UNCHANGED <<device, engine, shown, lastDevice, lastEngine, log, failed,
                   others, clears>>

\* A bug: the last number moves on only when there was a loss.
BugTakeOver ==
    /\ engine' = Record(engine,
          (IF Missed(lastDevice, posted) THEN <<Skipped>> ELSE <<>>)
             \o News(lastDevice, posted))
    /\ lastDevice' = IF Missed(lastDevice, posted) THEN posted.next - 1
                                                   ELSE lastDevice

(* The end of Platform::refresh_inputs.                                       *)
TakeOver ==
    /\ engine' = Record(engine,
          (IF Missed(lastDevice, posted) THEN <<Skipped>> ELSE <<>>)
             \o News(lastDevice, posted))
    /\ lastDevice' = posted.next - 1

Refresh ==
    /\ lastDevice < posted.next - 1
    /\ TakeOver
    /\ UNCHANGED <<device, posted, shown, lastEngine, log, failed, others,
                   clears>>

\* The runtime hands its snapshot to the interface.
Publishes ==
    /\ shown # engine
    /\ shown' = engine
    /\ UNCHANGED <<device, posted, engine, lastDevice, lastEngine, log, failed,
                   others, clears>>

\* What the interface writes of its snapshot.
Fresh ==
    (IF Missed(lastEngine, shown) THEN <<Gap>> ELSE <<>>)
        \o News(lastEngine, shown)

\* A bug: the number of the next entry is kept in place of the last one's.
BugLogs ==
    /\ lastEngine < shown.next - 1
    /\ lastEngine' = shown.next
    /\ log' = log \o Fresh
    /\ UNCHANGED <<device, posted, engine, shown, lastDevice, failed, others,
                   clears>>

(* The log's part of StageSwapApp::logic.  LocalLog::write says nothing when  *)
(* it fails: the entries count as written.                                    *)
Logs ==
    /\ lastEngine < shown.next - 1
    /\ lastEngine' = shown.next - 1
    /\ \/ /\ log' = log \o Fresh
          /\ UNCHANGED <<failed, clears>>
       \/ /\ clears < Clears /\ clears' = clears + 1
          /\ failed' = TRUE
          /\ UNCHANGED log
    /\ UNCHANGED <<device, posted, engine, shown, lastDevice, others>>

\* clear_logs: the files are removed, and the log begins with a note of it.
Clear ==
    /\ clears < Clears /\ clears' = clears + 1
    /\ log' = <<Cleared>> /\ failed' = FALSE
    /\ UNCHANGED <<device, posted, engine, shown, lastDevice, lastEngine,
                   others>>

Next ==
    \/ DeviceRecords \/ RuntimeRecords \/ DevicePublishes \/ Refresh
    \/ Publishes \/ Logs \/ Clear

Spec == Init /\ [][Next]_vars

\* The three loops go on.
Fairness ==
    /\ WF_vars(DevicePublishes) /\ WF_vars(Refresh) /\ WF_vars(Publishes)
    /\ WF_vars(Logs)

FairSpec == Spec /\ Fairness

----------------------------------------------------------------------------
Rings == [items : Seq(Items), next : Nat]

TypeOK ==
    /\ {device, posted, engine, shown} \subseteq Rings
    /\ \A ring \in {device, posted, engine, shown} : Len(ring.items) <= Limit
    /\ lastDevice \in 0 .. Entries /\ lastEngine \in Nat
    /\ log \in Seq(Items) /\ failed \in BOOLEAN
    /\ others \in 0 .. Others /\ clears \in 0 .. Clears

DeviceAt(i) == log[i].from = "device"
MarkBetween(i, j) == \E k \in i + 1 .. j - 1 : log[k].from \in {"skipped", "gap"}

(* The log tells the worker's entries in their order, none twice, and where   *)
(* some are missing it says so, although two rings lose entries independently *)
(* and the first ring's mark of a loss may itself be pushed out of the second *)
(* (ACTIVITY_GAP in application.rs).  Excepted are entries lost because the   *)
(* file could not be written, of which nothing tells.                         *)
LossIsLogged ==
    \A i, j \in 1 .. Len(log) :
        (i < j /\ DeviceAt(i) /\ DeviceAt(j)) =>
            /\ log[i].id < log[j].id
            /\ \/ failed
               \/ MarkBetween(i, j)
               \/ \A id \in log[i].id + 1 .. log[j].id - 1 :
                     \E k \in i + 1 .. j - 1 : log[k] = Device(id)

(* Once all loops have caught up, the log ends with the worker's last entry,  *)
(* or says after what it has of the worker's entries that some are missing:   *)
(* what happened last is what a reader of the log looks for.                  *)
EndIsLogged ==
    \/ \E i \in 1 .. Len(log) : log[i] = Device(device.next - 1)
    \/ \E i \in 1 .. Len(log) :
          /\ log[i].from \in {"skipped", "gap"}
          /\ \A j \in i .. Len(log) : ~DeviceAt(j)

LastEntryIsLogged == device.next > 1 ~> (clears > 0 \/ EndIsLogged)
=============================================================================
