---------------------------- MODULE SourceLifecycle ----------------------------
(***************************************************************************)
(* The life cycle of the Media Foundation source and of its one stream, as *)
(* the Windows Frame Server drives it: Start, Stop, Shutdown, the stream's *)
(* SetStreamState and RequestSample (media_source.rs, media_stream.rs).    *)
(*                                                                         *)
(* The objects are free-threaded, so a call is not atomic: each of its     *)
(* critical sections, and each call it makes of an event queue, is a step. *)
(* No critical section contains another.  A caller executes one call at a  *)
(* time; call[c].section names the section it enters next, "idle" between  *)
(* calls.  An early return of an error is a step to "idle".                *)
(*                                                                         *)
(* Left out: the event payloads, the checks of the presentation descriptor *)
(* passed to Start (they only refuse the call), the published pictures     *)
(* (FramePipe has them) and the sample contents.                           *)
(***************************************************************************)
EXTENDS Naturals

CONSTANTS Callers,           \* threads of the Frame Server
          Types,             \* the media types advertised by the descriptor
          DefaultType,       \* RGB32, selected by MediaStream::new
          MaxQueueFaults,    \* bound: QueueEvent calls refused by an open queue
          MaxAllocatorFaults \* bound: sample allocators that cannot be created

None == "none"

ASSUME TypesAssumption == DefaultType \in Types /\ None \notin Types
ASSUME FaultsAssumption == MaxQueueFaults \in Nat /\ MaxAllocatorFaults \in Nat

VARIABLES life,              \* SourceState.lifecycle
          announced,         \* SourceState.stream_announced
          mode,              \* StreamState.state
          streamLife,        \* StreamState.shutdown
          current,           \* the current type of the stream descriptor
          allocator,         \* the type of the sample allocator, or None
          reader,            \* the pipe reader of the stream
          sourceQueue,       \* the event queue of the source
          streamQueue,       \* the event queue of the stream
          call,              \* the call each caller is in, and its locals
          introductions,     \* MENewStream events queued (counted up to 2)
          queueShutdowns,    \* shutdowns of the source queue (up to 2)
          queueFaults, allocatorFaults

sourceVars == <<life, announced, sourceQueue, introductions, queueShutdowns>>
streamVars == <<mode, streamLife, reader, streamQueue>>
formatVars == <<current, allocator>>
faultVars == <<queueFaults, allocatorFaults>>
vars == <<sourceVars, streamVars, formatVars, faultVars, call>>

Modes == {"Stopped", "Running", "Paused"}
Positions == {"Current", "Absolute"}
Sections == {"idle",
             "set type", "checkpoint", "run", "announce source",
             "announce stream", "restore", "commit start",
             "check open", "allocate", "set mode",
             "stop stream", "stream stopped", "commit stop",
             "close stream", "stop reader", "release", "close stream queue",
             "close source queue",
             "read type", "sample", "recheck", "deliver"}

\* The call under way: the section it enters next, its operation, the media type
\* it works with, the mode a SetStreamState sets, what a Start read of
\* stream_announced, and its StreamCheckpoint.
Call == [section : Sections, op : {"none", "Start", "SetStreamState", "RequestSample",
                                   "Stop", "Shutdown"},
         type : Types, mode : Modes, announced : {"no", "yes"}, saved : Modes]
NoCall == [section |-> "idle", op |-> "none", type |-> DefaultType,
           mode |-> "Stopped", announced |-> "no", saved |-> "Stopped"]

TypeOK ==
    /\ life \in {"Stopped", "Started", "Shutdown"}
    /\ announced \in {"no", "yes"}
    /\ mode \in Modes
    /\ streamLife \in {"open", "shutdown"}
    /\ current \in Types
    /\ allocator \in Types \cup {None}
    /\ reader \in {"running", "stopped"}
    /\ sourceQueue \in {"open", "closed"} /\ streamQueue \in {"open", "closed"}
    /\ call \in [Callers -> Call]
    /\ introductions \in 0..2 /\ queueShutdowns \in 0..2
    /\ queueFaults \in 0..MaxQueueFaults
    /\ allocatorFaults \in 0..MaxAllocatorFaults

Init ==
    /\ life = "Stopped" /\ announced = "no"
    /\ mode = "Stopped" /\ streamLife = "open"
    /\ current = DefaultType /\ allocator = None
    /\ reader = "running"
    /\ sourceQueue = "open" /\ streamQueue = "open"
    /\ call = [c \in Callers |-> NoCall]
    /\ introductions = 0 /\ queueShutdowns = 0
    /\ queueFaults = 0 /\ allocatorFaults = 0

\* Caller c begins an operation, goes on to another section, or returns.
Enter(c, locals) ==
    /\ call[c].section = "idle"
    /\ call' = [call EXCEPT ![c] = locals]
Goto(c, section) == call' = [call EXCEPT ![c].section = section]
Return(c) == call' = [call EXCEPT ![c] = NoCall]
UpTo2(n) == IF n < 2 THEN n + 1 ELSE n

--------------------------------------------------------------------------------
(* Start                                                                      *)

\* The first section of Start: an absolute position is a seek once started.
StartBegins(c, t, position) ==
    /\ life # "Shutdown"
    /\ ~(life = "Started" /\ position = "Absolute")
    /\ Enter(c, [NoCall EXCEPT !.section = "set type", !.op = "Start",
                               !.type = t, !.announced = announced])
    /\ UNCHANGED <<sourceVars, streamVars, formatVars, faultVars>>

\* set_media_type: the descriptor's handler first, the allocator afterwards.
SetType(c) ==
    /\ call[c].section = "set type"
    /\ current' = call[c].type
    /\ Goto(c, "check open")
    /\ UNCHANGED <<sourceVars, streamVars, allocator, faultVars>>

\* Start stores what a failure restores; the stream may have been shut down.
Checkpoint(c) ==
    /\ call[c].section = "checkpoint"
    /\ \/ streamLife = "shutdown" /\ Return(c)
       \/ /\ streamLife = "open"
          /\ call' = [call EXCEPT ![c].saved = mode, ![c].section = "run"]
    /\ UNCHANGED <<sourceVars, streamVars, formatVars, faultVars>>

\* MediaStream::start
Run(c) ==
    /\ call[c].section = "run"
    /\ \/ streamLife = "shutdown" /\ Return(c) /\ UNCHANGED mode
       \/ streamLife = "open" /\ mode' = "Running" /\ Goto(c, "announce source")
    /\ UNCHANGED <<sourceVars, streamLife, reader, streamQueue, formatVars,
                   faultVars>>

\* QueueEvent on a queue: it is refused by a closed queue, and may be refused
\* by an open one (no memory), at most MaxQueueFaults times.
Queued(queue) == queue = "open" /\ UNCHANGED queueFaults
Refused(queue) ==
    \/ queue = "closed" /\ UNCHANGED queueFaults
    \/ /\ queue = "open" /\ queueFaults < MaxQueueFaults
       /\ queueFaults' = queueFaults + 1

\* MESourceStarted, then MENewStream (the first time) or MEUpdatedStream, chosen
\* by what the first section of Start read.
AnnounceSource(c) ==
    /\ call[c].section = "announce source"
    /\ \/ /\ Queued(sourceQueue)
          /\ introductions' = IF call[c].announced = "no"
                              THEN UpTo2(introductions) ELSE introductions
          /\ Goto(c, "announce stream")
       \/ Refused(sourceQueue) /\ Goto(c, "restore") /\ UNCHANGED introductions
    /\ UNCHANGED <<life, announced, sourceQueue, queueShutdowns, streamVars,
                   formatVars, allocatorFaults>>

\* queue_started
AnnounceStream(c) ==
    /\ call[c].section = "announce stream"
    /\ \/ Queued(streamQueue) /\ Goto(c, "commit start")
       \/ Refused(streamQueue) /\ Goto(c, "restore")
    /\ UNCHANGED <<sourceVars, streamVars, formatVars, allocatorFaults>>

\* Mistaken variant: restore ignores the shutdown.
BugRestoreAlways(c) ==
    /\ call[c].section = "restore"
    /\ mode' = call[c].saved
    /\ Return(c)
    /\ UNCHANGED <<sourceVars, streamLife, reader, streamQueue, formatVars,
                   faultVars>>

\* Mistaken variant: a Start that fails restores nothing.
BugNoRestore(c) ==
    /\ call[c].section = "restore"
    /\ Return(c)
    /\ UNCHANGED <<sourceVars, streamVars, formatVars, faultVars>>

\* restore: only the mode, and only of a stream that is still open.
Restore(c) ==
    /\ call[c].section = "restore"
    /\ mode' = IF streamLife = "open" THEN call[c].saved ELSE mode
    /\ Return(c)
    /\ UNCHANGED <<sourceVars, streamLife, reader, streamQueue, formatVars,
                   faultVars>>

\* Mistaken variant: start forgets that it introduced the stream.
BugForgetsIntroduction(c) ==
    /\ call[c].section = "commit start"
    /\ life' = "Started" /\ UNCHANGED announced
    /\ Return(c)
    /\ UNCHANGED <<sourceQueue, introductions, queueShutdowns, streamVars,
                   formatVars, faultVars>>

\* The last section of Start overwrites the lifecycle without reading it.
CommitStart(c) ==
    /\ call[c].section = "commit start"
    /\ life' = "Started" /\ announced' = "yes"
    /\ Return(c)
    /\ UNCHANGED <<sourceQueue, introductions, queueShutdowns, streamVars,
                   formatVars, faultVars>>

--------------------------------------------------------------------------------
(* initialize_sample_allocator, of Start and of SetStreamState                *)

\* The shutdown flag is read in a section of its own, before the allocator's.
CheckOpen(c) ==
    /\ call[c].section = "check open"
    /\ IF streamLife = "open" THEN Goto(c, "allocate") ELSE Return(c)
    /\ UNCHANGED <<sourceVars, streamVars, formatVars, faultVars>>

\* Mistaken variant: any allocator will do.
BugAllocatorOfAnyType(c) ==
    /\ call[c].section = "allocate"
    /\ allocator' = IF allocator = None THEN call[c].type ELSE allocator
    /\ Goto(c, IF call[c].op = "Start" THEN "checkpoint" ELSE "set mode")
    /\ UNCHANGED <<sourceVars, streamVars, current, faultVars>>

\* An allocator of the type is kept; another one is released before the new one
\* is created, so a failure leaves the stream without any.
Allocate(c) ==
    /\ call[c].section = "allocate"
    /\ \/ /\ allocator' = call[c].type
          /\ Goto(c, IF call[c].op = "Start" THEN "checkpoint" ELSE "set mode")
          /\ UNCHANGED allocatorFaults
       \/ /\ allocator # call[c].type
          /\ allocatorFaults < MaxAllocatorFaults
          /\ allocatorFaults' = allocatorFaults + 1
          /\ allocator' = None
          /\ Return(c)
    /\ UNCHANGED <<sourceVars, streamVars, current, queueFaults>>

--------------------------------------------------------------------------------
(* SetStreamState of the stream                                               *)

\* PAUSED is accepted of a running stream only.  RUNNING makes sure of the
\* allocator for the type selected at that time.
SetStateBegins(c, m) ==
    /\ streamLife = "open"
    /\ m = "Paused" => mode = "Running"
    /\ Enter(c, [NoCall EXCEPT
                    !.section = IF m = "Running" THEN "read type" ELSE "set mode",
                    !.op = "SetStreamState", !.mode = m])
    /\ UNCHANGED <<sourceVars, streamVars, formatVars, faultVars>>

\* GetCurrentMediaType, of SetStreamState and of RequestSample
ReadType(c) ==
    /\ call[c].section = "read type"
    /\ call' = [call EXCEPT
                   ![c].type = current,
                   ![c].section = IF call[c].op = "SetStreamState" THEN "check open"
                                                                   ELSE "sample"]
    /\ UNCHANGED <<sourceVars, streamVars, formatVars, faultVars>>

\* The last section checks the flag again.
SetMode(c) ==
    /\ call[c].section = "set mode"
    /\ mode' = IF streamLife = "open" THEN call[c].mode ELSE mode
    /\ Return(c)
    /\ UNCHANGED <<sourceVars, streamLife, reader, streamQueue, formatVars,
                   faultVars>>

--------------------------------------------------------------------------------
(* RequestSample of the stream                                                *)

RequestBegins(c) ==
    /\ streamLife = "open" /\ mode = "Running"
    /\ Enter(c, [NoCall EXCEPT !.section = "read type", !.op = "RequestSample"])
    /\ UNCHANGED <<sourceVars, streamVars, formatVars, faultVars>>

\* A sample can be served: there is an allocator and its buffers take pictures
\* of the type the request works with.
Servable(c) == allocator = call[c].type

\* allocate_sample and the copy into the sample's buffer
Sample(c) ==
    /\ call[c].section = "sample"
    /\ IF Servable(c) THEN Goto(c, "recheck") ELSE Return(c)
    /\ UNCHANGED <<sourceVars, streamVars, formatVars, faultVars>>

Recheck(c) ==
    /\ call[c].section = "recheck"
    /\ IF streamLife = "open" /\ mode = "Running" THEN Goto(c, "deliver") ELSE Return(c)
    /\ UNCHANGED <<sourceVars, streamVars, formatVars, faultVars>>

\* MEMediaSample: accepted or refused by the queue, the request is over.
Deliver(c) ==
    /\ call[c].section = "deliver"
    /\ Return(c)
    /\ UNCHANGED <<sourceVars, streamVars, formatVars, faultVars>>

--------------------------------------------------------------------------------
(* Stop                                                                       *)

StopBegins(c) ==
    /\ life = "Started"
    /\ Enter(c, [NoCall EXCEPT !.section = "stop stream", !.op = "Stop"])
    /\ UNCHANGED <<sourceVars, streamVars, formatVars, faultVars>>

\* MediaStream::stop sets the mode before it queues MEStreamStopped; an error
\* of either returns from Stop with the lifecycle as it was.
StopStream(c) ==
    /\ call[c].section = "stop stream"
    /\ \/ streamLife = "shutdown" /\ Return(c) /\ UNCHANGED mode
       \/ streamLife = "open" /\ mode' = "Stopped" /\ Goto(c, "stream stopped")
    /\ UNCHANGED <<sourceVars, streamLife, reader, streamQueue, formatVars,
                   faultVars>>

StreamStopped(c) ==
    /\ call[c].section = "stream stopped"
    /\ \/ Queued(streamQueue) /\ Goto(c, "commit stop")
       \/ Refused(streamQueue) /\ Return(c)
    /\ UNCHANGED <<sourceVars, streamVars, formatVars, allocatorFaults>>

\* MESourceStopped, whose result is returned after the lifecycle is overwritten.
CommitStop(c) ==
    /\ call[c].section = "commit stop"
    /\ life' = "Stopped"
    /\ Return(c)
    /\ UNCHANGED <<announced, sourceQueue, introductions, queueShutdowns,
                   streamVars, formatVars, faultVars>>

--------------------------------------------------------------------------------
(* Shutdown                                                                   *)

ShutdownBegins(c) ==
    /\ life # "Shutdown"
    /\ life' = "Shutdown"
    /\ Enter(c, [NoCall EXCEPT !.section = "close stream", !.op = "Shutdown"])
    /\ UNCHANGED <<announced, sourceQueue, introductions, queueShutdowns,
                   streamVars, formatVars, faultVars>>

\* Every call of a source that was shut down returns at once: MF_E_SHUTDOWN, or
\* success of a second Shutdown.
RefusedAfterShutdown(c) ==
    /\ call[c].section = "idle"
    /\ life = "Shutdown"
    /\ UNCHANGED vars

\* Mistaken variant: the stream is given the lifecycle of its source.
BugModeOfSource(c) ==
    /\ call[c].section = "close stream"
    /\ streamLife' = "shutdown" /\ mode' = life
    /\ Goto(c, IF streamLife = "open" THEN "stop reader" ELSE "close source queue")
    /\ UNCHANGED <<sourceVars, reader, streamQueue, formatVars, faultVars>>

\* MediaStream::shutdown; of a stream that is already shut down it does nothing.
CloseStream(c) ==
    /\ call[c].section = "close stream"
    /\ streamLife' = "shutdown"
    /\ mode' = IF streamLife = "open" THEN "Stopped" ELSE mode
    /\ Goto(c, IF streamLife = "open" THEN "stop reader" ELSE "close source queue")
    /\ UNCHANGED <<sourceVars, reader, streamQueue, formatVars, faultVars>>

\* The reader is cancelled and joined, the picture cache invalidated.
StopReader(c) ==
    /\ call[c].section = "stop reader"
    /\ reader' = "stopped"
    /\ Goto(c, "release")
    /\ UNCHANGED <<sourceVars, mode, streamLife, streamQueue, formatVars,
                   faultVars>>

Release(c) ==
    /\ call[c].section = "release"
    /\ allocator' = None
    /\ Goto(c, "close stream queue")
    /\ UNCHANGED <<sourceVars, streamVars, current, faultVars>>

\* Mistaken variant: the queue of the stream stays open.
BugStreamQueueStaysOpen(c) ==
    /\ call[c].section = "close stream queue"
    /\ Goto(c, "close source queue")
    /\ UNCHANGED <<sourceVars, streamVars, formatVars, faultVars>>

CloseStreamQueue(c) ==
    /\ call[c].section = "close stream queue"
    /\ streamQueue' = "closed"
    /\ Goto(c, "close source queue")
    /\ UNCHANGED <<sourceVars, mode, streamLife, reader, formatVars, faultVars>>

CloseSourceQueue(c) ==
    /\ call[c].section = "close source queue"
    /\ sourceQueue' = "closed"
    /\ queueShutdowns' = UpTo2(queueShutdowns)
    /\ Return(c)
    /\ UNCHANGED <<life, announced, introductions, streamVars, formatVars,
                   faultVars>>

--------------------------------------------------------------------------------
StartStep(c) ==
    \/ \E t \in Types, position \in Positions : StartBegins(c, t, position)
    \/ SetType(c) \/ Checkpoint(c) \/ Run(c)
    \/ AnnounceSource(c) \/ AnnounceStream(c) \/ Restore(c) \/ CommitStart(c)
StreamStep(c) ==
    \/ \E m \in Modes : SetStateBegins(c, m)
    \/ CheckOpen(c) \/ Allocate(c) \/ SetMode(c)
    \/ RequestBegins(c) \/ ReadType(c) \/ Sample(c) \/ Recheck(c) \/ Deliver(c)
StopStep(c) ==
    \/ StopBegins(c) \/ StopStream(c) \/ StreamStopped(c) \/ CommitStop(c)
ShutdownStep(c) ==
    \/ ShutdownBegins(c) \/ RefusedAfterShutdown(c) \/ CloseStream(c) \/ StopReader(c)
    \/ Release(c) \/ CloseStreamQueue(c) \/ CloseSourceQueue(c)

Next == \E c \in Callers :
            StartStep(c) \/ StreamStep(c) \/ StopStep(c) \/ ShutdownStep(c)

Spec == Init /\ [][Next]_vars

--------------------------------------------------------------------------------
(* Properties                                                                 *)

AtRest == \A c \in Callers : call[c].section = "idle"

\* A stream that was shut down is stopped for good: neither the restore of a
\* Start that fails nor a SetStreamState that passed its first check before the
\* shutdown sets another mode afterwards (media_stream.rs: shutdown, restore,
\* start, stop, SetStreamState).
StreamStaysStopped == streamLife = "shutdown" => mode = "Stopped"

\* Between calls the source and its stream agree on the shutdown, and a source
\* that was shut down holds nothing: no reader, no allocator, no open queue
\* (MediaSource::Shutdown and MediaStream::shutdown).
ShutdownIsComplete ==
    AtRest => /\ life = "Shutdown" <=> streamLife = "shutdown"
              /\ life = "Shutdown" =>
                    /\ reader = "stopped" /\ allocator = None
                    /\ sourceQueue = "closed" /\ streamQueue = "closed"

\* Stream shutdown releases the allocator: once all calls have returned, a
\* stream that was shut down has none (initialize_sample_allocator reads the
\* shutdown flag before it takes the allocator's lock).
AllocatorReleased == AtRest /\ streamLife = "shutdown" => allocator = None

\* The event queue of the source is shut down once (MediaSource::Shutdown;
\* Start and Stop overwrite the lifecycle it checks).
ShutdownOnce == queueShutdowns <= 1

\* The stream is introduced by one MENewStream; every later Start reports
\* MEUpdatedStream (stream_announced in Start).
IntroducedOnce == introductions <= 1

\* A request that found the stream running finds buffers of the type it works
\* with, whatever sequence of Start, Stop and SetStreamState came before
\* (set_media_type and initialize_sample_allocator keep allocator and
\* descriptor in step).
RequestCanBeServed == \A c \in Callers : call[c].section = "sample" => Servable(c)

================================================================================
