----------------------------- MODULE CameraProofs -----------------------------
(***************************************************************************)
(* Proofs about the components that MCCamera composes: the source and its  *)
(* stream, the life of the camera's library, its samples, the webcam's     *)
(* sessions and formats, and the files and the registration of the         *)
(* library.  Every component has an inductive invariant of its own; a      *)
(* behaviour of MCCamera is a behaviour of each of them, most of them      *)
(* resting.                                                                *)
(***************************************************************************)
EXTENDS MCCamera, Sequences, TLAPS, FiniteSetTheorems

----------------------------------------------------------------------------
(***************************************************************************)
(* The source and its stream (SourceLifecycle).  Type correctness is       *)
(* inductive, and so is, with it, that a stream which was shut down stays  *)
(* stopped: every section that writes the mode reads the shutdown flag     *)
(* under the same lock.                                                    *)
(***************************************************************************)

\* The call a caller returns from is replaced by NoCall.
LEMMA NoCallType == NoCall \in Call
  BY TypesAssumption DEF NoCall, Call, Modes, Sections

\* The counters that stop at two.
LEMMA UpTo2Type == \A n \in 0..2 : UpTo2(n) \in 0..2
  BY DEF UpTo2

\* Entering, going on and returning keep the calls well-typed.
LEMMA CallSteps ==
  ASSUME call \in [Callers -> Call], NEW c \in Callers
  PROVE  /\ \A locals \in Call : Enter(c, locals) => call' \in [Callers -> Call]
         /\ \A section \in Sections : Goto(c, section) => call' \in [Callers -> Call]
         /\ Return(c) => call' \in [Callers -> Call]
<1>1. \A locals \in Call : Enter(c, locals) => call' \in [Callers -> Call]
  BY DEF Enter
<1>2. \A section \in Sections : Goto(c, section) => call' \in [Callers -> Call]
  <2> SUFFICES ASSUME NEW section \in Sections, Goto(c, section)
               PROVE  call' \in [Callers -> Call]
    OBVIOUS
  <2>1. call[c] \in Call
    OBVIOUS
  <2>2. [call[c] EXCEPT !.section = section] \in Call
    BY <2>1 DEF Call
  <2> QED
    BY <2>2 DEF Goto
<1>3. Return(c) => call' \in [Callers -> Call]
  BY NoCallType DEF Return
<1> QED
  BY <1>1, <1>2, <1>3

\* The locals a call begins with.
LEMMA FirstLocals ==
  ASSUME NEW t \in Types, NEW m \in Modes, announced \in {"no", "yes"}
  PROVE  /\ [NoCall EXCEPT !.section = "set type", !.op = "Start", !.type = t,
                           !.announced = announced] \in Call
         /\ [NoCall EXCEPT !.section = IF m = "Running" THEN "read type" ELSE "set mode",
                           !.op = "SetStreamState", !.mode = m] \in Call
         /\ [NoCall EXCEPT !.section = "read type", !.op = "RequestSample"] \in Call
         /\ [NoCall EXCEPT !.section = "stop stream", !.op = "Stop"] \in Call
         /\ [NoCall EXCEPT !.section = "close stream", !.op = "Shutdown"] \in Call
BY TypesAssumption DEF NoCall, Call, Modes, Sections

\* Every step of a caller keeps its call well-typed.
LEMMA CallTyped ==
  ASSUME TypeOK, NEW c \in Callers,
         StartStep(c) \/ StreamStep(c) \/ StopStep(c) \/ ShutdownStep(c)
  PROVE  call' \in [Callers -> Call]
<1>a. call \in [Callers -> Call] /\ announced \in {"no", "yes"} /\ mode \in Modes
      /\ current \in Types
  BY DEF TypeOK
<1>b. call[c] \in Call
  BY <1>a
<1>c. /\ \A locals \in Call : Enter(c, locals) => call' \in [Callers -> Call]
      /\ \A section \in Sections : Goto(c, section) => call' \in [Callers -> Call]
      /\ Return(c) => call' \in [Callers -> Call]
  BY <1>a, CallSteps
<1>1. CASE StartStep(c)
  <2>1. ASSUME NEW t \in Types, NEW position \in Positions, StartBegins(c, t, position)
        PROVE  call' \in [Callers -> Call]
    BY <1>a, <1>c, <2>1, FirstLocals DEF StartBegins, Modes
  <2>2. CASE SetType(c)
    BY <1>c, <2>2 DEF SetType, Sections
  <2>3. CASE Checkpoint(c)
    <3>1. CASE Return(c)
      BY <1>c, <3>1
    <3>2. CASE call' = [call EXCEPT ![c].saved = mode, ![c].section = "run"]
      <4>1. [call[c] EXCEPT !.saved = mode, !.section = "run"] \in Call
        BY <1>a, <1>b DEF Call, Sections
      <4> QED
        BY <1>a, <3>2, <4>1
    <3> QED
      BY <2>3, <3>1, <3>2 DEF Checkpoint
  <2>4. CASE Run(c)
    BY <1>c, <2>4 DEF Run, Sections
  <2>5. CASE AnnounceSource(c)
    BY <1>c, <2>5 DEF AnnounceSource, Sections
  <2>6. CASE AnnounceStream(c)
    BY <1>c, <2>6 DEF AnnounceStream, Sections
  <2>7. CASE Restore(c)
    BY <1>c, <2>7 DEF Restore
  <2>8. CASE CommitStart(c)
    BY <1>c, <2>8 DEF CommitStart
  <2> QED
    BY <1>1, <2>1, <2>2, <2>3, <2>4, <2>5, <2>6, <2>7, <2>8 DEF StartStep
<1>2. CASE StreamStep(c)
  <2>1. ASSUME NEW m \in Modes, SetStateBegins(c, m)
        PROVE  call' \in [Callers -> Call]
    BY <1>a, <1>c, <2>1, FirstLocals, TypesAssumption DEF SetStateBegins
  <2>2. CASE CheckOpen(c)
    BY <1>c, <2>2 DEF CheckOpen, Sections
  <2>3. CASE Allocate(c)
    BY <1>c, <2>3 DEF Allocate, Sections
  <2>4. CASE SetMode(c)
    BY <1>c, <2>4 DEF SetMode
  <2>5. CASE RequestBegins(c)
    BY <1>a, <1>c, <2>5, FirstLocals, TypesAssumption DEF RequestBegins
  <2>6. CASE ReadType(c)
    <3> DEFINE next == IF call[c].op = "SetStreamState" THEN "check open" ELSE "sample"
    <3>1. [call[c] EXCEPT !.type = current, !.section = next] \in Call
      BY <1>a, <1>b DEF Call, Sections
    <3>2. call' = [call EXCEPT ![c].type = current, ![c].section = next]
      BY <2>6 DEF ReadType
    <3> QED
      BY <1>a, <3>1, <3>2
  <2>7. CASE Sample(c)
    BY <1>c, <2>7 DEF Sample, Sections
  <2>8. CASE Recheck(c)
    BY <1>c, <2>8 DEF Recheck, Sections
  <2>9. CASE Deliver(c)
    BY <1>c, <2>9 DEF Deliver
  <2> QED
    BY <1>2, <2>1, <2>2, <2>3, <2>4, <2>5, <2>6, <2>7, <2>8, <2>9 DEF StreamStep
<1>3. CASE StopStep(c)
  <2>1. CASE StopBegins(c)
    BY <1>a, <1>c, <2>1, FirstLocals, TypesAssumption DEF StopBegins
  <2>2. CASE StopStream(c)
    BY <1>c, <2>2 DEF StopStream, Sections
  <2>3. CASE StreamStopped(c)
    BY <1>c, <2>3 DEF StreamStopped, Sections
  <2>4. CASE CommitStop(c)
    BY <1>c, <2>4 DEF CommitStop
  <2> QED
    BY <1>3, <2>1, <2>2, <2>3, <2>4 DEF StopStep
<1>4. CASE ShutdownStep(c)
  <2>1. CASE ShutdownBegins(c)
    BY <1>a, <1>c, <2>1, FirstLocals, TypesAssumption DEF ShutdownBegins
  <2>2. CASE RefusedAfterShutdown(c)
    BY <1>a, <2>2 DEF RefusedAfterShutdown, vars
  <2>3. CASE CloseStream(c)
    BY <1>c, <2>3 DEF CloseStream, Sections
  <2>4. CASE StopReader(c)
    BY <1>c, <2>4 DEF StopReader, Sections
  <2>5. CASE Release(c)
    BY <1>c, <2>5 DEF Release, Sections
  <2>6. CASE CloseStreamQueue(c)
    BY <1>c, <2>6 DEF CloseStreamQueue, Sections
  <2>7. CASE CloseSourceQueue(c)
    BY <1>c, <2>7 DEF CloseSourceQueue
  <2> QED
    BY <1>4, <2>1, <2>2, <2>3, <2>4, <2>5, <2>6, <2>7 DEF ShutdownStep
<1> QED
  BY <1>1, <1>2, <1>3, <1>4

\* TypeOK without the calls.
StateTyped ==
    /\ life \in {"Stopped", "Started", "Shutdown"}
    /\ announced \in {"no", "yes"}
    /\ mode \in Modes
    /\ streamLife \in {"open", "shutdown"}
    /\ current \in Types
    /\ allocator \in Types \cup {None}
    /\ reader \in {"running", "stopped"}
    /\ sourceQueue \in {"open", "closed"} /\ streamQueue \in {"open", "closed"}
    /\ introductions \in 0..2 /\ queueShutdowns \in 0..2
    /\ queueFaults \in 0..MaxQueueFaults
    /\ allocatorFaults \in 0..MaxAllocatorFaults

\* What a call contributes to the state is typed by its own type.
LEMMA CallFields ==
  ASSUME TypeOK, NEW c \in Callers
  PROVE  call[c].type \in Types /\ call[c].mode \in Modes /\ call[c].saved \in Modes
BY DEF TypeOK, Call

\* The counters of refused events and of failed allocators stay in range.
LEMMA FaultsTyped ==
  ASSUME NEW queue, StateTyped
  PROVE  /\ Queued(queue) => queueFaults' \in 0..MaxQueueFaults
         /\ Refused(queue) => queueFaults' \in 0..MaxQueueFaults
         /\ allocatorFaults < MaxAllocatorFaults =>
               allocatorFaults + 1 \in 0..MaxAllocatorFaults
<1>1. queueFaults \in 0..MaxQueueFaults /\ allocatorFaults \in 0..MaxAllocatorFaults
  BY DEF StateTyped
<1>2. queueFaults < MaxQueueFaults => queueFaults + 1 \in 0..MaxQueueFaults
  BY <1>1, FaultsAssumption
<1>3. allocatorFaults < MaxAllocatorFaults => allocatorFaults + 1 \in 0..MaxAllocatorFaults
  BY <1>1, FaultsAssumption
<1>4. Queued(queue) => queueFaults' \in 0..MaxQueueFaults
  BY <1>1 DEF Queued
<1>5. Refused(queue) => queueFaults' \in 0..MaxQueueFaults
  BY <1>1, <1>2 DEF Refused
<1> QED
  BY <1>3, <1>4, <1>5

\* Every step of a caller keeps the rest of the state well-typed.
LEMMA StateStaysTyped ==
  ASSUME TypeOK, NEW c \in Callers,
         StartStep(c) \/ StreamStep(c) \/ StopStep(c) \/ ShutdownStep(c)
  PROVE  StateTyped'
<1>a. StateTyped
  BY DEF TypeOK, StateTyped
<1>b. call[c].type \in Types /\ call[c].mode \in Modes /\ call[c].saved \in Modes
  BY CallFields
<1> USE DEF StateTyped, sourceVars, streamVars, formatVars, faultVars
<1>1. CASE StartStep(c)
  <2>1. ASSUME NEW t \in Types, NEW position \in Positions, StartBegins(c, t, position)
        PROVE  StateTyped'
    BY <1>a, <2>1 DEF StartBegins
  <2>2. CASE SetType(c)
    BY <1>a, <1>b, <2>2 DEF SetType
  <2>3. CASE Checkpoint(c)
    BY <1>a, <1>b, <2>3 DEF Checkpoint
  <2>4. CASE Run(c)
    BY <1>a, <1>b, <2>4 DEF Run, Modes
  <2>5. CASE AnnounceSource(c)
    BY <1>a, <2>5, FaultsTyped, UpTo2Type DEF AnnounceSource
  <2>6. CASE AnnounceStream(c)
    BY <1>a, <2>6, FaultsTyped DEF AnnounceStream
  <2>7. CASE Restore(c)
    BY <1>a, <1>b, <2>7 DEF Restore
  <2>8. CASE CommitStart(c)
    BY <1>a, <1>b, <2>8 DEF CommitStart
  <2> QED
    BY <1>1, <2>1, <2>2, <2>3, <2>4, <2>5, <2>6, <2>7, <2>8 DEF StartStep
<1>2. CASE StreamStep(c)
  <2>1. ASSUME NEW m \in Modes, SetStateBegins(c, m)
        PROVE  StateTyped'
    BY <1>a, <2>1 DEF SetStateBegins
  <2>2. CASE CheckOpen(c)
    BY <1>a, <1>b, <2>2 DEF CheckOpen
  <2>3. CASE Allocate(c)
    BY <1>a, <1>b, <2>3, FaultsTyped DEF Allocate
  <2>4. CASE SetMode(c)
    BY <1>a, <1>b, <2>4 DEF SetMode
  <2>5. CASE RequestBegins(c)
    BY <1>a, <1>b, <2>5 DEF RequestBegins
  <2>6. CASE ReadType(c)
    BY <1>a, <1>b, <2>6 DEF ReadType
  <2>7. CASE Sample(c)
    BY <1>a, <1>b, <2>7 DEF Sample
  <2>8. CASE Recheck(c)
    BY <1>a, <1>b, <2>8 DEF Recheck
  <2>9. CASE Deliver(c)
    BY <1>a, <1>b, <2>9 DEF Deliver
  <2> QED
    BY <1>2, <2>1, <2>2, <2>3, <2>4, <2>5, <2>6, <2>7, <2>8, <2>9 DEF StreamStep
<1>3. CASE StopStep(c)
  <2>1. CASE StopBegins(c)
    BY <1>a, <1>b, <2>1 DEF StopBegins
  <2>2. CASE StopStream(c)
    BY <1>a, <1>b, <2>2 DEF StopStream, Modes
  <2>3. CASE StreamStopped(c)
    BY <1>a, <2>3, FaultsTyped DEF StreamStopped
  <2>4. CASE CommitStop(c)
    BY <1>a, <1>b, <2>4 DEF CommitStop
  <2> QED
    BY <1>3, <2>1, <2>2, <2>3, <2>4 DEF StopStep
<1>4. CASE ShutdownStep(c)
  <2>1. CASE ShutdownBegins(c)
    BY <1>a, <1>b, <2>1 DEF ShutdownBegins
  <2>2. CASE RefusedAfterShutdown(c)
    BY <1>a, <1>b, <2>2 DEF RefusedAfterShutdown, vars
  <2>3. CASE CloseStream(c)
    BY <1>a, <1>b, <2>3 DEF CloseStream, Modes
  <2>4. CASE StopReader(c)
    BY <1>a, <1>b, <2>4 DEF StopReader
  <2>5. CASE Release(c)
    BY <1>a, <1>b, <2>5 DEF Release
  <2>6. CASE CloseStreamQueue(c)
    BY <1>a, <1>b, <2>6 DEF CloseStreamQueue
  <2>7. CASE CloseSourceQueue(c)
    BY <1>a, <2>7, UpTo2Type DEF CloseSourceQueue
  <2> QED
    BY <1>4, <2>1, <2>2, <2>3, <2>4, <2>5, <2>6, <2>7 DEF ShutdownStep
<1> QED
  BY <1>1, <1>2, <1>3, <1>4

\* The source, its stream and every call are well-typed, and the counted faults
\* stay within their bounds (media_source.rs, media_stream.rs).
THEOREM TypeCorrect == Spec => []TypeOK
<1>1. Init => TypeOK
  BY NoCallType, TypesAssumption, FaultsAssumption DEF Init, TypeOK, Modes
<1>2. TypeOK /\ [Next]_vars => TypeOK'
  <2> SUFFICES ASSUME TypeOK, [Next]_vars PROVE TypeOK'
    OBVIOUS
  <2>1. CASE Next
    <3>1. PICK c \in Callers :
            StartStep(c) \/ StreamStep(c) \/ StopStep(c) \/ ShutdownStep(c)
      BY <2>1 DEF Next
    <3>2. call' \in [Callers -> Call]
      BY <3>1, CallTyped
    <3>3. StateTyped'
      BY <3>1, StateStaysTyped
    <3> QED
      BY <3>2, <3>3 DEF StateTyped, TypeOK
  <2>2. CASE UNCHANGED vars
    BY <2>2 DEF TypeOK, vars, sourceVars, streamVars, formatVars, faultVars
  <2> QED
    BY <2>1, <2>2
<1> QED
  BY <1>1, <1>2, PTL DEF Spec


\* A section that changes the mode of the stream finds the stream open, or sets
\* it to stopped while it shuts the stream down.
LEMMA ModeOfOpenStreamOnly ==
  ASSUME TypeOK, StreamStaysStopped, NEW c \in Callers,
         StartStep(c) \/ StreamStep(c) \/ StopStep(c) \/ ShutdownStep(c)
  PROVE  StreamStaysStopped'
<1> USE DEF StreamStaysStopped, streamVars
<1>1. CASE StartStep(c)
  BY <1>1 DEF StartStep, StartBegins, SetType, Checkpoint, Run,
     AnnounceSource, AnnounceStream, Restore, CommitStart
<1>2. CASE StreamStep(c)
  BY <1>2 DEF StreamStep, SetStateBegins, CheckOpen, Allocate, SetMode,
     RequestBegins, ReadType, Sample, Recheck, Deliver
<1>3. CASE StopStep(c)
  BY <1>3 DEF StopStep, StopBegins, StopStream, StreamStopped, CommitStop
<1>4. CASE ShutdownStep(c)
  <2>1. CASE ShutdownBegins(c)
    BY <2>1 DEF ShutdownBegins
  <2>2. CASE RefusedAfterShutdown(c)
    BY <2>2 DEF RefusedAfterShutdown, vars
  <2>3. CASE CloseStream(c)
    BY <2>3 DEF CloseStream, TypeOK
  <2>4. CASE StopReader(c)
    BY <2>4 DEF StopReader
  <2>5. CASE Release(c)
    BY <2>5 DEF Release
  <2>6. CASE CloseStreamQueue(c)
    BY <2>6 DEF CloseStreamQueue
  <2>7. CASE CloseSourceQueue(c)
    BY <2>7 DEF CloseSourceQueue
  <2> QED
    BY <1>4, <2>1, <2>2, <2>3, <2>4, <2>5, <2>6, <2>7 DEF ShutdownStep
<1> QED
  BY <1>1, <1>2, <1>3, <1>4

\* Neither a failing Start nor a SetStreamState that overlaps the shutdown gives
\* a stream that was shut down another mode, with any number of threads.
THEOREM StreamShutdownIsFinal == Spec => []StreamStaysStopped
<1>1. Init => StreamStaysStopped
  BY DEF Init, StreamStaysStopped
<1>2. TypeOK /\ StreamStaysStopped /\ [Next]_vars => StreamStaysStopped'
  <2> SUFFICES ASSUME TypeOK, StreamStaysStopped, [Next]_vars
               PROVE  StreamStaysStopped'
    OBVIOUS
  <2>1. CASE Next
    BY <2>1, ModeOfOpenStreamOnly DEF Next
  <2>2. CASE UNCHANGED vars
    BY <2>2 DEF StreamStaysStopped, vars, streamVars
  <2> QED
    BY <2>1, <2>2
<1> QED
  BY <1>1, <1>2, TypeCorrect, PTL DEF Spec

----------------------------------------------------------------------------
(***************************************************************************)
(* Calls one after the other (MCSourceLifecycle).  What a call may rely on *)
(* is known from its section alone, as long as no other call is under way. *)
(* Fits(k) says it of the call k that is under way, or of NoCall when none *)
(* is: which operation it is of, what of a shutdown is done, which mode a  *)
(* Start that fails goes back to, whether the stream was introduced, and   *)
(* which allocator there is.                                               *)
(***************************************************************************)

Starting == {"set type", "checkpoint", "run", "announce source", "announce stream",
             "restore", "commit start"}
Allocating == {"check open", "allocate"}
Requesting == {"read type", "sample", "recheck", "deliver", "set mode"}
Stopping == {"stop stream", "stream stopped", "commit stop"}
Closing == {"stop reader", "release", "close stream queue", "close source queue"}

\* The operation of a call and the locals it works with.
Operated(k) ==
  /\ k.section = "idle" => k.op = "none"
  /\ k.section \in Starting => k.op = "Start"
  /\ k.op = "Start" => k.section \in Starting \cup Allocating /\ k.announced = announced
  /\ k.section \in Allocating => k.op \in {"Start", "SetStreamState"} /\ k.type = current
  /\ k.section = "read type" => k.op \in {"SetStreamState", "RequestSample"}

\* Source and stream agree on the shutdown, but for the section between them; a call
\* that works with the stream has it open, and a shutdown releases one thing after
\* the other.
Shut(k) ==
  /\ IF k.section = "close stream" THEN life = "Shutdown" /\ streamLife = "open"
     ELSE life = "Shutdown" <=> streamLife = "shutdown"
  /\ k.section \in Starting \cup Allocating \cup Requesting \cup Stopping
       => streamLife = "open"
  /\ k.section \in Closing => streamLife = "shutdown"
  /\ streamLife = "open" => sourceQueue = "open" /\ streamQueue = "open"
  /\ streamLife = "shutdown" =>
       /\ k.section # "stop reader" => reader = "stopped"
       /\ k.section \notin {"stop reader", "release"} => allocator = None
       /\ k.section \notin {"stop reader", "release", "close stream queue"}
            => streamQueue = "closed"
       /\ k.section \notin Closing => sourceQueue = "closed"

\* A Start has not changed the mode yet, or remembers the one it found.
Restorable(k) ==
  /\ k.op = "Start" /\ k.section \in {"set type", "checkpoint", "run"} \cup Allocating
       => mode = atRest
  /\ k.section \in {"run", "announce source", "announce stream", "restore"}
       => k.saved = atRest

\* The stream is introduced once, and then the source remembers it.
Introduced(k) == queueFaults = 0 =>
  /\ introductions <= 1
  /\ announced = "no" /\ k.section \notin {"announce stream", "commit start"}
       => introductions = 0

\* A running stream has the allocator of its type, but for a Start that is replacing
\* it; so has a call that is about to make the stream run.
Stocked(k) == allocatorFaults = 0 =>
  /\ mode = "Running" /\ ~(k.op = "Start" /\ k.section \in Allocating)
       => allocator = current
  /\ k.section \in Starting \ {"set type"} => allocator = current
  /\ k.section = "set mode" /\ k.mode = "Running" => allocator = current
  /\ k.section = "read type" /\ k.op = "RequestSample" => mode = "Running"
  /\ k.section = "sample" => allocator = k.type

Fits(k) == Operated(k) /\ Shut(k) /\ Restorable(k) /\ Introduced(k) /\ Stocked(k)

SerialInv ==
  /\ TypeOK
  /\ StreamStaysStopped
  /\ \A c \in Callers : call[c].section = "idle" => call[c] = NoCall
  /\ AtRest => atRest = mode
  /\ overlapped = "no" =>
       /\ \A c, d \in Callers :
             c # d => call[c].section = "idle" \/ call[d].section = "idle"
       /\ \A c \in Callers : call[c].section # "idle" => Fits(call[c])
       /\ AtRest => Fits(NoCall)

\* The fields of a call after each kind of step of its caller.
LEMMA CallAfter ==
  ASSUME TypeOK, NEW c \in Callers
  PROVE  /\ \A section \in Sections : Goto(c, section) =>
              /\ call'[c].section = section
              /\ call'[c].op = call[c].op /\ call'[c].type = call[c].type
              /\ call'[c].mode = call[c].mode /\ call'[c].saved = call[c].saved
              /\ call'[c].announced = call[c].announced
         /\ Return(c) => call'[c] = NoCall
         /\ \A locals : Enter(c, locals) => call'[c] = locals
<1>1. call \in [Callers -> Call] /\ call[c] \in Call
  BY DEF TypeOK
<1>2. ASSUME NEW section \in Sections, Goto(c, section)
      PROVE  /\ call'[c].section = section
             /\ call'[c].op = call[c].op /\ call'[c].type = call[c].type
             /\ call'[c].mode = call[c].mode /\ call'[c].saved = call[c].saved
             /\ call'[c].announced = call[c].announced
  <2>1. call'[c] = [call[c] EXCEPT !.section = section]
    BY <1>1, <1>2 DEF Goto
  <2> QED
    BY <1>1, <2>1 DEF Call
<1>3. Return(c) => call'[c] = NoCall
  BY <1>1 DEF Return
<1>4. \A locals : Enter(c, locals) => call'[c] = locals
  BY <1>1 DEF Enter
<1> QED
  BY <1>2, <1>3, <1>4

\* The calls that begin.
LEMMA CallBegun ==
  ASSUME TypeOK, NEW c \in Callers
  PROVE  /\ NoCall.section = "idle" /\ NoCall.op = "none"
         /\ \A t \in Types, position \in Positions : StartBegins(c, t, position) =>
              /\ call'[c].section = "set type" /\ call'[c].op = "Start"
              /\ call'[c].announced = announced
         /\ \A m \in Modes : SetStateBegins(c, m) =>
              /\ call'[c].section = (IF m = "Running" THEN "read type" ELSE "set mode")
              /\ call'[c].op = "SetStreamState" /\ call'[c].mode = m
         /\ RequestBegins(c) =>
              call'[c].section = "read type" /\ call'[c].op = "RequestSample"
         /\ StopBegins(c) => call'[c].section = "stop stream" /\ call'[c].op = "Stop"
         /\ ShutdownBegins(c) =>
              call'[c].section = "close stream" /\ call'[c].op = "Shutdown"
<1>1. \A locals : Enter(c, locals) => call'[c] = locals
  BY CallAfter
<1>2. ASSUME NEW t \in Types, NEW position \in Positions, StartBegins(c, t, position)
      PROVE  /\ call'[c].section = "set type" /\ call'[c].op = "Start"
             /\ call'[c].announced = announced
  <2>1. call'[c] = [NoCall EXCEPT !.section = "set type", !.op = "Start", !.type = t,
                                  !.announced = announced]
    BY <1>1, <1>2 DEF StartBegins
  <2> QED
    BY <2>1 DEF NoCall
<1>3. ASSUME NEW m \in Modes, SetStateBegins(c, m)
      PROVE  /\ call'[c].section = (IF m = "Running" THEN "read type" ELSE "set mode")
             /\ call'[c].op = "SetStreamState" /\ call'[c].mode = m
  <2>1. call'[c] = [NoCall EXCEPT !.section = IF m = "Running" THEN "read type"
                                              ELSE "set mode",
                                  !.op = "SetStreamState", !.mode = m]
    BY <1>1, <1>3 DEF SetStateBegins
  <2> QED
    BY <2>1 DEF NoCall
<1>4. ASSUME RequestBegins(c)
      PROVE  call'[c].section = "read type" /\ call'[c].op = "RequestSample"
  <2>1. call'[c] = [NoCall EXCEPT !.section = "read type", !.op = "RequestSample"]
    BY <1>1, <1>4 DEF RequestBegins
  <2> QED
    BY <2>1 DEF NoCall
<1>5. ASSUME StopBegins(c)
      PROVE  call'[c].section = "stop stream" /\ call'[c].op = "Stop"
  <2>1. call'[c] = [NoCall EXCEPT !.section = "stop stream", !.op = "Stop"]
    BY <1>1, <1>5 DEF StopBegins
  <2> QED
    BY <2>1 DEF NoCall
<1>6. ASSUME ShutdownBegins(c)
      PROVE  call'[c].section = "close stream" /\ call'[c].op = "Shutdown"
  <2>1. call'[c] = [NoCall EXCEPT !.section = "close stream", !.op = "Shutdown"]
    BY <1>1, <1>6 DEF ShutdownBegins
  <2> QED
    BY <2>1 DEF NoCall
<1>7. NoCall.section = "idle" /\ NoCall.op = "none"
  BY DEF NoCall
<1> QED
  BY <1>2, <1>3, <1>4, <1>5, <1>6, <1>7

\* Caller c makes a step of Start, alone, from a state that fits its call: the
\* next state fits its next call.
LEMMA SerialStart ==
  ASSUME TypeOK, StreamStaysStopped, NEW c \in Callers, Fits(call[c]),
         call[c].section = "idle" => call[c] = NoCall /\ atRest = mode,
         StartStep(c), ~(UNCHANGED vars),
         call'[c].section # "idle" => atRest' = atRest
  PROVE  Fits(call[c])'
<1> DEFINE Returns == call'[c].section = "idle" /\ call'[c].op = "none"
           GoesTo(section, type, saved) ==
             /\ call'[c].section = section
             /\ call'[c].op = call[c].op /\ call'[c].type = type
             /\ call'[c].mode = call[c].mode /\ call'[c].saved = saved
             /\ call'[c].announced = call[c].announced
           NowIntroduced == IF call[c].announced = "no" THEN UpTo2(introductions)
                            ELSE introductions
           Begins(section, op) ==
             /\ call[c].section = "idle" /\ call[c].op = "none" /\ atRest = mode
             /\ call'[c].section = section /\ call'[c].op = op
<1>a. /\ TypeOK /\ call[c] \in Call /\ call \in [Callers -> Call]
      /\ streamLife \in {"open", "shutdown"} /\ introductions \in 0..2
      /\ queueFaults \in Nat /\ allocatorFaults \in Nat
  BY FaultsAssumption DEF TypeOK
<1>b. /\ Operated(call[c]) /\ Shut(call[c]) /\ Restorable(call[c])
      /\ Introduced(call[c]) /\ Stocked(call[c]) /\ StreamStaysStopped
      /\ call'[c].section # "idle" => atRest' = atRest
  BY DEF Fits
<1>c. /\ \A section \in Sections :
           Goto(c, section) => GoesTo(section, call[c].type, call[c].saved)
      /\ Return(c) => Returns
      /\ \A locals : Enter(c, locals) =>
           /\ call'[c] = locals /\ atRest = mode
           /\ call[c].section = "idle" /\ call[c].op = "none"
  BY CallAfter, CallBegun DEF Enter
<1>d. /\ \A queue : Queued(queue) => queueFaults' = queueFaults
      /\ \A queue : Refused(queue) /\ queue = "open" => queueFaults' # 0
      /\ allocatorFaults + 1 # 0
  BY <1>a DEF Queued, Refused
<1> USE DEF sourceVars, streamVars, formatVars, faultVars
<1>1. ASSUME NEW t \in Types, NEW position \in Positions, StartBegins(c, t, position)
      PROVE  Fits(call[c])'
  <2>1. Begins("set type", "Start") /\ call'[c].announced = announced
    BY <1>a, <1>c, <1>1, CallBegun DEF StartBegins
  <2>2. Operated(call[c])'
    BY <1>a, <1>b, <1>1, <2>1 DEF StartBegins, Operated, Starting, Allocating,
       Requesting, Stopping, Closing
  <2>3. Shut(call[c])'
    BY <1>a, <1>b, <1>1, <2>1 DEF StartBegins, Shut, Operated, Starting, Allocating,
       Requesting, Stopping, Closing
  <2>4. Restorable(call[c])'
    BY <1>a, <1>b, <1>1, <2>1 DEF StartBegins, Restorable, Operated, Shut, Starting,
       Allocating, Requesting, Stopping, Closing
  <2>5. Introduced(call[c])'
    BY <1>a, <1>b, <1>1, <2>1 DEF StartBegins, Introduced, Operated, Starting,
       Allocating, Requesting, Stopping, Closing
  <2>6. Stocked(call[c])'
    BY <1>a, <1>b, <1>1, <2>1 DEF StartBegins, Stocked, Operated, Shut,
       StreamStaysStopped, Starting, Allocating, Requesting, Stopping, Closing
  <2> QED
    BY <2>2, <2>3, <2>4, <2>5, <2>6 DEF Fits
<1>2. CASE SetType(c)
  <2>1. GoesTo("check open", call[c].type, call[c].saved)
    BY <1>a, <1>c, <1>2 DEF SetType, Sections
  <2>2. Operated(call[c])'
    BY <1>a, <1>b, <1>2, <2>1 DEF SetType, Operated, Starting, Allocating, Requesting,
       Stopping, Closing
  <2>3. Shut(call[c])'
    BY <1>a, <1>b, <1>2, <2>1 DEF SetType, Shut, Operated, Starting, Allocating,
       Requesting, Stopping, Closing
  <2>4. Restorable(call[c])'
    BY <1>a, <1>b, <1>2, <2>1 DEF SetType, Restorable, Operated, Shut, Starting,
       Allocating, Requesting, Stopping, Closing
  <2>5. Introduced(call[c])'
    BY <1>a, <1>b, <1>2, <2>1 DEF SetType, Introduced, Operated, Starting, Allocating,
       Requesting, Stopping, Closing
  <2>6. Stocked(call[c])'
    BY <1>a, <1>b, <1>2, <2>1 DEF SetType, Stocked, Operated, Shut, StreamStaysStopped,
       Starting, Allocating, Requesting, Stopping, Closing
  <2> QED
    BY <2>2, <2>3, <2>4, <2>5, <2>6 DEF Fits
<1>3. CASE Checkpoint(c)
  <2>1. \/ streamLife = "shutdown" /\ Returns
        \/ streamLife = "open" /\ GoesTo("run", call[c].type, mode)
    <3>1. CASE streamLife = "shutdown" /\ Return(c)
      BY <1>c, <3>1
    <3>2. CASE streamLife = "open" /\ call' = [call EXCEPT ![c].saved = mode, ![c].section = "run"]
      <4>1. call'[c] = [call[c] EXCEPT !.saved = mode, !.section = "run"]
        BY <1>a, <3>2
      <4> QED
        BY <1>a, <3>2, <4>1 DEF Call
    <3> QED
      BY <1>3, <3>1, <3>2 DEF Checkpoint
  <2>2. Operated(call[c])'
    BY <1>a, <1>b, <1>3, <2>1 DEF Checkpoint, Operated, Starting, Allocating,
       Requesting, Stopping, Closing
  <2>3. Shut(call[c])'
    BY <1>a, <1>b, <1>3, <2>1 DEF Checkpoint, Shut, Operated, Starting, Allocating,
       Requesting, Stopping, Closing
  <2>4. Restorable(call[c])'
    BY <1>a, <1>b, <1>3, <2>1 DEF Checkpoint, Restorable, Operated, Shut, Starting,
       Allocating, Requesting, Stopping, Closing
  <2>5. Introduced(call[c])'
    BY <1>a, <1>b, <1>3, <2>1 DEF Checkpoint, Introduced, Operated, Starting,
       Allocating, Requesting, Stopping, Closing
  <2>6. Stocked(call[c])'
    BY <1>a, <1>b, <1>3, <2>1 DEF Checkpoint, Stocked, Operated, Shut,
       StreamStaysStopped, Starting, Allocating, Requesting, Stopping, Closing
  <2> QED
    BY <2>2, <2>3, <2>4, <2>5, <2>6 DEF Fits
<1>4. CASE Run(c)
  <2>1. \/ streamLife = "shutdown" /\ Returns
        \/ streamLife = "open" /\ GoesTo("announce source", call[c].type, call[c].saved)
    BY <1>a, <1>c, <1>4 DEF Run, Sections
  <2>2. Operated(call[c])'
    BY <1>a, <1>b, <1>4, <2>1 DEF Run, Operated, Starting, Allocating, Requesting,
       Stopping, Closing
  <2>3. Shut(call[c])'
    BY <1>a, <1>b, <1>4, <2>1 DEF Run, Shut, Operated, Starting, Allocating, Requesting,
       Stopping, Closing
  <2>4. Restorable(call[c])'
    BY <1>a, <1>b, <1>4, <2>1 DEF Run, Restorable, Operated, Shut, Starting, Allocating,
       Requesting, Stopping, Closing
  <2>5. Introduced(call[c])'
    BY <1>a, <1>b, <1>4, <2>1 DEF Run, Introduced, Operated, Starting, Allocating,
       Requesting, Stopping, Closing
  <2>6. Stocked(call[c])'
    BY <1>a, <1>b, <1>4, <2>1 DEF Run, Stocked, Operated, Shut, StreamStaysStopped,
       Starting, Allocating, Requesting, Stopping, Closing
  <2> QED
    BY <2>2, <2>3, <2>4, <2>5, <2>6 DEF Fits
<1>5. CASE AnnounceSource(c)
  <2>1. \/ Queued(sourceQueue) /\ introductions' = NowIntroduced
             /\ GoesTo("announce stream", call[c].type, call[c].saved)
        \/ Refused(sourceQueue) /\ introductions' = introductions /\ GoesTo("restore", call[c].type, call[c].saved)
    BY <1>a, <1>c, <1>5 DEF AnnounceSource, Sections
  <2>2. Operated(call[c])'
    BY <1>a, <1>b, <1>5, <2>1 DEF AnnounceSource, Queued, Refused, UpTo2, Operated,
       Starting, Allocating, Requesting, Stopping, Closing
  <2>3. Shut(call[c])'
    BY <1>a, <1>b, <1>5, <2>1 DEF AnnounceSource, Queued, Refused, UpTo2, Shut,
       Operated, Starting, Allocating, Requesting, Stopping, Closing
  <2>4. Restorable(call[c])'
    BY <1>a, <1>b, <1>5, <2>1 DEF AnnounceSource, Queued, Refused, UpTo2, Restorable,
       Operated, Shut, Starting, Allocating, Requesting, Stopping, Closing
  <2>5. Introduced(call[c])'
    <3>1. call[c].section = "announce source" /\ announced' = announced
      BY <1>5 DEF AnnounceSource
    <3>2. call[c].announced = announced /\ sourceQueue = "open"
      BY <1>a, <1>b, <3>1 DEF Operated, Shut, Starting
    <3>3. ASSUME queueFaults = 0
          PROVE  introductions <= 1 /\ (announced = "no" => introductions = 0)
      BY <1>b, <3>1, <3>3 DEF Introduced
    <3>4. CASE Queued(sourceQueue) /\ introductions' = NowIntroduced
      <4>1. queueFaults = 0 => introductions' <= 1
        BY <1>a, <3>2, <3>3, <3>4 DEF UpTo2
      <4> QED
        BY <1>d, <2>1, <3>1, <3>2, <3>4, <4>1 DEF Introduced, Refused
    <3>5. CASE Refused(sourceQueue)
      BY <1>d, <3>2, <3>5 DEF Introduced
    <3> QED
      BY <2>1, <3>4, <3>5
  <2>6. Stocked(call[c])'
    BY <1>a, <1>b, <1>5, <2>1 DEF AnnounceSource, Queued, Refused, UpTo2, Stocked,
       Operated, Shut, StreamStaysStopped, Starting, Allocating, Requesting, Stopping,
       Closing
  <2> QED
    BY <2>2, <2>3, <2>4, <2>5, <2>6 DEF Fits
<1>6. CASE AnnounceStream(c)
  <2>1. \/ Queued(streamQueue) /\ GoesTo("commit start", call[c].type, call[c].saved)
        \/ Refused(streamQueue) /\ GoesTo("restore", call[c].type, call[c].saved)
    BY <1>a, <1>c, <1>6 DEF AnnounceStream, Sections
  <2>2. Operated(call[c])'
    BY <1>a, <1>b, <1>6, <2>1 DEF AnnounceStream, Queued, Refused, Operated, Starting,
       Allocating, Requesting, Stopping, Closing
  <2>3. Shut(call[c])'
    BY <1>a, <1>b, <1>6, <2>1 DEF AnnounceStream, Queued, Refused, Shut, Operated,
       Starting, Allocating, Requesting, Stopping, Closing
  <2>4. Restorable(call[c])'
    BY <1>a, <1>b, <1>6, <2>1 DEF AnnounceStream, Queued, Refused, Restorable, Operated,
       Shut, Starting, Allocating, Requesting, Stopping, Closing
  <2>5. Introduced(call[c])'
    BY <1>a, <1>b, <1>d, <1>6, <2>1 DEF AnnounceStream, Introduced, Operated, Shut,
       Starting, Allocating, Requesting, Stopping, Closing
  <2>6. Stocked(call[c])'
    BY <1>a, <1>b, <1>6, <2>1 DEF AnnounceStream, Queued, Refused, Stocked, Operated,
       Shut, StreamStaysStopped, Starting, Allocating, Requesting, Stopping, Closing
  <2> QED
    BY <2>2, <2>3, <2>4, <2>5, <2>6 DEF Fits
<1>7. CASE Restore(c)
  <2>1. Returns
    BY <1>a, <1>c, <1>7 DEF Restore, Sections
  <2>2. Operated(call[c])'
    BY <1>a, <1>b, <1>7, <2>1 DEF Restore, Operated, Starting, Allocating, Requesting,
       Stopping, Closing
  <2>3. Shut(call[c])'
    BY <1>a, <1>b, <1>7, <2>1 DEF Restore, Shut, Operated, Starting, Allocating,
       Requesting, Stopping, Closing
  <2>4. Restorable(call[c])'
    BY <1>a, <1>b, <1>7, <2>1 DEF Restore, Restorable, Operated, Shut, Starting,
       Allocating, Requesting, Stopping, Closing
  <2>5. Introduced(call[c])'
    BY <1>a, <1>b, <1>7, <2>1 DEF Restore, Introduced, Operated, Starting, Allocating,
       Requesting, Stopping, Closing
  <2>6. Stocked(call[c])'
    BY <1>a, <1>b, <1>7, <2>1 DEF Restore, Stocked, Operated, Shut, StreamStaysStopped,
       Starting, Allocating, Requesting, Stopping, Closing
  <2> QED
    BY <2>2, <2>3, <2>4, <2>5, <2>6 DEF Fits
<1>8. CASE CommitStart(c)
  <2>1. Returns
    BY <1>a, <1>c, <1>8 DEF CommitStart, Sections
  <2>2. Operated(call[c])'
    BY <1>a, <1>b, <1>8, <2>1 DEF CommitStart, Operated, Starting, Allocating,
       Requesting, Stopping, Closing
  <2>3. Shut(call[c])'
    BY <1>a, <1>b, <1>8, <2>1 DEF CommitStart, Shut, Operated, Starting, Allocating,
       Requesting, Stopping, Closing
  <2>4. Restorable(call[c])'
    BY <1>a, <1>b, <1>8, <2>1 DEF CommitStart, Restorable, Operated, Shut, Starting,
       Allocating, Requesting, Stopping, Closing
  <2>5. Introduced(call[c])'
    BY <1>a, <1>b, <1>8, <2>1 DEF CommitStart, Introduced, Operated, Starting,
       Allocating, Requesting, Stopping, Closing
  <2>6. Stocked(call[c])'
    BY <1>a, <1>b, <1>8, <2>1 DEF CommitStart, Stocked, Operated, Shut,
       StreamStaysStopped, Starting, Allocating, Requesting, Stopping, Closing
  <2> QED
    BY <2>2, <2>3, <2>4, <2>5, <2>6 DEF Fits
<1> QED
  BY <1>1, <1>2, <1>3, <1>4, <1>5, <1>6, <1>7, <1>8 DEF StartStep

\* The same for the stream: the allocator, SetStreamState and RequestSample.
LEMMA SerialStream ==
  ASSUME TypeOK, StreamStaysStopped, NEW c \in Callers, Fits(call[c]),
         call[c].section = "idle" => call[c] = NoCall /\ atRest = mode,
         StreamStep(c), ~(UNCHANGED vars),
         call'[c].section # "idle" => atRest' = atRest
  PROVE  Fits(call[c])'
<1> DEFINE Returns == call'[c].section = "idle" /\ call'[c].op = "none"
           GoesTo(section, type, saved) ==
             /\ call'[c].section = section
             /\ call'[c].op = call[c].op /\ call'[c].type = type
             /\ call'[c].mode = call[c].mode /\ call'[c].saved = saved
             /\ call'[c].announced = call[c].announced
           NowIntroduced == IF call[c].announced = "no" THEN UpTo2(introductions)
                            ELSE introductions
           Begins(section, op) ==
             /\ call[c].section = "idle" /\ call[c].op = "none" /\ atRest = mode
             /\ call'[c].section = section /\ call'[c].op = op
<1>a. /\ TypeOK /\ call[c] \in Call /\ call \in [Callers -> Call]
      /\ streamLife \in {"open", "shutdown"} /\ introductions \in 0..2
      /\ queueFaults \in Nat /\ allocatorFaults \in Nat
  BY FaultsAssumption DEF TypeOK
<1>b. /\ Operated(call[c]) /\ Shut(call[c]) /\ Restorable(call[c])
      /\ Introduced(call[c]) /\ Stocked(call[c]) /\ StreamStaysStopped
      /\ call'[c].section # "idle" => atRest' = atRest
  BY DEF Fits
<1>c. /\ \A section \in Sections :
           Goto(c, section) => GoesTo(section, call[c].type, call[c].saved)
      /\ Return(c) => Returns
      /\ \A locals : Enter(c, locals) =>
           /\ call'[c] = locals /\ atRest = mode
           /\ call[c].section = "idle" /\ call[c].op = "none"
  BY CallAfter, CallBegun DEF Enter
<1>d. /\ \A queue : Queued(queue) => queueFaults' = queueFaults
      /\ \A queue : Refused(queue) /\ queue = "open" => queueFaults' # 0
      /\ allocatorFaults + 1 # 0
  BY <1>a DEF Queued, Refused
<1> USE DEF sourceVars, streamVars, formatVars, faultVars
<1>1. ASSUME NEW m \in Modes, SetStateBegins(c, m)
      PROVE  Fits(call[c])'
  <2>1. /\ Begins(IF m = "Running" THEN "read type" ELSE "set mode", "SetStreamState")
        /\ call'[c].mode = m
    BY <1>a, <1>c, <1>1, CallBegun DEF SetStateBegins
  <2>2. Operated(call[c])'
    BY <1>a, <1>b, <1>1, <2>1 DEF SetStateBegins, Operated, Starting, Allocating,
       Requesting, Stopping, Closing
  <2>3. Shut(call[c])'
    BY <1>a, <1>b, <1>1, <2>1 DEF SetStateBegins, Shut, Operated, Starting, Allocating,
       Requesting, Stopping, Closing
  <2>4. Restorable(call[c])'
    BY <1>a, <1>b, <1>1, <2>1 DEF SetStateBegins, Restorable, Operated, Shut, Starting,
       Allocating, Requesting, Stopping, Closing
  <2>5. Introduced(call[c])'
    BY <1>a, <1>b, <1>1, <2>1 DEF SetStateBegins, Introduced, Operated, Starting,
       Allocating, Requesting, Stopping, Closing
  <2>6. Stocked(call[c])'
    BY <1>a, <1>b, <1>1, <2>1 DEF SetStateBegins, Stocked, Operated, Shut,
       StreamStaysStopped, Starting, Allocating, Requesting, Stopping, Closing
  <2> QED
    BY <2>2, <2>3, <2>4, <2>5, <2>6 DEF Fits
<1>2. CASE CheckOpen(c)
  <2>1. IF streamLife = "open"
        THEN GoesTo("allocate", call[c].type, call[c].saved)
        ELSE Returns
    BY <1>a, <1>c, <1>2 DEF CheckOpen, Sections
  <2>2. Operated(call[c])'
    BY <1>a, <1>b, <1>2, <2>1 DEF CheckOpen, Operated, Starting, Allocating, Requesting,
       Stopping, Closing
  <2>3. Shut(call[c])'
    BY <1>a, <1>b, <1>2, <2>1 DEF CheckOpen, Shut, Operated, Starting, Allocating,
       Requesting, Stopping, Closing
  <2>4. Restorable(call[c])'
    BY <1>a, <1>b, <1>2, <2>1 DEF CheckOpen, Restorable, Operated, Shut, Starting,
       Allocating, Requesting, Stopping, Closing
  <2>5. Introduced(call[c])'
    BY <1>a, <1>b, <1>2, <2>1 DEF CheckOpen, Introduced, Operated, Starting, Allocating,
       Requesting, Stopping, Closing
  <2>6. Stocked(call[c])'
    BY <1>a, <1>b, <1>2, <2>1 DEF CheckOpen, Stocked, Operated, Shut,
       StreamStaysStopped, Starting, Allocating, Requesting, Stopping, Closing
  <2> QED
    BY <2>2, <2>3, <2>4, <2>5, <2>6 DEF Fits
<1>3. CASE Allocate(c)
  <2>1. \/ /\ allocator' = call[c].type /\ allocatorFaults' = allocatorFaults
           /\ IF call[c].op = "Start" THEN GoesTo("checkpoint", call[c].type, call[c].saved)
              ELSE GoesTo("set mode", call[c].type, call[c].saved)
        \/ allocatorFaults' = allocatorFaults + 1 /\ allocator' = None /\ Returns
    BY <1>a, <1>c, <1>3 DEF Allocate, Sections
  <2>2. Operated(call[c])'
    BY <1>a, <1>b, <1>3, <2>1 DEF Allocate, Operated, Starting, Allocating, Requesting,
       Stopping, Closing
  <2>3. Shut(call[c])'
    BY <1>a, <1>b, <1>3, <2>1 DEF Allocate, Shut, Operated, Starting, Allocating,
       Requesting, Stopping, Closing
  <2>4. Restorable(call[c])'
    BY <1>a, <1>b, <1>3, <2>1 DEF Allocate, Restorable, Operated, Shut, Starting,
       Allocating, Requesting, Stopping, Closing
  <2>5. Introduced(call[c])'
    BY <1>a, <1>b, <1>3, <2>1 DEF Allocate, Introduced, Operated, Starting, Allocating,
       Requesting, Stopping, Closing
  <2>6. Stocked(call[c])'
    BY <1>a, <1>b, <1>d, <1>3, <2>1 DEF Allocate, Stocked, Operated, Shut,
       StreamStaysStopped, Starting, Allocating, Requesting, Stopping, Closing
  <2> QED
    BY <2>2, <2>3, <2>4, <2>5, <2>6 DEF Fits
<1>4. CASE SetMode(c)
  <2>1. Returns
    BY <1>a, <1>c, <1>4 DEF SetMode, Sections
  <2>2. Operated(call[c])'
    BY <1>a, <1>b, <1>4, <2>1 DEF SetMode, Operated, Starting, Allocating, Requesting,
       Stopping, Closing
  <2>3. Shut(call[c])'
    BY <1>a, <1>b, <1>4, <2>1 DEF SetMode, Shut, Operated, Starting, Allocating,
       Requesting, Stopping, Closing
  <2>4. Restorable(call[c])'
    BY <1>a, <1>b, <1>4, <2>1 DEF SetMode, Restorable, Operated, Shut, Starting,
       Allocating, Requesting, Stopping, Closing
  <2>5. Introduced(call[c])'
    BY <1>a, <1>b, <1>4, <2>1 DEF SetMode, Introduced, Operated, Starting, Allocating,
       Requesting, Stopping, Closing
  <2>6. Stocked(call[c])'
    BY <1>a, <1>b, <1>4, <2>1 DEF SetMode, Stocked, Operated, Shut, StreamStaysStopped,
       Starting, Allocating, Requesting, Stopping, Closing
  <2> QED
    BY <2>2, <2>3, <2>4, <2>5, <2>6 DEF Fits
<1>5. CASE RequestBegins(c)
  <2>1. Begins("read type", "RequestSample")
    BY <1>a, <1>c, <1>5, CallBegun DEF RequestBegins
  <2>2. Operated(call[c])'
    BY <1>a, <1>b, <1>5, <2>1 DEF RequestBegins, Operated, Starting, Allocating,
       Requesting, Stopping, Closing
  <2>3. Shut(call[c])'
    BY <1>a, <1>b, <1>5, <2>1 DEF RequestBegins, Shut, Operated, Starting, Allocating,
       Requesting, Stopping, Closing
  <2>4. Restorable(call[c])'
    BY <1>a, <1>b, <1>5, <2>1 DEF RequestBegins, Restorable, Operated, Shut, Starting,
       Allocating, Requesting, Stopping, Closing
  <2>5. Introduced(call[c])'
    BY <1>a, <1>b, <1>5, <2>1 DEF RequestBegins, Introduced, Operated, Starting,
       Allocating, Requesting, Stopping, Closing
  <2>6. Stocked(call[c])'
    BY <1>a, <1>b, <1>5, <2>1 DEF RequestBegins, Stocked, Operated, Shut,
       StreamStaysStopped, Starting, Allocating, Requesting, Stopping, Closing
  <2> QED
    BY <2>2, <2>3, <2>4, <2>5, <2>6 DEF Fits
<1>6. CASE ReadType(c)
  <2>1. IF call[c].op = "SetStreamState" THEN GoesTo("check open", current, call[c].saved)
        ELSE GoesTo("sample", current, call[c].saved)
    BY <1>a, <1>c, <1>6 DEF ReadType, Call, Sections
  <2>2. Operated(call[c])'
    BY <1>a, <1>b, <1>6, <2>1 DEF ReadType, Operated, Starting, Allocating, Requesting,
       Stopping, Closing
  <2>3. Shut(call[c])'
    BY <1>a, <1>b, <1>6, <2>1 DEF ReadType, Shut, Operated, Starting, Allocating,
       Requesting, Stopping, Closing
  <2>4. Restorable(call[c])'
    BY <1>a, <1>b, <1>6, <2>1 DEF ReadType, Restorable, Operated, Shut, Starting,
       Allocating, Requesting, Stopping, Closing
  <2>5. Introduced(call[c])'
    BY <1>a, <1>b, <1>6, <2>1 DEF ReadType, Introduced, Operated, Starting, Allocating,
       Requesting, Stopping, Closing
  <2>6. Stocked(call[c])'
    BY <1>a, <1>b, <1>6, <2>1 DEF ReadType, Stocked, Operated, Shut, StreamStaysStopped,
       Starting, Allocating, Requesting, Stopping, Closing
  <2> QED
    BY <2>2, <2>3, <2>4, <2>5, <2>6 DEF Fits
<1>7. CASE Sample(c)
  <2>1. IF Servable(c) THEN GoesTo("recheck", call[c].type, call[c].saved) ELSE Returns
    BY <1>a, <1>c, <1>7 DEF Sample, Sections
  <2>2. Operated(call[c])'
    BY <1>a, <1>b, <1>7, <2>1 DEF Sample, Servable, Operated, Starting, Allocating,
       Requesting, Stopping, Closing
  <2>3. Shut(call[c])'
    BY <1>a, <1>b, <1>7, <2>1 DEF Sample, Servable, Shut, Operated, Starting,
       Allocating, Requesting, Stopping, Closing
  <2>4. Restorable(call[c])'
    BY <1>a, <1>b, <1>7, <2>1 DEF Sample, Servable, Restorable, Operated, Shut,
       Starting, Allocating, Requesting, Stopping, Closing
  <2>5. Introduced(call[c])'
    BY <1>a, <1>b, <1>7, <2>1 DEF Sample, Servable, Introduced, Operated, Starting,
       Allocating, Requesting, Stopping, Closing
  <2>6. Stocked(call[c])'
    BY <1>a, <1>b, <1>7, <2>1 DEF Sample, Servable, Stocked, Operated, Shut,
       StreamStaysStopped, Starting, Allocating, Requesting, Stopping, Closing
  <2> QED
    BY <2>2, <2>3, <2>4, <2>5, <2>6 DEF Fits
<1>8. CASE Recheck(c)
  <2>1. IF streamLife = "open" /\ mode = "Running"
        THEN GoesTo("deliver", call[c].type, call[c].saved)
        ELSE Returns
    BY <1>a, <1>c, <1>8 DEF Recheck, Sections
  <2>2. Operated(call[c])'
    BY <1>a, <1>b, <1>8, <2>1 DEF Recheck, Operated, Starting, Allocating, Requesting,
       Stopping, Closing
  <2>3. Shut(call[c])'
    BY <1>a, <1>b, <1>8, <2>1 DEF Recheck, Shut, Operated, Starting, Allocating,
       Requesting, Stopping, Closing
  <2>4. Restorable(call[c])'
    BY <1>a, <1>b, <1>8, <2>1 DEF Recheck, Restorable, Operated, Shut, Starting,
       Allocating, Requesting, Stopping, Closing
  <2>5. Introduced(call[c])'
    BY <1>a, <1>b, <1>8, <2>1 DEF Recheck, Introduced, Operated, Starting, Allocating,
       Requesting, Stopping, Closing
  <2>6. Stocked(call[c])'
    BY <1>a, <1>b, <1>8, <2>1 DEF Recheck, Stocked, Operated, Shut, StreamStaysStopped,
       Starting, Allocating, Requesting, Stopping, Closing
  <2> QED
    BY <2>2, <2>3, <2>4, <2>5, <2>6 DEF Fits
<1>9. CASE Deliver(c)
  <2>1. Returns
    BY <1>a, <1>c, <1>9 DEF Deliver, Sections
  <2>2. Operated(call[c])'
    BY <1>a, <1>b, <1>9, <2>1 DEF Deliver, Operated, Starting, Allocating, Requesting,
       Stopping, Closing
  <2>3. Shut(call[c])'
    BY <1>a, <1>b, <1>9, <2>1 DEF Deliver, Shut, Operated, Starting, Allocating,
       Requesting, Stopping, Closing
  <2>4. Restorable(call[c])'
    BY <1>a, <1>b, <1>9, <2>1 DEF Deliver, Restorable, Operated, Shut, Starting,
       Allocating, Requesting, Stopping, Closing
  <2>5. Introduced(call[c])'
    BY <1>a, <1>b, <1>9, <2>1 DEF Deliver, Introduced, Operated, Starting, Allocating,
       Requesting, Stopping, Closing
  <2>6. Stocked(call[c])'
    BY <1>a, <1>b, <1>9, <2>1 DEF Deliver, Stocked, Operated, Shut, StreamStaysStopped,
       Starting, Allocating, Requesting, Stopping, Closing
  <2> QED
    BY <2>2, <2>3, <2>4, <2>5, <2>6 DEF Fits
<1> QED
  BY <1>1, <1>2, <1>3, <1>4, <1>5, <1>6, <1>7, <1>8, <1>9 DEF StreamStep

\* The same for Stop.
LEMMA SerialStop ==
  ASSUME TypeOK, StreamStaysStopped, NEW c \in Callers, Fits(call[c]),
         call[c].section = "idle" => call[c] = NoCall /\ atRest = mode,
         StopStep(c), ~(UNCHANGED vars),
         call'[c].section # "idle" => atRest' = atRest
  PROVE  Fits(call[c])'
<1> DEFINE Returns == call'[c].section = "idle" /\ call'[c].op = "none"
           GoesTo(section, type, saved) ==
             /\ call'[c].section = section
             /\ call'[c].op = call[c].op /\ call'[c].type = type
             /\ call'[c].mode = call[c].mode /\ call'[c].saved = saved
             /\ call'[c].announced = call[c].announced
           NowIntroduced == IF call[c].announced = "no" THEN UpTo2(introductions)
                            ELSE introductions
           Begins(section, op) ==
             /\ call[c].section = "idle" /\ call[c].op = "none" /\ atRest = mode
             /\ call'[c].section = section /\ call'[c].op = op
<1>a. /\ TypeOK /\ call[c] \in Call /\ call \in [Callers -> Call]
      /\ streamLife \in {"open", "shutdown"} /\ introductions \in 0..2
      /\ queueFaults \in Nat /\ allocatorFaults \in Nat
  BY FaultsAssumption DEF TypeOK
<1>b. /\ Operated(call[c]) /\ Shut(call[c]) /\ Restorable(call[c])
      /\ Introduced(call[c]) /\ Stocked(call[c]) /\ StreamStaysStopped
      /\ call'[c].section # "idle" => atRest' = atRest
  BY DEF Fits
<1>c. /\ \A section \in Sections :
           Goto(c, section) => GoesTo(section, call[c].type, call[c].saved)
      /\ Return(c) => Returns
      /\ \A locals : Enter(c, locals) =>
           /\ call'[c] = locals /\ atRest = mode
           /\ call[c].section = "idle" /\ call[c].op = "none"
  BY CallAfter, CallBegun DEF Enter
<1>d. /\ \A queue : Queued(queue) => queueFaults' = queueFaults
      /\ \A queue : Refused(queue) /\ queue = "open" => queueFaults' # 0
      /\ allocatorFaults + 1 # 0
  BY <1>a DEF Queued, Refused
<1> USE DEF sourceVars, streamVars, formatVars, faultVars
<1>1. CASE StopBegins(c)
  <2>1. Begins("stop stream", "Stop")
    BY <1>a, <1>c, <1>1, CallBegun DEF StopBegins
  <2>2. Operated(call[c])'
    BY <1>a, <1>b, <1>1, <2>1 DEF StopBegins, Operated, Starting, Allocating,
       Requesting, Stopping, Closing
  <2>3. Shut(call[c])'
    BY <1>a, <1>b, <1>1, <2>1 DEF StopBegins, Shut, Operated, Starting, Allocating,
       Requesting, Stopping, Closing
  <2>4. Restorable(call[c])'
    BY <1>a, <1>b, <1>1, <2>1 DEF StopBegins, Restorable, Operated, Shut, Starting,
       Allocating, Requesting, Stopping, Closing
  <2>5. Introduced(call[c])'
    BY <1>a, <1>b, <1>1, <2>1 DEF StopBegins, Introduced, Operated, Starting,
       Allocating, Requesting, Stopping, Closing
  <2>6. Stocked(call[c])'
    BY <1>a, <1>b, <1>1, <2>1 DEF StopBegins, Stocked, Operated, Shut,
       StreamStaysStopped, Starting, Allocating, Requesting, Stopping, Closing
  <2> QED
    BY <2>2, <2>3, <2>4, <2>5, <2>6 DEF Fits
<1>2. CASE StopStream(c)
  <2>1. \/ streamLife = "shutdown" /\ Returns
        \/ streamLife = "open" /\ GoesTo("stream stopped", call[c].type, call[c].saved)
    BY <1>a, <1>c, <1>2 DEF StopStream, Sections
  <2>2. Operated(call[c])'
    BY <1>a, <1>b, <1>2, <2>1 DEF StopStream, Operated, Starting, Allocating,
       Requesting, Stopping, Closing
  <2>3. Shut(call[c])'
    BY <1>a, <1>b, <1>2, <2>1 DEF StopStream, Shut, Operated, Starting, Allocating,
       Requesting, Stopping, Closing
  <2>4. Restorable(call[c])'
    BY <1>a, <1>b, <1>2, <2>1 DEF StopStream, Restorable, Operated, Shut, Starting,
       Allocating, Requesting, Stopping, Closing
  <2>5. Introduced(call[c])'
    BY <1>a, <1>b, <1>2, <2>1 DEF StopStream, Introduced, Operated, Starting,
       Allocating, Requesting, Stopping, Closing
  <2>6. Stocked(call[c])'
    BY <1>a, <1>b, <1>2, <2>1 DEF StopStream, Stocked, Operated, Shut,
       StreamStaysStopped, Starting, Allocating, Requesting, Stopping, Closing
  <2> QED
    BY <2>2, <2>3, <2>4, <2>5, <2>6 DEF Fits
<1>3. CASE StreamStopped(c)
  <2>1. \/ Queued(streamQueue) /\ GoesTo("commit stop", call[c].type, call[c].saved)
        \/ Refused(streamQueue) /\ Returns
    BY <1>a, <1>c, <1>3 DEF StreamStopped, Sections
  <2>2. Operated(call[c])'
    BY <1>a, <1>b, <1>3, <2>1 DEF StreamStopped, Queued, Refused, Operated, Starting,
       Allocating, Requesting, Stopping, Closing
  <2>3. Shut(call[c])'
    BY <1>a, <1>b, <1>3, <2>1 DEF StreamStopped, Queued, Refused, Shut, Operated,
       Starting, Allocating, Requesting, Stopping, Closing
  <2>4. Restorable(call[c])'
    BY <1>a, <1>b, <1>3, <2>1 DEF StreamStopped, Queued, Refused, Restorable, Operated,
       Shut, Starting, Allocating, Requesting, Stopping, Closing
  <2>5. Introduced(call[c])'
    BY <1>a, <1>b, <1>d, <1>3, <2>1 DEF StreamStopped, Introduced, Operated, Shut,
       Starting, Allocating, Requesting, Stopping, Closing
  <2>6. Stocked(call[c])'
    BY <1>a, <1>b, <1>3, <2>1 DEF StreamStopped, Queued, Refused, Stocked, Operated,
       Shut, StreamStaysStopped, Starting, Allocating, Requesting, Stopping, Closing
  <2> QED
    BY <2>2, <2>3, <2>4, <2>5, <2>6 DEF Fits
<1>4. CASE CommitStop(c)
  <2>1. Returns
    BY <1>a, <1>c, <1>4 DEF CommitStop, Sections
  <2>2. Operated(call[c])'
    BY <1>a, <1>b, <1>4, <2>1 DEF CommitStop, Operated, Starting, Allocating,
       Requesting, Stopping, Closing
  <2>3. Shut(call[c])'
    BY <1>a, <1>b, <1>4, <2>1 DEF CommitStop, Shut, Operated, Starting, Allocating,
       Requesting, Stopping, Closing
  <2>4. Restorable(call[c])'
    BY <1>a, <1>b, <1>4, <2>1 DEF CommitStop, Restorable, Operated, Shut, Starting,
       Allocating, Requesting, Stopping, Closing
  <2>5. Introduced(call[c])'
    BY <1>a, <1>b, <1>4, <2>1 DEF CommitStop, Introduced, Operated, Starting,
       Allocating, Requesting, Stopping, Closing
  <2>6. Stocked(call[c])'
    BY <1>a, <1>b, <1>4, <2>1 DEF CommitStop, Stocked, Operated, Shut,
       StreamStaysStopped, Starting, Allocating, Requesting, Stopping, Closing
  <2> QED
    BY <2>2, <2>3, <2>4, <2>5, <2>6 DEF Fits
<1> QED
  BY <1>1, <1>2, <1>3, <1>4 DEF StopStep

\* The same for Shutdown, which finds the source open or returns at once.
LEMMA SerialShutdown ==
  ASSUME TypeOK, StreamStaysStopped, NEW c \in Callers, Fits(call[c]),
         call[c].section = "idle" => call[c] = NoCall /\ atRest = mode,
         ShutdownStep(c), ~(UNCHANGED vars),
         call'[c].section # "idle" => atRest' = atRest
  PROVE  Fits(call[c])'
<1> DEFINE Returns == call'[c].section = "idle" /\ call'[c].op = "none"
           GoesTo(section, type, saved) ==
             /\ call'[c].section = section
             /\ call'[c].op = call[c].op /\ call'[c].type = type
             /\ call'[c].mode = call[c].mode /\ call'[c].saved = saved
             /\ call'[c].announced = call[c].announced
           NowIntroduced == IF call[c].announced = "no" THEN UpTo2(introductions)
                            ELSE introductions
           Begins(section, op) ==
             /\ call[c].section = "idle" /\ call[c].op = "none" /\ atRest = mode
             /\ call'[c].section = section /\ call'[c].op = op
<1>a. /\ TypeOK /\ call[c] \in Call /\ call \in [Callers -> Call]
      /\ streamLife \in {"open", "shutdown"} /\ introductions \in 0..2
      /\ queueFaults \in Nat /\ allocatorFaults \in Nat
  BY FaultsAssumption DEF TypeOK
<1>b. /\ Operated(call[c]) /\ Shut(call[c]) /\ Restorable(call[c])
      /\ Introduced(call[c]) /\ Stocked(call[c]) /\ StreamStaysStopped
      /\ call'[c].section # "idle" => atRest' = atRest
  BY DEF Fits
<1>c. /\ \A section \in Sections :
           Goto(c, section) => GoesTo(section, call[c].type, call[c].saved)
      /\ Return(c) => Returns
      /\ \A locals : Enter(c, locals) =>
           /\ call'[c] = locals /\ atRest = mode
           /\ call[c].section = "idle" /\ call[c].op = "none"
  BY CallAfter, CallBegun DEF Enter
<1>d. /\ \A queue : Queued(queue) => queueFaults' = queueFaults
      /\ \A queue : Refused(queue) /\ queue = "open" => queueFaults' # 0
      /\ allocatorFaults + 1 # 0
  BY <1>a DEF Queued, Refused
<1> USE DEF sourceVars, streamVars, formatVars, faultVars
<1>1. CASE ShutdownBegins(c)
  <2>1. Begins("close stream", "Shutdown")
    BY <1>a, <1>c, <1>1, CallBegun DEF ShutdownBegins
  <2>2. Operated(call[c])'
    BY <1>a, <1>b, <1>1, <2>1 DEF ShutdownBegins, Operated, Starting, Allocating,
       Requesting, Stopping, Closing
  <2>3. Shut(call[c])'
    BY <1>a, <1>b, <1>1, <2>1 DEF ShutdownBegins, Shut, Operated, Starting, Allocating,
       Requesting, Stopping, Closing
  <2>4. Restorable(call[c])'
    BY <1>a, <1>b, <1>1, <2>1 DEF ShutdownBegins, Restorable, Operated, Shut, Starting,
       Allocating, Requesting, Stopping, Closing
  <2>5. Introduced(call[c])'
    BY <1>a, <1>b, <1>1, <2>1 DEF ShutdownBegins, Introduced, Operated, Starting,
       Allocating, Requesting, Stopping, Closing
  <2>6. Stocked(call[c])'
    BY <1>a, <1>b, <1>1, <2>1 DEF ShutdownBegins, Stocked, Operated, Shut,
       StreamStaysStopped, Starting, Allocating, Requesting, Stopping, Closing
  <2> QED
    BY <2>2, <2>3, <2>4, <2>5, <2>6 DEF Fits
<1>2. CASE CloseStream(c)
  <2>1. IF streamLife = "open" THEN GoesTo("stop reader", call[c].type, call[c].saved)
        ELSE GoesTo("close source queue", call[c].type, call[c].saved)
    BY <1>a, <1>c, <1>2 DEF CloseStream, Sections
  <2>2. Operated(call[c])'
    BY <1>a, <1>b, <1>2, <2>1 DEF CloseStream, Operated, Starting, Allocating,
       Requesting, Stopping, Closing
  <2>3. Shut(call[c])'
    BY <1>a, <1>b, <1>2, <2>1 DEF CloseStream, Shut, Operated, Starting, Allocating,
       Requesting, Stopping, Closing
  <2>4. Restorable(call[c])'
    BY <1>a, <1>b, <1>2, <2>1 DEF CloseStream, Restorable, Operated, Shut, Starting,
       Allocating, Requesting, Stopping, Closing
  <2>5. Introduced(call[c])'
    BY <1>a, <1>b, <1>2, <2>1 DEF CloseStream, Introduced, Operated, Starting,
       Allocating, Requesting, Stopping, Closing
  <2>6. Stocked(call[c])'
    BY <1>a, <1>b, <1>2, <2>1 DEF CloseStream, Stocked, Operated, Shut,
       StreamStaysStopped, Starting, Allocating, Requesting, Stopping, Closing
  <2> QED
    BY <2>2, <2>3, <2>4, <2>5, <2>6 DEF Fits
<1>3. CASE StopReader(c)
  <2>1. GoesTo("release", call[c].type, call[c].saved)
    BY <1>a, <1>c, <1>3 DEF StopReader, Sections
  <2>2. Operated(call[c])'
    BY <1>a, <1>b, <1>3, <2>1 DEF StopReader, Operated, Starting, Allocating,
       Requesting, Stopping, Closing
  <2>3. Shut(call[c])'
    BY <1>a, <1>b, <1>3, <2>1 DEF StopReader, Shut, Operated, Starting, Allocating,
       Requesting, Stopping, Closing
  <2>4. Restorable(call[c])'
    BY <1>a, <1>b, <1>3, <2>1 DEF StopReader, Restorable, Operated, Shut, Starting,
       Allocating, Requesting, Stopping, Closing
  <2>5. Introduced(call[c])'
    BY <1>a, <1>b, <1>3, <2>1 DEF StopReader, Introduced, Operated, Starting,
       Allocating, Requesting, Stopping, Closing
  <2>6. Stocked(call[c])'
    BY <1>a, <1>b, <1>3, <2>1 DEF StopReader, Stocked, Operated, Shut,
       StreamStaysStopped, Starting, Allocating, Requesting, Stopping, Closing
  <2> QED
    BY <2>2, <2>3, <2>4, <2>5, <2>6 DEF Fits
<1>4. CASE Release(c)
  <2>1. GoesTo("close stream queue", call[c].type, call[c].saved)
    BY <1>a, <1>c, <1>4 DEF Release, Sections
  <2>2. Operated(call[c])'
    BY <1>a, <1>b, <1>4, <2>1 DEF Release, Operated, Starting, Allocating, Requesting,
       Stopping, Closing
  <2>3. Shut(call[c])'
    BY <1>a, <1>b, <1>4, <2>1 DEF Release, Shut, Operated, Starting, Allocating,
       Requesting, Stopping, Closing
  <2>4. Restorable(call[c])'
    BY <1>a, <1>b, <1>4, <2>1 DEF Release, Restorable, Operated, Shut, Starting,
       Allocating, Requesting, Stopping, Closing
  <2>5. Introduced(call[c])'
    BY <1>a, <1>b, <1>4, <2>1 DEF Release, Introduced, Operated, Starting, Allocating,
       Requesting, Stopping, Closing
  <2>6. Stocked(call[c])'
    BY <1>a, <1>b, <1>4, <2>1 DEF Release, Stocked, Operated, Shut, StreamStaysStopped,
       Starting, Allocating, Requesting, Stopping, Closing
  <2> QED
    BY <2>2, <2>3, <2>4, <2>5, <2>6 DEF Fits
<1>5. CASE CloseStreamQueue(c)
  <2>1. GoesTo("close source queue", call[c].type, call[c].saved)
    BY <1>a, <1>c, <1>5 DEF CloseStreamQueue, Sections
  <2>2. Operated(call[c])'
    BY <1>a, <1>b, <1>5, <2>1 DEF CloseStreamQueue, Operated, Starting, Allocating,
       Requesting, Stopping, Closing
  <2>3. Shut(call[c])'
    BY <1>a, <1>b, <1>5, <2>1 DEF CloseStreamQueue, Shut, Operated, Starting,
       Allocating, Requesting, Stopping, Closing
  <2>4. Restorable(call[c])'
    BY <1>a, <1>b, <1>5, <2>1 DEF CloseStreamQueue, Restorable, Operated, Shut,
       Starting, Allocating, Requesting, Stopping, Closing
  <2>5. Introduced(call[c])'
    BY <1>a, <1>b, <1>5, <2>1 DEF CloseStreamQueue, Introduced, Operated, Starting,
       Allocating, Requesting, Stopping, Closing
  <2>6. Stocked(call[c])'
    BY <1>a, <1>b, <1>5, <2>1 DEF CloseStreamQueue, Stocked, Operated, Shut,
       StreamStaysStopped, Starting, Allocating, Requesting, Stopping, Closing
  <2> QED
    BY <2>2, <2>3, <2>4, <2>5, <2>6 DEF Fits
<1>6. CASE CloseSourceQueue(c)
  <2>1. Returns
    BY <1>a, <1>c, <1>6 DEF CloseSourceQueue, Sections
  <2>2. Operated(call[c])'
    BY <1>a, <1>b, <1>6, <2>1 DEF CloseSourceQueue, UpTo2, Operated, Starting,
       Allocating, Requesting, Stopping, Closing
  <2>3. Shut(call[c])'
    BY <1>a, <1>b, <1>6, <2>1 DEF CloseSourceQueue, UpTo2, Shut, Operated, Starting,
       Allocating, Requesting, Stopping, Closing
  <2>4. Restorable(call[c])'
    BY <1>a, <1>b, <1>6, <2>1 DEF CloseSourceQueue, UpTo2, Restorable, Operated, Shut,
       Starting, Allocating, Requesting, Stopping, Closing
  <2>5. Introduced(call[c])'
    BY <1>a, <1>b, <1>6, <2>1 DEF CloseSourceQueue, UpTo2, Introduced, Operated,
       Starting, Allocating, Requesting, Stopping, Closing
  <2>6. Stocked(call[c])'
    BY <1>a, <1>b, <1>6, <2>1 DEF CloseSourceQueue, UpTo2, Stocked, Operated, Shut,
       StreamStaysStopped, Starting, Allocating, Requesting, Stopping, Closing
  <2> QED
    BY <2>2, <2>3, <2>4, <2>5, <2>6 DEF Fits
<1> QED
  BY <1>1, <1>2, <1>3, <1>4, <1>5, <1>6 DEF ShutdownStep, RefusedAfterShutdown

\* At the beginning no call is under way.
LEMMA SerialStarts == MCInit => SerialInv
<1> SUFFICES ASSUME MCInit PROVE SerialInv
  OBVIOUS
<1>1. Init /\ overlapped = "no" /\ atRest = mode
  BY DEF MCInit
<1>2. TypeOK /\ StreamStaysStopped
  BY <1>1, NoCallType, TypesAssumption, FaultsAssumption
     DEF Init, TypeOK, Modes, StreamStaysStopped
<1>3. \A c \in Callers : call[c] = NoCall
  BY <1>1 DEF Init
<1>4. NoCall.section = "idle" /\ NoCall.op = "none"
  BY DEF NoCall
<1>5. Fits(NoCall)
  BY <1>1, <1>4, FaultsAssumption DEF Init, Fits, Operated, Shut, Restorable, Introduced,
     Stocked, Starting, Allocating, Requesting, Stopping, Closing
<1> QED
  BY <1>1, <1>2, <1>3, <1>4, <1>5 DEF SerialInv

\* A step of caller c changes no other call, and leaves c in a call or in NoCall.
LEMMA OneCallMoves ==
  ASSUME TypeOK, NEW c \in Callers,
         StartStep(c) \/ StreamStep(c) \/ StopStep(c) \/ ShutdownStep(c)
  PROVE  /\ \A d \in Callers \ {c} : call'[d] = call[d]
         /\ call[c].section = "idle" =>
              UNCHANGED vars \/ call'[c].section # "idle"
         /\ call'[c].section = "idle" => UNCHANGED vars \/ call'[c] = NoCall
<1>a. call \in [Callers -> Call]
  BY DEF TypeOK
<1>b. /\ \A section \in Sections : Goto(c, section) => call'[c].section = section
      /\ Return(c) => call'[c] = NoCall
  BY CallAfter
<1>1. CASE StartStep(c)
  <2>1. ASSUME NEW t \in Types, NEW position \in Positions, StartBegins(c, t, position)
        PROVE  /\ \A d \in Callers \ {c} : call'[d] = call[d]
               /\ call'[c].section # "idle"
    BY <1>a, <2>1, CallBegun DEF StartBegins, Enter
  <2>2. CASE \/ SetType(c) \/ Checkpoint(c) \/ Run(c) \/ AnnounceSource(c)
             \/ AnnounceStream(c) \/ Restore(c) \/ CommitStart(c)
    <3>1. /\ \A d \in Callers \ {c} : call'[d] = call[d]
          /\ call[c].section # "idle"
      BY <1>a, <2>2 DEF SetType, Checkpoint, Run, AnnounceSource, AnnounceStream, Restore,
         CommitStart, Goto, Return
    <3>2. CASE Checkpoint(c)
      <4>1. CASE call' = [call EXCEPT ![c].saved = mode, ![c].section = "run"]
        <5>1. call'[c] = [call[c] EXCEPT !.saved = mode, !.section = "run"]
          BY <1>a, <4>1
        <5>2. call[c] \in Call
          BY <1>a
        <5> QED
          BY <3>1, <5>1, <5>2 DEF Call
      <4> QED
        BY <1>b, <3>1, <3>2, <4>1 DEF Checkpoint
    <3> QED
      BY <1>b, <2>2, <3>1, <3>2 DEF SetType, Run, AnnounceSource, AnnounceStream, Restore,
         CommitStart, Sections
  <2> QED
    BY <1>1, <2>1, <2>2 DEF StartStep
<1>2. CASE StreamStep(c)
  <2>1. ASSUME NEW m \in Modes, SetStateBegins(c, m)
        PROVE  /\ \A d \in Callers \ {c} : call'[d] = call[d]
               /\ call'[c].section # "idle"
    <3>1. call'[c].section = (IF m = "Running" THEN "read type" ELSE "set mode")
      BY <2>1, CallBegun
    <3>2. \A locals : Enter(c, locals) => \A d \in Callers \ {c} : call'[d] = call[d]
      BY <1>a DEF Enter
    <3> QED
      BY <2>1, <3>1, <3>2 DEF SetStateBegins
  <2>2. CASE RequestBegins(c)
    BY <1>a, <2>2, CallBegun DEF RequestBegins, Enter
  <2>3. CASE ReadType(c)
    <3>1. call'[c] = [call[c] EXCEPT !.type = current,
                        !.section = IF call[c].op = "SetStreamState" THEN "check open"
                                                                     ELSE "sample"]
      BY <1>a, <2>3 DEF ReadType
    <3>2. call'[c].section # "idle"
      BY <1>a, <3>1 DEF Call
    <3> QED
      BY <1>a, <2>3, <3>2 DEF ReadType
  <2>4. CASE \/ CheckOpen(c) \/ Allocate(c) \/ SetMode(c) \/ Sample(c) \/ Recheck(c)
             \/ Deliver(c)
    <3>1. /\ \A d \in Callers \ {c} : call'[d] = call[d]
          /\ call[c].section # "idle"
      BY <1>a, <2>4 DEF CheckOpen, Allocate, SetMode, Sample, Recheck, Deliver, Goto,
         Return
    <3> QED
      BY <1>b, <2>4, <3>1 DEF CheckOpen, Allocate, SetMode, Sample, Recheck, Deliver,
         Sections
  <2> QED
    BY <1>2, <2>1, <2>2, <2>3, <2>4 DEF StreamStep
<1>3. CASE StopStep(c)
  <2>1. CASE StopBegins(c)
    BY <1>a, <2>1, CallBegun DEF StopBegins, Enter
  <2>2. CASE StopStream(c) \/ StreamStopped(c) \/ CommitStop(c)
    <3>1. /\ \A d \in Callers \ {c} : call'[d] = call[d]
          /\ call[c].section # "idle"
      BY <1>a, <2>2 DEF StopStream, StreamStopped, CommitStop, Goto, Return
    <3> QED
      BY <1>b, <2>2, <3>1 DEF StopStream, StreamStopped, CommitStop, Sections
  <2> QED
    BY <1>3, <2>1, <2>2 DEF StopStep
<1>4. CASE ShutdownStep(c)
  <2>1. CASE ShutdownBegins(c)
    BY <1>a, <2>1, CallBegun DEF ShutdownBegins, Enter
  <2>2. CASE \/ CloseStream(c) \/ StopReader(c) \/ Release(c) \/ CloseStreamQueue(c)
             \/ CloseSourceQueue(c)
    <3>1. /\ \A d \in Callers \ {c} : call'[d] = call[d]
          /\ call[c].section # "idle"
      BY <1>a, <2>2 DEF CloseStream, StopReader, Release, CloseStreamQueue,
         CloseSourceQueue, Goto, Return
    <3> QED
      BY <1>b, <2>2, <3>1 DEF CloseStream, StopReader, Release, CloseStreamQueue,
         CloseSourceQueue, Sections
  <2>3. CASE RefusedAfterShutdown(c)
    BY <2>3 DEF RefusedAfterShutdown, vars
  <2> QED
    BY <1>4, <2>1, <2>2, <2>3 DEF ShutdownStep
<1> QED
  BY <1>1, <1>2, <1>3, <1>4

\* Fits speaks of the call and of the state of the source.
LEMMA SerialStutters ==
  ASSUME SerialInv, UNCHANGED vars,
         overlapped' = "no" => overlapped = "no",
         atRest' = IF AtRest' THEN mode' ELSE atRest
  PROVE  SerialInv'
<1>1. UNCHANGED <<life, announced, mode, streamLife, current, allocator, reader, sourceQueue,
                  streamQueue, call, introductions, queueShutdowns, queueFaults,
                  allocatorFaults>>
  BY DEF vars, sourceVars, streamVars, formatVars, faultVars
<1>2. TypeOK' /\ StreamStaysStopped' /\ (AtRest' = AtRest)
  BY <1>1 DEF SerialInv, TypeOK, StreamStaysStopped, AtRest
<1>3. atRest' = atRest
  BY <1>1, <1>2 DEF SerialInv
<1>4. \A k : Fits(k) => Fits(k)'
  <2>1. \A k : Operated(k) => Operated(k)'
    BY <1>1 DEF Operated
  <2>2. \A k : Shut(k) => Shut(k)'
    BY <1>1 DEF Shut
  <2>3. \A k : Restorable(k) => Restorable(k)'
    BY <1>1, <1>3 DEF Restorable
  <2>4. \A k : Introduced(k) => Introduced(k)'
    BY <1>1 DEF Introduced
  <2>5. \A k : Stocked(k) => Stocked(k)'
    BY <1>1 DEF Stocked
  <2> QED
    BY <2>1, <2>2, <2>3, <2>4, <2>5 DEF Fits
<1> QED
  BY <1>1, <1>2, <1>3, <1>4 DEF SerialInv

\* A step of one caller, alone, keeps what is known; when calls overlap nothing is
\* asked any more.
LEMMA SerialKept == SerialInv /\ MCNext => SerialInv'
<1> SUFFICES ASSUME SerialInv, MCNext PROVE SerialInv'
  OBVIOUS
<1>1. PICK c \in Callers :
        StartStep(c) \/ StreamStep(c) \/ StopStep(c) \/ ShutdownStep(c)
  BY DEF MCNext, Next
<1>2. /\ atRest' = IF AtRest' THEN mode' ELSE atRest
      /\ overlapped' = "no" => overlapped = "no" /\ ~Overlap
  BY DEF MCNext
<1>3. TypeOK /\ StreamStaysStopped
  BY DEF SerialInv
<1>4. CASE UNCHANGED vars
  BY <1>2, <1>4, SerialStutters
<1>5. CASE ~UNCHANGED vars
  <2>1. /\ \A d \in Callers \ {c} : call'[d] = call[d]
        /\ call[c].section = "idle" => call'[c].section # "idle"
        /\ call'[c].section = "idle" => call'[c] = NoCall
    BY <1>1, <1>3, <1>5, OneCallMoves
  <2>2. TypeOK'
    BY <1>1, <1>3, CallTyped, StateStaysTyped DEF StateTyped, TypeOK
  <2>3. StreamStaysStopped'
    BY <1>1, <1>3, ModeOfOpenStreamOnly
  <2>4. \A d \in Callers : call'[d].section = "idle" => call'[d] = NoCall
    BY <2>1 DEF SerialInv
  <2>5. AtRest' => atRest' = mode'
    BY <1>2
  <2>6. ASSUME overlapped' = "no"
        PROVE  /\ \A d, e \in Callers :
                    d # e => call'[d].section = "idle" \/ call'[e].section = "idle"
               /\ \A d \in Callers : call'[d].section # "idle" => Fits(call[d])'
               /\ AtRest' => Fits(NoCall)'
    <3>1. /\ overlapped = "no"
          /\ \A d, e \in Callers :
               d # e => call'[d].section = "idle" \/ call'[e].section = "idle"
      BY <1>2, <2>6 DEF Overlap
    <3>2. \A d \in Callers \ {c} : call[d].section = "idle"
      BY <2>1, <3>1 DEF SerialInv
    <3>3. call[c].section = "idle" => call[c] = NoCall /\ AtRest /\ atRest = mode
      BY <3>2 DEF SerialInv, AtRest
    <3>4. Fits(call[c])
      BY <3>1, <3>3 DEF SerialInv
    <3>5. call'[c].section # "idle" => atRest' = atRest
      BY <1>2 DEF AtRest
    <3>6. Fits(call[c])'
      BY <1>1, <1>3, <1>5, <3>3, <3>4, <3>5, SerialStart, SerialStream, SerialStop,
         SerialShutdown
    <3>7. \A d \in Callers \ {c} : call'[d].section = "idle"
      BY <2>1, <3>2
    <3>8. AtRest' => call'[c] = NoCall
      BY <2>1 DEF AtRest
    <3>9. AtRest' => Fits(NoCall)'
      BY <3>6, <3>8
    <3> QED
      BY <3>1, <3>6, <3>7, <3>9
  <2> QED
    BY <2>2, <2>3, <2>4, <2>5, <2>6 DEF SerialInv
<1> QED
  BY <1>4, <1>5

\* Whatever is known of a call and of the state between calls is so for ever.
THEOREM SerialInvariance == MCSpec => []SerialInv
<1>1. SerialInv /\ [MCNext]_<<vars, overlapped, atRest>> => SerialInv'
  <2> SUFFICES ASSUME SerialInv, UNCHANGED <<vars, overlapped, atRest>>
               PROVE  SerialInv'
    BY SerialKept
  <2>1. AtRest' = AtRest /\ mode' = mode
    BY DEF AtRest, vars, streamVars
  <2> QED
    BY <2>1, SerialStutters DEF SerialInv
<1> QED
  BY <1>1, SerialStarts, PTL DEF MCSpec

\* What the invariant says of the state between calls and of a request.
LEMMA SerialPromises ==
  SerialInv => /\ SerialShutdownIsComplete
               /\ SerialIntroducedOnce
               /\ SerialRequestCanBeServed
<1> SUFFICES ASSUME SerialInv, overlapped = "no"
             PROVE  /\ ShutdownIsComplete
                    /\ queueFaults = 0 => IntroducedOnce
                    /\ allocatorFaults = 0 => RequestCanBeServed
  BY DEF SerialShutdownIsComplete, SerialIntroducedOnce, SerialRequestCanBeServed
<1>1. NoCall.section = "idle"
  BY DEF NoCall
<1>2. ShutdownIsComplete
  <2> SUFFICES ASSUME AtRest
               PROVE  /\ life = "Shutdown" <=> streamLife = "shutdown"
                      /\ life = "Shutdown" =>
                           /\ reader = "stopped" /\ allocator = None
                           /\ sourceQueue = "closed" /\ streamQueue = "closed"
    BY DEF ShutdownIsComplete
  <2>1. Shut(NoCall)
    BY DEF SerialInv, Fits
  <2> QED
    BY <1>1, <2>1 DEF Shut, Closing
<1>3. queueFaults = 0 => IntroducedOnce
  <2>1. CASE AtRest
    BY <2>1 DEF SerialInv, Fits, Introduced, IntroducedOnce
  <2>2. CASE ~AtRest
    BY <2>2 DEF AtRest, SerialInv, Fits, Introduced, IntroducedOnce
  <2> QED
    BY <2>1, <2>2
<1>4. allocatorFaults = 0 => RequestCanBeServed
  BY DEF SerialInv, Fits, Stocked, RequestCanBeServed, Servable
<1> QED
  BY <1>2, <1>3, <1>4

\* A Start that returns without having started leaves the mode it found.
LEMMA FailedStartRestores ==
  ASSUME SerialInv, MCNext, NEW c \in Callers, overlapped' = "no",
         call[c].op = "Start", call[c].section # "commit start",
         call'[c].section = "idle"
  PROVE  mode' = atRest
<1>1. overlapped = "no" /\ TypeOK
  BY DEF MCNext, SerialInv
<1>2. call[c].section # "idle"
  <2>1. NoCall.op = "none"
    BY DEF NoCall
  <2> QED
    BY <2>1 DEF SerialInv
<1>3. Operated(call[c]) /\ Shut(call[c]) /\ Restorable(call[c])
  BY <1>1, <1>2 DEF SerialInv, Fits
<1>4. PICK d \in Callers :
        StartStep(d) \/ StreamStep(d) \/ StopStep(d) \/ ShutdownStep(d)
  BY DEF MCNext, Next
<1>5. c = d /\ ~UNCHANGED vars
  BY <1>1, <1>2, <1>4, OneCallMoves DEF vars
<1>6. /\ \A section \in Sections : Goto(c, section) => call'[c].section = section
      /\ call[c].section \in Starting \cup Allocating
      /\ streamLife = "open"
  BY <1>1, <1>3, CallAfter DEF Operated, Shut, TypeOK
<1>7. CASE StartStep(c)
  <2>1. \A t \in Types, position \in Positions : ~StartBegins(c, t, position)
    BY <1>2 DEF StartBegins, Enter
  <2>2. ~SetType(c)
    BY <1>6 DEF SetType, Sections
  <2>3. Checkpoint(c) => mode' = atRest
    <3> SUFFICES ASSUME Checkpoint(c) PROVE FALSE
      OBVIOUS
    <3>1. call' = [call EXCEPT ![c].saved = mode, ![c].section = "run"]
      BY <1>6 DEF Checkpoint
    <3>2. call'[c] = [call[c] EXCEPT !.saved = mode, !.section = "run"] /\ call[c] \in Call
      BY <1>1, <3>1 DEF TypeOK
    <3> QED
      BY <3>2 DEF Call
  <2>4. ~Run(c)
    BY <1>6 DEF Run, Sections
  <2>5. ~AnnounceSource(c) /\ ~AnnounceStream(c) /\ ~CommitStart(c)
    BY <1>6 DEF AnnounceSource, AnnounceStream, CommitStart, Sections
  <2>6. Restore(c) => mode' = atRest
    BY <1>3, <1>6 DEF Restore, Restorable
  <2> QED
    BY <1>7, <2>1, <2>2, <2>3, <2>4, <2>5, <2>6 DEF StartStep
<1>8. CASE StreamStep(c)
  <2>1. \A m \in Modes : ~SetStateBegins(c, m)
    BY <1>2 DEF SetStateBegins, Enter
  <2>2. CheckOpen(c) \/ Allocate(c) => mode' = atRest
    BY <1>3 DEF CheckOpen, Allocate, Restorable, Allocating, streamVars
  <2>3. /\ ~SetMode(c) /\ ~RequestBegins(c) /\ ~ReadType(c) /\ ~Sample(c) /\ ~Recheck(c)
        /\ ~Deliver(c)
    BY <1>2, <1>6 DEF SetMode, RequestBegins, Enter, ReadType, Sample, Recheck, Deliver,
       Starting, Allocating
  <2> QED
    BY <1>8, <2>1, <2>2, <2>3 DEF StreamStep
<1>9. ~StopStep(c) /\ ~ShutdownStep(c)
  BY <1>2, <1>6 DEF StopStep, StopBegins, StopStream, StreamStopped, CommitStop, Enter,
     ShutdownStep, ShutdownBegins, RefusedAfterShutdown, CloseStream, StopReader, Release,
     CloseStreamQueue, CloseSourceQueue, Starting, Allocating
<1> QED
  BY <1>4, <1>5, <1>7, <1>8, <1>9

\* What the source promises a client that makes one call after the other, for any
\* number of threads and types and any sequence of calls.
LEMMA SerialPromisesAreKept == MCSpec => SerialCallsKeepPromises
<1> DEFINE Failed(c) == /\ overlapped' = "no"
                        /\ call[c].op = "Start" /\ call[c].section # "commit start"
                        /\ call'[c].section = "idle"
<1>1. SerialInv /\ [MCNext]_<<vars, overlapped, atRest>>
        => [\A c \in Callers : Failed(c) => mode' = atRest]_<<vars, overlapped, atRest>>
  BY FailedStartRestores
<1>2. MCSpec => FailedStartKeepsMode
  BY <1>1, SerialInvariance, PTL DEF MCSpec, FailedStartKeepsMode
<1> QED
  BY <1>2, SerialInvariance, SerialPromises, PTL DEF SerialCallsKeepPromises

\* A behaviour of the composition is one of the source and its history.
LEMMA CameraRunsSource == CamSpec => MCSpec
<1>1. CamInit => MCInit
  BY DEF CamInit
<1>2. [CamNext]_<<part, mcVars, sampleVars, serverVars, fileVars, webcamVars,
                  negotiationVars>>
        => [MCNext]_<<vars, overlapped, atRest>>
  BY DEF CamNext, mcVars
<1> QED
  BY <1>1, <1>2, PTL DEF CamSpec, MCSpec

\* What the source promises a client that makes one call after the other: a
\* complete shutdown, one introduction, samples for a running stream, and a Start that
\* changes nothing when it fails.
THEOREM SerialCallsAlwaysKeepPromises == CamSpec => SerialCallsKeepPromises
  BY CameraRunsSource, SerialPromisesAreKept, PTL

----------------------------------------------------------------------------
\* The life of the library (ServerUnload): the count of objects.

HeldActivations == {a \in Activations : activation[a].at = "held"}
CountedStreams ==
    {s \in Sources : source[s] \in {"stream", "alive", "shutting down",
                                    "shut down", "stream left"}}
CountedSources ==
    {s \in Sources : source[s] \in {"alive", "shutting down", "shut down"}}

\* OBJECTS counts what there is: factories, activation objects, streams, sources.
CountIsRight ==
    /\ IsFiniteSet(HeldActivations)
    /\ IsFiniteSet(CountedStreams)
    /\ IsFiniteSet(CountedSources)
    /\ objects = factories + Cardinality(HeldActivations)
                   + Cardinality(CountedStreams) + Cardinality(CountedSources)

\* A free activation object has neither a source nor one under way.
FreeIsEmpty ==
    \A a \in Activations : activation[a].at = "free" => activation[a] = Server!Free

\* A stream holds its source until it is shut down; so a source that is let go of
\* has been shut down, and its thread stopped, or was never completed.
AttachedIsAlive == \A s \in Sources : source[s] = "alive" => s \in cycle

Creating(s) == \E a \in Activations : activation[a].creates = s

\* A thread runs in a source that is counted, or in one whose creation failed and
\* whose activation object is in ActivateObject and counted.
RunningIsCounted ==
    \A s \in Sources :
        serverReader[s] = "running" =>
            \/ source[s] \in {"stream", "alive", "shutting down"}
            \/ source[s] = "dropped" /\ Creating(s)

UnloadedIsUncounted == module = "unloaded" => objects = 0

ServerInv ==
    /\ Server!TypeOK
    /\ CountIsRight
    /\ FreeIsEmpty
    /\ AttachedIsAlive
    /\ RunningIsCounted
    /\ UnloadedIsUncounted

\* The three cardinalities are numbers, and all is empty when the count is zero.
LEMMA CountsAreNumbers ==
    ASSUME CountIsRight, factories \in Nat
    PROVE  /\ Cardinality(HeldActivations) \in Nat
           /\ Cardinality(CountedStreams) \in Nat
           /\ Cardinality(CountedSources) \in Nat
           /\ objects \in Nat
           /\ objects = 0 => /\ factories = 0 /\ HeldActivations = {}
                             /\ CountedStreams = {} /\ CountedSources = {}
<1>1. /\ Cardinality(HeldActivations) \in Nat
      /\ Cardinality(CountedStreams) \in Nat
      /\ Cardinality(CountedSources) \in Nat
  BY FS_CardinalityType DEF CountIsRight
<1>2. objects = 0 => /\ factories = 0
                     /\ Cardinality(HeldActivations) = 0
                     /\ Cardinality(CountedStreams) = 0
                     /\ Cardinality(CountedSources) = 0
  BY <1>1 DEF CountIsRight
<1>3. objects \in Nat
  BY <1>1 DEF CountIsRight
<1> QED
  BY <1>1, <1>2, <1>3, FS_EmptySet DEF CountIsRight

\* One more or one less is what a step does to each counted set.
LEMMA OneMore ==
    ASSUME NEW S, IsFiniteSet(S), NEW x, x \notin S
    PROVE  IsFiniteSet(S \cup {x}) /\ Cardinality(S \cup {x}) = Cardinality(S) + 1
BY FS_AddElement

\* And one less.
LEMMA OneLess ==
    ASSUME NEW S, IsFiniteSet(S), NEW x \in S
    PROVE  IsFiniteSet(S \ {x}) /\ Cardinality(S \ {x}) = Cardinality(S) - 1
BY FS_RemoveElement

\* Steps that neither count nor touch what is counted.
LEMMA CountStays ==
    ASSUME CountIsRight, UNCHANGED <<objects, factories>>,
           HeldActivations' = HeldActivations,
           CountedStreams' = CountedStreams, CountedSources' = CountedSources
    PROVE  CountIsRight'
BY DEF CountIsRight

\* Every step of the service keeps the count.
LEMMA CountKept ==
    ASSUME ServerInv, Server!Next
    PROVE  CountIsRight'
<1> USE DEF ServerInv, Server!TypeOK
<1>0. /\ Cardinality(HeldActivations) \in Nat
      /\ Cardinality(CountedStreams) \in Nat
      /\ Cardinality(CountedSources) \in Nat
      /\ objects \in Nat /\ factories \in Nat
  BY CountsAreNumbers
<1>1. CASE Server!Load \/ Server!Unload \/ Server!LockServer
  <2>1. UNCHANGED <<objects, factories, activation, source>>
    BY <1>1 DEF Server!Load, Server!Unload, Server!LockServer
  <2> QED
    BY <2>1, CountStays DEF HeldActivations, CountedStreams, CountedSources
<1>2. CASE Server!GetClassObject \/ Server!ReleaseFactory
  <2>1. /\ UNCHANGED <<activation, source>>
        /\ objects' - factories' = objects - factories
        /\ objects' \in Int /\ factories' \in Int
    BY <1>0, <1>2 DEF Server!GetClassObject, Server!ReleaseFactory
  <2>2. /\ HeldActivations' = HeldActivations
        /\ CountedStreams' = CountedStreams /\ CountedSources' = CountedSources
    BY <2>1 DEF HeldActivations, CountedStreams, CountedSources
  <2> QED
    BY <1>0, <2>1, <2>2 DEF CountIsRight
<1>3. ASSUME NEW a \in Activations, Server!CreateInstance(a)
      PROVE  CountIsRight'
  <2>1. /\ HeldActivations' = HeldActivations \cup {a} /\ a \notin HeldActivations
        /\ CountedStreams' = CountedStreams /\ CountedSources' = CountedSources
    BY <1>3 DEF Server!CreateInstance, HeldActivations, CountedStreams,
                CountedSources
  <2>2. objects' = objects + 1 /\ factories' = factories
    BY <1>3 DEF Server!CreateInstance
  <2>3. /\ IsFiniteSet(HeldActivations')
       /\ Cardinality(HeldActivations') = Cardinality(HeldActivations) + 1
    BY <2>1, OneMore DEF CountIsRight
  <2> QED
    BY <1>0, <2>1, <2>2, <2>3 DEF CountIsRight
<1>4. ASSUME NEW a \in Activations, Server!Activate(a)
      PROVE  CountIsRight'
  <2>1. CASE activation[a].active # None
    <3>1. UNCHANGED <<objects, factories, activation, source>>
      BY <1>4, <2>1 DEF Server!Activate
    <3> QED
      BY <3>1, CountStays DEF HeldActivations, CountedStreams, CountedSources
  <2>2. CASE activation[a].active = None
    <3>1. PICK s \in Sources :
              /\ source[s] = "new"
              /\ source' = [source EXCEPT ![s] = "stream"]
              /\ activation' = [activation EXCEPT ![a].creates = s]
      BY <1>4, <2>2 DEF Server!Activate
    <3>2. HeldActivations' = HeldActivations
      BY <3>1 DEF HeldActivations
    <3>3. /\ CountedStreams' = CountedStreams \cup {s} /\ s \notin CountedStreams
          /\ CountedSources' = CountedSources
      BY <3>1 DEF CountedStreams, CountedSources
    <3>4. objects' = objects + 1 /\ factories' = factories
      BY <1>4, <2>2 DEF Server!Activate
    <3>5. /\ IsFiniteSet(CountedStreams')
          /\ Cardinality(CountedStreams') = Cardinality(CountedStreams) + 1
      BY <3>3, OneMore DEF CountIsRight
    <3> QED
      BY <1>0, <3>2, <3>3, <3>4, <3>5 DEF CountIsRight
  <2> QED
    BY <2>1, <2>2
<1>5. ASSUME NEW a \in Activations, Server!Created(a)
      PROVE  CountIsRight'
  <2> DEFINE s == activation[a].creates
  <2>1. /\ s \in Sources /\ source[s] = "stream"
        /\ source' = [source EXCEPT ![s] = "alive"]
        /\ activation' = [activation EXCEPT ![a].creates = None, ![a].active = s]
        /\ objects' = objects + 1 /\ factories' = factories
    BY <1>5 DEF Server!Created
  <2>2. HeldActivations' = HeldActivations
    BY <2>1 DEF HeldActivations
  <2>3. /\ CountedStreams' = CountedStreams
        /\ CountedSources' = CountedSources \cup {s} /\ s \notin CountedSources
    BY <2>1 DEF CountedStreams, CountedSources
  <2>4. /\ IsFiniteSet(CountedSources')
       /\ Cardinality(CountedSources') = Cardinality(CountedSources) + 1
    BY <2>3, OneMore DEF CountIsRight
  <2> QED
    BY <1>0, <2>1, <2>2, <2>3, <2>4 DEF CountIsRight
<1>6. ASSUME NEW a \in Activations, Server!CreateFails(a)
      PROVE  CountIsRight'
  <2> DEFINE s == activation[a].creates
  <2>1. /\ s \in Sources /\ source[s] = "stream"
        /\ source' = [source EXCEPT ![s] = "dropped"]
        /\ objects' = objects - 1 /\ UNCHANGED <<factories, activation>>
    BY <1>6 DEF Server!CreateFails
  <2>2. /\ CountedStreams' = CountedStreams \ {s} /\ s \in CountedStreams
        /\ CountedSources' = CountedSources
        /\ HeldActivations' = HeldActivations
    BY <2>1 DEF CountedStreams, CountedSources, HeldActivations
  <2>3. /\ IsFiniteSet(CountedStreams')
       /\ Cardinality(CountedStreams') = Cardinality(CountedStreams) - 1
    BY <2>2, OneLess DEF CountIsRight
  <2> QED
    BY <1>0, <2>1, <2>2, <2>3 DEF CountIsRight
<1>7. ASSUME NEW a \in Activations,
             Server!ActivateReturns(a) \/ Server!DetachObject(a)
      PROVE  CountIsRight'
  <2>1. /\ UNCHANGED <<objects, factories, source>>
        /\ \A b \in Activations : activation'[b].at = activation[b].at
    BY <1>7 DEF Server!ActivateReturns, Server!DetachObject
  <2> QED
    BY <2>1, CountStays DEF HeldActivations, CountedStreams, CountedSources
<1>8. ASSUME NEW a \in Activations, Server!ReleaseActivation(a)
      PROVE  CountIsRight'
  <2>1. /\ HeldActivations' = HeldActivations \ {a} /\ a \in HeldActivations
        /\ CountedStreams' = CountedStreams /\ CountedSources' = CountedSources
    BY <1>8 DEF Server!ReleaseActivation, Server!Unlocked, Server!Free,
                HeldActivations, CountedStreams, CountedSources
  <2>2. objects' = objects - 1 /\ factories' = factories
    BY <1>8 DEF Server!ReleaseActivation
  <2>3. /\ IsFiniteSet(HeldActivations')
       /\ Cardinality(HeldActivations') = Cardinality(HeldActivations) - 1
    BY <2>1, OneLess DEF CountIsRight
  <2> QED
    BY <1>0, <2>1, <2>2, <2>3 DEF CountIsRight
<1>9. ASSUME NEW s \in Sources,
             Server!Shutdown(s) \/ Server!StopReader(s)
               \/ Server!ReleaseSource(s) \/ Server!DropReader(s)
      PROVE  CountIsRight'
  <2>1. /\ UNCHANGED <<objects, factories, activation>>
        /\ CountedStreams' = CountedStreams /\ CountedSources' = CountedSources
    BY <1>9 DEF Server!Shutdown, Server!StopReader, Server!ReleaseSource,
                Server!DropReader, CountedStreams, CountedSources
  <2> QED
    BY <2>1, CountStays DEF HeldActivations
<1>10. ASSUME NEW s \in Sources, Server!DropSource(s)
       PROVE  CountIsRight'
  <2>1. /\ CountedSources' = CountedSources \ {s} /\ s \in CountedSources
        /\ CountedStreams' = CountedStreams
        /\ HeldActivations' = HeldActivations
    BY <1>10 DEF Server!DropSource, CountedStreams, CountedSources, HeldActivations
  <2>2. objects' = objects - 1 /\ factories' = factories
    BY <1>10 DEF Server!DropSource
  <2>3. /\ IsFiniteSet(CountedSources')
       /\ Cardinality(CountedSources') = Cardinality(CountedSources) - 1
    BY <2>1, OneLess DEF CountIsRight
  <2> QED
    BY <1>0, <2>1, <2>2, <2>3 DEF CountIsRight
<1>11. ASSUME NEW s \in Sources, Server!DropStream(s)
       PROVE  CountIsRight'
  <2>1. /\ CountedStreams' = CountedStreams \ {s} /\ s \in CountedStreams
        /\ CountedSources' = CountedSources
        /\ HeldActivations' = HeldActivations
    BY <1>11 DEF Server!DropStream, CountedStreams, CountedSources, HeldActivations
  <2>2. objects' = objects - 1 /\ factories' = factories
    BY <1>11 DEF Server!DropStream
  <2>3. /\ IsFiniteSet(CountedStreams')
       /\ Cardinality(CountedStreams') = Cardinality(CountedStreams) - 1
    BY <2>1, OneLess DEF CountIsRight
  <2> QED
    BY <1>0, <2>1, <2>2, <2>3 DEF CountIsRight
<1> QED
  BY <1>1, <1>2, <1>3, <1>4, <1>5, <1>6, <1>7, <1>8, <1>9, <1>10, <1>11
  DEF Server!Next

\* A library nobody counts has nothing left in it.
LEMMA UncountedIsEmpty ==
    ASSUME ServerInv, objects = 0
    PROVE  /\ factories = 0
           /\ \A a \in Activations : activation[a] = Server!Free
           /\ \A s \in Sources : source[s] \in {"new", "dropped", "freed"}
           /\ \A s \in Sources : serverReader[s] # "running"
<1>1. factories = 0 /\ HeldActivations = {} /\ CountedStreams = {}
  BY CountsAreNumbers DEF ServerInv, Server!TypeOK
<1>2. \A a \in Activations : activation[a] = Server!Free
  BY <1>1 DEF ServerInv, Server!TypeOK, FreeIsEmpty, HeldActivations
<1>3. \A s \in Sources : source[s] \in {"new", "dropped", "freed"}
  BY <1>1 DEF ServerInv, Server!TypeOK, Server!Stages, CountedStreams
<1>4. None \notin Sources
  BY CameraAssumption DEF Server!ServerAssumption
<1>5. \A s \in Sources : ~Creating(s)
  BY <1>2, <1>4 DEF Creating, Server!Free
<1> QED
  BY <1>1, <1>2, <1>3, <1>5 DEF ServerInv, RunningIsCounted

\* Every step keeps the shape of the service's variables.
LEMMA ServerTypeKept ==
    ASSUME ServerInv, Server!Next
    PROVE  Server!TypeOK'
<1>1. objects' \in Nat /\ factories' \in 0 .. MaxFactories /\ locks' \in 0 .. MaxLocks
  <2>1. factories' \in 0 .. MaxFactories /\ locks' \in 0 .. MaxLocks
    <3> USE CameraAssumption DEF ServerInv, Server!TypeOK, Server!ServerAssumption
    <3>1. CASE Server!GetClassObject \/ Server!ReleaseFactory
      BY <3>1 DEF Server!GetClassObject, Server!ReleaseFactory
    <3>2. CASE Server!LockServer
      BY <3>2 DEF Server!LockServer
    <3>3. CASE UNCHANGED <<factories, locks>>
      BY <3>3
    <3> QED
      BY <3>1, <3>2, <3>3
      DEF Server!Next, Server!Load, Server!Unload, Server!CreateInstance,
         Server!Activate, Server!Created, Server!CreateFails,
         Server!ActivateReturns, Server!DetachObject, Server!ReleaseActivation,
         Server!Shutdown, Server!StopReader, Server!ReleaseSource,
         Server!DropSource, Server!DropStream, Server!DropReader
  <2>2. /\ Cardinality(HeldActivations') \in Nat
        /\ Cardinality(CountedStreams') \in Nat
        /\ Cardinality(CountedSources') \in Nat
    BY CountKept, FS_CardinalityType DEF CountIsRight
  <2> QED
    BY <2>1, <2>2, CountKept DEF CountIsRight
<1> USE DEF ServerInv, Server!TypeOK, Server!Stages
<1>2. CASE \/ Server!Load \/ Server!Unload \/ Server!GetClassObject
           \/ Server!ReleaseFactory \/ Server!LockServer
  BY <1>1, <1>2 DEF Server!Load, Server!Unload, Server!GetClassObject,
     Server!ReleaseFactory, Server!LockServer
<1>3. ASSUME NEW a \in Activations,
             \/ Server!CreateInstance(a) \/ Server!Activate(a)
             \/ Server!Created(a) \/ Server!CreateFails(a)
             \/ Server!ActivateReturns(a) \/ Server!DetachObject(a)
             \/ Server!ReleaseActivation(a)
      PROVE  Server!TypeOK'
  <2>1. CASE Server!CreateInstance(a)
    BY <1>1, <2>1 DEF Server!CreateInstance
  <2>2. CASE Server!Activate(a)
    <3>1. CASE activation[a].active # None
      BY <1>1, <2>2, <3>1 DEF Server!Activate
    <3>2. CASE activation[a].active = None
      <4>1. PICK s \in Sources :
                /\ source' = [source EXCEPT ![s] = "stream"]
                /\ serverReader' = [serverReader EXCEPT ![s] = "running"]
                /\ activation' = [activation EXCEPT ![a].creates = s]
        BY <2>2, <3>2 DEF Server!Activate
      <4>2. UNCHANGED <<module, held, cycle>>
        BY <2>2, <3>2 DEF Server!Activate
      <4> QED
        BY <1>1, <4>1, <4>2
    <3> QED
      BY <3>1, <3>2
  <2>3. CASE Server!Created(a)
    <3>1. PICK s \in Sources :
              /\ source' = [source EXCEPT ![s] = "alive"]
              /\ cycle' = cycle \cup {s} /\ held' = held \cup {s}
              /\ activation' = [activation EXCEPT ![a].creates = None,
                                                 ![a].active = s]
      BY <2>3 DEF Server!Created, Server!Attached
    <3>2. UNCHANGED <<module, serverReader>>
      BY <2>3 DEF Server!Created
    <3> QED
      BY <1>1, <3>1, <3>2
  <2>4. CASE Server!CreateFails(a)
    BY <1>1, <2>4 DEF Server!CreateFails
  <2>5. CASE Server!ActivateReturns(a)
    BY <1>1, <2>5 DEF Server!ActivateReturns
  <2>6. CASE Server!DetachObject(a)
    BY <1>1, <2>6 DEF Server!DetachObject
  <2>7. CASE Server!ReleaseActivation(a)
    BY <1>1, <2>7 DEF Server!ReleaseActivation, Server!Free
  <2> QED
    BY <1>3, <2>1, <2>2, <2>3, <2>4, <2>5, <2>6, <2>7
<1>4. ASSUME NEW s \in Sources,
             \/ Server!Shutdown(s) \/ Server!StopReader(s)
             \/ Server!ReleaseSource(s) \/ Server!DropSource(s)
             \/ Server!DropStream(s) \/ Server!DropReader(s)
      PROVE  Server!TypeOK'
  BY <1>1, <1>4 DEF Server!Shutdown, Server!StopReader, Server!ReleaseSource,
     Server!DropSource, Server!DropStream, Server!DropReader
<1> QED
  BY <1>2, <1>3, <1>4 DEF Server!Next

\* An activation object that is given up holds nothing.
LEMMA FreeKept ==
    ASSUME ServerInv, Server!Next
    PROVE  FreeIsEmpty'
<1> USE DEF ServerInv, FreeIsEmpty, Server!TypeOK
<1>1. CASE UNCHANGED activation
  BY <1>1
<1>2. ASSUME NEW a \in Activations,
             \/ Server!CreateInstance(a) \/ Server!DetachObject(a)
             \/ Server!ReleaseActivation(a)
      PROVE  FreeIsEmpty'
  BY <1>2 DEF Server!CreateInstance, Server!DetachObject,
     Server!ReleaseActivation, Server!Unlocked, Server!Free
<1>3. ASSUME NEW a \in Activations, NEW s, activation[a].at = "held",
             activation' = [activation EXCEPT ![a].creates = s]
      PROVE  FreeIsEmpty'
  BY <1>3
<1>4. ASSUME NEW a \in Activations, Server!Activate(a)
      PROVE  FreeIsEmpty'
  BY <1>1, <1>3, <1>4 DEF Server!Activate, Server!Unlocked
<1>5. ASSUME NEW a \in Activations,
             Server!Created(a) \/ Server!ActivateReturns(a)
      PROVE  FreeIsEmpty'
  <2>1. activation[a].at = "held"
    BY <1>5 DEF Server!Created, Server!ActivateReturns, Server!Free
  <2> QED
    BY <1>3, <1>5, <2>1 DEF Server!Created, Server!ActivateReturns
<1> QED
  BY <1>1, <1>2, <1>4, <1>5
  DEF Server!Next, Server!Load, Server!Unload, Server!GetClassObject,
     Server!ReleaseFactory, Server!LockServer, Server!CreateFails,
     Server!Shutdown, Server!StopReader, Server!ReleaseSource,
     Server!DropSource, Server!DropStream, Server!DropReader

\* Only a shutdown takes a source that is alive from its stream.
LEMMA AttachedKept ==
    ASSUME ServerInv, Server!Next
    PROVE  AttachedIsAlive'
BY DEF ServerInv, AttachedIsAlive, Server!TypeOK, Server!Next, Server!Load,
   Server!Unload, Server!GetClassObject,
       Server!ReleaseFactory, Server!LockServer, Server!CreateInstance,
       Server!Activate, Server!Created, Server!CreateFails, Server!Attached,
       Server!ActivateReturns, Server!DetachObject, Server!ReleaseActivation,
       Server!Shutdown, Server!StopReader, Server!ReleaseSource,
       Server!DropSource, Server!DropStream, Server!DropReader

\* A thread is stopped, by Shutdown or by its reader's Drop, before the count and
\* the activation object that waits for it are let go of.
LEMMA RunningKept ==
    ASSUME ServerInv, Server!Next
    PROVE  RunningIsCounted'
<1> SUFFICES ASSUME NEW s \in Sources, serverReader'[s] = "running"
             PROVE  \/ source'[s] \in {"stream", "alive", "shutting down"}
                    \/ source'[s] = "dropped" /\ Creating(s)'
  BY DEF RunningIsCounted
<1> DEFINE Counted == source[s] \in {"stream", "alive", "shutting down"}
           Lost == source[s] = "dropped" /\ Creating(s)
<1> USE DEF ServerInv, Server!TypeOK
<1>0. serverReader[s] = "running" => Counted \/ Lost
  BY DEF RunningIsCounted
<1>1. CASE UNCHANGED <<activation, source, serverReader>>
  BY <1>0, <1>1 DEF Creating
<1>2. ASSUME NEW a \in Activations,
             Server!CreateInstance(a) \/ Server!DetachObject(a)
      PROVE  Creating(s) => Creating(s)'
  BY <1>2 DEF Server!CreateInstance, Server!DetachObject, Creating
<1>3. ASSUME NEW a \in Activations, Server!ReleaseActivation(a)
      PROVE  Creating(s) => Creating(s)'
  <2>1. None \notin Sources
    BY CameraAssumption DEF Server!ServerAssumption
  <2> QED
    BY <1>3, <2>1 DEF Server!ReleaseActivation, Server!Unlocked, Creating
<1>4. ASSUME NEW a \in Activations, Server!ActivateReturns(a),
             source[s] # "freed"
      PROVE  Creating(s) => Creating(s)'
  BY <1>4 DEF Server!ActivateReturns, Creating
<1>5. ASSUME NEW a \in Activations,
             \/ Server!CreateInstance(a) \/ Server!DetachObject(a)
             \/ Server!ReleaseActivation(a) \/ Server!ActivateReturns(a)
      PROVE  Counted' \/ Lost'
  <2>1. UNCHANGED <<source, serverReader>>
    BY <1>5 DEF Server!CreateInstance, Server!DetachObject,
       Server!ReleaseActivation, Server!ActivateReturns
  <2> QED
    BY <1>0, <1>2, <1>3, <1>4, <1>5, <2>1
<1>6. ASSUME NEW a \in Activations, Server!Activate(a)
      PROVE  Counted' \/ Lost'
  <2>1. CASE UNCHANGED <<activation, source, serverReader>>
    BY <1>1, <2>1
  <2>2. ASSUME NEW t \in Sources, activation[a].creates = None,
               source' = [source EXCEPT ![t] = "stream"],
               serverReader' = [serverReader EXCEPT ![t] = "running"],
               activation' = [activation EXCEPT ![a].creates = t]
        PROVE  Counted' \/ Lost'
    <3>1. None \notin Sources
      BY CameraAssumption DEF Server!ServerAssumption
    <3>2. Creating(s) => Creating(s)'
      BY <2>2, <3>1 DEF Creating
    <3> QED
      BY <1>0, <2>2, <3>2
  <2> QED
    BY <1>6, <2>1, <2>2 DEF Server!Activate, Server!Unlocked
<1>7. ASSUME NEW a \in Activations, Server!Created(a)
      PROVE  Counted' \/ Lost'
  <2>1. source[s] = "dropped" /\ Creating(s) => Creating(s)'
    BY <1>7 DEF Server!Created, Creating
  <2> QED
    BY <1>0, <1>7, <2>1 DEF Server!Created
<1>8. ASSUME NEW a \in Activations, Server!CreateFails(a)
      PROVE  Counted' \/ Lost'
  <2>1. /\ Creating(activation[a].creates)
        /\ UNCHANGED <<activation, serverReader>>
        /\ source' = [source EXCEPT ![activation[a].creates] = "dropped"]
    BY <1>8 DEF Server!CreateFails, Creating
  <2> QED
    BY <1>0, <2>1 DEF Creating
<1>9. ASSUME NEW t \in Sources,
             \/ Server!Shutdown(t) \/ Server!StopReader(t)
             \/ Server!ReleaseSource(t) \/ Server!DropReader(t)
             \/ Server!DropStream(t) \/ Server!DropSource(t)
      PROVE  Counted' \/ Lost'
  <2>1. Creating(s)' = Creating(s)
    BY <1>9 DEF Server!Shutdown, Server!StopReader, Server!ReleaseSource,
       Server!DropReader, Server!DropStream, Server!DropSource, Creating
  <2>2. ~(t = s /\ Server!DropSource(t))
    BY <1>0 DEF Server!DropSource, Server!Referenced, AttachedIsAlive
  <2> QED
    BY <1>0, <1>9, <2>1, <2>2
    DEF Server!Shutdown, Server!StopReader, Server!ReleaseSource,
       Server!DropReader, Server!DropStream, Server!DropSource
<1> QED
  BY <1>1, <1>5, <1>6, <1>7, <1>8, <1>9
  DEF Server!Next, Server!Load, Server!Unload, Server!GetClassObject,
     Server!ReleaseFactory, Server!LockServer

\* While the library is unloaded nobody can make anything of it.
LEMMA UnloadedKept ==
    ASSUME ServerInv, Server!Next
    PROVE  UnloadedIsUncounted'
<1>1. CASE module = "loaded"
  BY <1>1 DEF Server!Next, Server!Load, Server!Unload, Server!CanUnload,
     Server!GetClassObject,
       Server!ReleaseFactory, Server!LockServer, Server!CreateInstance,
       Server!Activate, Server!Created, Server!CreateFails, UnloadedIsUncounted,
       Server!ActivateReturns, Server!DetachObject, Server!ReleaseActivation,
       Server!Shutdown, Server!StopReader, Server!ReleaseSource,
       Server!DropSource, Server!DropStream, Server!DropReader
<1>2. CASE module = "unloaded"
  <2>1. objects = 0
    BY <1>2 DEF ServerInv, UnloadedIsUncounted
  <2> QED
    <3>1. /\ factories = 0
          /\ \A a \in Activations : activation[a] = Server!Free
          /\ \A s \in Sources : source[s] \in {"new", "dropped", "freed"}
      BY <2>1, UncountedIsEmpty
    <3>2. \A a \in Activations :
              /\ ~Server!CreateInstance(a) /\ ~Server!Activate(a)
              /\ ~Server!Created(a) /\ ~Server!CreateFails(a)
              /\ ~Server!ReleaseActivation(a)
      BY <3>1 DEF Server!CreateInstance, Server!Activate, Server!Created,
         Server!CreateFails, Server!ReleaseActivation, Server!Unlocked,
         Server!Free
    <3>3. \A s \in Sources : ~Server!DropSource(s) /\ ~Server!DropStream(s)
      BY <3>1 DEF Server!DropSource, Server!DropStream
    <3>4. ~Server!GetClassObject /\ ~Server!ReleaseFactory
      BY <1>2, <3>1 DEF Server!GetClassObject, Server!ReleaseFactory
    <3>5. objects' = objects
      BY <3>2, <3>3, <3>4
      DEF Server!Next, Server!Load, Server!Unload, Server!LockServer,
         Server!ActivateReturns, Server!DetachObject, Server!Shutdown,
         Server!StopReader, Server!ReleaseSource, Server!DropReader
    <3> QED
      BY <2>1, <3>5 DEF UnloadedIsUncounted
<1> QED
  BY <1>1, <1>2 DEF ServerInv, Server!TypeOK

\* The inductive invariant of the library, for any number of clients and sources.
LEMMA ServerInvariance == Server!Spec => []ServerInv
<1>1. Server!Init => ServerInv
  <2>1. ASSUME Server!Init
        PROVE  /\ HeldActivations = {} /\ CountedStreams = {}
               /\ CountedSources = {}
    BY <2>1 DEF Server!Init, Server!Free, HeldActivations, CountedStreams,
       CountedSources
  <2>2. ASSUME Server!Init PROVE CountIsRight
    BY <2>1, <2>2, FS_EmptySet DEF Server!Init, CountIsRight
  <2>3. ASSUME Server!Init PROVE Server!TypeOK
    BY <2>3, CameraAssumption DEF Server!Init, Server!TypeOK, Server!Free,
       Server!Stages, Server!ServerAssumption
  <2> QED
    BY <2>2, <2>3 DEF ServerInv, Server!Init, FreeIsEmpty, AttachedIsAlive,
       RunningIsCounted, UnloadedIsUncounted, Server!Free
<1>2. ServerInv /\ [Server!Next]_(Server!vars) => ServerInv'
  <2>1. ASSUME ServerInv, Server!Next PROVE ServerInv'
    BY <2>1, ServerTypeKept, CountKept, FreeKept, AttachedKept, RunningKept,
       UnloadedKept DEF ServerInv
  <2>2. ASSUME ServerInv, UNCHANGED Server!vars PROVE ServerInv'
    BY <2>2 DEF ServerInv, Server!vars, Server!TypeOK, CountIsRight,
       HeldActivations, CountedStreams, CountedSources, FreeIsEmpty,
       AttachedIsAlive, RunningIsCounted, Creating, UnloadedIsUncounted
  <2> QED
    BY <2>1, <2>2
<1> QED
  BY <1>1, <1>2, PTL DEF Server!Spec

\* An object that is alive is counted, so a count of zero says that nothing runs.
LEMMA ServerIsSafe == ServerInv => Server!TypeOK /\ Server!UnloadIsSafe
<1> SUFFICES ASSUME ServerInv
             PROVE  Server!UnloadIsSafe
  BY DEF ServerInv
<1>1. CASE objects = 0
  BY <1>1, UncountedIsEmpty DEF Server!UnloadIsSafe, Server!Nothing, Server!Gone,
     Server!Free
<1>2. ASSUME Server!Nothing PROVE objects = 0
  <2>1. HeldActivations = {} /\ CountedStreams = {} /\ CountedSources = {}
    BY <1>2 DEF Server!Nothing, Server!Gone, HeldActivations, CountedStreams,
       CountedSources
  <2> QED
    BY <1>2, <2>1, FS_EmptySet DEF ServerInv, CountIsRight, Server!Nothing
<1> QED
  BY <1>1, <1>2 DEF ServerInv, UnloadedIsUncounted, Server!UnloadIsSafe

\* A behaviour of the composition is a behaviour of the library.
LEMMA CameraRunsServer == CamSpec => Server!Spec
<1>1. CamInit => Server!Init
  BY DEF CamInit
<1>2. [CamNext]_<<part, mcVars, sampleVars, serverVars, fileVars, webcamVars,
                  negotiationVars>>
        => [Server!Next]_(Server!vars)
  BY DEF CamNext, serverVars, Server!vars
<1> QED
  BY <1>1, <1>2, PTL DEF CamSpec, Server!Spec

\* The library is unloaded only when no object of it is alive, no call is inside it
\* and no thread runs its code.
THEOREM LibraryUnloadsSafely == CamSpec => []UnloadIsSafe
<1>1. ServerInv => UnloadIsSafe
  BY ServerIsSafe DEF UnloadIsSafe
<1> QED
  BY <1>1, ServerInvariance, CameraRunsServer, PTL

----------------------------------------------------------------------------
\* The samples (CameraSource).

LiveFrames == [run : 1 .. MaxRun, seq : 1 .. MaxSequence]
Pictures == LiveFrames \cup {Samples!Off}

SampleTypeOK ==
    /\ view \in Pictures /\ converted \in Pictures
    /\ at \in [Callers -> {"idle", "type", "convert"}]
    /\ picture \in [Callers -> Pictures]
    /\ format \in [Callers -> Samples!Subtypes] /\ subtype \in Samples!Subtypes
    /\ sample \in [frame : Pictures, pixels : Pictures]

\* A live frame is of a run of the application, and has been published.
ViewIsPublished ==
    /\ published \in [0 .. MaxRun -> 0 .. MaxSequence] /\ bound \in 0 .. MaxRun
    /\ passed \in 0 .. MaxSequence /\ published[0] = 0

\* The pixels of a sample come from a publication of the number it shows.
NumberIsShown == sample.pixels.seq = sample.frame.seq

SampleInv == SampleTypeOK /\ ViewIsPublished /\ NumberIsShown

\* What the frames' transport does leaves the view a published picture.
LEMMA TransportKept ==
    ASSUME SampleInv, Samples!Transport
    PROVE  SampleInv'
<1> USE CameraAssumption
<1>1. UNCHANGED <<subtype, setting, converted, at, picture, format, sample>>
  BY DEF Samples!Transport, Samples!cameraVars
<1>2. ViewIsPublished' /\ view' \in Pictures
  <2> USE DEF SampleInv, SampleTypeOK, ViewIsPublished
  <2>1. CASE Samples!Publish
    BY <2>1 DEF Samples!Publish
  <2>2. CASE Samples!Take
    <3>1. PICK n \in 1 .. MaxSequence :
              /\ n <= published[bound] /\ passed' = n
              /\ view' \in {Samples!Off, [run |-> bound, seq |-> n]}
      BY <2>2 DEF Samples!Take
    <3>2. bound # 0
      BY <3>1
    <3>3. [run |-> bound, seq |-> n] \in LiveFrames
      BY <3>1, <3>2 DEF LiveFrames
    <3>4. UNCHANGED <<published, bound>>
      BY <2>2 DEF Samples!Take
    <3> QED
      BY <3>1, <3>3, <3>4 DEF Pictures
  <2>3. CASE Samples!Blank
    BY <2>3 DEF Samples!Blank, Pictures
  <2>4. CASE Samples!Connect
    BY <2>4 DEF Samples!Connect, Pictures
  <2> QED
    BY <2>1, <2>2, <2>3, <2>4 DEF Samples!Transport, Samples!Next
<1> QED
  BY <1>1, <1>2 DEF SampleInv, SampleTypeOK, NumberIsShown

\* A conversion gives a sample the pixels of the frame it read.
LEMMA ConvertKept ==
    ASSUME SampleInv, NEW c \in Callers, Samples!Convert(c)
    PROVE  SampleInv'
<1> USE DEF SampleInv, SampleTypeOK
<1>1. UNCHANGED <<published, bound, passed, view, subtype>>
  BY DEF Samples!Convert, Samples!vars
<1>2. Samples!Off \in Pictures /\ picture[c] \in Pictures /\ converted \in Pictures
  BY DEF Pictures
<1>3. /\ at' \in [Callers -> {"idle", "type", "convert"}]
      /\ picture' \in [Callers -> Pictures]
      /\ format' \in [Callers -> Samples!Subtypes]
  BY <1>2 DEF Samples!Convert, Samples!Subtypes
<1>4. /\ converted' \in Pictures /\ sample' \in [frame : Pictures, pixels : Pictures]
      /\ NumberIsShown'
  <2>1. CASE picture[c] = Samples!Off
    BY <1>2, <2>1 DEF Samples!Convert, NumberIsShown
  <2>2. CASE picture[c] # Samples!Off /\ format[c] = "RGB32"
    BY <1>2, <2>2 DEF Samples!Convert, NumberIsShown
  <2>3. CASE picture[c] # Samples!Off /\ format[c] = "NV12"
    <3>1. /\ converted' = IF converted.seq = picture[c].seq THEN converted
                          ELSE picture[c]
          /\ sample' = [frame |-> picture[c], pixels |-> converted']
      BY <2>3 DEF Samples!Convert, Samples!Kept
    <3> QED
      BY <1>2, <3>1 DEF NumberIsShown
  <2> QED
    BY <2>1, <2>2, <2>3 DEF Samples!Subtypes
<1> QED
  BY <1>1, <1>3, <1>4 DEF ViewIsPublished

\* The inductive invariant of the samples.
LEMMA SampleInvariance == Samples!CameraSpec => []SampleInv
<1>1. Samples!CameraInit => SampleInv
  BY CameraAssumption DEF Samples!CameraInit, Samples!Init, Samples!Off, SampleInv,
     SampleTypeOK, ViewIsPublished, NumberIsShown, Pictures, Samples!Subtypes
<1>2. SampleInv /\ [Samples!CameraNext]_(Samples!allVars) => SampleInv'
  <2> SUFFICES ASSUME SampleInv, [Samples!CameraNext]_(Samples!allVars)
               PROVE  SampleInv'
    OBVIOUS
  <2> USE DEF SampleInv, SampleTypeOK, ViewIsPublished, NumberIsShown
  <2>1. CASE Samples!Transport
    BY <2>1, TransportKept
  <2>2. CASE Samples!SetType
    BY <2>2 DEF Samples!SetType, Samples!vars
  <2>3. CASE Samples!ClearConverted
    BY <2>3 DEF Samples!ClearConverted, Samples!vars, Pictures
  <2>4. ASSUME NEW c \in Callers, Samples!ReadFrame(c)
        PROVE  SampleInv'
    BY <2>4 DEF Samples!ReadFrame, Samples!vars
  <2>5. ASSUME NEW c \in Callers, Samples!ReadType(c)
        PROVE  SampleInv'
    BY <2>5 DEF Samples!ReadType, Samples!vars
  <2>6. ASSUME NEW c \in Callers, Samples!Convert(c)
        PROVE  SampleInv'
    BY <2>6, ConvertKept
  <2>7. CASE UNCHANGED Samples!allVars
    BY <2>7 DEF Samples!allVars, Samples!vars, Samples!cameraVars
  <2> QED
    BY <2>1, <2>2, <2>3, <2>4, <2>5, <2>6, <2>7 DEF Samples!CameraNext
<1> QED
  BY <1>1, <1>2, PTL DEF Samples!CameraSpec

\* A behaviour of the composition is a behaviour of the samples.
LEMMA CameraRunsSamples == CamSpec => Samples!CameraSpec
<1>1. CamInit => Samples!CameraInit
  BY DEF CamInit
<1>2. [CamNext]_<<part, mcVars, sampleVars, serverVars, fileVars, webcamVars,
                  negotiationVars>>
        => [Samples!CameraNext]_(Samples!allVars)
  BY DEF CamNext, sampleVars, Samples!allVars, Samples!vars, Samples!cameraVars
<1> QED
  BY <1>1, <1>2, PTL DEF CamSpec, Samples!CameraSpec

\* A sample has the pixels of the frame its request read, or of the one another run
\* of the program gave the same number, for any number of runs: the kept conversion
\* goes by the number.
THEOREM SamplesShowTheirFrame == CamSpec => []SampleShowsItsFrame
<1>1. SampleInv => SampleShowsItsFrame
  <2> SUFFICES ASSUME SampleInv
               PROVE  Samples!SampleShowsItsFrame
    BY DEF SampleShowsItsFrame
  <2>1. /\ sample.frame \in Pictures /\ sample.pixels \in Pictures
        /\ sample.pixels.seq = sample.frame.seq
    BY DEF SampleInv, SampleTypeOK, NumberIsShown
  <2>2. \A f \in Pictures : f.seq = 0 => f = Samples!Off
    BY CameraAssumption DEF Pictures, LiveFrames, Samples!Off
  <2>3. \A f, g \in LiveFrames : f.seq = g.seq /\ f.run = g.run => f = g
    BY DEF LiveFrames
  <2>4. CASE Samples!Off \in {sample.frame, sample.pixels}
    BY <2>1, <2>2, <2>4 DEF Samples!SampleShowsItsFrame, Samples!Off
  <2>5. CASE Samples!Off \notin {sample.frame, sample.pixels}
    BY <2>1, <2>3, <2>5 DEF Samples!SampleShowsItsFrame, Pictures
  <2> QED
    BY <2>4, <2>5
<1> QED
  BY <1>1, SampleInvariance, CameraRunsSamples, PTL

----------------------------------------------------------------------------
\* The webcam's sessions (WebcamCapture).

Configures ==
    \/ step[Webcam!Owner] \in {"configure", "place reader"}
    \/ step[Webcam!Owner] \in {"reset count", "reset failure"} /\ goal = "run"

WebcamTypeOK ==
    /\ generation \in 0 .. MaxGeneration /\ running \in {"yes", "no"}
    /\ webcamReader \in 0 .. MaxGeneration
    /\ requested \in [Webcam!Sessions -> Nat]
    /\ step = [a \in Webcam!Actors |-> step[a]]
    /\ found \in [Webcam!Actors -> [kind : Webcam!Kinds, terminal : {"yes", "no"}]]
    /\ asked \in [Webcam!Actors -> 0 .. MaxGeneration]

\* A start that goes on has a generation left for its session.
GoalIsRight ==
    /\ goal = "start" => generation # 0 /\ generation < MaxGeneration
    /\ step[Webcam!Owner] = "open" => goal = "start"
    /\ step[Webcam!Owner] \in {"halt", "flush", "drop frame"}
         => goal \in {"stop", "start"}
    /\ Configures \/ step[Webcam!Owner] = "run" => generation \notin {0, 1}

\* Nobody has asked a reader of this session, nor is there one.
Unused(s) ==
    /\ step[s] = "idle" /\ requested[s] = 0 /\ webcamReader # s
    /\ \A a \in Webcam!Actors : asked[a] # s

\* Generations to come name no session yet, nor does the one being configured.
FutureIsUnused ==
    /\ \A s \in Webcam!Sessions : s > generation => Unused(s)
    /\ Configures => Unused(generation)

ServingSteps ==
    {"idle", "request", "read", "ask", "report", "count", "stop running"}

\* A reader that is in place before its session runs may have been asked by a
\* callback of an older session, whose sample comes to nothing.
ReadyToRun ==
    step[Webcam!Owner] = "run" =>
        /\ webcamReader = generation
        /\ step[generation] \in {"idle", "check"}

\* The owner's own failures end the session.
OwnerFails ==
    step[Webcam!Owner] \in {"report", "count", "stop running", "forget frame"}
        => found[Webcam!Owner].terminal = "yes"

\* The reader of the session is in place, and who asks for a sample asks it.
Served ==
    /\ step[Webcam!Owner] \in ServingSteps
    /\ generation # 0 /\ webcamReader = generation
    /\ step[generation] # "forget frame"
    /\ step[generation] = "ask" => asked[generation] = generation
    /\ step[Webcam!Owner] = "ask" => asked[Webcam!Owner] = generation
    /\ step[Webcam!Owner] = "idle"
         => requested[generation] > 0 \/ step[generation] # "idle"

Serving == running = "yes" => step[Webcam!Owner] = "halt" \/ Served

\* Before a second session can have been opened.
BeforeFirst ==
    \/ generation \in {0, 1}
    \/ generation = 2 /\ step[Webcam!Owner] \in {"halt", "flush", "drop frame", "open"}
    \/ /\ generation = 2 /\ goal # "run"
       /\ step[Webcam!Owner] \in {"reset count", "reset failure"}
    \/ generation \in {2, 3} /\ Configures

IsFirst == generation \in {1, 2, 3} /\ webcamReader = generation

\* In the first session only its own callback and the owner are at work, and the
\* owner has no failure to report unless its first request fails.
FirstReports ==
    IsFirst =>
       /\ step[Webcam!Owner] \in ServingSteps \cup {"run", "forget frame"}
       /\ step[Webcam!Owner] # "idle" =>
             step[generation] = "idle" /\ requested[generation] = 0
       /\ step[Webcam!Owner] \in {"request", "read", "ask", "report"}
             => running = "yes"
       /\ step[Webcam!Owner] \in {"count", "stop running", "forget frame"}
             => failure # "none"
       /\ step[Webcam!Owner] = "idle" /\ running = "no" =>
             /\ failure # "none"
             /\ step[generation] \in {"idle", "check", "forget frame", "request"}
       /\ step[generation] \in {"count", "stop running"} => failure # "none"

FirstIsAlone ==
    /\ BeforeFirst => \A s \in Webcam!Sessions : Unused(s)
    /\ IsFirst => \A s \in Webcam!Sessions : s # generation => Unused(s)

\* The reader in place is the current session's, but for a stop on its way to it.
ReaderIsCurrent ==
    /\ webcamReader \in {0, generation} \/ step[Webcam!Owner] \in {"halt", "flush"}
    /\ step[Webcam!Owner] \in {"drop frame", "reset count", "reset failure", "open",
                            "configure", "place reader"} => webcamReader = 0

WebcamInv ==
    /\ WebcamTypeOK /\ GoalIsRight
    /\ ReaderIsCurrent
    /\ FutureIsUnused
    /\ ReadyToRun
    /\ OwnerFails
    /\ Serving
    /\ FirstIsAlone
    /\ FirstReports

\* What the sessions are called.
LEMMA Names ==
    /\ Webcam!Sessions = 1 .. MaxGeneration /\ MaxGeneration \in Nat
    /\ Webcam!Owner = 0 /\ Webcam!None = 0
    /\ Webcam!Owner \in Webcam!Actors
    /\ Webcam!Sessions \subseteq Webcam!Actors
    /\ Webcam!Owner \notin Webcam!Sessions
    /\ \A a \in Webcam!Actors : a # Webcam!Owner => a \in Webcam!Sessions
    /\ WebcamTypeOK =>
          /\ generation \in Nat
          /\ generation # 0 => generation \in Webcam!Sessions
BY CameraAssumption DEF Webcam!Sessions, Webcam!Actors, Webcam!Owner, Webcam!None,
   Webcam!GenerationAssumption, WebcamTypeOK

\* Steps keep the shape of the variables.
LEMMA WebcamTypeKept ==
    ASSUME WebcamInv, Webcam!Next
    PROVE  WebcamTypeOK'
<1> USE DEF Webcam!Goto, Webcam!At, WebcamTypeOK, Webcam!Kinds
<1>0. /\ WebcamTypeOK /\ GoalIsRight
      /\ Webcam!Owner \in Webcam!Actors
      /\ Webcam!Sessions \subseteq Webcam!Actors
      /\ MaxGeneration \in Nat /\ Webcam!None = 0
  BY Names DEF WebcamInv
<1>1. ASSUME NEW purpose \in {"stop", "start"}, Webcam!BeginStop(purpose)
      PROVE  WebcamTypeOK'
  <2>1. generation' \in 0 .. MaxGeneration
    BY <1>0, <1>1 DEF Webcam!BeginStop
  <2> QED
    BY <1>0, <1>1, <2>1 DEF Webcam!BeginStop
<1>2. CASE Webcam!Halt
  BY <1>0, <1>2 DEF Webcam!Halt
<1>3. CASE Webcam!Flush
  <2>1. requested' \in [Webcam!Sessions -> Nat]
    BY <1>0, <1>3 DEF Webcam!Flush
  <2>2. step' = [a \in Webcam!Actors |-> step'[a]]
    <3>1. /\ step = [a \in Webcam!Actors |-> step[a]]
          /\ step' = [step EXCEPT ![Webcam!Owner] = "drop frame"]
      BY <1>0, <1>3 DEF Webcam!Flush
    <3> QED
      BY <3>1
  <2>3. webcamReader' \in 0 .. MaxGeneration
    <3>1. webcamReader' = Webcam!None
      BY <1>3 DEF Webcam!Flush
    <3> QED
      BY <1>0, <3>1
  <2>4. UNCHANGED <<generation, running, found, asked>>
    BY <1>0, <1>3 DEF Webcam!Flush
  <2> QED
    BY <1>0, <2>1, <2>2, <2>3, <2>4
<1>4. CASE Webcam!DropFrame
  BY <1>0, <1>4 DEF Webcam!DropFrame
<1>5. CASE Webcam!Open
  <2>1. generation' \in 0 .. MaxGeneration
    BY <1>0, <1>5 DEF Webcam!Open, GoalIsRight
  <2> QED
    BY <1>0, <1>5, <2>1 DEF Webcam!Open
<1>6. CASE Webcam!Configure
  BY <1>0, <1>6 DEF Webcam!Configure
<1>7. CASE Webcam!PlaceReader
  BY <1>0, <1>7 DEF Webcam!PlaceReader
<1>8. CASE Webcam!Go
  BY <1>0, <1>8 DEF Webcam!Go
<1>9. ASSUME NEW t \in Webcam!Sessions, Webcam!Deliver(t)
      PROVE  WebcamTypeOK'
  BY <1>0, <1>9 DEF Webcam!Deliver
<1>10. ASSUME NEW t \in Webcam!Sessions, Webcam!Check(t)
      PROVE  WebcamTypeOK'
  BY <1>0, <1>10 DEF Webcam!Check, Webcam!IsCurrent, Webcam!Fails
<1>11. ASSUME NEW t \in Webcam!Sessions, Webcam!Recheck(t)
      PROVE  WebcamTypeOK'
  BY <1>0, <1>11 DEF Webcam!Recheck, Webcam!IsCurrent
<1>12. ASSUME NEW t \in Webcam!Sessions, Webcam!Store(t)
      PROVE  WebcamTypeOK'
  BY <1>0, <1>12 DEF Webcam!Store
<1>13. ASSUME NEW b \in Webcam!Actors, Webcam!ResetCount(b)
      PROVE  WebcamTypeOK'
  BY <1>0, <1>13 DEF Webcam!ResetCount
<1>14. ASSUME NEW b \in Webcam!Actors, Webcam!ResetFailure(b)
      PROVE  WebcamTypeOK'
  BY <1>0, <1>14 DEF Webcam!ResetFailure, Webcam!AfterReset
<1>15. ASSUME NEW b \in Webcam!Actors, Webcam!Report(b)
      PROVE  WebcamTypeOK'
  BY <1>0, <1>15 DEF Webcam!Report
<1>16. ASSUME NEW b \in Webcam!Actors, Webcam!Count(b)
      PROVE  WebcamTypeOK'
  BY <1>0, <1>16 DEF Webcam!Count, Webcam!AfterFailure
<1>17. ASSUME NEW b \in Webcam!Actors, Webcam!StopRunning(b)
      PROVE  WebcamTypeOK'
  BY <1>0, <1>17 DEF Webcam!StopRunning
<1>18. ASSUME NEW b \in Webcam!Actors, Webcam!ForgetFrame(b)
      PROVE  WebcamTypeOK'
  BY <1>0, <1>18 DEF Webcam!ForgetFrame, Webcam!AfterFailure
<1>19. ASSUME NEW b \in Webcam!Actors, Webcam!Request(b)
      PROVE  WebcamTypeOK'
  BY <1>0, <1>19 DEF Webcam!Request, Webcam!IsCurrent
<1>20. ASSUME NEW b \in Webcam!Actors, Webcam!Read(b)
      PROVE  WebcamTypeOK'
  BY <1>0, <1>20 DEF Webcam!Read
<1>21. ASSUME NEW b \in Webcam!Actors, Webcam!Ask(b)
      PROVE  WebcamTypeOK'
  BY <1>0, <1>21 DEF Webcam!Ask, Webcam!Fails
<1> QED
  BY <1>0, <1>1, <1>2, <1>3, <1>4, <1>5, <1>6, <1>7, <1>8, <1>9, <1>10, <1>11,
     <1>12, <1>13, <1>14, <1>15, <1>16, <1>17, <1>18, <1>19, <1>20, <1>21
  DEF Webcam!Next, Webcam!OwnerGoesOn, Webcam!Callback, Webcam!Shared

\* A session is first asked for a sample when its reader is in place.
LEMMA UnusedStays ==
    ASSUME WebcamInv, Webcam!Next,
           NEW s \in Webcam!Sessions,
           Unused(s),
           ~(Webcam!PlaceReader /\ s = generation)
    PROVE  Unused(s)'
<1> USE DEF Webcam!Goto, Webcam!At, Unused
<1>0. /\ step = [a \in Webcam!Actors |-> step[a]] /\ requested \in [Webcam!Sessions -> Nat]
      /\ asked \in [Webcam!Actors -> 0 .. MaxGeneration]
      /\ Webcam!Owner \in Webcam!Actors /\ Webcam!Owner # s /\ s # Webcam!None
      /\ Webcam!Sessions \subseteq Webcam!Actors
  BY Names DEF WebcamInv, WebcamTypeOK
<1>1. ASSUME NEW purpose \in {"stop", "start"}, Webcam!BeginStop(purpose)
      PROVE  Unused(s)'
  BY <1>0, <1>1 DEF Webcam!BeginStop
<1>2. CASE Webcam!Halt
  BY <1>0, <1>2 DEF Webcam!Halt
<1>3. CASE Webcam!Flush
  BY <1>0, <1>3 DEF Webcam!Flush
<1>4. CASE Webcam!DropFrame
  BY <1>0, <1>4 DEF Webcam!DropFrame
<1>5. CASE Webcam!Open
  BY <1>0, <1>5 DEF Webcam!Open
<1>6. CASE Webcam!Configure
  BY <1>0, <1>6 DEF Webcam!Configure
<1>7. CASE Webcam!PlaceReader
  BY <1>0, <1>7 DEF Webcam!PlaceReader
<1>8. CASE Webcam!Go
  BY <1>0, <1>8 DEF Webcam!Go
<1>9. ASSUME NEW t \in Webcam!Sessions, Webcam!Deliver(t)
      PROVE  Unused(s)'
  BY <1>0, <1>9 DEF Webcam!Deliver
<1>10. ASSUME NEW t \in Webcam!Sessions, Webcam!Check(t)
      PROVE  Unused(s)'
  BY <1>0, <1>10 DEF Webcam!Check, Webcam!IsCurrent, Webcam!Fails
<1>11. ASSUME NEW t \in Webcam!Sessions, Webcam!Recheck(t)
      PROVE  Unused(s)'
  BY <1>0, <1>11 DEF Webcam!Recheck, Webcam!IsCurrent
<1>12. ASSUME NEW t \in Webcam!Sessions, Webcam!Store(t)
      PROVE  Unused(s)'
  BY <1>0, <1>12 DEF Webcam!Store
<1>13. ASSUME NEW b \in Webcam!Actors, Webcam!ResetCount(b)
      PROVE  Unused(s)'
  BY <1>0, <1>13 DEF Webcam!ResetCount
<1>14. ASSUME NEW b \in Webcam!Actors, Webcam!ResetFailure(b)
      PROVE  Unused(s)'
  BY <1>0, <1>14 DEF Webcam!ResetFailure, Webcam!AfterReset
<1>15. ASSUME NEW b \in Webcam!Actors, Webcam!Report(b)
      PROVE  Unused(s)'
  BY <1>0, <1>15 DEF Webcam!Report
<1>16. ASSUME NEW b \in Webcam!Actors, Webcam!Count(b)
      PROVE  Unused(s)'
  BY <1>0, <1>16 DEF Webcam!Count, Webcam!AfterFailure
<1>17. ASSUME NEW b \in Webcam!Actors, Webcam!StopRunning(b)
      PROVE  Unused(s)'
  BY <1>0, <1>17 DEF Webcam!StopRunning
<1>18. ASSUME NEW b \in Webcam!Actors, Webcam!ForgetFrame(b)
      PROVE  Unused(s)'
  BY <1>0, <1>18 DEF Webcam!ForgetFrame, Webcam!AfterFailure
<1>19. ASSUME NEW b \in Webcam!Actors, Webcam!Request(b)
      PROVE  Unused(s)'
  BY <1>0, <1>19 DEF Webcam!Request, Webcam!IsCurrent
<1>20. ASSUME NEW b \in Webcam!Actors, Webcam!Read(b)
      PROVE  Unused(s)'
  BY <1>0, <1>20 DEF Webcam!Read
<1>21. ASSUME NEW b \in Webcam!Actors, Webcam!Ask(b)
      PROVE  Unused(s)'
  BY <1>0, <1>21 DEF Webcam!Ask, Webcam!Fails
<1> QED
  BY <1>0, <1>1, <1>2, <1>3, <1>4, <1>5, <1>6, <1>7, <1>8, <1>9, <1>10, <1>11,
     <1>12, <1>13, <1>14, <1>15, <1>16, <1>17, <1>18, <1>19, <1>20, <1>21
  DEF Webcam!Next, Webcam!OwnerGoesOn, Webcam!Callback, Webcam!Shared

\* A start goes on only when a generation is left.
LEMMA GoalKept ==
    ASSUME WebcamInv, Webcam!Next
    PROVE  GoalIsRight'
<1> USE DEF Webcam!Goto, Webcam!At, GoalIsRight, Configures
<1>0. /\ GoalIsRight /\ MaxGeneration \in Nat /\ generation \in Nat
      /\ step = [a \in Webcam!Actors |-> step[a]]
      /\ Webcam!Owner \in Webcam!Actors
      /\ Webcam!Sessions \subseteq Webcam!Actors
      /\ Webcam!Owner \notin Webcam!Sessions
  BY Names DEF WebcamInv, WebcamTypeOK
<1>1. ASSUME NEW purpose \in {"stop", "start"}, Webcam!BeginStop(purpose)
      PROVE  GoalIsRight'
  BY <1>0, <1>1 DEF Webcam!BeginStop
<1>2. CASE Webcam!Halt
  BY <1>0, <1>2 DEF Webcam!Halt
<1>3. CASE Webcam!Flush
  BY <1>0, <1>3 DEF Webcam!Flush
<1>4. CASE Webcam!DropFrame
  BY <1>0, <1>4 DEF Webcam!DropFrame
<1>5. CASE Webcam!Open
  <2>1. CASE /\ UNCHANGED generation /\ goal' = "none"
            /\ step' = [step EXCEPT ![Webcam!Owner] = "idle"]
    BY <1>0, <2>1
  <2>2. CASE generation' = generation + 1 /\ goal' = "run"
    BY <1>0, <1>5, <2>2 DEF Webcam!Open
  <2> QED
    BY <1>5, <2>1, <2>2 DEF Webcam!Open
<1>6. CASE Webcam!Configure
  BY <1>0, <1>6 DEF Webcam!Configure
<1>7. CASE Webcam!PlaceReader
  BY <1>0, <1>7 DEF Webcam!PlaceReader
<1>8. CASE Webcam!Go
  BY <1>0, <1>8 DEF Webcam!Go
<1>9. ASSUME NEW t \in Webcam!Sessions, Webcam!Deliver(t)
      PROVE  GoalIsRight'
  BY <1>0, <1>9 DEF Webcam!Deliver
<1>10. ASSUME NEW t \in Webcam!Sessions, Webcam!Check(t)
      PROVE  GoalIsRight'
  BY <1>0, <1>10 DEF Webcam!Check, Webcam!IsCurrent, Webcam!Fails
<1>11. ASSUME NEW t \in Webcam!Sessions, Webcam!Recheck(t)
      PROVE  GoalIsRight'
  BY <1>0, <1>11 DEF Webcam!Recheck, Webcam!IsCurrent
<1>12. ASSUME NEW t \in Webcam!Sessions, Webcam!Store(t)
      PROVE  GoalIsRight'
  BY <1>0, <1>12 DEF Webcam!Store
<1>13. ASSUME NEW b \in Webcam!Actors, Webcam!ResetCount(b)
      PROVE  GoalIsRight'
  BY <1>0, <1>13 DEF Webcam!ResetCount
<1>14. ASSUME NEW b \in Webcam!Actors, Webcam!ResetFailure(b)
      PROVE  GoalIsRight'
  BY <1>0, <1>14 DEF Webcam!ResetFailure, Webcam!AfterReset
<1>15. ASSUME NEW b \in Webcam!Actors, Webcam!Report(b)
      PROVE  GoalIsRight'
  BY <1>0, <1>15 DEF Webcam!Report
<1>16. ASSUME NEW b \in Webcam!Actors, Webcam!Count(b)
      PROVE  GoalIsRight'
  BY <1>0, <1>16 DEF Webcam!Count, Webcam!AfterFailure
<1>17. ASSUME NEW b \in Webcam!Actors, Webcam!StopRunning(b)
      PROVE  GoalIsRight'
  BY <1>0, <1>17 DEF Webcam!StopRunning
<1>18. ASSUME NEW b \in Webcam!Actors, Webcam!ForgetFrame(b)
      PROVE  GoalIsRight'
  BY <1>0, <1>18 DEF Webcam!ForgetFrame, Webcam!AfterFailure
<1>19. ASSUME NEW b \in Webcam!Actors, Webcam!Request(b)
      PROVE  GoalIsRight'
  BY <1>0, <1>19 DEF Webcam!Request, Webcam!IsCurrent
<1>20. ASSUME NEW b \in Webcam!Actors, Webcam!Read(b)
      PROVE  GoalIsRight'
  BY <1>0, <1>20 DEF Webcam!Read
<1>21. ASSUME NEW b \in Webcam!Actors, Webcam!Ask(b)
      PROVE  GoalIsRight'
  BY <1>0, <1>21 DEF Webcam!Ask, Webcam!Fails
<1> QED
  BY <1>0, <1>1, <1>2, <1>3, <1>4, <1>5, <1>6, <1>7, <1>8, <1>9, <1>10, <1>11,
     <1>12, <1>13, <1>14, <1>15, <1>16, <1>17, <1>18, <1>19, <1>20, <1>21
  DEF Webcam!Next, Webcam!OwnerGoesOn, Webcam!Callback, Webcam!Shared

\* The owner fails in its first request only.
LEMMA OwnerFailsKept ==
    ASSUME WebcamInv, Webcam!Next
    PROVE  OwnerFails'
<1> USE DEF Webcam!Goto, Webcam!At, OwnerFails
<1>0. /\ generation \in Nat /\ running \in {"yes", "no"}
      /\ step = [a \in Webcam!Actors |-> step[a]]
      /\ requested \in [Webcam!Sessions -> Nat]
      /\ asked \in [Webcam!Actors -> 0 .. MaxGeneration]
      /\ Webcam!Owner \in Webcam!Actors
      /\ Webcam!Sessions \subseteq Webcam!Actors
      /\ Webcam!Owner \notin Webcam!Sessions /\ Webcam!None = 0
      /\ generation # 0 => generation \in Webcam!Sessions
  BY Names DEF WebcamInv, WebcamTypeOK
<1>ii. /\ OwnerFails
       /\ found \in [Webcam!Actors -> [kind : Webcam!Kinds, terminal : {"yes", "no"}]]
  BY DEF WebcamInv, WebcamTypeOK
<1>1. ASSUME NEW purpose \in {"stop", "start"}, Webcam!BeginStop(purpose)
      PROVE  OwnerFails'
  BY <1>0, <1>1, <1>ii DEF Webcam!BeginStop
<1>2. CASE Webcam!Halt
  BY <1>0, <1>2, <1>ii DEF Webcam!Halt
<1>3. CASE Webcam!Flush
  BY <1>0, <1>3, <1>ii DEF Webcam!Flush
<1>4. CASE Webcam!DropFrame
  BY <1>0, <1>4, <1>ii DEF Webcam!DropFrame
<1>5. CASE Webcam!Open
  BY <1>0, <1>5, <1>ii DEF Webcam!Open
<1>6. CASE Webcam!Configure
  BY <1>0, <1>6, <1>ii DEF Webcam!Configure
<1>7. CASE Webcam!PlaceReader
  BY <1>0, <1>7, <1>ii DEF Webcam!PlaceReader
<1>8. CASE Webcam!Go
  BY <1>0, <1>8, <1>ii DEF Webcam!Go
<1>9. ASSUME NEW t \in Webcam!Sessions, Webcam!Deliver(t)
      PROVE  OwnerFails'
  BY <1>0, <1>9, <1>ii DEF Webcam!Deliver
<1>10. ASSUME NEW t \in Webcam!Sessions, Webcam!Check(t)
      PROVE  OwnerFails'
  <2>1. found'[Webcam!Owner] = found[Webcam!Owner]
    BY <1>0, <1>ii, <1>10 DEF Webcam!Check, Webcam!Fails
  <2>2. step'[Webcam!Owner] = step[Webcam!Owner]
    BY <1>0, <1>10 DEF Webcam!Check, Webcam!Fails
  <2> QED
    BY <1>ii, <2>1, <2>2
<1>11. ASSUME NEW t \in Webcam!Sessions, Webcam!Recheck(t)
      PROVE  OwnerFails'
  BY <1>0, <1>11, <1>ii DEF Webcam!Recheck, Webcam!IsCurrent
<1>12. ASSUME NEW t \in Webcam!Sessions, Webcam!Store(t)
      PROVE  OwnerFails'
  BY <1>0, <1>12, <1>ii DEF Webcam!Store
<1>13. ASSUME NEW b \in Webcam!Actors, Webcam!ResetCount(b)
      PROVE  OwnerFails'
  BY <1>0, <1>13, <1>ii DEF Webcam!ResetCount
<1>14. ASSUME NEW b \in Webcam!Actors, Webcam!ResetFailure(b)
      PROVE  OwnerFails'
  BY <1>0, <1>14, <1>ii DEF Webcam!ResetFailure, Webcam!AfterReset
<1>15. ASSUME NEW b \in Webcam!Actors, Webcam!Report(b)
      PROVE  OwnerFails'
  BY <1>0, <1>15, <1>ii DEF Webcam!Report
<1>16. ASSUME NEW b \in Webcam!Actors, Webcam!Count(b)
      PROVE  OwnerFails'
  BY <1>0, <1>16, <1>ii DEF Webcam!Count, Webcam!AfterFailure
<1>17. ASSUME NEW b \in Webcam!Actors, Webcam!StopRunning(b)
      PROVE  OwnerFails'
  BY <1>0, <1>17, <1>ii DEF Webcam!StopRunning
<1>18. ASSUME NEW b \in Webcam!Actors, Webcam!ForgetFrame(b)
      PROVE  OwnerFails'
  BY <1>0, <1>18, <1>ii DEF Webcam!ForgetFrame, Webcam!AfterFailure
<1>19. ASSUME NEW b \in Webcam!Actors, Webcam!Request(b)
      PROVE  OwnerFails'
  BY <1>0, <1>19, <1>ii DEF Webcam!Request, Webcam!IsCurrent
<1>20. ASSUME NEW b \in Webcam!Actors, Webcam!Read(b)
      PROVE  OwnerFails'
  BY <1>0, <1>20, <1>ii DEF Webcam!Read
<1>21. ASSUME NEW b \in Webcam!Actors, Webcam!Ask(b)
      PROVE  OwnerFails'
  <2>1. CASE b = Webcam!Owner /\ Webcam!Fails(b, "yes")
    <3>1. found'[b].terminal = "yes"
      <4> HIDE DEF OwnerFails
      <4>1. PICK kind \in Webcam!Kinds :
               found' = [found EXCEPT ![b] = [kind |-> kind, terminal |-> "yes"]]
        BY <2>1 DEF Webcam!Fails
      <4> QED
        BY <1>ii, <4>1
    <3> QED
      BY <2>1, <3>1
  <2>2. CASE b = Webcam!Owner /\ step' = [step EXCEPT ![b] = "idle"]
    BY <1>0, <2>2
  <2>3. CASE b # Webcam!Owner
    <3>1. found'[Webcam!Owner] = found[Webcam!Owner]
      BY <1>0, <1>ii, <2>3, <1>21 DEF Webcam!Ask, Webcam!Fails
    <3>2. step'[Webcam!Owner] = step[Webcam!Owner]
      BY <1>0, <2>3, <1>21 DEF Webcam!Ask, Webcam!Fails
    <3> QED
      BY <1>ii, <3>1, <3>2
  <2> QED
    BY <1>21, <2>1, <2>2, <2>3 DEF Webcam!Ask
<1> QED
  BY <1>0, <1>1, <1>2, <1>3, <1>4, <1>5, <1>6, <1>7, <1>8, <1>9, <1>10, <1>11,
     <1>12, <1>13, <1>14, <1>15, <1>16, <1>17, <1>18, <1>19, <1>20, <1>21
  DEF Webcam!Next, Webcam!OwnerGoesOn, Webcam!Callback, Webcam!Shared

\* A session starts from rest.
LEMMA ReadyKept ==
    ASSUME WebcamInv, Webcam!Next
    PROVE  ReadyToRun'
<1> USE DEF Webcam!Goto, Webcam!At, ReadyToRun
<1>0. /\ generation \in Nat /\ running \in {"yes", "no"}
      /\ step = [a \in Webcam!Actors |-> step[a]]
      /\ requested \in [Webcam!Sessions -> Nat]
      /\ asked \in [Webcam!Actors -> 0 .. MaxGeneration]
      /\ Webcam!Owner \in Webcam!Actors
      /\ Webcam!Sessions \subseteq Webcam!Actors
      /\ Webcam!Owner \notin Webcam!Sessions /\ Webcam!None = 0
      /\ generation # 0 => generation \in Webcam!Sessions
  BY Names DEF WebcamInv, WebcamTypeOK
<1>ii. /\ step[Webcam!Owner] = "run" =>
             /\ webcamReader = generation /\ running = "no" /\ generation # 0
             /\ step[generation] \in {"idle", "check"}
       /\ step[Webcam!Owner] = "place reader" =>
             generation # 0 /\ step[generation] = "idle"
  BY <1>0 DEF WebcamInv, Serving, Served, ServingSteps, FutureIsUnused, GoalIsRight,
     Configures, Unused, ReadyToRun
<1>1. ASSUME NEW purpose \in {"stop", "start"}, Webcam!BeginStop(purpose)
      PROVE  ReadyToRun'
  BY <1>0, <1>1, <1>ii DEF Webcam!BeginStop
<1>2. CASE Webcam!Halt
  BY <1>0, <1>2, <1>ii DEF Webcam!Halt
<1>3. CASE Webcam!Flush
  BY <1>0, <1>3, <1>ii DEF Webcam!Flush
<1>4. CASE Webcam!DropFrame
  BY <1>0, <1>4, <1>ii DEF Webcam!DropFrame
<1>5. CASE Webcam!Open
  BY <1>0, <1>5, <1>ii DEF Webcam!Open
<1>6. CASE Webcam!Configure
  BY <1>0, <1>6, <1>ii DEF Webcam!Configure
<1>7. CASE Webcam!PlaceReader
  BY <1>0, <1>7, <1>ii DEF Webcam!PlaceReader
<1>8. CASE Webcam!Go
  BY <1>0, <1>8, <1>ii DEF Webcam!Go
<1>9. ASSUME NEW t \in Webcam!Sessions, Webcam!Deliver(t)
      PROVE  ReadyToRun'
  BY <1>0, <1>9, <1>ii DEF Webcam!Deliver
<1>10. ASSUME NEW t \in Webcam!Sessions, Webcam!Check(t)
      PROVE  ReadyToRun'
  BY <1>0, <1>10, <1>ii DEF Webcam!Check, Webcam!IsCurrent, Webcam!Fails
<1>11. ASSUME NEW t \in Webcam!Sessions, Webcam!Recheck(t)
      PROVE  ReadyToRun'
  BY <1>0, <1>11, <1>ii DEF Webcam!Recheck, Webcam!IsCurrent
<1>12. ASSUME NEW t \in Webcam!Sessions, Webcam!Store(t)
      PROVE  ReadyToRun'
  BY <1>0, <1>12, <1>ii DEF Webcam!Store
<1>13. ASSUME NEW b \in Webcam!Actors, Webcam!ResetCount(b)
      PROVE  ReadyToRun'
  BY <1>0, <1>13, <1>ii DEF Webcam!ResetCount
<1>14. ASSUME NEW b \in Webcam!Actors, Webcam!ResetFailure(b)
      PROVE  ReadyToRun'
  BY <1>0, <1>14, <1>ii DEF Webcam!ResetFailure, Webcam!AfterReset
<1>15. ASSUME NEW b \in Webcam!Actors, Webcam!Report(b)
      PROVE  ReadyToRun'
  BY <1>0, <1>15, <1>ii DEF Webcam!Report
<1>16. ASSUME NEW b \in Webcam!Actors, Webcam!Count(b)
      PROVE  ReadyToRun'
  BY <1>0, <1>16, <1>ii DEF Webcam!Count, Webcam!AfterFailure
<1>17. ASSUME NEW b \in Webcam!Actors, Webcam!StopRunning(b)
      PROVE  ReadyToRun'
  BY <1>0, <1>17, <1>ii DEF Webcam!StopRunning
<1>18. ASSUME NEW b \in Webcam!Actors, Webcam!ForgetFrame(b)
      PROVE  ReadyToRun'
  BY <1>0, <1>18, <1>ii DEF Webcam!ForgetFrame, Webcam!AfterFailure
<1>19. ASSUME NEW b \in Webcam!Actors, Webcam!Request(b)
      PROVE  ReadyToRun'
  BY <1>0, <1>19, <1>ii DEF Webcam!Request, Webcam!IsCurrent
<1>20. ASSUME NEW b \in Webcam!Actors, Webcam!Read(b)
      PROVE  ReadyToRun'
  BY <1>0, <1>20, <1>ii DEF Webcam!Read
<1>21. ASSUME NEW b \in Webcam!Actors, Webcam!Ask(b)
      PROVE  ReadyToRun'
  BY <1>0, <1>21, <1>ii DEF Webcam!Ask, Webcam!Fails
<1> QED
  BY <1>0, <1>1, <1>2, <1>3, <1>4, <1>5, <1>6, <1>7, <1>8, <1>9, <1>10, <1>11,
     <1>12, <1>13, <1>14, <1>15, <1>16, <1>17, <1>18, <1>19, <1>20, <1>21
  DEF Webcam!Next, Webcam!OwnerGoesOn, Webcam!Callback, Webcam!Shared

\* A session is configured from the generation that was taken for it.
LEMMA ConfiguresBefore ==
    ASSUME WebcamInv, Webcam!Next,
           Configures'
    PROVE  \/ generation' = generation + 1
           \/ Configures /\ UNCHANGED generation
<1> USE DEF Webcam!Goto, Webcam!At, Configures
<1>0. /\ generation \in Nat /\ running \in {"yes", "no"}
      /\ step = [a \in Webcam!Actors |-> step[a]]
      /\ requested \in [Webcam!Sessions -> Nat]
      /\ asked \in [Webcam!Actors -> 0 .. MaxGeneration]
      /\ Webcam!Owner \in Webcam!Actors
      /\ Webcam!Sessions \subseteq Webcam!Actors
      /\ Webcam!Owner \notin Webcam!Sessions /\ Webcam!None = 0
      /\ generation # 0 => generation \in Webcam!Sessions
  BY Names DEF WebcamInv, WebcamTypeOK
<1>ii. Configures' /\ GoalIsRight
  BY DEF WebcamInv
<1>1. ASSUME NEW purpose \in {"stop", "start"}, Webcam!BeginStop(purpose)
      PROVE  \/ generation' = generation + 1
             \/ Configures /\ UNCHANGED generation
  BY <1>0, <1>1, <1>ii DEF Webcam!BeginStop
<1>2. CASE Webcam!Halt
  BY <1>0, <1>2, <1>ii DEF Webcam!Halt
<1>3. CASE Webcam!Flush
  BY <1>0, <1>3, <1>ii DEF Webcam!Flush
<1>4. CASE Webcam!DropFrame
  BY <1>0, <1>ii, <1>4 DEF Webcam!DropFrame, GoalIsRight
<1>5. CASE Webcam!Open
  BY <1>0, <1>5, <1>ii DEF Webcam!Open
<1>6. CASE Webcam!Configure
  BY <1>0, <1>6, <1>ii DEF Webcam!Configure
<1>7. CASE Webcam!PlaceReader
  BY <1>0, <1>7, <1>ii DEF Webcam!PlaceReader
<1>8. CASE Webcam!Go
  BY <1>0, <1>8, <1>ii DEF Webcam!Go
<1>9. ASSUME NEW t \in Webcam!Sessions, Webcam!Deliver(t)
      PROVE  \/ generation' = generation + 1
             \/ Configures /\ UNCHANGED generation
  BY <1>0, <1>9, <1>ii DEF Webcam!Deliver
<1>10. ASSUME NEW t \in Webcam!Sessions, Webcam!Check(t)
      PROVE  \/ generation' = generation + 1
             \/ Configures /\ UNCHANGED generation
  BY <1>0, <1>10, <1>ii DEF Webcam!Check, Webcam!IsCurrent, Webcam!Fails
<1>11. ASSUME NEW t \in Webcam!Sessions, Webcam!Recheck(t)
      PROVE  \/ generation' = generation + 1
             \/ Configures /\ UNCHANGED generation
  BY <1>0, <1>11, <1>ii DEF Webcam!Recheck, Webcam!IsCurrent
<1>12. ASSUME NEW t \in Webcam!Sessions, Webcam!Store(t)
      PROVE  \/ generation' = generation + 1
             \/ Configures /\ UNCHANGED generation
  BY <1>0, <1>12, <1>ii DEF Webcam!Store
<1>13. ASSUME NEW b \in Webcam!Actors, Webcam!ResetCount(b)
      PROVE  \/ generation' = generation + 1
             \/ Configures /\ UNCHANGED generation
  BY <1>0, <1>13, <1>ii DEF Webcam!ResetCount
<1>14. ASSUME NEW b \in Webcam!Actors, Webcam!ResetFailure(b)
      PROVE  \/ generation' = generation + 1
             \/ Configures /\ UNCHANGED generation
  BY <1>0, <1>14, <1>ii DEF Webcam!ResetFailure, Webcam!AfterReset
<1>15. ASSUME NEW b \in Webcam!Actors, Webcam!Report(b)
      PROVE  \/ generation' = generation + 1
             \/ Configures /\ UNCHANGED generation
  BY <1>0, <1>15, <1>ii DEF Webcam!Report
<1>16. ASSUME NEW b \in Webcam!Actors, Webcam!Count(b)
      PROVE  \/ generation' = generation + 1
             \/ Configures /\ UNCHANGED generation
  BY <1>0, <1>16, <1>ii DEF Webcam!Count, Webcam!AfterFailure
<1>17. ASSUME NEW b \in Webcam!Actors, Webcam!StopRunning(b)
      PROVE  \/ generation' = generation + 1
             \/ Configures /\ UNCHANGED generation
  BY <1>0, <1>17, <1>ii DEF Webcam!StopRunning
<1>18. ASSUME NEW b \in Webcam!Actors, Webcam!ForgetFrame(b)
      PROVE  \/ generation' = generation + 1
             \/ Configures /\ UNCHANGED generation
  BY <1>0, <1>18, <1>ii DEF Webcam!ForgetFrame, Webcam!AfterFailure
<1>19. ASSUME NEW b \in Webcam!Actors, Webcam!Request(b)
      PROVE  \/ generation' = generation + 1
             \/ Configures /\ UNCHANGED generation
  BY <1>0, <1>19, <1>ii DEF Webcam!Request, Webcam!IsCurrent
<1>20. ASSUME NEW b \in Webcam!Actors, Webcam!Read(b)
      PROVE  \/ generation' = generation + 1
             \/ Configures /\ UNCHANGED generation
  BY <1>0, <1>20, <1>ii DEF Webcam!Read
<1>21. ASSUME NEW b \in Webcam!Actors, Webcam!Ask(b)
      PROVE  \/ generation' = generation + 1
             \/ Configures /\ UNCHANGED generation
  BY <1>0, <1>21, <1>ii DEF Webcam!Ask, Webcam!Fails
<1> QED
  BY <1>0, <1>1, <1>2, <1>3, <1>4, <1>5, <1>6, <1>7, <1>8, <1>9, <1>10, <1>11,
     <1>12, <1>13, <1>14, <1>15, <1>16, <1>17, <1>18, <1>19, <1>20, <1>21
  DEF Webcam!Next, Webcam!OwnerGoesOn, Webcam!Callback, Webcam!Shared

\* Generations are taken by stop and start alone.
LEMMA FutureKept ==
    ASSUME WebcamInv, Webcam!Next
    PROVE  FutureIsUnused'
<1>0. /\ generation \in Nat /\ FutureIsUnused
      /\ Webcam!PlaceReader => Configures
  BY Names DEF WebcamInv, Webcam!PlaceReader, Webcam!At, Configures
<1>1. generation' \in {generation, generation + 1}
  BY DEF Webcam!Next, Webcam!BeginStop, Webcam!OwnerGoesOn, Webcam!Halt, Webcam!Flush,
     Webcam!DropFrame, Webcam!Open, Webcam!Configure, Webcam!PlaceReader, Webcam!Go,
     Webcam!Deliver,
     Webcam!Callback, Webcam!Check, Webcam!Recheck, Webcam!Store, Webcam!Shared,
     Webcam!ResetCount, Webcam!ResetFailure, Webcam!Report, Webcam!Count,
     Webcam!StopRunning, Webcam!ForgetFrame, Webcam!Request, Webcam!Read,
     Webcam!Ask
<1>2. ASSUME NEW s \in Webcam!Sessions, s > generation
      PROVE  Unused(s)'
  <2>1. ~(Webcam!PlaceReader /\ s = generation)
    BY <1>0, <1>2
  <2> QED
    BY <1>0, <1>2, <2>1, UnusedStays DEF FutureIsUnused
<1>3. \A s \in Webcam!Sessions : s > generation' => Unused(s)'
  BY <1>0, <1>1, <1>2, Names
<1>4. ASSUME Configures'
      PROVE  Unused(generation)'
  <2>1. generation' \in Webcam!Sessions
    <3>1. generation' # 0
      BY <1>4, GoalKept DEF GoalIsRight
    <3> QED
      BY <3>1, WebcamTypeKept, Names DEF WebcamTypeOK
  <2>2. CASE generation' = generation + 1
    BY <1>0, <1>2, <2>1, <2>2
  <2>3. CASE Configures /\ UNCHANGED generation
    <3>1. ~Webcam!PlaceReader
      BY <1>4, Names DEF Webcam!PlaceReader, Webcam!At, Webcam!Goto, Configures,
         WebcamInv, WebcamTypeOK
    <3> QED
      BY <1>0, <2>1, <2>3, <3>1, UnusedStays DEF FutureIsUnused
  <2> QED
    BY <1>4, <2>2, <2>3, ConfiguresBefore
<1> QED
  BY <1>3, <1>4 DEF FutureIsUnused

\* Whoever takes a sample from a session that runs asks for the next.
LEMMA ServedKept ==
    ASSUME WebcamInv, Webcam!Next,
           running' = "yes",
           step'[Webcam!Owner] # "halt"
    PROVE  Served'
<1> USE DEF Webcam!Goto, Webcam!At, Served, ServingSteps
<1>0. /\ generation \in Nat /\ running \in {"yes", "no"}
      /\ step = [a \in Webcam!Actors |-> step[a]]
      /\ requested \in [Webcam!Sessions -> Nat]
      /\ asked \in [Webcam!Actors -> 0 .. MaxGeneration]
      /\ Webcam!Owner \in Webcam!Actors
      /\ Webcam!Sessions \subseteq Webcam!Actors
      /\ Webcam!Owner \notin Webcam!Sessions /\ Webcam!None = 0
      /\ generation # 0 => generation \in Webcam!Sessions
  BY Names DEF WebcamInv, WebcamTypeOK
<1>ii. /\ running = "yes" => step[Webcam!Owner] = "halt" \/ Served
       /\ step[Webcam!Owner] = "run" =>
             /\ generation # 0 /\ webcamReader = generation
             /\ step[generation] \in {"idle", "check"}
       /\ step[Webcam!Owner] \in {"report", "count"} =>
             found[Webcam!Owner].terminal = "yes"
  BY DEF WebcamInv, Serving, ReadyToRun, OwnerFails, GoalIsRight
<1>1. ASSUME NEW purpose \in {"stop", "start"}, Webcam!BeginStop(purpose)
      PROVE  Served'
  BY <1>0, <1>1, <1>ii DEF Webcam!BeginStop
<1>2. CASE Webcam!Halt
  BY <1>0, <1>2, <1>ii DEF Webcam!Halt
<1>3. CASE Webcam!Flush
  BY <1>0, <1>3, <1>ii DEF Webcam!Flush
<1>4. CASE Webcam!DropFrame
  BY <1>0, <1>4, <1>ii DEF Webcam!DropFrame
<1>5. CASE Webcam!Open
  BY <1>0, <1>5, <1>ii DEF Webcam!Open
<1>6. CASE Webcam!Configure
  BY <1>0, <1>6, <1>ii DEF Webcam!Configure
<1>7. CASE Webcam!PlaceReader
  BY <1>0, <1>7, <1>ii DEF Webcam!PlaceReader
<1>8. CASE Webcam!Go
  BY <1>0, <1>8, <1>ii DEF Webcam!Go
<1>9. ASSUME NEW t \in Webcam!Sessions, Webcam!Deliver(t)
      PROVE  Served'
  BY <1>0, <1>9, <1>ii DEF Webcam!Deliver
<1>10. ASSUME NEW t \in Webcam!Sessions, Webcam!Check(t)
      PROVE  Served'
  BY <1>0, <1>10, <1>ii DEF Webcam!Check, Webcam!IsCurrent, Webcam!Fails
<1>11. ASSUME NEW t \in Webcam!Sessions, Webcam!Recheck(t)
      PROVE  Served'
  BY <1>0, <1>11, <1>ii DEF Webcam!Recheck, Webcam!IsCurrent
<1>12. ASSUME NEW t \in Webcam!Sessions, Webcam!Store(t)
      PROVE  Served'
  BY <1>0, <1>12, <1>ii DEF Webcam!Store
<1>13. ASSUME NEW b \in Webcam!Actors, Webcam!ResetCount(b)
      PROVE  Served'
  BY <1>0, <1>13, <1>ii DEF Webcam!ResetCount
<1>14. ASSUME NEW b \in Webcam!Actors, Webcam!ResetFailure(b)
      PROVE  Served'
  BY <1>0, <1>14, <1>ii DEF Webcam!ResetFailure, Webcam!AfterReset
<1>15. ASSUME NEW b \in Webcam!Actors, Webcam!Report(b)
      PROVE  Served'
  BY <1>0, <1>15, <1>ii DEF Webcam!Report
<1>16. ASSUME NEW b \in Webcam!Actors, Webcam!Count(b)
      PROVE  Served'
  BY <1>0, <1>16, <1>ii DEF Webcam!Count, Webcam!AfterFailure
<1>17. ASSUME NEW b \in Webcam!Actors, Webcam!StopRunning(b)
      PROVE  Served'
  BY <1>0, <1>17, <1>ii DEF Webcam!StopRunning
<1>18. ASSUME NEW b \in Webcam!Actors, Webcam!ForgetFrame(b)
      PROVE  Served'
  BY <1>0, <1>18, <1>ii DEF Webcam!ForgetFrame, Webcam!AfterFailure
<1>19. ASSUME NEW b \in Webcam!Actors, Webcam!Request(b)
      PROVE  Served'
  BY <1>0, <1>19, <1>ii DEF Webcam!Request, Webcam!IsCurrent
<1>20. ASSUME NEW b \in Webcam!Actors, Webcam!Read(b)
      PROVE  Served'
  BY <1>0, <1>20, <1>ii DEF Webcam!Read
<1>21. ASSUME NEW b \in Webcam!Actors, Webcam!Ask(b)
      PROVE  Served'
  <2>s0. /\ step[b] = "ask" /\ UNCHANGED <<generation, running, webcamReader>>
         /\ asked' = [asked EXCEPT ![b] = 0]
         /\ \/ /\ requested' = [requested EXCEPT ![asked[b]] = requested[asked[b]] + 1]
               /\ step' = [step EXCEPT ![b] = "idle"]
            \/ /\ requested' = requested /\ step' = [step EXCEPT ![b] = "report"]
    BY <1>0, <1>21 DEF Webcam!Ask, Webcam!Fails
  <2>t0. step[Webcam!Owner] # "halt"
    BY <1>0, <2>s0
  <2>t1. Served /\ generation \in Webcam!Sessions
    BY <1>0, <1>ii, <2>s0, <2>t0
  <2>t2. /\ \A s \in Webcam!Sessions : requested'[s] \in Nat /\ requested'[s] >= requested[s]
         /\ \A a \in Webcam!Actors : a # b => step'[a] = step[a] /\ asked'[a] = asked[a]
         /\ step'[b] \in {"idle", "report"}
         /\ step'[b] = "idle" /\ asked[b] \in Webcam!Sessions
              => requested'[asked[b]] = requested[asked[b]] + 1
    <3>1. \A s \in Webcam!Sessions : requested'[s] \in Nat /\ requested'[s] >= requested[s]
      BY <1>0, <2>s0
    <3>2. \A a \in Webcam!Actors : a # b => step'[a] = step[a] /\ asked'[a] = asked[a]
      BY <1>0, <2>s0
    <3>3. step'[b] \in {"idle", "report"}
      BY <1>0, <2>s0
    <3>4. step'[b] = "idle" /\ asked[b] \in Webcam!Sessions
             => requested'[asked[b]] = requested[asked[b]] + 1
      <4>1. CASE step' = [step EXCEPT ![b] = "report"]
        BY <1>0, <4>1
      <4>2. CASE requested' = [requested EXCEPT ![asked[b]] = requested[asked[b]] + 1]
        <5>1. requested \in [Webcam!Sessions -> Nat]
          BY <1>0
        <5> QED
          BY <4>2, <5>1
      <4> QED
        BY <2>s0, <4>1, <4>2
    <3> QED
      BY <3>1, <3>2, <3>3, <3>4
  <2>t3. requested[generation] \in Nat
    BY <1>0, <2>t1
  <2>1. CASE b = Webcam!Owner
    <3>1. asked[b] = generation /\ generation # b
      BY <1>0, <2>s0, <2>t1, <2>1
    <3>2. step'[b] = "idle" => requested'[generation] > 0
      <4>1. step'[b] = "idle" => requested'[generation] = requested[generation] + 1
        BY <2>t1, <2>t2, <3>1
      <4> HIDE DEF Served
      <4> QED
        BY <2>t3, <4>1
    <3>3. step'[generation] = step[generation] /\ asked'[generation] = asked[generation]
      BY <1>0, <2>t1, <2>t2, <3>1
    <3> QED
      BY <2>s0, <2>t1, <2>t2, <2>1, <3>1, <3>2, <3>3
  <2>2. CASE b = generation
    <3>1. asked[b] = generation /\ Webcam!Owner # b
      BY <1>0, <2>s0, <2>t1, <2>2
    <3>2. step'[b] = "idle" => requested'[generation] > 0
      <4>1. step'[b] = "idle" => requested'[generation] = requested[generation] + 1
        BY <2>t1, <2>t2, <3>1
      <4> HIDE DEF Served
      <4> QED
        BY <2>t3, <4>1
    <3>3. step'[Webcam!Owner] = step[Webcam!Owner] /\ asked'[Webcam!Owner] = asked[Webcam!Owner]
      BY <1>0, <2>t2, <3>1
    <3> QED
      BY <2>s0, <2>t1, <2>t2, <2>2, <3>1, <3>2, <3>3
  <2>3. CASE b # Webcam!Owner /\ b # generation
    <3>1. /\ step'[Webcam!Owner] = step[Webcam!Owner]
          /\ asked'[Webcam!Owner] = asked[Webcam!Owner]
          /\ step'[generation] = step[generation]
          /\ asked'[generation] = asked[generation]
      BY <1>0, <2>t1, <2>t2, <2>3
    <3>2. requested[generation] > 0 => requested'[generation] > 0
      <4>1. requested'[generation] \in Nat /\ requested'[generation] >= requested[generation]
        BY <2>t1, <2>t2
      <4> QED
        BY <2>t3, <4>1
    <3> QED
      BY <2>s0, <2>t1, <3>1, <3>2
  <2> QED
    BY <2>1, <2>2, <2>3
<1> QED
  BY <1>0, <1>1, <1>2, <1>3, <1>4, <1>5, <1>6, <1>7, <1>8, <1>9, <1>10, <1>11,
     <1>12, <1>13, <1>14, <1>15, <1>16, <1>17, <1>18, <1>19, <1>20, <1>21
  DEF Webcam!Next, Webcam!OwnerGoesOn, Webcam!Callback, Webcam!Shared

\* Between two steps of the owner a session that runs is served.
LEMMA ServingKept ==
    ASSUME WebcamInv, Webcam!Next
    PROVE  Serving'
BY ServedKept DEF Serving

\* The first session is opened once.
LEMMA BeforeStays ==
    ASSUME WebcamInv, Webcam!Next,
           BeforeFirst'
    PROVE  BeforeFirst
<1> USE DEF Webcam!Goto, Webcam!At, BeforeFirst, Configures
<1>0. /\ generation \in Nat /\ running \in {"yes", "no"}
      /\ step = [a \in Webcam!Actors |-> step[a]]
      /\ requested \in [Webcam!Sessions -> Nat]
      /\ asked \in [Webcam!Actors -> 0 .. MaxGeneration]
      /\ Webcam!Owner \in Webcam!Actors
      /\ Webcam!Sessions \subseteq Webcam!Actors
      /\ Webcam!Owner \notin Webcam!Sessions /\ Webcam!None = 0
      /\ generation # 0 => generation \in Webcam!Sessions
  BY Names DEF WebcamInv, WebcamTypeOK
<1>ii. GoalIsRight
  BY DEF WebcamInv
<1>1. ASSUME NEW purpose \in {"stop", "start"}, Webcam!BeginStop(purpose)
      PROVE  BeforeFirst
  BY <1>0, <1>1, <1>ii DEF Webcam!BeginStop
<1>2. CASE Webcam!Halt
  BY <1>0, <1>2, <1>ii DEF Webcam!Halt
<1>3. CASE Webcam!Flush
  BY <1>0, <1>3, <1>ii DEF Webcam!Flush
<1>4. CASE Webcam!DropFrame
  <2>1. /\ step[Webcam!Owner] = "drop frame" /\ UNCHANGED <<generation, goal>>
        /\ step'[Webcam!Owner] = "reset count"
        /\ goal # "run"
    BY <1>0, <1>ii, <1>4 DEF Webcam!DropFrame, GoalIsRight
  <2> QED
    BY <2>1
<1>5. CASE Webcam!Open
  <2>1. /\ step[Webcam!Owner] = "open"
        /\ \/ UNCHANGED generation /\ step'[Webcam!Owner] = "idle"
           \/ generation' = generation + 1
    BY <1>0, <1>5 DEF Webcam!Open
  <2>2. CASE generation' = generation + 1
    <3>1. generation' \in {0, 1, 2, 3}
      OBVIOUS
    <3> HIDE DEF BeforeFirst
    <3>2. generation \in {0, 1, 2}
      BY <1>0, <2>2, <3>1
    <3> QED
      BY <2>1, <3>2 DEF BeforeFirst
  <2>3. CASE UNCHANGED generation /\ step'[Webcam!Owner] = "idle"
    BY <2>3
  <2> QED
    BY <2>1, <2>2, <2>3
<1>6. CASE Webcam!Configure
  <2>1. /\ step[Webcam!Owner] = "configure" /\ UNCHANGED generation
        /\ step'[Webcam!Owner] \in {"idle", "reset count"}
    BY <1>0, <1>6 DEF Webcam!Configure
  <2> QED
    BY <2>1
<1>7. CASE Webcam!PlaceReader
  BY <1>0, <1>7, <1>ii DEF Webcam!PlaceReader
<1>8. CASE Webcam!Go
  BY <1>0, <1>8, <1>ii DEF Webcam!Go
<1>9. ASSUME NEW t \in Webcam!Sessions, Webcam!Deliver(t)
      PROVE  BeforeFirst
  BY <1>0, <1>9, <1>ii DEF Webcam!Deliver
<1>10. ASSUME NEW t \in Webcam!Sessions, Webcam!Check(t)
      PROVE  BeforeFirst
  BY <1>0, <1>10, <1>ii DEF Webcam!Check, Webcam!IsCurrent, Webcam!Fails
<1>11. ASSUME NEW t \in Webcam!Sessions, Webcam!Recheck(t)
      PROVE  BeforeFirst
  BY <1>0, <1>11, <1>ii DEF Webcam!Recheck, Webcam!IsCurrent
<1>12. ASSUME NEW t \in Webcam!Sessions, Webcam!Store(t)
      PROVE  BeforeFirst
  BY <1>0, <1>12, <1>ii DEF Webcam!Store
<1>13. ASSUME NEW b \in Webcam!Actors, Webcam!ResetCount(b)
      PROVE  BeforeFirst
  BY <1>0, <1>13, <1>ii DEF Webcam!ResetCount
<1>14. ASSUME NEW b \in Webcam!Actors, Webcam!ResetFailure(b)
      PROVE  BeforeFirst
  BY <1>0, <1>14, <1>ii DEF Webcam!ResetFailure, Webcam!AfterReset
<1>15. ASSUME NEW b \in Webcam!Actors, Webcam!Report(b)
      PROVE  BeforeFirst
  BY <1>0, <1>15, <1>ii DEF Webcam!Report
<1>16. ASSUME NEW b \in Webcam!Actors, Webcam!Count(b)
      PROVE  BeforeFirst
  BY <1>0, <1>16, <1>ii DEF Webcam!Count, Webcam!AfterFailure
<1>17. ASSUME NEW b \in Webcam!Actors, Webcam!StopRunning(b)
      PROVE  BeforeFirst
  BY <1>0, <1>17, <1>ii DEF Webcam!StopRunning
<1>18. ASSUME NEW b \in Webcam!Actors, Webcam!ForgetFrame(b)
      PROVE  BeforeFirst
  BY <1>0, <1>18, <1>ii DEF Webcam!ForgetFrame, Webcam!AfterFailure
<1>19. ASSUME NEW b \in Webcam!Actors, Webcam!Request(b)
      PROVE  BeforeFirst
  BY <1>0, <1>19, <1>ii DEF Webcam!Request, Webcam!IsCurrent
<1>20. ASSUME NEW b \in Webcam!Actors, Webcam!Read(b)
      PROVE  BeforeFirst
  BY <1>0, <1>20, <1>ii DEF Webcam!Read
<1>21. ASSUME NEW b \in Webcam!Actors, Webcam!Ask(b)
      PROVE  BeforeFirst
  BY <1>0, <1>21, <1>ii DEF Webcam!Ask, Webcam!Fails
<1> QED
  BY <1>0, <1>1, <1>2, <1>3, <1>4, <1>5, <1>6, <1>7, <1>8, <1>9, <1>10, <1>11,
     <1>12, <1>13, <1>14, <1>15, <1>16, <1>17, <1>18, <1>19, <1>20, <1>21
  DEF Webcam!Next, Webcam!OwnerGoesOn, Webcam!Callback, Webcam!Shared

\* Once a reader is in place it is too late to be before the first.
LEMMA NotPlacedBefore ==
    ASSUME WebcamInv, Webcam!Next, BeforeFirst'
    PROVE  ~Webcam!PlaceReader
<1> SUFFICES ASSUME Webcam!PlaceReader
             PROVE  FALSE
  OBVIOUS
<1>1. /\ step'[Webcam!Owner] = "run"
      /\ generation' \in Nat
  BY Names, WebcamTypeKept
  DEF Webcam!PlaceReader, Webcam!Goto, WebcamInv, WebcamTypeOK
<1>2. generation' \notin {0, 1}
  BY <1>1, GoalKept DEF GoalIsRight
<1> QED
  BY <1>1, <1>2 DEF BeforeFirst, Configures

\* A reader is in place from its session's start to the next stop.
LEMMA FirstBefore ==
    ASSUME WebcamInv, Webcam!Next, IsFirst', ~Webcam!PlaceReader
    PROVE  IsFirst /\ UNCHANGED generation
<1>1. \/ UNCHANGED <<generation, webcamReader>>
      \/ UNCHANGED generation /\ webcamReader' = Webcam!None
      \/ generation' = generation + 1 /\ UNCHANGED webcamReader
  BY DEF Webcam!Next, Webcam!BeginStop, Webcam!OwnerGoesOn, Webcam!Halt, Webcam!Flush,
     Webcam!DropFrame, Webcam!Open, Webcam!Configure, Webcam!Go, Webcam!Deliver,
     Webcam!Callback, Webcam!Check, Webcam!Recheck, Webcam!Store, Webcam!Shared,
     Webcam!ResetCount, Webcam!ResetFailure, Webcam!Report, Webcam!Count,
     Webcam!StopRunning, Webcam!ForgetFrame, Webcam!Request, Webcam!Read,
     Webcam!Ask
<1>2. CASE generation' = generation + 1 /\ UNCHANGED webcamReader
  <2>1. generation' \in Webcam!Sessions /\ generation' > generation
    BY <1>2, WebcamTypeKept, Names DEF WebcamInv, WebcamTypeOK, IsFirst
  <2> QED
    BY <1>2, <2>1 DEF WebcamInv, FutureIsUnused, Unused, IsFirst
<1> QED
  BY <1>1, <1>2, Names DEF IsFirst

\* No second session is at work beside the first.
LEMMA AloneKept ==
    ASSUME WebcamInv, Webcam!Next
    PROVE  FirstIsAlone'
<1>1. ASSUME BeforeFirst', NEW s \in Webcam!Sessions
      PROVE  Unused(s)'
  BY <1>1, BeforeStays, NotPlacedBefore, UnusedStays DEF WebcamInv, FirstIsAlone
<1>2. ASSUME IsFirst', NEW s \in Webcam!Sessions, s # generation'
      PROVE  Unused(s)'
  <2>1. CASE Webcam!PlaceReader
    <3>1. UNCHANGED generation /\ Configures
      BY <2>1 DEF Webcam!PlaceReader, Webcam!At, Configures
    <3>2. BeforeFirst
      BY <1>2, <3>1 DEF IsFirst, BeforeFirst
    <3>3. Unused(s)
      BY <3>2 DEF WebcamInv, FirstIsAlone
    <3> QED
      BY <1>2, <3>1, <3>3, UnusedStays
  <2>2. CASE ~Webcam!PlaceReader
    <3>1. IsFirst /\ UNCHANGED generation
      BY <1>2, <2>2, FirstBefore
    <3> QED
      BY <1>2, <2>2, <3>1, UnusedStays DEF WebcamInv, FirstIsAlone
  <2> QED
    BY <2>1, <2>2
<1> QED
  BY <1>1, <1>2 DEF FirstIsAlone

\* The first session reports its end, whoever ends it.
LEMMA FirstGoesOn ==
    ASSUME WebcamInv, Webcam!Next,
           IsFirst,
           IsFirst',
           UNCHANGED generation,
           ~Webcam!PlaceReader
    PROVE  FirstReports'
<1> USE DEF Webcam!Goto, Webcam!At, FirstReports, ServingSteps
<1>0. /\ generation \in Nat /\ running \in {"yes", "no"}
      /\ step = [a \in Webcam!Actors |-> step[a]]
      /\ requested \in [Webcam!Sessions -> Nat]
      /\ asked \in [Webcam!Actors -> 0 .. MaxGeneration]
      /\ Webcam!Owner \in Webcam!Actors
      /\ Webcam!Sessions \subseteq Webcam!Actors
      /\ Webcam!Owner \notin Webcam!Sessions /\ Webcam!None = 0
      /\ generation # 0 => generation \in Webcam!Sessions
  BY Names DEF WebcamInv, WebcamTypeOK
<1>ii. /\ FirstReports /\ generation \in Webcam!Sessions /\ webcamReader = generation
       /\ found \in [Webcam!Actors -> [kind : {"retry", "final"}, terminal : {"yes", "no"}]]
       /\ \A s \in Webcam!Sessions : s # generation =>
             step[s] = "idle" /\ requested[s] = 0
       /\ step[Webcam!Owner] \in {"report", "count", "stop running", "forget frame"} =>
             found[Webcam!Owner].terminal = "yes"
       /\ \A a \in Webcam!Actors : a # Webcam!Owner => a \in Webcam!Sessions
  <2> HIDE DEF FirstReports
  <2>1. FirstReports /\ generation # 0 /\ webcamReader = generation
    BY <1>0 DEF WebcamInv, IsFirst
  <2>2. found \in [Webcam!Actors -> [kind : {"retry", "final"}, terminal : {"yes", "no"}]]
    BY DEF WebcamInv, WebcamTypeOK, Webcam!Kinds
  <2>3. \A s \in Webcam!Sessions : s # generation =>
             step[s] = "idle" /\ requested[s] = 0
    BY DEF WebcamInv, FirstIsAlone, Unused
  <2>4. step[Webcam!Owner] \in {"report", "count", "stop running", "forget frame"} =>
             found[Webcam!Owner].terminal = "yes"
    BY DEF WebcamInv, OwnerFails
  <2> QED
    BY <1>0, <2>1, <2>2, <2>3, <2>4, Names
<1>1. ASSUME NEW purpose \in {"stop", "start"}, Webcam!BeginStop(purpose)
      PROVE  FirstReports'
  <2>1. generation' # generation
    <3> HIDE DEF FirstReports
    <3> QED
      BY <1>0, <1>1 DEF Webcam!BeginStop
  <2> QED
    BY <2>1
<1>2. CASE Webcam!Halt
  BY <1>0, <1>2, <1>ii DEF Webcam!Halt
<1>3. CASE Webcam!Flush
  BY <1>0, <1>3, <1>ii DEF Webcam!Flush
<1>4. CASE Webcam!DropFrame
  BY <1>0, <1>4, <1>ii DEF Webcam!DropFrame
<1>5. CASE Webcam!Open
  BY <1>0, <1>5, <1>ii DEF Webcam!Open
<1>6. CASE Webcam!Configure
  BY <1>0, <1>6, <1>ii DEF Webcam!Configure
<1>7. CASE Webcam!PlaceReader
  BY <1>0, <1>7, <1>ii DEF Webcam!PlaceReader
<1>8. CASE Webcam!Go
  BY <1>0, <1>8, <1>ii DEF Webcam!Go
<1>9. ASSUME NEW t \in Webcam!Sessions, Webcam!Deliver(t)
      PROVE  FirstReports'
  <2>1. t = generation /\ step[t] = "idle" /\ requested[t] # 0
    <3> HIDE DEF FirstReports
    <3>1. step[t] = "idle" /\ requested[t] # 0
      BY <1>0, <1>9 DEF Webcam!Deliver
    <3> QED
      BY <1>ii, <3>1
  <2>2. step[Webcam!Owner] = "idle"
    BY <1>ii, <2>1
  <2>3. /\ step'[Webcam!Owner] = "idle" /\ step'[t] = "check"
        /\ UNCHANGED <<generation, running, failure>>
    BY <1>0, <1>9, <2>2 DEF Webcam!Deliver
  <2> QED
    BY <1>ii, <2>1, <2>2, <2>3
<1>10. ASSUME NEW t \in Webcam!Sessions, Webcam!Check(t)
      PROVE  FirstReports'
  BY <1>0, <1>10, <1>ii DEF Webcam!Check, Webcam!IsCurrent, Webcam!Fails
<1>11. ASSUME NEW t \in Webcam!Sessions, Webcam!Recheck(t)
      PROVE  FirstReports'
  BY <1>0, <1>11, <1>ii DEF Webcam!Recheck, Webcam!IsCurrent
<1>12. ASSUME NEW t \in Webcam!Sessions, Webcam!Store(t)
      PROVE  FirstReports'
  BY <1>0, <1>12, <1>ii DEF Webcam!Store
<1>13. ASSUME NEW b \in Webcam!Actors, Webcam!ResetCount(b)
      PROVE  FirstReports'
  BY <1>0, <1>13, <1>ii DEF Webcam!ResetCount
<1>14. ASSUME NEW b \in Webcam!Actors, Webcam!ResetFailure(b)
      PROVE  FirstReports'
  BY <1>0, <1>14, <1>ii DEF Webcam!ResetFailure, Webcam!AfterReset
<1>15. ASSUME NEW b \in Webcam!Actors, Webcam!Report(b)
      PROVE  FirstReports'
  BY <1>0, <1>15, <1>ii DEF Webcam!Report
<1>16. ASSUME NEW b \in Webcam!Actors, Webcam!Count(b)
      PROVE  FirstReports'
  BY <1>0, <1>16, <1>ii DEF Webcam!Count, Webcam!AfterFailure
<1>17. ASSUME NEW b \in Webcam!Actors, Webcam!StopRunning(b)
      PROVE  FirstReports'
  BY <1>0, <1>17, <1>ii DEF Webcam!StopRunning
<1>18. ASSUME NEW b \in Webcam!Actors, Webcam!ForgetFrame(b)
      PROVE  FirstReports'
  BY <1>0, <1>18, <1>ii DEF Webcam!ForgetFrame, Webcam!AfterFailure
<1>19. ASSUME NEW b \in Webcam!Actors, Webcam!Request(b)
      PROVE  FirstReports'
  BY <1>0, <1>19, <1>ii DEF Webcam!Request, Webcam!IsCurrent
<1>20. ASSUME NEW b \in Webcam!Actors, Webcam!Read(b)
      PROVE  FirstReports'
  BY <1>0, <1>20, <1>ii DEF Webcam!Read
<1>21. ASSUME NEW b \in Webcam!Actors, Webcam!Ask(b)
      PROVE  FirstReports'
  BY <1>0, <1>21, <1>ii DEF Webcam!Ask, Webcam!Fails
<1> QED
  BY <1>0, <1>1, <1>2, <1>3, <1>4, <1>5, <1>6, <1>7, <1>8, <1>9, <1>10, <1>11,
     <1>12, <1>13, <1>14, <1>15, <1>16, <1>17, <1>18, <1>19, <1>20, <1>21
  DEF Webcam!Next, Webcam!OwnerGoesOn, Webcam!Callback, Webcam!Shared

\* A reader comes with its session and goes with the next stop.
LEMMA ReaderKept ==
    ASSUME WebcamInv, Webcam!Next
    PROVE  ReaderIsCurrent'
<1> USE DEF Webcam!Goto, Webcam!At, ReaderIsCurrent
<1>0. /\ generation \in Nat /\ running \in {"yes", "no"}
      /\ step = [a \in Webcam!Actors |-> step[a]]
      /\ requested \in [Webcam!Sessions -> Nat]
      /\ asked \in [Webcam!Actors -> 0 .. MaxGeneration]
      /\ Webcam!Owner \in Webcam!Actors
      /\ Webcam!Sessions \subseteq Webcam!Actors
      /\ Webcam!Owner \notin Webcam!Sessions /\ Webcam!None = 0
      /\ generation # 0 => generation \in Webcam!Sessions
  BY Names DEF WebcamInv, WebcamTypeOK
<1>ii. ReaderIsCurrent
  BY DEF WebcamInv
<1>1. ASSUME NEW purpose \in {"stop", "start"}, Webcam!BeginStop(purpose)
      PROVE  ReaderIsCurrent'
  BY <1>0, <1>1, <1>ii DEF Webcam!BeginStop
<1>2. CASE Webcam!Halt
  BY <1>0, <1>2, <1>ii DEF Webcam!Halt
<1>3. CASE Webcam!Flush
  BY <1>0, <1>3, <1>ii DEF Webcam!Flush
<1>4. CASE Webcam!DropFrame
  BY <1>0, <1>4, <1>ii DEF Webcam!DropFrame
<1>5. CASE Webcam!Open
  BY <1>0, <1>5, <1>ii DEF Webcam!Open
<1>6. CASE Webcam!Configure
  BY <1>0, <1>6, <1>ii DEF Webcam!Configure
<1>7. CASE Webcam!PlaceReader
  BY <1>0, <1>7, <1>ii DEF Webcam!PlaceReader
<1>8. CASE Webcam!Go
  BY <1>0, <1>8, <1>ii DEF Webcam!Go
<1>9. ASSUME NEW t \in Webcam!Sessions, Webcam!Deliver(t)
      PROVE  ReaderIsCurrent'
  BY <1>0, <1>9, <1>ii DEF Webcam!Deliver
<1>10. ASSUME NEW t \in Webcam!Sessions, Webcam!Check(t)
      PROVE  ReaderIsCurrent'
  BY <1>0, <1>10, <1>ii DEF Webcam!Check, Webcam!IsCurrent, Webcam!Fails
<1>11. ASSUME NEW t \in Webcam!Sessions, Webcam!Recheck(t)
      PROVE  ReaderIsCurrent'
  BY <1>0, <1>11, <1>ii DEF Webcam!Recheck, Webcam!IsCurrent
<1>12. ASSUME NEW t \in Webcam!Sessions, Webcam!Store(t)
      PROVE  ReaderIsCurrent'
  BY <1>0, <1>12, <1>ii DEF Webcam!Store
<1>13. ASSUME NEW b \in Webcam!Actors, Webcam!ResetCount(b)
      PROVE  ReaderIsCurrent'
  BY <1>0, <1>13, <1>ii DEF Webcam!ResetCount
<1>14. ASSUME NEW b \in Webcam!Actors, Webcam!ResetFailure(b)
      PROVE  ReaderIsCurrent'
  BY <1>0, <1>14, <1>ii DEF Webcam!ResetFailure, Webcam!AfterReset
<1>15. ASSUME NEW b \in Webcam!Actors, Webcam!Report(b)
      PROVE  ReaderIsCurrent'
  BY <1>0, <1>15, <1>ii DEF Webcam!Report
<1>16. ASSUME NEW b \in Webcam!Actors, Webcam!Count(b)
      PROVE  ReaderIsCurrent'
  BY <1>0, <1>16, <1>ii DEF Webcam!Count, Webcam!AfterFailure
<1>17. ASSUME NEW b \in Webcam!Actors, Webcam!StopRunning(b)
      PROVE  ReaderIsCurrent'
  BY <1>0, <1>17, <1>ii DEF Webcam!StopRunning
<1>18. ASSUME NEW b \in Webcam!Actors, Webcam!ForgetFrame(b)
      PROVE  ReaderIsCurrent'
  BY <1>0, <1>18, <1>ii DEF Webcam!ForgetFrame, Webcam!AfterFailure
<1>19. ASSUME NEW b \in Webcam!Actors, Webcam!Request(b)
      PROVE  ReaderIsCurrent'
  BY <1>0, <1>19, <1>ii DEF Webcam!Request, Webcam!IsCurrent
<1>20. ASSUME NEW b \in Webcam!Actors, Webcam!Read(b)
      PROVE  ReaderIsCurrent'
  BY <1>0, <1>20, <1>ii DEF Webcam!Read
<1>21. ASSUME NEW b \in Webcam!Actors, Webcam!Ask(b)
      PROVE  ReaderIsCurrent'
  BY <1>0, <1>21, <1>ii DEF Webcam!Ask, Webcam!Fails
<1> QED
  BY <1>0, <1>1, <1>2, <1>3, <1>4, <1>5, <1>6, <1>7, <1>8, <1>9, <1>10, <1>11,
     <1>12, <1>13, <1>14, <1>15, <1>16, <1>17, <1>18, <1>19, <1>20, <1>21
  DEF Webcam!Next, Webcam!OwnerGoesOn, Webcam!Callback, Webcam!Shared

\* The webcam's invariant.
THEOREM WebcamInvariance == Webcam!Spec => []WebcamInv
<1>1. Webcam!Init => WebcamInv
  <2> SUFFICES ASSUME Webcam!Init
               PROVE  WebcamInv
    OBVIOUS
  <2> USE DEF Webcam!Init
  <2>1. WebcamTypeOK
    <3>1. found \in [Webcam!Actors -> [kind : Webcam!Kinds, terminal : {"yes", "no"}]]
      BY DEF Webcam!Kinds
    <3> QED
      BY <3>1, Names DEF WebcamTypeOK
  <2>2. step[Webcam!Owner] = "idle" /\ \A s \in Webcam!Sessions : Unused(s)
    BY Names DEF Unused
  <2> QED
    BY <2>1, <2>2, Names
    DEF WebcamInv, GoalIsRight, Configures, FutureIsUnused, ReadyToRun, OwnerFails,
        Serving, FirstIsAlone, FirstReports, IsFirst, ReaderIsCurrent
<1>2. WebcamInv /\ [Webcam!Next]_Webcam!vars => WebcamInv'
  <2> SUFFICES ASSUME WebcamInv, [Webcam!Next]_Webcam!vars
               PROVE  WebcamInv'
    OBVIOUS
  <2>1. CASE Webcam!Next
    <3>1. FirstReports'
      <4> SUFFICES ASSUME IsFirst'
                   PROVE  FirstReports'
        BY DEF FirstReports
      <4>1. CASE Webcam!PlaceReader
        <5>1. /\ step'[Webcam!Owner] = "run" /\ UNCHANGED <<generation, requested>>
              /\ step'[generation] = step[generation]
              /\ Unused(generation)
          BY <4>1, Names
          DEF Webcam!PlaceReader, Webcam!At, Webcam!Goto, WebcamInv, WebcamTypeOK, FutureIsUnused,
              Configures, GoalIsRight
        <5> QED
          BY <5>1 DEF FirstReports, ServingSteps, Unused
      <4>2. CASE ~Webcam!PlaceReader
        BY <2>1, <4>2, FirstBefore, FirstGoesOn
      <4> QED
        BY <4>1, <4>2
    <3> QED
      BY <2>1, <3>1, WebcamTypeKept, GoalKept, ReaderKept, FutureKept,
         ReadyKept, OwnerFailsKept,
         ServingKept, AloneKept
      DEF WebcamInv
  <2>2. CASE UNCHANGED Webcam!vars
    <3> USE <2>2 DEF Webcam!vars, WebcamInv
    <3>1. WebcamTypeOK' /\ GoalIsRight' /\ ReaderIsCurrent' /\ OwnerFails'
      BY DEF WebcamTypeOK, GoalIsRight, Configures, ReaderIsCurrent, OwnerFails
    <3>2. FutureIsUnused' /\ FirstIsAlone'
      BY DEF FutureIsUnused, Configures, Unused, FirstIsAlone, BeforeFirst, IsFirst
    <3>3. ReadyToRun' /\ Serving'
      BY DEF ReadyToRun, Serving, Served, ServingSteps
    <3>4. FirstReports'
      BY DEF FirstReports, IsFirst, ServingSteps
    <3> QED
      BY <3>1, <3>2, <3>3, <3>4
  <2> QED
    BY <2>1, <2>2
<1> QED
  BY <1>1, <1>2, PTL DEF Webcam!Spec

\* A session that runs has a sample requested or a callback under way, and the
\* first one reports why it ended, for any number of generations and any threshold.
THEOREM WebcamIsServedAlways ==
    Webcam!Spec => [](Webcam!RequestOutstanding /\ Webcam!FailureIsReported)
<1>1. WebcamInv => Webcam!RequestOutstanding
  <2> SUFFICES ASSUME WebcamInv, step[Webcam!Owner] = "idle", running = "yes"
               PROVE  requested[generation] > 0 \/ step[generation] # "idle"
    BY DEF Webcam!RequestOutstanding, Webcam!At
  <2> QED
    BY DEF WebcamInv, Serving, Served
<1>2. WebcamInv => Webcam!FailureIsReported
  <2> SUFFICES ASSUME WebcamInv, generation <= 3, step[Webcam!Owner] = "idle",
                      webcamReader # 0, running = "no",
                      \A s \in Webcam!Sessions : step[s] = "idle"
               PROVE  failure # "none"
    BY Names DEF Webcam!FailureIsReported, Webcam!FirstSession, Webcam!At
  <2>1. webcamReader = generation
    BY DEF WebcamInv, ReaderIsCurrent
  <2>2. generation \in {1, 2, 3}
    BY <2>1, Names DEF WebcamInv
  <2> QED
    BY <2>1, <2>2 DEF WebcamInv, FirstReports, IsFirst
<1> QED
  BY <1>1, <1>2, WebcamInvariance, PTL

----------------------------------------------------------------------------
\* The webcam's formats (WebcamFormats).

FormatRecord ==
    [width : Nat \ {0}, height : Nat \ {0}, numerator : Nat \ {0},
     denominator : Nat \ {0}, rank : 0 .. 3]
LayoutRecord == [width : Nat \ {0}, height : Nat \ {0}, stride : Int]

FormatsTypeOK ==
    /\ Formats!TypeOK
    /\ \A i \in DOMAIN listed : listed[i] \in WebcamFormat

\* Until a format is taken, all that were asked for are refused.
RefusedSoFar ==
    negotiation = "negotiating" =>
        /\ layout = Absent /\ rows = <<>> /\ buffer = Absent /\ changes = 0
        /\ IF tried = Absent THEN left = DOMAIN listed ELSE PipelineFormat \in refused
        /\ \A i \in DOMAIN listed : i \in left \/ listed[i] \in refused

\* None that is better than the one taken was left unasked.
NoneIsBetter ==
    negotiation = "open" /\ changes = 0 /\ tried # PipelineFormat =>
        /\ tried \in WebcamFormat /\ PipelineFormat \in refused
        /\ \A i \in DOMAIN listed :
              \/ listed[i] \in refused \/ listed[i] = tried
              \/ ~Formats!Better(listed[i], tried)

\* A layout in use has room for its rows in the size that is declared.
LayoutHasRoom ==
    negotiation = "open" =>
        /\ layout \in LayoutRecord
        /\ Formats!Magnitude(layout.stride) >= Formats!RowBytes(layout.width)
        /\ declared >= Formats!Magnitude(layout.stride) * layout.height

FormatsInv ==
    /\ FormatsTypeOK
    /\ RefusedSoFar
    /\ NoneIsBetter
    /\ LayoutHasRoom
    /\ Formats!SampleIsWhole

\* What is assumed of formats, strides and buffers.
LEMMA FormatsAre ==
    /\ WebcamFormat \subseteq FormatRecord /\ PipelineFormat \in WebcamFormat
    /\ Absent \notin WebcamFormat
    /\ LargestWord \in Nat /\ Stride \subseteq 0 .. LargestWord
    /\ SampleSize \subseteq 0 .. LargestWord
    /\ Lengths \subseteq Nat /\ Offset \subseteq Nat /\ Pitch \subseteq Int
    /\ Changes \in Nat
    /\ Multiple \in Nat \ {0}
BY CameraAssumption DEF Formats!FormatsAssumption, FormatRecord

\* A stride is a whole number, and the size of an accepted picture a natural one.
LEMMA StridesAre ==
    ASSUME NEW stride \in Stride \cup {Absent}, NEW width \in Nat \ {0},
           NEW height \in Nat \ {0}
    PROVE  /\ Formats!StrideOf(width, stride) \in Int
           /\ Formats!RequiredBytes(width, height, stride) \in Nat
           /\ Formats!RequiredBytes(width, height, stride)
                = Formats!Magnitude(Formats!StrideOf(width, stride)) * height
<1>1. Formats!StrideOf(width, stride) \in Int
  BY FormatsAre DEF Formats!StrideOf, Formats!Signed, Formats!RowBytes
<1>2. Formats!Magnitude(Formats!StrideOf(width, stride)) \in Nat
  BY <1>1 DEF Formats!Magnitude
<1> QED
  BY <1>1, <1>2 DEF Formats!RequiredBytes

\* An accepted description is a layout with room for its rows.
LEMMA AcceptedHasRoom ==
    ASSUME NEW f \in WebcamFormat, NEW stride \in Stride \cup {Absent},
           NEW size \in SampleSize \cup {Absent},
           Formats!IsLayout(f.width, f.height, stride, size)
    PROVE  LET l == Formats!Layout(f.width, f.height, stride)
               d == Formats!Declared(f.width, f.height, stride, size)
           IN  /\ l \in LayoutRecord /\ d \in Nat
               /\ Formats!Magnitude(l.stride) >= Formats!RowBytes(l.width)
               /\ d >= Formats!Magnitude(l.stride) * l.height
<1>1. f.width \in Nat \ {0} /\ f.height \in Nat \ {0}
  BY FormatsAre DEF FormatRecord
<1>2. /\ Formats!StrideOf(f.width, stride) \in Int
      /\ Formats!RequiredBytes(f.width, f.height, stride) \in Nat
      /\ Formats!RequiredBytes(f.width, f.height, stride)
           = Formats!Magnitude(Formats!StrideOf(f.width, stride)) * f.height
  BY <1>1, StridesAre
<1>3. /\ Formats!Declared(f.width, f.height, stride, size) \in Nat
      /\ Formats!Declared(f.width, f.height, stride, size)
           >= Formats!RequiredBytes(f.width, f.height, stride)
  <2>1. CASE size = Absent
    BY <1>2, <2>1 DEF Formats!Declared
  <2>2. CASE size # Absent
    <3>1. size \in Nat
      BY <2>2, FormatsAre
    <3>2. size >= Formats!RequiredBytes(f.width, f.height, stride)
      BY <2>2 DEF Formats!IsLayout
    <3> QED
      BY <2>2, <3>1, <3>2 DEF Formats!Declared
  <2> QED
    BY <2>1, <2>2
<1> QED
  BY <1>1, <1>2, <1>3 DEF Formats!IsLayout, Formats!Layout, LayoutRecord

\* The format asked for next is one that nothing left is better than.
LEMMA CandidatesAre ==
    ASSUME FormatsInv, negotiation = "negotiating", NEW next \in Formats!Candidate
    PROVE  /\ next.format \in WebcamFormat /\ next.left \subseteq DOMAIN listed
           /\ \A i \in DOMAIN listed :
                 i \in next.left \/ listed[i] \in refused \/ listed[i] = next.format
           /\ next.format = PipelineFormat \/ PipelineFormat \in refused
           /\ next.format # PipelineFormat => \A i \in DOMAIN listed :
                 \/ listed[i] \in refused \/ listed[i] = next.format
                 \/ ~Formats!Better(listed[i], next.format)
<1>0. FormatsTypeOK /\ RefusedSoFar /\ left \subseteq DOMAIN listed
  BY DEF FormatsInv, FormatsTypeOK, Formats!TypeOK
<1>1. CASE tried = Absent
  BY <1>0, <1>1, FormatsAre DEF Formats!Candidate, RefusedSoFar
<1>2. CASE tried # Absent
  <2>1. PICK i \in left : Formats!IsNext(i) /\ next = [format |-> listed[i], left |-> left \ {i}]
    BY <1>2 DEF Formats!Candidate
  <2>2. PipelineFormat \in refused
    BY <1>0, <1>2 DEF RefusedSoFar
  <2>3. \A j \in left : listed[j] # PipelineFormat => ~Formats!Better(listed[j], listed[i])
    BY <2>1 DEF Formats!IsNext
  <2> QED
    BY <1>0, <2>1, <2>2, <2>3 DEF RefusedSoFar, FormatsTypeOK
<1> QED
  BY <1>1, <1>2


\* The rows of a sample lie apart and inside the buffer.
LEMMA RowsAreIn ==
    ASSUME NEW length \in Nat, NEW offset \in Nat, NEW pitch \in Int,
           layout \in LayoutRecord,
           NEW taken, taken = Formats!RowsIn(length, offset, pitch), taken # <<>>
    PROVE  /\ taken = [row \in 1 .. layout.height |-> offset + (row - 1) * pitch]
           /\ Len(taken) = layout.height
           /\ \A i, j \in DOMAIN taken : i # j =>
                 Formats!Distance(taken[i], taken[j]) >= Formats!RowBytes(layout.width)
           /\ \A i \in DOMAIN taken :
                 taken[i] >= 0 /\ taken[i] + Formats!RowBytes(layout.width) <= length
<1> DEFINE w == Formats!RowBytes(layout.width)
           h == layout.height
<1>1. w \in Nat /\ h \in Nat \ {0}
  BY DEF LayoutRecord, Formats!RowBytes
<1>2. /\ taken = [row \in 1 .. h |-> offset + (row - 1) * pitch]
      /\ Formats!Magnitude(pitch) >= w
      /\ \A row \in 1 .. h : taken[row] >= 0 /\ taken[row] + w <= length
  BY DEF Formats!RowsIn
<1>3. Len(taken) = h /\ DOMAIN taken = 1 .. h
  BY <1>1, <1>2
<1>4. ASSUME NEW i \in 1 .. h, NEW j \in 1 .. h, i # j
      PROVE  Formats!Distance(taken[i], taken[j]) >= w
  <2> DEFINE a == (i - 1) * pitch
             b == (j - 1) * pitch
             m == Formats!Magnitude(pitch)
  <2>1. a \in Int /\ b \in Int /\ m \in Nat /\ a - b = (i - j) * pitch
    BY <1>1 DEF Formats!Magnitude
  <2>2. taken[i] = offset + a /\ taken[j] = offset + b
    BY <1>2
  <2>3. (i - j) * pitch >= m \/ (i - j) * pitch <= -m
    <3> DEFINE d == i - j
    <3>1. d \in Int /\ (d >= 1 \/ d <= -1)
      BY <1>1, <1>4
    <3> HIDE DEF d
    <3>2. d * pitch >= m \/ d * pitch <= -m
      BY <3>1 DEF Formats!Magnitude
    <3> QED
      BY <3>2 DEF d
  <2> HIDE DEF a, b, m
  <2>4. a - b >= m \/ b - a >= m
    BY <2>1, <2>3
  <2>5. m >= w
    BY <1>2 DEF m
  <2> HIDE DEF w
  <2> QED
    BY <1>1, <2>1, <2>2, <2>4, <2>5 DEF Formats!Distance
<1> QED
  BY <1>2, <1>3, <1>4

\* A buffer of the declared size has all the rows.
LEMMA DeclaredIsEnough ==
    ASSUME NEW length \in Nat, LayoutHasRoom, negotiation = "open",
           layout.stride > 0, length >= declared, declared \in Nat
    PROVE  Formats!RowsIn(length, 0, layout.stride) # <<>>
<1> DEFINE w == Formats!RowBytes(layout.width)
           h == layout.height
           s == layout.stride
<1>1. w \in Nat /\ h \in Nat \ {0} /\ s \in Nat /\ s >= w /\ declared >= s * h
      /\ Formats!Magnitude(s) = s
  BY DEF LayoutHasRoom, LayoutRecord, Formats!RowBytes, Formats!Magnitude
<1> DEFINE begins == [row \in 1 .. h |-> 0 + (row - 1) * s]
<1>2. ASSUME NEW row \in 1 .. h
      PROVE  begins[row] >= 0 /\ begins[row] + w <= length
  <2> DEFINE r == row - 1
  <2>1. r \in Nat /\ r + 1 <= h
    BY <1>1
  <2> HIDE DEF w, h, s, r
  <2>2. r * s \in Nat /\ r * s + s = (r + 1) * s
    BY <1>1, <2>1
  <2>3. (r + 1) * s <= h * s /\ h * s = s * h /\ h * s \in Nat
    BY <1>1, <2>1
  <2>4. r * s >= 0 /\ r * s + w <= length
    BY <1>1, <2>2, <2>3
  <2> QED
    BY <1>1, <2>2, <2>4 DEF r
<1>3. Formats!RowsIn(length, 0, s) = begins
  BY <1>1, <1>2 DEF Formats!RowsIn
<1>4. DOMAIN begins = 1 .. h /\ 1 \in 1 .. h
  BY <1>1
<1>5. DOMAIN <<>> = {}
  OBVIOUS
<1> HIDE DEF begins
<1> QED
  BY <1>3, <1>4, <1>5

\* Of two formats of one size and kind, the better one has the nearer rate.
LEMMA RatesAre ==
    ASSUME NEW f \in WebcamFormat
    PROVE  /\ Multiple \div f.denominator \in Nat \ {0}
           /\ f.denominator * (Multiple \div f.denominator) = Multiple
           /\ Formats!RateError(f) \in Nat
           /\ Formats!RateDistance(f)
                = Formats!RateError(f) * (Multiple \div f.denominator)
<1>1. f \in FormatRecord /\ Multiple \in Nat \ {0} /\ Multiple % f.denominator = 0
  BY FormatsAre, CameraAssumption DEF Formats!FormatsAssumption
<1> DEFINE n == f.numerator
           d == f.denominator
           k == Multiple \div d
<1>2. n \in Nat \ {0} /\ d \in Nat \ {0}
  BY <1>1 DEF FormatRecord
<1> HIDE DEF n, d
<1>3. k \in Nat /\ Multiple = d * k
  BY <1>1, <1>2, SMTT(20) DEF d
<1>4. k # 0
  BY <1>1, <1>2, <1>3
<1> HIDE DEF k
<1>5. Formats!RateError(f) \in Nat
  BY <1>2 DEF Formats!RateError, Formats!Distance, n, d
<1>6. Formats!RateDistance(f) = Formats!RateError(f) * k
  <2>1. 30 * Multiple = (30 * d) * k
    BY <1>2, <1>3
  <2> DEFINE t == 30 * d
  <2>2. t \in Nat
    BY <1>2
  <2> HIDE DEF t
  <2>3. n * k < t * k <=> n < t
    BY <1>2, <1>3, <1>4, <2>2
  <2>4. (t - n) * k = t * k - n * k /\ (n - t) * k = n * k - t * k
    BY <1>2, <1>3, <2>2
  <2>5. Formats!Distance(n * k, t * k) = Formats!Distance(n, t) * k
    BY <2>3, <2>4 DEF Formats!Distance
  <2> QED
    BY <2>1, <2>5 DEF Formats!RateDistance, Formats!RateError, n, d, k, t
<1> QED
  BY <1>3, <1>4, <1>5, <1>6 DEF d, k

\* The order of two rates is that of their distances from the wanted rate.
LEMMA NotFarther ==
    ASSUME NEW f \in WebcamFormat, NEW g \in WebcamFormat, ~Formats!NearerRate(g, f)
    PROVE  Formats!RateDistance(f) <= Formats!RateDistance(g)
<1> DEFINE k == Multiple \div f.denominator
           l == Multiple \div g.denominator
           d == f.denominator
           e == g.denominator
           x == Formats!RateError(f)
           y == Formats!RateError(g)
<1>1. /\ k \in Nat \ {0} /\ l \in Nat \ {0} /\ x \in Nat /\ y \in Nat
      /\ d * k = Multiple /\ e * l = Multiple
      /\ Formats!RateDistance(f) = x * k /\ Formats!RateDistance(g) = y * l
  BY RatesAre
<1>2. d \in Nat \ {0} /\ e \in Nat \ {0} /\ Multiple \in Nat \ {0}
  BY FormatsAre DEF FormatRecord
<1>3. x * e \in Nat /\ y * d \in Nat /\ x * e <= y * d
  <2>1. ~(y * d < x * e)
    BY DEF Formats!NearerRate
  <2> HIDE DEF x, y, d, e
  <2> QED
    BY <1>1, <1>2, <2>1
<1> HIDE DEF k, l, d, e, x, y
<1>4. (x * e) * (k * l) <= (y * d) * (k * l)
  <2> DEFINE a == x * e
             b == y * d
             c == k * l
  <2>1. a \in Nat /\ b \in Nat /\ c \in Nat /\ a <= b
    BY <1>1, <1>3
  <2> HIDE DEF a, b, c
  <2>2. a * c <= b * c
    BY <2>1
  <2> QED
    BY <2>2 DEF a, b, c
<1>5. (x * e) * (k * l) = (x * k) * (e * l) /\ (y * d) * (k * l) = (y * l) * (d * k)
  BY <1>1, <1>2
<1>6. x * k \in Nat /\ y * l \in Nat /\ (x * k) * Multiple <= (y * l) * Multiple
  BY <1>1, <1>4, <1>5
<1> DEFINE a == x * k
           b == y * l
<1> HIDE DEF a, b
<1>7. a \in Nat /\ b \in Nat /\ a * Multiple <= b * Multiple
  BY <1>6 DEF a, b
<1>8. a <= b
  BY <1>2, <1>7
<1> QED
  BY <1>1, <1>8 DEF a, b

\* A format nothing is better than has the right kind before everything else, and
\* of those of its size the nearest rate.
LEMMA NotBetter ==
    ASSUME NEW f \in WebcamFormat, NEW g \in WebcamFormat, ~Formats!Better(g, f)
    PROVE  \/ f.rank = 0 /\ g.rank # 0
           \/ /\ [g EXCEPT !.numerator = 1, !.denominator = 1]
                   = [f EXCEPT !.numerator = 1, !.denominator = 1]
                => Formats!RateDistance(f) <= Formats!RateDistance(g)
              /\ f.rank # 0 => g.rank # 0
<1> DEFINE a == Formats!FixedRank(g)
           b == Formats!FixedRank(f)
           A(h) == h.rank = 0 /\ h.width = PipelineFormat.width
                     /\ h.height = PipelineFormat.height
                     /\ h.numerator = 30 * h.denominator
<1>0. f \in FormatRecord /\ g \in FormatRecord
  BY FormatsAre
<1>1. /\ a[1] = (IF A(g) THEN 0 ELSE 1) /\ b[1] = (IF A(f) THEN 0 ELSE 1)
      /\ a[2] = (IF g.rank = 0 THEN 0 ELSE 1) /\ b[2] = (IF f.rank = 0 THEN 0 ELSE 1)
      /\ a = <<a[1], a[2], a[3], a[4]>> /\ b = <<b[1], b[2], b[3], b[4]>>
  BY DEF Formats!FixedRank
<1>2. \A i \in 1 .. 4 : ~(a[i] < b[i] /\ \A j \in 1 .. i - 1 : a[j] = b[j])
  BY DEF Formats!Better
<1>3. a = b => ~Formats!NearerRate(g, f)
  BY DEF Formats!Better
<1>4. f.rank # 0 => g.rank # 0
  <2> SUFFICES ASSUME f.rank # 0, g.rank = 0
               PROVE  FALSE
    OBVIOUS
  <2>1. a[2] < b[2] /\ (a[1] < b[1] \/ a[1] = b[1])
    BY <1>1
  <2> HIDE DEF a, b
  <2> QED
    BY <1>2, <2>1
<1>5. ASSUME [g EXCEPT !.numerator = 1, !.denominator = 1]
               = [f EXCEPT !.numerator = 1, !.denominator = 1]
      PROVE  Formats!RateDistance(f) <= Formats!RateDistance(g)
  <2>1. g.width = f.width /\ g.height = f.height /\ g.rank = f.rank
    BY <1>0, <1>5 DEF FormatRecord
  <2>2. CASE A(f)
    <3>1. f.numerator \in Nat /\ f.numerator = 30 * f.denominator
      BY <1>0, <2>2 DEF FormatRecord
    <3>2. Formats!RateError(f) = 0
      BY <3>1 DEF Formats!RateError, Formats!Distance
    <3>3. Formats!RateDistance(f) = 0
      BY <3>2, RatesAre
    <3>4. Formats!RateDistance(g) \in Nat
      BY RatesAre
    <3> QED
      BY <3>3, <3>4
  <2>3. CASE ~A(f)
    <3>1. ~A(g)
      <4>1. ~(a[1] < b[1])
        BY <1>2
      <4> QED
        BY <1>1, <2>3, <4>1
    <3>2. a = b
      BY <2>1, <2>3, <3>1 DEF Formats!FixedRank
    <3> QED
      BY <1>3, <3>2, NotFarther
  <2> QED
    BY <2>2, <2>3
<1> QED
  BY <1>4, <1>5

\* The invariant holds at first, when nothing has been asked for.
LEMMA FormatsBegin ==
    ASSUME Formats!Init
    PROVE  FormatsInv
<1>1. DOMAIN <<>> = {} /\ Absent \notin WebcamFormat
  BY FormatsAre
<1>2. \A i \in DOMAIN listed : listed[i] \in WebcamFormat
  BY DEF Formats!Init, Formats!Injection
<1>3. FormatsTypeOK
  BY <1>2, FormatsAre DEF Formats!Init, FormatsTypeOK, Formats!TypeOK
<1> QED
  BY <1>1, <1>3
  DEF Formats!Init, FormatsInv, RefusedSoFar, NoneIsBetter, LayoutHasRoom,
      Formats!SampleIsWhole

\* Every step keeps it.
LEMMA FormatsGoOn ==
    ASSUME FormatsInv, Formats!Next
    PROVE  FormatsInv'
<1>0. /\ FormatsTypeOK /\ RefusedSoFar /\ NoneIsBetter /\ LayoutHasRoom
      /\ Formats!SampleIsWhole
  BY DEF FormatsInv
<1>1. CASE Formats!Refuses
  <2>1. PICK next \in Formats!Candidate :
           /\ tried' = next.format /\ left' = next.left
           /\ refused' = refused \cup {next.format}
    BY <1>1 DEF Formats!Refuses
  <2>2. /\ negotiation = "negotiating"
        /\ UNCHANGED <<negotiation, listed, layout, declared, rows, buffer, changes>>
    BY <1>1 DEF Formats!Refuses
  <2>3. /\ next.format \in WebcamFormat /\ next.left \subseteq DOMAIN listed
        /\ \A i \in DOMAIN listed :
              i \in next.left \/ listed[i] \in refused \/ listed[i] = next.format
        /\ next.format = PipelineFormat \/ PipelineFormat \in refused
    BY <2>2, CandidatesAre
  <2>4. FormatsTypeOK'
    BY <1>0, <2>1, <2>2, <2>3 DEF FormatsTypeOK, Formats!TypeOK
  <2>5. RefusedSoFar'
    BY <1>0, <2>1, <2>2, <2>3, FormatsAre DEF RefusedSoFar
  <2> QED
    BY <1>0, <2>2, <2>4, <2>5
    DEF FormatsInv, NoneIsBetter, LayoutHasRoom, RefusedSoFar, Formats!SampleIsWhole
<1>2. CASE Formats!Takes
  <2>1. PICK next \in Formats!Candidate, stride \in Stride \cup {Absent},
             size \in SampleSize \cup {Absent} :
          LET f == next.format
          IN  /\ tried' = f /\ left' = next.left
              /\ \/ /\ Formats!IsLayout(f.width, f.height, stride, size)
                    /\ negotiation' = "open"
                    /\ layout' = Formats!Layout(f.width, f.height, stride)
                    /\ declared' = Formats!Declared(f.width, f.height, stride, size)
                    /\ UNCHANGED refused
                 \/ /\ refused' = refused \cup {f}
                    /\ UNCHANGED <<negotiation, layout, declared>>
                 \/ negotiation' = "failed" /\ UNCHANGED <<refused, layout, declared>>
    BY <1>2 DEF Formats!Takes
  <2>2. negotiation = "negotiating" /\ UNCHANGED <<listed, rows, buffer, changes>>
    BY <1>2 DEF Formats!Takes
  <2>3. /\ next.format \in WebcamFormat /\ next.left \subseteq DOMAIN listed
        /\ \A i \in DOMAIN listed :
              i \in next.left \/ listed[i] \in refused \/ listed[i] = next.format
        /\ next.format = PipelineFormat \/ PipelineFormat \in refused
        /\ next.format # PipelineFormat => \A i \in DOMAIN listed :
                 \/ listed[i] \in refused \/ listed[i] = next.format
                 \/ ~Formats!Better(listed[i], next.format)
    BY <2>2, CandidatesAre
  <2>4. layout = Absent /\ rows = <<>> /\ buffer = Absent /\ changes = 0
    BY <1>0, <2>2 DEF RefusedSoFar
  <2> DEFINE f == next.format
  <2>5. CASE /\ Formats!IsLayout(f.width, f.height, stride, size)
             /\ negotiation' = "open"
             /\ layout' = Formats!Layout(f.width, f.height, stride)
             /\ declared' = Formats!Declared(f.width, f.height, stride, size)
             /\ UNCHANGED refused
    <3>1. /\ layout' \in LayoutRecord /\ declared' \in Nat
          /\ Formats!Magnitude(layout'.stride) >= Formats!RowBytes(layout'.width)
          /\ declared' >= Formats!Magnitude(layout'.stride) * layout'.height
      BY <2>3, <2>5, AcceptedHasRoom
    <3>2. FormatsTypeOK'
      BY <1>0, <2>1, <2>2, <2>3, <2>5, <3>1
      DEF FormatsTypeOK, Formats!TypeOK, LayoutRecord
    <3>3. LayoutHasRoom'
      BY <3>1 DEF LayoutHasRoom
    <3>4. NoneIsBetter'
      BY <2>1, <2>2, <2>3, <2>5 DEF NoneIsBetter
    <3> QED
      BY <2>2, <2>4, <2>5, <3>2, <3>3, <3>4
      DEF FormatsInv, RefusedSoFar, Formats!SampleIsWhole
  <2>6. CASE refused' = refused \cup {f} /\ UNCHANGED <<negotiation, layout, declared>>
    <3>1. FormatsTypeOK'
      BY <1>0, <2>1, <2>2, <2>3, <2>6 DEF FormatsTypeOK, Formats!TypeOK
    <3>2. RefusedSoFar'
      BY <1>0, <2>1, <2>2, <2>3, <2>6, FormatsAre DEF RefusedSoFar
    <3> QED
      BY <2>2, <2>4, <2>6, <3>1, <3>2
      DEF FormatsInv, NoneIsBetter, LayoutHasRoom, Formats!SampleIsWhole
  <2>7. CASE negotiation' = "failed" /\ UNCHANGED <<refused, layout, declared>>
    <3>1. FormatsTypeOK'
      BY <1>0, <2>1, <2>2, <2>3, <2>7 DEF FormatsTypeOK, Formats!TypeOK
    <3> QED
      BY <2>2, <2>4, <2>7, <3>1
      DEF FormatsInv, RefusedSoFar, NoneIsBetter, LayoutHasRoom, Formats!SampleIsWhole
  <2> QED
    BY <2>1, <2>5, <2>6, <2>7
<1>3. CASE Formats!NothingTaken
  <2>1. FormatsTypeOK'
    BY <1>0, <1>3 DEF Formats!NothingTaken, FormatsTypeOK, Formats!TypeOK
  <2>2. negotiation' = "failed" /\ UNCHANGED rows /\ rows = <<>>
    BY <1>0, <1>3 DEF Formats!NothingTaken, RefusedSoFar
  <2> QED
    BY <2>1, <2>2
    DEF FormatsInv, RefusedSoFar, NoneIsBetter, LayoutHasRoom, Formats!SampleIsWhole
<1>4. CASE Formats!TypeChanges
  <2>1. PICK f \in WebcamFormat, stride \in Stride \cup {Absent},
             size \in SampleSize \cup {Absent} :
          \/ /\ Formats!IsLayout(f.width, f.height, stride, size)
             /\ layout' = Formats!Layout(f.width, f.height, stride)
             /\ declared' = Formats!Declared(f.width, f.height, stride, size)
             /\ UNCHANGED negotiation
          \/ negotiation' = "failed" /\ UNCHANGED <<layout, declared>>
    BY <1>4 DEF Formats!TypeChanges
  <2>2. /\ negotiation = "open" /\ changes' = changes + 1 /\ changes < Changes
        /\ rows' = <<>> /\ buffer' = Absent /\ UNCHANGED <<listed, left, tried, refused>>
    BY <1>4 DEF Formats!TypeChanges
  <2>3. changes' \in 0 .. Changes /\ changes' # 0
    BY <1>0, <2>2, FormatsAre DEF FormatsTypeOK, Formats!TypeOK
  <2>4. CASE /\ Formats!IsLayout(f.width, f.height, stride, size)
             /\ layout' = Formats!Layout(f.width, f.height, stride)
             /\ declared' = Formats!Declared(f.width, f.height, stride, size)
             /\ UNCHANGED negotiation
    <3>1. /\ layout' \in LayoutRecord /\ declared' \in Nat
          /\ Formats!Magnitude(layout'.stride) >= Formats!RowBytes(layout'.width)
          /\ declared' >= Formats!Magnitude(layout'.stride) * layout'.height
      BY <2>4, AcceptedHasRoom
    <3>2. FormatsTypeOK'
      BY <1>0, <2>2, <2>3, <2>4, <3>1 DEF FormatsTypeOK, Formats!TypeOK, LayoutRecord
    <3>3. LayoutHasRoom'
      BY <3>1 DEF LayoutHasRoom
    <3> QED
      BY <2>2, <2>3, <2>4, <3>2, <3>3
      DEF FormatsInv, RefusedSoFar, NoneIsBetter, Formats!SampleIsWhole
  <2>5. CASE negotiation' = "failed" /\ UNCHANGED <<layout, declared>>
    <3>1. FormatsTypeOK'
      BY <1>0, <2>2, <2>3, <2>5 DEF FormatsTypeOK, Formats!TypeOK
    <3> QED
      BY <2>2, <2>5, <3>1
      DEF FormatsInv, RefusedSoFar, NoneIsBetter, LayoutHasRoom, Formats!SampleIsWhole
  <2> QED
    BY <2>1, <2>4, <2>5
<1>5. CASE Formats!Sample
  <2>1. PICK length \in Lengths :
          \/ \E offset \in Offset, pitch \in Pitch :
                rows' = Formats!RowsIn(length, offset, pitch) /\ buffer' = Absent
          \/ /\ buffer' = length
             /\ rows' = IF layout.stride < 0 THEN <<>>
                        ELSE Formats!RowsIn(length, 0, layout.stride)
    BY <1>5 DEF Formats!Sample
  <2>2. /\ negotiation = "open"
        /\ UNCHANGED <<negotiation, listed, left, tried, refused, layout, declared, changes>>
    BY <1>5 DEF Formats!Sample
  <2>3. layout \in LayoutRecord /\ length \in Nat /\ declared \in Nat
    BY <1>0, <2>2, FormatsAre DEF LayoutHasRoom, FormatsTypeOK, Formats!TypeOK
  <2>4. /\ FormatsTypeOK' /\ RefusedSoFar' /\ NoneIsBetter' /\ LayoutHasRoom'
    BY <1>0, <2>1, <2>2
    DEF FormatsTypeOK, Formats!TypeOK, RefusedSoFar, NoneIsBetter, LayoutHasRoom
  <2>5. ASSUME rows' # <<>>
        PROVE  /\ Len(rows') = layout.height
               /\ \A i, j \in DOMAIN rows' : i # j =>
                     Formats!Distance(rows'[i], rows'[j]) >=
                     Formats!RowBytes(layout.width)
               /\ \A i \in DOMAIN rows' :
                     /\ rows'[i] >= 0
                     /\ buffer' # Absent =>
                          rows'[i] + Formats!RowBytes(layout.width) <= buffer'
    <3>1. CASE \E offset \in Offset, pitch \in Pitch :
                 rows' = Formats!RowsIn(length, offset, pitch) /\ buffer' = Absent
      <4>1. PICK offset \in Offset, pitch \in Pitch :
                 rows' = Formats!RowsIn(length, offset, pitch) /\ buffer' = Absent
        BY <3>1
      <4>2. offset \in Nat /\ pitch \in Int
        BY FormatsAre
      <4> QED
        BY <2>3, <2>5, <4>1, <4>2, RowsAreIn
    <3>2. CASE buffer' = length /\ rows' = Formats!RowsIn(length, 0, layout.stride)
      <4>1. layout.stride \in Int /\ 0 \in Nat
        BY <2>3 DEF LayoutRecord
      <4> QED
        BY <2>3, <2>5, <3>2, <4>1, RowsAreIn
    <3> QED
      BY <2>1, <2>5, <3>1, <3>2
  <2>6. ASSUME buffer' # Absent, buffer' >= declared, layout.stride > 0
        PROVE  rows' # <<>>
    <3>1. buffer' = length /\ rows' = Formats!RowsIn(length, 0, layout.stride)
      BY <2>1, <2>3, <2>6 DEF LayoutRecord
    <3> QED
      BY <1>0, <2>2, <2>3, <2>6, <3>1, DeclaredIsEnough
  <2>7. Formats!SampleIsWhole'
    BY <2>2, <2>5, <2>6 DEF Formats!SampleIsWhole
  <2> QED
    BY <2>4, <2>7 DEF FormatsInv
<1> QED
  BY <1>1, <1>2, <1>3, <1>4, <1>5 DEF Formats!Next

\* The formats' invariant, for any formats a webcam may list.
THEOREM FormatsInvariance == Formats!Spec => []FormatsInv
<1>1. FormatsInv /\ UNCHANGED Formats!vars => FormatsInv'
  BY DEF Formats!vars, FormatsInv, FormatsTypeOK, Formats!TypeOK, RefusedSoFar,
     NoneIsBetter, LayoutHasRoom, Formats!SampleIsWhole
<1> QED
  BY <1>1, FormatsBegin, FormatsGoOn, PTL DEF Formats!Spec

\* A webcam is opened with the best format its reader takes, and every sample of
\* the declared size is copied.
THEOREM BestFormatIsTaken ==
    Formats!Spec => [](Formats!TypeOK /\ Formats!BestIsTaken /\ Formats!SampleIsWhole)
<1>1. FormatsInv => Formats!BestIsTaken
  <2> SUFFICES ASSUME FormatsInv, negotiation = "open", changes = 0,
                      tried # PipelineFormat
               PROVE  /\ PipelineFormat \in refused
                      /\ \A i \in DOMAIN listed :
                            \/ listed[i] \in refused
                            \/ tried.rank = 0 /\ listed[i].rank # 0
                            \/ /\ [listed[i] EXCEPT !.numerator = 1, !.denominator = 1]
                                    = [tried EXCEPT !.numerator = 1, !.denominator = 1]
                                 => Formats!RateDistance(tried)
                                      <= Formats!RateDistance(listed[i])
                               /\ tried.rank # 0 => listed[i].rank # 0
    BY DEF Formats!BestIsTaken
  <2>1. /\ tried \in WebcamFormat /\ PipelineFormat \in refused
        /\ \A i \in DOMAIN listed :
              \/ listed[i] \in refused \/ listed[i] = tried
              \/ ~Formats!Better(listed[i], tried)
    BY DEF FormatsInv, NoneIsBetter
  <2>2. ASSUME NEW i \in DOMAIN listed, ~Formats!Better(listed[i], tried)
        PROVE  \/ tried.rank = 0 /\ listed[i].rank # 0
               \/ /\ [listed[i] EXCEPT !.numerator = 1, !.denominator = 1]
                       = [tried EXCEPT !.numerator = 1, !.denominator = 1]
                    => Formats!RateDistance(tried) <= Formats!RateDistance(listed[i])
                  /\ tried.rank # 0 => listed[i].rank # 0
    <3>1. listed[i] \in WebcamFormat
      BY DEF FormatsInv, FormatsTypeOK
    <3> QED
      BY <2>1, <2>2, <3>1, NotBetter
  <2>3. Formats!RateDistance(tried) <= Formats!RateDistance(tried)
    <3>1. Formats!RateDistance(tried) \in Nat
      BY <2>1, RatesAre
    <3> QED
      BY <3>1
  <2> QED
    BY <2>1, <2>2, <2>3
<1> QED
  BY <1>1, FormatsInvariance, PTL DEF FormatsInv, FormatsTypeOK

----------------------------------------------------------------------------
\* The files and the registration of the DLL (Deployment).

\* Without doubt, or in the process that mends it, one process is elevated at a time.
OneElevated ==
    doubt # "yes" =>
      \A p, q \in Process :
         pc[p] \in Files!Elevated /\ pc[q] \in Files!Elevated => p = q

\* What is registered is a whole file that stays at the next start of Windows.
RegisteredStays ==
    doubt = "none" /\ registered # None
      => dll[registered] = "whole" /\ registered \notin doomed

\* A process that works alone has its file before it registers it, and removes only
\* what is not registered.
Works(p) ==
    /\ pc[p] \in Files!Installing => version[p] \notin doomed
    /\ pc[p] \in {"register", "threading", "register prior", "clean"}
         => dll[version[p]] = "whole"
    /\ pc[p] \in {"threading", "clean"} => registered = version[p]
    /\ pc[p] = "remove files" => registered = None

\* Without doubt it also has what it may go back to until it registers that; a step
\* it takes back has failed.
Returns(p) ==
    /\ pc[p] \in {"rename", "register", "register prior", "drop new"} /\ existed[p] = "no"
         => registered # version[p]
    /\ pc[p] \in {"register", "threading", "register prior"} /\ prior[p] # None
         => dll[prior[p]] = "whole" /\ prior[p] \notin doomed
    /\ pc[p] = "register prior" => troubles + 1 <= Troubles
    /\ pc[p] = "drop new" /\ prior[p] \notin {None, version[p]}
         => \/ registered = prior[p] /\ threading = "yes"
            \/ troubles + 2 <= Troubles

Elevates(p) ==
    /\ doubt # "yes" => Works(p)
    /\ doubt = "none" => Returns(p)

FilesInv ==
    /\ Files!TypeOK
    /\ OneElevated
    /\ RegisteredStays
    /\ \A p \in Process : Elevates(p)

\* What is assumed of versions and of the bound.
LEMMA FilesAre == None \notin Version /\ Troubles \in Nat
BY CameraAssumption DEF Files!NoneAssumption, Files!DeploymentBounds

\* A step of a process moves no other one.
LEMMA StaysElevated ==
    ASSUME FilesInv, NEW p \in Process,
           \A q \in Process : q # p => pc'[q] = pc[q],
           doubt' # "yes" =>
              \/ doubt # "yes"
                 /\ (pc'[p] \notin Files!Elevated \/ pc[p] \in Files!Elevated)
              \/ \A q \in Process : pc[q] \notin Files!Elevated
    PROVE  OneElevated'
BY DEF FilesInv, OneElevated

\* A process that is not elevated has nothing to go by.
LEMMA IdleElevates ==
    ASSUME NEW q \in Process, pc[q] \notin Files!Elevated
    PROVE  Works(q) /\ Returns(q)
BY DEF Works, Returns, Files!Elevated, Files!Installing, Files!Cleaning

\* A process that is elevated alone may change the files and the registration.
LEMMA OthersElevated ==
    ASSUME FilesInv, NEW p \in Process, pc[p] \in Files!Elevated,
           \A q \in Process : q # p => pc'[q] = pc[q],
           doubt' # "yes" => doubt # "yes",
           Elevates(p)'
    PROVE  \A q \in Process : Elevates(q)'
<1>1. ASSUME NEW q \in Process, q # p, doubt' # "yes"
      PROVE  (Works(q) /\ Returns(q))'
  <2>1. pc'[q] \notin Files!Elevated
    BY <1>1 DEF FilesInv, OneElevated
  <2> QED
    BY <2>1, IdleElevates DEF Works, Returns, Files!Elevated, Files!Installing, Files!Cleaning
<1> QED
  BY <1>1 DEF Elevates

\* Fewer calls that may yet fail are more that have.
LEMMA FewerStay ==
    ASSUME NEW a \in Nat, NEW b \in Nat, NEW c \in Nat, c <= b
    PROVE  (b + 1 <= a => c + 1 <= a) /\ (b + 2 <= a => c + 2 <= a)
OBVIOUS

\* A process that is not elevated changes neither, nor does one that becomes it.
LEMMA NotElevated ==
    ASSUME FilesInv, NEW p \in Process,
           doubt' # "yes" /\ pc'[p] \in Files!Elevated =>
              \/ pc'[p] = "install" /\ version[p] \notin doomed
              \/ pc'[p] = "startup off",
           doubt' = "none" => doubt = "none",
           doubt' # "yes" => doubt # "yes" \/ \A q \in Process : pc[q] \notin Files!Elevated,
           \A q \in Process : q # p => pc'[q] = pc[q],
           UNCHANGED <<dll, doomed, registered, threading, version, existed, prior>>,
           Troubles \in Nat, troubles \in Nat, troubles' \in Nat, troubles' <= troubles
    PROVE  RegisteredStays' /\ \A q \in Process : Elevates(q)'
<1>1. ASSUME NEW q \in Process
      PROVE  Elevates(q)'
  <2>1. CASE q = p
    BY <2>1 DEF Elevates, Works, Returns, Files!Elevated, Files!Installing, Files!Cleaning
  <2>2. CASE q # p
    <3>1. pc'[q] = pc[q] /\ Elevates(q)
      BY <2>2 DEF FilesInv
    <3>2. /\ troubles + 1 <= Troubles => troubles' + 1 <= Troubles
          /\ troubles + 2 <= Troubles => troubles' + 2 <= Troubles
      BY FewerStay
    <3>3. ASSUME doubt' # "yes"
          PROVE  Works(q)'
      <4>1. Works(q)
        BY <3>1, <3>3, IdleElevates DEF Elevates
      <4> QED
        BY <3>1, <4>1 DEF Works
    <3>4. ASSUME doubt' = "none"
          PROVE  Returns(q)'
      BY <3>1, <3>2, <3>4 DEF Elevates, Returns
    <3> QED
      BY <3>3, <3>4 DEF Elevates
  <2> QED
    BY <2>1, <2>2
<1> QED
  BY <1>1 DEF FilesInv, RegisteredStays

\* Troubles only grow less.
LEMMA TroublesAre ==
    ASSUME Files!TypeOK, Files!Next
    PROVE  /\ troubles \in Nat /\ troubles' \in Nat /\ troubles' <= troubles
           /\ troubles' \in 0 .. Troubles
<1>1. troubles' = troubles \/ Files!Trouble
  <2> USE DEF Files!process
  <2>1. ASSUME NEW p \in Process, Files!Launch(p)
        PROVE  troubles' = troubles \/ Files!Trouble
    BY <2>1 DEF Files!Launch
  <2>2. ASSUME NEW p \in Process, Files!EnsureDeployment(p)
        PROVE  troubles' = troubles \/ Files!Trouble
    BY <2>2 DEF Files!EnsureDeployment
  <2>3. ASSUME NEW p \in Process, Files!VerifyDeployment(p)
        PROVE  troubles' = troubles \/ Files!Trouble
    BY <2>3 DEF Files!VerifyDeployment
  <2>5. ASSUME NEW p \in Process, Files!Stage(p)
        PROVE  troubles' = troubles \/ Files!Trouble
    BY <2>5 DEF Files!Stage
  <2>6. ASSUME NEW p \in Process, Files!Rename(p)
        PROVE  troubles' = troubles \/ Files!Trouble
    BY <2>6 DEF Files!Rename
  <2>7. ASSUME NEW p \in Process, Files!InvokeRegistration(p)
        PROVE  troubles' = troubles \/ Files!Trouble
    BY <2>7 DEF Files!InvokeRegistration
  <2>8. ASSUME NEW p \in Process, Files!WriteThreadingModel(p)
        PROVE  troubles' = troubles \/ Files!Trouble
    BY <2>8 DEF Files!WriteThreadingModel
  <2>9. ASSUME NEW p \in Process, Files!RegisterPrior(p)
        PROVE  troubles' = troubles \/ Files!Trouble
    BY <2>9 DEF Files!RegisterPrior
  <2>10. ASSUME NEW p \in Process, Files!DropNew(p)
        PROVE  troubles' = troubles \/ Files!Trouble
    BY <2>10 DEF Files!DropNew
  <2>11. ASSUME NEW p \in Process, Files!CleanManagedSources(p)
        PROVE  troubles' = troubles \/ Files!Trouble
    BY <2>11 DEF Files!CleanManagedSources
  <2>12. ASSUME NEW p \in Process, Files!Cleanup(p)
        PROVE  troubles' = troubles \/ Files!Trouble
    BY <2>12 DEF Files!Cleanup
  <2>13. ASSUME NEW p \in Process, Files!ConfigureStartupOff(p)
        PROVE  troubles' = troubles \/ Files!Trouble
    BY <2>13 DEF Files!ConfigureStartupOff
  <2>14. ASSUME NEW p \in Process, Files!RemoveVirtualCamera(p)
        PROVE  troubles' = troubles \/ Files!Trouble
    BY <2>14 DEF Files!RemoveVirtualCamera
  <2>15. ASSUME NEW p \in Process, Files!Unregister(p)
        PROVE  troubles' = troubles \/ Files!Trouble
    BY <2>15 DEF Files!Unregister
  <2>16. ASSUME NEW p \in Process, Files!DeleteRegistryTree(p)
        PROVE  troubles' = troubles \/ Files!Trouble
    BY <2>16 DEF Files!DeleteRegistryTree
  <2>17. ASSUME NEW p \in Process, Files!RemoveFiles(p)
        PROVE  troubles' = troubles \/ Files!Trouble
    BY <2>17 DEF Files!RemoveFiles
  <2>18. ASSUME NEW p \in Process, Files!Die(p)
        PROVE  troubles' = troubles \/ Files!Trouble
    BY <2>18 DEF Files!Die
  <2>19. CASE Files!LoadSource
    BY <2>19 DEF Files!LoadSource
  <2>20. CASE Files!UnloadSource
    BY <2>20 DEF Files!UnloadSource
  <2>21. CASE Files!Reboot
    BY <2>21 DEF Files!Reboot
  <2> QED
    BY <2>1, <2>2, <2>3, <2>5, <2>6, <2>7, <2>8, <2>9, <2>10, <2>11,
       <2>12, <2>13, <2>14, <2>15, <2>16, <2>17, <2>18, <2>19, <2>20, <2>21 DEF
       Files!Next, Files!Install, Files!Clean
<1>2. troubles \in 0 .. Troubles /\ Troubles \in Nat
  BY FilesAre DEF Files!TypeOK
<1> QED
  BY <1>1, <1>2 DEF Files!Trouble

\* The staged file is renamed, and what is there then is what counts.
LEMMA RenameDoes ==
    ASSUME NEW p \in Process, Files!Rename(p)
    PROVE  /\ pc[p] = "rename" /\ staged' = staged \ {version[p]}
           /\ dll' = [dll EXCEPT ![version[p]] = "whole"] \/ dll' = dll
           /\ \/ /\ prior' = [prior EXCEPT ![p] = registered]
                 /\ dll'[version[p]] = "whole"
                 /\ pc' = [pc EXCEPT ![p] = "register"] /\ UNCHANGED <<existed, outcome>>
              \/ /\ pc' = [pc EXCEPT ![p] = "check again"]
                 /\ prior' = [prior EXCEPT ![p] = None]
                 /\ existed' = [existed EXCEPT ![p] = "no"]
                 /\ outcome' = [outcome EXCEPT ![p] = "failed"]
           /\ UNCHANGED <<doomed, loaded, registered, threading, version, doubt>>
<1> USE DEF Files!Rename, Files!Goes, Files!Ends, Files!Installing, Files!registry
<1>1. CASE dll'[version[p]] = "whole"
  BY <1>1
<1>2. CASE dll'[version[p]] # "whole"
  BY <1>2
<1> QED
  BY <1>1, <1>2

\* Removing sources keeps the shape of the files.
LEMMA RemovedTypes ==
    ASSUME Files!TypeOK, NEW keep, Files!RemoveSources(keep)
    PROVE  /\ dll' \in [Version -> {"none", "whole", "other"}]
           /\ staged' \subseteq Version /\ doomed' \subseteq Version
           /\ doubt' \in {"none", "mending", "yes"}
<1>1. Files!InUse \subseteq Version
  BY DEF Files!InUse, Files!TypeOK
<1>2. doomed' \subseteq Version /\ doubt' \in {"none", "mending", "yes"} /\ staged' = {}
  BY <1>1 DEF Files!RemoveSources, Files!TypeOK
<1>3. dll' \in [Version -> {"none", "whole", "other"}]
  BY DEF Files!RemoveSources, Files!TypeOK
<1> QED
  BY <1>2, <1>3

\* Steps keep the shape of the variables.
LEMMA FilesTypeKept ==
    ASSUME Files!TypeOK, Files!Next
    PROVE  Files!TypeOK'
<1> USE FilesAre, TroublesAre DEF Files!Goes, Files!Ends, Files!Installing,
      Files!Cleaning, Files!Elevated, Files!Elevate, Files!files,
      Files!registry, Files!process, Files!TypeOK
<1>1. ASSUME NEW p \in Process, Files!Launch(p)
      PROVE  Files!TypeOK'
  BY <1>1 DEF Files!Launch
<1>2. ASSUME NEW p \in Process, Files!EnsureDeployment(p)
      PROVE  Files!TypeOK'
  BY <1>2 DEF Files!EnsureDeployment
<1>3. ASSUME NEW p \in Process, Files!VerifyDeployment(p)
      PROVE  Files!TypeOK'
  BY <1>3 DEF Files!VerifyDeployment
<1>5. ASSUME NEW p \in Process, Files!Stage(p)
      PROVE  Files!TypeOK'
  <2> DEFINE v == version[p]
  <2>1. v \in Version
    OBVIOUS
  <2>2. staged' \subseteq Version
    <3>1. staged' \in {staged \ {v}, staged \cup {v}}
      BY <1>5 DEF Files!Stage
    <3> QED
      BY <2>1, <3>1
  <2>3. pc' \in [Process -> {"idle", "check", "check again", "started", "refused", "cleaned"}
                            \cup Files!Elevated]
    BY <1>5 DEF Files!Stage
  <2>4. prior' \in [Process -> Version \cup {None}]
    BY <1>5 DEF Files!Stage
  <2>5. outcome' \in [Process -> {"none", "ok", "failed"}]
    BY <1>5 DEF Files!Stage
  <2>6. existed' \in [Process -> {"yes", "no"}]
    BY <1>5 DEF Files!Stage
  <2>7. UNCHANGED <<dll, doomed, loaded, registered, threading, version, doubt>>
    BY <1>5 DEF Files!Stage
  <2> QED
    BY <2>2, <2>3, <2>4, <2>5, <2>6, <2>7
<1>6. ASSUME NEW p \in Process, Files!Rename(p)
      PROVE  Files!TypeOK'
  <2> DEFINE v == version[p]
  <2>1. v \in Version
    OBVIOUS
  <2>0. /\ staged' = staged \ {v}
        /\ dll' = [dll EXCEPT ![v] = "whole"] \/ dll' = dll
        /\ \/ /\ prior' = [prior EXCEPT ![p] = registered]
              /\ pc' = [pc EXCEPT ![p] = "register"] /\ UNCHANGED <<existed, outcome>>
           \/ /\ pc' = [pc EXCEPT ![p] = "check again"]
              /\ prior' = [prior EXCEPT ![p] = None]
              /\ existed' = [existed EXCEPT ![p] = "no"]
              /\ outcome' = [outcome EXCEPT ![p] = "failed"]
        /\ UNCHANGED <<doomed, loaded, registered, threading, version, doubt>>
    <3> HIDE DEF Files!TypeOK
    <3> QED
      BY <1>6, RenameDoes
  <2>2. staged' \subseteq Version /\ dll' \in [Version -> {"none", "whole", "other"}]
    <3>1. staged' \subseteq Version
      BY <2>0
    <3>2. dll' \in [Version -> {"none", "whole", "other"}]
      BY <2>0, <2>1
    <3> QED
      BY <3>1, <3>2
  <2>3. pc' \in [Process -> {"idle", "check", "check again", "started", "refused", "cleaned"}
                            \cup Files!Elevated]
    BY <2>0
  <2>4. prior' \in [Process -> Version \cup {None}]
    BY <2>0
  <2>5. outcome' \in [Process -> {"none", "ok", "failed"}]
    BY <2>0
  <2>6. existed' \in [Process -> {"yes", "no"}]
    BY <2>0
  <2> QED
    BY <2>0, <2>2, <2>3, <2>4, <2>5, <2>6
<1>7. ASSUME NEW p \in Process, Files!InvokeRegistration(p)
      PROVE  Files!TypeOK'
  BY <1>7 DEF Files!InvokeRegistration
<1>8. ASSUME NEW p \in Process, Files!WriteThreadingModel(p)
      PROVE  Files!TypeOK'
  BY <1>8 DEF Files!WriteThreadingModel
<1>9. ASSUME NEW p \in Process, Files!RegisterPrior(p)
      PROVE  Files!TypeOK'
  BY <1>9 DEF Files!RegisterPrior
<1>10. ASSUME NEW p \in Process, Files!DropNew(p)
      PROVE  Files!TypeOK'
  BY <1>10 DEF Files!DropNew
<1>11. ASSUME NEW p \in Process, Files!CleanManagedSources(p)
      PROVE  Files!TypeOK'
  <2>1. /\ Files!RemoveSources({version[p]}) /\ Files!Ends(p, "ok")
        /\ UNCHANGED <<loaded, registered, threading, version>>
    BY <1>11 DEF Files!CleanManagedSources
  <2> QED
    BY <2>1, RemovedTypes DEF Files!Ends
<1>12. ASSUME NEW p \in Process, Files!Cleanup(p)
      PROVE  Files!TypeOK'
  BY <1>12 DEF Files!Cleanup
<1>13. ASSUME NEW p \in Process, Files!ConfigureStartupOff(p)
      PROVE  Files!TypeOK'
  BY <1>13 DEF Files!ConfigureStartupOff
<1>14. ASSUME NEW p \in Process, Files!RemoveVirtualCamera(p)
      PROVE  Files!TypeOK'
  BY <1>14 DEF Files!RemoveVirtualCamera
<1>15. ASSUME NEW p \in Process, Files!Unregister(p)
      PROVE  Files!TypeOK'
  BY <1>15 DEF Files!Unregister
<1>16. ASSUME NEW p \in Process, Files!DeleteRegistryTree(p)
      PROVE  Files!TypeOK'
  BY <1>16 DEF Files!DeleteRegistryTree
<1>17. ASSUME NEW p \in Process, Files!RemoveFiles(p)
      PROVE  Files!TypeOK'
  <2>1. /\ Files!RemoveSources({}) /\ Files!Ends(p, outcome[p])
        /\ UNCHANGED <<loaded, registered, threading, version>>
    BY <1>17 DEF Files!RemoveFiles
  <2> QED
    BY <2>1, RemovedTypes DEF Files!Ends
<1>18. ASSUME NEW p \in Process, Files!Die(p)
      PROVE  Files!TypeOK'
  BY <1>18 DEF Files!Die
<1>19. CASE Files!LoadSource
  BY <1>19 DEF Files!LoadSource
<1>20. CASE Files!UnloadSource
  BY <1>20 DEF Files!UnloadSource
<1>21. CASE Files!Reboot
  BY <1>21 DEF Files!Reboot
<1> QED
  BY <1>1, <1>2, <1>3, <1>5, <1>6, <1>7, <1>8, <1>9, <1>10, <1>11, <1>12,
     <1>13, <1>14, <1>15, <1>16, <1>17, <1>18, <1>19, <1>20, <1>21 DEF Files!Next,
     Files!Install, Files!Clean

\* A call that fails is counted.
LEMMA TroubleCosts ==
    ASSUME Files!TypeOK
    PROVE  /\ Files!Trouble => troubles' + 1 <= Troubles
           /\ Files!Trouble /\ troubles + 1 <= Troubles => troubles' + 2 <= Troubles
           /\ troubles \in Nat /\ Troubles \in Nat /\ troubles <= Troubles
<1>1. troubles \in Nat /\ Troubles \in Nat /\ troubles <= Troubles
  <2>1. troubles \in 0 .. Troubles /\ Troubles \in Nat
    BY FilesAre DEF Files!TypeOK
  <2> QED
    BY <2>1
<1>2. Files!Trouble => troubles' + 1 = troubles /\ troubles' \in Nat
  BY <1>1 DEF Files!Trouble
<1> QED
  BY <1>1, <1>2

\* An elevated step keeps what is registered on disk and leaves its process with
\* what its next step needs.
LEMMA ElevatedGoesOn ==
    ASSUME FilesInv, NEW p \in Process,
           \/ Files!Install(p)
           \/ Files!ConfigureStartupOff(p) \/ Files!RemoveVirtualCamera(p)
           \/ Files!Unregister(p) \/ Files!DeleteRegistryTree(p) \/ Files!RemoveFiles(p)
           \/ Files!Die(p),
           Files!Next
    PROVE  RegisteredStays' /\ Elevates(p)'
<1> USE DEF Files!Goes, Files!Ends, Files!Installing, Files!Cleaning, Files!Elevated,
      Files!files, Files!registry, Files!process, RegisteredStays, Works, Returns, Elevates
<1> DEFINE v == version[p]
<1>0. /\ v \in Version /\ None \notin Version /\ pc \in [Process -> {"idle", "check",
           "check again", "started", "refused", "cleaned"} \cup Files!Elevated]
      /\ dll \in [Version -> {"none", "whole", "other"}]
      /\ existed \in [Process -> {"yes", "no"}]
      /\ prior \in [Process -> Version \cup {None}]
      /\ registered \in Version \cup {None} /\ doomed \subseteq Version
      /\ RegisteredStays /\ Elevates(p)
  BY FilesAre DEF FilesInv, Files!TypeOK
<1>00. /\ Files!Trouble => troubles' + 1 <= Troubles
       /\ Files!Trouble /\ troubles + 1 <= Troubles => troubles' + 2 <= Troubles
       /\ troubles \in Nat /\ Troubles \in Nat /\ troubles <= Troubles
  BY TroubleCosts DEF FilesInv
<1>1. CASE Files!Stage(p)
  BY <1>0, <1>00, <1>1 DEF Files!Stage, Files!RemoveSources, Files!InUse
<1>2. CASE Files!Rename(p)
  <2>0. /\ pc[p] = "rename"
        /\ dll' = [dll EXCEPT ![v] = "whole"] \/ dll' = dll
        /\ \/ /\ prior' = [prior EXCEPT ![p] = registered]
              /\ dll'[v] = "whole" /\ pc' = [pc EXCEPT ![p] = "register"]
                 /\ UNCHANGED existed
           \/ pc' = [pc EXCEPT ![p] = "check again"]
        /\ UNCHANGED <<doomed, registered, threading, version, doubt>>
    <3> HIDE DEF RegisteredStays, Works, Returns, Elevates
    <3> QED
      BY <1>2, RenameDoes
  <2>1. RegisteredStays'
    BY <1>0, <2>0
  <2>2. CASE pc' = [pc EXCEPT ![p] = "check again"]
    BY <1>0, <2>0, <2>2
  <2>3. CASE /\ prior' = [prior EXCEPT ![p] = registered] /\ dll'[v] = "whole"
             /\ pc' = [pc EXCEPT ![p] = "register"] /\ UNCHANGED existed
    <3>1. pc'[p] = "register" /\ prior'[p] = registered
      BY <1>0, <2>3
    <3> QED
      BY <1>0, <2>0, <2>1, <2>3, <3>1
  <2> QED
    BY <2>0, <2>1, <2>2, <2>3
<1>3. CASE Files!InvokeRegistration(p)
  BY <1>0, <1>00, <1>3 DEF Files!InvokeRegistration, Files!RemoveSources, Files!InUse
<1>4. CASE Files!WriteThreadingModel(p)
  BY <1>0, <1>00, <1>4 DEF Files!WriteThreadingModel, Files!RemoveSources, Files!InUse
<1>5. CASE Files!RegisterPrior(p)
  BY <1>0, <1>00, <1>5 DEF Files!RegisterPrior, Files!RemoveSources, Files!InUse
<1>6. CASE Files!DropNew(p)
  BY <1>0, <1>00, <1>6 DEF Files!DropNew, Files!RemoveSources, Files!InUse
<1>7. CASE Files!CleanManagedSources(p)
  BY <1>0, <1>00, <1>7 DEF Files!CleanManagedSources, Files!RemoveSources, Files!InUse
<1>8. CASE Files!ConfigureStartupOff(p)
  BY <1>0, <1>00, <1>8 DEF Files!ConfigureStartupOff, Files!RemoveSources, Files!InUse
<1>9. CASE Files!RemoveVirtualCamera(p)
  BY <1>0, <1>00, <1>9 DEF Files!RemoveVirtualCamera, Files!RemoveSources, Files!InUse
<1>10. CASE Files!Unregister(p)
  BY <1>0, <1>00, <1>10 DEF Files!Unregister, Files!RemoveSources, Files!InUse
<1>11. CASE Files!DeleteRegistryTree(p)
  BY <1>0, <1>00, <1>11 DEF Files!DeleteRegistryTree, Files!RemoveSources, Files!InUse
<1>12. CASE Files!RemoveFiles(p)
  BY <1>0, <1>00, <1>12 DEF Files!RemoveFiles, Files!RemoveSources, Files!InUse
<1>13. CASE Files!Die(p)
  BY <1>0, <1>00, <1>13 DEF Files!Die, Files!RemoveSources, Files!InUse
<1> QED
  BY <1>1, <1>2, <1>3, <1>4, <1>5, <1>6, <1>7, <1>8, <1>9, <1>10, <1>11, <1>12,
     <1>13 DEF Files!Install

\* The invariant of the files and the registration.
THEOREM FilesInvariance == Files!Spec => []FilesInv
<1>1. Files!Init => FilesInv
  <2> SUFFICES ASSUME Files!Init
               PROVE  FilesInv
    OBVIOUS
  <2>1. Files!TypeOK
    BY FilesAre DEF Files!Init, Files!TypeOK
  <2>2. registered = None /\ \A p \in Process : pc[p] \notin Files!Elevated
    BY DEF Files!Init, Files!Elevated, Files!Installing, Files!Cleaning
  <2> QED
    BY <2>1, <2>2
    DEF FilesInv, OneElevated, RegisteredStays, Works, Returns, Elevates, Files!Elevated, Files!Installing,
        Files!Cleaning
<1>2. ASSUME FilesInv, Files!Next
      PROVE  FilesInv'
  <2>0. /\ Files!TypeOK /\ Files!TypeOK'
        /\ troubles \in Nat /\ Troubles \in Nat /\ troubles' \in Nat /\ troubles' <= troubles
        /\ pc = [p \in Process |-> pc[p]]
    BY <1>2, FilesTypeKept, TroublesAre, FilesAre DEF FilesInv, Files!TypeOK
  <2>1. ASSUME NEW p \in Process, Files!Install(p) \/ Files!Die(p) \/
           Files!ConfigureStartupOff(p) \/ Files!RemoveVirtualCamera(p) \/
           Files!Unregister(p) \/ Files!DeleteRegistryTree(p) \/ Files!RemoveFiles(p)
        PROVE  FilesInv'
    <3>1. pc[p] \in Files!Elevated
      BY <2>1
      DEF Files!Install, Files!Stage, Files!Rename, Files!InvokeRegistration,
          Files!WriteThreadingModel, Files!RegisterPrior, Files!DropNew,
          Files!CleanManagedSources, Files!Die, Files!ConfigureStartupOff,
          Files!RemoveVirtualCamera, Files!Unregister, Files!DeleteRegistryTree,
          Files!RemoveFiles, Files!Elevated, Files!Installing, Files!Cleaning
    <3>2. \A q \in Process : q # p => pc'[q] = pc[q]
      BY <2>0, <2>1
      DEF Files!Install, Files!Stage, Files!Rename, Files!InvokeRegistration,
          Files!WriteThreadingModel, Files!RegisterPrior, Files!DropNew,
          Files!CleanManagedSources, Files!Die, Files!ConfigureStartupOff,
          Files!RemoveVirtualCamera, Files!Unregister, Files!DeleteRegistryTree,
          Files!RemoveFiles, Files!Goes, Files!Ends
    <3>3. RegisteredStays' /\ Elevates(p)'
      BY <1>2, <2>1, ElevatedGoesOn
    <3>a. doubt' # "yes" => doubt # "yes"
      BY <2>1
      DEF Files!Install, Files!Stage, Files!Rename, Files!InvokeRegistration,
          Files!WriteThreadingModel, Files!RegisterPrior, Files!DropNew,
          Files!CleanManagedSources, Files!Die, Files!ConfigureStartupOff,
          Files!RemoveVirtualCamera, Files!Unregister, Files!DeleteRegistryTree,
          Files!RemoveFiles, Files!RemoveSources
    <3>4. OneElevated' /\ \A q \in Process : Elevates(q)'
      BY <1>2, <3>1, <3>2, <3>3, <3>a, StaysElevated, OthersElevated
    <3> QED
      BY <2>0, <3>3, <3>4 DEF FilesInv
  <2>2. ASSUME NEW p \in Process, Files!Launch(p) \/ Files!EnsureDeployment(p) \/
           Files!VerifyDeployment(p) \/ Files!Cleanup(p)
        PROVE  FilesInv'
    <3>1. /\ \A q \in Process : q # p => pc'[q] = pc[q]
          /\ UNCHANGED <<dll, doomed, registered, threading, version, existed, prior>>
          /\ doubt' # "yes" /\ pc'[p] \in Files!Elevated =>
                /\ \A q \in Process : pc[q] \notin Files!Elevated
                /\ \/ pc'[p] = "install" /\ version[p] \notin doomed
                   \/ pc'[p] = "startup off"
          /\ doubt' = "none" => doubt = "none"
          /\ doubt' # "yes" =>
                doubt # "yes" \/ \A q \in Process : pc[q] \notin Files!Elevated
      <4>1. /\ \A q \in Process : q # p => pc'[q] = pc[q]
            /\ UNCHANGED <<dll, doomed, registered, threading, version, existed, prior>>
            /\ \/ pc'[p] \notin Files!Elevated /\ doubt' = doubt
               \/ Files!Elevate(p, "install")
               \/ Files!Elevate(p, "startup off")
        BY <2>0, <2>2
        DEF Files!Launch, Files!EnsureDeployment, Files!VerifyDeployment,
            Files!Cleanup, Files!Goes, Files!Elevate, Files!Elevated, Files!Installing,
            Files!Cleaning, Files!files, Files!registry, Files!process
      <4>2. ASSUME NEW to, Files!Elevate(p, to)
            PROVE  /\ pc'[p] = to
                   /\ doubt' # "yes" =>
                         /\ \A q \in Process : pc[q] \notin Files!Elevated
                         /\ to = "install" => version[p] \notin doomed
                   /\ doubt' = "none" => doubt = "none"
        <5> DEFINE crosses == \E q \in Process : pc[q] \in Files!Elevated
                   returns == to = "install" /\ version[p] \in doomed
        <5>1. pc' = [pc EXCEPT ![p] = to]
          BY <4>2 DEF Files!Elevate, Files!Goes
        <5>2. doubt' = IF crosses \/ returns THEN "yes"
                       ELSE IF doubt = "yes" THEN "mending" ELSE doubt
          BY <4>2 DEF Files!Elevate
        <5>3. CASE crosses \/ returns
          <6>1. doubt' = "yes"
            <7> HIDE DEF crosses, returns
            <7> QED
              BY <5>2, <5>3
          <6> QED
            BY <2>0, <5>1, <6>1
        <5>4. CASE ~(crosses \/ returns)
          <6>1. doubt' = "none" => doubt = "none"
            <7> HIDE DEF crosses, returns
            <7> QED
              BY <5>2, <5>4
          <6> QED
            BY <2>0, <5>1, <5>4, <6>1
        <5> QED
          BY <5>3, <5>4
      <4> QED
        BY <4>1, <4>2
    <3>2. OneElevated'
      BY <1>2, <3>1, StaysElevated
    <3>3. RegisteredStays' /\ \A q \in Process : Elevates(q)'
      BY <1>2, <2>0, <3>1, NotElevated
    <3> QED
      BY <2>0, <3>2, <3>3 DEF FilesInv
  <2>3. CASE Files!LoadSource \/ Files!UnloadSource
    BY <1>2, <2>0, <2>3
    DEF Files!LoadSource, Files!UnloadSource, FilesInv, OneElevated,
        RegisteredStays, Works, Returns, Elevates, Files!registry, Files!process
  <2>4. CASE Files!Reboot
    <3>1. /\ \A p \in Process : pc'[p] \notin Files!Elevated
          /\ dll' = [v \in Version |-> IF v \in doomed THEN "none" ELSE dll[v]]
          /\ doomed' = {} /\ UNCHANGED <<registered, doubt>>
      BY <2>4 DEF Files!Reboot, Files!registry, Files!Elevated,
         Files!Installing, Files!Cleaning
    <3>2. registered \in Version \cup {None}
      BY <2>0 DEF Files!TypeOK
    <3>3. RegisteredStays' /\ OneElevated'
      BY <1>2, <3>1, <3>2 DEF FilesInv, RegisteredStays, OneElevated
    <3>4. \A p \in Process : Elevates(p)'
      BY <3>1 DEF Elevates, Works, Returns, Files!Elevated, Files!Installing, Files!Cleaning
    <3> QED
      BY <2>0, <3>3, <3>4 DEF FilesInv
  <2> QED
    BY <1>2, <2>1, <2>2, <2>3, <2>4 DEF Files!Next, Files!Clean
<1>3. ASSUME FilesInv, UNCHANGED Files!vars
      PROVE  FilesInv'
  BY <1>3 DEF Files!vars, Files!files, Files!registry, Files!process, FilesInv,
     Files!TypeOK,
     OneElevated, RegisteredStays, Works, Returns, Elevates
<1> QED
  BY <1>1, <1>2, <1>3, PTL DEF Files!Spec

\* What is registered is on disk whatever step fails and wherever a process dies,
\* and a registration that fails brings back the one before it, whichever processes
\* are elevated together and versions come back, as long as none has or once one
\* that was alone has done its work (doubt).
THEOREM RegistrationAlwaysSound ==
    Files!Spec => [](Files!TypeOK /\ Files!RegisteredIsOnDisk)
                    /\ Files!FailedRegistrationRestores
<1>1. FilesInv => Files!TypeOK /\ Files!RegisteredIsOnDisk
  BY DEF FilesInv, RegisteredStays, Files!RegisteredIsOnDisk
<1>2. ASSUME FilesInv
      PROVE  \A p \in Process :
               doubt = "none" /\ pc[p] = "drop new" /\ prior[p] \notin {None, version[p]}
                 /\ dll[prior[p]] = "whole" /\ Troubles - troubles < 2
               => registered = prior[p] /\ threading = "yes"
  <2>1. troubles \in Nat /\ Troubles \in Nat
    BY <1>2, TroubleCosts DEF FilesInv
  <2>2. troubles + 2 <= Troubles => ~(Troubles - troubles < 2)
    BY <2>1
  <2> QED
    BY <1>2, <2>2 DEF FilesInv, Returns, Elevates
<1> QED
  BY <1>1, <1>2, FilesInvariance, PTL DEF Files!FailedRegistrationRestores

----------------------------------------------------------------------------
\* The composition (MCCamera).

\* A behaviour of the composition is a behaviour of the webcam's sessions.
LEMMA CameraRunsWebcam == CamSpec => Webcam!Spec
<1>1. CamInit => Webcam!Init
  BY DEF CamInit
<1>2. [CamNext]_<<part, mcVars, sampleVars, serverVars, fileVars, webcamVars,
                  negotiationVars>>
        => [Webcam!Next]_(Webcam!vars)
  BY DEF CamNext, webcamVars, Webcam!vars
<1> QED
  BY <1>1, <1>2, PTL DEF CamSpec, Webcam!Spec

\* It is a behaviour of the choice of the webcam's format.
LEMMA CameraRunsFormats == CamSpec => Formats!Spec
<1>1. CamInit => Formats!Init
  BY DEF CamInit
<1>2. [CamNext]_<<part, mcVars, sampleVars, serverVars, fileVars, webcamVars,
                  negotiationVars>>
        => [Formats!Next]_(Formats!vars)
  BY DEF CamNext, negotiationVars, Formats!vars
<1> QED
  BY <1>1, <1>2, PTL DEF CamSpec, Formats!Spec

\* It is a behaviour of the files and the registration.
LEMMA CameraRunsFiles == CamSpec => Files!Spec
<1>1. CamInit => Files!Init
  BY DEF CamInit
<1>2. [CamNext]_<<part, mcVars, sampleVars, serverVars, fileVars, webcamVars,
                  negotiationVars>>
        => [Files!Next]_(Files!vars)
  BY DEF CamNext, fileVars, Files!vars, Files!files, Files!registry, Files!process
<1> QED
  BY <1>1, <1>2, PTL DEF CamSpec, Files!Spec

\* Every session that runs is served and every end reported, and a webcam is opened
\* with the best of the formats its reader takes.
THEOREM WebcamAlwaysServed == CamSpec => []WebcamIsServed
<1>1. ASSUME Webcam!RequestOutstanding, Webcam!FailureIsReported,
             Formats!TypeOK, Formats!BestIsTaken, Formats!SampleIsWhole
      PROVE  WebcamIsServed
  BY <1>1 DEF WebcamIsServed
<1> QED
  BY <1>1, WebcamIsServedAlways, BestFormatIsTaken, CameraRunsWebcam,
     CameraRunsFormats, PTL

\* What is registered is on disk, and a registration that fails brings back the one
\* before it, for any versions, processes and number of troubles, except while an
\* elevated process that overlapped another or brought a version back is not made
\* good by one that was alone (doubt).
THEOREM RegistrationStaysSound == CamSpec => RegistrationIsSound
<1>1. Files!TypeOK /\ Files!RegisteredIsOnDisk
        => (part = "files" => Files!TypeOK /\ Files!RegisteredIsOnDisk)
  OBVIOUS
<1> QED
  BY <1>1, RegistrationAlwaysSound, CameraRunsFiles, PTL DEF RegistrationIsSound
===============================================================================
