----------------------------- MODULE FramePipe -----------------------------
(***************************************************************************)
(* The frame transport of StageSwap, end to end: FramePublisher and its    *)
(* server thread in the application (crates/windows/src/pipe.rs), the one  *)
(* connection of the named pipe, and the PipeReader thread with its        *)
(* SharedFrameCache in the Media Foundation source that the Windows Frame  *)
(* Server hosts (crates/media-source/src/com_server/pipe_reader.rs,        *)
(* crates/core/src/ipc.rs).                                                *)
(*                                                                         *)
(* A frame is identified by the application run it was published in and    *)
(* by its sequence number; pixels are abstracted to that identity.  The    *)
(* pipe carries chunks: one WriteFile of a 40-byte header or of a whole    *)
(* payload.  Time is abstracted to the expiry of the cached frame.         *)
(*                                                                         *)
(* A definition whose name starts with Bug is not part of Spec: it is the  *)
(* definition after it with a plausible defect, which a property catches.  *)
(***************************************************************************)
EXTENDS Naturals, Sequences

CONSTANTS
  MaxRun,        \* bound: application runs (FramePublisher instances)
  MaxSequence,   \* bound: publications of one run (a u64 in the code)
  MaxHeld,       \* bound: frames that requests of the source hold at once
  PipeCapacity   \* chunks the pipe buffers before a write blocks

ASSUME BoundsAssumption ==
  /\ MaxRun \in Nat \ {0}
  /\ MaxSequence \in Nat \ {0}
  /\ MaxHeld \in Nat
  /\ PipeCapacity \in Nat \ {0}

VARIABLES
  app,        \* "up", "stopping" (FramePublisher::drop is joining) or "down"
  run,        \* number of the current (or last) application run
  published,  \* history: run -> its latest.sequence, 0 before the first
  latest,     \* kind of the message in Latest: "none", "frame", "invalid"
  server,     \* where the server thread is
  sent,       \* send_frames: last sequence number written
  msg,        \* send_frames: header and pixels copied from Latest
  pipe,       \* server end: "none", "listening", "connected", "clientgone"
  handle,     \* reader's end: "none", "live", "severed", "draining"
  wire,       \* chunks written and not yet read on the reader's connection
  reader,     \* where the PipeReader thread is
  bound,      \* history: run the reader's connection was opened to
  previous,   \* reader_loop: previous_sequence, 0 for None
  header,     \* reader_loop: the decoded header
  pixels,     \* reader_loop: identity of the payload that was read
  last,       \* SharedFrameCache: last_sequence
  frame,      \* SharedFrameCache: latest, or Off
  age,        \* "expired" once FRAME_EXPIRY passed since its receipt, or "fresh"
  held        \* number of pool buffers that requests of the source still hold

appVars    == <<app, run, published, latest>>
serverVars == <<server, sent, msg>>
pipeVars   == <<pipe, handle, wire>>
readerVars == <<reader, bound, previous, header, pixels>>
cacheVars  == <<last, frame, age>>
vars       == <<app, run, published, latest, server, sent, msg, pipe, handle,
                wire, reader, bound, previous, header, pixels, last, frame,
                age, held>>

Frame == [run : Nat, seq : Nat]

\* No frame: SharedFrameCache.latest is None and the source shows the off frame.
Off == [run |-> 0, seq |-> 0]

Message == [run : Nat, seq : Nat, kind : {"none", "frame", "invalid"}]

Chunk == [part : {"header", "payload"}, msg : Message]

NoMessage == [run |-> 0, seq |-> 0, kind |-> "none"]

Identity(m) == [run |-> m.run, seq |-> m.seq]

\* What the Latest slot holds: its sequence number, header and pixels.
Latest == [run |-> run, seq |-> published[run], kind |-> latest]

(***************************************************************************)
(* SharedFrameCache.                                                       *)
(***************************************************************************)

Cache(seq, f) == last' = seq /\ frame' = f /\ age' = "fresh"

\* Whether ingest takes a header: its sequence number must be a new one.
Ingestible(m) == m.seq > last

IngestFrame(m) == Cache(m.seq, pixels)

\* The sequence number of an invalidation is taken, its picture stays.
BugInvalidationKeepsFrame(m) == last' = m.seq /\ UNCHANGED <<frame, age>>

IngestInvalidation(m) == Cache(m.seq, Off)

\* invalidate: the frame goes, the sequence number stays.
InvalidateCache == Cache(last, Off)

\* The reconnect clears the picture but not last_sequence.
BugResetKeepsSequence == Cache(last, Off)

ResetForNewConnection == Cache(0, Off)

\* latest(now): the cached frame unless it expired.
Visible == IF age = "expired" THEN Off ELSE frame

(***************************************************************************)
(* The application: FramePublisher and its sink.                           *)
(***************************************************************************)

\* FramePublisher::start returns once its worker created the pipe.
AppStart ==
  /\ app = "down" /\ run < MaxRun
  /\ app' = "up" /\ run' = run + 1 /\ latest' = "none"
  /\ server' = "listen" /\ sent' = 0 /\ msg' = NoMessage
  /\ pipe' = "listening"
  /\ UNCHANGED <<published, handle, wire, readerVars, cacheVars, held>>

\* check_worker: a stopped publisher, or one whose worker failed, refuses.
WorkerUsable == app = "up" /\ server # "failed"

\* sink.publish and sink.invalidate replace Latest under its mutex.
Put(kind) ==
  /\ WorkerUsable
  /\ published[run] < MaxSequence
  /\ published' = [published EXCEPT ![run] = @ + 1]
  /\ latest' = kind
  /\ UNCHANGED <<app, run, serverVars, pipeVars, readerVars, cacheVars, held>>

Publish    == Put("frame")
Invalidate == Put("invalid")

\* Drop of FramePublisher stores stop, wakes the worker and joins it.
AppStop ==
  /\ app = "up"
  /\ app' = "stopping"
  /\ UNCHANGED <<run, published, latest, serverVars, pipeVars, readerVars,
                 cacheVars, held>>

AppJoined ==
  /\ app = "stopping" /\ server \in {"down", "failed"}
  /\ app' = "down"
  /\ UNCHANGED <<run, published, latest, serverVars, pipeVars, readerVars,
                 cacheVars, held>>

\* The process dies: its pipe end closes, what it wrote stays readable.
AppCrash ==
  /\ app # "down"
  /\ app' = "down" /\ server' = "down" /\ pipe' = "none"
  /\ handle' = IF handle = "live" THEN "draining" ELSE handle
  /\ UNCHANGED <<run, published, latest, sent, msg, wire, readerVars,
                 cacheVars, held>>

(***************************************************************************)
(* The server thread: server_loop and send_frames.                         *)
(***************************************************************************)

\* Top of the loop: stop ends it, otherwise a pipe instance is created.
ServerCreate ==
  /\ server = "create"
  /\ IF app = "stopping"
       THEN server' = "down" /\ UNCHANGED pipe
       ELSE \/ server' = "listen" /\ pipe' = "listening"
            \/ server' = "failed" /\ UNCHANGED pipe
  /\ UNCHANGED <<appVars, sent, msg, handle, wire, readerVars, cacheVars, held>>

\* ConnectNamedPipe returns with a client, and send_frames starts afresh.
ServerConnect ==
  /\ server = "listen" /\ pipe = "connected"
  /\ server' = "idle" /\ sent' = 0
  /\ UNCHANGED <<appVars, msg, pipeVars, readerVars, cacheVars, held>>

\* The pipe instance is disconnected and closed: what the client has not read
\* is discarded.
CloseInstance ==
  /\ pipe' = "none"
  /\ handle' = IF handle = "live" THEN "severed" ELSE handle
  /\ wire' = IF handle = "live" THEN <<>> ELSE wire

\* ConnectNamedPipe fails: the client left again, or drop cancelled it.
ServerConnectFails ==
  /\ server = "listen"
  /\ pipe = "clientgone" \/ app = "stopping"
  /\ server' = "create"
  /\ CloseInstance
  /\ UNCHANGED <<appVars, sent, msg, readerVars, cacheVars, held>>

\* wait_while returns with something unsent: header and pixels are copied
\* under the mutex, which is released before the writes.
ServerTake ==
  /\ server = "idle" /\ app # "stopping"
  /\ published[run] # sent
  /\ server' = "header" /\ msg' = Latest
  /\ UNCHANGED <<appVars, sent, pipeVars, readerVars, cacheVars, held>>

ServerStops ==
  /\ server = "idle" /\ app = "stopping"
  /\ server' = "disconnect"
  /\ UNCHANGED <<appVars, sent, msg, pipeVars, readerVars, cacheVars, held>>

Send(part) == wire' = Append(wire, [part |-> part, msg |-> msg])

CanWrite == pipe = "connected" /\ Len(wire) < PipeCapacity

\* The slot's sequence number is marked as sent, not the one copied with msg.
BugMarksSlotSent == server' = "idle" /\ sent' = published[run]

\* The message is out: it counts as sent and the loop waits again.
Transmitted == server' = "idle" /\ sent' = msg.seq

WriteHeader ==
  /\ server = "header" /\ CanWrite
  /\ Send("header")
  /\ IF msg.kind = "frame" THEN server' = "payload" /\ UNCHANGED sent ELSE Transmitted
  /\ UNCHANGED <<appVars, msg, pipe, handle, readerVars, cacheVars, held>>

\* The pixels are read from the slot at the time of the write.
BugPixelsFromSlot ==
  /\ server = "payload" /\ CanWrite
  /\ wire' = Append(wire, [part |-> "payload", msg |-> Latest])
  /\ Transmitted
  /\ UNCHANGED <<appVars, msg, pipe, handle, readerVars, cacheVars, held>>

WritePixels ==
  /\ server = "payload" /\ CanWrite
  /\ Send("payload")
  /\ Transmitted
  /\ UNCHANGED <<appVars, msg, pipe, handle, readerVars, cacheVars, held>>

\* The client is gone, or drop cancelled the blocking write.
WriteFails ==
  /\ server \in {"header", "payload"}
  /\ pipe = "clientgone" \/ app = "stopping"
  /\ server' = "disconnect"
  /\ UNCHANGED <<appVars, sent, msg, pipeVars, readerVars, cacheVars, held>>

\* After DisconnectNamedPipe the loop starts over.
ServerDisconnect ==
  /\ server = "disconnect"
  /\ server' = "create"
  /\ CloseInstance
  /\ UNCHANGED <<appVars, sent, msg, readerVars, cacheVars, held>>

(***************************************************************************)
(* The reader thread: reader_loop and read_payload.                        *)
(***************************************************************************)

\* A successful open is a new connection: the cache forgets the previous one.
Open ==
  /\ reader = "open" /\ pipe = "listening"
  /\ pipe' = "connected" /\ handle' = "live" /\ wire' = <<>>
  /\ reader' = "header" /\ bound' = run /\ previous' = 0
  /\ ResetForNewConnection
  /\ UNCHANGED <<appVars, serverVars, header, pixels, held>>

\* FrameHeader::decode: a payload has no magic, a sequence number must grow.
Decodes(chunk) == chunk.part = "header" /\ chunk.msg.seq > previous

\* The cache is invalidated and the connection given up.
Reject == reader' = "rejected" /\ InvalidateCache

\* The header is remembered; an invalidation has no payload and is ingested
\* at once, a frame's payload comes next.
TakeHeader(m) ==
  /\ previous' = m.seq /\ header' = m
  /\ IF m.kind = "frame"
       THEN reader' = "payload" /\ UNCHANGED cacheVars
       ELSE IF Ingestible(m)
              THEN reader' = "header" /\ IngestInvalidation(m)
              ELSE Reject

ReadHeader ==
  /\ reader = "header" /\ wire # <<>>
  /\ IF Decodes(Head(wire))
       THEN TakeHeader(Head(wire).msg)
       ELSE Reject /\ UNCHANGED <<previous, header>>
  /\ wire' = Tail(wire)
  /\ UNCHANGED <<appVars, serverVars, pipe, handle, bound, pixels, held>>

\* The payload goes into a pool buffer; when requests hold too many of them
\* it is drained and dropped.
ReadPayload ==
  /\ reader = "payload" /\ wire # <<>>
  /\ \/ reader' = "ingest" /\ pixels' = Identity(Head(wire).msg)
     \/ held > 0 /\ reader' = "header" /\ UNCHANGED pixels
  /\ wire' = Tail(wire)
  /\ UNCHANGED <<appVars, serverVars, pipe, handle, bound, previous, header,
                 cacheVars, held>>

Ingest ==
  /\ reader = "ingest"
  /\ IF Ingestible(header) THEN reader' = "header" /\ IngestFrame(header) ELSE Reject
  /\ UNCHANGED <<appVars, serverVars, pipeVars, bound, previous, header, pixels,
                 held>>

\* read_exact fails once the connection ended and its data is used up.
ReadFails ==
  /\ reader \in {"header", "payload"} /\ wire = <<>>
  /\ handle \in {"severed", "draining"}
  /\ reader' = "leave"
  /\ UNCHANGED <<appVars, serverVars, pipeVars, bound, previous, header, pixels,
                 cacheVars, held>>

\* The reader's end closes: the server finds out at its next write.
CloseHandle ==
  /\ handle' = "none" /\ wire' = <<>>
  /\ pipe' = IF handle = "live" THEN "clientgone" ELSE pipe

\* The connection is left without invalidating the cache.
BugLeaveKeepsFrame ==
  /\ reader \in {"leave", "rejected"}
  /\ CloseHandle
  /\ reader' = "open"
  /\ UNCHANGED <<appVars, serverVars, bound, previous, header, pixels, cacheVars,
                 held>>

\* After any break the cache is invalidated and the pipe is opened again.
Leave ==
  /\ reader \in {"leave", "rejected"}
  /\ CloseHandle
  /\ reader' = "open"
  /\ InvalidateCache
  /\ UNCHANGED <<appVars, serverVars, bound, previous, header, pixels, held>>

(***************************************************************************)
(* The rest of the source: requests, expiry, shutdown and activation.      *)
(***************************************************************************)

\* A sample request clones the visible frame's buffer, and drops it when done.
Borrow ==
  /\ Visible # Off /\ held < MaxHeld
  /\ held' = held + 1
  /\ UNCHANGED <<appVars, serverVars, pipeVars, readerVars, cacheVars>>

Return ==
  /\ held > 0
  /\ held' = held - 1
  /\ UNCHANGED <<appVars, serverVars, pipeVars, readerVars, cacheVars>>

\* FRAME_EXPIRY passes without a newer frame.
Expire ==
  /\ frame # Off /\ age = "fresh"
  /\ age' = "expired"
  /\ UNCHANGED <<appVars, serverVars, pipeVars, readerVars, last, frame, held>>

\* MediaStream.shutdown stops and joins the reader and invalidates the cache.
SourceShutdown ==
  /\ reader # "stopped"
  /\ CloseHandle
  /\ reader' = "stopped"
  /\ InvalidateCache
  /\ held' = 0
  /\ UNCHANGED <<appVars, serverVars, bound, previous, header, pixels>>

\* MediaStream.new: an empty cache and a new reader.
SourceActivate ==
  /\ reader = "stopped"
  /\ reader' = "open" /\ bound' = 0 /\ previous' = 0
  /\ header' = NoMessage /\ pixels' = Off
  /\ Cache(0, Off)
  /\ UNCHANGED <<appVars, serverVars, pipeVars, held>>

-----------------------------------------------------------------------------

Init ==
  /\ app = "down" /\ run = 0 /\ latest = "none"
  /\ published = [r \in 0..MaxRun |-> 0]
  /\ server = "down" /\ sent = 0 /\ msg = NoMessage
  /\ pipe = "none" /\ handle = "none" /\ wire = <<>>
  /\ reader = "open" /\ bound = 0 /\ previous = 0
  /\ header = NoMessage /\ pixels = Off
  /\ last = 0 /\ frame = Off /\ age = "fresh"
  /\ held = 0

App == AppStart \/ Publish \/ Invalidate \/ AppStop \/ AppJoined \/ AppCrash

Server ==
  \/ ServerCreate \/ ServerConnect \/ ServerConnectFails
  \/ ServerTake \/ ServerStops \/ WriteHeader \/ WritePixels \/ WriteFails
  \/ ServerDisconnect

Reader ==
  \/ Open \/ ReadHeader \/ ReadPayload \/ Ingest \/ ReadFails \/ Leave

Source == Borrow \/ Return \/ Expire \/ SourceShutdown \/ SourceActivate

Next == App \/ Server \/ Reader \/ Source

Spec == Init /\ [][Next]_vars

\* Both threads run whenever they can, and drop's join returns once the
\* worker ended.  Publishing, stopping, crashing, requests, expiry and source
\* activation are under nobody's obligation.
Fairness == WF_vars(Server) /\ WF_vars(Reader) /\ WF_vars(AppJoined)

FairSpec == Spec /\ Fairness

-----------------------------------------------------------------------------
(***************************************************************************)
(* Properties.                                                             *)
(***************************************************************************)

\* Every variable keeps its shape, and runs and publications their bounds.
TypeOK ==
  /\ app \in {"up", "stopping", "down"}
  /\ run \in 0..MaxRun
  /\ published \in [0..MaxRun -> 0..MaxSequence]
  /\ latest \in {"none", "frame", "invalid"}
  /\ server \in {"down", "create", "listen", "idle", "header", "payload",
                "disconnect", "failed"}
  /\ sent \in Nat /\ msg \in Message
  /\ pipe \in {"none", "listening", "connected", "clientgone"}
  /\ handle \in {"none", "live", "severed", "draining"}
  /\ wire \in Seq(Chunk)
  /\ reader \in {"open", "header", "payload", "ingest", "leave", "rejected",
                "stopped"}
  /\ bound \in 0..MaxRun /\ previous \in Nat
  /\ header \in Message /\ pixels \in Frame
  /\ last \in Nat /\ frame \in Frame /\ age \in {"fresh", "expired"}
  /\ held \in 0..MaxHeld

\* The reader never rejects what the application's own publisher sends:
\* whatever connects, crashes, restarts or is dropped for want of a buffer,
\* the bytes stay framed and the sequence numbers grow within a connection
\* (FrameHeader::decode and SharedFrameCache::ingest never fail in service).
NeverRejects == reader # "rejected"

\* The frame consumers may be shown is, header and pixels alike, the newest
\* message taken from the current connection: nothing older survives a later
\* invalidation, and nothing of an earlier run survives a reconnect.
ShownIsNewest ==
  frame # Off => frame = [run |-> bound, seq |-> last]

\* The transport implements the latest-only register of module LatestFrame:
\* what a sample request would be shown moves forward only, within a connection.
Promise == INSTANCE LatestFrame
  WITH passed <- last, view <- Visible

LatestOnly == Promise!Spec

\* After the application ended, however it ended, the source does not keep
\* showing its last frame, even without the two-second expiry.
GoneMeansOff == (app = "down") ~> (Visible = Off \/ app # "down")

\* The server notices that its client left only when it writes next: until the
\* next publication (33 ms later in service) the only pipe instance is taken.
AwaitsPublication ==
  pipe = "clientgone" /\ server = "idle" /\ sent = published[run]

\* Latest-only delivery still delivers: while application and source stay up
\* the reader gets to the last publication, over every reconnect.
CatchesUp ==
  []<>(\/ handle = "live" /\ previous = published[run]
       \/ AwaitsPublication
       \/ app # "up" \/ server = "failed" \/ reader = "stopped"
       \/ published[run] = 0)

=============================================================================
