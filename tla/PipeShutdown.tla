----------------------------- MODULE PipeShutdown -----------------------------
(* How the two threads of the frame pipe end (Drop for FramePublisher,        *)
(* server_loop and send_frames in crates/windows/src/pipe.rs; stop and        *)
(* reader_loop in crates/media-source/src/com_server/pipe_reader.rs).         *)
(*                                                                            *)
(* Both loops look at a stop flag between calls that block: ConnectNamedPipe, *)
(* WriteFile and ReadFile, and the wait for a publication.  Who wants to stop *)
(* one sets the flag, cancels the call the thread is in, if it is in one, and *)
(* joins the thread.  What the messages are is in FramePipe; here a message   *)
(* is written and read by one call each, and the pipe holds one.  That the   *)
(* pipe cannot be created, and the thread ends at once, is left out.          *)
(*                                                                            *)
(* The publisher is dropped at the exit of the application, which waits a     *)
(* while for it and ends all the same: the process takes its handles along.   *)
EXTENDS Naturals

CONSTANT Starts     \* bound: readers started after the first

ShutdownAssumption == Starts \in Nat

VARIABLES
    server,     \* where the publisher's thread is
    stopping,   \* its stop flag
    fresh,      \* there is a publication it did not take
    published,  \* there is any
    instance,   \* the server's end: "none", "listening" or "connected"
    client,     \* the reader's end: "none", "open", or "cut" by the server
    full,       \* a message is in the pipe
    owner,      \* where the owner of the publisher is
    reader,     \* where the reader's thread is
    stopped,    \* its stop flag
    source,     \* where the owner of the reader is
    starts      \* readers started

serverVars == <<server, stopping, fresh, published, owner>>
readerVars == <<reader, stopped, source, starts>>
vars == <<serverVars, instance, client, full, readerVars>>

Init ==
    /\ server = "loop" /\ stopping = FALSE
    /\ fresh = FALSE /\ published = FALSE
    /\ instance = "none" /\ client = "none" /\ full = FALSE
    /\ owner = "running"
    /\ reader = "loop" /\ stopped = FALSE
    /\ source = "running" /\ starts = 0

----------------------------------------------------------------------------
\* The ends of the pipe.

\* DisconnectNamedPipe and the end of OwnedHandle.
ServerCloses ==
    /\ instance' = "none" /\ full' = FALSE
    /\ client' = IF client = "open" THEN "cut" ELSE client

\* The reader's file goes out of scope.
ReaderCloses ==
    /\ client' = "none" /\ full' = FALSE
    /\ UNCHANGED instance

----------------------------------------------------------------------------
\* The publisher's thread.

ServerAt(from, to) == server = from /\ server' = to
Stays == UNCHANGED <<stopping, fresh, published, owner, readerVars>>

\* The loop of server_loop, with CreateNamedPipeW.
CreatePipe ==
    /\ \/ stopping /\ ServerAt("loop", "ended") /\ UNCHANGED instance
       \/ ~stopping /\ ServerAt("loop", "connect") /\ instance' = "listening"
    /\ Stays /\ UNCHANGED <<client, full>>

Connects ==
    /\ ServerAt("connect", "connecting")
    /\ Stays /\ UNCHANGED <<instance, client, full>>

\* ConnectNamedPipe returns, or finds the client there, and nothing is sent yet;
\* or the client has left already and the call fails.
Connected ==
    /\ instance = "connected"
    /\ \/ ServerAt("connecting", "send") /\ fresh' = published
          /\ UNCHANGED <<instance, client, full>>
       \/ client # "open" /\ ServerAt("connecting", "loop") /\ ServerCloses
          /\ UNCHANGED fresh
    /\ UNCHANGED <<stopping, published, owner, readerVars>>

\* The loop of send_frames.
LooksAtStop ==
    /\ \/ stopping /\ ServerAt("send", "loop") /\ ServerCloses
       \/ ~stopping /\ ServerAt("send", "predicate")
          /\ UNCHANGED <<instance, client, full>>
    /\ Stays

(* wait_while evaluates its predicate under the lock of the slot, and goes to *)
(* sleep with the lock: nothing is published in between.                      *)
Predicate ==
    /\ \/ stopping /\ ServerAt("predicate", "loop") /\ ServerCloses
          /\ UNCHANGED fresh
       \/ ~stopping /\ fresh /\ ServerAt("predicate", "write") /\ fresh' = FALSE
          /\ UNCHANGED <<instance, client, full>>
       \/ ~stopping /\ ~fresh /\ ServerAt("predicate", "falling asleep")
          /\ UNCHANGED <<fresh, instance, client, full>>
    /\ UNCHANGED <<stopping, published, owner, readerVars>>

FallsAsleep ==
    /\ ServerAt("falling asleep", "asleep")
    /\ Stays /\ UNCHANGED <<instance, client, full>>

Writes ==
    /\ ServerAt("write", "writing")
    /\ Stays /\ UNCHANGED <<instance, client, full>>

(* After a write that failed it goes on with the same pipe.                   *)
BugWritten ==
    /\ \/ client = "open" /\ ~full /\ ServerAt("writing", "send") /\ full' = TRUE
       \/ client # "open" /\ ServerAt("writing", "send") /\ UNCHANGED full
    /\ Stays /\ UNCHANGED <<instance, client>>

\* A write to a client that is gone fails.
Written ==
    /\ \/ client = "open" /\ ~full /\ ServerAt("writing", "send") /\ full' = TRUE
          /\ UNCHANGED <<instance, client>>
       \/ client # "open" /\ ServerAt("writing", "loop") /\ ServerCloses
    /\ Stays

Server ==
    \/ CreatePipe \/ Connects \/ Connected \/ LooksAtStop \/ Predicate
    \/ FallsAsleep \/ Writes \/ Written

----------------------------------------------------------------------------
\* Its owner.

Notified == server' = IF server = "asleep" THEN "predicate" ELSE server

\* publish takes the lock of the slot, so not while the thread falls asleep.
Publish ==
    /\ owner = "running" /\ server # "falling asleep"
    /\ fresh' = TRUE /\ published' = TRUE /\ Notified
    /\ UNCHANGED <<stopping, owner, instance, client, full, readerVars>>

\* Drop for FramePublisher: the flag and the notification need no lock.
DropBegins ==
    /\ owner = "running" /\ owner' = "stored" /\ stopping' = TRUE
    /\ UNCHANGED <<server, fresh, published, instance, client, full, readerVars>>

DropNotifies ==
    /\ owner = "stored" /\ owner' = "notified" /\ Notified
    /\ UNCHANGED <<stopping, fresh, published, instance, client, full, readerVars>>

\* CancelSynchronousIo ends the call the thread is in, and no later one.
DropCancels ==
    /\ owner = "notified" /\ owner' = "joining"
    /\ \/ server \in {"connecting", "writing"} /\ server' = "loop" /\ ServerCloses
       \/ server \notin {"connecting", "writing"}
          /\ UNCHANGED <<server, instance, client, full>>
    /\ UNCHANGED <<stopping, fresh, published, readerVars>>

DropReturns ==
    /\ owner = "joining" /\ server = "ended" /\ owner' = "joined"
    /\ UNCHANGED <<server, stopping, fresh, published, instance, client, full,
                   readerVars>>

\* The process ends, whether its threads did or not (shutdown_workers).  Without
\* DisconnectNamedPipe a message in the pipe can still be read.
ProcessEnds ==
    /\ owner \in {"joining", "joined"} /\ owner' = "gone" /\ server' = "ended"
    /\ instance' = "none"
    /\ client' = IF client = "open" THEN "cut" ELSE client
    /\ UNCHANGED <<stopping, fresh, published, full, readerVars>>

----------------------------------------------------------------------------
\* The reader's thread, and its owner.

ReaderAt(from, to) == reader = from /\ reader' = to
Rests == UNCHANGED <<serverVars, stopped, source, starts>>

\* The outer loop; an open that finds nothing is tried again after a while.
Open ==
    /\ \/ stopped /\ ReaderAt("loop", "ended") /\ UNCHANGED <<instance, client>>
       \/ ~stopped /\ instance = "listening" /\ ReaderAt("loop", "inner")
          /\ instance' = "connected" /\ client' = "open"
    /\ Rests /\ UNCHANGED full

(* Only the outer loop looks at the flag.                                     *)
BugLooksAgain ==
    ReaderAt("inner", "read") /\ Rests /\ UNCHANGED <<instance, client, full>>

\* The inner loop.
LooksAgain ==
    /\ \/ stopped /\ ReaderAt("inner", "loop") /\ ReaderCloses
       \/ ~stopped /\ ReaderAt("inner", "read") /\ UNCHANGED <<instance, client, full>>
    /\ Rests

Reads ==
    /\ ReaderAt("read", "reading")
    /\ Rests /\ UNCHANGED <<instance, client, full>>

\* read_exact and read_payload return; an error ends the connection.
Read ==
    /\ \/ full /\ ReaderAt("reading", "inner") /\ full' = FALSE
          /\ UNCHANGED <<instance, client>>
       \/ client = "cut" /\ ~full /\ ReaderAt("reading", "loop") /\ ReaderCloses
    /\ Rests

Reader == Open \/ LooksAgain \/ Reads \/ Read

StopBegins ==
    /\ source = "running" /\ source' = "stored" /\ stopped' = TRUE
    /\ UNCHANGED <<serverVars, instance, client, full, reader, starts>>

StopCancels ==
    /\ source = "stored" /\ source' = "joining"
    /\ \/ reader = "reading" /\ reader' = "loop" /\ ReaderCloses
       \/ reader # "reading" /\ UNCHANGED <<reader, instance, client, full>>
    /\ UNCHANGED <<serverVars, stopped, starts>>

StopReturns ==
    /\ source = "joining" /\ reader = "ended" /\ source' = "joined"
    /\ UNCHANGED <<serverVars, instance, client, full, reader, stopped, starts>>

\* The camera is used again: PipeReader::start with a flag of its own.
StartAgain ==
    /\ source = "joined" /\ starts < Starts
    /\ source' = "running" /\ starts' = starts + 1
    /\ reader' = "loop" /\ stopped' = FALSE
    /\ UNCHANGED <<serverVars, instance, client, full>>

Next ==
    \/ Server \/ Publish
    \/ DropBegins \/ DropNotifies \/ DropCancels \/ DropReturns \/ ProcessEnds
    \/ Reader
    \/ StopBegins \/ StopCancels \/ StopReturns \/ StartAgain

Spec == Init /\ [][Next]_vars

(* The threads run, the runtime publishes thirty times a second as long as    *)
(* there is a publisher, a drop or a stop that began goes on, and the exit    *)
(* ends the process.  Nobody has to begin either.                             *)
Fairness ==
    /\ WF_vars(Server) /\ WF_vars(Reader) /\ WF_vars(Publish)
    /\ WF_vars(DropNotifies) /\ WF_vars(DropCancels) /\ WF_vars(ProcessEnds)
    /\ WF_vars(StopCancels) /\ WF_vars(StopReturns)

FairSpec == Spec /\ Fairness

----------------------------------------------------------------------------
TypeOK ==
    /\ server \in {"loop", "connect", "connecting", "send", "predicate",
                   "falling asleep", "asleep", "write", "writing", "ended"}
    /\ {stopping, fresh, published, full, stopped} \subseteq BOOLEAN
    /\ instance \in {"none", "listening", "connected"}
    /\ client \in {"none", "open", "cut"}
    /\ owner \in {"running", "stored", "notified", "joining", "joined", "gone"}
    /\ reader \in {"loop", "inner", "read", "reading", "ended"}
    /\ source \in {"running", "stored", "joining", "joined"}
    /\ starts \in 0 .. Starts

(* A reader that is told to stop ends, although the cancellation may miss its *)
(* call: what is published, or the end of the application, returns the call   *)
(* (PipeReader::stop, which the camera's shutdown waits for).                 *)
StopEnds == source = "joining" ~> source = "joined"

(* A reader that was started gets a connection, although the one before left  *)
(* its end at any moment (server_loop goes back to a new pipe).               *)
ReaderConnects ==
    (source = "running" /\ owner = "running")
        ~> (client = "open" \/ source # "running" \/ owner # "running")

(* The thread of a publisher that is dropped does not sleep on.  It does not  *)
(* hold: flag and notification may come while it falls asleep, and nothing    *)
(* wakes it again; so is a call missed by the cancellation, when no reader    *)
(* comes (Drop for FramePublisher).                                           *)
DropWakes == owner = "joining" => server # "asleep"
=============================================================================
