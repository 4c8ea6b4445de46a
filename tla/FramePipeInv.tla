---------------------------- MODULE FramePipeInv ----------------------------
(***************************************************************************)
(* The inductive invariant behind NeverRejects and ShownIsNewest of module *)
(* FramePipe, as named parts.  The heart of it is Framed: what lies in the *)
(* pipe is a well-formed, strictly growing message stream that continues   *)
(* exactly where the reader is and ends exactly where the server is.       *)
(***************************************************************************)
EXTENDS FramePipe

InConnection == {"header", "payload", "ingest", "leave"}

\* Who holds which end of the pipe, thread by thread.
Ends ==
  /\ handle = "live" <=> pipe = "connected"
  /\ server \in {"down", "create", "failed"} => pipe = "none"
  /\ server = "listen" => pipe \in {"listening", "connected", "clientgone"}
  /\ server \in {"idle", "header", "payload", "disconnect"} =>
       pipe \in {"connected", "clientgone"}
  /\ app = "down" => server \in {"down", "failed"}
  /\ run = 0 => app = "down"
  /\ reader \in InConnection <=> handle # "none"
  /\ handle \in {"none", "severed"} => wire = <<>>
  /\ handle = "live" => bound = run

\* What the server is sending is newer than all it sent, and published.
Sending ==
  /\ server \in {"idle", "header", "payload"} => sent <= published[run]
  /\ server \in {"header", "payload"} =>
       /\ msg.run = run
       /\ msg.kind # "none"
       /\ sent < msg.seq /\ msg.seq <= published[run]
  /\ server = "payload" => msg.kind = "frame"
  /\ latest = "none" => published[run] = 0
  /\ \A r \in 0..MaxRun : r > run => published[r] = 0

\* A header whose payload must follow.
Opens(chunk) == chunk.part = "header" /\ chunk.msg.kind = "frame"

\* chunk may come right after the message part prior.
Follows(prior, chunk) ==
  IF Opens(prior)
    THEN chunk.part = "payload" /\ chunk.msg = prior.msg
    ELSE chunk.part = "header" /\ prior.msg.seq < chunk.msg.seq

Framed ==
  /\ \A i \in 1..Len(wire) :
       /\ wire[i].msg.run = bound
       /\ wire[i].msg.kind # "none"
       /\ wire[i].msg.seq <= published[bound]
  /\ \A i \in 1..Len(wire) : i > 1 => Follows(wire[i - 1], wire[i])

\* The stream continues where the reader is.
ReaderSide ==
  wire # <<>> =>
    IF reader = "payload"
      THEN wire[1].part = "payload" /\ wire[1].msg = header
      ELSE wire[1].part = "header" /\ previous < wire[1].msg.seq

\* The stream ends where the server is.
ServerSide ==
  handle = "live" =>
    /\ server = "listen" =>
         wire = <<>> /\ previous = 0 /\ reader = "header"
    /\ server \in {"idle", "header"} =>
         IF wire = <<>>
           THEN reader # "payload" /\ previous <= sent
           ELSE ~Opens(wire[Len(wire)]) /\ wire[Len(wire)].msg.seq <= sent
    /\ server = "payload" =>
         IF wire = <<>>
           THEN reader = "payload" /\ header = msg
           ELSE Opens(wire[Len(wire)]) /\ wire[Len(wire)].msg = msg

\* The cache is at most as far as the reader, and strictly behind the frame
\* that is being read.
CacheBehind ==
  /\ last <= previous
  /\ previous <= published[bound]
  /\ reader \in {"payload", "ingest"} =>
       /\ header.seq = previous
       /\ header.run = bound
       /\ header.kind = "frame"
       /\ last < previous
  /\ reader = "ingest" => pixels = Identity(header)

IInv ==
  /\ TypeOK /\ Ends /\ Sending /\ Framed /\ ReaderSide /\ ServerSide
  /\ CacheBehind /\ NeverRejects /\ ShownIsNewest

=============================================================================
