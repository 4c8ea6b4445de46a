---------------------------- MODULE DevicesProofs ----------------------------
(***************************************************************************)
(* Machine-checked proofs about the components of the run MCDevices, for   *)
(* every value of their constants.  The transport (FramePipe): type        *)
(* correctness, that the reader never rejects what its own publisher       *)
(* sends, that the frame shown is the newest one taken, and that the       *)
(* transport implements the latest-only register of LatestFrame.  The      *)
(* components around it: the invariants of VirtualCamera,                  *)
(* PreviewConversion, ScreenCapture and WebcamRecovery and the types of    *)
(* PipeShutdown.  Last, that each of them moves in the run as it does      *)
(* alone, so that the safety the run checks holds for all constants.       *)
(***************************************************************************)
EXTENDS FramePipeInv, MCDevices, TLAPS

(***************************************************************************)
(* Facts about sequences and about the messages of the pipe.               *)
(***************************************************************************)

\* The head, the tail and the elements of a nonempty sequence.
LEMMA TailFacts ==
  ASSUME NEW S, NEW s \in Seq(S), s # <<>>
  PROVE  /\ Head(s) = s[1] /\ s[1] \in S
         /\ Tail(s) \in Seq(S)
         /\ Len(s) \in Nat \ {0} /\ Len(Tail(s)) = Len(s) - 1
         /\ \A i \in 1..Len(Tail(s)) : Tail(s)[i] = s[i + 1]
OBVIOUS

\* What appending one element changes.
LEMMA AppendFacts ==
  ASSUME NEW S, NEW s \in Seq(S), NEW e \in S
  PROVE  /\ Append(s, e) \in Seq(S)
         /\ Len(Append(s, e)) = Len(s) + 1
         /\ Len(s) \in Nat
         /\ Append(s, e) # <<>>
         /\ Append(s, e)[Len(s) + 1] = e
         /\ \A i \in 1..Len(s) : Append(s, e)[i] = s[i]
OBVIOUS

\* The identities of frames and messages have their types.
LEMMA DataFacts ==
  /\ Off \in Frame /\ NoMessage \in Message
  /\ \A m \in Message :
       /\ m.run \in Nat /\ m.seq \in Nat
       /\ m.kind \in {"none", "frame", "invalid"}
       /\ Identity(m) \in Frame
       /\ \A p \in {"header", "payload"} : [part |-> p, msg |-> m] \in Chunk
  /\ \A c \in Chunk : c.msg \in Message /\ c.part \in {"header", "payload"}
BY DEF Off, Frame, NoMessage, Message, Identity, Chunk

\* The empty connection is a stream of chunks.
LEMMA EmptyWire == <<>> \in Seq(Chunk)
OBVIOUS

\* What ServerTake copies out of Latest is a message.
LEMMA LatestFacts == TypeOK => Latest \in Message
BY BoundsAssumption DEF BoundsAssumption, TypeOK, Latest, Message

\* Sequence numbers of every run are numbers, those of the current run too.
LEMMA PublishedFacts ==
  TypeOK => /\ run \in Nat /\ run + 1 \in Nat
            /\ \A r \in 0..MaxRun : r \in Nat /\ published[r] \in Nat
            /\ published[run] \in Nat /\ published[bound] \in Nat
BY BoundsAssumption DEF BoundsAssumption, TypeOK

(***************************************************************************)
(* Type correctness.                                                       *)
(***************************************************************************)

\* Every step of the transport keeps the types.
LEMMA TypeStep == TypeOK /\ [Next]_vars => TypeOK'
<1> SUFFICES ASSUME TypeOK, [Next]_vars PROVE TypeOK'
  OBVIOUS
<1> USE DEF TypeOK, appVars, serverVars, pipeVars, readerVars, cacheVars
<1>1. CASE AppStart
  BY <1>1, DataFacts, BoundsAssumption DEF AppStart, BoundsAssumption
<1>2. CASE Publish
  BY <1>2, BoundsAssumption DEF Publish, Put, BoundsAssumption
<1>3. CASE Invalidate
  BY <1>3, BoundsAssumption DEF Invalidate, Put, BoundsAssumption
<1>4. CASE AppStop \/ AppJoined \/ AppCrash
  BY <1>4 DEF AppStop, AppJoined, AppCrash
<1>5. CASE ServerCreate \/ ServerConnect
  BY <1>5 DEF ServerCreate, ServerConnect
<1>6. CASE ServerConnectFails \/ WriteFails \/ ServerDisconnect \/ ServerStops
  BY <1>6, EmptyWire
     DEF ServerConnectFails, WriteFails, ServerDisconnect, CloseInstance, ServerStops
<1>7. CASE ServerTake
  BY <1>7, LatestFacts DEF ServerTake
<1>8. CASE WriteHeader
  <2>1. [part |-> "header", msg |-> msg] \in Chunk /\ msg.seq \in Nat
    BY DataFacts
  <2>2. wire' \in Seq(Chunk)
    BY <1>8, <2>1, AppendFacts DEF WriteHeader, Send
  <2> QED
    BY <1>8, <2>1, <2>2 DEF WriteHeader, Transmitted
<1>9. CASE WritePixels
  <2>1. [part |-> "payload", msg |-> msg] \in Chunk /\ msg.seq \in Nat
    BY DataFacts
  <2>2. wire' \in Seq(Chunk)
    BY <1>9, <2>1, AppendFacts DEF WritePixels, Send
  <2> QED
    BY <1>9, <2>1, <2>2 DEF WritePixels, Transmitted
<1>10. CASE Open
  BY <1>10, DataFacts, EmptyWire DEF Open, ResetForNewConnection, Cache
<1>11. CASE ReadHeader
  <2>1. Head(wire) \in Chunk /\ Tail(wire) \in Seq(Chunk)
    BY <1>11, TailFacts DEF ReadHeader
  <2>2. Head(wire).msg \in Message /\ Head(wire).msg.seq \in Nat
    BY <2>1, DataFacts
  <2> QED
    BY <1>11, <2>1, <2>2, DataFacts
       DEF ReadHeader, TakeHeader, Reject, InvalidateCache, IngestInvalidation, Cache
<1>12. CASE ReadPayload
  <2>1. Head(wire) \in Chunk /\ Tail(wire) \in Seq(Chunk)
    BY <1>12, TailFacts DEF ReadPayload
  <2>2. Identity(Head(wire).msg) \in Frame
    BY <2>1, DataFacts
  <2> QED
    BY <1>12, <2>1, <2>2 DEF ReadPayload
<1>13. CASE Ingest
  <2>1. header.seq \in Nat
    BY DataFacts
  <2> QED
    BY <1>13, <2>1, DataFacts DEF Ingest, Reject, InvalidateCache, IngestFrame, Cache
<1>14. CASE ReadFails \/ Leave
  BY <1>14, DataFacts, EmptyWire DEF ReadFails, Leave, CloseHandle, InvalidateCache, Cache
<1>15. CASE Borrow
  <2>1. held' \in 0..MaxHeld
    BY <1>15, BoundsAssumption DEF Borrow, BoundsAssumption
  <2> QED
    BY <1>15, <2>1 DEF Borrow
<1>16. CASE Return
  BY <1>16, BoundsAssumption DEF Return, BoundsAssumption
<1>17. CASE Expire
  BY <1>17 DEF Expire
<1>18. CASE SourceShutdown
  BY <1>18, DataFacts, EmptyWire, BoundsAssumption
     DEF SourceShutdown, CloseHandle, InvalidateCache, Cache, BoundsAssumption
<1>19. CASE SourceActivate
  BY <1>19, DataFacts, BoundsAssumption
     DEF SourceActivate, Cache, BoundsAssumption
<1>20. CASE UNCHANGED vars
  BY <1>20 DEF vars
<1> QED
  BY <1>1, <1>2, <1>3, <1>4, <1>5, <1>6, <1>7, <1>8, <1>9, <1>10, <1>11,
     <1>12, <1>13, <1>14, <1>15, <1>16, <1>17, <1>18, <1>19, <1>20
     DEF Next, App, Server, Reader, Source

\* Every variable of the transport keeps its type and its bounds: no counter
\* of FramePublisher, send_frames or the cache leaves the range modelled for it.
THEOREM TypeCorrect == Spec => []TypeOK
<1>1. Init => TypeOK
  BY BoundsAssumption DEF BoundsAssumption, Init, TypeOK, Frame, Message, Chunk, Off, NoMessage
<1> QED
  BY <1>1, TypeStep, PTL DEF Spec

(***************************************************************************)
(* What writes and reads do to the connection.                             *)
(***************************************************************************)

\* The chunk a read takes, and what remains.
LEMMA HeadFacts ==
  ASSUME TypeOK, wire # <<>>
  PROVE  /\ Head(wire) = wire[1] /\ wire[1] \in Chunk
         /\ wire[1].msg \in Message /\ wire[1].msg.seq \in Nat
         /\ Tail(wire) \in Seq(Chunk)
         /\ Len(wire) \in Nat \ {0} /\ Len(Tail(wire)) = Len(wire) - 1
         /\ \A i \in 1..Len(Tail(wire)) : Tail(wire)[i] = wire[i + 1]
  BY TailFacts, DataFacts DEF TypeOK

\* Every chunk on the connection carries a message with a sequence number.
LEMMA WireFacts ==
  ASSUME TypeOK
  PROVE  \A i \in 1..Len(wire) : wire[i] \in Chunk /\ wire[i].msg.seq \in Nat
<1>1. wire \in Seq(Chunk)
  BY DEF TypeOK
<1>2. \A i \in 1..Len(wire) : wire[i] \in Chunk
  BY <1>1
<1> QED
  BY <1>2, DataFacts

\* One WriteFile of the server adds one chunk at the end.
LEMMA SendFacts ==
  ASSUME TypeOK, NEW half \in {"header", "payload"}, Send(half)
  PROVE  /\ wire' \in Seq(Chunk) /\ wire' # <<>>
         /\ Len(wire) \in Nat /\ Len(wire') = Len(wire) + 1
         /\ wire'[Len(wire) + 1].part = half
         /\ wire'[Len(wire) + 1].msg = msg
         /\ \A i \in 1..Len(wire) : wire'[i] = wire[i]
  <1>1. [part |-> half, msg |-> msg] \in Chunk
    BY DataFacts DEF TypeOK
  <1> QED
    BY <1>1, AppendFacts DEF TypeOK, Send

\* No step takes a publication back.
LEMMA PublishedGrows ==
  ASSUME TypeOK, [Next]_vars
  PROVE  \A r \in 0..MaxRun : published[r] <= published'[r] /\ published[r] \in Nat /\ published'[r] \in Nat
<1> USE DEF TypeOK, serverVars, appVars
<1>1. CASE Publish \/ Invalidate
  BY <1>1, BoundsAssumption DEF BoundsAssumption, Publish, Invalidate, Put
<1>2. CASE UNCHANGED published
  BY <1>2, BoundsAssumption DEF BoundsAssumption
<1>3. CASE App /\ ~Publish /\ ~Invalidate
  BY <1>3, <1>2 DEF App, AppStart, AppStop, AppJoined, AppCrash
<1>4. CASE Server
  BY <1>4, <1>2 DEF Server, ServerCreate, ServerConnect, ServerTake, ServerStops, WriteFails, ServerConnectFails,
     ServerDisconnect, WriteHeader, WritePixels
<1>5. CASE Source
  BY <1>5, <1>2 DEF Source, Borrow, Return, Expire, SourceShutdown, SourceActivate
<1>6. CASE Reader
  BY <1>6, <1>2 DEF Reader, Open, ReadHeader, Ingest, ReadPayload, ReadFails, Leave
<1>7. CASE UNCHANGED vars
  BY <1>7, <1>2 DEF vars
<1> QED
  BY <1>1, <1>3, <1>4, <1>5, <1>6, <1>7 DEF Next

\* sink.publish and sink.invalidate bump the current run's sequence only.
LEMMA PutFacts ==
  ASSUME TypeOK, NEW what, Put(what)
  PROVE  /\ published'[run] = published[run] + 1
         /\ \A r \in 0..MaxRun : r # run => published'[r] = published[r]
         /\ \A r \in 0..MaxRun : published[r] <= published'[r]
         /\ run' = run /\ run \in 0..MaxRun
         /\ latest' = what
         /\ published[run] \in Nat
BY PublishedFacts DEF Put, TypeOK

(***************************************************************************)
(* The inductive invariant, part by part.                                  *)
(***************************************************************************)

\* The reader rejects nothing: the stream continues where it is (ReaderSide)
\* and the cache is behind what it reads (CacheBehind).
LEMMA NeverRejectsStep == IInv /\ [Next]_vars => NeverRejects'
<1> SUFFICES ASSUME IInv, [Next]_vars PROVE reader' # "rejected"
  BY DEF NeverRejects
<1> USE DEF IInv, TypeOK, NeverRejects
<1>1. CASE ReadHeader
  <2>1. Decodes(wire[1]) /\ wire[1].msg.seq > last /\ Head(wire) = wire[1]
    BY <1>1, HeadFacts DEF ReadHeader, ReaderSide, Decodes, CacheBehind
  <2> QED
    BY <1>1, <2>1 DEF ReadHeader, TakeHeader, Ingestible
<1>2. CASE Ingest
  BY <1>2, DataFacts DEF Ingest, CacheBehind, Ingestible
<1>3. CASE App
  BY <1>3 DEF App, AppStart, Publish, Invalidate, Put, AppStop, AppJoined, AppCrash, readerVars
<1>4. CASE Server
  BY <1>4 DEF Server, ServerCreate, ServerConnect, ServerTake, ServerStops, WriteFails, ServerConnectFails,
     ServerDisconnect, WriteHeader, WritePixels, readerVars
<1>5. CASE Source
  BY <1>5 DEF Source, Borrow, Return, Expire, SourceShutdown, SourceActivate, readerVars
<1>6. CASE Open \/ ReadPayload \/ ReadFails \/ Leave
  BY <1>6 DEF Open, ReadPayload, ReadFails, Leave
<1>7. CASE UNCHANGED vars
  BY <1>7 DEF vars
<1> QED
  BY <1>1, <1>2, <1>3, <1>4, <1>5, <1>6, <1>7 DEF Next, Reader

\* Each step leaves the two ends of the pipe consistent.
LEMMA EndsStep == IInv /\ [Next]_vars => Ends'
<1> SUFFICES ASSUME TypeOK, NeverRejects, Ends, [Next]_vars, NeverRejects' PROVE Ends'
  BY NeverRejectsStep DEF IInv
<1> USE DEF TypeOK, NeverRejects, InConnection, Ends, appVars, serverVars, pipeVars, readerVars, cacheVars
<1>1. CASE AppStart
  BY <1>1 DEF AppStart
<1>2. CASE App /\ ~AppStart
  BY <1>2 DEF App, Publish, Invalidate, Put, AppStop, AppJoined, AppCrash
<1>3. CASE ServerCreate \/ ServerConnect \/ ServerTake \/ ServerStops \/ WriteFails
  BY <1>3 DEF ServerCreate, ServerConnect, ServerTake, ServerStops, WriteFails
<1>4. CASE ServerConnectFails \/ ServerDisconnect
  BY <1>4 DEF ServerConnectFails, ServerDisconnect, CloseInstance
<1>5. CASE WriteHeader \/ WritePixels
  BY <1>5 DEF WriteHeader, WritePixels, CanWrite, Send, Transmitted
<1>6. CASE Open
  BY <1>6 DEF Open
<1>7. CASE ReadHeader
  BY <1>7 DEF ReadHeader, TakeHeader, Reject
<1>8. CASE ReadPayload \/ Ingest \/ ReadFails
  BY <1>8 DEF ReadPayload, Ingest, ReadFails, Reject
<1>9. CASE Leave
  BY <1>9 DEF Leave, CloseHandle
<1>10. CASE Source
  BY <1>10 DEF Source, Borrow, Return, Expire, SourceShutdown, SourceActivate, CloseHandle
<1>11. CASE UNCHANGED vars
  BY <1>11 DEF vars
<1> QED
  BY <1>1, <1>2, <1>3, <1>4, <1>5, <1>6, <1>7, <1>8, <1>9, <1>10, <1>11
     DEF Next, App, Server, Reader

\* A publication keeps what is being sent newer than what was sent.
LEMMA PutSends ==
  ASSUME IInv, NEW what \in {"frame", "invalid"}, Put(what)
  PROVE  Sending'
<1> USE DEF IInv, TypeOK, Sending, appVars, serverVars, pipeVars, readerVars, cacheVars
<1>0. UNCHANGED <<server, msg, sent>> /\ msg.seq \in Nat
  BY DataFacts DEF Put
<1>1. (server \in {"idle", "header", "payload"} => sent <= published[run])'
  BY <1>0, PutFacts DEF Put
<1>2. (server \in {"header", "payload"} =>
       /\ msg.run = run
       /\ msg.kind # "none"
       /\ sent < msg.seq /\ msg.seq <= published[run])'
  BY <1>0, PutFacts DEF Put
<1>3. (\A r \in 0..MaxRun : r > run => published[r] = 0)'
  BY PutFacts, PublishedFacts
<1>4. (latest = "none" => published[run] = 0)' /\ (server = "payload" => msg.kind = "frame")'
  BY <1>0, PutFacts
<1> QED
  BY <1>1, <1>2, <1>3, <1>4

\* A new run starts with nothing published.
LEMMA StartSends ==
  ASSUME IInv, AppStart
  PROVE  Sending'
<1> USE DEF IInv, TypeOK, Sending, appVars, serverVars, pipeVars, readerVars, cacheVars
<1>1. (\A r \in 0..MaxRun : r > run => published[r] = 0)'
  BY PublishedFacts DEF AppStart
<1>2. published'[run'] = 0
  BY PublishedFacts, BoundsAssumption DEF BoundsAssumption, AppStart
<1> QED
  BY <1>1, <1>2 DEF AppStart

\* Each step keeps what is being sent newer than what was sent.
LEMMA SendingStep == IInv /\ [Next]_vars => Sending'
<1> SUFFICES ASSUME IInv, [Next]_vars PROVE Sending'
  OBVIOUS
<1>1. CASE AppStart
  BY <1>1, StartSends
<1>2. CASE Publish \/ Invalidate
  BY <1>2, PutSends DEF Publish, Invalidate
<1> USE DEF IInv, TypeOK, Sending, appVars, serverVars, pipeVars, readerVars, cacheVars
<1>3. CASE AppStop \/ AppJoined \/ AppCrash
  BY <1>3 DEF AppStop, AppJoined, AppCrash
<1>4. CASE ServerCreate \/ ServerConnectFails \/ ServerStops \/ WriteFails \/ ServerDisconnect
  BY <1>4 DEF ServerCreate, ServerConnectFails, ServerStops, WriteFails, ServerDisconnect
<1>5. CASE ServerConnect
  BY <1>5, PublishedFacts DEF ServerConnect
<1>6. CASE ServerTake
  BY <1>6, PublishedFacts DEF ServerTake, Latest
<1>7. CASE WriteHeader
  BY <1>7, DataFacts DEF WriteHeader, Transmitted
<1>8. CASE WritePixels
  BY <1>8, DataFacts DEF WritePixels, Transmitted
<1>9. CASE Reader
  BY <1>9 DEF Reader, Open, ReadHeader, ReadPayload, Ingest, ReadFails, Leave
<1>10. CASE Source
  BY <1>10 DEF Source, Borrow, Return, Expire, SourceShutdown, SourceActivate
<1>11. CASE UNCHANGED vars
  BY <1>11 DEF vars
<1> QED
  BY <1>1, <1>2, <1>3, <1>4, <1>5, <1>6, <1>7, <1>8, <1>9, <1>10, <1>11
     DEF Next, App, Server

\* An empty connection is well framed.
LEMMA EmptyFramed ==
  ASSUME wire' = <<>> PROVE Framed'
  BY DEF Framed

\* A write continues the stream: a header after a complete message, the
\* payload after its own header.
LEMMA SendFramed ==
  ASSUME IInv, WriteHeader \/ WritePixels PROVE Framed'
<1> USE DEF IInv, TypeOK
<1>1. PICK half \in {"header", "payload"} : Send(half)
  BY DEF WriteHeader, WritePixels
<1>2. /\ bound' = bound /\ published' = published /\ bound = run
      /\ msg.run = bound /\ msg.kind # "none" /\ msg.seq <= published[bound] /\ sent < msg.seq
      /\ handle = "live" /\ sent \in Nat /\ msg.seq \in Nat
  BY DataFacts DEF WriteHeader, WritePixels, CanWrite, Ends, Sending, appVars, readerVars
<1>3. \A i \in 1..Len(wire') :
       /\ wire'[i].msg.run = bound
       /\ wire'[i].msg.kind # "none"
       /\ wire'[i].msg.seq <= published[bound]
  BY <1>1, <1>2, SendFacts DEF Framed
<1>4. ASSUME wire # <<>> PROVE Follows(wire[Len(wire)], wire'[Len(wire) + 1])
  <2>1. CASE WriteHeader
    <3>1. /\ ~Opens(wire[Len(wire)]) /\ wire[Len(wire)].msg.seq <= sent
      BY <2>1, <1>2, <1>4 DEF ServerSide, WriteHeader
    <3>2. wire'[Len(wire) + 1].part = "header" /\ wire'[Len(wire) + 1].msg = msg
      BY <2>1, SendFacts DEF WriteHeader
    <3>3. wire[Len(wire)] \in Chunk /\ wire[Len(wire)].msg.seq \in Nat
      BY <1>4, WireFacts, HeadFacts
    <3> QED
      BY <3>1, <3>2, <3>3, <1>2 DEF Follows
  <2>2. CASE WritePixels
    <3>1. /\ Opens(wire[Len(wire)]) /\ wire[Len(wire)].msg = msg
      BY <2>2, <1>2, <1>4 DEF ServerSide, WritePixels
    <3>2. wire'[Len(wire) + 1].part = "payload" /\ wire'[Len(wire) + 1].msg = msg
      BY <2>2, SendFacts DEF WritePixels
    <3> QED
      BY <3>1, <3>2 DEF Follows
  <2> QED
    BY <2>1, <2>2
<1>5. ASSUME NEW i \in 1..Len(wire'), i > 1 PROVE Follows(wire'[i - 1], wire'[i])
  <2>1. CASE i = Len(wire) + 1
    <3>1. wire # <<>> /\ wire'[i - 1] = wire[Len(wire)]
      BY <2>1, <1>5, <1>1, SendFacts
    <3> QED
      BY <2>1, <3>1, <1>4
  <2>2. CASE i # Len(wire) + 1
    <3>1. i \in 1..Len(wire) /\ i - 1 \in 1..Len(wire)
      BY <2>2, <1>5, <1>1, SendFacts
    <3>2. wire'[i] = wire[i] /\ wire'[i - 1] = wire[i - 1]
      BY <3>1, <1>1, SendFacts
    <3> QED
      BY <3>1, <3>2, <1>5 DEF Framed
  <2> QED
    BY <2>1, <2>2
<1> QED
  BY <1>2, <1>3, <1>5 DEF Framed

\* A read leaves the rest of the stream well framed.
LEMMA TailFramed ==
  ASSUME IInv, wire # <<>>, wire' = Tail(wire), bound' = bound, published' = published
  PROVE Framed'
<1> USE DEF IInv, Framed
<1>1. \A i \in 1..Len(wire') : wire'[i] = wire[i + 1] /\ i + 1 \in 1..Len(wire)
  BY HeadFacts
<1>2. \A i \in 1..Len(wire') :
       /\ wire'[i].msg.run = bound
       /\ wire'[i].msg.kind # "none"
       /\ wire'[i].msg.seq <= published[bound]
  BY <1>1
<1>3. ASSUME NEW i \in 1..Len(wire'), i > 1 PROVE Follows(wire'[i - 1], wire'[i])
  <2>1. i - 1 \in 1..Len(wire') /\ i + 1 > 1 /\ (i - 1) + 1 = (i + 1) - 1
    BY <1>3, HeadFacts
  <2> QED
    BY <1>1, <1>3, <2>1
<1> QED
  BY <1>2, <1>3

\* Each step keeps the stream well framed.
LEMMA FramedStep == IInv /\ [Next]_vars => Framed'
<1> SUFFICES ASSUME IInv, [Next]_vars PROVE Framed'
  OBVIOUS
<1>1. CASE UNCHANGED <<wire, bound>>
  <2>1. \A i \in 1..Len(wire) : wire[i] \in Chunk /\ wire[i].msg.seq \in Nat
    BY WireFacts DEF IInv
  <2>2. published[bound] <= published'[bound] /\ published[bound] \in Nat /\ published'[bound] \in Nat
    BY PublishedGrows DEF IInv, TypeOK
  <2>3. \A i \in 1..Len(wire) : wire[i].msg.seq <= published'[bound]
    <3>1. \A i \in 1..Len(wire) : wire[i].msg.seq <= published[bound]
      BY DEF IInv, Framed
    <3> QED
      BY <2>1, <2>2, <3>1
  <2> QED
    BY <1>1, <2>3 DEF IInv, Framed
<1> USE DEF appVars, serverVars, pipeVars, readerVars, cacheVars
<1>2. CASE App
  BY <1>2, <1>1 DEF App, AppStart, AppStop, AppJoined, AppCrash, Publish, Invalidate, Put
<1>3. CASE ServerCreate \/ ServerConnect \/ ServerTake \/ ServerStops \/ WriteFails
  BY <1>3, <1>1 DEF ServerCreate, ServerConnect, ServerTake, ServerStops, WriteFails
<1>4. CASE ServerConnectFails \/ ServerDisconnect
  BY <1>4, <1>1, EmptyFramed DEF ServerConnectFails, ServerDisconnect, CloseInstance
<1>5. CASE WriteHeader \/ WritePixels
  BY <1>5, SendFramed
<1>6. CASE Open \/ Leave \/ SourceShutdown
  BY <1>6, EmptyFramed DEF Open, Leave, SourceShutdown, CloseHandle
<1>7. CASE ReadHeader \/ ReadPayload
  BY <1>7, TailFramed DEF ReadHeader, ReadPayload
<1>8. CASE Ingest \/ ReadFails
  BY <1>8, <1>1 DEF Ingest, ReadFails
<1>9. CASE Borrow \/ Return \/ Expire
  BY <1>9, <1>1 DEF Borrow, Return, Expire
<1>10. CASE SourceActivate
  <2>1. wire = <<>>
    BY <1>10 DEF SourceActivate, IInv, Ends, InConnection
  <2> QED
    BY <1>10, <2>1, EmptyFramed DEF SourceActivate
<1>11. CASE UNCHANGED vars
  BY <1>11, <1>1 DEF vars
<1> QED
  BY <1>2, <1>3, <1>4, <1>5, <1>6, <1>7, <1>8, <1>9, <1>10, <1>11
     DEF Next, Server, Reader, Source

\* After each step the stream continues where the reader is.
LEMMA ReaderSideStep == IInv /\ [Next]_vars => ReaderSide'
<1> SUFFICES ASSUME IInv, [Next]_vars, wire' # <<>> PROVE ReaderSide'
  BY DEF ReaderSide
<1> USE DEF IInv, TypeOK, appVars, serverVars, pipeVars, readerVars, cacheVars
<1>1. CASE UNCHANGED <<wire, reader, header, previous>>
  BY <1>1 DEF ReaderSide
<1>2. CASE App
  BY <1>2, <1>1 DEF App, AppStart, AppStop, AppJoined, AppCrash, Publish, Invalidate, Put
<1>3. CASE ServerCreate \/ ServerConnect \/ ServerTake \/ ServerStops \/ WriteFails
  BY <1>3, <1>1 DEF ServerCreate, ServerConnect, ServerTake, ServerStops, WriteFails
<1>4. CASE ServerConnectFails \/ ServerDisconnect
  BY <1>4, <1>1 DEF ServerConnectFails, ServerDisconnect, CloseInstance
<1>5. CASE WriteHeader \/ WritePixels
  <2>1. PICK half \in {"header", "payload"} : Send(half)
    BY <1>5 DEF WriteHeader, WritePixels
  <2>2. UNCHANGED <<reader, header, previous>> /\ handle = "live"
    BY <1>5 DEF WriteHeader, WritePixels, CanWrite, Ends
  <2>3. CASE wire # <<>>
    BY <2>1, <2>2, <2>3, SendFacts, HeadFacts DEF ReaderSide
  <2>4. CASE wire = <<>>
    <3>1. wire'[1].msg = msg /\ wire'[1].part = half
      BY <2>1, <2>4, SendFacts
    <3>2. CASE WriteHeader
      <4>1. half = "header"
        BY <3>1, <3>2, <2>4, SendFacts DEF WriteHeader
      <4>2. reader # "payload" /\ previous <= sent /\ sent < msg.seq /\ msg.seq \in Nat
        BY <3>2, <2>2, <2>4, DataFacts DEF WriteHeader, ServerSide, Sending
      <4> QED
        BY <4>1, <4>2, <3>1, <2>2 DEF ReaderSide
    <3>3. CASE WritePixels
      <4>1. half = "payload"
        BY <3>1, <3>3, <2>4, SendFacts DEF WritePixels
      <4>2. reader = "payload" /\ header = msg
        BY <3>3, <2>2, <2>4 DEF WritePixels, ServerSide
      <4> QED
        BY <4>1, <4>2, <3>1, <2>2 DEF ReaderSide
    <3> QED
      BY <1>5, <3>2, <3>3
  <2> QED
    BY <2>3, <2>4
<1>6. CASE Open \/ Leave \/ SourceShutdown
  BY <1>6 DEF Open, Leave, SourceShutdown, CloseHandle
<1>7. CASE ReadHeader \/ ReadPayload
  <2>1. /\ wire # <<>> /\ wire' = Tail(wire) /\ Head(wire) = wire[1]
        /\ wire[1].msg \in Message /\ wire[1].msg.seq \in Nat
    BY <1>7, HeadFacts DEF ReadHeader, ReadPayload
  <2>2. wire'[1] = wire[2] /\ Follows(wire[1], wire[2])
    <3>1. Len(Tail(wire)) \in Nat \ {0}
      BY <2>1, HeadFacts, TailFacts
    <3>2. 1 \in 1..Len(Tail(wire)) /\ 2 \in 1..Len(wire) /\ 2 > 1 /\ 2 - 1 = 1
      BY <3>1, <2>1, HeadFacts
    <3> QED
      BY <3>2, <2>1, HeadFacts DEF Framed
  <2>3. CASE ReadHeader
    <3>1. wire[1].part = "header" /\ Decodes(Head(wire))
      BY <2>3, <2>1 DEF ReadHeader, ReaderSide, Decodes
    <3>2. previous' = wire[1].msg.seq /\ header' = wire[1].msg /\ NeverRejects'
      BY <2>3, <2>1, <3>1, NeverRejectsStep DEF ReadHeader, TakeHeader
    <3>3. reader' = "payload" <=> wire[1].msg.kind = "frame"
      BY <2>3, <2>1, <3>1, <3>2 DEF ReadHeader, TakeHeader, Reject
    <3> QED
      BY <2>2, <3>1, <3>2, <3>3 DEF Follows, Opens, ReaderSide
  <2>4. CASE ReadPayload
    <3>1. wire[1].part = "payload" /\ wire[1].msg = header /\ header.seq = previous
      BY <2>4, <2>1 DEF ReadPayload, ReaderSide, CacheBehind
    <3> QED
      BY <2>2, <2>4, <3>1 DEF Follows, Opens, ReaderSide, ReadPayload
  <2> QED
    BY <1>7, <2>3, <2>4
<1>8. CASE Ingest
  BY <1>8, NeverRejectsStep DEF Ingest, Reject, ReaderSide, NeverRejects
<1>9. CASE ReadFails
  BY <1>9 DEF ReadFails
<1>10. CASE Borrow \/ Return \/ Expire
  BY <1>10, <1>1 DEF Borrow, Return, Expire
<1>11. CASE SourceActivate
  BY <1>11 DEF SourceActivate, Ends, InConnection
<1>12. CASE UNCHANGED vars
  BY <1>12, <1>1 DEF vars
<1> QED
  BY <1>2, <1>3, <1>4, <1>5, <1>6, <1>7, <1>8, <1>9, <1>10, <1>11, <1>12
     DEF Next, Server, Reader, Source

\* After each step the stream ends where the server is.
LEMMA ServerSideStep == IInv /\ [Next]_vars => ServerSide'
<1> SUFFICES ASSUME IInv, [Next]_vars, handle' = "live" PROVE ServerSide'
  BY DEF ServerSide
<1>0. NeverRejects' /\ Ends' /\ TypeOK'
  BY NeverRejectsStep, EndsStep, TypeStep DEF IInv
<1> USE DEF IInv, ServerSide, appVars, serverVars, pipeVars, readerVars, cacheVars
<1>1. CASE UNCHANGED <<serverVars, handle, wire, reader, previous, header>>
  BY <1>1
<1>2. CASE AppStart
  BY <1>2, <1>0 DEF AppStart, Ends
<1>3. CASE App /\ ~AppStart
  BY <1>3, <1>1 DEF App, AppStop, AppJoined, AppCrash, Publish, Invalidate, Put
<1>4. CASE ServerCreate \/ ServerStops \/ WriteFails
  BY <1>4 DEF ServerCreate, ServerStops, WriteFails, Ends
<1>5. CASE ServerConnectFails \/ ServerDisconnect
  BY <1>5 DEF ServerConnectFails, ServerDisconnect, CloseInstance
<1>6. CASE ServerConnect
  <2>1. wire = <<>> /\ previous = 0 /\ reader = "header" /\ server' = "idle"
    BY <1>6 DEF ServerConnect
  <2>2. wire' = <<>> /\ previous' = 0 /\ reader' = "header" /\ sent' = 0
    BY <1>6, <2>1 DEF ServerConnect
  <2> QED
    BY <2>1, <2>2
<1>7. CASE ServerTake
  BY <1>7 DEF ServerTake
<1>8. CASE WriteHeader
  <2>1. /\ wire' # <<>> /\ Len(wire') = Len(wire) + 1
        /\ wire'[Len(wire) + 1].part = "header" /\ wire'[Len(wire) + 1].msg = msg
    BY <1>8, SendFacts DEF WriteHeader
  <2>2. CASE msg.kind = "frame"
    BY <1>8, <2>1, <2>2 DEF WriteHeader, Opens
  <2>3. CASE msg.kind # "frame"
    <3>1. msg.seq \in Nat
      BY DataFacts DEF TypeOK
    <3> QED
      BY <1>8, <2>1, <2>3, <3>1 DEF WriteHeader, Opens, Transmitted
  <2> QED
    BY <2>2, <2>3
<1>9. CASE WritePixels
  <2>1. /\ wire' # <<>> /\ Len(wire') = Len(wire) + 1
        /\ wire'[Len(wire) + 1].part = "payload" /\ wire'[Len(wire) + 1].msg = msg
    BY <1>9, SendFacts DEF WritePixels
  <2>2. msg.seq \in Nat
    BY DataFacts DEF TypeOK
  <2> QED
    BY <1>9, <2>1, <2>2 DEF WritePixels, Opens, Transmitted
<1>10. CASE Open
  BY <1>10 DEF Open, Ends
<1>11. CASE ReadHeader \/ ReadPayload
  <2>1. /\ wire # <<>> /\ wire' = Tail(wire) /\ Head(wire) = wire[1]
        /\ handle = "live" /\ server' = server /\ sent' = sent /\ msg' = msg
        /\ server # "listen"
    BY <1>11, HeadFacts DEF ReadHeader, ReadPayload
  <2>2. CASE Len(wire) = 1
    <3>1. wire' = <<>> /\ wire[Len(wire)] = wire[1]
      BY <2>1, <2>2, HeadFacts
    <3>2. CASE ReadHeader
      <4>1. wire[1].part = "header" /\ Decodes(Head(wire)) /\ wire[1].msg.seq \in Nat
        BY <3>2, <2>1, HeadFacts DEF ReadHeader, ReaderSide, Decodes
      <4>2. previous' = wire[1].msg.seq /\ header' = wire[1].msg
        BY <3>2, <2>1, <4>1 DEF ReadHeader, TakeHeader
      <4>3. reader' = "payload" <=> Opens(wire[1])
        BY <3>2, <2>1, <4>1, <1>0 DEF ReadHeader, TakeHeader, Reject, NeverRejects, Opens
      <4>4. CASE server \in {"idle", "header"}
        BY <2>1, <3>1, <4>2, <4>3, <4>4
      <4>5. CASE server = "payload"
        BY <2>1, <3>1, <4>2, <4>3, <4>5
      <4> QED
        BY <2>1, <3>1, <4>4, <4>5
    <3>3. CASE ReadPayload
      <4>1. wire[1].part = "payload" /\ wire[1].msg = header /\ header.seq = previous
        BY <3>3, <2>1 DEF ReadPayload, ReaderSide, CacheBehind
      <4>2. reader' # "payload" /\ previous' = previous
        BY <3>3 DEF ReadPayload
      <4> QED
        BY <2>1, <3>1, <4>1, <4>2 DEF Opens
    <3> QED
      BY <1>11, <3>2, <3>3
  <2>3. CASE Len(wire) # 1
    <3>1. /\ wire' # <<>> /\ wire'[Len(wire')] = wire[Len(wire)]
      <4>1. Len(wire') \in Nat \ {0} /\ Len(wire') = Len(wire) - 1 /\ Len(wire) \in Nat
        BY <2>1, <2>3, HeadFacts
      <4>2. Len(wire') \in 1..Len(wire') /\ Len(wire') + 1 = Len(wire)
        BY <4>1, SMT
      <4>3. Tail(wire)[Len(wire')] = wire[Len(wire') + 1]
        BY <4>2, <2>1, HeadFacts
      <4>4. wire' # <<>>
        BY <4>1
      <4> QED
        BY <4>2, <4>3, <4>4, <2>1
    <3> QED
      BY <2>1, <3>1
  <2> QED
    BY <2>2, <2>3
<1>12. CASE Ingest
  BY <1>0, <1>12 DEF Ingest, Reject, NeverRejects
<1>13. CASE ReadFails \/ Leave \/ SourceShutdown
  BY <1>13 DEF ReadFails, Leave, SourceShutdown, CloseHandle
<1>14. CASE Borrow \/ Return \/ Expire
  BY <1>14, <1>1 DEF Borrow, Return, Expire
<1>15. CASE SourceActivate
  BY <1>15 DEF SourceActivate, Ends, InConnection
<1>16. CASE UNCHANGED vars
  BY <1>16, <1>1 DEF vars
<1> QED
  BY <1>2, <1>3, <1>4, <1>5, <1>6, <1>7, <1>8, <1>9, <1>10, <1>11, <1>12, <1>13, <1>14, <1>15, <1>16
     DEF Next, App, Server, Reader, Source

\* Each step keeps the cache behind the reader.
LEMMA CacheBehindStep == IInv /\ [Next]_vars => CacheBehind'
<1> SUFFICES ASSUME IInv, [Next]_vars PROVE CacheBehind'
  OBVIOUS
<1>0. NeverRejects' /\ TypeOK'
  BY NeverRejectsStep, TypeStep DEF IInv
<1>1. /\ published[bound] <= published'[bound] /\ published[bound] \in Nat /\ published'[bound] \in Nat
      /\ published[run] \in Nat /\ published'[run] \in Nat
      /\ previous \in Nat /\ last \in Nat
  BY PublishedGrows DEF IInv, TypeOK
<1> USE DEF IInv, CacheBehind, appVars, serverVars, pipeVars, readerVars, cacheVars
<1>2. CASE UNCHANGED <<readerVars, cacheVars>>
  BY <1>1, <1>2
<1>3. CASE App
  BY <1>3, <1>2 DEF App, AppStart, AppStop, AppJoined, AppCrash, Publish, Invalidate, Put
<1>4. CASE Server
  BY <1>4, <1>2 DEF Server, ServerCreate, ServerConnect, ServerTake, ServerStops, WriteFails, ServerConnectFails,
     ServerDisconnect, WriteHeader, WritePixels
<1>5. CASE Open
  BY <1>5, <1>1 DEF Open, ResetForNewConnection, Cache
<1>6. CASE ReadHeader
  <2>1. /\ Head(wire) = wire[1] /\ wire # <<>> /\ wire[1].msg.seq \in Nat /\ wire[1].msg \in Message
    BY <1>6, HeadFacts DEF ReadHeader
  <2>2. wire[1].part = "header" /\ previous < wire[1].msg.seq /\ Decodes(wire[1])
    BY <1>6, <2>1 DEF ReadHeader, ReaderSide, Decodes
  <2>3. wire[1].msg.run = bound /\ wire[1].msg.seq <= published[bound]
    BY <2>1, HeadFacts DEF Framed
  <2> QED
    BY <1>0, <1>1, <1>6, <2>1, <2>2, <2>3
       DEF ReadHeader, TakeHeader, Reject, IngestInvalidation, Cache, NeverRejects
<1>7. CASE ReadPayload
  <2>1. /\ Head(wire) = wire[1] /\ wire # <<>> /\ wire[1].msg = header
    BY <1>7, HeadFacts DEF ReadPayload, ReaderSide
  <2> QED
    BY <1>1, <1>7, <2>1 DEF ReadPayload
<1>8. CASE Ingest
  BY <1>0, <1>1, <1>8 DEF Ingest, Reject, IngestFrame, Cache, NeverRejects
<1>9. CASE ReadFails
  BY <1>1, <1>9 DEF ReadFails
<1>10. CASE Leave
  BY <1>1, <1>10 DEF Leave, InvalidateCache, Cache
<1>11. CASE Borrow \/ Return
  BY <1>11, <1>2 DEF Borrow, Return
<1>12. CASE Expire
  BY <1>12, <1>1 DEF Expire
<1>13. CASE SourceShutdown
  BY <1>13, <1>1 DEF SourceShutdown, InvalidateCache, Cache
<1>14. CASE SourceActivate
  BY <1>14, <1>0 DEF SourceActivate, Cache, TypeOK
<1>15. CASE UNCHANGED vars
  BY <1>15, <1>2 DEF vars
<1> QED
  BY <1>3, <1>4, <1>5, <1>6, <1>7, <1>8, <1>9, <1>10, <1>11, <1>12, <1>13, <1>14, <1>15
     DEF Next, Reader, Source

\* Each step shows the newest message taken, or the off frame.
LEMMA ShownStep == IInv /\ [Next]_vars => ShownIsNewest'
<1> SUFFICES ASSUME IInv, [Next]_vars PROVE ShownIsNewest'
  OBVIOUS
<1> USE DEF IInv, ShownIsNewest, appVars, serverVars, pipeVars, readerVars, cacheVars
<1>1. CASE UNCHANGED <<frame, last, bound>>
  BY <1>1
<1>2. CASE App
  BY <1>2, <1>1 DEF App, AppStart, AppStop, AppJoined, AppCrash, Publish, Invalidate, Put
<1>3. CASE Server
  BY <1>3, <1>1 DEF Server, ServerCreate, ServerConnect, ServerTake, ServerStops, WriteFails, ServerConnectFails,
     ServerDisconnect, WriteHeader, WritePixels
<1>4. CASE ReadHeader
  BY <1>4 DEF ReadHeader, TakeHeader, Reject, InvalidateCache, IngestInvalidation, Cache
<1>5. CASE Ingest
  BY <1>5 DEF Ingest, Reject, InvalidateCache, IngestFrame, Cache, CacheBehind, Identity
<1>6. CASE ReadPayload \/ ReadFails \/ Borrow \/ Return \/ Expire
  BY <1>6, <1>1 DEF ReadPayload, ReadFails, Borrow, Return, Expire
<1>7. CASE Open \/ Leave \/ SourceShutdown \/ SourceActivate
  BY <1>7 DEF Open, Leave, SourceShutdown, SourceActivate, InvalidateCache,
     ResetForNewConnection, Cache
<1>8. CASE UNCHANGED vars
  BY <1>8, <1>1 DEF vars
<1> QED
  BY <1>2, <1>3, <1>4, <1>5, <1>6, <1>7, <1>8 DEF Next, Reader, Source

\* The invariant holds initially.
LEMMA InitInvariant == Init => IInv
<1> SUFFICES ASSUME Init PROVE IInv
  OBVIOUS
<1>1. TypeOK
  BY BoundsAssumption DEF BoundsAssumption, Init, TypeOK, Frame, Message, Chunk, Off, NoMessage
<1>2. published[0] = 0 /\ bound = 0 /\ run = 0
  BY BoundsAssumption DEF BoundsAssumption, Init
<1>3. Ends /\ NeverRejects /\ ShownIsNewest
  BY DEF Init, Ends, NeverRejects, ShownIsNewest, InConnection
<1>4. Sending /\ Framed /\ ReaderSide
  BY <1>2, BoundsAssumption DEF BoundsAssumption, Init, Sending, Framed, ReaderSide
<1>5. CacheBehind /\ ServerSide
  BY <1>2 DEF Init, CacheBehind, ServerSide
<1> QED
  BY <1>1, <1>3, <1>4, <1>5 DEF IInv

(***************************************************************************)
(* The theorems.                                                           *)
(***************************************************************************)

\* IInv is an invariant: the bytes between send_frames and reader_loop are a
\* well-framed, growing stream, whatever connects, stops, crashes or is dropped.
THEOREM Invariance == Spec => []IInv
<1>1. IInv /\ [Next]_vars => IInv'
  BY TypeStep, NeverRejectsStep, EndsStep, SendingStep, FramedStep, ReaderSideStep,
     ServerSideStep, CacheBehindStep, ShownStep DEF IInv
<1> QED
  BY <1>1, InitInvariant, PTL DEF Spec

\* The reader never gives up a connection for a malformed or repeated header
\* that its own publisher sent (FrameHeader::decode, SharedFrameCache::ingest).
THEOREM ReaderNeverRejects == Spec => []NeverRejects
<1>1. IInv => NeverRejects
  BY DEF IInv
<1> QED
  BY <1>1, Invariance, PTL

\* The frame the cache holds is, header and pixels, the newest message taken
\* from the current connection: nothing older survives an invalidation and
\* nothing of an earlier run survives a reconnect.
THEOREM ShownFrameIsNewest == Spec => []ShownIsNewest
<1>1. IInv => ShownIsNewest
  BY DEF IInv
<1> QED
  BY <1>1, Invariance, PTL

\* The initial states of the transport are those of the latest-only register.
LEMMA InitRefines == Init => Promise!Init
BY BoundsAssumption DEF BoundsAssumption, Init, Promise!Init, Promise!Off, Off, Visible

\* What a request is shown depends on the cached frame and its age only.
LEMMA VisibleStays ==
  ASSUME UNCHANGED <<frame, age>> PROVE Visible' = Visible
BY DEF Visible

\* Every step of the transport is a step of the latest-only register, or a
\* stuttering one.
LEMMA StepRefines == IInv /\ IInv' /\ [Next]_vars => [Promise!Next]_(Promise!vars)
<1> SUFFICES ASSUME IInv, IInv', [Next]_vars PROVE [Promise!Next]_(Promise!vars)
  OBVIOUS
<1> USE DEF IInv, appVars, serverVars, pipeVars, readerVars, cacheVars
<1>1. CASE UNCHANGED <<published, bound, cacheVars>>
  BY <1>1 DEF Promise!vars, Visible
<1>2. CASE AppStart \/ AppStop \/ AppJoined \/ AppCrash
  BY <1>2, <1>1 DEF AppStart, AppStop, AppJoined, AppCrash
<1>3. CASE Publish \/ Invalidate
  <2>1. run \in 1..MaxRun
    <3>1. run # 0
      BY <1>3 DEF Publish, Invalidate, Put, WorkerUsable, Ends
    <3> QED
      BY <3>1, BoundsAssumption DEF BoundsAssumption, TypeOK
  <2>2. UNCHANGED <<bound, last, frame, age>>
    BY <1>3 DEF Publish, Invalidate, Put
  <2>3. /\ published[run] < MaxSequence
        /\ published' = [published EXCEPT ![run] = @ + 1]
    BY <1>3 DEF Publish, Invalidate, Put
  <2>4. Promise!Publish
    BY <2>1, <2>2, <2>3, VisibleStays DEF Promise!Publish
  <2> QED
    BY <2>4 DEF Promise!Next
<1>4. CASE Server
  BY <1>4, <1>1 DEF Server, ServerCreate, ServerConnect, ServerTake, ServerStops, WriteFails, ServerConnectFails,
     ServerDisconnect, WriteHeader, WritePixels
<1>5. CASE Open \/ SourceActivate
  <2>1. /\ bound' \in 0..MaxRun /\ last' = 0 /\ frame' = Off
        /\ published' = published
    BY <1>5 DEF Open, SourceActivate, ResetForNewConnection, Cache, TypeOK
  <2>2. Promise!Connect
    BY <2>1 DEF Promise!Connect, Visible, Off, Promise!Off
  <2> QED
    BY <2>2 DEF Promise!Next
<1>6. CASE UNCHANGED <<published, bound, last>> /\ Visible' = Off
  BY <1>6 DEF Promise!Next, Promise!Blank, Promise!Off, Off
<1>7. ASSUME last < last', last' <= published[bound], UNCHANGED <<published, bound>>,
             Visible' \in {Off, [run |-> bound, seq |-> last']}
      PROVE  Promise!Next
  <2>1. last' \in 1..MaxSequence
    BY <1>7, BoundsAssumption DEF BoundsAssumption, TypeOK
  <2>2. Promise!Take
    BY <1>7, <2>1 DEF Promise!Take, Promise!Off, Off
  <2> QED
    BY <2>2 DEF Promise!Next
<1>8. CASE ReadHeader
  <2>1. UNCHANGED <<published, bound>> /\ reader' # "rejected"
    BY <1>8 DEF ReadHeader, NeverRejects
  <2>2. CASE UNCHANGED cacheVars
    BY <2>1, <2>2, <1>1
  <2>3. CASE ~UNCHANGED cacheVars
    <3>1. /\ last' = Head(wire).msg.seq /\ frame' = Off /\ last' > last /\ previous' = last'
      BY <1>8, <2>1, <2>3
         DEF ReadHeader, TakeHeader, Reject, IngestInvalidation, Cache, Ingestible
    <3>2. last' <= published[bound] /\ Visible' = Off /\ last < last'
      BY <2>1, <3>1 DEF CacheBehind, Visible, TypeOK
    <3> QED
      BY <1>7, <2>1, <3>2
  <2> QED
    BY <2>2, <2>3
<1>9. CASE Ingest
  <2>1. UNCHANGED <<published, bound, previous>> /\ reader' # "rejected"
    BY <1>9 DEF Ingest, NeverRejects
  <2>2. last' = header.seq /\ frame' = pixels /\ last' > last /\ age' = "fresh"
    BY <1>9, <2>1 DEF Ingest, Reject, IngestFrame, Cache, Ingestible
  <2>3. pixels = [run |-> bound, seq |-> last'] /\ last' <= published[bound] /\ last < last'
    BY <1>9, <2>2, <2>1 DEF Ingest, CacheBehind, Identity, TypeOK
  <2>4. Visible' = [run |-> bound, seq |-> last']
    BY <2>2, <2>3 DEF Visible
  <2> QED
    BY <1>7, <2>1, <2>3, <2>4
<1>10. CASE ReadPayload \/ ReadFails \/ Borrow \/ Return
  BY <1>10, <1>1 DEF ReadPayload, ReadFails, Borrow, Return
<1>11. CASE Leave \/ SourceShutdown
  BY <1>11, <1>6 DEF Leave, SourceShutdown, InvalidateCache, Cache, Visible
<1>12. CASE Expire
  BY <1>12, <1>6 DEF Expire, Visible
<1>13. CASE UNCHANGED vars
  BY <1>13, <1>1 DEF vars
<1> QED
  BY <1>2, <1>3, <1>4, <1>5, <1>8, <1>9, <1>10, <1>11, <1>12, <1>13
     DEF Next, App, Reader, Source

\* The publisher, pipe, reader and cache together implement the latest-only
\* register of module LatestFrame.
THEOREM ImplementsLatestFrame == Spec => LatestOnly
<1> QED
  BY Invariance, InitRefines, StepRefines, PTL DEF Spec, LatestOnly, Promise!Spec

------------------------------------------------------------------------------
(***************************************************************************)
(* The camera's registration (VirtualCamera).                              *)
(***************************************************************************)

\* Two numbers are used up by a restart, and one by the first start.
GenerationsSuffice ==
    generation <= 2 * restarts + IF owner \in {"create", "arm"} THEN 0 ELSE 1

\* There is no camera while one is being opened, nor without a controller.
CameraIsOpened ==
    /\ owner \in Host!Opening => camera = "none"
    /\ ~controller /\ owner # "started" => camera = "none"

\* While the camera has not failed every callback is of an earlier one: none of
\* them is current, and none was found to be, but for one that got past the
\* comparison before the restart.
CallsAreOfThePast ==
    /\ \A event \in calls : event.generation <= generation
    /\ camera # "failed" =>
         \A event \in calls :
             IF event.at = "called" THEN event.generation < generation ELSE late

\* A camera that is being started, or is live, counts as running.
StartedIsRunning ==
    (owner = "start" \/ camera = "live") /\ ~late => running

HostInv ==
    /\ Host!TypeOK
    /\ GenerationsSuffice
    /\ CameraIsOpened
    /\ CallsAreOfThePast
    /\ StartedIsRunning

\* What is known of the registration is kept by every step.
LEMMA HostKept == HostInv /\ Host!Next => HostInv'
<1> SUFFICES ASSUME HostInv, Host!Next PROVE HostInv'
  OBVIOUS
<1>a. /\ Host!TypeOK /\ GenerationsSuffice /\ CameraIsOpened
      /\ CallsAreOfThePast /\ StartedIsRunning
  BY DEF HostInv
<1>b. /\ generation \in Nat /\ restarts \in Nat /\ restarts <= Restarts
      /\ troubles \in Nat /\ Restarts \in Nat /\ Troubles \in Nat
      /\ generation <= 2 * restarts + 1
      /\ \A event \in calls : event \in Host!Calls /\ event.generation \in Nat
      /\ publisher \in BOOLEAN /\ controller \in BOOLEAN /\ running \in BOOLEAN
      /\ late \in BOOLEAN
  BY <1>a, DevicesAssumption
     DEF Host!TypeOK, Host!Generations, Host!Calls, Host!CameraAssumption, GenerationsSuffice
<1>c. \A g \in Nat : g <= 2 * Restarts + 3 => g \in Host!Generations
  BY <1>b DEF Host!Generations
<1>1. CASE Host!Fails /\ owner \in {"create", "start"}
  <2>1. Host!TypeOK'
    <3>1. troubles' \in 0 .. Troubles
      BY <1>b, <1>1 DEF Host!Fails, Host!Trouble
    <3>2. running' \in BOOLEAN /\ owner' = "idle" /\ component' = "Failed"
      BY <1>1 DEF Host!Fails
    <3>3. UNCHANGED <<publisher, controller, camera, generation, calls, late, restarts>>
      BY <1>1 DEF Host!Fails
    <3> QED
      BY <1>a, <3>1, <3>2, <3>3 DEF Host!TypeOK
  <2>2. GenerationsSuffice'
    BY <1>a, <1>b, <1>c, <1>1 DEF Host!Fails, Host!Trouble, CameraIsOpened,
       Host!Opening, GenerationsSuffice
  <2>3. CameraIsOpened'
    BY <1>a, <1>b, <1>c, <1>1 DEF Host!Fails, Host!Trouble, CameraIsOpened, Host!Opening
  <2>4. CallsAreOfThePast'
    BY <1>a, <1>b, <1>c, <1>1 DEF Host!Fails, Host!Trouble, CameraIsOpened,
       Host!Opening, CallsAreOfThePast
  <2>5. StartedIsRunning'
    BY <1>a, <1>b, <1>c, <1>1 DEF Host!Fails, Host!Trouble, CameraIsOpened,
       Host!Opening, StartedIsRunning
  <2> QED
    BY <2>1, <2>2, <2>3, <2>4, <2>5 DEF HostInv
<1>2. CASE Host!Create /\ ~Host!Fails
  <2>1. Host!TypeOK'
    BY <1>a, <1>b, <1>c, <1>2 DEF Host!Create, Host!TypeOK, Host!Opening, Host!Calls
  <2>2. GenerationsSuffice'
    BY <1>a, <1>b, <1>c, <1>2 DEF Host!Create, GenerationsSuffice
  <2>3. CameraIsOpened'
    BY <1>a, <1>b, <1>c, <1>2 DEF Host!Create, CameraIsOpened, Host!Opening
  <2>4. CallsAreOfThePast'
    BY <1>a, <1>b, <1>c, <1>2 DEF Host!Create, CallsAreOfThePast
  <2>5. StartedIsRunning'
    BY <1>a, <1>b, <1>c, <1>2 DEF Host!Create, StartedIsRunning
  <2> QED
    BY <2>1, <2>2, <2>3, <2>4, <2>5 DEF HostInv
<1>3. CASE Host!Arm
  <2>1. Host!TypeOK'
    BY <1>a, <1>b, <1>c, <1>3 DEF Host!Arm, Host!TypeOK, Host!Opening, Host!Calls
  <2>2. GenerationsSuffice'
    BY <1>a, <1>b, <1>c, <1>3 DEF Host!Arm, GenerationsSuffice
  <2>3. CameraIsOpened'
    BY <1>a, <1>b, <1>c, <1>3 DEF Host!Arm, CameraIsOpened, Host!Opening
  <2>4. CallsAreOfThePast'
    BY <1>a, <1>b, <1>c, <1>3 DEF Host!Arm, CallsAreOfThePast
  <2>5. StartedIsRunning'
    BY <1>a, <1>b, <1>c, <1>3 DEF Host!Arm, StartedIsRunning
  <2> QED
    BY <2>1, <2>2, <2>3, <2>4, <2>5 DEF HostInv
<1>4. CASE Host!Start /\ ~Host!Fails
  <2>1. Host!TypeOK'
    BY <1>a, <1>b, <1>c, <1>4 DEF Host!Start, CameraIsOpened, Host!Opening, Host!TypeOK,
       Host!Calls
  <2>2. GenerationsSuffice'
    BY <1>a, <1>b, <1>c, <1>4 DEF Host!Start, CameraIsOpened, Host!Opening,
       GenerationsSuffice
  <2>3. CameraIsOpened'
    BY <1>a, <1>b, <1>c, <1>4 DEF Host!Start, CameraIsOpened, Host!Opening
  <2>4. CallsAreOfThePast'
    BY <1>a, <1>b, <1>c, <1>4 DEF Host!Start, CameraIsOpened, Host!Opening,
       CallsAreOfThePast
  <2>5. StartedIsRunning'
    BY <1>a, <1>b, <1>c, <1>4 DEF Host!Start, CameraIsOpened, Host!Opening,
       StartedIsRunning
  <2> QED
    BY <2>1, <2>2, <2>3, <2>4, <2>5 DEF HostInv
<1>5. CASE Host!Opened
  <2>1. Host!TypeOK'
    BY <1>a, <1>b, <1>c, <1>5 DEF Host!Opened, Host!TypeOK, Host!Opening, Host!Calls
  <2>2. GenerationsSuffice'
    BY <1>a, <1>b, <1>c, <1>5 DEF Host!Opened, GenerationsSuffice
  <2>3. CameraIsOpened'
    BY <1>a, <1>b, <1>c, <1>5 DEF Host!Opened, CameraIsOpened, Host!Opening
  <2>4. CallsAreOfThePast'
    BY <1>a, <1>b, <1>c, <1>5 DEF Host!Opened, CallsAreOfThePast
  <2>5. StartedIsRunning'
    BY <1>a, <1>b, <1>c, <1>5 DEF Host!Opened, StartedIsRunning
  <2> QED
    BY <2>1, <2>2, <2>3, <2>4, <2>5 DEF HostInv
<1>6. CASE Host!Restart /\ ~publisher
  <2>1. Host!TypeOK'
    BY <1>a, <1>b, <1>c, <1>6 DEF Host!Restart, Host!TypeOK, Host!Opening, Host!Calls
  <2>2. GenerationsSuffice'
    BY <1>a, <1>b, <1>c, <1>6 DEF Host!Restart, GenerationsSuffice
  <2>3. CameraIsOpened'
    BY <1>a, <1>b, <1>c, <1>6 DEF Host!Restart, CameraIsOpened, Host!Opening
  <2>4. CallsAreOfThePast'
    BY <1>a, <1>b, <1>c, <1>6 DEF Host!Restart, CallsAreOfThePast
  <2>5. StartedIsRunning'
    BY <1>a, <1>b, <1>c, <1>6 DEF Host!Restart, StartedIsRunning
  <2> QED
    BY <2>1, <2>2, <2>3, <2>4, <2>5 DEF HostInv
<1>7. CASE Host!Restart /\ publisher /\ controller
  <2>1. Host!TypeOK'
    <3>1. /\ generation' = generation + 1 /\ restarts' = restarts + 1 /\ restarts < Restarts
          /\ owner' = "create" /\ component' = "Restarting" /\ camera' = "none"
          /\ running' \in BOOLEAN /\ late' \in BOOLEAN
          /\ UNCHANGED <<publisher, controller, calls, troubles>>
      BY <1>7 DEF Host!Restart
    <3>2. generation' \in Host!Generations
      BY <1>b, <1>c, <3>1
    <3>3. restarts' \in 0 .. Restarts
      BY <1>b, <3>1
    <3> QED
      BY <1>a, <3>1, <3>2, <3>3 DEF Host!TypeOK, Host!Opening
  <2>2. GenerationsSuffice'
    BY <1>a, <1>b, <1>c, <1>7 DEF Host!Restart, GenerationsSuffice
  <2>3. CameraIsOpened'
    BY <1>a, <1>b, <1>c, <1>7 DEF Host!Restart, CameraIsOpened, Host!Opening
  <2>4. CallsAreOfThePast'
    <3>1. /\ generation' = generation + 1 /\ calls' = calls
          /\ (\E event \in calls : event.at = "clears") => late'
      BY <1>7 DEF Host!Restart
    <3>2. \A event \in calls :
             event.generation <= generation /\ (event.at = "called" \/ event.at = "clears")
      BY <1>a, <1>b DEF CallsAreOfThePast, Host!Calls
    <3>3. \A event \in calls :
             event.generation <= generation + 1 /\ event.generation < generation + 1
      BY <1>b, <3>2
    <3> QED
      BY <3>1, <3>2, <3>3 DEF CallsAreOfThePast
  <2>5. StartedIsRunning'
    BY <1>a, <1>b, <1>c, <1>7 DEF Host!Restart, StartedIsRunning
  <2> QED
    BY <2>1, <2>2, <2>3, <2>4, <2>5 DEF HostInv
<1>8. CASE Host!Restart /\ publisher /\ ~controller
  <2>1. Host!TypeOK'
    BY <1>a, <1>b, <1>c, <1>8 DEF Host!Restart, CameraIsOpened, Host!Opening,
       Host!TypeOK, Host!Calls
  <2>2. GenerationsSuffice'
    BY <1>a, <1>b, <1>c, <1>8 DEF Host!Restart, CameraIsOpened, Host!Opening,
       GenerationsSuffice
  <2>3. CameraIsOpened'
    BY <1>a, <1>b, <1>c, <1>8 DEF Host!Restart, CameraIsOpened, Host!Opening
  <2>4. CallsAreOfThePast'
    BY <1>a, <1>b, <1>c, <1>8 DEF Host!Restart, CameraIsOpened, Host!Opening,
       CallsAreOfThePast
  <2>5. StartedIsRunning'
    BY <1>a, <1>b, <1>c, <1>8 DEF Host!Restart, CameraIsOpened, Host!Opening,
       StartedIsRunning
  <2> QED
    BY <2>1, <2>2, <2>3, <2>4, <2>5 DEF HostInv
<1>9. CASE Host!Cycle
  <2>1. Host!TypeOK'
    BY <1>a, <1>b, <1>c, <1>9 DEF Host!Cycle, Host!TypeOK, Host!Opening, Host!Calls
  <2>2. GenerationsSuffice'
    BY <1>a, <1>b, <1>c, <1>9 DEF Host!Cycle, GenerationsSuffice
  <2>3. CameraIsOpened'
    BY <1>a, <1>b, <1>c, <1>9 DEF Host!Cycle, CameraIsOpened, Host!Opening
  <2>4. CallsAreOfThePast'
    BY <1>a, <1>b, <1>c, <1>9 DEF Host!Cycle, CallsAreOfThePast
  <2>5. StartedIsRunning'
    BY <1>a, <1>b, <1>c, <1>9 DEF Host!Cycle, StartedIsRunning
  <2> QED
    BY <2>1, <2>2, <2>3, <2>4, <2>5 DEF HostInv
<1>10. CASE Host!CameraFails
  <2>1. Host!TypeOK'
    BY <1>a, <1>b, <1>c, <1>10 DEF Host!CameraFails, Host!Trouble, Host!TypeOK,
       Host!Opening, Host!Calls
  <2>2. GenerationsSuffice'
    BY <1>a, <1>b, <1>c, <1>10 DEF Host!CameraFails, Host!Trouble, GenerationsSuffice
  <2>3. CameraIsOpened'
    BY <1>a, <1>b, <1>c, <1>10 DEF Host!CameraFails, Host!Trouble, CameraIsOpened,
       Host!Opening
  <2>4. CallsAreOfThePast'
    BY <1>a, <1>b, <1>c, <1>10 DEF Host!CameraFails, Host!Trouble, CallsAreOfThePast
  <2>5. StartedIsRunning'
    BY <1>a, <1>b, <1>c, <1>10 DEF Host!CameraFails, Host!Trouble, StartedIsRunning
  <2> QED
    BY <2>1, <2>2, <2>3, <2>4, <2>5 DEF HostInv
<1>11. CASE Host!Compares
  <2>1. Host!TypeOK'
    BY <1>a, <1>b, <1>c, <1>11 DEF Host!Compares, Host!IsCurrent, Host!TypeOK,
       Host!Opening, Host!Calls
  <2>2. GenerationsSuffice'
    BY <1>a, <1>b, <1>c, <1>11 DEF Host!Compares, Host!IsCurrent, GenerationsSuffice
  <2>3. CameraIsOpened'
    BY <1>a, <1>b, <1>c, <1>11 DEF Host!Compares, Host!IsCurrent, CameraIsOpened,
       Host!Opening
  <2>4. CallsAreOfThePast'
    <3>1. PICK event \in calls :
            /\ event.at = "called"
            /\ calls' = (calls \ {event})
                 \cup IF Host!IsCurrent(event) THEN {[event EXCEPT !.at = "clears"]} ELSE {}
      BY <1>11 DEF Host!Compares
    <3>2. UNCHANGED <<generation, camera, late>>
      BY <1>11 DEF Host!Compares
    <3>3. CASE Host!IsCurrent(event)
      <4>1. camera = "failed"
        BY <1>a, <1>b, <3>1, <3>3 DEF CallsAreOfThePast, Host!IsCurrent
      <4>2. [event EXCEPT !.at = "clears"].generation = event.generation
        BY <1>b, <3>1 DEF Host!Calls
      <4> QED
        BY <1>a, <1>b, <3>1, <3>2, <3>3, <4>1, <4>2 DEF CallsAreOfThePast
    <3>4. CASE ~Host!IsCurrent(event)
      BY <1>a, <3>1, <3>2, <3>4 DEF CallsAreOfThePast
    <3> QED
      BY <3>3, <3>4
  <2>5. StartedIsRunning'
    BY <1>a, <1>b, <1>c, <1>11 DEF Host!Compares, Host!IsCurrent, StartedIsRunning
  <2> QED
    BY <2>1, <2>2, <2>3, <2>4, <2>5 DEF HostInv
<1>12. CASE Host!Clears
  <2>1. Host!TypeOK'
    BY <1>a, <1>b, <1>c, <1>12 DEF Host!Clears, Host!TypeOK, Host!Opening, Host!Calls
  <2>2. GenerationsSuffice'
    BY <1>a, <1>b, <1>c, <1>12 DEF Host!Clears, GenerationsSuffice
  <2>3. CameraIsOpened'
    BY <1>a, <1>b, <1>c, <1>12 DEF Host!Clears, CameraIsOpened, Host!Opening
  <2>4. CallsAreOfThePast'
    BY <1>a, <1>b, <1>c, <1>12 DEF Host!Clears, CallsAreOfThePast
  <2>5. StartedIsRunning'
    <3>1. PICK event \in calls : event.at = "clears"
      BY <1>12 DEF Host!Clears
    <3>2. camera # "failed" => late
      BY <1>a, <3>1 DEF CallsAreOfThePast
    <3>3. owner = "start" => camera = "none"
      BY <1>a DEF CameraIsOpened, Host!Opening
    <3> QED
      BY <1>12, <3>2, <3>3 DEF Host!Clears, StartedIsRunning
  <2> QED
    BY <2>1, <2>2, <2>3, <2>4, <2>5 DEF HostInv
<1> QED
  BY <1>1, <1>2, <1>3, <1>4, <1>5, <1>6, <1>7, <1>8, <1>9, <1>10, <1>11, <1>12
     DEF Host!Next, Host!Create, Host!Start

\* The registration's invariant, for any number of restarts and troubles.
THEOREM HostInvariance == Host!Spec => []HostInv
<1>1. ASSUME Host!Init PROVE HostInv
  <2>1. Host!TypeOK
    <3>1. generation = 0 /\ restarts = 0 /\ troubles = 0 /\ calls = {}
      BY <1>1 DEF Host!Init
    <3>2. /\ generation \in Host!Generations /\ restarts \in 0 .. Restarts
          /\ troubles \in 0 .. Troubles
      BY <3>1, DevicesAssumption DEF Host!Generations, Host!CameraAssumption
    <3>3. /\ owner \in {"create", "idle"} /\ component \in {"Starting", "Failed"}
          /\ camera = "none" /\ publisher \in BOOLEAN /\ controller \in BOOLEAN
          /\ running \in BOOLEAN /\ late \in BOOLEAN
      BY <1>1 DEF Host!Init
    <3> QED
      BY <3>1, <3>2, <3>3 DEF Host!TypeOK, Host!Opening
  <2>2. GenerationsSuffice
    BY <1>1 DEF Host!Init, GenerationsSuffice
  <2>3. CameraIsOpened /\ CallsAreOfThePast
    BY <1>1 DEF Host!Init, CameraIsOpened, CallsAreOfThePast
  <2>4. StartedIsRunning
    BY <1>1 DEF Host!Init, StartedIsRunning
  <2> QED
    BY <2>1, <2>2, <2>3, <2>4 DEF HostInv
<1>2. HostInv /\ UNCHANGED Host!vars => HostInv'
  BY DEF Host!vars, HostInv, Host!TypeOK, GenerationsSuffice, CameraIsOpened,
     CallsAreOfThePast, StartedIsRunning
<1> QED
  BY <1>1, <1>2, HostKept, PTL DEF Host!Spec

\* A camera that works is not reported as stopped because of the one before it.
LEMMA HostIsSafe == HostInv => Host!TypeOK /\ Host!LiveIsRunning
  BY DEF HostInv, StartedIsRunning, Host!LiveIsRunning

------------------------------------------------------------------------------
(***************************************************************************)
(* The conversion of the previews (PreviewConversion).                     *)
(***************************************************************************)

\* The generation is the number of times the window was hidden, and a job is of the
\* generation in which it was submitted.
JobsAreDated ==
    /\ previewGeneration <= changes
    /\ job.generation <= previewGeneration
    /\ pending.generation <= previewGeneration

\* Hiding the window leaves nothing but a job that is out of date.
HiddenIsIdle == ~visible =>
    /\ pending = Preview!NoJob /\ ready = Preview!NoPicture
    /\ worker = "converts" => job.generation < previewGeneration
    /\ pass = "between"

PreviewInv == Preview!TypeOK /\ JobsAreDated /\ HiddenIsIdle

\* What is known of the converter is kept by every step.
LEMMA PreviewKept == PreviewInv /\ Preview!Next => PreviewInv'
<1> SUFFICES ASSUME PreviewInv, Preview!Next PROVE PreviewInv'
  OBVIOUS
<1>a. Preview!TypeOK /\ JobsAreDated /\ HiddenIsIdle
  BY DEF PreviewInv
<1>b. /\ previewGeneration \in 0 .. Changes /\ changes \in 0 .. Changes /\ Changes \in Nat
      /\ job \in Preview!Jobs /\ pending \in Preview!Jobs
      /\ job.generation \in Nat /\ pending.generation \in Nat /\ job.picture \in Preview!Pictures
      /\ visible \in BOOLEAN /\ recent \in BOOLEAN /\ stopping \in BOOLEAN
      /\ {previewLatest, ready, texture} \subseteq Preview!Pictures
      /\ offered \in PreviewFrames \cup {NoPreview} /\ size \in Sizes
  BY <1>a, DevicesAssumption DEF Preview!TypeOK, Preview!Jobs, Preview!PreviewAssumption
<1>c. /\ Preview!NoPicture \in Preview!Pictures /\ Preview!NoJob \in Preview!Jobs
      /\ Preview!NoJob.generation = 0
  BY <1>b DEF Preview!NoPicture, Preview!Pictures, Preview!NoJob, Preview!Jobs
<1>d. /\ Preview!Request \in Preview!Pictures
      /\ \A g \in 0 .. Changes, p \in Preview!Pictures :
           /\ [picture |-> p, generation |-> g] \in Preview!Jobs
           /\ [picture |-> p, generation |-> g].generation = g
  BY <1>b DEF Preview!Request, Preview!Pictures, Preview!Jobs
<1>1. CASE Preview!Submit
  <2>1. Preview!TypeOK'
    <3>1. /\ [picture |-> Preview!Request, generation |-> previewGeneration] \in Preview!Jobs
      BY <1>b, <1>d
    <3>2. pending' \in Preview!Jobs /\ previewLatest' \in Preview!Pictures /\ recent' \in BOOLEAN
      BY <1>b, <1>d, <1>1, <3>1 DEF Preview!Submit
    <3>3. /\ UNCHANGED <<visible, offered, size, ready, previewGeneration, job, worker,
                        stopping, texture, changes>>
          /\ pass' = "submitted"
      BY <1>1 DEF Preview!Submit
    <3> QED
      BY <1>a, <3>2, <3>3 DEF Preview!TypeOK
  <2>2. JobsAreDated'
    BY <1>a, <1>b, <1>c, <1>d, <1>1 DEF Preview!Submit, JobsAreDated
  <2>3. HiddenIsIdle'
    BY <1>a, <1>b, <1>c, <1>d, <1>1 DEF Preview!Submit, HiddenIsIdle
  <2> QED
    BY <2>1, <2>2, <2>3 DEF PreviewInv
<1>2. CASE Preview!Draw
  <2>1. Preview!TypeOK'
    BY <1>a, <1>b, <1>c, <1>d, <1>2 DEF Preview!Draw, Preview!TypeOK
  <2>2. JobsAreDated'
    BY <1>a, <1>b, <1>c, <1>d, <1>2 DEF Preview!Draw, JobsAreDated
  <2>3. HiddenIsIdle'
    BY <1>a, <1>b, <1>c, <1>d, <1>2 DEF Preview!Draw, HiddenIsIdle
  <2> QED
    BY <2>1, <2>2, <2>3 DEF PreviewInv
<1>3. CASE Preview!Offer
  <2>1. Preview!TypeOK'
    BY <1>a, <1>b, <1>c, <1>d, <1>3 DEF Preview!Offer, Preview!TypeOK
  <2>2. JobsAreDated'
    BY <1>a, <1>b, <1>c, <1>d, <1>3 DEF Preview!Offer, JobsAreDated
  <2>3. HiddenIsIdle'
    BY <1>a, <1>b, <1>c, <1>d, <1>3 DEF Preview!Offer, HiddenIsIdle
  <2> QED
    BY <2>1, <2>2, <2>3 DEF PreviewInv
<1>4. CASE Preview!Enlarge
  <2>1. Preview!TypeOK'
    BY <1>a, <1>b, <1>c, <1>d, <1>4 DEF Preview!Enlarge, Preview!TypeOK
  <2>2. JobsAreDated'
    BY <1>a, <1>b, <1>c, <1>d, <1>4 DEF Preview!Enlarge, JobsAreDated
  <2>3. HiddenIsIdle'
    BY <1>a, <1>b, <1>c, <1>d, <1>4 DEF Preview!Enlarge, HiddenIsIdle
  <2> QED
    BY <2>1, <2>2, <2>3 DEF PreviewInv
<1>5. CASE Preview!Hide
  <2>1. Preview!TypeOK'
    <3>1. changes' \in 0 .. Changes /\ previewGeneration' \in 0 .. Changes
      BY <1>a, <1>b, <1>5 DEF Preview!Hide, JobsAreDated
    <3>2. /\ UNCHANGED <<offered, size, pass, job, worker, stopping, texture>>
          /\ visible' = FALSE /\ recent' = FALSE /\ previewLatest' = Preview!NoPicture
          /\ pending' = Preview!NoJob /\ ready' = Preview!NoPicture
      BY <1>5 DEF Preview!Hide
    <3> QED
      BY <1>a, <1>b, <1>c, <3>1, <3>2 DEF Preview!TypeOK
  <2>2. JobsAreDated'
    BY <1>a, <1>b, <1>c, <1>d, <1>5 DEF Preview!Hide, JobsAreDated
  <2>3. HiddenIsIdle'
    <3>1. job'.generation < previewGeneration'
      BY <1>a, <1>b, <1>5 DEF Preview!Hide, JobsAreDated
    <3>2. pending' = Preview!NoJob /\ ready' = Preview!NoPicture /\ pass' = "between"
      BY <1>5 DEF Preview!Hide
    <3> QED
      BY <3>1, <3>2 DEF HiddenIsIdle, Preview!NoJob, Preview!NoPicture
  <2> QED
    BY <2>1, <2>2, <2>3 DEF PreviewInv
<1>6. CASE Preview!Show
  <2>1. Preview!TypeOK'
    BY <1>a, <1>b, <1>c, <1>d, <1>6 DEF Preview!Show, Preview!TypeOK
  <2>2. JobsAreDated'
    BY <1>a, <1>b, <1>c, <1>d, <1>6 DEF Preview!Show, JobsAreDated
  <2>3. HiddenIsIdle'
    BY <1>a, <1>b, <1>c, <1>d, <1>6 DEF Preview!Show, HiddenIsIdle
  <2> QED
    BY <2>1, <2>2, <2>3 DEF PreviewInv
<1>7. CASE Preview!Drop
  <2>1. Preview!TypeOK'
    BY <1>a, <1>b, <1>c, <1>d, <1>7 DEF Preview!Drop, Preview!TypeOK
  <2>2. JobsAreDated'
    BY <1>a, <1>b, <1>c, <1>d, <1>7 DEF Preview!Drop, JobsAreDated
  <2>3. HiddenIsIdle'
    BY <1>a, <1>b, <1>c, <1>d, <1>7 DEF Preview!Drop, HiddenIsIdle
  <2> QED
    BY <2>1, <2>2, <2>3 DEF PreviewInv
<1>8. CASE Preview!Take
  <2>1. Preview!TypeOK'
    BY <1>a, <1>b, <1>c, <1>d, <1>8 DEF Preview!Take, Preview!TypeOK
  <2>2. JobsAreDated'
    BY <1>a, <1>b, <1>c, <1>d, <1>8 DEF Preview!Take, JobsAreDated
  <2>3. HiddenIsIdle'
    BY <1>a, <1>b, <1>c, <1>d, <1>8 DEF Preview!Take, HiddenIsIdle
  <2> QED
    BY <2>1, <2>2, <2>3 DEF PreviewInv
<1>9. CASE Preview!Store
  <2>1. Preview!TypeOK'
    BY <1>a, <1>b, <1>c, <1>d, <1>9 DEF Preview!Store, Preview!TypeOK
  <2>2. JobsAreDated'
    BY <1>a, <1>b, <1>c, <1>d, <1>9 DEF Preview!Store, JobsAreDated
  <2>3. HiddenIsIdle'
    BY <1>a, <1>b, <1>c, <1>d, <1>9 DEF Preview!Store, HiddenIsIdle
  <2> QED
    BY <2>1, <2>2, <2>3 DEF PreviewInv
<1>10. CASE Preview!End
  <2>1. Preview!TypeOK'
    BY <1>a, <1>b, <1>c, <1>d, <1>10 DEF Preview!End, Preview!TypeOK
  <2>2. JobsAreDated'
    BY <1>a, <1>b, <1>c, <1>d, <1>10 DEF Preview!End, JobsAreDated
  <2>3. HiddenIsIdle'
    BY <1>a, <1>b, <1>c, <1>d, <1>10 DEF Preview!End, HiddenIsIdle
  <2> QED
    BY <2>1, <2>2, <2>3 DEF PreviewInv
<1>11. CASE Preview!IntervalPasses
  <2>1. Preview!TypeOK'
    BY <1>a, <1>b, <1>c, <1>d, <1>11 DEF Preview!IntervalPasses, Preview!TypeOK
  <2>2. JobsAreDated'
    BY <1>a, <1>b, <1>c, <1>d, <1>11 DEF Preview!IntervalPasses, JobsAreDated
  <2>3. HiddenIsIdle'
    BY <1>a, <1>b, <1>c, <1>d, <1>11 DEF Preview!IntervalPasses, HiddenIsIdle
  <2> QED
    BY <2>1, <2>2, <2>3 DEF PreviewInv
<1> QED
  BY <1>1, <1>2, <1>3, <1>4, <1>5, <1>6, <1>7, <1>8, <1>9, <1>10, <1>11 DEF Preview!Next

\* The converter's invariant, for any frames, sizes and number of changes.
THEOREM PreviewInvariance == Preview!Spec => []PreviewInv
<1>1. ASSUME Preview!Init PROVE PreviewInv
  <2>1. /\ pending = Preview!NoJob /\ job = Preview!NoJob /\ ready = Preview!NoPicture
        /\ previewLatest = Preview!NoPicture /\ texture = Preview!NoPicture
        /\ previewGeneration = 0 /\ changes = 0 /\ offered = NoPreview /\ size \in Sizes
        /\ worker = "waits" /\ pass = "between"
        /\ visible = TRUE /\ recent = FALSE /\ stopping = FALSE
    BY <1>1 DEF Preview!Init
  <2>2. /\ Preview!NoPicture \in Preview!Pictures /\ Preview!NoJob \in Preview!Jobs
        /\ Preview!NoJob.generation = 0 /\ 0 \in 0 .. Changes
    BY DevicesAssumption DEF Preview!NoPicture, Preview!Pictures, Preview!NoJob,
       Preview!Jobs, Preview!PreviewAssumption
  <2>3. Preview!TypeOK
    BY <2>1, <2>2 DEF Preview!TypeOK
  <2> QED
    BY <2>1, <2>2, <2>3 DEF PreviewInv, JobsAreDated, HiddenIsIdle
<1>2. PreviewInv /\ UNCHANGED Preview!vars => PreviewInv'
  BY DEF Preview!vars, PreviewInv, Preview!TypeOK, JobsAreDated, HiddenIsIdle
<1> QED
  BY <1>1, <1>2, PreviewKept, PTL DEF Preview!Spec

\* A hidden preview holds nothing back.
LEMMA PreviewIsSafe == PreviewInv => Preview!TypeOK /\ Preview!HiddenIsDrained
  BY DEF PreviewInv, HiddenIsIdle, Preview!HiddenIsDrained

------------------------------------------------------------------------------
(***************************************************************************)
(* The capture of the screen (ScreenCapture).                              *)
(***************************************************************************)

\* A session that runs is of a display.
SessionHasDisplay ==
    session.state # "none" \/ session.current => session.display \in Displays

\* A session that is current is of the selected display, and so is what it left; only
\* while the worker waits for the end of a session may there be something of another.
CaptureIsOfSelected ==
    IF screenOwner.at = "joining" THEN ~session.current
    ELSE /\ session.current => session.display = selected
         /\ screenLatest # Screen!NoFrame => screenLatest.display = selected
         /\ shown # Screen!NoFrame => shown.display = selected

\* The frame the worker has read is of the selected display, too.
SeenIsOfSelected ==
    /\ screenOwner.seen # Screen!NoFrame =>
         screenOwner.at = "judge" /\ screenOwner.seen.display = selected
    /\ screenReady => shown # Screen!NoFrame

ScreenInv ==
    /\ Screen!TypeOK
    /\ SessionHasDisplay
    /\ CaptureIsOfSelected
    /\ SeenIsOfSelected

\* What a session and the status of the screen may be.
SessionsOfScreen ==
    [state : {"none", "waits", "works", "ended"},
     display : Displays \cup {Nothing}, current : BOOLEAN, fresh : BOOLEAN,
     closing : BOOLEAN, due : BOOLEAN, streak : 0 .. 2, got : Screen!Showing]

StatusesOfScreen ==
    [life : {"Starting", "WaitingForFirstFrame", "Ready", "Restarting", "Failed"},
     deadline : {"none", "set", "passed"}, failures : 0 .. 4, blocked : 0 .. 2]

\* The parts of the type invariant of the capture, by what the steps change.
SettingsOK ==
    /\ world \in [attached : SUBSET Displays, showing : [Displays -> Screen!Showing]]
    /\ stored \in Displays /\ selected \in Displays \cup {Nothing}
    /\ hdr \in BOOLEAN /\ screenSetting \in [recover : BOOLEAN, automatic : BOOLEAN]
    /\ screenTroubles \in 0 .. ScreenTroubles /\ clicks \in 0 .. Clicks

SessionOK == session \in SessionsOfScreen

FramesOK ==
    /\ {screenLatest, shown, screenOwner.seen} \subseteq Screen!Frames \cup {Screen!NoFrame}
    /\ failure \in BOOLEAN /\ screenReady \in BOOLEAN
    /\ screenOwner.at \in {"idle", "joining", "look", "judge"}
    /\ screenOwner.back \in {"idle", "look"} /\ screenOwner.automatic \in BOOLEAN

StatusOK ==
    /\ checks \in [due : BOOLEAN, failures : 0 .. 1]
    /\ screenComponent \in StatusesOfScreen

\* A session that is begun, and what its thread makes of it, is a session.
LEMMA SessionsFit ==
    /\ Screen!NoSession \in SessionsOfScreen
    /\ Screen!NoSession.state = "none" /\ ~Screen!NoSession.current
    /\ \A d \in Displays :
         Screen!Session(d) \in SessionsOfScreen /\ Screen!Session(d).display = d
    /\ \A s \in SessionsOfScreen : \A n \in 0 .. 2 :
         LET t == [s EXCEPT !.state = "waits", !.streak = n] IN
         t \in SessionsOfScreen /\ t.display = s.display /\ t.current = s.current
<1>1. /\ Screen!NoSession \in SessionsOfScreen
      /\ Screen!NoSession.state = "none" /\ ~Screen!NoSession.current
  BY DEF Screen!NoSession, SessionsOfScreen, Screen!Showing
<1>2. ASSUME NEW d \in Displays
      PROVE  Screen!Session(d) \in SessionsOfScreen /\ Screen!Session(d).display = d
  <2> DEFINE s == [Screen!NoSession EXCEPT !.state = "waits", !.display = d]
  <2>1. s \in SessionsOfScreen /\ s.display = d
    BY <1>1 DEF SessionsOfScreen
  <2>2. Screen!Session(d) = [s EXCEPT !.current = TRUE, !.fresh = TRUE]
    BY DEF Screen!Session
  <2> HIDE DEF s
  <2> QED
    BY <2>1, <2>2 DEF SessionsOfScreen
<1>3. ASSUME NEW s \in SessionsOfScreen, NEW n \in 0 .. 2
      PROVE  LET t == [s EXCEPT !.state = "waits", !.streak = n] IN
             t \in SessionsOfScreen /\ t.display = s.display /\ t.current = s.current
  <2> DEFINE u == [s EXCEPT !.state = "waits"]
  <2>1. u \in SessionsOfScreen /\ u.display = s.display /\ u.current = s.current
    BY DEF SessionsOfScreen
  <2>2. [s EXCEPT !.state = "waits", !.streak = n] = [u EXCEPT !.streak = n]
    OBVIOUS
  <2> HIDE DEF u
  <2>3. /\ [u EXCEPT !.streak = n] \in SessionsOfScreen
        /\ [u EXCEPT !.streak = n].display = u.display
        /\ [u EXCEPT !.streak = n].current = u.current
    BY <2>1 DEF SessionsOfScreen
  <2> QED
    BY <2>1, <2>2, <2>3
<1> QED
  BY <1>1, <1>2, <1>3

\* The transitions of the status give a status.
LEMMA StatusesFit ==
    /\ Screen!Starting \in StatusesOfScreen /\ Screen!BecomesReady \in StatusesOfScreen
    /\ \A c \in StatusesOfScreen :
         /\ Screen!Fails(c) \in StatusesOfScreen /\ Screen!Awaits(c) \in StatusesOfScreen
         /\ Screen!Fails(c).blocked = c.blocked
         /\ [c EXCEPT !.life = "Restarting"] \in StatusesOfScreen
         /\ \A n \in 0 .. 4, b \in 0 .. 2 :
              [c EXCEPT !.failures = n, !.blocked = b] \in StatusesOfScreen
<1>1. /\ Screen!Starting \in StatusesOfScreen /\ Screen!BecomesReady \in StatusesOfScreen
  BY DEF Screen!Starting, Screen!BecomesReady, StatusesOfScreen
<1>2. ASSUME NEW c \in StatusesOfScreen
      PROVE  /\ Screen!Fails(c) \in StatusesOfScreen /\ Screen!Fails(c).blocked = c.blocked
             /\ Screen!Awaits(c) \in StatusesOfScreen
             /\ [c EXCEPT !.life = "Restarting"] \in StatusesOfScreen
  BY DEF Screen!Fails, Screen!Awaits, StatusesOfScreen
<1>3. ASSUME NEW c \in StatusesOfScreen, NEW n \in 0 .. 4, NEW b \in 0 .. 2
      PROVE  [c EXCEPT !.failures = n, !.blocked = b] \in StatusesOfScreen
  <2> DEFINE d == [c EXCEPT !.failures = n]
  <2>1. d \in StatusesOfScreen
    BY DEF StatusesOfScreen
  <2>2. [c EXCEPT !.failures = n, !.blocked = b] = [d EXCEPT !.blocked = b]
    OBVIOUS
  <2> HIDE DEF d
  <2> QED
    BY <2>1, <2>2 DEF StatusesOfScreen
<1> QED
  BY <1>1, <1>2, <1>3

\* What is known of the capture is kept by every step.
LEMMA ScreenKept == ScreenInv /\ Screen!Next => ScreenInv'
<1> SUFFICES ASSUME ScreenInv, Screen!Next PROVE ScreenInv'
  OBVIOUS
<1>a. SettingsOK /\ SessionOK /\ FramesOK /\ StatusOK /\ SessionHasDisplay /\ CaptureIsOfSelected /\ SeenIsOfSelected
  BY DEF ScreenInv, Screen!TypeOK, SettingsOK, SessionOK, FramesOK, StatusOK,
     SessionsOfScreen, StatusesOfScreen
<1>b. /\ Nothing \notin Displays /\ HdrDisplays \subseteq Displays
      /\ ScreenTroubles \in Nat /\ Clicks \in Nat
  BY DevicesAssumption DEF Screen!CaptureAssumption
<1>c. /\ Screen!NoFrame.display = Nothing
      /\ \A f \in Screen!Frames : f # Screen!NoFrame /\ f.display \in Displays
      /\ \A d \in Displays, s \in Screen!Showing :
           /\ [display |-> d, showing |-> s] \in Screen!Frames
           /\ [display |-> d, showing |-> s].display = d
  BY <1>b DEF Screen!Frames, Screen!NoFrame
<1>1. CASE Screen!Shows
  <2>1. SettingsOK'
    BY <1>a, <1>b, <1>c, <1>1 DEF Screen!Shows, Screen!Trouble, Screen!Alive, SettingsOK
  <2>2. SessionOK'
    BY <1>a, <1>b, <1>c, <1>1 DEF Screen!Shows, Screen!Trouble, Screen!Alive, SessionOK,
       SessionsOfScreen
  <2>3. FramesOK'
    BY <1>a, <1>b, <1>c, <1>1 DEF Screen!Shows, Screen!Trouble, Screen!Alive, FramesOK
  <2>4. StatusOK'
    BY <1>a, <1>b, <1>c, <1>1 DEF Screen!Shows, Screen!Trouble, Screen!Alive, StatusOK,
       StatusesOfScreen
  <2>5. SessionHasDisplay'
    BY <1>a, <1>b, <1>c, <1>1 DEF Screen!Shows, Screen!Trouble, Screen!Alive,
       SessionHasDisplay
  <2>6. CaptureIsOfSelected'
    BY <1>a, <1>b, <1>c, <1>1 DEF Screen!Shows, Screen!Trouble, Screen!Alive,
       CaptureIsOfSelected, SessionHasDisplay, SeenIsOfSelected
  <2>7. SeenIsOfSelected'
    BY <1>a, <1>b, <1>c, <1>1 DEF Screen!Shows, Screen!Trouble, Screen!Alive,
       CaptureIsOfSelected, SeenIsOfSelected
  <2> QED
    BY <2>1, <2>2, <2>3, <2>4, <2>5, <2>6, <2>7 DEF ScreenInv, Screen!TypeOK,
       SessionsOfScreen, StatusesOfScreen, SettingsOK, SessionOK, FramesOK, StatusOK
<1>2. CASE Screen!Detach
  <2>1. SettingsOK'
    BY <1>a, <1>b, <1>c, <1>2 DEF Screen!Detach, Screen!Trouble, Screen!Alive, SettingsOK
  <2>2. SessionOK'
    BY <1>a, <1>b, <1>c, <1>2 DEF Screen!Detach, Screen!Trouble, Screen!Alive,
       SessionOK, SessionsOfScreen
  <2>3. FramesOK'
    BY <1>a, <1>b, <1>c, <1>2 DEF Screen!Detach, Screen!Trouble, Screen!Alive, FramesOK
  <2>4. StatusOK'
    BY <1>a, <1>b, <1>c, <1>2 DEF Screen!Detach, Screen!Trouble, Screen!Alive, StatusOK,
       StatusesOfScreen
  <2>5. SessionHasDisplay'
    BY <1>a, <1>b, <1>c, <1>2 DEF Screen!Detach, Screen!Trouble, Screen!Alive,
       SessionHasDisplay
  <2>6. CaptureIsOfSelected'
    BY <1>a, <1>b, <1>c, <1>2 DEF Screen!Detach, Screen!Trouble, Screen!Alive,
       CaptureIsOfSelected, SessionHasDisplay, SeenIsOfSelected
  <2>7. SeenIsOfSelected'
    BY <1>a, <1>b, <1>c, <1>2 DEF Screen!Detach, Screen!Trouble, Screen!Alive,
       CaptureIsOfSelected, SeenIsOfSelected
  <2> QED
    BY <2>1, <2>2, <2>3, <2>4, <2>5, <2>6, <2>7 DEF ScreenInv, Screen!TypeOK,
       SessionsOfScreen, StatusesOfScreen, SettingsOK, SessionOK, FramesOK, StatusOK
<1>3. CASE Screen!Attach
  <2>1. SettingsOK'
    BY <1>a, <1>b, <1>c, <1>3 DEF Screen!Attach, SettingsOK
  <2>2. SessionOK'
    BY <1>a, <1>b, <1>c, <1>3 DEF Screen!Attach, SessionOK, SessionsOfScreen
  <2>3. FramesOK'
    BY <1>a, <1>b, <1>c, <1>3 DEF Screen!Attach, FramesOK
  <2>4. StatusOK'
    BY <1>a, <1>b, <1>c, <1>3 DEF Screen!Attach, StatusOK, StatusesOfScreen
  <2>5. SessionHasDisplay'
    BY <1>a, <1>b, <1>c, <1>3 DEF Screen!Attach, SessionHasDisplay
  <2>6. CaptureIsOfSelected'
    BY <1>a, <1>b, <1>c, <1>3 DEF Screen!Attach, CaptureIsOfSelected, SessionHasDisplay,
       SeenIsOfSelected
  <2>7. SeenIsOfSelected'
    BY <1>a, <1>b, <1>c, <1>3 DEF Screen!Attach, CaptureIsOfSelected, SeenIsOfSelected
  <2> QED
    BY <2>1, <2>2, <2>3, <2>4, <2>5, <2>6, <2>7 DEF ScreenInv, Screen!TypeOK,
       SessionsOfScreen, StatusesOfScreen, SettingsOK, SessionOK, FramesOK, StatusOK
<1>4. CASE Screen!FrameArrives
  <2>1. SettingsOK'
    BY <1>a, <1>b, <1>c, <1>4 DEF Screen!FrameArrives, Screen!outside, SettingsOK
  <2>2. SessionOK'
    <3>1. session.display \in Displays
      BY <1>a, <1>4 DEF Screen!FrameArrives, SessionHasDisplay
    <3>2. world.showing[session.display] \in Screen!Showing
      BY <1>a, <3>1 DEF SettingsOK
    <3> DEFINE s == [session EXCEPT !.state = "works", !.due = FALSE]
    <3>3. /\ s \in SessionsOfScreen
          /\ \/ session' = [s EXCEPT !.fresh = FALSE,
                                     !.got = world.showing[session.display]]
             \/ session' = [session EXCEPT !.fresh = FALSE]
      BY <1>a, <1>4 DEF Screen!FrameArrives, SessionOK, SessionsOfScreen
    <3> HIDE DEF s
    <3>4. CASE session' = [session EXCEPT !.fresh = FALSE]
      BY <1>a, <3>4 DEF SessionOK, SessionsOfScreen
    <3>5. CASE session' = [s EXCEPT !.fresh = FALSE,
                                   !.got = world.showing[session.display]]
      <4> DEFINE u == [s EXCEPT !.fresh = FALSE]
      <4>1. u \in SessionsOfScreen
        BY <3>3 DEF SessionsOfScreen
      <4>2. session' = [u EXCEPT !.got = world.showing[session.display]]
        BY <3>5
      <4> HIDE DEF u
      <4> QED
        BY <3>2, <4>1, <4>2 DEF SessionOK, SessionsOfScreen
    <3> QED
      BY <3>3, <3>4, <3>5
  <2>3. FramesOK'
    BY <1>a, <1>b, <1>c, <1>4 DEF Screen!FrameArrives, Screen!outside, FramesOK
  <2>4. StatusOK'
    BY <1>a, <1>b, <1>c, <1>4 DEF Screen!FrameArrives, Screen!outside, StatusOK,
       StatusesOfScreen
  <2>5. SessionHasDisplay'
    BY <1>a, <1>b, <1>c, <1>4 DEF Screen!FrameArrives, Screen!outside, SessionHasDisplay
  <2>6. CaptureIsOfSelected'
    BY <1>a, <1>b, <1>c, <1>4 DEF Screen!FrameArrives, Screen!outside,
       CaptureIsOfSelected, SessionHasDisplay, SeenIsOfSelected
  <2>7. SeenIsOfSelected'
    BY <1>a, <1>b, <1>c, <1>4 DEF Screen!FrameArrives, Screen!outside,
       CaptureIsOfSelected, SeenIsOfSelected
  <2> QED
    BY <2>1, <2>2, <2>3, <2>4, <2>5, <2>6, <2>7 DEF ScreenInv, Screen!TypeOK,
       SessionsOfScreen, StatusesOfScreen, SettingsOK, SessionOK, FramesOK, StatusOK
<1>5. CASE Screen!FrameIsKept
  <2>a. session.display \in Displays /\ session.got \in Screen!Showing
    BY <1>a, <1>5 DEF Screen!FrameIsKept, SessionOK, SessionsOfScreen, SessionHasDisplay
  <2>b. /\ session' \in SessionsOfScreen
        /\ session'.display = session.display /\ session'.current = session.current
    <3>1. \/ session' = [session EXCEPT !.state = "waits", !.streak = 0]
          \/ session' = [session EXCEPT !.state = "waits"]
      BY <1>5 DEF Screen!FrameIsKept
    <3>2. CASE session' = [session EXCEPT !.state = "waits", !.streak = 0]
      <4>1. 0 \in 0 .. 2 /\ session \in SessionsOfScreen
        BY <1>a DEF SessionOK
      <4> QED
        BY <3>2, <4>1, SessionsFit DEF SessionOK
    <3>3. CASE session' = [session EXCEPT !.state = "waits"]
      BY <1>a, <3>3 DEF SessionOK, SessionsOfScreen
    <3> QED
      BY <3>1, <3>2, <3>3
  <2>c. \/ /\ session.current /\ failure' \in BOOLEAN
           /\ screenLatest' \in Screen!Frames /\ screenLatest'.display = session.display
        \/ screenLatest' = Screen!NoFrame /\ failure' \in BOOLEAN
        \/ UNCHANGED <<screenLatest, failure>>
    BY <1>c, <2>a, <1>5 DEF Screen!FrameIsKept
  <2>d. /\ UNCHANGED <<world, stored, selected, hdr, screenSetting, screenTroubles, clicks>>
        /\ UNCHANGED <<screenOwner, checks, screenComponent, shown, screenReady>>
    BY <1>5 DEF Screen!FrameIsKept, Screen!outside
  <2>1. SettingsOK'
    BY <1>a, <1>b, <1>c, <2>a, <2>b, <2>c, <2>d DEF SettingsOK
  <2>2. SessionOK'
    BY <1>a, <1>b, <1>c, <2>a, <2>b, <2>c, <2>d DEF SessionOK, SessionsOfScreen
  <2>3. FramesOK'
    BY <1>a, <1>b, <1>c, <2>a, <2>b, <2>c, <2>d DEF FramesOK
  <2>4. StatusOK'
    BY <1>a, <1>b, <1>c, <2>a, <2>b, <2>c, <2>d DEF StatusOK, StatusesOfScreen
  <2>5. SessionHasDisplay'
    BY <1>a, <1>b, <1>c, <2>a, <2>b, <2>c, <2>d DEF SessionHasDisplay
  <2>6. CaptureIsOfSelected'
    BY <1>a, <1>b, <1>c, <2>a, <2>b, <2>c, <2>d DEF CaptureIsOfSelected,
       SessionHasDisplay, SeenIsOfSelected
  <2>7. SeenIsOfSelected'
    BY <1>a, <1>b, <1>c, <2>a, <2>b, <2>c, <2>d DEF CaptureIsOfSelected, SeenIsOfSelected
  <2> QED
    BY <2>1, <2>2, <2>3, <2>4, <2>5, <2>6, <2>7 DEF ScreenInv, Screen!TypeOK,
       SessionsOfScreen, StatusesOfScreen, SettingsOK, SessionOK, FramesOK, StatusOK
<1>6. CASE Screen!FrameIsDropped
  <2>a. session.display \in Displays /\ session.got \in Screen!Showing
    BY <1>a, <1>6 DEF Screen!FrameIsDropped, SessionOK, SessionsOfScreen,
       SessionHasDisplay
  <2>b. /\ session' \in SessionsOfScreen
        /\ session'.display = session.display /\ session'.current = session.current
    <3>1. session.streak \in 0 .. 2
      BY <1>a DEF SessionOK, SessionsOfScreen
    <3>2. CASE session.streak < 2
      <4> DEFINE n == session.streak + 1
      <4>1. session' = [session EXCEPT !.state = "waits", !.streak = n]
        BY <3>2, <1>6 DEF Screen!FrameIsDropped
      <4>2. n \in 0 .. 2
        BY <3>1, <3>2
      <4> HIDE DEF n
      <4> QED
        BY <1>a, <4>1, <4>2, SessionsFit DEF SessionOK
    <3>3. CASE ~(session.streak < 2)
      <4>1. session' = [session EXCEPT !.state = "ended"]
        BY <3>3, <1>6 DEF Screen!FrameIsDropped
      <4> QED
        BY <1>a, <4>1 DEF SessionOK, SessionsOfScreen
    <3> QED
      BY <3>2, <3>3
  <2>c. \/ /\ session.current /\ failure' \in BOOLEAN
           /\ screenLatest' \in Screen!Frames /\ screenLatest'.display = session.display
        \/ screenLatest' = Screen!NoFrame /\ failure' \in BOOLEAN
        \/ UNCHANGED <<screenLatest, failure>>
    BY <1>c, <2>a, <1>6 DEF Screen!FrameIsDropped, Screen!RecordFailure
  <2>d. /\ UNCHANGED <<world, stored, selected, hdr, screenSetting, screenTroubles, clicks>>
        /\ UNCHANGED <<screenOwner, checks, screenComponent, shown, screenReady>>
    BY <1>6 DEF Screen!FrameIsDropped, Screen!outside
  <2>1. SettingsOK'
    BY <1>a, <1>b, <1>c, <2>a, <2>b, <2>c, <2>d DEF SettingsOK
  <2>2. SessionOK'
    BY <1>a, <1>b, <1>c, <2>a, <2>b, <2>c, <2>d DEF SessionOK, SessionsOfScreen
  <2>3. FramesOK'
    BY <1>a, <1>b, <1>c, <2>a, <2>b, <2>c, <2>d DEF FramesOK
  <2>4. StatusOK'
    BY <1>a, <1>b, <1>c, <2>a, <2>b, <2>c, <2>d DEF StatusOK, StatusesOfScreen
  <2>5. SessionHasDisplay'
    BY <1>a, <1>b, <1>c, <2>a, <2>b, <2>c, <2>d DEF SessionHasDisplay
  <2>6. CaptureIsOfSelected'
    BY <1>a, <1>b, <1>c, <2>a, <2>b, <2>c, <2>d DEF CaptureIsOfSelected,
       SessionHasDisplay, SeenIsOfSelected
  <2>7. SeenIsOfSelected'
    BY <1>a, <1>b, <1>c, <2>a, <2>b, <2>c, <2>d DEF CaptureIsOfSelected, SeenIsOfSelected
  <2> QED
    BY <2>1, <2>2, <2>3, <2>4, <2>5, <2>6, <2>7 DEF ScreenInv, Screen!TypeOK,
       SessionsOfScreen, StatusesOfScreen, SettingsOK, SessionOK, FramesOK, StatusOK
<1>7. CASE Screen!Closed
  <2>a. session.display \in Displays /\ session.got \in Screen!Showing
    BY <1>a, <1>7 DEF Screen!Closed, SessionOK, SessionsOfScreen, SessionHasDisplay
  <2>b. /\ session' \in SessionsOfScreen
        /\ session'.display = session.display /\ session'.current = session.current
    BY <1>a, <1>7 DEF Screen!Closed, SessionOK, SessionsOfScreen
  <2>c. \/ /\ session.current /\ failure' \in BOOLEAN
           /\ screenLatest' \in Screen!Frames /\ screenLatest'.display = session.display
        \/ screenLatest' = Screen!NoFrame /\ failure' \in BOOLEAN
        \/ UNCHANGED <<screenLatest, failure>>
    BY <1>c, <2>a, <1>7 DEF Screen!Closed, Screen!RecordFailure
  <2>d. /\ UNCHANGED <<world, stored, selected, hdr, screenSetting, screenTroubles, clicks>>
        /\ UNCHANGED <<screenOwner, checks, screenComponent, shown, screenReady>>
    BY <1>7 DEF Screen!Closed, Screen!outside
  <2>1. SettingsOK'
    BY <1>a, <1>b, <1>c, <2>a, <2>b, <2>c, <2>d DEF SettingsOK
  <2>2. SessionOK'
    BY <1>a, <1>b, <1>c, <2>a, <2>b, <2>c, <2>d DEF SessionOK, SessionsOfScreen
  <2>3. FramesOK'
    BY <1>a, <1>b, <1>c, <2>a, <2>b, <2>c, <2>d DEF FramesOK
  <2>4. StatusOK'
    BY <1>a, <1>b, <1>c, <2>a, <2>b, <2>c, <2>d DEF StatusOK, StatusesOfScreen
  <2>5. SessionHasDisplay'
    BY <1>a, <1>b, <1>c, <2>a, <2>b, <2>c, <2>d DEF SessionHasDisplay
  <2>6. CaptureIsOfSelected'
    BY <1>a, <1>b, <1>c, <2>a, <2>b, <2>c, <2>d DEF CaptureIsOfSelected,
       SessionHasDisplay, SeenIsOfSelected
  <2>7. SeenIsOfSelected'
    BY <1>a, <1>b, <1>c, <2>a, <2>b, <2>c, <2>d DEF CaptureIsOfSelected, SeenIsOfSelected
  <2> QED
    BY <2>1, <2>2, <2>3, <2>4, <2>5, <2>6, <2>7 DEF ScreenInv, Screen!TypeOK,
       SessionsOfScreen, StatusesOfScreen, SettingsOK, SessionOK, FramesOK, StatusOK
<1>8. CASE Screen!Dies
  <2>1. SettingsOK'
    BY <1>a, <1>b, <1>c, <1>8 DEF Screen!Dies, Screen!Trouble, SettingsOK
  <2>2. SessionOK'
    BY <1>a, <1>b, <1>c, <1>8 DEF Screen!Dies, Screen!Trouble, SessionOK, SessionsOfScreen
  <2>3. FramesOK'
    BY <1>a, <1>b, <1>c, <1>8 DEF Screen!Dies, Screen!Trouble, FramesOK
  <2>4. StatusOK'
    BY <1>a, <1>b, <1>c, <1>8 DEF Screen!Dies, Screen!Trouble, StatusOK, StatusesOfScreen
  <2>5. SessionHasDisplay'
    BY <1>a, <1>b, <1>c, <1>8 DEF Screen!Dies, Screen!Trouble, SessionHasDisplay
  <2>6. CaptureIsOfSelected'
    BY <1>a, <1>b, <1>c, <1>8 DEF Screen!Dies, Screen!Trouble, CaptureIsOfSelected,
       SessionHasDisplay, SeenIsOfSelected
  <2>7. SeenIsOfSelected'
    BY <1>a, <1>b, <1>c, <1>8 DEF Screen!Dies, Screen!Trouble, CaptureIsOfSelected,
       SeenIsOfSelected
  <2> QED
    BY <2>1, <2>2, <2>3, <2>4, <2>5, <2>6, <2>7 DEF ScreenInv, Screen!TypeOK,
       SessionsOfScreen, StatusesOfScreen, SettingsOK, SessionOK, FramesOK, StatusOK
<1>9. CASE Screen!Restarted
  <2>a. /\ screenLatest' = Screen!NoFrame /\ failure' = FALSE
        /\ shown' = Screen!NoFrame /\ screenReady' = FALSE
        /\ screenOwner' = [Screen!Idle EXCEPT !.at = screenOwner.back]
        /\ UNCHANGED <<world, stored, selected, hdr, screenSetting, checks, clicks>>
    BY <1>9 DEF Screen!Restarted, Screen!Stopped
  <2>b. /\ screenOwner'.at \in {"idle", "look"} /\ screenOwner'.seen = Screen!NoFrame
        /\ screenOwner'.back = "idle" /\ screenOwner'.automatic = FALSE
    BY <1>a, <2>a DEF Screen!Idle, FramesOK
  <2>c. /\ \/ session' = Screen!NoSession
           \/ selected \in world.attached /\ session' = Screen!Session(selected)
        /\ \/ screenTroubles' = screenTroubles
           \/ Screen!Trouble
    BY <1>9 DEF Screen!Restarted, Screen!StartRefused
  <2>d. screenComponent' \in StatusesOfScreen
    <3>1. CASE ~Screen!StartRefused
      BY <1>a, <3>1, <1>9, StatusesFit DEF Screen!Restarted, StatusOK
    <3>2. CASE Screen!StartRefused
      <4> DEFINE f == IF screenComponent.failures < 4 THEN screenComponent.failures + 1
                                                     ELSE screenComponent.failures
                 c == Screen!Fails(screenComponent)
      <4>0. screenComponent.failures \in 0 .. 4 /\ screenComponent.blocked \in 0 .. 2
        BY <1>a DEF StatusOK, StatusesOfScreen
      <4>1. /\ f \in 0 .. 4 /\ c.blocked \in 0 .. 2 /\ c \in StatusesOfScreen
        <5>1. f \in 0 .. 4
          BY <4>0
        <5>2. c \in StatusesOfScreen /\ c.blocked = screenComponent.blocked
          BY <1>a, StatusesFit DEF StatusOK
        <5> QED
          BY <4>0, <5>1, <5>2
      <4>2. screenComponent' = [c EXCEPT !.failures = f,
              !.blocked = IF screenOwner.automatic THEN Screen!BackOff(f) ELSE c.blocked]
        BY <3>2 DEF Screen!StartRefused
      <4>3. (IF screenOwner.automatic THEN Screen!BackOff(f) ELSE c.blocked) \in 0 .. 2
        BY <4>1 DEF Screen!BackOff
      <4> HIDE DEF f, c
      <4> QED
        BY <4>1, <4>2, <4>3, StatusesFit
    <3> QED
      BY <3>1, <3>2
  <2>e. screenTroubles' \in 0 .. ScreenTroubles
    BY <1>a, <1>b, <2>c DEF SettingsOK, Screen!Trouble
  <2>f. /\ session' \in SessionsOfScreen
        /\ \/ session'.state = "none" /\ ~session'.current
           \/ selected \in Displays /\ session'.display = selected
    <3>1. selected \in world.attached => selected \in Displays
      BY <1>a DEF SettingsOK
    <3> QED
      BY <2>c, <3>1, SessionsFit
  <2>1. SettingsOK'
    BY <1>a, <1>b, <1>c, <2>a, <2>b, <2>d, <2>e, <2>f DEF SettingsOK
  <2>2. SessionOK'
    BY <1>a, <1>b, <1>c, <2>a, <2>b, <2>d, <2>e, <2>f DEF SessionOK, SessionsOfScreen
  <2>3. FramesOK'
    BY <1>a, <1>b, <1>c, <2>a, <2>b, <2>d, <2>e, <2>f DEF FramesOK
  <2>4. StatusOK'
    BY <1>a, <1>b, <1>c, <2>a, <2>b, <2>d, <2>e, <2>f DEF StatusOK, StatusesOfScreen
  <2>5. SessionHasDisplay'
    BY <1>a, <1>b, <1>c, <2>a, <2>b, <2>d, <2>e, <2>f DEF SessionHasDisplay
  <2>6. CaptureIsOfSelected'
    BY <1>a, <1>b, <1>c, <2>a, <2>b, <2>d, <2>e, <2>f DEF CaptureIsOfSelected,
       SessionHasDisplay, SeenIsOfSelected
  <2>7. SeenIsOfSelected'
    BY <1>a, <1>b, <1>c, <2>a, <2>b, <2>d, <2>e, <2>f DEF CaptureIsOfSelected,
       SeenIsOfSelected
  <2> QED
    BY <2>1, <2>2, <2>3, <2>4, <2>5, <2>6, <2>7 DEF ScreenInv, Screen!TypeOK,
       SessionsOfScreen, StatusesOfScreen, SettingsOK, SessionOK, FramesOK, StatusOK
<1>10. CASE Screen!Select
  <2>1. SettingsOK'
    BY <1>a, <1>b, <1>c, <1>10 DEF Screen!Select, Screen!Begins, Screen!Idle,
       Screen!Command, Screen!outside, Screen!capture, SettingsOK
  <2>2. SessionOK'
    BY <1>a, <1>b, <1>c, <1>10 DEF Screen!Select, Screen!Begins, Screen!Idle,
       Screen!Command, Screen!outside, Screen!capture, SessionOK, SessionsOfScreen
  <2>3. FramesOK'
    BY <1>a, <1>b, <1>c, <1>10 DEF Screen!Select, Screen!Begins, Screen!Idle,
       Screen!Command, Screen!outside, Screen!capture, FramesOK
  <2>4. StatusOK'
    BY <1>a, <1>b, <1>c, <1>10 DEF Screen!Select, Screen!Begins, Screen!Idle,
       Screen!Command, Screen!outside, Screen!capture, StatusOK, StatusesOfScreen
  <2>5. SessionHasDisplay'
    BY <1>a, <1>b, <1>c, <1>10 DEF Screen!Select, Screen!Begins, Screen!Idle,
       Screen!Command, Screen!outside, Screen!capture, SessionHasDisplay
  <2>6. CaptureIsOfSelected'
    BY <1>a, <1>b, <1>c, <1>10 DEF Screen!Select, Screen!Begins, Screen!Idle,
       Screen!Command, Screen!outside, Screen!capture, CaptureIsOfSelected,
       SessionHasDisplay, SeenIsOfSelected
  <2>7. SeenIsOfSelected'
    BY <1>a, <1>b, <1>c, <1>10 DEF Screen!Select, Screen!Begins, Screen!Idle,
       Screen!Command, Screen!outside, Screen!capture, CaptureIsOfSelected,
       SeenIsOfSelected
  <2> QED
    BY <2>1, <2>2, <2>3, <2>4, <2>5, <2>6, <2>7 DEF ScreenInv, Screen!TypeOK,
       SessionsOfScreen, StatusesOfScreen, SettingsOK, SessionOK, FramesOK, StatusOK
<1>11. CASE Screen!Restart
  <2>1. SettingsOK'
    BY <1>a, <1>b, <1>c, <1>11 DEF Screen!Restart, Screen!Begins, Screen!Idle,
       Screen!Command, Screen!outside, Screen!capture, SettingsOK
  <2>2. SessionOK'
    BY <1>a, <1>b, <1>c, <1>11 DEF Screen!Restart, Screen!Begins, Screen!Idle,
       Screen!Command, Screen!outside, Screen!capture, SessionOK, SessionsOfScreen
  <2>3. FramesOK'
    BY <1>a, <1>b, <1>c, <1>11 DEF Screen!Restart, Screen!Begins, Screen!Idle,
       Screen!Command, Screen!outside, Screen!capture, FramesOK
  <2>4. StatusOK'
    BY <1>a, <1>b, <1>c, <1>11 DEF Screen!Restart, Screen!Begins, Screen!Idle,
       Screen!Command, Screen!outside, Screen!capture, StatusOK, StatusesOfScreen
  <2>5. SessionHasDisplay'
    BY <1>a, <1>b, <1>c, <1>11 DEF Screen!Restart, Screen!Begins, Screen!Idle,
       Screen!Command, Screen!outside, Screen!capture, SessionHasDisplay
  <2>6. CaptureIsOfSelected'
    BY <1>a, <1>b, <1>c, <1>11 DEF Screen!Restart, Screen!Begins, Screen!Idle,
       Screen!Command, Screen!outside, Screen!capture, CaptureIsOfSelected,
       SessionHasDisplay, SeenIsOfSelected
  <2>7. SeenIsOfSelected'
    BY <1>a, <1>b, <1>c, <1>11 DEF Screen!Restart, Screen!Begins, Screen!Idle,
       Screen!Command, Screen!outside, Screen!capture, CaptureIsOfSelected,
       SeenIsOfSelected
  <2> QED
    BY <2>1, <2>2, <2>3, <2>4, <2>5, <2>6, <2>7 DEF ScreenInv, Screen!TypeOK,
       SessionsOfScreen, StatusesOfScreen, SettingsOK, SessionOK, FramesOK, StatusOK
<1>12. CASE Screen!ToggleRecovery
  <2>1. SettingsOK'
    <3>1. /\ UNCHANGED <<world, stored, screenTroubles, selected, hdr>>
          /\ clicks < Clicks /\ clicks' = clicks + 1
      BY <1>12 DEF Screen!ToggleRecovery, Screen!Command
    <3>2. PICK b \in BOOLEAN : screenSetting' = [screenSetting EXCEPT !.recover = b]
      BY <1>12 DEF Screen!ToggleRecovery
    <3> QED
      BY <1>a, <1>b, <3>1, <3>2 DEF SettingsOK
  <2>2. SessionOK'
    BY <1>a, <1>b, <1>c, <1>12 DEF Screen!ToggleRecovery, Screen!Command,
       Screen!capture, SessionOK, SessionsOfScreen
  <2>3. FramesOK'
    BY <1>a, <1>b, <1>c, <1>12 DEF Screen!ToggleRecovery, Screen!Command,
       Screen!capture, FramesOK
  <2>4. StatusOK'
    BY <1>a, <1>b, <1>c, <1>12 DEF Screen!ToggleRecovery, Screen!Command,
       Screen!capture, StatusOK, StatusesOfScreen
  <2>5. SessionHasDisplay'
    BY <1>a, <1>b, <1>c, <1>12 DEF Screen!ToggleRecovery, Screen!Command,
       Screen!capture, SessionHasDisplay
  <2>6. CaptureIsOfSelected'
    BY <1>a, <1>b, <1>c, <1>12 DEF Screen!ToggleRecovery, Screen!Command,
       Screen!capture, CaptureIsOfSelected, SessionHasDisplay, SeenIsOfSelected
  <2>7. SeenIsOfSelected'
    BY <1>a, <1>b, <1>c, <1>12 DEF Screen!ToggleRecovery, Screen!Command,
       Screen!capture, CaptureIsOfSelected, SeenIsOfSelected
  <2> QED
    BY <2>1, <2>2, <2>3, <2>4, <2>5, <2>6, <2>7 DEF ScreenInv, Screen!TypeOK,
       SessionsOfScreen, StatusesOfScreen, SettingsOK, SessionOK, FramesOK, StatusOK
<1>13. CASE Screen!SetMode
  <2>1. SettingsOK'
    <3>1. /\ UNCHANGED <<world, stored, screenTroubles, selected, hdr>>
          /\ clicks < Clicks /\ clicks' = clicks + 1
      BY <1>13 DEF Screen!SetMode, Screen!Command
    <3>2. PICK b \in BOOLEAN : screenSetting' = [screenSetting EXCEPT !.automatic = b]
      BY <1>13 DEF Screen!SetMode
    <3> QED
      BY <1>a, <1>b, <3>1, <3>2 DEF SettingsOK
  <2>2. SessionOK'
    BY <1>a, <1>b, <1>c, <1>13 DEF Screen!SetMode, Screen!Command, Screen!capture,
       SessionOK, SessionsOfScreen
  <2>3. FramesOK'
    BY <1>a, <1>b, <1>c, <1>13 DEF Screen!SetMode, Screen!Command, Screen!capture,
       FramesOK
  <2>4. StatusOK'
    BY <1>a, <1>b, <1>c, <1>13 DEF Screen!SetMode, Screen!Command, Screen!capture,
       StatusOK, StatusesOfScreen
  <2>5. SessionHasDisplay'
    BY <1>a, <1>b, <1>c, <1>13 DEF Screen!SetMode, Screen!Command, Screen!capture,
       SessionHasDisplay
  <2>6. CaptureIsOfSelected'
    BY <1>a, <1>b, <1>c, <1>13 DEF Screen!SetMode, Screen!Command, Screen!capture,
       CaptureIsOfSelected, SessionHasDisplay, SeenIsOfSelected
  <2>7. SeenIsOfSelected'
    BY <1>a, <1>b, <1>c, <1>13 DEF Screen!SetMode, Screen!Command, Screen!capture,
       CaptureIsOfSelected, SeenIsOfSelected
  <2> QED
    BY <2>1, <2>2, <2>3, <2>4, <2>5, <2>6, <2>7 DEF ScreenInv, Screen!TypeOK,
       SessionsOfScreen, StatusesOfScreen, SettingsOK, SessionOK, FramesOK, StatusOK
<1>14. CASE Screen!Cycle
  <2>a. /\ screenOwner.at = "idle"
        /\ UNCHANGED <<world, stored, screenTroubles, selected, hdr, screenSetting, clicks>>
        /\ UNCHANGED <<screenLatest, failure, shown, screenReady>>
    BY <1>14 DEF Screen!Cycle, Screen!outside
  <2>b. \/ /\ screenOwner'.at = "look" /\ screenOwner'.seen = Screen!NoFrame
           /\ screenOwner'.back = "idle" /\ screenOwner'.automatic = FALSE
           /\ UNCHANGED <<session, screenComponent>>
        \/ /\ screenOwner'.at = "joining" /\ screenOwner'.seen = Screen!NoFrame
           /\ screenOwner'.back \in {"idle", "look"} /\ screenOwner'.automatic \in BOOLEAN
           /\ session' = [session EXCEPT !.current = FALSE]
           /\ screenComponent' = [screenComponent EXCEPT !.life = "Restarting"]
    BY <1>14 DEF Screen!Cycle, Screen!Begins, Screen!Idle
  <2>c. \/ checks' = checks
        \/ \E n \in 0 .. 1 : checks' = [due |-> FALSE, failures |-> n]
    BY <1>14 DEF Screen!Cycle, Screen!Begins
  <2>d. /\ session' \in SessionsOfScreen /\ session'.display = session.display
        /\ session'.state = session.state /\ (session'.current => session.current)
        /\ screenOwner'.at = "joining" => ~session'.current
    BY <1>a, <2>b DEF SessionOK, SessionsOfScreen
  <2>1. SettingsOK'
    BY <1>a, <1>b, <1>c, <2>a, <2>b, <2>c, <2>d DEF SettingsOK
  <2>2. SessionOK'
    BY <1>a, <1>b, <1>c, <2>a, <2>b, <2>c, <2>d DEF SessionOK, SessionsOfScreen
  <2>3. FramesOK'
    BY <1>a, <1>b, <1>c, <2>a, <2>b, <2>c, <2>d DEF FramesOK
  <2>4. StatusOK'
    <3>1. checks' \in [due : BOOLEAN, failures : 0 .. 1]
      <4>1. \A n \in 0 .. 1 : [due |-> FALSE, failures |-> n] \in [due : BOOLEAN, failures : 0 .. 1]
        OBVIOUS
      <4>2. checks \in [due : BOOLEAN, failures : 0 .. 1]
        BY <1>a DEF StatusOK
      <4> QED
        BY <2>c, <4>1, <4>2
    <3>2. screenComponent' \in StatusesOfScreen
      BY <1>a, <2>b, StatusesFit DEF StatusOK
    <3> QED
      BY <3>1, <3>2 DEF StatusOK
  <2>5. SessionHasDisplay'
    BY <1>a, <1>b, <1>c, <2>a, <2>b, <2>c, <2>d DEF SessionHasDisplay
  <2>6. CaptureIsOfSelected'
    BY <1>a, <1>b, <1>c, <2>a, <2>b, <2>c, <2>d DEF CaptureIsOfSelected,
       SessionHasDisplay, SeenIsOfSelected
  <2>7. SeenIsOfSelected'
    BY <1>a, <1>b, <1>c, <2>a, <2>b, <2>c, <2>d DEF CaptureIsOfSelected, SeenIsOfSelected
  <2> QED
    BY <2>1, <2>2, <2>3, <2>4, <2>5, <2>6, <2>7 DEF ScreenInv, Screen!TypeOK,
       SessionsOfScreen, StatusesOfScreen, SettingsOK, SessionOK, FramesOK, StatusOK
<1>15. CASE Screen!Look
  <2>1. SettingsOK'
    BY <1>a, <1>b, <1>c, <1>15 DEF Screen!Look, Screen!Idle, Screen!outside,
       Screen!capture, SettingsOK
  <2>2. SessionOK'
    BY <1>a, <1>b, <1>c, <1>15 DEF Screen!Look, Screen!Idle, Screen!outside,
       Screen!capture, SessionOK, SessionsOfScreen
  <2>3. FramesOK'
    BY <1>a, <1>b, <1>c, <1>15 DEF Screen!Look, Screen!Idle, Screen!outside,
       Screen!capture, FramesOK
  <2>4. StatusOK'
    BY <1>a, <1>b, <1>c, <1>15 DEF Screen!Look, Screen!Idle, Screen!outside,
       Screen!capture, StatusOK, StatusesOfScreen
  <2>5. SessionHasDisplay'
    BY <1>a, <1>b, <1>c, <1>15 DEF Screen!Look, Screen!Idle, Screen!outside,
       Screen!capture, SessionHasDisplay
  <2>6. CaptureIsOfSelected'
    BY <1>a, <1>b, <1>c, <1>15 DEF Screen!Look, Screen!Idle, Screen!outside,
       Screen!capture, CaptureIsOfSelected, SessionHasDisplay, SeenIsOfSelected
  <2>7. SeenIsOfSelected'
    BY <1>a, <1>b, <1>c, <1>15 DEF Screen!Look, Screen!Idle, Screen!outside,
       Screen!capture, CaptureIsOfSelected, SeenIsOfSelected
  <2> QED
    BY <2>1, <2>2, <2>3, <2>4, <2>5, <2>6, <2>7 DEF ScreenInv, Screen!TypeOK,
       SessionsOfScreen, StatusesOfScreen, SettingsOK, SessionOK, FramesOK, StatusOK
<1>16. CASE Screen!Judge
  <2>a. /\ screenOwner.at = "judge" /\ screenOwner' = Screen!Idle
        /\ UNCHANGED <<world, stored, screenTroubles, selected, hdr, screenSetting, clicks>>
        /\ UNCHANGED <<session, checks>>
    BY <1>16 DEF Screen!Judge, Screen!outside
  <2>b. /\ screenOwner'.at = "idle" /\ screenOwner'.seen = Screen!NoFrame
        /\ screenOwner'.back = "idle" /\ screenOwner'.automatic = FALSE
    BY <2>a DEF Screen!Idle
  <2>c. \/ UNCHANGED <<screenLatest, failure>>
        \/ screenLatest' = Screen!NoFrame /\ failure' = TRUE
    BY <1>16 DEF Screen!Judge, Screen!LastError, Screen!RecordFailure
  <2>d. \/ shown' = Screen!NoFrame /\ screenReady' = FALSE
        \/ /\ shown' = screenOwner.seen
           /\ screenReady' = (screenOwner.seen # Screen!NoFrame)
    BY <1>16 DEF Screen!Judge
  <2>e. \/ screenComponent' = Screen!Fails(screenComponent)
        \/ screenComponent' = Screen!BecomesReady
        \/ screenComponent' = screenComponent
    BY <1>16 DEF Screen!Judge
  <2>1. SettingsOK'
    BY <1>a, <1>b, <1>c, <2>a, <2>b, <2>c, <2>d DEF SettingsOK
  <2>2. SessionOK'
    BY <1>a, <1>b, <1>c, <2>a, <2>b, <2>c, <2>d DEF SessionOK, SessionsOfScreen
  <2>3. FramesOK'
    <3>1. screenReady' \in BOOLEAN /\ failure' \in BOOLEAN
      BY <1>a, <2>c, <2>d DEF FramesOK
    <3>2. /\ shown' \in Screen!Frames \cup {Screen!NoFrame}
          /\ screenLatest' \in Screen!Frames \cup {Screen!NoFrame}
      BY <1>a, <2>c, <2>d DEF FramesOK
    <3> QED
      BY <2>b, <3>1, <3>2 DEF FramesOK
  <2>4. StatusOK'
    BY <1>a, <2>a, <2>e, StatusesFit DEF StatusOK
  <2>5. SessionHasDisplay'
    BY <1>a, <1>b, <1>c, <2>a, <2>b, <2>c, <2>d DEF SessionHasDisplay
  <2>6. CaptureIsOfSelected'
    BY <1>a, <1>b, <1>c, <2>a, <2>b, <2>c, <2>d DEF CaptureIsOfSelected,
       SessionHasDisplay, SeenIsOfSelected
  <2>7. SeenIsOfSelected'
    BY <1>a, <1>b, <1>c, <2>a, <2>b, <2>c, <2>d DEF CaptureIsOfSelected, SeenIsOfSelected
  <2> QED
    BY <2>1, <2>2, <2>3, <2>4, <2>5, <2>6, <2>7 DEF ScreenInv, Screen!TypeOK,
       SessionsOfScreen, StatusesOfScreen, SettingsOK, SessionOK, FramesOK, StatusOK
<1>17. CASE Screen!IntervalPasses
  <2>1. SettingsOK'
    BY <1>a, <1>b, <1>c, <1>17 DEF Screen!IntervalPasses, Screen!Alive, Screen!outside,
       SettingsOK
  <2>2. SessionOK'
    BY <1>a, <1>b, <1>c, <1>17 DEF Screen!IntervalPasses, Screen!Alive, Screen!outside,
       SessionOK, SessionsOfScreen
  <2>3. FramesOK'
    BY <1>a, <1>b, <1>c, <1>17 DEF Screen!IntervalPasses, Screen!Alive, Screen!outside,
       FramesOK
  <2>4. StatusOK'
    BY <1>a, <1>b, <1>c, <1>17 DEF Screen!IntervalPasses, Screen!Alive, Screen!outside,
       StatusOK, StatusesOfScreen
  <2>5. SessionHasDisplay'
    BY <1>a, <1>b, <1>c, <1>17 DEF Screen!IntervalPasses, Screen!Alive, Screen!outside,
       SessionHasDisplay
  <2>6. CaptureIsOfSelected'
    BY <1>a, <1>b, <1>c, <1>17 DEF Screen!IntervalPasses, Screen!Alive, Screen!outside,
       CaptureIsOfSelected, SessionHasDisplay, SeenIsOfSelected
  <2>7. SeenIsOfSelected'
    BY <1>a, <1>b, <1>c, <1>17 DEF Screen!IntervalPasses, Screen!Alive, Screen!outside,
       CaptureIsOfSelected, SeenIsOfSelected
  <2> QED
    BY <2>1, <2>2, <2>3, <2>4, <2>5, <2>6, <2>7 DEF ScreenInv, Screen!TypeOK,
       SessionsOfScreen, StatusesOfScreen, SettingsOK, SessionOK, FramesOK, StatusOK
<1>18. CASE Screen!DeadlinePasses
  <2>1. SettingsOK'
    BY <1>a, <1>b, <1>c, <1>18 DEF Screen!DeadlinePasses, Screen!outside,
       Screen!capture, SettingsOK
  <2>2. SessionOK'
    BY <1>a, <1>b, <1>c, <1>18 DEF Screen!DeadlinePasses, Screen!outside,
       Screen!capture, SessionOK, SessionsOfScreen
  <2>3. FramesOK'
    BY <1>a, <1>b, <1>c, <1>18 DEF Screen!DeadlinePasses, Screen!outside,
       Screen!capture, FramesOK
  <2>4. StatusOK'
    BY <1>a, <1>b, <1>c, <1>18 DEF Screen!DeadlinePasses, Screen!outside,
       Screen!capture, StatusOK, StatusesOfScreen
  <2>5. SessionHasDisplay'
    BY <1>a, <1>b, <1>c, <1>18 DEF Screen!DeadlinePasses, Screen!outside,
       Screen!capture, SessionHasDisplay
  <2>6. CaptureIsOfSelected'
    BY <1>a, <1>b, <1>c, <1>18 DEF Screen!DeadlinePasses, Screen!outside,
       Screen!capture, CaptureIsOfSelected, SessionHasDisplay, SeenIsOfSelected
  <2>7. SeenIsOfSelected'
    BY <1>a, <1>b, <1>c, <1>18 DEF Screen!DeadlinePasses, Screen!outside,
       Screen!capture, CaptureIsOfSelected, SeenIsOfSelected
  <2> QED
    BY <2>1, <2>2, <2>3, <2>4, <2>5, <2>6, <2>7 DEF ScreenInv, Screen!TypeOK,
       SessionsOfScreen, StatusesOfScreen, SettingsOK, SessionOK, FramesOK, StatusOK
<1>19. CASE Screen!HalfMinutePasses
  <2>1. SettingsOK'
    BY <1>a, <1>b, <1>c, <1>19 DEF Screen!HalfMinutePasses, Screen!Alive,
       Screen!outside, Screen!capture, SettingsOK
  <2>2. SessionOK'
    BY <1>a, <1>b, <1>c, <1>19 DEF Screen!HalfMinutePasses, Screen!Alive,
       Screen!outside, Screen!capture, SessionOK, SessionsOfScreen
  <2>3. FramesOK'
    BY <1>a, <1>b, <1>c, <1>19 DEF Screen!HalfMinutePasses, Screen!Alive,
       Screen!outside, Screen!capture, FramesOK
  <2>4. StatusOK'
    <3>1. screenComponent.blocked \in 0 .. 2
      BY <1>a DEF StatusOK, StatusesOfScreen
    <3> DEFINE b == IF screenComponent.blocked > 0 THEN screenComponent.blocked - 1 ELSE 0
    <3>2. b \in 0 .. 2 /\ screenComponent' = [screenComponent EXCEPT !.blocked = b]
      BY <3>1, <1>19 DEF Screen!HalfMinutePasses
    <3>3. checks' = [checks EXCEPT !.due = TRUE]
      BY <1>19 DEF Screen!HalfMinutePasses
    <3> HIDE DEF b
    <3>4. screenComponent' \in StatusesOfScreen
      BY <1>a, <3>2 DEF StatusOK, StatusesOfScreen
    <3> QED
      BY <1>a, <3>3, <3>4 DEF StatusOK
  <2>5. SessionHasDisplay'
    BY <1>a, <1>b, <1>c, <1>19 DEF Screen!HalfMinutePasses, Screen!Alive,
       Screen!outside, Screen!capture, SessionHasDisplay
  <2>6. CaptureIsOfSelected'
    BY <1>a, <1>b, <1>c, <1>19 DEF Screen!HalfMinutePasses, Screen!Alive,
       Screen!outside, Screen!capture, CaptureIsOfSelected, SessionHasDisplay,
       SeenIsOfSelected
  <2>7. SeenIsOfSelected'
    BY <1>a, <1>b, <1>c, <1>19 DEF Screen!HalfMinutePasses, Screen!Alive,
       Screen!outside, Screen!capture, CaptureIsOfSelected, SeenIsOfSelected
  <2> QED
    BY <2>1, <2>2, <2>3, <2>4, <2>5, <2>6, <2>7 DEF ScreenInv, Screen!TypeOK,
       SessionsOfScreen, StatusesOfScreen, SettingsOK, SessionOK, FramesOK, StatusOK
<1> QED
  BY <1>1, <1>2, <1>3, <1>4, <1>5, <1>6, <1>7, <1>8, <1>9, <1>10, <1>11, <1>12, <1>13,
     <1>14, <1>15, <1>16, <1>17, <1>18, <1>19 DEF Screen!Next

\* The capture's invariant, for any displays and number of troubles.
THEOREM ScreenInvariance == Screen!Spec => []ScreenInv
<1>1. ASSUME Screen!Init PROVE ScreenInv
  <2>a. /\ Nothing \notin Displays /\ ScreenTroubles \in Nat /\ Clicks \in Nat
    BY DevicesAssumption DEF Screen!CaptureAssumption
  <2>1. /\ world.attached = Displays
        /\ world \in [attached : SUBSET Displays, showing : [Displays -> Screen!Showing]]
        /\ stored \in Displays
        /\ screenSetting \in [recover : BOOLEAN, automatic : BOOLEAN]
        /\ screenLatest = Screen!NoFrame /\ failure = FALSE /\ shown = Screen!NoFrame
        /\ screenReady = FALSE /\ clicks = 0
        /\ checks = [due |-> FALSE, failures |-> 0]
    BY <1>1 DEF Screen!Init, Screen!Showing
  <2>2. /\ screenOwner.at = "idle" /\ screenOwner.back = "idle"
        /\ screenOwner.automatic = FALSE /\ screenOwner.seen = Screen!NoFrame
    BY <1>1 DEF Screen!Init, Screen!Idle
  <2>3. \/ /\ session = Screen!Session(stored) /\ selected = stored
           /\ hdr = (stored \in HdrDisplays) /\ screenTroubles = 0
           /\ screenComponent = Screen!Awaits(Screen!Starting)
        \/ /\ session = Screen!NoSession /\ selected = Nothing /\ hdr = FALSE
           /\ ScreenTroubles > 0 /\ screenTroubles = 1
           /\ screenComponent = Screen!Fails(Screen!Starting)
    BY <1>1 DEF Screen!Init
  <2>4. SessionOK
    BY <2>1, <2>3, SessionsFit DEF SessionOK
  <2>5. StatusOK
    <3>1. screenComponent \in StatusesOfScreen
      BY <2>3, StatusesFit
    <3>2. checks \in [due : BOOLEAN, failures : 0 .. 1]
      BY <2>1
    <3> QED
      BY <3>1, <3>2 DEF StatusOK
  <2>6. SettingsOK
    <3>1. hdr = TRUE \/ hdr = FALSE
      <4>1. CASE stored \in HdrDisplays
        BY <2>3, <4>1
      <4>2. CASE stored \notin HdrDisplays
        BY <2>3, <4>2
      <4> QED
        BY <4>1, <4>2
    <3>2. screenTroubles \in 0 .. ScreenTroubles /\ clicks \in 0 .. Clicks
      BY <2>a, <2>1, <2>3
    <3>3. selected \in Displays \cup {Nothing}
      BY <2>1, <2>3
    <3> QED
      BY <2>1, <3>1, <3>2, <3>3 DEF SettingsOK
  <2>7. FramesOK
    BY <2>1, <2>2 DEF FramesOK
  <2>8. Screen!TypeOK
    BY <2>4, <2>5, <2>6, <2>7 DEF Screen!TypeOK, SessionOK, StatusOK,
       SettingsOK, FramesOK, SessionsOfScreen, StatusesOfScreen
  <2>9. \/ session.display = stored /\ selected = stored
        \/ session.state = "none" /\ ~session.current
    BY <2>1, <2>3, SessionsFit
  <2> QED
    BY <2>1, <2>2, <2>8, <2>9
       DEF ScreenInv, SessionHasDisplay, CaptureIsOfSelected, SeenIsOfSelected
<1>2. ScreenInv /\ UNCHANGED Screen!vars => ScreenInv'
  BY DEF Screen!vars, Screen!outside, Screen!capture, ScreenInv, Screen!TypeOK,
     SessionHasDisplay, CaptureIsOfSelected, SeenIsOfSelected
<1> QED
  BY <1>1, <1>2, ScreenKept, PTL DEF Screen!Spec

\* What is published as the screen is of the selected display.
LEMMA ScreenIsSafe == ScreenInv => Screen!TypeOK /\ Screen!ShownIsSelected
  BY DEF ScreenInv, CaptureIsOfSelected, SeenIsOfSelected, Screen!ShownIsSelected

------------------------------------------------------------------------------
(***************************************************************************)
(* The recovery of the webcam (WebcamRecovery).                            *)
(***************************************************************************)

\* No frame grew old before the worker looked at it.
Unaged == seen # "old" /\ (webcamLatest = "old" => seen = "fresh")

\* A session is started by hand, or by an attempt that then waits for its first frame.
RunningIsAwaited ==
    webcamRunning = "yes" => recovery.active = "no" \/ recovery.waiting = "yes"

\* A failure that a retry cannot help ended its session.
FinalEndsSession ==
    webcamFailure = "final" => webcamRunning = "no" /\ webcamLatest = "none"

\* An attempt that waits for its frame has not seen one.
WaitingIsUnaged ==
    stalls = 0 /\ recovery.waiting = "yes" =>
        Unaged /\ lifecycle # "Ready" /\ recovery.active = "yes"

\* No frame grew old before its time, and nothing worse is going on than a late frame.
Undisturbed == stalls = 0 /\ faults \subseteq {"late frame"}

\* The tries are the attempts of the round; after a round that was given up nothing
\* is left that could begin another one.
TriesAreAttempts ==
    Undisturbed =>
        /\ tries <= MaxAttempts
        /\ recovery.active = "yes" => tries = recovery.attempts
        /\ recovery.active = "no" /\ tries > 0 =>
             /\ webcamRunning = "no" /\ webcamFailure = "none" /\ deadline = "none"
             /\ lifecycle # "Ready" /\ Unaged

\* A failure that a retry cannot help ended its session, and no attempt is pending.
FinalIsFinal ==
    stalls = 0 /\ "late failure" \notin faults =>
        /\ webcamFailure = "final" =>
             recovery.active = "no" \/ recovery.waiting = "yes"
        /\ kind = "final" =>
             /\ webcamRunning = "no" /\ webcamFailure # "retry" /\ deadline = "none"
             /\ lifecycle # "Ready" /\ Unaged
             /\ recovery.active = "no" \/ recovery.waiting = "yes"

\* Only the judgement of a cycle has a frame at hand.
SeenIsJudged == cycle # "judge" => seen = "none"

RecoveryInv ==
    /\ Webcam!TypeOK
    /\ SeenIsJudged
    /\ RunningIsAwaited
    /\ FinalEndsSession
    /\ WaitingIsUnaged
    /\ TriesAreAttempts
    /\ FinalIsFinal

\* What the operations on the recovery's record make of it.
LEMMA RecoveriesFit ==
    /\ Webcam!Idle \in Webcam!Recovery
    /\ Webcam!Idle.active = "no" /\ Webcam!Idle.waiting = "no"
    /\ \A r \in Webcam!Recovery :
         /\ Webcam!Scheduled(r) \in Webcam!Recovery
         /\ r.active = "yes" => Webcam!Scheduled(r) = r
         /\ r.active # "yes" => /\ Webcam!Scheduled(r).active = "yes"
                                /\ Webcam!Scheduled(r).attempts = 0
                                /\ Webcam!Scheduled(r).waiting = "no"
         /\ Webcam!Exhausted(r) \in Webcam!Recovery
         /\ Webcam!Exhausted(r).active = "no" /\ Webcam!Exhausted(r).waiting = "no"
         /\ Webcam!Exhausted(r).attempts = r.attempts
         /\ Webcam!AttemptFailed(r) \in Webcam!Recovery
         /\ Webcam!AttemptFailed(r).attempts = r.attempts
         /\ Webcam!AttemptFailed(r).waiting = "no"
         /\ Webcam!AttemptFailed(r).active =
              IF r.attempts >= MaxAttempts THEN "no" ELSE r.active
         /\ Webcam!AttemptStarted(r) \in Webcam!Recovery
         /\ Webcam!AttemptStarted(r).active = r.active
         /\ Webcam!AttemptStarted(r).waiting = "yes"
         /\ Webcam!AttemptStarted(r).attempts = r.attempts
         /\ r.attempts < MaxAttempts =>
              /\ Webcam!Begun(r) \in Webcam!Recovery
              /\ Webcam!Begun(r).active = r.active
              /\ Webcam!Begun(r).attempts = r.attempts + 1
<1>1. MaxAttempts \in Nat \ {0}
  BY DevicesAssumption DEF Webcam!AttemptsAssumption
<1>2. /\ Webcam!Idle \in Webcam!Recovery
      /\ Webcam!Idle.active = "no" /\ Webcam!Idle.waiting = "no"
      /\ Webcam!Idle.attempts = 0
  BY <1>1 DEF Webcam!Idle, Webcam!Recovery, Webcam!Timers
<1> SUFFICES ASSUME NEW r \in Webcam!Recovery PROVE RecoveriesFit!3!(r)
  BY <1>2
<1>3. /\ Webcam!Scheduled(r) \in Webcam!Recovery
      /\ r.active = "yes" => Webcam!Scheduled(r) = r
      /\ r.active # "yes" => /\ Webcam!Scheduled(r).active = "yes"
                             /\ Webcam!Scheduled(r).attempts = 0
                             /\ Webcam!Scheduled(r).waiting = "no"
  <2>1. CASE r.active = "yes"
    BY <2>1 DEF Webcam!Scheduled
  <2>2. CASE r.active # "yes"
    <3> DEFINE i == [Webcam!Idle EXCEPT !.active = "yes"]
    <3>1. i \in Webcam!Recovery /\ i.active = "yes" /\ i.attempts = 0 /\ i.waiting = "no"
      BY <1>2 DEF Webcam!Recovery
    <3>2. Webcam!Scheduled(r) = [i EXCEPT !.next = "later"]
      BY <2>2 DEF Webcam!Scheduled
    <3> HIDE DEF i
    <3> QED
      BY <2>2, <3>1, <3>2 DEF Webcam!Recovery, Webcam!Timers
  <2> QED
    BY <2>1, <2>2
<1>4. /\ Webcam!Exhausted(r) \in Webcam!Recovery
      /\ Webcam!Exhausted(r).active = "no" /\ Webcam!Exhausted(r).waiting = "no"
      /\ Webcam!Exhausted(r).attempts = r.attempts
  <2> DEFINE e == [r EXCEPT !.active = "no", !.waiting = "no"]
  <2>1. e \in Webcam!Recovery /\ e.active = "no" /\ e.waiting = "no" /\ e.attempts = r.attempts
    BY DEF Webcam!Recovery
  <2>2. Webcam!Exhausted(r) = [e EXCEPT !.next = "none"]
    BY DEF Webcam!Exhausted
  <2> HIDE DEF e
  <2> QED
    BY <2>1, <2>2 DEF Webcam!Recovery, Webcam!Timers
<1>5. /\ Webcam!AttemptFailed(r) \in Webcam!Recovery
      /\ Webcam!AttemptFailed(r).attempts = r.attempts
      /\ Webcam!AttemptFailed(r).waiting = "no"
      /\ Webcam!AttemptFailed(r).active =
           IF r.attempts >= MaxAttempts THEN "no" ELSE r.active
  <2>1. CASE r.attempts >= MaxAttempts
    BY <1>4, <2>1 DEF Webcam!AttemptFailed
  <2>2. CASE ~(r.attempts >= MaxAttempts)
    BY <2>2 DEF Webcam!AttemptFailed, Webcam!Recovery, Webcam!Timers
  <2> QED
    BY <2>1, <2>2
<1>6. /\ Webcam!AttemptStarted(r) \in Webcam!Recovery
      /\ Webcam!AttemptStarted(r).active = r.active
      /\ Webcam!AttemptStarted(r).waiting = "yes"
      /\ Webcam!AttemptStarted(r).attempts = r.attempts
  BY DEF Webcam!AttemptStarted, Webcam!Recovery, Webcam!Timers
<1>7. ASSUME r.attempts < MaxAttempts
      PROVE  /\ Webcam!Begun(r) \in Webcam!Recovery
             /\ Webcam!Begun(r).active = r.active
             /\ Webcam!Begun(r).attempts = r.attempts + 1
  <2>1. r.attempts + 1 \in 0 .. MaxAttempts
    BY <1>1, <1>7 DEF Webcam!Recovery
  <2> QED
    BY <2>1 DEF Webcam!Begun, Webcam!Recovery, Webcam!Timers
<1> QED
  BY <1>3, <1>4, <1>5, <1>6, <1>7

\* What is known of the recovery is kept by every step.
LEMMA RecoveryKept == RecoveryInv /\ Webcam!Next => RecoveryInv'
<1> SUFFICES ASSUME RecoveryInv, Webcam!Next PROVE RecoveryInv'
  OBVIOUS
<1>a. /\ Webcam!TypeOK /\ SeenIsJudged /\ RunningIsAwaited /\ FinalEndsSession /\ WaitingIsUnaged
      /\ TriesAreAttempts /\ FinalIsFinal
  BY DEF RecoveryInv
<1>b. MaxAttempts \in Nat \ {0} /\ Stalls \in Nat
  BY DevicesAssumption DEF Webcam!AttemptsAssumption, Webcam!StallsAssumption
<1>c. /\ recovery.active \in {"yes", "no"} /\ recovery.waiting \in {"yes", "no"}
      /\ recovery.next \in Webcam!Timers /\ recovery.attempts \in 0 .. MaxAttempts
      /\ stalls \in 0 .. Stalls /\ tries \in 0 .. MaxAttempts + 1
      /\ webcamLate \in faults \cup {"none"}
  BY <1>a DEF Webcam!TypeOK, Webcam!Recovery
<1>d. Undisturbed => stalls = 0 /\ "late failure" \notin faults /\ "first request" \notin faults
  BY DEF Undisturbed
<1>e. Undisturbed' => Undisturbed
  <2>1. /\ faults' = faults
        /\ stalls' = stalls \/ stalls' = stalls + 1
    BY DEF Webcam!Next, Webcam!OwnerStep, Webcam!User, Webcam!Device, Webcam!Select,
       Webcam!RestartWebcam, Webcam!BeginCycle, Webcam!Look, Webcam!Judge, Webcam!Attempt,
       Webcam!Frame, Webcam!LateFrame, Webcam!Failure, Webcam!LateFailure, Webcam!FrameAges,
       Webcam!RetryDue, Webcam!DeadlineDue, Webcam!environment
  <2>2. stalls' = 0 => stalls = 0
    BY <1>c, <2>1
  <2> QED
    BY <2>1, <2>2 DEF Undisturbed
<1>1. CASE Webcam!RestartWebcam
  <2>a. /\ cycle = "idle" /\ recovery' = Webcam!Idle /\ tries' = 0
        /\ UNCHANGED <<cycle, seen, stalls, faults>>
        /\ device' \in {"webcam", "none"} /\ webcamLatest' = "none"
    BY <1>a, <1>1 DEF Webcam!RestartWebcam, Webcam!TypeOK, Webcam!environment,
       Webcam!StartsByHand,
       Webcam!StopsByHand, Webcam!Started, Webcam!StartRefused, Webcam!Stopped
  <2>b. \/ /\ webcamRunning' = "yes" /\ webcamFailure' = "none"
           /\ lifecycle' = "Waiting" /\ deadline' = "later" /\ kind' = "none"
        \/ /\ webcamRunning' = "no" /\ lifecycle' = "Failed" /\ deadline' = "none"
           /\ kind' \in {"retry", "final"} /\ webcamFailure' \in {"none", kind'}
        \/ /\ webcamRunning' = "no" /\ webcamFailure' = "none"
           /\ lifecycle' = "Stopped" /\ UNCHANGED <<deadline, kind>>
    BY <1>1 DEF Webcam!RestartWebcam, Webcam!StartsByHand, Webcam!StopsByHand,
       Webcam!Started,
       Webcam!StartRefused, Webcam!Stopped, Webcam!Waits, Webcam!Fails, Webcam!ChangesTo
  <2>c. webcamLate' \in faults \cup {"none"}
    BY <1>c, <1>1 DEF Webcam!RestartWebcam, Webcam!StartsByHand, Webcam!StopsByHand,
       Webcam!Started,
       Webcam!StartRefused, Webcam!Stopped, Webcam!LeavesBehind
  <2>d. /\ recovery' \in Webcam!Recovery /\ recovery'.active = "no"
        /\ recovery'.waiting = "no"
    BY <2>a, RecoveriesFit
  <2>1. Webcam!TypeOK'
    BY <1>a, <1>b, <2>a, <2>b, <2>c, <2>d DEF Webcam!TypeOK,
       Webcam!Timers, Webcam!Failures
  <2>2. SeenIsJudged'
    BY <1>a, <1>b, <1>c, <2>a, <2>b, <2>c, <2>d DEF SeenIsJudged
  <2>3. RunningIsAwaited'
    BY <1>a, <1>b, <1>c, <2>a, <2>b, <2>c, <2>d DEF RunningIsAwaited
  <2>4. FinalEndsSession'
    BY <1>a, <1>b, <1>c, <2>a, <2>b, <2>c, <2>d DEF FinalEndsSession
  <2>5. WaitingIsUnaged'
    BY <1>a, <1>b, <1>c, <2>a, <2>b, <2>c, <2>d DEF WaitingIsUnaged, Unaged,
       RunningIsAwaited, SeenIsJudged, FinalEndsSession
  <2>6. TriesAreAttempts'
    BY <1>b, <2>a, <2>d DEF TriesAreAttempts
  <2>7. FinalIsFinal'
    BY <1>a, <1>b, <1>c, <2>a, <2>b, <2>c, <2>d DEF FinalIsFinal, Unaged,
       WaitingIsUnaged, RunningIsAwaited, SeenIsJudged, FinalEndsSession
  <2> QED
    BY <2>1, <2>2, <2>3, <2>4, <2>5, <2>6, <2>7 DEF RecoveryInv
<1>2. ASSUME NEW id \in {"webcam", "none"}, Webcam!Select(id)
      PROVE  RecoveryInv'
  <2>a. /\ cycle = "idle" /\ recovery' = Webcam!Idle /\ tries' = 0
        /\ UNCHANGED <<cycle, seen, stalls, faults>>
        /\ device' \in {"webcam", "none"} /\ webcamLatest' = "none"
    BY <1>a, <1>2 DEF Webcam!Select, Webcam!TypeOK, Webcam!environment,
       Webcam!StartsByHand,
       Webcam!StopsByHand, Webcam!Started, Webcam!StartRefused, Webcam!Stopped
  <2>b. \/ /\ webcamRunning' = "yes" /\ webcamFailure' = "none"
           /\ lifecycle' = "Waiting" /\ deadline' = "later" /\ kind' = "none"
        \/ /\ webcamRunning' = "no" /\ lifecycle' = "Failed" /\ deadline' = "none"
           /\ kind' \in {"retry", "final"} /\ webcamFailure' \in {"none", kind'}
        \/ /\ webcamRunning' = "no" /\ webcamFailure' = "none"
           /\ lifecycle' = "Stopped" /\ UNCHANGED <<deadline, kind>>
    BY <1>2 DEF Webcam!Select, Webcam!StartsByHand, Webcam!StopsByHand, Webcam!Started,
       Webcam!StartRefused, Webcam!Stopped, Webcam!Waits, Webcam!Fails, Webcam!ChangesTo
  <2>c. webcamLate' \in faults \cup {"none"}
    BY <1>c, <1>2 DEF Webcam!Select, Webcam!StartsByHand, Webcam!StopsByHand,
       Webcam!Started,
       Webcam!StartRefused, Webcam!Stopped, Webcam!LeavesBehind
  <2>d. /\ recovery' \in Webcam!Recovery /\ recovery'.active = "no"
        /\ recovery'.waiting = "no"
    BY <2>a, RecoveriesFit
  <2>1. Webcam!TypeOK'
    BY <1>a, <1>b, <2>a, <2>b, <2>c, <2>d DEF Webcam!TypeOK,
       Webcam!Timers, Webcam!Failures
  <2>2. SeenIsJudged'
    BY <1>a, <1>b, <1>c, <2>a, <2>b, <2>c, <2>d DEF SeenIsJudged
  <2>3. RunningIsAwaited'
    BY <1>a, <1>b, <1>c, <2>a, <2>b, <2>c, <2>d DEF RunningIsAwaited
  <2>4. FinalEndsSession'
    BY <1>a, <1>b, <1>c, <2>a, <2>b, <2>c, <2>d DEF FinalEndsSession
  <2>5. WaitingIsUnaged'
    BY <1>a, <1>b, <1>c, <2>a, <2>b, <2>c, <2>d DEF WaitingIsUnaged, Unaged,
       RunningIsAwaited, SeenIsJudged, FinalEndsSession
  <2>6. TriesAreAttempts'
    BY <1>b, <2>a, <2>d DEF TriesAreAttempts
  <2>7. FinalIsFinal'
    BY <1>a, <1>b, <1>c, <2>a, <2>b, <2>c, <2>d DEF FinalIsFinal, Unaged,
       WaitingIsUnaged, RunningIsAwaited, SeenIsJudged, FinalEndsSession
  <2> QED
    BY <2>1, <2>2, <2>3, <2>4, <2>5, <2>6, <2>7 DEF RecoveryInv
<1>3. CASE Webcam!BeginCycle
  <2>1. Webcam!TypeOK'
    BY <1>a, <1>b, <1>c, <1>3 DEF Webcam!BeginCycle, Webcam!captureVars,
       Webcam!componentVars, Webcam!environment, Webcam!ownerVars, Webcam!TypeOK,
       Webcam!Timers, Webcam!Failures, Webcam!Recovery
  <2>2. SeenIsJudged'
    BY <1>a, <1>b, <1>c, <1>3 DEF Webcam!BeginCycle, Webcam!captureVars,
       Webcam!componentVars, Webcam!environment, Webcam!ownerVars, SeenIsJudged
  <2>3. RunningIsAwaited'
    BY <1>a, <1>b, <1>c, <1>3 DEF Webcam!BeginCycle, Webcam!captureVars,
       Webcam!componentVars, Webcam!environment, Webcam!ownerVars, RunningIsAwaited
  <2>4. FinalEndsSession'
    BY <1>a, <1>b, <1>c, <1>3 DEF Webcam!BeginCycle, Webcam!captureVars,
       Webcam!componentVars, Webcam!environment, Webcam!ownerVars, FinalEndsSession
  <2>5. WaitingIsUnaged'
    BY <1>a, <1>b, <1>c, <1>3 DEF Webcam!BeginCycle, Webcam!captureVars,
       Webcam!componentVars, Webcam!environment, Webcam!ownerVars, WaitingIsUnaged,
       Unaged, RunningIsAwaited, SeenIsJudged, FinalEndsSession
  <2>6. TriesAreAttempts'
    BY <1>a, <1>b, <1>c, <1>3, <1>d, <1>e DEF Webcam!BeginCycle, Webcam!captureVars,
       Webcam!componentVars, Webcam!environment, Webcam!ownerVars, TriesAreAttempts,
       Unaged, WaitingIsUnaged, RunningIsAwaited, SeenIsJudged, FinalEndsSession
  <2>7. FinalIsFinal'
    BY <1>a, <1>b, <1>c, <1>3 DEF Webcam!BeginCycle, Webcam!captureVars,
       Webcam!componentVars, Webcam!environment, Webcam!ownerVars, FinalIsFinal, Unaged,
       WaitingIsUnaged, RunningIsAwaited, SeenIsJudged, FinalEndsSession
  <2> QED
    BY <2>1, <2>2, <2>3, <2>4, <2>5, <2>6, <2>7 DEF RecoveryInv
<1>4. CASE Webcam!Look
  <2>1. Webcam!TypeOK'
    BY <1>a, <1>b, <1>c, <1>4 DEF Webcam!Look, Webcam!captureVars, Webcam!componentVars,
       Webcam!environment, Webcam!ownerVars, Webcam!TypeOK, Webcam!Timers,
       Webcam!Failures, Webcam!Recovery
  <2>2. SeenIsJudged'
    BY <1>a, <1>b, <1>c, <1>4 DEF Webcam!Look, Webcam!captureVars, Webcam!componentVars,
       Webcam!environment, Webcam!ownerVars, SeenIsJudged
  <2>3. RunningIsAwaited'
    BY <1>a, <1>b, <1>c, <1>4 DEF Webcam!Look, Webcam!captureVars, Webcam!componentVars,
       Webcam!environment, Webcam!ownerVars, RunningIsAwaited
  <2>4. FinalEndsSession'
    BY <1>a, <1>b, <1>c, <1>4 DEF Webcam!Look, Webcam!captureVars, Webcam!componentVars,
       Webcam!environment, Webcam!ownerVars, FinalEndsSession
  <2>5. WaitingIsUnaged'
    BY <1>a, <1>b, <1>c, <1>4 DEF Webcam!Look, Webcam!captureVars, Webcam!componentVars,
       Webcam!environment, Webcam!ownerVars, WaitingIsUnaged, Unaged, RunningIsAwaited,
       SeenIsJudged, FinalEndsSession
  <2>6. TriesAreAttempts'
    BY <1>a, <1>b, <1>c, <1>4, <1>d, <1>e DEF Webcam!Look, Webcam!captureVars,
       Webcam!componentVars, Webcam!environment, Webcam!ownerVars, TriesAreAttempts,
       Unaged, WaitingIsUnaged, RunningIsAwaited, SeenIsJudged, FinalEndsSession
  <2>7. FinalIsFinal'
    BY <1>a, <1>b, <1>c, <1>4 DEF Webcam!Look, Webcam!captureVars, Webcam!componentVars,
       Webcam!environment, Webcam!ownerVars, FinalIsFinal, Unaged, WaitingIsUnaged,
       RunningIsAwaited, SeenIsJudged, FinalEndsSession
  <2> QED
    BY <2>1, <2>2, <2>3, <2>4, <2>5, <2>6, <2>7 DEF RecoveryInv
<1>5. CASE Webcam!Judge /\ Webcam!JudgeFailure
  <2>a. /\ cycle = "judge" /\ cycle' = "attempt" /\ seen' = "none"
        /\ UNCHANGED <<device, stalls, faults>> /\ tries' = tries /\ webcamFailure # "none"
    BY <1>5 DEF Webcam!Judge, Webcam!JudgeFailure, Webcam!environment
  <2>b. /\ lifecycle' = "Failed" /\ deadline' = "none" /\ kind' = webcamFailure
    BY <1>5 DEF Webcam!JudgeFailure, Webcam!ChangesTo, Webcam!Fails
  <2>q. \/ Webcam!QueueRecovery /\ webcamFailure = "retry"
        \/ /\ UNCHANGED <<webcamRunning, webcamLatest, webcamFailure, webcamLate, recovery>>
           /\ webcamFailure # "retry"
    BY <1>5 DEF Webcam!JudgeFailure, Webcam!captureVars
  <2>r. Webcam!QueueRecovery =>
          /\ webcamRunning' = "no" /\ webcamLatest' = "none" /\ webcamFailure' = "none"
          /\ recovery' = IF recovery.active = "yes" /\ recovery.waiting = "yes"
                         THEN Webcam!AttemptFailed(recovery) ELSE Webcam!Scheduled(recovery)
    BY DEF Webcam!QueueRecovery, Webcam!Stopped
  <2>c. \/ /\ webcamRunning' = "no" /\ webcamLatest' = "none" /\ webcamFailure' = "none"
           /\ webcamFailure = "retry" /\ recovery'.waiting = "no"
           /\ IF recovery.active = "yes"
              THEN /\ recovery'.attempts = recovery.attempts
                   /\ recovery'.active = IF /\ recovery.waiting = "yes"
                                            /\ recovery.attempts >= MaxAttempts
                                         THEN "no" ELSE "yes"
              ELSE recovery'.active = "yes" /\ recovery'.attempts = 0
        \/ /\ UNCHANGED <<webcamRunning, webcamLatest, webcamFailure, webcamLate, recovery>>
           /\ webcamFailure # "retry"
    BY <1>a, <1>c, <2>q, <2>r, RecoveriesFit DEF Webcam!TypeOK
  <2>d. webcamLate' \in faults \cup {"none"}
    BY <1>c, <2>q DEF Webcam!QueueRecovery, Webcam!Stopped, Webcam!LeavesBehind
  <2>e. recovery' \in Webcam!Recovery
    BY <1>a, <2>q, <2>r, RecoveriesFit DEF Webcam!TypeOK
  <2>1. Webcam!TypeOK'
    BY <1>a, <1>b, <1>c, <2>a, <2>b, <2>c, <2>d, <2>e DEF Webcam!TypeOK, Webcam!Timers,
       Webcam!Failures, Webcam!Recovery
  <2>2. SeenIsJudged'
    BY <1>a, <1>b, <1>c, <2>a, <2>b, <2>c, <2>d, <2>e DEF SeenIsJudged
  <2>3. RunningIsAwaited'
    BY <1>a, <1>b, <1>c, <2>a, <2>b, <2>c, <2>d, <2>e DEF RunningIsAwaited
  <2>4. FinalEndsSession'
    BY <1>a, <1>b, <1>c, <2>a, <2>b, <2>c, <2>d, <2>e DEF FinalEndsSession
  <2>5. WaitingIsUnaged'
    <3>1. recovery'.waiting = "yes" =>
            /\ webcamFailure = "final" /\ recovery' = recovery
            /\ UNCHANGED <<webcamRunning, webcamLatest>>
      BY <1>a, <2>a, <2>c DEF Webcam!TypeOK, Webcam!Failures
    <3> QED
      BY <1>a, <2>a, <2>b, <3>1 DEF WaitingIsUnaged, FinalEndsSession, Unaged
  <2>6. TriesAreAttempts'
    <3>1. CASE UNCHANGED <<webcamRunning, webcamFailure, webcamLatest, recovery>>
      BY <1>a, <1>b, <1>c, <1>e, <2>a, <2>b, <3>1 DEF TriesAreAttempts, Unaged
    <3>2. CASE recovery.active = "yes" /\ recovery'.attempts = recovery.attempts
      <4>1. Undisturbed' => tries' = recovery'.attempts /\ tries' <= MaxAttempts
        BY <1>a, <1>c, <1>e, <2>a, <3>2 DEF TriesAreAttempts
      <4>2. CASE recovery'.active = "yes"
        BY <4>1, <4>2 DEF TriesAreAttempts
      <4>3. CASE recovery'.active # "yes"
        <5>1. /\ webcamRunning' = "no" /\ webcamFailure' = "none" /\ webcamLatest' = "none"
              /\ recovery.waiting = "yes"
          BY <1>c, <2>c, <3>2, <4>3
        <5>2. Undisturbed' => lifecycle' # "Ready" /\ deadline' = "none"
          BY <1>a, <1>d, <1>e, <2>a, <2>b, <2>c, <3>2, <4>3, <5>1 DEF WaitingIsUnaged,
             Unaged
        <5> QED
          BY <4>1, <4>3, <5>1, <5>2, <2>a, <2>b DEF TriesAreAttempts, Unaged
      <4> QED
        BY <4>2, <4>3
    <3>3. CASE recovery.active = "no" /\ recovery'.active = "yes" /\ recovery'.attempts = 0
      BY <1>a, <1>b, <1>c, <1>e, <2>a, <2>b, <2>c, <3>3 DEF TriesAreAttempts, Unaged
    <3> QED
      BY <1>c, <2>c, <3>1, <3>2, <3>3
  <2>7. FinalIsFinal'
    BY <1>a, <1>b, <1>c, <2>a, <2>b, <2>c, <2>d, <2>e DEF FinalIsFinal, Unaged,
       WaitingIsUnaged, RunningIsAwaited, SeenIsJudged, FinalEndsSession
  <2> QED
    BY <2>1, <2>2, <2>3, <2>4, <2>5, <2>6, <2>7 DEF RecoveryInv
<1>6. CASE Webcam!Judge /\ Webcam!JudgeStale
  <2>a. /\ cycle = "judge" /\ cycle' = "attempt" /\ seen' = "none"
        /\ UNCHANGED <<device, stalls, faults>> /\ tries' = tries /\ webcamFailure = "none" /\ seen = "old"
    BY <1>6 DEF Webcam!Judge, Webcam!JudgeStale, Webcam!environment
  <2>b. lifecycle' = "Stale" /\ UNCHANGED <<deadline, kind>>
    BY <1>6 DEF Webcam!JudgeStale, Webcam!ChangesTo, Webcam!Fails
  <2>q. \/ Webcam!QueueRecovery /\ webcamFailure = "none"
    BY <1>6 DEF Webcam!JudgeStale, Webcam!captureVars
  <2>r. Webcam!QueueRecovery =>
          /\ webcamRunning' = "no" /\ webcamLatest' = "none" /\ webcamFailure' = "none"
          /\ recovery' = IF recovery.active = "yes" /\ recovery.waiting = "yes"
                         THEN Webcam!AttemptFailed(recovery) ELSE Webcam!Scheduled(recovery)
    BY DEF Webcam!QueueRecovery, Webcam!Stopped
  <2>c. \/ /\ webcamRunning' = "no" /\ webcamLatest' = "none" /\ webcamFailure' = "none"
           /\ webcamFailure = "none" /\ recovery'.waiting = "no"
           /\ IF recovery.active = "yes"
              THEN /\ recovery'.attempts = recovery.attempts
                   /\ recovery'.active = IF /\ recovery.waiting = "yes"
                                            /\ recovery.attempts >= MaxAttempts
                                         THEN "no" ELSE "yes"
              ELSE recovery'.active = "yes" /\ recovery'.attempts = 0
    BY <1>a, <1>c, <2>q, <2>r, RecoveriesFit DEF Webcam!TypeOK
  <2>d. webcamLate' \in faults \cup {"none"}
    BY <1>c, <2>q DEF Webcam!QueueRecovery, Webcam!Stopped, Webcam!LeavesBehind
  <2>e. recovery' \in Webcam!Recovery
    BY <1>a, <2>q, <2>r, RecoveriesFit DEF Webcam!TypeOK
  <2>1. Webcam!TypeOK'
    BY <1>a, <1>b, <1>c, <2>a, <2>b, <2>c, <2>d, <2>e DEF Webcam!TypeOK, Webcam!Timers,
       Webcam!Failures, Webcam!Recovery
  <2>2. SeenIsJudged'
    BY <1>a, <1>b, <1>c, <2>a, <2>b, <2>c, <2>d, <2>e DEF SeenIsJudged
  <2>3. RunningIsAwaited'
    BY <1>a, <1>b, <1>c, <2>a, <2>b, <2>c, <2>d, <2>e DEF RunningIsAwaited
  <2>4. FinalEndsSession'
    BY <1>a, <1>b, <1>c, <2>a, <2>b, <2>c, <2>d, <2>e DEF FinalEndsSession
  <2>5. WaitingIsUnaged'
    BY <1>a, <1>b, <1>c, <2>a, <2>b, <2>c, <2>d, <2>e DEF WaitingIsUnaged, Unaged,
       RunningIsAwaited, SeenIsJudged, FinalEndsSession
  <2>6. TriesAreAttempts'
    <3>1. CASE UNCHANGED <<webcamRunning, webcamFailure, webcamLatest, recovery>>
      BY <1>a, <1>b, <1>c, <1>e, <2>a, <2>b, <3>1 DEF TriesAreAttempts, Unaged
    <3>2. CASE recovery.active = "yes" /\ recovery'.attempts = recovery.attempts
      <4>1. Undisturbed' => tries' = recovery'.attempts /\ tries' <= MaxAttempts
        BY <1>a, <1>c, <1>e, <2>a, <3>2 DEF TriesAreAttempts
      <4>2. CASE recovery'.active = "yes"
        BY <4>1, <4>2 DEF TriesAreAttempts
      <4>3. CASE recovery'.active # "yes"
        <5>1. /\ webcamRunning' = "no" /\ webcamFailure' = "none" /\ webcamLatest' = "none"
              /\ recovery.waiting = "yes"
          BY <1>c, <2>c, <3>2, <4>3
        <5>2. Undisturbed' => lifecycle' # "Ready" /\ deadline' = "none"
          BY <1>a, <1>d, <1>e, <2>a, <2>b, <2>c, <3>2, <4>3, <5>1 DEF WaitingIsUnaged,
             Unaged
        <5> QED
          BY <4>1, <4>3, <5>1, <5>2, <2>a, <2>b DEF TriesAreAttempts, Unaged
      <4> QED
        BY <4>2, <4>3
    <3>3. CASE recovery.active = "no" /\ recovery'.active = "yes" /\ recovery'.attempts = 0
      BY <1>a, <1>b, <1>c, <1>e, <2>a, <2>b, <2>c, <3>3 DEF TriesAreAttempts, Unaged
    <3> QED
      BY <1>c, <2>c, <3>1, <3>2, <3>3
  <2>7. FinalIsFinal'
    BY <1>a, <1>b, <1>c, <2>a, <2>b, <2>c, <2>d, <2>e DEF FinalIsFinal, Unaged,
       WaitingIsUnaged, RunningIsAwaited, SeenIsJudged, FinalEndsSession
  <2> QED
    BY <2>1, <2>2, <2>3, <2>4, <2>5, <2>6, <2>7 DEF RecoveryInv
<1>7. CASE Webcam!Judge /\ Webcam!JudgeFresh
  <2>1. Webcam!TypeOK'
    BY <1>a, <1>b, <1>c, <1>7 DEF Webcam!Judge, Webcam!JudgeFresh, Webcam!Idle,
       Webcam!captureVars, Webcam!componentVars, Webcam!environment, Webcam!ownerVars,
       Webcam!TypeOK, Webcam!Timers, Webcam!Failures, Webcam!Recovery
  <2>2. SeenIsJudged'
    BY <1>a, <1>b, <1>c, <1>7 DEF Webcam!Judge, Webcam!JudgeFresh, Webcam!Idle,
       Webcam!captureVars, Webcam!componentVars, Webcam!environment, Webcam!ownerVars,
       SeenIsJudged
  <2>3. RunningIsAwaited'
    BY <1>a, <1>b, <1>c, <1>7 DEF Webcam!Judge, Webcam!JudgeFresh, Webcam!Idle,
       Webcam!captureVars, Webcam!componentVars, Webcam!environment, Webcam!ownerVars,
       RunningIsAwaited
  <2>4. FinalEndsSession'
    BY <1>a, <1>b, <1>c, <1>7 DEF Webcam!Judge, Webcam!JudgeFresh, Webcam!Idle,
       Webcam!captureVars, Webcam!componentVars, Webcam!environment, Webcam!ownerVars,
       FinalEndsSession
  <2>5. WaitingIsUnaged'
    BY <1>a, <1>b, <1>c, <1>7 DEF Webcam!Judge, Webcam!JudgeFresh, Webcam!Idle,
       Webcam!captureVars, Webcam!componentVars, Webcam!environment, Webcam!ownerVars,
       WaitingIsUnaged, Unaged, RunningIsAwaited, SeenIsJudged, FinalEndsSession
  <2>6. TriesAreAttempts'
    <3>1. tries' = 0 /\ recovery'.active = "no"
      BY <1>7, RecoveriesFit DEF Webcam!JudgeFresh
    <3> QED
      BY <1>b, <3>1 DEF TriesAreAttempts
  <2>7. FinalIsFinal'
    BY <1>a, <1>b, <1>c, <1>7 DEF Webcam!Judge, Webcam!JudgeFresh, Webcam!Idle,
       Webcam!captureVars, Webcam!componentVars, Webcam!environment, Webcam!ownerVars,
       FinalIsFinal, Unaged, WaitingIsUnaged, RunningIsAwaited, SeenIsJudged,
       FinalEndsSession
  <2> QED
    BY <2>1, <2>2, <2>3, <2>4, <2>5, <2>6, <2>7 DEF RecoveryInv
<1>8. CASE Webcam!Judge /\ Webcam!JudgeNothing
  <2>a. /\ cycle = "judge" /\ cycle' = "attempt" /\ seen' = "none"
        /\ UNCHANGED <<device, stalls, faults>> /\ tries' = tries /\ webcamFailure = "none" /\ seen = "none"
    BY <1>8 DEF Webcam!Judge, Webcam!JudgeNothing, Webcam!environment
  <2>b. IF deadline = "due"
        THEN lifecycle' = "Failed" /\ deadline' = "none" /\ kind' = "retry"
        ELSE UNCHANGED <<lifecycle, deadline, kind>>
    BY <1>8 DEF Webcam!JudgeNothing, Webcam!ChangesTo, Webcam!Fails
  <2>q. \/ Webcam!QueueRecovery /\ deadline = "due"
        \/ /\ UNCHANGED <<webcamRunning, webcamLatest, webcamFailure, webcamLate, recovery>>
           /\ deadline # "due"
    BY <1>8 DEF Webcam!JudgeNothing, Webcam!captureVars
  <2>r. Webcam!QueueRecovery =>
          /\ webcamRunning' = "no" /\ webcamLatest' = "none" /\ webcamFailure' = "none"
          /\ recovery' = IF recovery.active = "yes" /\ recovery.waiting = "yes"
                         THEN Webcam!AttemptFailed(recovery) ELSE Webcam!Scheduled(recovery)
    BY DEF Webcam!QueueRecovery, Webcam!Stopped
  <2>c. \/ /\ webcamRunning' = "no" /\ webcamLatest' = "none" /\ webcamFailure' = "none"
           /\ deadline = "due" /\ recovery'.waiting = "no"
           /\ IF recovery.active = "yes"
              THEN /\ recovery'.attempts = recovery.attempts
                   /\ recovery'.active = IF /\ recovery.waiting = "yes"
                                            /\ recovery.attempts >= MaxAttempts
                                         THEN "no" ELSE "yes"
              ELSE recovery'.active = "yes" /\ recovery'.attempts = 0
        \/ /\ UNCHANGED <<webcamRunning, webcamLatest, webcamFailure, webcamLate, recovery>>
           /\ deadline # "due"
    BY <1>a, <1>c, <2>q, <2>r, RecoveriesFit DEF Webcam!TypeOK
  <2>d. webcamLate' \in faults \cup {"none"}
    BY <1>c, <2>q DEF Webcam!QueueRecovery, Webcam!Stopped, Webcam!LeavesBehind
  <2>e. recovery' \in Webcam!Recovery
    BY <1>a, <2>q, <2>r, RecoveriesFit DEF Webcam!TypeOK
  <2>1. Webcam!TypeOK'
    BY <1>a, <1>b, <1>c, <2>a, <2>b, <2>c, <2>d, <2>e DEF Webcam!TypeOK, Webcam!Timers,
       Webcam!Failures, Webcam!Recovery
  <2>2. SeenIsJudged'
    BY <1>a, <1>b, <1>c, <2>a, <2>b, <2>c, <2>d, <2>e DEF SeenIsJudged
  <2>3. RunningIsAwaited'
    BY <1>a, <1>b, <1>c, <2>a, <2>b, <2>c, <2>d, <2>e DEF RunningIsAwaited
  <2>4. FinalEndsSession'
    BY <1>a, <1>b, <1>c, <2>a, <2>b, <2>c, <2>d, <2>e DEF FinalEndsSession
  <2>5. WaitingIsUnaged'
    BY <1>a, <1>b, <1>c, <2>a, <2>b, <2>c, <2>d, <2>e DEF WaitingIsUnaged, Unaged,
       RunningIsAwaited, SeenIsJudged, FinalEndsSession
  <2>6. TriesAreAttempts'
    <3>1. CASE UNCHANGED <<webcamRunning, webcamFailure, webcamLatest, recovery>>
      BY <1>a, <1>b, <1>c, <1>e, <2>a, <2>b, <3>1 DEF TriesAreAttempts, Unaged
    <3>2. CASE recovery.active = "yes" /\ recovery'.attempts = recovery.attempts
      <4>1. Undisturbed' => tries' = recovery'.attempts /\ tries' <= MaxAttempts
        BY <1>a, <1>c, <1>e, <2>a, <3>2 DEF TriesAreAttempts
      <4>2. CASE recovery'.active = "yes"
        BY <4>1, <4>2 DEF TriesAreAttempts
      <4>3. CASE recovery'.active # "yes"
        <5>1. /\ webcamRunning' = "no" /\ webcamFailure' = "none" /\ webcamLatest' = "none"
              /\ recovery.waiting = "yes"
          BY <1>c, <2>c, <3>2, <4>3
        <5>2. Undisturbed' => lifecycle' # "Ready" /\ deadline' = "none"
          BY <1>a, <1>d, <1>e, <2>a, <2>b, <2>c, <3>2, <4>3, <5>1 DEF WaitingIsUnaged,
             Unaged
        <5> QED
          BY <4>1, <4>3, <5>1, <5>2, <2>a, <2>b DEF TriesAreAttempts, Unaged
      <4> QED
        BY <4>2, <4>3
    <3>3. CASE recovery.active = "no" /\ recovery'.active = "yes" /\ recovery'.attempts = 0
      BY <1>a, <1>b, <1>c, <1>e, <2>a, <2>b, <2>c, <3>3 DEF TriesAreAttempts, Unaged
    <3> QED
      BY <1>c, <2>c, <3>1, <3>2, <3>3
  <2>7. FinalIsFinal'
    BY <1>a, <1>b, <1>c, <2>a, <2>b, <2>c, <2>d, <2>e DEF FinalIsFinal, Unaged,
       WaitingIsUnaged, RunningIsAwaited, SeenIsJudged, FinalEndsSession
  <2> QED
    BY <2>1, <2>2, <2>3, <2>4, <2>5, <2>6, <2>7 DEF RecoveryInv
<1>9. CASE Webcam!Attempt /\ ~Webcam!AttemptIsDue(recovery)
  <2>1. Webcam!TypeOK'
    BY <1>a, <1>b, <1>c, <1>9 DEF Webcam!Attempt, Webcam!captureVars,
       Webcam!componentVars, Webcam!environment, Webcam!ownerVars, Webcam!TypeOK,
       Webcam!Timers, Webcam!Failures, Webcam!Recovery
  <2>2. SeenIsJudged'
    BY <1>a, <1>b, <1>c, <1>9 DEF Webcam!Attempt, Webcam!captureVars,
       Webcam!componentVars, Webcam!environment, Webcam!ownerVars, SeenIsJudged
  <2>3. RunningIsAwaited'
    BY <1>a, <1>b, <1>c, <1>9 DEF Webcam!Attempt, Webcam!captureVars,
       Webcam!componentVars, Webcam!environment, Webcam!ownerVars, RunningIsAwaited
  <2>4. FinalEndsSession'
    BY <1>a, <1>b, <1>c, <1>9 DEF Webcam!Attempt, Webcam!captureVars,
       Webcam!componentVars, Webcam!environment, Webcam!ownerVars, FinalEndsSession
  <2>5. WaitingIsUnaged'
    BY <1>a, <1>b, <1>c, <1>9 DEF Webcam!Attempt, Webcam!captureVars,
       Webcam!componentVars, Webcam!environment, Webcam!ownerVars, WaitingIsUnaged,
       Unaged, RunningIsAwaited, SeenIsJudged, FinalEndsSession
  <2>6. TriesAreAttempts'
    BY <1>a, <1>b, <1>c, <1>9, <1>d, <1>e DEF Webcam!Attempt, Webcam!captureVars,
       Webcam!componentVars, Webcam!environment, Webcam!ownerVars, TriesAreAttempts,
       Unaged, WaitingIsUnaged, RunningIsAwaited, SeenIsJudged, FinalEndsSession
  <2>7. FinalIsFinal'
    BY <1>a, <1>b, <1>c, <1>9 DEF Webcam!Attempt, Webcam!captureVars,
       Webcam!componentVars, Webcam!environment, Webcam!ownerVars, FinalIsFinal, Unaged,
       WaitingIsUnaged, RunningIsAwaited, SeenIsJudged, FinalEndsSession
  <2> QED
    BY <2>1, <2>2, <2>3, <2>4, <2>5, <2>6, <2>7 DEF RecoveryInv
<1>10. CASE Webcam!Attempt /\ Webcam!AttemptIsDue(recovery) /\ Webcam!AttemptWithoutDevice
  <2>a. /\ cycle = "attempt" /\ cycle' = "idle" /\ UNCHANGED <<seen, device, stalls, faults>>
    BY <1>10 DEF Webcam!Attempt, Webcam!environment
  <2>0. /\ recovery.active = "yes" /\ recovery.waiting = "no"
        /\ recovery.attempts < MaxAttempts
    BY <1>10 DEF Webcam!AttemptIsDue
  <2>b. webcamRunning' = "no" /\ webcamLatest' = "none" /\ webcamFailure' = "none"
    BY <1>10 DEF Webcam!AttemptWithoutDevice, Webcam!Started, Webcam!Stopped,
       Webcam!StartRefused
  <2>c. /\ lifecycle' = "Failed" /\ deadline' = "none" /\ kind' = "none"
        /\ tries' = tries
    BY <1>10 DEF Webcam!AttemptWithoutDevice, Webcam!Waits, Webcam!Fails, Webcam!CountTry
  <2>d. webcamLate' \in faults \cup {"none"}
    BY <1>c, <1>10 DEF Webcam!AttemptWithoutDevice, Webcam!Started, Webcam!Stopped,
       Webcam!StartRefused,
       Webcam!LeavesBehind
  <2>9. recovery' = Webcam!Exhausted(Webcam!Begun(recovery))
    BY <1>10 DEF Webcam!AttemptWithoutDevice
  <2>8. /\ Webcam!Begun(recovery) \in Webcam!Recovery
        /\ Webcam!Begun(recovery).active = "yes"
        /\ Webcam!Begun(recovery).attempts = recovery.attempts + 1
    BY <1>a, <2>0, RecoveriesFit DEF Webcam!TypeOK
  <2>e. /\ recovery' \in Webcam!Recovery
        /\ recovery'.active = "no" /\ recovery'.waiting = "no"
    BY <1>b, <1>c, <2>0, <2>8, <2>9, RecoveriesFit
  <2>1. Webcam!TypeOK'
    BY <1>a, <1>b, <1>c, <2>0, <2>a, <2>b, <2>c, <2>d, <2>e DEF Webcam!TypeOK,
       Webcam!Timers, Webcam!Failures, Webcam!Recovery
  <2>2. SeenIsJudged'
    BY <1>a, <1>b, <1>c, <2>0, <2>a, <2>b, <2>c, <2>d, <2>e DEF SeenIsJudged
  <2>3. RunningIsAwaited'
    BY <1>a, <1>b, <1>c, <2>0, <2>a, <2>b, <2>c, <2>d, <2>e DEF RunningIsAwaited
  <2>4. FinalEndsSession'
    BY <1>a, <1>b, <1>c, <2>0, <2>a, <2>b, <2>c, <2>d, <2>e DEF FinalEndsSession
  <2>5. WaitingIsUnaged'
    BY <1>a, <1>b, <1>c, <2>0, <2>a, <2>b, <2>c, <2>d, <2>e DEF WaitingIsUnaged, Unaged,
       RunningIsAwaited, SeenIsJudged, FinalEndsSession
  <2>6. TriesAreAttempts'
    BY <1>a, <1>b, <1>c, <2>0, <2>a, <2>b, <2>c, <2>d, <2>e, <1>d, <1>e
       DEF TriesAreAttempts, Unaged, WaitingIsUnaged, RunningIsAwaited, SeenIsJudged,
       FinalEndsSession
  <2>7. FinalIsFinal'
    BY <1>a, <1>b, <1>c, <2>0, <2>a, <2>b, <2>c, <2>d, <2>e DEF FinalIsFinal, Unaged,
       WaitingIsUnaged, RunningIsAwaited, SeenIsJudged, FinalEndsSession
  <2> QED
    BY <2>1, <2>2, <2>3, <2>4, <2>5, <2>6, <2>7 DEF RecoveryInv
<1>11. CASE Webcam!Attempt /\ Webcam!AttemptIsDue(recovery) /\ Webcam!AttemptStarts
  <2>a. /\ cycle = "attempt" /\ cycle' = "idle" /\ UNCHANGED <<seen, device, stalls, faults>>
    BY <1>11 DEF Webcam!Attempt, Webcam!environment
  <2>0. /\ recovery.active = "yes" /\ recovery.waiting = "no"
        /\ recovery.attempts < MaxAttempts
    BY <1>11 DEF Webcam!AttemptIsDue
  <2>b. webcamRunning' = "yes" /\ webcamLatest' = "none" /\ webcamFailure' = "none"
    BY <1>11 DEF Webcam!AttemptStarts, Webcam!Started, Webcam!Stopped, Webcam!StartRefused
  <2>c. /\ lifecycle' = "Waiting" /\ deadline' = "later" /\ kind' = "none"
        /\ tries' = IF tries > MaxAttempts THEN tries ELSE tries + 1
    BY <1>11 DEF Webcam!AttemptStarts, Webcam!Waits, Webcam!Fails, Webcam!CountTry
  <2>d. webcamLate' \in faults \cup {"none"}
    BY <1>c, <1>11 DEF Webcam!AttemptStarts, Webcam!Started, Webcam!Stopped,
       Webcam!StartRefused,
       Webcam!LeavesBehind
  <2>9. recovery' = Webcam!AttemptStarted(Webcam!Begun(recovery))
    BY <1>11 DEF Webcam!AttemptStarts
  <2>8. /\ Webcam!Begun(recovery) \in Webcam!Recovery
        /\ Webcam!Begun(recovery).active = "yes"
        /\ Webcam!Begun(recovery).attempts = recovery.attempts + 1
    BY <1>a, <2>0, RecoveriesFit DEF Webcam!TypeOK
  <2>e. /\ recovery' \in Webcam!Recovery
        /\ recovery'.active = "yes" /\ recovery'.waiting = "yes"
        /\ recovery'.attempts = recovery.attempts + 1
    BY <1>b, <1>c, <2>0, <2>8, <2>9, RecoveriesFit
  <2>1. Webcam!TypeOK'
    BY <1>a, <1>b, <1>c, <2>0, <2>a, <2>b, <2>c, <2>d, <2>e DEF Webcam!TypeOK,
       Webcam!Timers, Webcam!Failures, Webcam!Recovery
  <2>2. SeenIsJudged'
    BY <1>a, <1>b, <1>c, <2>0, <2>a, <2>b, <2>c, <2>d, <2>e DEF SeenIsJudged
  <2>3. RunningIsAwaited'
    BY <1>a, <1>b, <1>c, <2>0, <2>a, <2>b, <2>c, <2>d, <2>e DEF RunningIsAwaited
  <2>4. FinalEndsSession'
    BY <1>a, <1>b, <1>c, <2>0, <2>a, <2>b, <2>c, <2>d, <2>e DEF FinalEndsSession
  <2>5. WaitingIsUnaged'
    BY <1>a, <1>b, <1>c, <2>0, <2>a, <2>b, <2>c, <2>d, <2>e DEF WaitingIsUnaged, Unaged,
       RunningIsAwaited, SeenIsJudged, FinalEndsSession
  <2>6. TriesAreAttempts'
    <3>1. Undisturbed' => tries' = recovery'.attempts /\ tries' <= MaxAttempts
      BY <1>a, <1>b, <1>c, <1>e, <2>0, <2>c, <2>e DEF TriesAreAttempts
    <3> QED
      BY <2>e, <3>1 DEF TriesAreAttempts
  <2>7. FinalIsFinal'
    BY <1>a, <1>b, <1>c, <2>0, <2>a, <2>b, <2>c, <2>d, <2>e DEF FinalIsFinal, Unaged,
       WaitingIsUnaged, RunningIsAwaited, SeenIsJudged, FinalEndsSession
  <2> QED
    BY <2>1, <2>2, <2>3, <2>4, <2>5, <2>6, <2>7 DEF RecoveryInv
<1>12. ASSUME NEW reason \in {"retry", "final"}, Webcam!Attempt, Webcam!AttemptIsDue(recovery), Webcam!AttemptRefused(reason)
      PROVE  RecoveryInv'
  <2>a. /\ cycle = "attempt" /\ cycle' = "idle" /\ UNCHANGED <<seen, device, stalls, faults>>
    BY <1>12 DEF Webcam!Attempt, Webcam!environment
  <2>0. /\ recovery.active = "yes" /\ recovery.waiting = "no"
        /\ recovery.attempts < MaxAttempts
    BY <1>12 DEF Webcam!AttemptIsDue
  <2>b. /\ webcamRunning' = "no" /\ webcamLatest' = "none"
        /\ \/ webcamFailure' = "none"
           \/ "first request" \in faults /\ webcamFailure' = reason
    BY <1>12 DEF Webcam!AttemptRefused, Webcam!Started, Webcam!Stopped,
       Webcam!StartRefused
  <2>c. /\ lifecycle' = "Failed" /\ deadline' = "none" /\ kind' = reason
        /\ tries' = IF tries > MaxAttempts THEN tries ELSE tries + 1
    BY <1>12 DEF Webcam!AttemptRefused, Webcam!Waits, Webcam!Fails, Webcam!CountTry
  <2>d. webcamLate' \in faults \cup {"none"}
    BY <1>c, <1>12 DEF Webcam!AttemptRefused, Webcam!Started, Webcam!Stopped,
       Webcam!StartRefused,
       Webcam!LeavesBehind
  <2>9. recovery' = IF reason = "retry" THEN Webcam!AttemptFailed(Webcam!Begun(recovery))
                    ELSE Webcam!Exhausted(Webcam!Begun(recovery))
    BY <1>12 DEF Webcam!AttemptRefused
  <2>8. /\ Webcam!Begun(recovery) \in Webcam!Recovery
        /\ Webcam!Begun(recovery).active = "yes"
        /\ Webcam!Begun(recovery).attempts = recovery.attempts + 1
    BY <1>a, <2>0, RecoveriesFit DEF Webcam!TypeOK
  <2>e. /\ recovery' \in Webcam!Recovery
        /\ recovery'.waiting = "no"
        /\ IF reason = "retry" /\ recovery.attempts + 1 < MaxAttempts
           THEN recovery'.active = "yes" /\ recovery'.attempts = recovery.attempts + 1
           ELSE recovery'.active = "no"
    BY <1>b, <1>c, <2>0, <2>8, <2>9, RecoveriesFit
  <2>1. Webcam!TypeOK'
    <3>1. tries' \in 0 .. MaxAttempts + 1
      BY <1>b, <1>c, <2>c
    <3>2. webcamFailure' \in Webcam!Failures /\ kind' \in Webcam!Failures
      BY <2>b, <2>c, <1>12 DEF Webcam!Failures
    <3> QED
      BY <1>a, <2>a, <2>b, <2>c, <2>d, <2>e, <3>1, <3>2 DEF Webcam!TypeOK, Webcam!Timers
  <2>2. SeenIsJudged'
    BY <1>a, <1>b, <1>c, <2>0, <2>a, <2>b, <2>c, <2>d, <2>e DEF SeenIsJudged
  <2>3. RunningIsAwaited'
    BY <1>a, <1>b, <1>c, <2>0, <2>a, <2>b, <2>c, <2>d, <2>e DEF RunningIsAwaited
  <2>4. FinalEndsSession'
    BY <1>a, <1>b, <1>c, <2>0, <2>a, <2>b, <2>c, <2>d, <2>e DEF FinalEndsSession
  <2>5. WaitingIsUnaged'
    BY <1>a, <1>b, <1>c, <2>0, <2>a, <2>b, <2>c, <2>d, <2>e DEF WaitingIsUnaged, Unaged,
       RunningIsAwaited, SeenIsJudged, FinalEndsSession
  <2>6. TriesAreAttempts'
    <3>1. Undisturbed' => tries' = recovery.attempts + 1 /\ tries' <= MaxAttempts
      BY <1>a, <1>b, <1>c, <1>e, <2>0, <2>c DEF TriesAreAttempts
    <3>2. seen = "none" /\ (Undisturbed' => webcamFailure' = "none")
      BY <1>a, <1>d, <1>e, <2>a, <2>b DEF SeenIsJudged
    <3>3. recovery'.active = "yes" => recovery'.attempts = recovery.attempts + 1
      BY <2>e
    <3> QED
      BY <2>a, <2>b, <2>c, <3>1, <3>2, <3>3 DEF TriesAreAttempts, Unaged
  <2>7. FinalIsFinal'
    BY <1>a, <1>b, <1>c, <2>0, <2>a, <2>b, <2>c, <2>d, <2>e DEF FinalIsFinal, Unaged,
       WaitingIsUnaged, RunningIsAwaited, SeenIsJudged, FinalEndsSession
  <2> QED
    BY <2>1, <2>2, <2>3, <2>4, <2>5, <2>6, <2>7 DEF RecoveryInv
<1>13. CASE Webcam!Frame
  <2>1. Webcam!TypeOK'
    BY <1>a, <1>b, <1>c, <1>13 DEF Webcam!Frame, Webcam!captureVars,
       Webcam!componentVars, Webcam!environment, Webcam!ownerVars, Webcam!TypeOK,
       Webcam!Timers, Webcam!Failures, Webcam!Recovery
  <2>2. SeenIsJudged'
    BY <1>a, <1>b, <1>c, <1>13 DEF Webcam!Frame, Webcam!captureVars,
       Webcam!componentVars, Webcam!environment, Webcam!ownerVars, SeenIsJudged
  <2>3. RunningIsAwaited'
    BY <1>a, <1>b, <1>c, <1>13 DEF Webcam!Frame, Webcam!captureVars,
       Webcam!componentVars, Webcam!environment, Webcam!ownerVars, RunningIsAwaited
  <2>4. FinalEndsSession'
    BY <1>a, <1>b, <1>c, <1>13 DEF Webcam!Frame, Webcam!captureVars,
       Webcam!componentVars, Webcam!environment, Webcam!ownerVars, FinalEndsSession
  <2>5. WaitingIsUnaged'
    BY <1>a, <1>b, <1>c, <1>13 DEF Webcam!Frame, Webcam!captureVars,
       Webcam!componentVars, Webcam!environment, Webcam!ownerVars, WaitingIsUnaged,
       Unaged, RunningIsAwaited, SeenIsJudged, FinalEndsSession
  <2>6. TriesAreAttempts'
    BY <1>a, <1>b, <1>c, <1>13, <1>d, <1>e DEF Webcam!Frame, Webcam!captureVars,
       Webcam!componentVars, Webcam!environment, Webcam!ownerVars, TriesAreAttempts,
       Unaged, WaitingIsUnaged, RunningIsAwaited, SeenIsJudged, FinalEndsSession
  <2>7. FinalIsFinal'
    BY <1>a, <1>b, <1>c, <1>13 DEF Webcam!Frame, Webcam!captureVars,
       Webcam!componentVars, Webcam!environment, Webcam!ownerVars, FinalIsFinal, Unaged,
       WaitingIsUnaged, RunningIsAwaited, SeenIsJudged, FinalEndsSession
  <2> QED
    BY <2>1, <2>2, <2>3, <2>4, <2>5, <2>6, <2>7 DEF RecoveryInv
<1>14. ASSUME NEW reason \in {"retry", "final"}, Webcam!Failure(reason)
      PROVE  RecoveryInv'
  <2>1. Webcam!TypeOK'
    BY <1>a, <1>b, <1>c, <1>14 DEF Webcam!Failure, Webcam!SetsFailure,
       Webcam!captureVars, Webcam!componentVars, Webcam!environment, Webcam!ownerVars,
       Webcam!TypeOK, Webcam!Timers, Webcam!Failures, Webcam!Recovery
  <2>2. SeenIsJudged'
    BY <1>a, <1>b, <1>c, <1>14 DEF Webcam!Failure, Webcam!SetsFailure,
       Webcam!captureVars, Webcam!componentVars, Webcam!environment, Webcam!ownerVars,
       SeenIsJudged
  <2>3. RunningIsAwaited'
    BY <1>a, <1>b, <1>c, <1>14 DEF Webcam!Failure, Webcam!SetsFailure,
       Webcam!captureVars, Webcam!componentVars, Webcam!environment, Webcam!ownerVars,
       RunningIsAwaited
  <2>4. FinalEndsSession'
    BY <1>a, <1>b, <1>c, <1>14 DEF Webcam!Failure, Webcam!SetsFailure,
       Webcam!captureVars, Webcam!componentVars, Webcam!environment, Webcam!ownerVars,
       FinalEndsSession
  <2>5. WaitingIsUnaged'
    BY <1>a, <1>b, <1>c, <1>14 DEF Webcam!Failure, Webcam!SetsFailure,
       Webcam!captureVars, Webcam!componentVars, Webcam!environment, Webcam!ownerVars,
       WaitingIsUnaged, Unaged, RunningIsAwaited, SeenIsJudged, FinalEndsSession
  <2>6. TriesAreAttempts'
    BY <1>a, <1>b, <1>c, <1>14, <1>d, <1>e DEF Webcam!Failure, Webcam!SetsFailure,
       Webcam!captureVars, Webcam!componentVars, Webcam!environment, Webcam!ownerVars,
       TriesAreAttempts, Unaged, WaitingIsUnaged, RunningIsAwaited, SeenIsJudged,
       FinalEndsSession
  <2>7. FinalIsFinal'
    BY <1>a, <1>b, <1>c, <1>14 DEF Webcam!Failure, Webcam!SetsFailure,
       Webcam!captureVars, Webcam!componentVars, Webcam!environment, Webcam!ownerVars,
       FinalIsFinal, Unaged, WaitingIsUnaged, RunningIsAwaited, SeenIsJudged,
       FinalEndsSession
  <2> QED
    BY <2>1, <2>2, <2>3, <2>4, <2>5, <2>6, <2>7 DEF RecoveryInv
<1>15. CASE Webcam!LateFrame
  <2>1. Webcam!TypeOK'
    <3>1. webcamLate' \in faults' \cup {"none"}
      BY <1>15 DEF Webcam!LateFrame, Webcam!environment
    <3>2. /\ UNCHANGED <<device, recovery, lifecycle, deadline, kind, tries, cycle, seen,
                        stalls, faults>>
          /\ webcamFailure' \in {"none", "retry", "final"}
          /\ webcamRunning' \in {webcamRunning, "no"}
          /\ webcamLatest' \in {webcamLatest, "none", "fresh"}
      BY <1>15 DEF Webcam!LateFrame, Webcam!environment, Webcam!ownerVars,
         Webcam!componentVars
    <3> QED
      BY <1>a, <3>1, <3>2 DEF Webcam!TypeOK, Webcam!Failures
  <2>2. SeenIsJudged'
    BY <1>a, <1>b, <1>c, <1>15 DEF Webcam!LateFrame, Webcam!captureVars,
       Webcam!componentVars, Webcam!environment, Webcam!ownerVars, SeenIsJudged
  <2>3. RunningIsAwaited'
    BY <1>a, <1>b, <1>c, <1>15 DEF Webcam!LateFrame, Webcam!captureVars,
       Webcam!componentVars, Webcam!environment, Webcam!ownerVars, RunningIsAwaited
  <2>4. FinalEndsSession'
    BY <1>a, <1>b, <1>c, <1>15 DEF Webcam!LateFrame, Webcam!captureVars,
       Webcam!componentVars, Webcam!environment, Webcam!ownerVars, FinalEndsSession
  <2>5. WaitingIsUnaged'
    BY <1>a, <1>b, <1>c, <1>15 DEF Webcam!LateFrame, Webcam!captureVars,
       Webcam!componentVars, Webcam!environment, Webcam!ownerVars, WaitingIsUnaged,
       Unaged, RunningIsAwaited, SeenIsJudged, FinalEndsSession
  <2>6. TriesAreAttempts'
    BY <1>a, <1>b, <1>c, <1>15, <1>d, <1>e DEF Webcam!LateFrame, Webcam!captureVars,
       Webcam!componentVars, Webcam!environment, Webcam!ownerVars, TriesAreAttempts,
       Unaged, WaitingIsUnaged, RunningIsAwaited, SeenIsJudged, FinalEndsSession
  <2>7. FinalIsFinal'
    BY <1>a, <1>b, <1>c, <1>15 DEF Webcam!LateFrame, Webcam!captureVars,
       Webcam!componentVars, Webcam!environment, Webcam!ownerVars, FinalIsFinal, Unaged,
       WaitingIsUnaged, RunningIsAwaited, SeenIsJudged, FinalEndsSession
  <2> QED
    BY <2>1, <2>2, <2>3, <2>4, <2>5, <2>6, <2>7 DEF RecoveryInv
<1>16. ASSUME NEW reason \in {"retry", "final"}, Webcam!LateFailure(reason)
      PROVE  RecoveryInv'
  <2>1. Webcam!TypeOK'
    <3>1. webcamLate' \in faults' \cup {"none"}
      BY <1>16 DEF Webcam!LateFailure, Webcam!SetsFailure, Webcam!environment
    <3>2. /\ UNCHANGED <<device, recovery, lifecycle, deadline, kind, tries, cycle, seen,
                        stalls, faults>>
          /\ webcamFailure' \in {"none", "retry", "final"}
          /\ webcamRunning' \in {webcamRunning, "no"}
          /\ webcamLatest' \in {webcamLatest, "none", "fresh"}
      BY <1>16 DEF Webcam!LateFailure, Webcam!SetsFailure, Webcam!environment,
         Webcam!ownerVars, Webcam!componentVars
    <3> QED
      BY <1>a, <3>1, <3>2 DEF Webcam!TypeOK, Webcam!Failures
  <2>2. SeenIsJudged'
    BY <1>a, <1>b, <1>c, <1>16 DEF Webcam!LateFailure, Webcam!SetsFailure,
       Webcam!captureVars, Webcam!componentVars, Webcam!environment, Webcam!ownerVars,
       SeenIsJudged
  <2>3. RunningIsAwaited'
    BY <1>a, <1>b, <1>c, <1>16 DEF Webcam!LateFailure, Webcam!SetsFailure,
       Webcam!captureVars, Webcam!componentVars, Webcam!environment, Webcam!ownerVars,
       RunningIsAwaited
  <2>4. FinalEndsSession'
    BY <1>a, <1>b, <1>c, <1>16 DEF Webcam!LateFailure, Webcam!SetsFailure,
       Webcam!captureVars, Webcam!componentVars, Webcam!environment, Webcam!ownerVars,
       FinalEndsSession
  <2>5. WaitingIsUnaged'
    BY <1>a, <1>b, <1>c, <1>16 DEF Webcam!LateFailure, Webcam!SetsFailure,
       Webcam!captureVars, Webcam!componentVars, Webcam!environment, Webcam!ownerVars,
       WaitingIsUnaged, Unaged, RunningIsAwaited, SeenIsJudged, FinalEndsSession
  <2>6. TriesAreAttempts'
    BY <1>a, <1>b, <1>c, <1>16, <1>d, <1>e DEF Webcam!LateFailure, Webcam!SetsFailure,
       Webcam!captureVars, Webcam!componentVars, Webcam!environment, Webcam!ownerVars,
       TriesAreAttempts, Unaged, WaitingIsUnaged, RunningIsAwaited, SeenIsJudged,
       FinalEndsSession
  <2>7. FinalIsFinal'
    BY <1>a, <1>b, <1>c, <1>16 DEF Webcam!LateFailure, Webcam!SetsFailure,
       Webcam!captureVars, Webcam!componentVars, Webcam!environment, Webcam!ownerVars,
       FinalIsFinal, Unaged, WaitingIsUnaged, RunningIsAwaited, SeenIsJudged,
       FinalEndsSession
  <2> QED
    BY <2>1, <2>2, <2>3, <2>4, <2>5, <2>6, <2>7 DEF RecoveryInv
<1>17. CASE Webcam!FrameAges
  <2>a. /\ UNCHANGED <<device, recovery, lifecycle, deadline, kind, tries, cycle, seen,
                      webcamRunning, webcamFailure, webcamLate, faults>>
        /\ webcamLatest = "fresh" /\ webcamLatest' = "old"
    BY <1>17 DEF Webcam!FrameAges, Webcam!ownerVars, Webcam!componentVars
  <2>b. \/ stalls' \in 0 .. Stalls /\ stalls' # 0
        \/ stalls' = stalls /\ (lifecycle = "Ready" \/ seen = "fresh")
    BY <1>b, <1>c, <1>17 DEF Webcam!FrameAges
  <2>1. Webcam!TypeOK'
    BY <1>a, <1>b, <1>c, <2>a, <2>b DEF Webcam!TypeOK, Webcam!Timers, Webcam!Failures,
       Webcam!Recovery
  <2>2. SeenIsJudged'
    BY <1>a, <1>b, <1>c, <2>a, <2>b DEF SeenIsJudged
  <2>3. RunningIsAwaited'
    BY <1>a, <1>b, <1>c, <2>a, <2>b DEF RunningIsAwaited
  <2>4. FinalEndsSession'
    BY <1>a, <1>b, <1>c, <2>a, <2>b DEF FinalEndsSession
  <2>5. WaitingIsUnaged'
    BY <1>a, <1>b, <1>c, <2>a, <2>b DEF WaitingIsUnaged, Unaged, RunningIsAwaited,
       SeenIsJudged, FinalEndsSession
  <2>6. TriesAreAttempts'
    <3>1. Undisturbed' => Undisturbed /\ (lifecycle = "Ready" \/ seen = "fresh")
      BY <1>e, <2>b DEF Undisturbed
    <3> QED
      BY <1>a, <2>a, <3>1 DEF TriesAreAttempts, Unaged
  <2>7. FinalIsFinal'
    BY <1>a, <1>b, <1>c, <2>a, <2>b DEF FinalIsFinal, Unaged, WaitingIsUnaged,
       RunningIsAwaited, SeenIsJudged, FinalEndsSession
  <2> QED
    BY <2>1, <2>2, <2>3, <2>4, <2>5, <2>6, <2>7 DEF RecoveryInv
<1>18. CASE Webcam!RetryDue
  <2>a. /\ recovery' \in Webcam!Recovery /\ recovery'.active = recovery.active
        /\ recovery'.waiting = recovery.waiting /\ recovery'.attempts = recovery.attempts
    BY <1>a, <1>18 DEF Webcam!RetryDue, Webcam!TypeOK, Webcam!Recovery, Webcam!Timers
  <2>b. UNCHANGED <<device, webcamRunning, webcamLatest, webcamFailure, webcamLate,
                   lifecycle, deadline, kind, tries, cycle, seen, stalls, faults>>
    BY <1>18 DEF Webcam!RetryDue, Webcam!captureVars, Webcam!environment
  <2>1. Webcam!TypeOK'
    BY <1>a, <1>b, <1>c, <2>a, <2>b DEF Webcam!TypeOK, Webcam!Timers, Webcam!Failures,
       Webcam!Recovery
  <2>2. SeenIsJudged'
    BY <1>a, <1>b, <1>c, <2>a, <2>b DEF SeenIsJudged
  <2>3. RunningIsAwaited'
    BY <1>a, <1>b, <1>c, <2>a, <2>b DEF RunningIsAwaited
  <2>4. FinalEndsSession'
    BY <1>a, <1>b, <1>c, <2>a, <2>b DEF FinalEndsSession
  <2>5. WaitingIsUnaged'
    BY <1>a, <1>b, <1>c, <2>a, <2>b DEF WaitingIsUnaged, Unaged, RunningIsAwaited,
       SeenIsJudged, FinalEndsSession
  <2>6. TriesAreAttempts'
    BY <1>a, <1>b, <1>c, <2>a, <2>b, <1>d, <1>e DEF TriesAreAttempts, Unaged,
       WaitingIsUnaged, RunningIsAwaited, SeenIsJudged, FinalEndsSession
  <2>7. FinalIsFinal'
    BY <1>a, <1>b, <1>c, <2>a, <2>b DEF FinalIsFinal, Unaged, WaitingIsUnaged,
       RunningIsAwaited, SeenIsJudged, FinalEndsSession
  <2> QED
    BY <2>1, <2>2, <2>3, <2>4, <2>5, <2>6, <2>7 DEF RecoveryInv
<1>19. CASE Webcam!DeadlineDue
  <2>1. Webcam!TypeOK'
    BY <1>a, <1>b, <1>c, <1>19 DEF Webcam!DeadlineDue, Webcam!captureVars,
       Webcam!componentVars, Webcam!environment, Webcam!ownerVars, Webcam!TypeOK,
       Webcam!Timers, Webcam!Failures, Webcam!Recovery
  <2>2. SeenIsJudged'
    BY <1>a, <1>b, <1>c, <1>19 DEF Webcam!DeadlineDue, Webcam!captureVars,
       Webcam!componentVars, Webcam!environment, Webcam!ownerVars, SeenIsJudged
  <2>3. RunningIsAwaited'
    BY <1>a, <1>b, <1>c, <1>19 DEF Webcam!DeadlineDue, Webcam!captureVars,
       Webcam!componentVars, Webcam!environment, Webcam!ownerVars, RunningIsAwaited
  <2>4. FinalEndsSession'
    BY <1>a, <1>b, <1>c, <1>19 DEF Webcam!DeadlineDue, Webcam!captureVars,
       Webcam!componentVars, Webcam!environment, Webcam!ownerVars, FinalEndsSession
  <2>5. WaitingIsUnaged'
    BY <1>a, <1>b, <1>c, <1>19 DEF Webcam!DeadlineDue, Webcam!captureVars,
       Webcam!componentVars, Webcam!environment, Webcam!ownerVars, WaitingIsUnaged,
       Unaged, RunningIsAwaited, SeenIsJudged, FinalEndsSession
  <2>6. TriesAreAttempts'
    BY <1>a, <1>b, <1>c, <1>19, <1>d, <1>e DEF Webcam!DeadlineDue, Webcam!captureVars,
       Webcam!componentVars, Webcam!environment, Webcam!ownerVars, TriesAreAttempts,
       Unaged, WaitingIsUnaged, RunningIsAwaited, SeenIsJudged, FinalEndsSession
  <2>7. FinalIsFinal'
    BY <1>a, <1>b, <1>c, <1>19 DEF Webcam!DeadlineDue, Webcam!captureVars,
       Webcam!componentVars, Webcam!environment, Webcam!ownerVars, FinalIsFinal, Unaged,
       WaitingIsUnaged, RunningIsAwaited, SeenIsJudged, FinalEndsSession
  <2> QED
    BY <2>1, <2>2, <2>3, <2>4, <2>5, <2>6, <2>7 DEF RecoveryInv
<1> QED
  BY <1>1, <1>2, <1>3, <1>4, <1>5, <1>6, <1>7, <1>8, <1>9, <1>10, <1>11, <1>12, <1>13,
     <1>14, <1>15, <1>16, <1>17, <1>18, <1>19 DEF Webcam!Next, Webcam!OwnerStep,
     Webcam!User, Webcam!Device, Webcam!Judge, Webcam!Attempt

\* The recovery's invariant, for any number of attempts and of frames that grow old,
\* and any faults.
THEOREM RecoveryInvariance == Webcam!Spec => []RecoveryInv
<1>1. ASSUME Webcam!Init PROVE RecoveryInv
  <2>1. MaxAttempts \in Nat \ {0} /\ Stalls \in Nat
    BY DevicesAssumption DEF Webcam!AttemptsAssumption, Webcam!StallsAssumption
  <2>2. Webcam!TypeOK
    BY <1>1, <2>1 DEF Webcam!Init, Webcam!TypeOK, Webcam!Idle, Webcam!Recovery, Webcam!Timers,
       Webcam!Failures
  <2>3. recovery.active = "no" /\ recovery.waiting = "no" /\ tries = 0
    BY <1>1, RecoveriesFit DEF Webcam!Init
  <2>4. TriesAreAttempts
    BY <2>1, <2>3 DEF TriesAreAttempts
  <2> QED
    BY <1>1, <2>2, <2>3, <2>4 DEF Webcam!Init, RecoveryInv, SeenIsJudged, RunningIsAwaited, FinalEndsSession,
       FinalEndsSession, WaitingIsUnaged, FinalIsFinal, Unaged
<1>2. RecoveryInv /\ UNCHANGED Webcam!vars => RecoveryInv'
  BY DEF Webcam!vars, Webcam!captureVars, Webcam!componentVars, Webcam!environment,
     RecoveryInv, Webcam!TypeOK, SeenIsJudged, RunningIsAwaited, WaitingIsUnaged,
     FinalEndsSession, TriesAreAttempts, FinalIsFinal, Unaged, Undisturbed
<1> QED
  BY <1>1, <1>2, RecoveryKept, PTL DEF Webcam!Spec

\* Three tries and no more.
LEMMA RecoveryIsSafe == RecoveryInv => Webcam!TypeOK /\ Webcam!ThreeTries
  BY DEF RecoveryInv, TriesAreAttempts, Undisturbed, Webcam!ThreeTries

\* Only an attempt that is due counts as a try.
LEMMA OnlyAttemptsCount ==
    RecoveryInv /\ Webcam!Next /\ tries' > tries =>
        Webcam!Attempt /\ Webcam!AttemptIsDue(recovery)
<1>1. RecoveryInv => tries \in Nat
  <2>1. RecoveryInv => tries \in 0 .. MaxAttempts + 1
    BY DEF RecoveryInv, Webcam!TypeOK
  <2>2. MaxAttempts \in Nat
    BY DevicesAssumption DEF Webcam!AttemptsAssumption
  <2> QED
    BY <2>1, <2>2
<1>2. Webcam!Next =>
        \/ tries' = tries \/ tries' = 0
        \/ Webcam!Attempt /\ Webcam!AttemptIsDue(recovery)
  BY DEF Webcam!Next, Webcam!OwnerStep, Webcam!User, Webcam!Device, Webcam!Select,
     Webcam!RestartWebcam, Webcam!BeginCycle, Webcam!Look, Webcam!Judge,
     Webcam!JudgeFailure, Webcam!JudgeStale, Webcam!JudgeFresh, Webcam!JudgeNothing,
     Webcam!Attempt, Webcam!Frame, Webcam!LateFrame, Webcam!Failure, Webcam!LateFailure,
     Webcam!FrameAges, Webcam!RetryDue, Webcam!DeadlineDue, Webcam!componentVars,
     Webcam!ownerVars
<1>3. tries \in Nat /\ tries' > tries => tries' # tries /\ tries' # 0
  OBVIOUS
<1> QED
  BY <1>1, <1>2, <1>3

\* The attempt that is due after a final failure does not exist.
LEMMA FinalFailureIsLeft ==
    RecoveryInv /\ Webcam!Next =>
        (stalls = 0 /\ "late failure" \notin faults /\ tries' > tries => kind # "final")
  BY OnlyAttemptsCount DEF RecoveryInv, FinalIsFinal, Webcam!AttemptIsDue

\* After a final failure the webcam is left alone.
LEMMA FinalFailuresWait == Webcam!Spec => Webcam!FinalFailureWaits
<1>1. RecoveryInv /\ [Webcam!Next]_(Webcam!vars) =>
        [stalls = 0 /\ "late failure" \notin faults /\ tries' > tries
           => kind # "final"]_(Webcam!vars)
  BY FinalFailureIsLeft
<1> QED
  BY <1>1, RecoveryInvariance, PTL DEF Webcam!Spec, Webcam!FinalFailureWaits

------------------------------------------------------------------------------
(***************************************************************************)
(* The end of the transport's threads (PipeShutdown).                      *)
(***************************************************************************)

\* The type invariant of the threads, for any number of starts.
THEOREM ThreadsTypeCorrect == Threads!Spec => []Threads!TypeOK
<1>0. Starts \in Nat
  BY DevicesAssumption DEF Threads!ShutdownAssumption
<1>1. Threads!Init => Threads!TypeOK
  <2>1. 0 \in 0 .. Starts
    BY <1>0
  <2> QED
    BY <2>1 DEF Threads!Init, Threads!TypeOK
<1>2. Threads!TypeOK /\ [Threads!Next]_(Threads!vars) => Threads!TypeOK'
  <2> SUFFICES ASSUME Threads!TypeOK, [Threads!Next]_(Threads!vars) PROVE Threads!TypeOK'
    OBVIOUS
  <2>1. CASE Threads!CreatePipe
    BY <1>0, <2>1 DEF Threads!CreatePipe, Threads!ServerAt, Threads!Stays,
       Threads!ServerCloses, Threads!serverVars, Threads!readerVars, Threads!TypeOK
  <2>2. CASE Threads!Connects
    BY <1>0, <2>2 DEF Threads!Connects, Threads!ServerAt, Threads!Stays,
       Threads!ServerCloses, Threads!serverVars, Threads!readerVars, Threads!TypeOK
  <2>3. CASE Threads!Connected
    BY <1>0, <2>3 DEF Threads!Connected, Threads!ServerAt, Threads!Stays,
       Threads!ServerCloses, Threads!serverVars, Threads!readerVars, Threads!TypeOK
  <2>4. CASE Threads!LooksAtStop
    BY <1>0, <2>4 DEF Threads!LooksAtStop, Threads!ServerAt, Threads!Stays,
       Threads!ServerCloses, Threads!serverVars, Threads!readerVars, Threads!TypeOK
  <2>5. CASE Threads!Predicate
    BY <1>0, <2>5 DEF Threads!Predicate, Threads!ServerAt, Threads!Stays,
       Threads!ServerCloses, Threads!serverVars, Threads!readerVars, Threads!TypeOK
  <2>6. CASE Threads!FallsAsleep
    BY <1>0, <2>6 DEF Threads!FallsAsleep, Threads!ServerAt, Threads!Stays,
       Threads!ServerCloses, Threads!serverVars, Threads!readerVars, Threads!TypeOK
  <2>7. CASE Threads!Writes
    BY <1>0, <2>7 DEF Threads!Writes, Threads!ServerAt, Threads!Stays,
       Threads!ServerCloses, Threads!serverVars, Threads!readerVars, Threads!TypeOK
  <2>8. CASE Threads!Written
    BY <1>0, <2>8 DEF Threads!Written, Threads!ServerAt, Threads!Stays,
       Threads!ServerCloses, Threads!serverVars, Threads!readerVars, Threads!TypeOK
  <2>9. CASE Threads!Publish
    BY <1>0, <2>9 DEF Threads!Publish, Threads!Notified, Threads!serverVars,
       Threads!readerVars, Threads!TypeOK
  <2>10. CASE Threads!DropBegins
    BY <1>0, <2>10 DEF Threads!DropBegins, Threads!serverVars, Threads!readerVars,
       Threads!TypeOK
  <2>11. CASE Threads!DropNotifies
    BY <1>0, <2>11 DEF Threads!DropNotifies, Threads!Notified, Threads!serverVars,
       Threads!readerVars, Threads!TypeOK
  <2>12. CASE Threads!DropCancels
    BY <1>0, <2>12 DEF Threads!DropCancels, Threads!ServerCloses, Threads!serverVars,
       Threads!readerVars, Threads!TypeOK
  <2>13. CASE Threads!DropReturns
    BY <1>0, <2>13 DEF Threads!DropReturns, Threads!serverVars, Threads!readerVars,
       Threads!TypeOK
  <2>14. CASE Threads!ProcessEnds
    BY <1>0, <2>14 DEF Threads!ProcessEnds, Threads!serverVars, Threads!readerVars,
       Threads!TypeOK
  <2>15. CASE Threads!Open
    BY <1>0, <2>15 DEF Threads!Open, Threads!ReaderAt, Threads!Rests,
       Threads!ReaderCloses, Threads!serverVars, Threads!readerVars, Threads!TypeOK
  <2>16. CASE Threads!LooksAgain
    BY <1>0, <2>16 DEF Threads!LooksAgain, Threads!ReaderAt, Threads!Rests,
       Threads!ReaderCloses, Threads!serverVars, Threads!readerVars, Threads!TypeOK
  <2>17. CASE Threads!Reads
    BY <1>0, <2>17 DEF Threads!Reads, Threads!ReaderAt, Threads!Rests,
       Threads!ReaderCloses, Threads!serverVars, Threads!readerVars, Threads!TypeOK
  <2>18. CASE Threads!Read
    BY <1>0, <2>18 DEF Threads!Read, Threads!ReaderAt, Threads!Rests,
       Threads!ReaderCloses, Threads!serverVars, Threads!readerVars, Threads!TypeOK
  <2>19. CASE Threads!StopBegins
    BY <1>0, <2>19 DEF Threads!StopBegins, Threads!serverVars, Threads!readerVars,
       Threads!TypeOK
  <2>20. CASE Threads!StopCancels
    BY <1>0, <2>20 DEF Threads!StopCancels, Threads!ReaderCloses, Threads!serverVars,
       Threads!readerVars, Threads!TypeOK
  <2>21. CASE Threads!StopReturns
    BY <1>0, <2>21 DEF Threads!StopReturns, Threads!serverVars, Threads!readerVars,
       Threads!TypeOK
  <2>22. CASE Threads!StartAgain
    <3>1. starts' \in 0 .. Starts
      <4>1. starts \in 0 .. Starts
        BY DEF Threads!TypeOK
      <4>2. starts < Starts /\ starts' = starts + 1
        BY <2>22 DEF Threads!StartAgain
      <4> QED
        BY <1>0, <4>1, <4>2
    <3>2. /\ UNCHANGED <<serverAt, serverStopping, fresh, anyPublished, pipeOwner, instance,
                        clientEnd, full>>
          /\ pipeSource' = "running" /\ readerAt' = "loop" /\ readerStopped' = FALSE
      BY <2>22 DEF Threads!StartAgain, Threads!serverVars
    <3> QED
      BY <3>1, <3>2 DEF Threads!TypeOK
  <2>23. CASE UNCHANGED Threads!vars
    BY <2>23 DEF Threads!vars, Threads!serverVars, Threads!readerVars, Threads!TypeOK
  <2> QED
    BY <2>1, <2>2, <2>3, <2>4, <2>5, <2>6, <2>7, <2>8, <2>9, <2>10, <2>11, <2>12, <2>13,
       <2>14, <2>15, <2>16, <2>17, <2>18, <2>19, <2>20, <2>21, <2>22, <2>23
       DEF Threads!Next, Threads!Server, Threads!Reader
<1> QED
  BY <1>1, <1>2, PTL DEF Threads!Spec

------------------------------------------------------------------------------
(***************************************************************************)
(* The behaviours of the run: each component moves as it does alone.       *)
(***************************************************************************)

\* One component moves and the others stay as they are.
LEMMA PartsMove == MCSpec =>
    /\ Spec
    /\ Host!Spec
    /\ Preview!Spec
    /\ Screen!Spec
    /\ Webcam!Spec
    /\ Threads!Spec
<1>1. MCInit => /\ Init /\ Host!Init /\ Preview!Init /\ Screen!Init
                /\ Webcam!Init /\ Threads!Init
  BY DEF MCInit
<1>2. [MCNext]_mcVars => [Next]_vars
  BY DEF MCNext, mcVars
<1>3. [MCNext]_mcVars => [Host!Next]_(Host!vars)
  <2>1. UNCHANGED hostVars => UNCHANGED Host!vars
    BY DEF hostVars, Host!vars
  <2> QED
    BY <2>1 DEF MCNext, mcVars
<1>4. [MCNext]_mcVars => [Preview!Next]_(Preview!vars)
  <2>1. UNCHANGED previewVars => UNCHANGED Preview!vars
    BY DEF previewVars, Preview!vars
  <2> QED
    BY <2>1 DEF MCNext, mcVars
<1>5. [MCNext]_mcVars => [Screen!Next]_(Screen!vars)
  <2>1. UNCHANGED screenVars => UNCHANGED Screen!vars
    BY DEF screenVars, Screen!vars
  <2> QED
    BY <2>1 DEF MCNext, mcVars
<1>6. [MCNext]_mcVars => [Webcam!Next]_(Webcam!vars)
  <2>1. UNCHANGED webcamVars => UNCHANGED Webcam!vars
    BY DEF webcamVars, Webcam!vars, Webcam!captureVars, Webcam!componentVars,
       Webcam!environment
  <2> QED
    BY <2>1 DEF MCNext, mcVars
<1>7. [MCNext]_mcVars => [Threads!Next]_(Threads!vars)
  <2>1. UNCHANGED threadVars => UNCHANGED Threads!vars
    BY DEF threadVars, Threads!vars, Threads!serverVars, Threads!readerVars
  <2> QED
    BY <2>1 DEF MCNext, mcVars
<1> QED
  BY <1>1, <1>2, <1>3, <1>4, <1>5, <1>6, <1>7, PTL DEF MCSpec, Spec, Host!Spec,
     Preview!Spec, Screen!Spec, Webcam!Spec, Threads!Spec

\* What the run checks of the transport holds in its behaviours, for any bounds.
THEOREM TransportStaysSafe == MCSpec => [](NeverRejects /\ ShownIsNewest) /\ LatestOnly
  BY PartsMove, ReaderNeverRejects, ShownFrameIsNewest, ImplementsLatestFrame, PTL

\* The types of every component and the safety of the devices, for any displays, frames
\* and bounds: a live camera is known to run, a hidden preview holds no picture back,
\* what is shown is of the selected display, and the webcam is tried three times, and
\* not at all after a final failure.
THEOREM DevicesStaySafe == MCSpec => DevicesAreSafe
<1>1. MCSpec => [](part = "host" => Host!TypeOK /\ Host!LiveIsRunning)
  BY PartsMove, HostInvariance, HostIsSafe, PTL
<1>2. MCSpec => [](part = "preview" => Preview!TypeOK /\ Preview!HiddenIsDrained)
  BY PartsMove, PreviewInvariance, PreviewIsSafe, PTL
<1>3. MCSpec => [](part = "screen" => Screen!TypeOK /\ Screen!ShownIsSelected)
  BY PartsMove, ScreenInvariance, ScreenIsSafe, PTL
<1>4. MCSpec => [](part = "webcam" => Webcam!TypeOK /\ Webcam!ThreeTries)
  BY PartsMove, RecoveryInvariance, RecoveryIsSafe, PTL
<1>5. MCSpec => [](part = "threads" => Threads!TypeOK)
  BY PartsMove, ThreadsTypeCorrect, PTL
<1>6. MCSpec => Webcam!FinalFailureWaits
  BY PartsMove, FinalFailuresWait, PTL
<1>7. MCSpec => []TypeOK
  BY PartsMove, TypeCorrect, PTL
<1> QED
  BY <1>1, <1>2, <1>3, <1>4, <1>5, <1>6, <1>7 DEF DevicesAreSafe

==============================================================================
