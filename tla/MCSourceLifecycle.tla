------------------------- MODULE MCSourceLifecycle -------------------------
(***************************************************************************)
(* SourceLifecycle with history: whether two calls were ever under way at  *)
(* once, and the stream's mode when no call was.  What the source promises *)
(* its clients, it promises to a Frame Server that makes one call after    *)
(* the other; a Start that overlaps a Shutdown breaks some of it, and must *)
(* not break the rest.                                                     *)
(***************************************************************************)
EXTENDS SourceLifecycle

VARIABLES overlapped, atRest

MCInit == Init /\ overlapped = "no" /\ atRest = mode

Overlap ==
    \E c, d \in Callers :
        c # d /\ call'[c].section # "idle" /\ call'[d].section # "idle"

MCNext ==
    /\ Next
    /\ overlapped' = IF Overlap THEN "yes" ELSE overlapped
    /\ atRest' = IF AtRest' THEN mode' ELSE atRest

MCSpec == MCInit /\ [][MCNext]_<<vars, overlapped, atRest>>

\* ShutdownIsComplete, for calls one after the other (MediaSource::Shutdown).
SerialShutdownIsComplete == overlapped = "no" => ShutdownIsComplete

\* IntroducedOnce, for calls one after the other and queues that refuse nothing
\* (MediaSource::Start).
SerialIntroducedOnce == overlapped = "no" /\ queueFaults = 0 => IntroducedOnce

\* RequestCanBeServed, for calls one after the other and an allocator that could
\* be created each time (MediaStream::RequestSample).
SerialRequestCanBeServed ==
    overlapped = "no" /\ allocatorFaults = 0 => RequestCanBeServed

\* A Start that fails, wherever it fails, leaves the stream in the mode it had
\* before the call (MediaStream::checkpoint and restore in MediaSource::Start).
FailedStartKeepsMode ==
    [][\A c \in Callers :
          /\ overlapped' = "no"
          /\ call[c].op = "Start" /\ call[c].section # "commit start"
          /\ call'[c].section = "idle"
          => mode' = atRest]_<<vars, overlapped, atRest>>

\* All of it: what the source promises a client that makes one call
\* after the other (MediaSource::Start and Shutdown, MediaStream::RequestSample).
SerialCallsKeepPromises ==
    /\ [](/\ SerialShutdownIsComplete
          /\ SerialIntroducedOnce
          /\ SerialRequestCanBeServed)
    /\ FailedStartKeepsMode
=============================================================================
