----------------------------- MODULE FramePacing ------------------------------
(* The pace of pictures (FramePacer in crates/core/src/pacer.rs; admit_frame  *)
(* of the webcam's capture, on_frame_arrived of the screen's, and             *)
(* RuntimeLoop::step).                                                        *)
(*                                                                            *)
(* Frames arrive, or the loop comes around, at any time.  One is let through  *)
(* when the deadline is reached, or so nearly that the tolerance forgives it; *)
(* then the deadline moves on by whole intervals, past what was missed.  The  *)
(* output has no tolerance; the captures have one, because a display's frames *)
(* come a little before or after their time.  A capture that starts again has *)
(* a new pacer.                                                               *)
EXTENDS Integers

CONSTANTS
    Interval,   \* a thirtieth of a second
    Tolerance,  \* WEBCAM_FRAME_EARLY_TOLERANCE, SCREEN_FRAME_EARLY_TOLERANCE
    Gaps,       \* times from one look at the clock to the next
    Horizon     \* bound: the time looked at

ASSUME PacingAssumption ==
    /\ Interval \in Nat \ {0} /\ Tolerance \in Nat
    /\ Gaps \subseteq Nat /\ Horizon \in Nat

VARIABLES
    now,        \* the clock
    start,      \* when the pacer was made
    deadline,   \* next_deadline
    accepted,   \* frames let through since then
    before,     \* when the last but one was
    last,       \* when the last one was
    skipped     \* output_deadline_misses since then

vars == <<now, start, deadline, accepted, before, last, skipped>>

Init ==
    /\ now = 0 /\ start = 0 /\ deadline = 0
    /\ accepted = 0 /\ before = 0 /\ last = 0 /\ skipped = 0

IsDue(time) == time + Tolerance >= deadline

\* A bug: a deadline that is met exactly is not left behind.
BugElapsed(time) ==
    IF time > deadline THEN time - deadline - 1 ELSE 0

\* saturating_duration_since
Elapsed(time) == IF time > deadline THEN time - deadline ELSE 0

Steps(time) == (Elapsed(time) \div Interval) + 1

\* A bug: the next deadline is an interval after the frame, wherever that is.
BugAccept(time) ==
    /\ IsDue(time)
    /\ now' = time /\ before' = last /\ last' = time
    /\ deadline' = time + Interval
    /\ accepted' = accepted + 1
    /\ skipped' = skipped + (Steps(time) - 1)
    /\ UNCHANGED start

(* A frame that is let through (FramePacer::advance).                         *)
Accept(time) ==
    /\ IsDue(time)
    /\ now' = time /\ before' = last /\ last' = time
    /\ deadline' = deadline + Interval * Steps(time)
    /\ accepted' = accepted + 1
    /\ skipped' = skipped + (Steps(time) - 1)
    /\ UNCHANGED start

\* A frame that is not, or a turn of the loop before its time.
Skip(time) ==
    /\ ~IsDue(time)
    /\ now' = time
    /\ UNCHANGED <<start, deadline, accepted, before, last, skipped>>

\* A bug: the first frame has to wait for an interval to pass.
BugRestart(time) ==
    /\ now' = time /\ start' = time /\ deadline' = time + Interval
    /\ accepted' = 0 /\ before' = time /\ last' = time /\ skipped' = 0

\* FramePacer::new
Restart(time) ==
    /\ now' = time /\ start' = time /\ deadline' = time
    /\ accepted' = 0 /\ before' = time /\ last' = time /\ skipped' = 0

Next ==
    \E gap \in Gaps :
        /\ now + gap <= Horizon
        /\ Accept(now + gap) \/ Skip(now + gap) \/ Restart(now + gap)

Spec == Init /\ [][Next]_vars

----------------------------------------------------------------------------
TypeOK ==
    /\ now \in Nat /\ start \in Nat /\ deadline \in Nat
    /\ accepted \in Nat /\ skipped \in Nat
    /\ before \in Nat /\ last \in Nat
    /\ start <= before /\ before <= last /\ last <= now

(* Nothing drifts and nothing is forgotten: every deadline since the start    *)
(* was met by a frame or counted as missed, and the next one is a whole       *)
(* number of intervals from the start, however late the frames were.          *)
DeadlinesAccounted == deadline = start + (accepted + skipped) * Interval

(* No bursts: three frames never pass within an interval, less the tolerance, *)
(* whatever was missed before and however the frames come.                    *)
NoBurst ==
    [][(accepted >= 2 /\ accepted' > accepted)
          => (last' - before > Interval - Tolerance)]_vars

(* A frame is passed over only when another was let through less than an      *)
(* interval before, so a steady source at the rate or below loses none.       *)
PassedOverIsCovered ==
    [][(now' # now /\ accepted' = accepted /\ start' = start)
          => (accepted > 0 /\ now' < last + Interval)]_vars

(* Both: frames are let through at the rate and no slower.                    *)
Paced == NoBurst /\ PassedOverIsCovered
=============================================================================
