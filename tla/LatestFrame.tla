---------------------------- MODULE LatestFrame ----------------------------
(***************************************************************************)
(* What the frame transport promises a camera consumer, without threads,   *)
(* pipe or buffers: the view is either the off frame or one publication of *)
(* the application run it is connected to, and within a connection it only *)
(* moves on to later publications.  Publications may be skipped (nothing   *)
(* is queued), and the view may go off at any time, but it never goes back *)
(* to a publication it has passed, invalidations included.                 *)
(***************************************************************************)
EXTENDS Naturals

CONSTANTS MaxRun, MaxSequence

VARIABLES
  published,   \* run -> number of publications
  bound,       \* run the consumer's connection belongs to
  passed,      \* newest publication the connection has taken
  view         \* [run, seq], or Off

vars == <<published, bound, passed, view>>

Off == [run |-> 0, seq |-> 0]

Init ==
  /\ published = [r \in 0..MaxRun |-> 0]
  /\ bound = 0 /\ passed = 0 /\ view = Off

Publish ==
  /\ \E r \in 1..MaxRun :
       /\ published[r] < MaxSequence
       /\ published' = [published EXCEPT ![r] = @ + 1]
  /\ UNCHANGED <<bound, passed, view>>

\* A later publication of the bound run is taken, and shown unless it is an
\* invalidation.
Take ==
  /\ \E n \in 1..MaxSequence :
       /\ passed < n /\ n <= published[bound]
       /\ passed' = n
       /\ view' \in {Off, [run |-> bound, seq |-> n]}
  /\ UNCHANGED <<published, bound>>

\* The view is lost (disconnection) or the frame expires.
Blank ==
  /\ view' = Off
  /\ UNCHANGED <<published, bound, passed>>

\* A new connection, to the same run or to another, starts from nothing; so
\* does a new source, which is not connected yet (run 0).
Connect ==
  /\ bound' \in 0..MaxRun /\ passed' = 0 /\ view' = Off
  /\ UNCHANGED published

Next == Publish \/ Take \/ Blank \/ Connect

Spec == Init /\ [][Next]_vars

=============================================================================
