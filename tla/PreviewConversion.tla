-------------------------- MODULE PreviewConversion --------------------------
(* The conversion of preview pictures (crates/app/src/preview_conversion.rs   *)
(* and the preview drawing of application.rs).                                *)
(*                                                                            *)
(* Each preview place of the interface owns one PreviewConverter: a worker    *)
(* thread that scales the newest frame it was given and hands the picture     *)
(* back.  The interface's thread submits the frame it has on every pass,      *)
(* takes a picture that is ready, and keeps it as the texture it draws.  A    *)
(* pass limits itself: the same request is not repeated, and a new frame is   *)
(* refused until the refresh interval since the last one has passed.          *)
(*                                                                            *)
(* Hiding the window suspends the converter: the generation number moves on,  *)
(* so that the picture of a job the worker already holds is thrown away.      *)
(*                                                                            *)
(* The clock is the flag `recent': the last submission is younger than the    *)
(* refresh interval.  A frame is its identity; a size stands for the whole    *)
(* profile (texture limit and interval) of an embedded or enlarged preview.   *)
EXTENDS Naturals

CONSTANTS
    Frames,     \* identities of the frames the runtime offers
    Sizes,      \* profiles a place is drawn with
    NoFrame,    \* no frame, no size
    Changes     \* bound: how often the offered frame or the profile changes,
                \* or the window is hidden

PreviewAssumption == NoFrame \notin Frames \cup Sizes /\ Changes \in Nat

VARIABLES
    visible,    \* window_visible, and the place is on the page
    offered,    \* the frame of the snapshot the pass draws
    size,       \* the profile the place is drawn with
    pass,       \* where the interface's thread is in a pass
    recent,     \* last_submitted_at is younger than the interval
    latest,     \* latest_request
    pending,    \* the job that waits
    ready,      \* the picture that waits
    generation,
    job,        \* the job the worker converts
    worker,     \* "waits", "converts" or "ended"
    stopping,
    texture,    \* the picture drawn
    changes

vars == <<visible, offered, size, pass, recent, latest, pending, ready,
          generation, job, worker, stopping, texture, changes>>

NoPicture == [frame |-> NoFrame, size |-> NoFrame]
Pictures == [frame : Frames \cup {NoFrame}, size : Sizes \cup {NoFrame}]
NoJob == [picture |-> NoPicture, generation |-> 0]
Jobs == [picture : Pictures, generation : 0 .. Changes]

Init ==
    /\ visible = TRUE
    /\ offered = NoFrame
    /\ size \in Sizes
    /\ pass = "between"
    /\ recent = FALSE
    /\ latest = NoPicture
    /\ pending = NoJob
    /\ ready = NoPicture
    /\ generation = 0
    /\ job = NoJob
    /\ worker = "waits"
    /\ stopping = FALSE
    /\ texture = NoPicture
    /\ changes = 0

Request == [frame |-> offered, size |-> size]

(* The early returns of submit: the request is the latest one already, or the *)
(* profile is the same and the interval has not passed.                       *)
Refused ==
    \/ latest = Request
    \/ latest.size \in {NoFrame, size} /\ recent

----------------------------------------------------------------------------
\* The interface's thread.

\* A bug: the request is noted before the interval is looked at.
BugSubmit ==
    /\ pass = "between" /\ visible /\ ~stopping /\ offered # NoFrame
    /\ pass' = "submitted"
    /\ latest' = Request
    /\ IF Refused
       THEN UNCHANGED <<recent, pending>>
       ELSE /\ recent' = TRUE
            /\ pending' = [picture |-> Request, generation |-> generation]
    /\ UNCHANGED <<visible, offered, size, ready, generation, job, worker,
                   stopping, texture, changes>>

(* A pass with a frame: submit replaces the pending job by the newest frame.  *)
Submit ==
    /\ pass = "between" /\ visible /\ ~stopping /\ offered # NoFrame
    /\ pass' = "submitted"
    /\ IF Refused
       THEN UNCHANGED <<latest, recent, pending>>
       ELSE /\ latest' = Request
            /\ recent' = TRUE
            /\ pending' = [picture |-> Request, generation |-> generation]
    /\ UNCHANGED <<visible, offered, size, ready, generation, job, worker,
                   stopping, texture, changes>>

(* The rest of the pass: take_ready, and the texture is set to the picture.   *)
Draw ==
    /\ pass = "submitted"
    /\ pass' = "between"
    /\ texture' = IF ready = NoPicture THEN texture ELSE ready
    /\ ready' = NoPicture
    /\ UNCHANGED <<visible, offered, size, recent, latest, pending, generation,
                   job, worker, stopping, changes>>

(* The runtime publishes another frame, or none; the page may also offer the  *)
(* captured candidate in the place of the live screen.                        *)
Offer ==
    /\ pass = "between" /\ changes < Changes /\ changes' = changes + 1
    /\ offered' \in (Frames \cup {NoFrame}) \ {offered}
    /\ UNCHANGED <<visible, size, pass, recent, latest, pending, ready,
                   generation, job, worker, stopping, texture>>

(* The place is drawn with another profile: enlarged, or embedded again.      *)
Enlarge ==
    /\ pass = "between" /\ changes < Changes /\ changes' = changes + 1
    /\ size' \in Sizes \ {size}
    /\ UNCHANGED <<visible, offered, pass, recent, latest, pending, ready,
                   generation, job, worker, stopping, texture>>

(* hide_window: every converter is suspended.                                 *)
Hide ==
    /\ pass = "between" /\ visible /\ ~stopping
    /\ changes < Changes /\ changes' = changes + 1
    /\ visible' = FALSE
    /\ generation' = generation + 1
    /\ latest' = NoPicture /\ recent' = FALSE
    /\ pending' = NoJob /\ ready' = NoPicture
    /\ UNCHANGED <<offered, size, pass, job, worker, stopping, texture>>

Show ==
    /\ pass = "between" /\ ~visible
    /\ visible' = TRUE
    /\ UNCHANGED <<offered, size, pass, recent, latest, pending, ready,
                   generation, job, worker, stopping, texture, changes>>

(* Drop of the converter: the worker is told to stop and joined.              *)
Drop ==
    /\ pass = "between" /\ ~stopping
    /\ stopping' = TRUE
    /\ pending' = NoJob
    /\ UNCHANGED <<visible, offered, size, pass, recent, latest, ready,
                   generation, job, worker, texture, changes>>

----------------------------------------------------------------------------
\* The worker's thread, and the clock.

Take ==
    /\ worker = "waits" /\ ~stopping /\ pending # NoJob
    /\ worker' = "converts"
    /\ job' = pending
    /\ pending' = NoJob
    /\ UNCHANGED <<visible, offered, size, pass, recent, latest, ready,
                   generation, stopping, texture, changes>>

\* A bug: the picture is kept whatever the generation.
BugStore ==
    /\ worker = "converts"
    /\ worker' = "waits"
    /\ job' = NoJob
    /\ ready' = IF stopping THEN ready ELSE job.picture
    /\ UNCHANGED <<visible, offered, size, pass, recent, latest, pending,
                   generation, stopping, texture, changes>>

\* store_completed_preview
Store ==
    /\ worker = "converts"
    /\ worker' = "waits"
    /\ job' = NoJob
    /\ ready' = IF ~stopping /\ generation = job.generation THEN job.picture
                                                            ELSE ready
    /\ UNCHANGED <<visible, offered, size, pass, recent, latest, pending,
                   generation, stopping, texture, changes>>

End ==
    /\ worker = "waits" /\ stopping
    /\ worker' = "ended"
    /\ UNCHANGED <<visible, offered, size, pass, recent, latest, pending, ready,
                   generation, job, stopping, texture, changes>>

IntervalPasses ==
    /\ recent
    /\ recent' = FALSE
    /\ UNCHANGED <<visible, offered, size, pass, latest, pending, ready,
                   generation, job, worker, stopping, texture, changes>>

Next ==
    \/ Submit \/ Draw \/ Offer \/ Enlarge \/ Hide \/ Show \/ Drop
    \/ Take \/ Store \/ End \/ IntervalPasses

Spec == Init /\ [][Next]_vars

(* A visible window asks for its next pass every VISIBLE_REFRESH; the worker  *)
(* runs whenever it has a job; time passes.                                   *)
Fairness ==
    /\ WF_vars(Submit) /\ WF_vars(Draw)
    /\ WF_vars(Take) /\ WF_vars(Store) /\ WF_vars(End)
    /\ WF_vars(IntervalPasses)

FairSpec == Spec /\ Fairness

----------------------------------------------------------------------------
TypeOK ==
    /\ visible \in BOOLEAN /\ recent \in BOOLEAN /\ stopping \in BOOLEAN
    /\ offered \in Frames \cup {NoFrame} /\ size \in Sizes
    /\ pass \in {"between", "submitted"}
    /\ {latest, ready, texture} \subseteq Pictures
    /\ {pending, job} \subseteq Jobs
    /\ generation \in 0 .. Changes /\ changes \in 0 .. Changes
    /\ worker \in {"waits", "converts", "ended"}

(* "Closing to the tray suspends and drains all preview work"                 *)
(* (docs/ARCHITECTURE.md:51): while the window is hidden neither a source     *)
(* frame nor a converted picture waits, even when the worker was in the       *)
(* middle of a conversion as the window closed (suspend,                      *)
(* store_completed_preview).                                                  *)
HiddenIsDrained == ~visible => pending = NoJob /\ ready = NoPicture

(* A frame that stays on offer in a window that stays open is drawn in the    *)
(* end, in the size asked for, whatever refusals of the interval, resizings   *)
(* and returns from the tray came before (submit's early returns must not     *)
(* lose the last frame of a source that stands still).                        *)
LatestIsDrawn ==
    /\ <>[][UNCHANGED <<offered, size>>]_vars
    /\ <>[](visible /\ ~stopping /\ offered # NoFrame)
    => <>[](texture = [frame |-> offered, size |-> size])
=============================================================================
