---------------------------- MODULE FrameBuffers -----------------------------
(* The buffers pictures are kept in (FrameBufferPool and FrameCompositor in   *)
(* crates/core/src/frame.rs; the captures' callbacks in                       *)
(* crates/windows/src/video_input.rs and screen_input.rs; DiscoEffect in      *)
(* crates/app/src/runtime.rs).                                                *)
(*                                                                            *)
(* A picture is handed from thread to thread by reference.  The output on air *)
(* may be the very buffer the webcam's callback filled: a picture that has    *)
(* the size of the output is not copied.  Each writer has a pool with a few   *)
(* buffers, and overwrites one of them only when nobody holds it any more;    *)
(* when all are held it takes a buffer of its own, which is never written     *)
(* again.  The number of holders is that of the Arc.                          *)
EXTENDS Naturals

CONSTANTS
    Capacity,   \* CAPTURE_FRAME_POOL_CAPACITY
    Inputs,     \* webcam and screen
    Shots,      \* pictures, however they came about
    Blank,      \* what is in a buffer nobody has filled
    Consumers   \* publisher slot, interface, reference worker, snapshots

Stages == {"blend", "pip", "disco"}

ASSUME BuffersAssumption ==
    /\ Capacity \in Nat \ {0}
    /\ Blank \notin Shots
    /\ Inputs \cap Stages = {} /\ Inputs # {}

Pools == Inputs \cup Stages
Slots == 1 .. Capacity
Pictures == Shots \cup {Blank}

(* A reference to a buffer: of a pool, or slot zero for a buffer of its own.  *)
(* `picture' is what the buffer held when the reference was handed out.       *)
Handle(pool, slot, picture) ==
    [pool |-> pool, slot |-> slot, picture |-> picture]

Handles == [pool : Pools, slot : 0 .. Capacity, picture : Pictures]
Own(picture) == Handle("pip", 0, picture)
NoFrame == Own(Blank)

VARIABLES
    pools,      \* what is in each buffer
    capture,    \* [at, slot]: the callback of each input
    latest,     \* the picture each input's capture keeps
    inputs,     \* the pictures the runtime composes
    runtime,    \* the stage the compositor is at
    canvas,     \* what it has so far
    output,     \* previews.final_output
    held        \* what each consumer holds

vars == <<pools, capture, latest, inputs, runtime, canvas, output, held>>

Init ==
    /\ pools = [pool \in Pools |-> [slot \in Slots |-> Blank]]
    /\ capture = [input \in Inputs |-> [at |-> "idle", slot |-> 0]]
    /\ latest = [input \in Inputs |-> NoFrame]
    /\ inputs = [input \in Inputs |-> NoFrame]
    /\ runtime = "idle" /\ canvas = NoFrame /\ output = NoFrame
    /\ held = [consumer \in Consumers |-> NoFrame]

----------------------------------------------------------------------------
\* The pool.

\* Every reference there is.
Handed ==
    {canvas, output} \cup {latest[input] : input \in Inputs}
        \cup {inputs[input] : input \in Inputs}
        \cup {held[consumer] : consumer \in Consumers}

Refers(handle, pool, slot) == handle.pool = pool /\ handle.slot = slot

\* A bug: what the runtime has handed out is not counted.
BugReferenced(pool, slot) ==
    \E handle \in Handed \ {output} : Refers(handle, pool, slot)

\* Arc::strong_count is above one.
Referenced(pool, slot) == \E handle \in Handed : Refers(handle, pool, slot)

Free(pool) == {slot \in Slots : ~Referenced(pool, slot)}

(* acquire_slot: the first buffer nobody holds, or none.  All frames of a     *)
(* pool have one size here, so no buffer is replaced by one of another size.  *)
Acquired(pool) ==
    IF Free(pool) = {} THEN 0
    ELSE CHOOSE slot \in Free(pool) : \A other \in Free(pool) : slot <= other

Stored(pool, slot, picture) ==
    IF slot = 0 THEN pools ELSE [pools EXCEPT ![pool][slot] = picture]

\* What a reader of the buffer finds in it.
Content(handle) ==
    IF handle.slot = 0 THEN handle.picture ELSE pools[handle.pool][handle.slot]

----------------------------------------------------------------------------
\* The callbacks of the captures.

(* write_with_fallback begins: the buffer is written pixel by pixel.          *)
Begin(input) ==
    /\ capture[input].at = "idle"
    /\ capture' = [capture EXCEPT ![input] =
                      [at |-> "writes", slot |-> Acquired(input)]]
    /\ pools' = Stored(input, Acquired(input), Blank)
    /\ UNCHANGED <<latest, inputs, runtime, canvas, output, held>>

(* The frame is complete and becomes the latest one of its session.           *)
Keep(input) ==
    /\ capture[input].at = "writes"
    /\ capture' = [capture EXCEPT ![input] = [at |-> "idle", slot |-> 0]]
    /\ \E shot \in Shots :
          /\ pools' = Stored(input, capture[input].slot, shot)
          /\ latest' = [latest EXCEPT ![input] =
                           Handle(input, capture[input].slot, shot)]
    /\ UNCHANGED <<inputs, runtime, canvas, output, held>>

\* It cannot be converted, or its session was replaced: nobody gets it.
Discard(input) ==
    /\ capture[input].at = "writes"
    /\ capture' = [capture EXCEPT ![input] = [at |-> "idle", slot |-> 0]]
    /\ UNCHANGED <<pools, latest, inputs, runtime, canvas, output, held>>

\* The capture is stopped, or fails.
Stop(input) ==
    /\ latest' = [latest EXCEPT ![input] = NoFrame]
    /\ UNCHANGED <<pools, capture, inputs, runtime, canvas, output, held>>

----------------------------------------------------------------------------
\* The compositor, on the runtime's thread.

(* The runtime looks at its inputs; one that is stale or not there is left    *)
(* out and its place taken by the placeholder.                                *)
Refresh ==
    /\ runtime = "idle"
    /\ runtime' = "background"
    /\ \E usable \in SUBSET Inputs :
          inputs' = [input \in Inputs |->
                        IF input \in usable THEN latest[input] ELSE NoFrame]
    /\ UNCHANGED <<pools, capture, latest, canvas, output, held>>

\* One source alone: its buffer itself (FittedCache::fit), or the placeholder.
Single ==
    /\ runtime = "background"
    /\ runtime' = "inset"
    /\ \E input \in Inputs : canvas' = inputs[input]
    /\ UNCHANGED <<pools, capture, latest, inputs, output, held>>

\* A stage writes what it makes of the pictures into a buffer of its pool.
Writes(stage) ==
    /\ \E shot \in Shots :
          /\ pools' = Stored(stage, Acquired(stage), shot)
          /\ canvas' = Handle(stage, Acquired(stage), shot)
    /\ UNCHANGED <<capture, latest, inputs, output, held>>

Blend ==
    /\ runtime = "background"
    /\ runtime' = "inset"
    /\ Writes("blend")

\* compose_with_pip with an inset, or without one
Inset ==
    /\ runtime = "inset"
    /\ runtime' = "effect"
    /\ Writes("pip")

NoInset ==
    /\ runtime = "inset"
    /\ runtime' = "effect"
    /\ UNCHANGED <<pools, capture, latest, inputs, canvas, output, held>>

\* DiscoEffect::apply
Disco ==
    /\ runtime = "effect"
    /\ runtime' = "show"
    /\ Writes("disco")

(* The end of tick: the frame becomes the output.                             *)
Show ==
    /\ runtime \in {"effect", "show"}
    /\ runtime' = "idle"
    /\ output' = canvas /\ canvas' = NoFrame
    /\ UNCHANGED <<pools, capture, latest, inputs, held>>

\* show_off_output: a picture that is never written again
ShowOff ==
    /\ runtime = "background"
    /\ runtime' = "idle"
    /\ output' = NoFrame
    /\ UNCHANGED <<pools, capture, latest, inputs, canvas, held>>

----------------------------------------------------------------------------
\* Everyone else.

(* A consumer takes a picture it can see, for as long as it likes, and lets   *)
(* go of the one it had.                                                      *)
Take(consumer) ==
    /\ \E handle \in {output, NoFrame} \cup {latest[i] : i \in Inputs}
                        \cup {inputs[i] : i \in Inputs} :
          held' = [held EXCEPT ![consumer] = handle]
    /\ UNCHANGED <<pools, capture, latest, inputs, runtime, canvas, output>>

Next ==
    \/ \E input \in Inputs :
          Begin(input) \/ Keep(input) \/ Discard(input) \/ Stop(input)
    \/ Refresh \/ Single \/ Blend \/ Inset \/ NoInset \/ Disco \/ Show \/ ShowOff
    \/ \E consumer \in Consumers : Take(consumer)

Spec == Init /\ [][Next]_vars

----------------------------------------------------------------------------
TypeOK ==
    /\ pools \in [Pools -> [Slots -> Pictures]]
    /\ capture \in [Inputs -> [at : {"idle", "writes"}, slot : 0 .. Capacity]]
    /\ latest \in [Inputs -> Handles] /\ inputs \in [Inputs -> Handles]
    /\ runtime \in {"idle", "background", "inset", "effect", "show"}
    /\ canvas \in Handles /\ output \in Handles
    /\ held \in [Consumers -> Handles]

Intact(handle) == Content(handle) = handle.picture

(* A picture does not change while anyone holds it: not the one on air, in    *)
(* whatever way it shares its buffer with the webcam's capture, nor the one   *)
(* the interface still converts, while the captures and the compositor go on  *)
(* filling their buffers (FrameBufferPool::acquire_slot and the Arc's count). *)
HeldNeverChanges == \A handle \in Handed : Intact(handle)
=============================================================================
