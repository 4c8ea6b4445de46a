---------------------------- MODULE PicturesProofs ---------------------------
(***************************************************************************)
(* Proofs about the components that MCPictures composes, each in a part of *)
(* its own: a picture does not change while it is held, for any number of  *)
(* inputs, buffers and consumers (FrameBuffers); no failure and no crash   *)
(* loses a file of the configuration (ConfigStore); scaling reads and      *)
(* writes inside its pictures, of any size, and its two ways agree         *)
(* (FrameScaling); the comparison with the reference does not depend on    *)
(* the way the reference took, and is perfect for an equal picture only    *)
(* (PictureComparison).                                                    *)
(***************************************************************************)
EXTENDS MCPictures, TLAPS, WellFoundedInduction

\* A buffer a callback writes is one nobody refers to.
WritingIsFree ==
    \A input \in Inputs :
        capture[input].at = "writes" /\ capture[input].slot # 0
            => ~Referenced(input, capture[input].slot)

IInv == TypeOK /\ HeldNeverChanges /\ WritingIsFree

\* What is acquired is a free buffer, or none.
LEMMA AcquiredIsFree ==
    ASSUME NEW pool \in Pools
    PROVE  /\ Acquired(pool) \in 0 .. Capacity
           /\ Acquired(pool) # 0 => ~Referenced(pool, Acquired(pool))
<1>1. CASE Free(pool) = {}
  BY <1>1, BuffersAssumption DEF Acquired
<1>2. CASE Free(pool) # {}
  <2>1. Free(pool) \in SUBSET Nat
    BY BuffersAssumption DEF Free, Slots
  <2>2. \E slot \in Free(pool) : \A other \in Free(pool) :
            ~(<<other, slot>> \in OpToRel(<, Nat))
    BY <1>2, <2>1, WFMin, NatLessThanWellFounded
  <2>3. \E slot \in Free(pool) : \A other \in Free(pool) : slot <= other
    <3>1. PICK slot \in Free(pool) : \A other \in Free(pool) :
              ~(<<other, slot>> \in OpToRel(<, Nat))
      BY <2>2
    <3>2. ASSUME NEW other \in Free(pool), ~(slot <= other)
          PROVE  FALSE
      <4>1. other < slot /\ other \in Nat /\ slot \in Nat
        BY <2>1, <3>2
      <4>2. <<other, slot>> \in OpToRel(<, Nat)
        BY <4>1 DEF OpToRel
      <4> QED
        BY <3>1, <4>2
    <3> QED
      BY <3>2
  <2>4. Acquired(pool) \in Free(pool)
    BY <1>2, <2>3 DEF Acquired
  <2> QED
    BY <2>4, BuffersAssumption DEF Free, Slots
<1> QED
  BY <1>1, <1>2

\* Filling a buffer keeps the types.
LEMMA StoredType ==
    ASSUME pools \in [Pools -> [Slots -> Pictures]],
           NEW pool \in Pools, NEW slot \in 0 .. Capacity,
           NEW picture \in Pictures
    PROVE  Stored(pool, slot, picture) \in [Pools -> [Slots -> Pictures]]
BY BuffersAssumption DEF Stored, Slots

\* A picture that lies elsewhere is not touched by filling a buffer.
LEMMA StoredElsewhere ==
    ASSUME pools \in [Pools -> [Slots -> Pictures]],
           NEW pool \in Pools, NEW slot \in 0 .. Capacity, NEW picture,
           pools' = Stored(pool, slot, picture),
           NEW handle \in Handles, Intact(handle),
           slot # 0 => ~Refers(handle, pool, slot)
    PROVE  Intact(handle)'
<1>1. handle.pool \in Pools /\ handle.slot \in 0 .. Capacity
  BY DEF Handles
<1>2. CASE handle.slot = 0
  BY <1>2 DEF Intact, Content
<1>3. CASE slot = 0
  BY <1>3 DEF Stored, Intact, Content
<1>4. CASE handle.slot # 0 /\ slot # 0
  <2>1. handle.slot \in Slots /\ slot \in Slots
    BY <1>1, <1>4, BuffersAssumption DEF Slots
  <2>2. pools'[handle.pool][handle.slot] = pools[handle.pool][handle.slot]
    BY <1>1, <1>4, <2>1 DEF Stored, Refers
  <2> QED
    BY <2>2, <1>4 DEF Intact, Content
<1> QED
  BY <1>2, <1>3, <1>4

\* The picture just filled in is what its reference says.
LEMMA StoredHere ==
    ASSUME pools \in [Pools -> [Slots -> Pictures]],
           NEW pool \in Pools, NEW slot \in 0 .. Capacity, NEW picture,
           pools' = Stored(pool, slot, picture)
    PROVE  Intact(Handle(pool, slot, picture))'
<1>1. CASE slot = 0
  BY <1>1 DEF Intact, Content, Handle
<1>2. CASE slot # 0
  <2>1. slot \in Slots
    BY <1>2, BuffersAssumption DEF Slots
  <2> QED
    BY <1>2, <2>1 DEF Intact, Content, Handle, Stored
<1> QED
  BY <1>1, <1>2

LEMMA HandleType ==
    ASSUME NEW pool \in Pools, NEW slot \in 0 .. Capacity,
           NEW picture \in Pictures
    PROVE  /\ Handle(pool, slot, picture) \in Handles
           /\ Handle(pool, slot, picture).pool = pool
           /\ Handle(pool, slot, picture).slot = slot
BY DEF Handle, Handles

LEMMA NoFrameType == NoFrame \in Handles /\ NoFrame.slot = 0 /\ Intact(NoFrame)
BY BuffersAssumption
   DEF NoFrame, Own, Handle, Handles, Pools, Stages, Pictures, Intact, Content

LEMMA HandedType == ASSUME TypeOK PROVE Handed \subseteq Handles
BY DEF TypeOK, Handed

(* A step that fills one free buffer, hands out nothing but that, and moves   *)
(* the references there were around, keeps all pictures.                      *)
LEMMA FillKeeps ==
    ASSUME IInv,
           NEW pool \in Pools, NEW slot \in 0 .. Capacity,
           NEW picture \in Pictures,
           slot # 0 => ~Referenced(pool, slot),
           pools' = Stored(pool, slot, picture),
           Handed' \subseteq Handed \cup
               {NoFrame, Handle(pool, slot, picture)}
    PROVE  HeldNeverChanges'
<1> SUFFICES ASSUME NEW handle \in Handed'
             PROVE  Intact(handle)'
  BY DEF HeldNeverChanges
<1>0. pools \in [Pools -> [Slots -> Pictures]] /\ Handed \subseteq Handles
  BY HandedType DEF IInv, TypeOK
<1>1. CASE handle \in Handed
  <2>1. Intact(handle) /\ handle \in Handles
    BY <1>0, <1>1 DEF IInv, HeldNeverChanges
  <2>2. slot # 0 => ~Refers(handle, pool, slot)
    BY <1>1 DEF Referenced
  <2> QED
    BY <1>0, <2>1, <2>2, StoredElsewhere
<1>2. CASE handle = NoFrame
  BY <1>2 DEF Intact, Content, NoFrame, Own, Handle
<1>3. CASE handle = Handle(pool, slot, picture)
  BY <1>0, <1>3, StoredHere
<1> QED
  BY <1>1, <1>2, <1>3

\* A step that leaves the buffers alone and hands out nothing new.
LEMMA MoveKeeps ==
    ASSUME IInv, UNCHANGED <<pools, capture>>,
           Handed' \subseteq Handed \cup {NoFrame}
    PROVE  HeldNeverChanges' /\ WritingIsFree'
<1>1. HeldNeverChanges'
  BY DEF IInv, HeldNeverChanges, Intact, Content, NoFrame, Own, Handle
<1>2. ASSUME NEW input \in Inputs,
             capture[input].at = "writes", capture[input].slot # 0
      PROVE  \A handle \in Handed' : ~Refers(handle, input, capture[input].slot)
  <2>1. ~Referenced(input, capture[input].slot)
    BY <1>2 DEF IInv, WritingIsFree
  <2>2. ~Refers(NoFrame, input, capture[input].slot)
    BY <1>2, NoFrameType DEF Refers
  <2> QED
    BY <2>1, <2>2 DEF Referenced
<1>3. WritingIsFree'
  BY <1>2 DEF WritingIsFree, Referenced, Refers
<1> QED
  BY <1>1, <1>3

\* The initial pictures are blank, and so are the buffers.
LEMMA InitInv == Init => IInv
<1> SUFFICES ASSUME Init
             PROVE  IInv
  OBVIOUS
<1> USE DEF Init
<1>1. TypeOK
  BY NoFrameType, BuffersAssumption DEF TypeOK, Pictures
<1>2. HeldNeverChanges
  BY NoFrameType DEF HeldNeverChanges, Handed
<1>3. WritingIsFree
  BY DEF WritingIsFree
<1> QED
  BY <1>1, <1>2, <1>3 DEF IInv

\* A callback begins to fill the buffer it acquired.
LEMMA BeginKeeps ==
    ASSUME IInv, NEW input \in Inputs, Begin(input)
    PROVE  IInv'
<1> DEFINE slot == Acquired(input)
<1>0. input \in Pools /\ TypeOK
  BY DEF Pools, IInv
<1>1. slot \in 0 .. Capacity /\ (slot # 0 => ~Referenced(input, slot))
  BY <1>0, AcquiredIsFree
<1>2. Blank \in Pictures /\ pools' = Stored(input, slot, Blank)
  BY DEF Pictures, Begin
<1>3. Handed' = Handed
  BY DEF Handed, Begin
<1> HIDE DEF slot
<1>4. TypeOK'
  <2>1. pools' \in [Pools -> [Slots -> Pictures]]
    BY <1>0, <1>1, <1>2, StoredType DEF TypeOK
  <2>2. capture' = [capture EXCEPT ![input] = [at |-> "writes", slot |-> slot]]
    BY DEF Begin, slot
  <2> QED
    BY <1>0, <1>1, <2>1, <2>2 DEF TypeOK, Begin
<1>5. HeldNeverChanges'
  BY <1>0, <1>1, <1>2, <1>3, FillKeeps
<1>6. WritingIsFree'
  <2>1. capture' = [capture EXCEPT ![input] = [at |-> "writes", slot |-> slot]]
    BY DEF Begin, slot
  <2>2. ASSUME NEW i \in Inputs, capture'[i].at = "writes",
               capture'[i].slot # 0
        PROVE  \A handle \in Handed : ~Refers(handle, i, capture'[i].slot)
    <3>1. CASE i = input
      BY <1>0, <1>1, <2>1, <2>2, <3>1 DEF TypeOK, Referenced
    <3>2. CASE i # input
      <4>1. capture'[i] = capture[i]
        BY <1>0, <2>1, <3>2 DEF TypeOK
      <4>2. ~Referenced(i, capture[i].slot)
        BY <2>2, <4>1 DEF IInv, WritingIsFree
      <4> QED
        BY <4>1, <4>2 DEF Referenced
    <3> QED
      BY <3>1, <3>2
  <2> QED
    BY <1>3, <2>2 DEF WritingIsFree, Referenced, Refers
<1> QED
  BY <1>4, <1>5, <1>6 DEF IInv

\* The filled buffer is handed out.
LEMMA KeepKeeps ==
    ASSUME IInv, NEW input \in Inputs, Keep(input)
    PROVE  IInv'
<1> DEFINE slot == capture[input].slot
<1>0. input \in Pools /\ TypeOK
  BY DEF Pools, IInv
<1>1. PICK shot \in Shots :
         /\ pools' = Stored(input, slot, shot)
         /\ latest' = [latest EXCEPT ![input] = Handle(input, slot, shot)]
  BY DEF Keep
<1>2. slot \in 0 .. Capacity /\ (slot # 0 => ~Referenced(input, slot))
  BY <1>0 DEF TypeOK, Keep, IInv, WritingIsFree
<1>3. shot \in Pictures /\ Handle(input, slot, shot) \in Handles
  BY <1>0, <1>2, HandleType DEF Pictures
<1>4. capture' = [capture EXCEPT ![input] = [at |-> "idle", slot |-> 0]]
      /\ UNCHANGED <<inputs, runtime, canvas, output, held>>
  BY DEF Keep
<1> HIDE DEF slot
<1>5. Handed' \subseteq Handed \cup {NoFrame, Handle(input, slot, shot)}
  BY <1>0, <1>1, <1>4 DEF Handed, TypeOK
<1>6. TypeOK'
  <2>1. pools' \in [Pools -> [Slots -> Pictures]]
    BY <1>0, <1>1, <1>2, <1>3, StoredType DEF TypeOK
  <2> QED
    BY <1>0, <1>1, <1>3, <1>4, <2>1, BuffersAssumption DEF TypeOK
<1>7. HeldNeverChanges'
  BY <1>0, <1>1, <1>2, <1>3, <1>5, FillKeeps
<1>8. WritingIsFree'
  <2>1. ASSUME NEW i \in Inputs, capture'[i].at = "writes",
               capture'[i].slot # 0
        PROVE  \A handle \in Handed' : ~Refers(handle, i, capture'[i].slot)
    <3>1. i # input /\ capture'[i] = capture[i]
      BY <1>0, <1>4, <2>1 DEF TypeOK
    <3>2. ~Referenced(i, capture[i].slot)
      BY <2>1, <3>1 DEF IInv, WritingIsFree
    <3>3. ~Refers(NoFrame, i, capture[i].slot)
      BY <2>1, <3>1, NoFrameType DEF Refers
    <3>4. ~Refers(Handle(input, slot, shot), i, capture[i].slot)
      BY <3>1 DEF Refers, Handle
    <3> QED
      BY <1>5, <3>1, <3>2, <3>3, <3>4 DEF Referenced
  <2> QED
    BY <2>1 DEF WritingIsFree, Referenced, Refers
<1> QED
  BY <1>6, <1>7, <1>8 DEF IInv

\* The compositor fills a buffer of one of its stages.
LEMMA WritesKeeps ==
    ASSUME IInv, NEW stage \in Stages, Writes(stage),
           runtime' \in {"idle", "background", "inset", "effect", "show"}
    PROVE  IInv'
<1> DEFINE slot == Acquired(stage)
<1>0. stage \in Pools /\ TypeOK
  BY DEF Pools, IInv
<1>1. PICK shot \in Shots : /\ pools' = Stored(stage, slot, shot)
                            /\ canvas' = Handle(stage, slot, shot)
  BY DEF Writes
<1>2. slot \in 0 .. Capacity /\ (slot # 0 => ~Referenced(stage, slot))
  BY <1>0, AcquiredIsFree
<1>3. shot \in Pictures /\ Handle(stage, slot, shot) \in Handles
  BY <1>0, <1>2, HandleType DEF Pictures
<1>4. UNCHANGED <<capture, latest, inputs, output, held>>
  BY DEF Writes
<1> HIDE DEF slot
<1>5. Handed' \subseteq Handed \cup {NoFrame, Handle(stage, slot, shot)}
  BY <1>1, <1>4 DEF Handed
<1>6. TypeOK'
  <2>1. pools' \in [Pools -> [Slots -> Pictures]]
    BY <1>0, <1>1, <1>2, <1>3, StoredType DEF TypeOK
  <2> QED
    BY <1>0, <1>1, <1>3, <1>4, <2>1 DEF TypeOK
<1>7. HeldNeverChanges'
  BY <1>0, <1>1, <1>2, <1>3, <1>5, FillKeeps
<1>8. WritingIsFree'
  <2>1. ASSUME NEW i \in Inputs, capture[i].at = "writes",
               capture[i].slot # 0
        PROVE  \A handle \in Handed' : ~Refers(handle, i, capture[i].slot)
    <3>1. ~Referenced(i, capture[i].slot)
      BY <2>1 DEF IInv, WritingIsFree
    <3>2. ~Refers(NoFrame, i, capture[i].slot)
      BY <2>1, NoFrameType DEF Refers
    <3>3. i # stage
      BY BuffersAssumption
    <3>4. ~Refers(Handle(stage, slot, shot), i, capture[i].slot)
      BY <3>3 DEF Refers, Handle
    <3> QED
      BY <1>5, <3>1, <3>2, <3>4 DEF Referenced
  <2> QED
    BY <1>4, <2>1 DEF WritingIsFree, Referenced, Refers
<1> QED
  BY <1>6, <1>7, <1>8 DEF IInv

\* A callback gives up: one writer less.
LEMMA DiscardKeeps ==
    ASSUME IInv, NEW input \in Inputs, Discard(input)
    PROVE  IInv'
<1>1. TypeOK'
  BY BuffersAssumption DEF IInv, TypeOK, Discard
<1>2. HeldNeverChanges'
  BY DEF IInv, HeldNeverChanges, Handed, Intact, Content, Discard
<1>3. WritingIsFree'
  BY DEF IInv, TypeOK, WritingIsFree, Referenced, Refers, Handed, Discard
<1> QED
  BY <1>1, <1>2, <1>3 DEF IInv

(* Every step keeps the invariant: the steps that fill a buffer by the lemmas *)
(* above, the others because they only move references.                       *)
LEMMA NextKeeps == IInv /\ [Next]_vars => IInv'
<1> SUFFICES ASSUME IInv, [Next]_vars
             PROVE  IInv'
  OBVIOUS
<1> USE DEF IInv
<1>1. ASSUME NEW input \in Inputs, Begin(input)
      PROVE  IInv'
  BY <1>1, BeginKeeps
<1>2. ASSUME NEW input \in Inputs, Keep(input)
      PROVE  IInv'
  BY <1>2, KeepKeeps
<1>3. ASSUME NEW input \in Inputs, Discard(input)
      PROVE  IInv'
  BY <1>3, DiscardKeeps
<1>4. ASSUME NEW input \in Inputs, Stop(input)
      PROVE  IInv'
  <2>1. TypeOK'
    BY <1>4, NoFrameType DEF TypeOK, Stop
  <2>2. Handed' \subseteq Handed \cup {NoFrame}
    BY <1>4 DEF TypeOK, Handed, Stop
  <2> QED
    BY <1>4, <2>1, <2>2, MoveKeeps DEF Stop
<1>5. CASE Refresh
  <2>1. PICK usable \in SUBSET Inputs :
           inputs' = [input \in Inputs |->
                         IF input \in usable THEN latest[input] ELSE NoFrame]
    BY <1>5 DEF Refresh
  <2>2. TypeOK'
    BY <1>5, <2>1, NoFrameType DEF TypeOK, Refresh
  <2>3. Handed' \subseteq Handed \cup {NoFrame}
    BY <1>5, <2>1 DEF Handed, Refresh
  <2> QED
    BY <1>5, <2>2, <2>3, MoveKeeps DEF Refresh
<1>6. CASE Single
  <2>1. TypeOK'
    BY <1>6 DEF TypeOK, Single
  <2>2. Handed' \subseteq Handed \cup {NoFrame}
    BY <1>6 DEF Handed, Single
  <2> QED
    BY <1>6, <2>1, <2>2, MoveKeeps DEF Single
<1>7. CASE Blend
  BY <1>7, WritesKeeps DEF Blend, Stages
<1>8. CASE Inset
  BY <1>8, WritesKeeps DEF Inset, Stages
<1>9. CASE NoInset
  <2>1. TypeOK' /\ Handed' = Handed
    BY <1>9 DEF TypeOK, NoInset, Handed
  <2> QED
    BY <1>9, <2>1, MoveKeeps DEF NoInset
<1>10. CASE Disco
  BY <1>10, WritesKeeps DEF Disco, Stages
<1>11. CASE Show
  <2>1. TypeOK'
    BY <1>11, NoFrameType DEF TypeOK, Show
  <2>2. Handed' \subseteq Handed \cup {NoFrame}
    BY <1>11 DEF Handed, Show
  <2> QED
    BY <1>11, <2>1, <2>2, MoveKeeps DEF Show
<1>12. CASE ShowOff
  <2>1. TypeOK'
    BY <1>12, NoFrameType DEF TypeOK, ShowOff
  <2>2. Handed' \subseteq Handed \cup {NoFrame}
    BY <1>12 DEF Handed, ShowOff
  <2> QED
    BY <1>12, <2>1, <2>2, MoveKeeps DEF ShowOff
<1>13. ASSUME NEW consumer \in Consumers, Take(consumer)
       PROVE  IInv'
  <2>1. PICK handle \in Handed \cup {NoFrame} :
           held' = [held EXCEPT ![consumer] = handle]
    BY <1>13 DEF Take, Handed
  <2>2. handle \in Handles
    BY HandedType, NoFrameType
  <2>3. TypeOK'
    BY <1>13, <2>1, <2>2 DEF TypeOK, Take
  <2>4. Handed' \subseteq Handed \cup {NoFrame}
    BY <1>13, <2>1 DEF TypeOK, Handed, Take
  <2> QED
    BY <1>13, <2>3, <2>4, MoveKeeps DEF Take
<1>14. CASE UNCHANGED vars
  <2>1. TypeOK' /\ Handed' = Handed
    BY <1>14 DEF TypeOK, vars, Handed
  <2> QED
    BY <1>14, <2>1, MoveKeeps DEF vars
<1> QED
  BY <1>1, <1>2, <1>3, <1>4, <1>5, <1>6, <1>7, <1>8, <1>9, <1>10, <1>11,
     <1>12, <1>13, <1>14 DEF Next

(* A picture never changes while anyone holds it, with any number of inputs,  *)
(* buffers and consumers (FrameBufferPool::acquire_slot).                     *)
THEOREM HeldPicturesStay == Spec => []HeldNeverChanges
<1>1. IInv => HeldNeverChanges
  BY DEF IInv
<1> QED
  BY <1>1, InitInv, NextKeeps, PTL DEF Spec

\* Buffers, references and stages have their types in every state.
THEOREM TypeCorrect == Spec => []TypeOK
<1>1. IInv => TypeOK
  BY DEF IInv
<1> QED
  BY <1>1, InitInv, NextKeeps, PTL DEF Spec

\* A behaviour of the composition is a behaviour of the buffers.
THEOREM PicturesRunBuffers == MCSpec => Spec /\ []HeldNeverChanges
<1>1. MCInit => Init
  BY DEF MCInit
<1>2. [MCNext]_<<part, vars, scalingVars, fileVars, matchingVars>> => [Next]_vars
  BY DEF MCNext, vars
<1> QED
  BY <1>1, <1>2, HeldPicturesStay, PTL DEF MCSpec, Spec

----------------------------------------------------------------------------
\* The files of the configuration (ConfigStore).

\* What an operation that restores the profile has done so far, unless a picture
\* was saved meanwhile.
RestoreGoesOn ==
    counts.overlap = 0 =>
       /\ pc \in {"keep", "reference"} => op.before = <<primary, reference>>
       /\ pc = "reference" => op.kept = reference
       /\ pc \in {"backup", "copying", "replace"} /\ op.then = "restore" =>
             /\ op.before = <<primary, op.kept>>
             /\ op.saving = op.job.config /\ reference = Files!Snapshot(op.job)
       /\ pc = "roll back" => op.before = <<primary, op.kept>>
       /\ pc = "restored" =>
             primary = op.job.config /\ reference = Files!Snapshot(op.job)
       /\ pc = "not restored" /\ counts.trouble <= 1
             => op.before = <<primary, reference>>

\* What is restored can be, and is given up only for a failure.
RestoreIsSound ==
    /\ Files!Restoring => Files!Loadable(op.job)
    /\ pc \in {"roll back", "not restored"} => counts.trouble > 0

\* A profile is written after its picture, and another file than the old one's.
ProfileGoesOn ==
    /\ profile.file <= counts.snapshot
    /\ pc \in {"snapshot", "snapping"} => reference \in Picture
    /\ pc \in {"snapshot", "snapping", "profile"} => op.job \in Files!Profile
    /\ pc = "snapshot" => op.job.file = 0
    /\ pc = "snapping" => op.job.file # 0
    /\ pc = "profile" => Files!Loadable(op.job)
    /\ pc \in {"snapping", "profile", "drop old"} =>
          /\ op.job.file <= counts.snapshot
          /\ op.job.file # 0 => op.job.file # profile.file

\* Until something fails there are the profile's picture and the one to replace it
\* or to be dropped.
PicturesAreNamed ==
    counts.crash = 0 /\ counts.trouble = 0 =>
       \A n \in Files!SnapshotName : snapshots[n] # None =>
          \/ n = profile.file
          \/ n = op.job.file /\ pc \in {"snapping", "profile", "drop old"}

\* Until something fails the backup is complete but while it is written, and it
\* stays so when the configuration is damaged, until that is replaced.
BackupIsKept ==
    /\ primary = Torn => counts.spoil > 0
    /\ counts.crash = 0 /\ counts.trouble = 0 /\ counts.spoil <= 1 =>
          \/ backup \in Config \cup {None}
          \/ pc = "copying"
          \/ pc = "replace" /\ primary = Torn
          \/ counts.spoil = 1 /\ primary # Torn

StoreInv ==
    /\ Files!TypeOK /\ Files!ProfileIsWhole
    /\ RestoreGoesOn /\ RestoreIsSound
    /\ ProfileGoesOn /\ PicturesAreNamed /\ BackupIsKept

\* What the model assumes of its constants.
LEMMA ContentsAre ==
    /\ Default \in Config /\ Torn # None
    /\ Torn \notin Config /\ Torn \notin Picture /\ None \notin Config /\ None \notin Picture
    /\ Torn \notin {"open", "dismissed"} /\ None \notin {"open", "dismissed"}
    /\ Troubles \in Nat /\ Crashes \in Nat /\ Spoilings \in Nat
    /\ Captures \in Nat /\ Snapshots \in Nat
  BY PicturesRunAssumption DEF Files!ContentAssumption, Files!StoreBounds

\* The shape of the counts.
Counts ==
    [trouble : 0 .. Troubles, crash : 0 .. Crashes, spoil : 0 .. Spoilings,
     capture : 0 .. Captures, snapshot : 0 .. Snapshots, overlap : 0 .. 1]

\* The counts only grow, and they are numbers.
CountsGrow ==
    /\ counts' \in Counts
    /\ counts.trouble <= counts'.trouble /\ counts.crash <= counts'.crash
    /\ counts.spoil <= counts'.spoil /\ counts.snapshot <= counts'.snapshot
    /\ counts.overlap <= counts'.overlap

\* Something works or fails.
LEMMA WorksOrFails ==
    ASSUME counts \in Counts, Files!Works \/ Files!Trouble
    PROVE  /\ CountsGrow
           /\ counts'.snapshot = counts.snapshot /\ counts'.overlap = counts.overlap
           /\ counts'.crash = counts.crash /\ counts'.spoil = counts.spoil
           /\ Files!Trouble => counts'.trouble = counts.trouble + 1
<1> USE ContentsAre
<1>1. CASE Files!Works
  BY <1>1 DEF Files!Works, Counts, CountsGrow, Files!Trouble
<1>2. CASE Files!Trouble
  BY <1>2 DEF Files!Trouble, Counts, CountsGrow
<1> QED
  BY <1>1, <1>2

\* Steps count upwards.
LEMMA CountsKept ==
    ASSUME StoreInv, Files!Next
    PROVE  CountsGrow
<1>0. counts \in Counts
  BY DEF StoreInv, Files!TypeOK, Counts
<1>1. CASE Files!InitializeGuide
  <2>1. Files!Works \/ Files!Trouble
    BY <1>1 DEF Files!InitializeGuide
  <2> QED
    BY <1>0, <2>1, WorksOrFails
<1>2. CASE Files!RestoreOnLaunch
  <2>1. Files!Works \/ Files!Trouble
    BY <1>2 DEF Files!RestoreOnLaunch, Files!Restores
  <2> QED
    BY <1>0, <2>1, WorksOrFails
<1>3. CASE Files!LoadConfig
  <2>1. Files!Works
    BY <1>3 DEF Files!LoadConfig, Files!Works
  <2> QED
    BY <1>0, <2>1, WorksOrFails
<1>4. CASE Files!BeginBackup
  <2>1. Files!Works \/ Files!Trouble
    BY <1>4 DEF Files!BeginBackup
  <2> QED
    BY <1>0, <2>1, WorksOrFails
<1>5. CASE Files!EndBackup
  <2>1. Files!Works \/ Files!Trouble
    BY <1>5 DEF Files!EndBackup
  <2> QED
    BY <1>0, <2>1, WorksOrFails
<1>6. CASE Files!ReplaceConfig
  <2>1. Files!Works \/ Files!Trouble
    BY <1>6 DEF Files!ReplaceConfig
  <2> QED
    BY <1>0, <2>1, WorksOrFails
<1>7. CASE Files!KeepReference
  <2>1. Files!Works \/ Files!Trouble
    BY <1>7 DEF Files!KeepReference
  <2> QED
    BY <1>0, <2>1, WorksOrFails
<1>8. CASE Files!RestoreReference
  <2>1. Files!Works \/ Files!Trouble
    BY <1>8 DEF Files!RestoreReference
  <2> QED
    BY <1>0, <2>1, WorksOrFails
<1>9. CASE Files!RollBackReference
  <2>1. Files!Works \/ Files!Trouble
    BY <1>9 DEF Files!RollBackReference
  <2> QED
    BY <1>0, <2>1, WorksOrFails
<1>10. CASE Files!EndRestore
  <2>1. Files!Works
    BY <1>10 DEF Files!EndRestore, Files!Works
  <2> QED
    BY <1>0, <2>1, WorksOrFails
<1>11. CASE Files!FlushSettings
  <2>1. Files!Works
    BY <1>11 DEF Files!FlushSettings, Files!Works
  <2> QED
    BY <1>0, <2>1, WorksOrFails
<1>12. CASE Files!LoadAdminConfig
  <2>1. Files!Works \/ Files!Trouble
    BY <1>12 DEF Files!LoadAdminConfig, Files!Restores
  <2> QED
    BY <1>0, <2>1, WorksOrFails
<1>13. CASE Files!SaveReference
  <2>1. counts' \in {[counts EXCEPT !.capture = counts.capture + 1, !.overlap = 1],
                     [counts EXCEPT !.capture = counts.capture + 1]}
         /\ counts.capture < Captures
    BY <1>13 DEF Files!SaveReference
  <2>2. CASE counts' = [counts EXCEPT !.capture = counts.capture + 1, !.overlap = 1]
    <3>1. counts.capture + 1 \in 0 .. Captures
      BY <1>0, <2>1, ContentsAre DEF Counts
    <3>2. counts' \in Counts
      <4>1. [counts EXCEPT !.overlap = 1] \in Counts
        BY <1>0 DEF Counts
      <4>2. counts' = [[counts EXCEPT !.overlap = 1] EXCEPT !.capture = counts.capture + 1]
        BY <1>0, <2>2 DEF Counts
      <4> QED
        BY <3>1, <4>1, <4>2 DEF Counts
    <3>3. counts'.overlap = 1 /\ counts.overlap <= 1
      BY <1>0, <2>2 DEF Counts
    <3> QED
      BY <1>0, <2>2, <3>2, <3>3 DEF Counts, CountsGrow
  <2>3. CASE counts' = [counts EXCEPT !.capture = counts.capture + 1]
    BY <1>0, <2>1, <2>3, ContentsAre DEF Counts, CountsGrow
  <2> QED
    BY <2>1, <2>2, <2>3
<1>14. CASE Files!SaveAdminBaseline
  <2>1. Files!Works \/ Files!Trouble
    BY <1>14 DEF Files!SaveAdminBaseline
  <2> QED
    BY <1>0, <2>1, WorksOrFails
<1>15. CASE Files!CreateSnapshot
  BY <1>0, <1>15, ContentsAre DEF Files!CreateSnapshot, Counts, CountsGrow
<1>16. CASE Files!CopySnapshot
  <2>1. Files!Works \/ Files!Trouble
    BY <1>16 DEF Files!CopySnapshot
  <2> QED
    BY <1>0, <2>1, WorksOrFails
<1>17. CASE Files!ReplaceProfile
  <2>1. Files!Works \/ Files!Trouble
    BY <1>17 DEF Files!ReplaceProfile
  <2> QED
    BY <1>0, <2>1, WorksOrFails
<1>18. CASE Files!DropOldSnapshot
  <2>1. Files!Works \/ Files!Trouble
    BY <1>18 DEF Files!DropOldSnapshot
  <2> QED
    BY <1>0, <2>1, WorksOrFails
<1>19. CASE Files!SetAdminAutoRestore
  <2>1. Files!Works \/ Files!Trouble
    BY <1>19 DEF Files!SetAdminAutoRestore
  <2> QED
    BY <1>0, <2>1, WorksOrFails
<1>20. CASE Files!RemoveAdminBaseline
  <2>1. Files!Works \/ Files!Trouble
    BY <1>20 DEF Files!RemoveAdminBaseline
  <2> QED
    BY <1>0, <2>1, WorksOrFails
<1>21. CASE Files!MarkGuideCompleted
  <2>1. Files!Works \/ Files!Trouble
    BY <1>21 DEF Files!MarkGuideCompleted
  <2> QED
    BY <1>0, <2>1, WorksOrFails
<1>22. CASE Files!GuideWritten
  <2>1. Files!Works
    BY <1>22 DEF Files!GuideWritten, Files!Works
  <2> QED
    BY <1>0, <2>1, WorksOrFails
<1>23. CASE Files!Exit
  <2>1. Files!Works
    BY <1>23 DEF Files!Exit, Files!Works
  <2> QED
    BY <1>0, <2>1, WorksOrFails
<1>24. CASE Files!Crash
  BY <1>0, <1>24, ContentsAre DEF Files!Crash, Counts, CountsGrow
<1>25. CASE Files!Spoil
  BY <1>0, <1>25, ContentsAre DEF Files!Spoil, Counts, CountsGrow
<1> QED
  BY <1>0, <1>1, <1>2, <1>3, <1>4, <1>5, <1>6, <1>7, <1>8, <1>9, <1>10, <1>11,
     <1>12, <1>13, <1>14, <1>15, <1>16, <1>17, <1>18, <1>19, <1>20, <1>21, <1>22,
     <1>23, <1>24, <1>25 DEF Files!Next

\* What an operation remembers keeps its shape.
LEMMA OperationKept ==
    ASSUME StoreInv, Files!Next
    PROVE  op' \in Files!Operation
<1> USE DEF Files!Goes, Files!Ends
<1>0. /\ op \in Files!Operation /\ counts \in Counts
      /\ primary \in Config \cup {Torn, None} /\ reference \in Picture \cup {None}
      /\ profile \in Files!Profiles /\ config \in Config
      /\ Files!NoProfile \in Files!Profiles
  BY DEF StoreInv, Files!TypeOK, Counts, Files!Profiles
<1>a. ASSUME op' \in {op, Files!NoOperation}
      PROVE  op' \in Files!Operation
  BY <1>0, <1>a, ContentsAre DEF Files!NoOperation, Files!Operation, Files!Profiles
<1>1. CASE Files!InitializeGuide
  <2>1. op' \in {op, Files!NoOperation}
    BY <1>1 DEF Files!InitializeGuide
  <2> QED
    BY <1>a, <2>1
<1>2. CASE Files!RestoreOnLaunch
  <2>1. op' \in {Files!NoOperation, [op EXCEPT !.from = "launch", !.job = profile,
                                             !.before = <<primary, reference>>]}
    BY <1>2 DEF Files!RestoreOnLaunch, Files!Restores, Files!Ends
  <2>2. <<primary, reference>> \in (Config \cup {Torn, None}) \X (Picture \cup {None})
    BY <1>0
  <2>3. [op EXCEPT !.from = "launch", !.job = profile, !.before = <<primary, reference>>]
          \in Files!Operation
    BY <1>0, <2>2 DEF Files!Operation
  <2> QED
    BY <1>a, <2>1, <2>3
<1>3. CASE Files!LoadConfig
  <2>1. CASE Files!UsedDefaults
    <3>1. Files!Loaded \in Config
      BY ContentsAre DEF Files!Loaded
    <3>2. op' = [op EXCEPT !.saving = Files!Loaded, !.then = "on"]
      BY <1>3, <2>1 DEF Files!LoadConfig, Files!Saves
    <3> QED
      BY <1>0, <3>1, <3>2 DEF Files!Operation
  <2>2. CASE ~Files!UsedDefaults
    BY <1>a, <1>3, <2>2 DEF Files!LoadConfig, Files!Ends
  <2> QED
    BY <2>1, <2>2
<1>4. CASE Files!BeginBackup
  <2>1. op' \in {op, Files!NoOperation}
    BY <1>4 DEF Files!BeginBackup, Files!SaveEnds
  <2> QED
    BY <1>a, <2>1
<1>5. CASE Files!EndBackup
  <2>1. op' \in {op, Files!NoOperation}
    BY <1>5 DEF Files!EndBackup, Files!SaveEnds
  <2> QED
    BY <1>a, <2>1
<1>6. CASE Files!ReplaceConfig
  <2>1. op' \in {op, Files!NoOperation}
    BY <1>6 DEF Files!ReplaceConfig, Files!SaveEnds
  <2> QED
    BY <1>a, <2>1
<1>7. CASE Files!KeepReference
  <2>1. op' \in {op, [op EXCEPT !.kept = reference]}
    BY <1>7 DEF Files!KeepReference, Files!Goes
  <2> QED
    BY <1>0, <2>1 DEF Files!Operation
<1>8. CASE Files!RestoreReference
  <2>1. op' \in {op, [op EXCEPT !.saving = op.job.config, !.then = "restore"]}
    BY <1>8 DEF Files!RestoreReference, Files!Saves, Files!Goes
  <2>2. op.job.config \in Config
    BY <1>0, ContentsAre DEF Files!Operation, Files!Profiles, Files!Profile,
       Files!NoProfile
  <2> QED
    BY <1>0, <2>1, <2>2 DEF Files!Operation
<1>9. CASE Files!RollBackReference
  <2>1. op' \in {op, Files!NoOperation}
    BY <1>9 DEF Files!RollBackReference
  <2> QED
    BY <1>a, <2>1
<1>10. CASE Files!EndRestore
  <2>1. op' \in {op, Files!NoOperation}
    BY <1>10 DEF Files!EndRestore
  <2> QED
    BY <1>a, <2>1
<1>11. CASE Files!FlushSettings
  <2>1. op' = [op EXCEPT !.saving = config', !.then = "on"] /\ config' \in Config
    BY <1>0, <1>11 DEF Files!FlushSettings, Files!Saves
  <2> QED
    BY <1>0, <2>1 DEF Files!Operation
<1>12. CASE Files!LoadAdminConfig
  <2>1. op' \in {Files!NoOperation, [op EXCEPT !.from = "dialog", !.job = profile,
                                             !.before = <<primary, reference>>]}
    BY <1>12 DEF Files!LoadAdminConfig, Files!Restores, Files!Ends
  <2>2. <<primary, reference>> \in (Config \cup {Torn, None}) \X (Picture \cup {None})
    BY <1>0
  <2>3. [op EXCEPT !.from = "dialog", !.job = profile, !.before = <<primary, reference>>]
          \in Files!Operation
    BY <1>0, <2>2 DEF Files!Operation
  <2> QED
    BY <1>a, <2>1, <2>3
<1>13. CASE Files!SaveReference
  <2>1. op' \in {op, Files!NoOperation}
    BY <1>13 DEF Files!SaveReference
  <2> QED
    BY <1>a, <2>1
<1>14. CASE Files!SaveAdminBaseline
  <2>1. CASE Files!Ends("on")
    BY <1>a, <2>1 DEF Files!Ends
  <2>2. ASSUME NEW auto \in {"yes", "no"},
               op' = [op EXCEPT !.job = [config |-> config, file |-> 0, auto |-> auto]]
        PROVE  op' \in Files!Operation
    <3>1. [config |-> config, file |-> 0, auto |-> auto] \in Files!Profiles
      BY <1>0 DEF Files!Profiles, Files!Profile
    <3> QED
      BY <1>0, <2>2, <3>1 DEF Files!Operation
  <2>3. Files!Loadable(profile) => profile.auto \in {"yes", "no"}
    BY <1>0 DEF Files!Loadable, Files!Profiles, Files!Profile
  <2> QED
    BY <1>14, <2>1, <2>2, <2>3 DEF Files!SaveAdminBaseline
<1>15. CASE Files!CreateSnapshot
  <2>1. counts.snapshot + 1 \in Files!SnapshotName
    BY <1>0, <1>15, ContentsAre DEF Files!CreateSnapshot, Counts, Files!SnapshotName
  <2>2. op.job \in Files!Profile
    BY <1>15 DEF Files!CreateSnapshot, StoreInv, ProfileGoesOn
  <2>3. [op.job EXCEPT !.file = counts.snapshot + 1] \in Files!Profiles
    BY <2>1, <2>2 DEF Files!Profile, Files!Profiles
  <2>4. op' = [op EXCEPT !.job = [op.job EXCEPT !.file = counts.snapshot + 1]]
    BY <1>0, <1>15 DEF Files!CreateSnapshot, Files!Operation
  <2> QED
    BY <1>0, <2>3, <2>4 DEF Files!Operation
<1>16. CASE Files!CopySnapshot
  <2>1. op' \in {op, Files!NoOperation}
    BY <1>16 DEF Files!CopySnapshot
  <2> QED
    BY <1>a, <2>1
<1>17. CASE Files!ReplaceProfile
  <2>1. op' \in {op, Files!NoOperation} \cup {[op EXCEPT !.job = p] : p \in Files!Profiles}
    BY <1>0, <1>17 DEF Files!ReplaceProfile, Files!DropsOld, Files!Ends, Files!Profiles
  <2>2. \A p \in Files!Profiles : [op EXCEPT !.job = p] \in Files!Operation
    BY <1>0 DEF Files!Operation
  <2> QED
    BY <1>a, <2>1, <2>2
<1>18. CASE Files!DropOldSnapshot
  <2>1. op' \in {op, Files!NoOperation}
    BY <1>18 DEF Files!DropOldSnapshot
  <2> QED
    BY <1>a, <2>1
<1>19. CASE Files!SetAdminAutoRestore
  <2>1. op' \in {op, Files!NoOperation}
    BY <1>19 DEF Files!SetAdminAutoRestore
  <2> QED
    BY <1>a, <2>1
<1>20. CASE Files!RemoveAdminBaseline
  <2>1. op' \in {op, Files!NoOperation} \cup {[op EXCEPT !.job = p] : p \in Files!Profiles}
    BY <1>0, <1>20 DEF Files!RemoveAdminBaseline, Files!DropsOld, Files!Ends,
       Files!Profiles
  <2>2. \A p \in Files!Profiles : [op EXCEPT !.job = p] \in Files!Operation
    BY <1>0 DEF Files!Operation
  <2> QED
    BY <1>a, <2>1, <2>2
<1>21. CASE Files!MarkGuideCompleted
  <2>1. op' \in {op, Files!NoOperation}
    BY <1>21 DEF Files!MarkGuideCompleted
  <2> QED
    BY <1>a, <2>1
<1>22. CASE Files!GuideWritten
  <2>1. op' \in {op, Files!NoOperation}
    BY <1>22 DEF Files!GuideWritten
  <2> QED
    BY <1>a, <2>1
<1>23. CASE Files!Exit
  <2>1. op' = [op EXCEPT !.saving = config, !.then = "off"] /\ config \in Config
    BY <1>0, <1>23 DEF Files!Exit, Files!Saves
  <2> QED
    BY <1>0, <2>1 DEF Files!Operation
<1>24. CASE Files!Crash
  <2>1. op' \in {op, Files!NoOperation}
    BY <1>24 DEF Files!Crash
  <2> QED
    BY <1>a, <2>1
<1>25. CASE Files!Spoil
  <2>1. op' \in {op, Files!NoOperation}
    BY <1>25 DEF Files!Spoil
  <2> QED
    BY <1>a, <2>1
<1> QED
  BY <1>0, <1>1, <1>2, <1>3, <1>4, <1>5, <1>6, <1>7, <1>8, <1>9, <1>10, <1>11,
     <1>12, <1>13, <1>14, <1>15, <1>16, <1>17, <1>18, <1>19, <1>20, <1>21, <1>22,
     <1>23, <1>24, <1>25 DEF Files!Next

\* Steps keep the shape of the files.
LEMMA StoreTypeKept ==
    ASSUME StoreInv, Files!Next
    PROVE  Files!TypeOK'
<1> USE DEF Files!Goes, Files!Ends, Files!Saves, Files!store, Files!admin
<1>0. Files!TypeOK 
  BY DEF StoreInv
<1>f. op.saving \in Config /\ op.kept \in Picture \cup {None} /\ op.job \in Files!Profiles
      /\ op.then \in {"on", "off", "restore"}
  BY DEF StoreInv, Files!TypeOK, Files!Operation
<1>p. ASSUME /\ primary' \in Config \cup {Torn, None} /\ backup' \in Config \cup {Torn, None}
             /\ reference' \in Picture \cup {None} /\ profile' \in Files!Profiles
             /\ snapshots' \in [Files!SnapshotName -> Picture \cup {Torn, None}]
             /\ guide' \in {None, Torn, "open", "dismissed"}
             /\ config' \in Config /\ shown' \in {"yes", "no"}
             /\ pc' \in {"off", "on"} \cup Files!Steps
      PROVE  Files!TypeOK'
  BY <1>p, CountsKept, OperationKept DEF Files!TypeOK, CountsGrow, Counts
<1>1. CASE Files!InitializeGuide
  BY <1>0, <1>f, <1>p, <1>1, ContentsAre DEF Files!InitializeGuide,
     Files!HasExistingUserData, Files!TypeOK, Files!Steps
<1>2. CASE Files!RestoreOnLaunch
  BY <1>0, <1>f, <1>p, <1>2, ContentsAre DEF Files!RestoreOnLaunch, Files!Restores,
     Files!Loadable, Files!TypeOK, Files!Steps
<1>3. CASE Files!LoadConfig
  BY <1>0, <1>f, <1>p, <1>3, ContentsAre DEF Files!LoadConfig, Files!Loaded,
     Files!UsedDefaults, Files!TypeOK, Files!Steps
<1>4. CASE Files!BeginBackup
  BY <1>0, <1>f, <1>p, <1>4, ContentsAre DEF Files!BeginBackup, Files!SaveEnds,
     Files!TypeOK, Files!Steps
<1>5. CASE Files!EndBackup
  BY <1>0, <1>f, <1>p, <1>5, ContentsAre DEF Files!EndBackup, Files!SaveEnds,
     Files!TypeOK, Files!Steps
<1>6. CASE Files!ReplaceConfig
  BY <1>0, <1>f, <1>p, <1>6, ContentsAre DEF Files!ReplaceConfig, Files!SaveEnds,
     Files!TypeOK, Files!Steps
<1>7. CASE Files!KeepReference
  BY <1>0, <1>f, <1>p, <1>7, ContentsAre DEF Files!KeepReference, Files!TypeOK,
     Files!Steps
<1>8. CASE Files!RestoreReference
  <2>1. Files!Snapshot(op.job) \in Picture \cup {None}
    <3>1. Files!Loadable(op.job)
      BY <1>8 DEF Files!RestoreReference, StoreInv, RestoreIsSound, Files!Restoring
    <3> QED
      BY <3>1 DEF Files!Loadable, Files!Snapshot
  <2>2. reference' \in Picture \cup {None}
    BY <1>0, <2>1, <1>8 DEF Files!RestoreReference, Files!TypeOK
  <2> QED
    BY <1>0, <1>p, <1>8, <2>2 DEF Files!RestoreReference, Files!TypeOK, Files!Steps
<1>9. CASE Files!RollBackReference
  BY <1>0, <1>f, <1>p, <1>9, ContentsAre DEF Files!RollBackReference, Files!TypeOK,
     Files!Steps
<1>10. CASE Files!EndRestore
  BY <1>0, <1>f, <1>p, <1>10, ContentsAre DEF Files!EndRestore, Files!Loaded,
     Files!TypeOK, Files!Steps
<1>11. CASE Files!FlushSettings
  BY <1>0, <1>f, <1>p, <1>11, ContentsAre DEF Files!FlushSettings, Files!TypeOK,
     Files!Steps
<1>12. CASE Files!LoadAdminConfig
  BY <1>0, <1>f, <1>p, <1>12, ContentsAre DEF Files!LoadAdminConfig, Files!Restores,
     Files!Loadable, Files!TypeOK, Files!Steps
<1>13. CASE Files!SaveReference
  BY <1>0, <1>f, <1>p, <1>13, ContentsAre DEF Files!SaveReference, Files!Restoring,
     Files!TypeOK, Files!Steps
<1>14. CASE Files!SaveAdminBaseline
  BY <1>0, <1>f, <1>p, <1>14, ContentsAre DEF Files!SaveAdminBaseline, Files!Loadable,
     Files!TypeOK, Files!Steps
<1>15. CASE Files!CreateSnapshot
  BY <1>0, <1>f, <1>p, <1>15, ContentsAre DEF Files!CreateSnapshot, Files!TypeOK,
     Files!Steps
<1>16. CASE Files!CopySnapshot
  <2>1. reference \in Picture
    BY <1>16 DEF Files!CopySnapshot, StoreInv, ProfileGoesOn
  <2>2. snapshots' \in [Files!SnapshotName -> Picture \cup {Torn, None}]
    BY <1>0, <2>1, <1>16 DEF Files!CopySnapshot, Files!TypeOK
  <2> QED
    BY <1>0, <1>p, <1>16, <2>2 DEF Files!CopySnapshot, Files!TypeOK, Files!Steps
<1>17. CASE Files!ReplaceProfile
  BY <1>0, <1>f, <1>p, <1>17, ContentsAre DEF Files!ReplaceProfile, Files!DropsOld,
     Files!WithoutFile, Files!TypeOK, Files!Steps
<1>18. CASE Files!DropOldSnapshot
  BY <1>0, <1>f, <1>p, <1>18, ContentsAre DEF Files!DropOldSnapshot, Files!WithoutFile,
     Files!TypeOK, Files!Steps
<1>19. CASE Files!SetAdminAutoRestore
  <2>1. profile \in Files!Profile
    BY <1>0, <1>19 DEF Files!SetAdminAutoRestore, Files!Loadable, Files!TypeOK,
       Files!Profiles
  <2>2. profile' \in Files!Profiles
    BY <2>1, <1>19 DEF Files!SetAdminAutoRestore, Files!Profile, Files!Profiles
  <2> QED
    BY <1>0, <1>p, <1>19, <2>2 DEF Files!SetAdminAutoRestore, Files!TypeOK
<1>20. CASE Files!RemoveAdminBaseline
  <2>1. Files!NoProfile \in Files!Profiles
    BY DEF Files!Profiles
  <2> QED
    BY <1>0, <1>p, <1>20, <2>1 DEF Files!RemoveAdminBaseline, Files!DropsOld,
       Files!TypeOK,
       Files!Steps
<1>21. CASE Files!MarkGuideCompleted
  BY <1>0, <1>f, <1>p, <1>21, ContentsAre DEF Files!MarkGuideCompleted, Files!TypeOK,
     Files!Steps
<1>22. CASE Files!GuideWritten
  BY <1>0, <1>f, <1>p, <1>22, ContentsAre DEF Files!GuideWritten, Files!TypeOK,
     Files!Steps
<1>23. CASE Files!Exit
  BY <1>0, <1>f, <1>p, <1>23, ContentsAre DEF Files!Exit, Files!TypeOK, Files!Steps
<1>24. CASE Files!Crash
  BY <1>0, <1>f, <1>p, <1>24, ContentsAre DEF Files!Crash, Files!TypeOK, Files!Steps
<1>25. CASE Files!Spoil
  BY <1>0, <1>f, <1>p, <1>25, ContentsAre DEF Files!Spoil, Files!TypeOK, Files!Steps
<1> QED
  BY <1>0, <1>1, <1>2, <1>3, <1>4, <1>5, <1>6, <1>7, <1>8, <1>9, <1>10, <1>11,
     <1>12, <1>13, <1>14, <1>15, <1>16, <1>17, <1>18, <1>19, <1>20, <1>21, <1>22,
     <1>23, <1>24, <1>25 DEF Files!Next

\* What grows from a positive number is positive.
LEMMA Positive ==
    ASSUME NEW a \in Nat, NEW b \in Nat, a <= b
    PROVE  /\ a > 0 => b > 0
           /\ b = 0 => a = 0
           /\ a + 1 > 0
OBVIOUS

\* What a step does to the counts, for the invariants that mention them.
LEMMA CountsMatter ==
    ASSUME StoreInv, CountsGrow
    PROVE  /\ op \in Files!Operation /\ counts \in Counts /\ CountsGrow
           /\ Files!Works => counts' = counts
           /\ Files!Trouble =>
                 /\ counts'.trouble > 0 /\ counts'.trouble = counts.trouble + 1
                 /\ counts'.crash = counts.crash /\ counts'.spoil = counts.spoil
                 /\ counts'.snapshot = counts.snapshot
                 /\ counts'.overlap = counts.overlap
           /\ counts.trouble \in Nat /\ counts'.trouble \in Nat
           /\ counts.crash \in Nat /\ counts'.crash \in Nat
           /\ counts.spoil \in Nat /\ counts'.spoil \in Nat
           /\ counts.snapshot \in Nat /\ counts'.snapshot \in Nat
           /\ counts.overlap \in {0, 1} /\ counts'.overlap \in {0, 1}
           /\ counts.trouble > 0 => counts'.trouble > 0
           /\ counts'.trouble = 0 => counts.trouble = 0
           /\ counts'.crash = 0 => counts.crash = 0
           /\ counts'.overlap = 0 => counts.overlap = 0
           /\ 0 <= counts.snapshot /\ 0 <= counts'.snapshot
<1>1. op \in Files!Operation /\ counts \in Counts
  BY DEF StoreInv, Files!TypeOK, Counts
<1>2. \A c \in Counts :
          /\ c.trouble \in Nat /\ c.crash \in Nat /\ c.spoil \in Nat
          /\ c.snapshot \in Nat /\ 0 <= c.snapshot /\ c.overlap \in {0, 1} /\ c.overlap \in Nat
  BY ContentsAre DEF Counts
<1>3. counts' \in Counts
  BY DEF CountsGrow
<1>4. Files!Works => counts' = counts
  BY DEF Files!Works
<1>5. ASSUME Files!Trouble
      PROVE  /\ counts'.trouble > 0 /\ counts'.trouble = counts.trouble + 1
             /\ counts'.crash = counts.crash /\ counts'.spoil = counts.spoil
             /\ counts'.snapshot = counts.snapshot
             /\ counts'.overlap = counts.overlap
  BY <1>1, <1>2, <1>5, WorksOrFails, Positive
<1>6. /\ counts.trouble <= counts'.trouble /\ counts.crash <= counts'.crash
      /\ counts.overlap <= counts'.overlap
  BY DEF CountsGrow
<1>7. /\ counts.trouble > 0 => counts'.trouble > 0
      /\ counts'.trouble = 0 => counts.trouble = 0
      /\ counts'.crash = 0 => counts.crash = 0
      /\ counts'.overlap = 0 => counts.overlap = 0
  BY <1>1, <1>2, <1>3, <1>6, Positive
<1> QED
  BY <1>1, <1>2, <1>3, <1>4, <1>5, <1>7

\* The backup is complete when it is needed.
LEMMA BackupStaysKept ==
    ASSUME StoreInv, Files!Next
    PROVE  BackupIsKept'
<1>0. /\ op \in Files!Operation /\ counts \in Counts /\ CountsGrow
      /\ Files!Works => counts' = counts
      /\ Files!Trouble =>
            /\ counts'.trouble > 0 /\ counts'.trouble = counts.trouble + 1
            /\ counts'.crash = counts.crash /\ counts'.spoil = counts.spoil
            /\ counts'.snapshot = counts.snapshot /\ counts'.overlap = counts.overlap
  BY CountsKept, CountsMatter
<1>n. /\ counts.trouble \in Nat /\ counts'.trouble \in Nat
      /\ counts.crash \in Nat /\ counts'.crash \in Nat
      /\ counts.spoil \in Nat /\ counts'.spoil \in Nat
      /\ counts.snapshot \in Nat /\ counts'.snapshot \in Nat
      /\ counts.overlap \in {0, 1} /\ counts'.overlap \in {0, 1}
      /\ counts.trouble > 0 => counts'.trouble > 0
      /\ counts'.trouble = 0 => counts.trouble = 0
      /\ counts'.crash = 0 => counts.crash = 0
      /\ counts'.overlap = 0 => counts.overlap = 0
      /\ 0 <= counts.snapshot /\ 0 <= counts'.snapshot
  BY CountsKept, CountsMatter
<1>i. /\ BackupIsKept /\ op.saving \in Config
      /\ primary \in Config \cup {Torn, None} /\ backup \in Config \cup {Torn, None}
  BY DEF StoreInv, Files!TypeOK, Files!Operation
<1>t. ASSUME Files!Trouble, primary' = primary
      PROVE  BackupIsKept'
  BY <1>0, <1>n, <1>i, <1>t DEF BackupIsKept
<1>w. ASSUME UNCHANGED <<primary, backup>>, counts'.spoil = counts.spoil,
             pc \notin {"copying", "replace"}
      PROVE  BackupIsKept'
  BY <1>0, <1>n, <1>i, <1>w DEF BackupIsKept, CountsGrow
<1>1. CASE Files!InitializeGuide
  <2>1. /\ UNCHANGED <<primary, backup>> /\ counts'.spoil = counts.spoil
        /\ pc \notin {"copying", "replace"}
    BY <1>0, <1>1 DEF Files!InitializeGuide, Files!store
  <2> QED
    BY <2>1, <1>w
<1>2. CASE Files!RestoreOnLaunch
  <2>1. /\ UNCHANGED <<primary, backup>> /\ counts'.spoil = counts.spoil
        /\ pc \notin {"copying", "replace"}
    BY <1>0, <1>2 DEF Files!RestoreOnLaunch, Files!Restores, Files!store
  <2> QED
    BY <2>1, <1>w
<1>3. CASE Files!LoadConfig
  <2>1. /\ UNCHANGED <<primary, backup>> /\ counts'.spoil = counts.spoil
        /\ pc \notin {"copying", "replace"}
    BY <1>0, <1>3 DEF Files!LoadConfig, Files!store
  <2> QED
    BY <2>1, <1>w
<1>4. CASE Files!BeginBackup
  <2>1. CASE Files!Trouble /\ primary' = primary
    BY <1>t, <2>1
  <2>2. CASE Files!Works /\ UNCHANGED <<primary, backup>> /\ pc' = "replace"
    BY <1>0, <1>n, <1>i, <2>2, <1>4 DEF Files!BeginBackup, BackupIsKept
  <2>3. CASE Files!Works /\ UNCHANGED primary /\ pc' = "copying"
    BY <1>0, <1>n, <1>i, <2>3 DEF BackupIsKept
  <2> QED
    BY <1>4, <2>1, <2>2, <2>3 DEF Files!BeginBackup, Files!Goes
<1>5. CASE Files!EndBackup
  <2>1. CASE Files!Trouble /\ primary' = primary
    BY <1>t, <2>1
  <2>2. CASE Files!Works /\ UNCHANGED primary /\ pc' = "replace" /\ backup' = primary
    BY <1>0, <1>n, <1>i, <2>2 DEF BackupIsKept
  <2> QED
    BY <1>5, <2>1, <2>2 DEF Files!EndBackup, Files!Goes
<1>6. CASE Files!ReplaceConfig
  <2>1. CASE Files!Trouble /\ primary' = primary
    BY <1>t, <2>1
  <2>2. CASE Files!Works /\ primary' = op.saving /\ backup' = backup /\ pc = "replace"
    BY <1>0, <1>n, <1>i, <2>2, ContentsAre DEF BackupIsKept
  <2> QED
    BY <1>6, <2>1, <2>2 DEF Files!ReplaceConfig
<1>7. CASE Files!KeepReference
  <2>1. /\ UNCHANGED <<primary, backup>> /\ counts'.spoil = counts.spoil
        /\ pc \notin {"copying", "replace"}
    BY <1>0, <1>7 DEF Files!KeepReference, Files!store
  <2> QED
    BY <2>1, <1>w
<1>8. CASE Files!RestoreReference
  <2>1. /\ UNCHANGED <<primary, backup>> /\ counts'.spoil = counts.spoil
        /\ pc \notin {"copying", "replace"}
    BY <1>0, <1>8 DEF Files!RestoreReference, Files!store
  <2> QED
    BY <2>1, <1>w
<1>9. CASE Files!RollBackReference
  <2>1. /\ UNCHANGED <<primary, backup>> /\ counts'.spoil = counts.spoil
        /\ pc \notin {"copying", "replace"}
    BY <1>0, <1>9 DEF Files!RollBackReference, Files!store
  <2> QED
    BY <2>1, <1>w
<1>10. CASE Files!EndRestore
  <2>1. /\ UNCHANGED <<primary, backup>> /\ counts'.spoil = counts.spoil
        /\ pc \notin {"copying", "replace"}
    BY <1>0, <1>10 DEF Files!EndRestore, Files!store
  <2> QED
    BY <2>1, <1>w
<1>11. CASE Files!FlushSettings
  <2>1. /\ UNCHANGED <<primary, backup>> /\ counts'.spoil = counts.spoil
        /\ pc \notin {"copying", "replace"}
    BY <1>0, <1>11 DEF Files!FlushSettings, Files!store
  <2> QED
    BY <2>1, <1>w
<1>12. CASE Files!LoadAdminConfig
  <2>1. /\ UNCHANGED <<primary, backup>> /\ counts'.spoil = counts.spoil
        /\ pc \notin {"copying", "replace"}
    BY <1>0, <1>12 DEF Files!LoadAdminConfig, Files!Restores, Files!store
  <2> QED
    BY <2>1, <1>w
<1>13. CASE Files!SaveReference
  <2>1. UNCHANGED <<primary, backup, pc>> /\ counts'.spoil = counts.spoil
        /\ counts'.trouble = counts.trouble /\ counts'.crash = counts.crash
    BY <1>0, <1>13 DEF Files!SaveReference, Files!store, Counts
  <2> QED
    BY <1>i, <2>1 DEF BackupIsKept
<1>14. CASE Files!SaveAdminBaseline
  <2>1. /\ UNCHANGED <<primary, backup>> /\ counts'.spoil = counts.spoil
        /\ pc \notin {"copying", "replace"}
    BY <1>0, <1>14 DEF Files!SaveAdminBaseline, Files!store
  <2> QED
    BY <2>1, <1>w
<1>15. CASE Files!CreateSnapshot
  <2>1. /\ UNCHANGED <<primary, backup>> /\ counts'.spoil = counts.spoil
        /\ pc \notin {"copying", "replace"}
    BY <1>0, <1>15 DEF Files!CreateSnapshot, Counts, Files!store
  <2> QED
    BY <2>1, <1>w
<1>16. CASE Files!CopySnapshot
  <2>1. /\ UNCHANGED <<primary, backup>> /\ counts'.spoil = counts.spoil
        /\ pc \notin {"copying", "replace"}
    BY <1>0, <1>16 DEF Files!CopySnapshot, Files!store
  <2> QED
    BY <2>1, <1>w
<1>17. CASE Files!ReplaceProfile
  <2>1. /\ UNCHANGED <<primary, backup>> /\ counts'.spoil = counts.spoil
        /\ pc \notin {"copying", "replace"}
    BY <1>0, <1>17 DEF Files!ReplaceProfile, Files!store
  <2> QED
    BY <2>1, <1>w
<1>18. CASE Files!DropOldSnapshot
  <2>1. /\ UNCHANGED <<primary, backup>> /\ counts'.spoil = counts.spoil
        /\ pc \notin {"copying", "replace"}
    BY <1>0, <1>18 DEF Files!DropOldSnapshot, Files!store
  <2> QED
    BY <2>1, <1>w
<1>19. CASE Files!SetAdminAutoRestore
  <2>1. /\ UNCHANGED <<primary, backup>> /\ counts'.spoil = counts.spoil
        /\ pc \notin {"copying", "replace"}
    BY <1>0, <1>19 DEF Files!SetAdminAutoRestore, Files!store
  <2> QED
    BY <2>1, <1>w
<1>20. CASE Files!RemoveAdminBaseline
  <2>1. /\ UNCHANGED <<primary, backup>> /\ counts'.spoil = counts.spoil
        /\ pc \notin {"copying", "replace"}
    BY <1>0, <1>20 DEF Files!RemoveAdminBaseline, Files!store
  <2> QED
    BY <2>1, <1>w
<1>21. CASE Files!MarkGuideCompleted
  <2>1. /\ UNCHANGED <<primary, backup>> /\ counts'.spoil = counts.spoil
        /\ pc \notin {"copying", "replace"}
    BY <1>0, <1>21 DEF Files!MarkGuideCompleted, Files!store
  <2> QED
    BY <2>1, <1>w
<1>22. CASE Files!GuideWritten
  <2>1. /\ UNCHANGED <<primary, backup>> /\ counts'.spoil = counts.spoil
        /\ pc \notin {"copying", "replace"}
    BY <1>0, <1>22 DEF Files!GuideWritten, Files!store
  <2> QED
    BY <2>1, <1>w
<1>23. CASE Files!Exit
  <2>1. /\ UNCHANGED <<primary, backup>> /\ counts'.spoil = counts.spoil
        /\ pc \notin {"copying", "replace"}
    BY <1>0, <1>23 DEF Files!Exit, Files!store
  <2> QED
    BY <2>1, <1>w
<1>24. CASE Files!Crash
  <2>1. UNCHANGED <<primary, backup>> /\ counts'.spoil = counts.spoil
        /\ counts'.crash > 0
    BY <1>0, <1>n, <1>24 DEF Files!Crash, Files!store, Counts
  <2> QED
    BY <1>i, <2>1 DEF BackupIsKept
<1>25. CASE Files!Spoil
  <2>1. pc = "off" /\ backup' = backup /\ counts'.spoil = counts.spoil + 1
        /\ counts'.trouble = counts.trouble /\ counts'.crash = counts.crash
    BY <1>0, <1>n, <1>25 DEF Files!Spoil, Counts
  <2> QED
    BY <1>i, <1>n, <2>1 DEF BackupIsKept
<1> QED
  BY <1>0, <1>1, <1>2, <1>3, <1>4, <1>5, <1>6, <1>7, <1>8, <1>9, <1>10, <1>11,
     <1>12, <1>13, <1>14, <1>15, <1>16, <1>17, <1>18, <1>19, <1>20, <1>21, <1>22,
     <1>23, <1>24, <1>25 DEF Files!Next

\* What is restored can be.
LEMMA SoundnessKept ==
    ASSUME StoreInv, Files!Next
    PROVE  RestoreIsSound'
<1>0. /\ op \in Files!Operation /\ counts \in Counts /\ CountsGrow
      /\ Files!Works => counts' = counts
      /\ Files!Trouble =>
            /\ counts'.trouble > 0 /\ counts'.trouble = counts.trouble + 1
            /\ counts'.crash = counts.crash /\ counts'.spoil = counts.spoil
            /\ counts'.snapshot = counts.snapshot /\ counts'.overlap = counts.overlap
  BY CountsKept, CountsMatter
<1>n. /\ counts.trouble \in Nat /\ counts'.trouble \in Nat
      /\ counts.crash \in Nat /\ counts'.crash \in Nat
      /\ counts.spoil \in Nat /\ counts'.spoil \in Nat
      /\ counts.snapshot \in Nat /\ counts'.snapshot \in Nat
      /\ counts.overlap \in {0, 1} /\ counts'.overlap \in {0, 1}
      /\ counts.trouble > 0 => counts'.trouble > 0
      /\ counts'.trouble = 0 => counts.trouble = 0
      /\ counts'.crash = 0 => counts.crash = 0
      /\ counts'.overlap = 0 => counts.overlap = 0
      /\ 0 <= counts.snapshot /\ 0 <= counts'.snapshot
  BY CountsKept, CountsMatter
<1>i. /\ Files!Restoring => Files!Loadable(op.job)
      /\ pc \in {"roll back", "not restored"} => counts.trouble > 0
  BY DEF StoreInv, RestoreIsSound
<1>u. ASSUME Files!Restoring, UNCHANGED snapshots, op'.job = op.job,
             pc' \in {"roll back", "not restored"} => counts'.trouble > 0
      PROVE  RestoreIsSound'
  BY <1>i, <1>u DEF RestoreIsSound, Files!Loadable
<1>e. ASSUME ~Files!Restoring'
      PROVE  RestoreIsSound'
  BY <1>e DEF RestoreIsSound, Files!Restoring
<1>1. CASE Files!InitializeGuide
  <2>1. ~Files!Restoring'
    BY <1>0, <1>1 DEF Files!InitializeGuide, Files!Restoring, Files!Goes, Files!Ends,
       Files!NoOperation, Files!Operation
  <2> QED
    BY <1>e, <2>1
<1>2. CASE Files!RestoreOnLaunch
  <2>1. CASE op' = Files!NoOperation /\ pc' \in {"initial", "on"}
    BY <1>e, <2>1 DEF Files!Restoring, Files!NoOperation
  <2>2. CASE /\ Files!Loadable(profile) /\ UNCHANGED snapshots
             /\ op'.job = profile /\ pc' = "keep"
    BY <2>2 DEF Files!Loadable, RestoreIsSound
  <2> QED
    BY <1>0, <1>2, <2>1, <2>2 DEF Files!RestoreOnLaunch, Files!Restores, Files!Ends,
       Files!admin, Files!Operation
<1>3. CASE Files!LoadConfig
  <2>1. ~Files!Restoring'
    BY <1>0, <1>3 DEF Files!LoadConfig, Files!Saves, Files!Restoring, Files!Goes,
       Files!Ends, Files!NoOperation, Files!Operation
  <2> QED
    BY <1>e, <2>1
<1>4. CASE Files!BeginBackup
  <2>1. CASE op.then # "restore"
    <3>1. ~Files!Restoring'
      BY <1>0, <1>4, <2>1 DEF Files!BeginBackup, Files!SaveEnds, Files!Restoring,
         Files!Goes,
         Files!Ends, Files!NoOperation, Files!Operation
    <3> QED
      BY <1>e, <3>1
  <2>2. CASE op.then = "restore"
    <3>1. Files!Restoring /\ UNCHANGED <<snapshots, op>>
      BY <1>4, <2>2 DEF Files!BeginBackup, Files!Restoring, Files!Goes, Files!SaveEnds,
         Files!admin
    <3>2. pc' \in {"roll back", "not restored"} => counts'.trouble > 0
      BY <1>0, <1>n, <1>4, <2>2 DEF Files!BeginBackup, Files!Goes, Files!SaveEnds
    <3> QED
      BY <1>u, <3>1, <3>2
  <2> QED
    BY <2>1, <2>2
<1>5. CASE Files!EndBackup
  <2>1. CASE op.then # "restore"
    <3>1. ~Files!Restoring'
      BY <1>0, <1>5, <2>1 DEF Files!EndBackup, Files!SaveEnds, Files!Restoring,
         Files!Goes,
         Files!Ends, Files!NoOperation, Files!Operation
    <3> QED
      BY <1>e, <3>1
  <2>2. CASE op.then = "restore"
    <3>1. Files!Restoring /\ UNCHANGED <<snapshots, op>>
      BY <1>5, <2>2 DEF Files!EndBackup, Files!Restoring, Files!Goes, Files!SaveEnds,
         Files!admin
    <3>2. pc' \in {"roll back", "not restored"} => counts'.trouble > 0
      BY <1>0, <1>n, <1>5, <2>2 DEF Files!EndBackup, Files!Goes, Files!SaveEnds
    <3> QED
      BY <1>u, <3>1, <3>2
  <2> QED
    BY <2>1, <2>2
<1>6. CASE Files!ReplaceConfig
  <2>1. CASE op.then # "restore"
    <3>1. ~Files!Restoring'
      BY <1>0, <1>6, <2>1 DEF Files!ReplaceConfig, Files!SaveEnds, Files!Restoring,
         Files!Goes,
         Files!Ends, Files!NoOperation, Files!Operation
    <3> QED
      BY <1>e, <3>1
  <2>2. CASE op.then = "restore"
    <3>1. Files!Restoring /\ UNCHANGED <<snapshots, op>>
      BY <1>6, <2>2 DEF Files!ReplaceConfig, Files!Restoring, Files!Goes,
         Files!SaveEnds,
         Files!admin
    <3>2. pc' \in {"roll back", "not restored"} => counts'.trouble > 0
      BY <1>0, <1>n, <1>6, <2>2 DEF Files!ReplaceConfig, Files!Goes, Files!SaveEnds
    <3> QED
      BY <1>u, <3>1, <3>2
  <2> QED
    BY <2>1, <2>2
<1>7. CASE Files!KeepReference
  <2>1. Files!Restoring /\ UNCHANGED snapshots /\ op'.job = op.job
    BY <1>0, <1>7 DEF Files!KeepReference, Files!Restoring, Files!Goes, Files!Saves,
       Files!admin, Files!Operation
  <2>2. pc' \in {"roll back", "not restored"} => counts'.trouble > 0
    BY <1>0, <1>n, <1>i, <1>7 DEF Files!KeepReference, Files!Goes, Files!Saves,
       CountsGrow
  <2> QED
    BY <1>u, <2>1, <2>2
<1>8. CASE Files!RestoreReference
  <2>1. Files!Restoring /\ UNCHANGED snapshots /\ op'.job = op.job
    BY <1>0, <1>8 DEF Files!RestoreReference, Files!Restoring, Files!Goes, Files!Saves,
       Files!admin, Files!Operation
  <2>2. pc' \in {"roll back", "not restored"} => counts'.trouble > 0
    BY <1>0, <1>n, <1>i, <1>8 DEF Files!RestoreReference, Files!Goes, Files!Saves,
       CountsGrow
  <2> QED
    BY <1>u, <2>1, <2>2
<1>9. CASE Files!RollBackReference
  <2>1. Files!Restoring /\ UNCHANGED snapshots /\ op'.job = op.job
    BY <1>0, <1>9 DEF Files!RollBackReference, Files!Restoring, Files!Goes,
       Files!Saves, Files!admin, Files!Operation
  <2>2. pc' \in {"roll back", "not restored"} => counts'.trouble > 0
    BY <1>0, <1>n, <1>i, <1>9 DEF Files!RollBackReference, Files!Goes, Files!Saves,
       CountsGrow
  <2> QED
    BY <1>u, <2>1, <2>2
<1>10. CASE Files!EndRestore
  <2>1. ~Files!Restoring'
    BY <1>0, <1>10 DEF Files!EndRestore, Files!Restoring, Files!Goes, Files!Ends,
       Files!NoOperation, Files!Operation
  <2> QED
    BY <1>e, <2>1
<1>11. CASE Files!FlushSettings
  <2>1. ~Files!Restoring'
    BY <1>0, <1>11 DEF Files!FlushSettings, Files!Saves, Files!Restoring, Files!Goes,
       Files!Ends, Files!NoOperation, Files!Operation
  <2> QED
    BY <1>e, <2>1
<1>12. CASE Files!LoadAdminConfig
  <2>1. CASE op' = Files!NoOperation /\ pc' \in {"initial", "on"}
    BY <1>e, <2>1 DEF Files!Restoring, Files!NoOperation
  <2>2. CASE /\ Files!Loadable(profile) /\ UNCHANGED snapshots
             /\ op'.job = profile /\ pc' = "keep"
    BY <2>2 DEF Files!Loadable, RestoreIsSound
  <2> QED
    BY <1>0, <1>12, <2>1, <2>2 DEF Files!LoadAdminConfig, Files!Restores, Files!Ends,
       Files!admin, Files!Operation
<1>13. CASE Files!SaveReference
  <2>1. CASE ~Files!Restoring
    BY <1>e, <1>13, <2>1 DEF Files!SaveReference, Files!Restoring
  <2>2. CASE Files!Restoring
    <3>1. UNCHANGED <<snapshots, op, pc>> /\ (counts.trouble > 0 => counts'.trouble > 0)
      BY <1>n, <1>13 DEF Files!SaveReference, Files!admin
    <3> QED
      BY <1>u, <1>i, <1>n, <2>2, <3>1
  <2> QED
    BY <2>1, <2>2
<1>14. CASE Files!SaveAdminBaseline
  <2>1. ~Files!Restoring'
    BY <1>0, <1>14 DEF Files!SaveAdminBaseline, Files!Restoring, Files!Goes, Files!Ends,
       Files!NoOperation, Files!Operation
  <2> QED
    BY <1>e, <2>1
<1>15. CASE Files!CreateSnapshot
  <2>1. ~Files!Restoring'
    BY <1>0, <1>15 DEF Files!CreateSnapshot, Files!Restoring, Files!Goes, Files!Ends,
       Files!NoOperation, Files!Operation
  <2> QED
    BY <1>e, <2>1
<1>16. CASE Files!CopySnapshot
  <2>1. ~Files!Restoring'
    BY <1>0, <1>16 DEF Files!CopySnapshot, Files!Restoring, Files!Goes, Files!Ends,
       Files!NoOperation, Files!Operation
  <2> QED
    BY <1>e, <2>1
<1>17. CASE Files!ReplaceProfile
  <2>1. ~Files!Restoring'
    BY <1>0, <1>17 DEF Files!ReplaceProfile, Files!DropsOld, Files!Restoring,
       Files!Goes, Files!Ends, Files!NoOperation, Files!Operation
  <2> QED
    BY <1>e, <2>1
<1>18. CASE Files!DropOldSnapshot
  <2>1. ~Files!Restoring'
    BY <1>0, <1>18 DEF Files!DropOldSnapshot, Files!Restoring, Files!Goes, Files!Ends,
       Files!NoOperation, Files!Operation
  <2> QED
    BY <1>e, <2>1
<1>19. CASE Files!SetAdminAutoRestore
  <2>1. ~Files!Restoring'
    BY <1>0, <1>19 DEF Files!SetAdminAutoRestore, Files!Restoring, Files!Goes,
       Files!Ends, Files!NoOperation, Files!Operation
  <2> QED
    BY <1>e, <2>1
<1>20. CASE Files!RemoveAdminBaseline
  <2>1. ~Files!Restoring'
    BY <1>0, <1>20 DEF Files!RemoveAdminBaseline, Files!DropsOld, Files!Restoring,
       Files!Goes, Files!Ends, Files!NoOperation, Files!Operation
  <2> QED
    BY <1>e, <2>1
<1>21. CASE Files!MarkGuideCompleted
  <2>1. ~Files!Restoring'
    BY <1>0, <1>21 DEF Files!MarkGuideCompleted, Files!Restoring, Files!Goes,
       Files!Ends, Files!NoOperation, Files!Operation
  <2> QED
    BY <1>e, <2>1
<1>22. CASE Files!GuideWritten
  <2>1. ~Files!Restoring'
    BY <1>0, <1>22 DEF Files!GuideWritten, Files!Restoring, Files!Goes, Files!Ends,
       Files!NoOperation, Files!Operation
  <2> QED
    BY <1>e, <2>1
<1>23. CASE Files!Exit
  <2>1. ~Files!Restoring'
    BY <1>0, <1>23 DEF Files!Exit, Files!Saves, Files!Restoring, Files!Goes, Files!Ends,
       Files!NoOperation, Files!Operation
  <2> QED
    BY <1>e, <2>1
<1>24. CASE Files!Crash
  <2>1. ~Files!Restoring'
    BY <1>0, <1>24 DEF Files!Crash, Files!Restoring, Files!Goes, Files!Ends,
       Files!NoOperation, Files!Operation
  <2> QED
    BY <1>e, <2>1
<1>25. CASE Files!Spoil
  <2>1. ~Files!Restoring'
    BY <1>0, <1>25 DEF Files!Spoil, Files!Restoring, Files!Goes, Files!Ends,
       Files!NoOperation, Files!Operation
  <2> QED
    BY <1>e, <2>1
<1> QED
  BY <1>0, <1>1, <1>2, <1>3, <1>4, <1>5, <1>6, <1>7, <1>8, <1>9, <1>10, <1>11,
     <1>12, <1>13, <1>14, <1>15, <1>16, <1>17, <1>18, <1>19, <1>20, <1>21, <1>22,
     <1>23, <1>24, <1>25 DEF Files!Next

\* Two failures are more than one.
LEMMA SecondTrouble ==
    ASSUME NEW a \in Nat, NEW b \in Nat, a > 0, b = a + 1
    PROVE  b > 1
OBVIOUS

\* A restore that is under way knows what there was.
LEMMA RestoreKept ==
    ASSUME StoreInv, Files!Next
    PROVE  RestoreGoesOn'
<1>0. /\ op \in Files!Operation /\ counts \in Counts /\ CountsGrow
      /\ Files!Works => counts' = counts
      /\ Files!Trouble =>
            /\ counts'.trouble > 0 /\ counts'.trouble = counts.trouble + 1
            /\ counts'.crash = counts.crash /\ counts'.spoil = counts.spoil
            /\ counts'.snapshot = counts.snapshot /\ counts'.overlap = counts.overlap
  BY CountsKept, CountsMatter
<1>n. /\ counts.trouble \in Nat /\ counts'.trouble \in Nat
      /\ counts.crash \in Nat /\ counts'.crash \in Nat
      /\ counts.spoil \in Nat /\ counts'.spoil \in Nat
      /\ counts.snapshot \in Nat /\ counts'.snapshot \in Nat
      /\ counts.overlap \in {0, 1} /\ counts'.overlap \in {0, 1}
      /\ counts.trouble > 0 => counts'.trouble > 0
      /\ counts'.trouble = 0 => counts.trouble = 0
      /\ counts'.crash = 0 => counts.crash = 0
      /\ counts'.overlap = 0 => counts.overlap = 0
      /\ 0 <= counts.snapshot /\ 0 <= counts'.snapshot
  BY CountsKept, CountsMatter
<1>i. RestoreGoesOn
  BY DEF StoreInv
<1>e. ASSUME ~Files!Restoring'
      PROVE  RestoreGoesOn'
  BY <1>e DEF RestoreGoesOn, Files!Restoring
<1>1. CASE Files!InitializeGuide
  <2>1. ~Files!Restoring'
    BY <1>0, <1>1 DEF Files!InitializeGuide, Files!Restoring, Files!Goes, Files!Ends,
       Files!NoOperation, Files!Operation
  <2> QED
    BY <1>e, <2>1
<1>2. CASE Files!RestoreOnLaunch
  <2>1. CASE op' = Files!NoOperation /\ pc' \in {"initial", "on"}
    BY <1>e, <2>1 DEF Files!Restoring, Files!NoOperation
  <2>2. CASE /\ UNCHANGED <<primary, reference>>
             /\ op'.before = <<primary, reference>> /\ pc' = "keep"
    BY <2>2 DEF RestoreGoesOn
  <2> QED
    BY <1>0, <1>2, <2>1, <2>2 DEF Files!RestoreOnLaunch, Files!Restores, Files!Ends,
       Files!store, Files!Operation
<1>3. CASE Files!LoadConfig
  <2>1. ~Files!Restoring'
    BY <1>0, <1>3 DEF Files!LoadConfig, Files!Saves, Files!Restoring, Files!Goes,
       Files!Ends, Files!NoOperation, Files!Operation
  <2> QED
    BY <1>e, <2>1
<1>4. CASE Files!BeginBackup
  <2>1. CASE op.then # "restore"
    <3>1. ~Files!Restoring'
      BY <1>0, <1>4, <2>1 DEF Files!BeginBackup, Files!SaveEnds, Files!Restoring,
         Files!Goes,
         Files!Ends, Files!NoOperation, Files!Operation
    <3> QED
      BY <1>e, <3>1
  <2>2. CASE op.then = "restore"
    <3>1. CASE /\ Files!Trouble /\ UNCHANGED <<primary, reference, op>>
               /\ pc' = "roll back"
      BY <1>0, <1>i, <1>4, <2>2, <3>1 DEF RestoreGoesOn, Files!BeginBackup
    <3>2. CASE /\ Files!Works
               /\ UNCHANGED <<primary, reference, op, snapshots>> /\ pc' \in {"copying", "replace"}
      BY <1>0, <1>i, <1>4, <2>2, <3>2 DEF RestoreGoesOn, Files!BeginBackup,
         Files!Snapshot
    <3> QED
      BY <1>4, <2>2, <3>1, <3>2 DEF Files!BeginBackup, Files!Goes, Files!SaveEnds,
         Files!admin
  <2> QED
    BY <2>1, <2>2
<1>5. CASE Files!EndBackup
  <2>1. CASE op.then # "restore"
    <3>1. ~Files!Restoring'
      BY <1>0, <1>5, <2>1 DEF Files!EndBackup, Files!SaveEnds, Files!Restoring,
         Files!Goes,
         Files!Ends, Files!NoOperation, Files!Operation
    <3> QED
      BY <1>e, <3>1
  <2>2. CASE op.then = "restore"
    <3>1. CASE /\ Files!Trouble /\ UNCHANGED <<primary, reference, op>>
               /\ pc' = "roll back"
      BY <1>0, <1>i, <1>5, <2>2, <3>1 DEF RestoreGoesOn, Files!EndBackup
    <3>2. CASE /\ Files!Works
               /\ UNCHANGED <<primary, reference, op, snapshots>> /\ pc' = "replace"
      BY <1>0, <1>i, <1>5, <2>2, <3>2 DEF RestoreGoesOn, Files!EndBackup, Files!Snapshot
    <3> QED
      BY <1>5, <2>2, <3>1, <3>2 DEF Files!EndBackup, Files!Goes, Files!SaveEnds,
         Files!admin
  <2> QED
    BY <2>1, <2>2
<1>6. CASE Files!ReplaceConfig
  <2>1. CASE op.then # "restore"
    <3>1. ~Files!Restoring'
      BY <1>0, <1>6, <2>1 DEF Files!ReplaceConfig, Files!SaveEnds, Files!Restoring,
         Files!Goes,
         Files!Ends, Files!NoOperation, Files!Operation
    <3> QED
      BY <1>e, <3>1
  <2>2. CASE op.then = "restore"
    <3>1. CASE /\ Files!Trouble /\ UNCHANGED <<primary, reference, op>>
               /\ pc' = "roll back"
      BY <1>0, <1>i, <1>6, <2>2, <3>1 DEF RestoreGoesOn, Files!ReplaceConfig
    <3>2. CASE /\ Files!Works
               /\ UNCHANGED <<reference, op, snapshots>> /\ primary' = op.saving /\ pc' = "restored"
      BY <1>0, <1>i, <1>6, <2>2, <3>2 DEF RestoreGoesOn, Files!ReplaceConfig,
         Files!Snapshot
    <3> QED
      BY <1>6, <2>2, <3>1, <3>2 DEF Files!ReplaceConfig, Files!Goes, Files!SaveEnds,
         Files!admin
  <2> QED
    BY <2>1, <2>2
<1>7. CASE Files!KeepReference
  <2>1. CASE /\ Files!Trouble /\ UNCHANGED <<primary, reference, op>>
             /\ pc' = "not restored"
    BY <1>0, <1>i, <1>7, <2>1 DEF RestoreGoesOn, Files!KeepReference
  <2>2. CASE /\ Files!Works /\ UNCHANGED <<primary, reference>>
             /\ op'.before = op.before /\ op'.kept = reference /\ pc' = "reference"
    BY <1>0, <1>i, <1>7, <2>2 DEF RestoreGoesOn, Files!KeepReference
  <2> QED
    BY <1>0, <1>7, <2>1, <2>2 DEF Files!KeepReference, Files!Goes, Files!store,
       Files!Operation
<1>8. CASE Files!RestoreReference
  <2>1. CASE /\ Files!Trouble /\ UNCHANGED <<primary, reference, op>>
             /\ pc' = "not restored"
    BY <1>0, <1>i, <1>8, <2>1 DEF RestoreGoesOn, Files!RestoreReference
  <2>2. CASE /\ Files!Works /\ UNCHANGED <<primary, snapshots>>
             /\ reference' = Files!Snapshot(op.job) /\ op'.job = op.job
             /\ op'.before = op.before /\ op'.kept = op.kept
             /\ op'.saving = op.job.config /\ pc' = "backup"
    BY <1>0, <1>i, <1>8, <2>2 DEF RestoreGoesOn, Files!RestoreReference, Files!Snapshot
  <2> QED
    BY <1>0, <1>8, <2>1, <2>2 DEF Files!RestoreReference, Files!Goes, Files!Saves,
       Files!store, Files!admin, Files!Operation
<1>9. CASE Files!RollBackReference
  <2>1. CASE /\ Files!Trouble /\ pc' = "not restored"
    <3>1. counts'.trouble > 1
      BY <1>0, <1>n, <1>9, <2>1, SecondTrouble
         DEF Files!RollBackReference, StoreInv, RestoreIsSound
    <3>2. ~(counts'.trouble <= 1)
      BY <1>n, <3>1
    <3> QED
      BY <2>1, <3>2 DEF RestoreGoesOn
  <2>2. CASE /\ Files!Works /\ UNCHANGED <<primary, op>> /\ reference' = op.kept
             /\ pc' = "not restored"
    BY <1>0, <1>i, <1>9, <2>2 DEF RestoreGoesOn, Files!RollBackReference
  <2> QED
    BY <1>9, <2>1, <2>2 DEF Files!RollBackReference, Files!Goes, Files!store
<1>10. CASE Files!EndRestore
  <2>1. ~Files!Restoring'
    BY <1>0, <1>10 DEF Files!EndRestore, Files!Restoring, Files!Goes, Files!Ends,
       Files!NoOperation, Files!Operation
  <2> QED
    BY <1>e, <2>1
<1>11. CASE Files!FlushSettings
  <2>1. ~Files!Restoring'
    BY <1>0, <1>11 DEF Files!FlushSettings, Files!Saves, Files!Restoring, Files!Goes,
       Files!Ends, Files!NoOperation, Files!Operation
  <2> QED
    BY <1>e, <2>1
<1>12. CASE Files!LoadAdminConfig
  <2>1. CASE op' = Files!NoOperation /\ pc' \in {"initial", "on"}
    BY <1>e, <2>1 DEF Files!Restoring, Files!NoOperation
  <2>2. CASE /\ UNCHANGED <<primary, reference>>
             /\ op'.before = <<primary, reference>> /\ pc' = "keep"
    BY <2>2 DEF RestoreGoesOn
  <2> QED
    BY <1>0, <1>12, <2>1, <2>2 DEF Files!LoadAdminConfig, Files!Restores, Files!Ends,
       Files!store, Files!Operation
<1>13. CASE Files!SaveReference
  <2>1. CASE ~Files!Restoring
    BY <1>e, <1>13, <2>1 DEF Files!SaveReference, Files!Restoring
  <2>2. CASE Files!Restoring
    <3>1. counts'.overlap # 0
      BY <1>0, <1>13, <2>2 DEF Files!SaveReference, Counts
    <3> QED
      BY <3>1 DEF RestoreGoesOn
  <2> QED
    BY <2>1, <2>2
<1>14. CASE Files!SaveAdminBaseline
  <2>1. ~Files!Restoring'
    BY <1>0, <1>14 DEF Files!SaveAdminBaseline, Files!Restoring, Files!Goes, Files!Ends,
       Files!NoOperation, Files!Operation
  <2> QED
    BY <1>e, <2>1
<1>15. CASE Files!CreateSnapshot
  <2>1. ~Files!Restoring'
    BY <1>0, <1>15 DEF Files!CreateSnapshot, Files!Restoring, Files!Goes, Files!Ends,
       Files!NoOperation, Files!Operation
  <2> QED
    BY <1>e, <2>1
<1>16. CASE Files!CopySnapshot
  <2>1. ~Files!Restoring'
    BY <1>0, <1>16 DEF Files!CopySnapshot, Files!Restoring, Files!Goes, Files!Ends,
       Files!NoOperation, Files!Operation
  <2> QED
    BY <1>e, <2>1
<1>17. CASE Files!ReplaceProfile
  <2>1. ~Files!Restoring'
    BY <1>0, <1>17 DEF Files!ReplaceProfile, Files!DropsOld, Files!Restoring,
       Files!Goes, Files!Ends, Files!NoOperation, Files!Operation
  <2> QED
    BY <1>e, <2>1
<1>18. CASE Files!DropOldSnapshot
  <2>1. ~Files!Restoring'
    BY <1>0, <1>18 DEF Files!DropOldSnapshot, Files!Restoring, Files!Goes, Files!Ends,
       Files!NoOperation, Files!Operation
  <2> QED
    BY <1>e, <2>1
<1>19. CASE Files!SetAdminAutoRestore
  <2>1. ~Files!Restoring'
    BY <1>0, <1>19 DEF Files!SetAdminAutoRestore, Files!Restoring, Files!Goes,
       Files!Ends, Files!NoOperation, Files!Operation
  <2> QED
    BY <1>e, <2>1
<1>20. CASE Files!RemoveAdminBaseline
  <2>1. ~Files!Restoring'
    BY <1>0, <1>20 DEF Files!RemoveAdminBaseline, Files!DropsOld, Files!Restoring,
       Files!Goes, Files!Ends, Files!NoOperation, Files!Operation
  <2> QED
    BY <1>e, <2>1
<1>21. CASE Files!MarkGuideCompleted
  <2>1. ~Files!Restoring'
    BY <1>0, <1>21 DEF Files!MarkGuideCompleted, Files!Restoring, Files!Goes,
       Files!Ends, Files!NoOperation, Files!Operation
  <2> QED
    BY <1>e, <2>1
<1>22. CASE Files!GuideWritten
  <2>1. ~Files!Restoring'
    BY <1>0, <1>22 DEF Files!GuideWritten, Files!Restoring, Files!Goes, Files!Ends,
       Files!NoOperation, Files!Operation
  <2> QED
    BY <1>e, <2>1
<1>23. CASE Files!Exit
  <2>1. ~Files!Restoring'
    BY <1>0, <1>23 DEF Files!Exit, Files!Saves, Files!Restoring, Files!Goes, Files!Ends,
       Files!NoOperation, Files!Operation
  <2> QED
    BY <1>e, <2>1
<1>24. CASE Files!Crash
  <2>1. ~Files!Restoring'
    BY <1>0, <1>24 DEF Files!Crash, Files!Restoring, Files!Goes, Files!Ends,
       Files!NoOperation, Files!Operation
  <2> QED
    BY <1>e, <2>1
<1>25. CASE Files!Spoil
  <2>1. ~Files!Restoring'
    BY <1>0, <1>25 DEF Files!Spoil, Files!Restoring, Files!Goes, Files!Ends,
       Files!NoOperation, Files!Operation
  <2> QED
    BY <1>e, <2>1
<1> QED
  BY <1>0, <1>1, <1>2, <1>3, <1>4, <1>5, <1>6, <1>7, <1>8, <1>9, <1>10, <1>11,
     <1>12, <1>13, <1>14, <1>15, <1>16, <1>17, <1>18, <1>19, <1>20, <1>21, <1>22,
     <1>23, <1>24, <1>25 DEF Files!Next

\* The next number is a new one.
LEMMA OneAfter ==
    ASSUME NEW a \in Nat, NEW b \in Nat, a <= b
    PROVE  a <= b + 1 /\ a # b + 1 /\ b + 1 <= b + 1 /\ b + 1 # 0
OBVIOUS

\* What is in a profile.
LEMMA ProfilesAre ==
    /\ \A p \in Files!Profiles :
          /\ p.file \in Files!SnapshotName \cup {0} /\ p.file \in Nat
          /\ p # Files!NoProfile => p \in Files!Profile
    /\ Files!NoProfile.file = 0
    /\ \A p \in Files!Profile : p # Files!NoProfile /\ p \in Files!Profiles
<1>1. \A p \in Files!Profile :
          /\ p.file \in Files!SnapshotName \cup {0} /\ p.file \in Nat
          /\ p # Files!NoProfile
  BY ContentsAre DEF Files!Profile, Files!SnapshotName, Files!NoProfile
<1> QED
  BY <1>1 DEF Files!Profiles, Files!NoProfile

\* A profile stays whole.
LEMMA ProfileKept ==
    ASSUME StoreInv, Files!Next
    PROVE  Files!ProfileIsWhole' /\ ProfileGoesOn'
<1>0. /\ op \in Files!Operation /\ counts \in Counts /\ CountsGrow
      /\ Files!Works => counts' = counts
      /\ Files!Trouble =>
            /\ counts'.trouble > 0 /\ counts'.trouble = counts.trouble + 1
            /\ counts'.crash = counts.crash /\ counts'.spoil = counts.spoil
            /\ counts'.snapshot = counts.snapshot /\ counts'.overlap = counts.overlap
  BY CountsKept, CountsMatter
<1>n. /\ counts.trouble \in Nat /\ counts'.trouble \in Nat
      /\ counts.crash \in Nat /\ counts'.crash \in Nat
      /\ counts.spoil \in Nat /\ counts'.spoil \in Nat
      /\ counts.snapshot \in Nat /\ counts'.snapshot \in Nat
      /\ counts.overlap \in {0, 1} /\ counts'.overlap \in {0, 1}
      /\ counts.trouble > 0 => counts'.trouble > 0
      /\ counts'.trouble = 0 => counts.trouble = 0
      /\ counts'.crash = 0 => counts.crash = 0
      /\ counts'.overlap = 0 => counts.overlap = 0
      /\ 0 <= counts.snapshot /\ 0 <= counts'.snapshot
  BY CountsKept, CountsMatter
<1>i. /\ Files!ProfileIsWhole /\ ProfileGoesOn
      /\ profile \in Files!Profiles /\ reference \in Picture \cup {None}
      /\ snapshots \in [Files!SnapshotName -> Picture \cup {Torn, None}]
      /\ config \in Config
  BY DEF StoreInv, Files!TypeOK
<1>j. /\ op.job \in Files!Profiles
      /\ \A p \in Files!Profiles :
            /\ p.file \in Files!SnapshotName \cup {0} /\ p.file \in Nat
            /\ p # Files!NoProfile => p \in Files!Profile
      /\ Files!NoProfile.file = 0
      /\ \A p \in Files!Profile : p # Files!NoProfile
  BY <1>0, ProfilesAre DEF Files!Operation
<1>q. ASSUME UNCHANGED <<profile, snapshots>>, counts'.snapshot = counts.snapshot,
             pc' \notin {"snapshot", "snapping", "profile", "drop old"}
      PROVE  Files!ProfileIsWhole' /\ ProfileGoesOn'
  BY <1>i, <1>q DEF Files!ProfileIsWhole, Files!Loadable, ProfileGoesOn
<1>1. CASE Files!InitializeGuide
  <2>1. UNCHANGED <<profile, snapshots, reference>> /\ counts'.snapshot = counts.snapshot
    BY <1>0, <1>1 DEF Files!InitializeGuide, Files!admin
  <2>2. pc' \notin {"snapshot", "snapping", "profile", "drop old"}
    BY <1>0, <1>1 DEF Files!InitializeGuide, Files!Goes, Files!Ends
  <2> QED
    BY <1>q, <2>1, <2>2
<1>2. CASE Files!RestoreOnLaunch
  <2>1. UNCHANGED <<profile, snapshots, reference>> /\ counts'.snapshot = counts.snapshot
    BY <1>0, <1>2 DEF Files!RestoreOnLaunch, Files!Restores, Files!admin
  <2>2. pc' \notin {"snapshot", "snapping", "profile", "drop old"}
    BY <1>0, <1>2 DEF Files!RestoreOnLaunch, Files!Restores, Files!Goes, Files!Ends
  <2> QED
    BY <1>q, <2>1, <2>2
<1>3. CASE Files!LoadConfig
  <2>1. UNCHANGED <<profile, snapshots, reference>> /\ counts'.snapshot = counts.snapshot
    BY <1>0, <1>3 DEF Files!LoadConfig, Files!admin
  <2>2. pc' \notin {"snapshot", "snapping", "profile", "drop old"}
    BY <1>0, <1>3 DEF Files!LoadConfig, Files!Saves, Files!Goes, Files!Ends
  <2> QED
    BY <1>q, <2>1, <2>2
<1>4. CASE Files!BeginBackup
  <2>1. UNCHANGED <<profile, snapshots, reference>> /\ counts'.snapshot = counts.snapshot
    BY <1>0, <1>4 DEF Files!BeginBackup, Files!admin
  <2>2. pc' \notin {"snapshot", "snapping", "profile", "drop old"}
    BY <1>0, <1>4 DEF Files!BeginBackup, Files!SaveEnds, Files!Goes, Files!Ends,
       Files!Operation
  <2> QED
    BY <1>q, <2>1, <2>2
<1>5. CASE Files!EndBackup
  <2>1. UNCHANGED <<profile, snapshots, reference>> /\ counts'.snapshot = counts.snapshot
    BY <1>0, <1>5 DEF Files!EndBackup, Files!admin
  <2>2. pc' \notin {"snapshot", "snapping", "profile", "drop old"}
    BY <1>0, <1>5 DEF Files!EndBackup, Files!SaveEnds, Files!Goes, Files!Ends,
       Files!Operation
  <2> QED
    BY <1>q, <2>1, <2>2
<1>6. CASE Files!ReplaceConfig
  <2>1. UNCHANGED <<profile, snapshots, reference>> /\ counts'.snapshot = counts.snapshot
    BY <1>0, <1>6 DEF Files!ReplaceConfig, Files!admin
  <2>2. pc' \notin {"snapshot", "snapping", "profile", "drop old"}
    BY <1>0, <1>6 DEF Files!ReplaceConfig, Files!SaveEnds, Files!Goes, Files!Ends,
       Files!Operation
  <2> QED
    BY <1>q, <2>1, <2>2
<1>7. CASE Files!KeepReference
  <2>1. UNCHANGED <<profile, snapshots, reference>> /\ counts'.snapshot = counts.snapshot
    BY <1>0, <1>7 DEF Files!KeepReference, Files!admin
  <2>2. pc' \notin {"snapshot", "snapping", "profile", "drop old"}
    BY <1>0, <1>7 DEF Files!KeepReference, Files!Goes, Files!Ends
  <2> QED
    BY <1>q, <2>1, <2>2
<1>8. CASE Files!RestoreReference
  <2>1. UNCHANGED <<profile, snapshots>> /\ counts'.snapshot = counts.snapshot
    BY <1>0, <1>8 DEF Files!RestoreReference, Files!admin
  <2>2. pc' \notin {"snapshot", "snapping", "profile", "drop old"}
    BY <1>0, <1>8 DEF Files!RestoreReference, Files!Saves, Files!Goes, Files!Ends
  <2> QED
    BY <1>q, <2>1, <2>2
<1>9. CASE Files!RollBackReference
  <2>1. UNCHANGED <<profile, snapshots>> /\ counts'.snapshot = counts.snapshot
    BY <1>0, <1>9 DEF Files!RollBackReference, Files!admin
  <2>2. pc' \notin {"snapshot", "snapping", "profile", "drop old"}
    BY <1>0, <1>9 DEF Files!RollBackReference, Files!Goes, Files!Ends
  <2> QED
    BY <1>q, <2>1, <2>2
<1>10. CASE Files!EndRestore
  <2>1. UNCHANGED <<profile, snapshots, reference>> /\ counts'.snapshot = counts.snapshot
    BY <1>0, <1>10 DEF Files!EndRestore, Files!admin
  <2>2. pc' \notin {"snapshot", "snapping", "profile", "drop old"}
    BY <1>0, <1>10 DEF Files!EndRestore, Files!Goes, Files!Ends
  <2> QED
    BY <1>q, <2>1, <2>2
<1>11. CASE Files!FlushSettings
  <2>1. UNCHANGED <<profile, snapshots, reference>> /\ counts'.snapshot = counts.snapshot
    BY <1>0, <1>11 DEF Files!FlushSettings, Files!admin
  <2>2. pc' \notin {"snapshot", "snapping", "profile", "drop old"}
    BY <1>0, <1>11 DEF Files!FlushSettings, Files!Saves, Files!Goes, Files!Ends
  <2> QED
    BY <1>q, <2>1, <2>2
<1>12. CASE Files!LoadAdminConfig
  <2>1. UNCHANGED <<profile, snapshots, reference>> /\ counts'.snapshot = counts.snapshot
    BY <1>0, <1>12 DEF Files!LoadAdminConfig, Files!Restores, Files!admin
  <2>2. pc' \notin {"snapshot", "snapping", "profile", "drop old"}
    BY <1>0, <1>12 DEF Files!LoadAdminConfig, Files!Restores, Files!Goes, Files!Ends
  <2> QED
    BY <1>q, <2>1, <2>2
<1>13. CASE Files!SaveReference
  <2>1. UNCHANGED <<profile, snapshots, pc, op>> /\ reference' \in Picture
        /\ counts'.snapshot = counts.snapshot
    BY <1>0, <1>13 DEF Files!SaveReference, Files!admin, Counts
  <2> QED
    BY <1>i, <2>1 DEF Files!ProfileIsWhole, Files!Loadable, ProfileGoesOn
<1>14. CASE Files!SaveAdminBaseline
  <2>1. UNCHANGED <<profile, snapshots, reference>> /\ counts'.snapshot = counts.snapshot
    BY <1>0, <1>14 DEF Files!SaveAdminBaseline, Files!admin
  <2>2. CASE pc' = "on"
    BY <1>q, <2>1, <2>2
  <2>3. ASSUME NEW auto \in {"yes", "no"},
               op'.job = [config |-> config, file |-> 0, auto |-> auto],
               \/ pc' = "profile"
               \/ pc' = "snapshot" /\ reference # None
        PROVE  Files!ProfileIsWhole' /\ ProfileGoesOn'
    <3>1. op'.job \in Files!Profile /\ op'.job.file = 0
      BY <1>i, <2>3 DEF Files!Profile
    <3>2. Files!Loadable(op.job)'
      BY <1>j, <3>1 DEF Files!Loadable
    <3> QED
      BY <1>i, <1>n, <2>1, <2>3, <3>1, <3>2
         DEF Files!ProfileIsWhole, Files!Loadable, ProfileGoesOn
  <2>4. Files!Loadable(profile) => profile.auto \in {"yes", "no"}
    BY <1>i, <1>j DEF Files!Loadable, Files!Profile
  <2> QED
    BY <1>0, <1>14, <2>2, <2>3, <2>4 DEF Files!SaveAdminBaseline, Files!Ends,
       Files!Operation
<1>15. CASE Files!CreateSnapshot
  <2> DEFINE n == counts.snapshot + 1
  <2>1. /\ UNCHANGED <<profile, reference>> /\ snapshots' = [snapshots EXCEPT ![n] = Torn]
        /\ op'.job.file = n /\ op'.job \in Files!Profile /\ pc' = "snapping"
        /\ counts'.snapshot = n /\ reference \in Picture
    <3>1. op.job \in Files!Profile /\ reference \in Picture
      BY <1>i, <1>15 DEF Files!CreateSnapshot, ProfileGoesOn
    <3>2. n \in Files!SnapshotName
      BY <1>0, <1>n, <1>15, ContentsAre DEF Files!CreateSnapshot, Counts,
         Files!SnapshotName
    <3>3. op' = [op EXCEPT !.job = [op.job EXCEPT !.file = n]]
      BY <1>0, <1>15 DEF Files!CreateSnapshot, Files!Operation
    <3>4. op'.job = [op.job EXCEPT !.file = n]
      BY <1>0, <3>3 DEF Files!Operation
    <3> QED
      BY <1>0, <1>15, <3>1, <3>2, <3>4 DEF Files!CreateSnapshot, Counts, Files!Profile
  <2>2. profile.file \in Nat /\ profile.file <= counts.snapshot
    BY <1>i, <1>j DEF ProfileGoesOn
  <2>3. /\ profile.file <= n /\ profile.file # n /\ n <= n /\ n # 0
    BY <1>n, <2>2, OneAfter
  <2> HIDE DEF n
  <2>4. Files!ProfileIsWhole'
    BY <1>i, <2>1, <2>3 DEF Files!ProfileIsWhole, Files!Loadable
  <2> QED
    BY <2>1, <2>3, <2>4 DEF ProfileGoesOn
<1>16. CASE Files!CopySnapshot
  <2>1. /\ UNCHANGED <<profile, reference>> /\ counts'.snapshot = counts.snapshot
        /\ pc = "snapping"
    BY <1>0, <1>16 DEF Files!CopySnapshot
  <2>2. /\ op.job \in Files!Profile /\ op.job.file # 0 /\ op.job.file # profile.file
        /\ op.job.file \in Files!SnapshotName /\ op.job.file <= counts.snapshot
        /\ reference \in Picture
    BY <1>i, <1>j, <2>1 DEF ProfileGoesOn
  <2>3. CASE /\ snapshots' = [snapshots EXCEPT ![op.job.file] = reference]
             /\ pc' = "profile" /\ op' = op
    <3>1. Files!ProfileIsWhole'
      BY <1>i, <2>1, <2>2, <2>3 DEF Files!ProfileIsWhole, Files!Loadable
    <3>2. Files!Loadable(op.job)'
      BY <1>i, <1>j, <2>2, <2>3 DEF Files!Loadable
    <3> QED
      BY <1>i, <2>1, <2>2, <2>3, <3>1, <3>2 DEF ProfileGoesOn
  <2>4. CASE /\ snapshots' = [snapshots EXCEPT ![op.job.file] = None]
             /\ pc' = "on"
    BY <1>i, <2>1, <2>2, <2>4 DEF Files!ProfileIsWhole, Files!Loadable, ProfileGoesOn
  <2> QED
    BY <1>16, <2>3, <2>4 DEF Files!CopySnapshot, Files!Goes, Files!Ends
<1>17. CASE Files!ReplaceProfile
  <2>1. /\ counts'.snapshot = counts.snapshot /\ reference' = reference
        /\ pc = "profile"
    BY <1>0, <1>17 DEF Files!ReplaceProfile
  <2>2. /\ op.job \in Files!Profile /\ Files!Loadable(op.job)
        /\ op.job.file # 0 => op.job.file # profile.file
        /\ op.job.file <= counts.snapshot
    BY <1>i, <2>1 DEF ProfileGoesOn
  <2>3. CASE /\ profile' = op.job /\ snapshots' = snapshots /\ pc' = "drop old"
             /\ op'.job = IF Files!Loadable(profile) THEN profile ELSE Files!NoProfile
    <3>1. Files!ProfileIsWhole'
      BY <2>2, <2>3 DEF Files!ProfileIsWhole, Files!Loadable
    <3>2. /\ op'.job.file \in {profile.file, 0}
          /\ profile.file <= counts.snapshot /\ 0 <= counts.snapshot
      <4>1. profile.file <= counts.snapshot /\ Files!NoProfile.file = 0
        BY <1>i, <1>j DEF ProfileGoesOn
      <4> QED
        BY <1>n, <2>3, <4>1
    <3>3. op'.job.file <= counts'.snapshot /\ profile'.file <= counts'.snapshot
      BY <2>1, <2>2, <2>3, <3>2
    <3> QED
      BY <2>2, <2>3, <3>1, <3>2, <3>3 DEF ProfileGoesOn
  <2>4. CASE /\ profile' = profile /\ snapshots' = Files!WithoutFile(op.job.file)
             /\ pc' = "on"
    BY <1>i, <1>j, <2>1, <2>2, <2>4
       DEF Files!ProfileIsWhole, Files!Loadable, ProfileGoesOn, Files!WithoutFile
  <2> QED
    BY <1>0, <1>17, <2>3, <2>4 DEF Files!ReplaceProfile, Files!DropsOld, Files!Ends,
       Files!Operation
<1>18. CASE Files!DropOldSnapshot
  <2>1. /\ counts'.snapshot = counts.snapshot /\ profile' = profile
        /\ pc = "drop old" /\ pc' = "on"
    BY <1>0, <1>18 DEF Files!DropOldSnapshot, Files!Ends
  <2>2. CASE snapshots' = snapshots
    BY <1>q, <2>1, <2>2
  <2>3. CASE snapshots' = Files!WithoutFile(op.job.file)
    BY <1>i, <1>j, <2>1, <2>3
       DEF Files!ProfileIsWhole, Files!Loadable, ProfileGoesOn, Files!WithoutFile
  <2> QED
    BY <1>18, <2>2, <2>3 DEF Files!DropOldSnapshot
<1>19. CASE Files!SetAdminAutoRestore
  <2>1. /\ counts'.snapshot = counts.snapshot /\ UNCHANGED <<snapshots, pc, op>>
        /\ pc = "on" /\ profile'.file = profile.file
    BY <1>0, <1>i, <1>19 DEF Files!SetAdminAutoRestore, Files!Profiles, Files!Profile,
       Files!NoProfile
  <2>2. Files!Loadable(profile)
    BY <1>19 DEF Files!SetAdminAutoRestore
  <2> QED
    BY <1>i, <2>1, <2>2 DEF Files!ProfileIsWhole, Files!Loadable, ProfileGoesOn
<1>20. CASE Files!RemoveAdminBaseline
  <2>1. /\ counts'.snapshot = counts.snapshot /\ UNCHANGED <<snapshots, reference>>
        /\ pc = "on"
    BY <1>0, <1>20 DEF Files!RemoveAdminBaseline
  <2>2. CASE /\ profile' = Files!NoProfile /\ pc' = "drop old"
             /\ op'.job = IF Files!Loadable(profile) THEN profile ELSE Files!NoProfile
    <3>1. /\ op'.job.file \in {profile.file, 0} /\ profile'.file = 0
          /\ profile.file <= counts.snapshot /\ 0 <= counts.snapshot
      <4>1. profile.file <= counts.snapshot /\ Files!NoProfile.file = 0
        BY <1>i, <1>j DEF ProfileGoesOn
      <4> QED
        BY <1>n, <2>2, <4>1
    <3>2. op'.job.file <= counts'.snapshot /\ profile'.file <= counts'.snapshot
      BY <2>1, <3>1
    <3> QED
      BY <2>2, <3>1, <3>2 DEF ProfileGoesOn, Files!ProfileIsWhole
  <2>3. CASE UNCHANGED <<profile, pc>>
    BY <1>q, <2>1, <2>3
  <2> QED
    BY <1>0, <1>20, <2>2, <2>3 DEF Files!RemoveAdminBaseline, Files!DropsOld,
       Files!Operation
<1>21. CASE Files!MarkGuideCompleted
  <2>1. UNCHANGED <<profile, snapshots, reference>> /\ counts'.snapshot = counts.snapshot
    BY <1>0, <1>21 DEF Files!MarkGuideCompleted, Files!admin
  <2>2. pc' \notin {"snapshot", "snapping", "profile", "drop old"}
    BY <1>0, <1>21 DEF Files!MarkGuideCompleted, Files!Goes, Files!Ends
  <2> QED
    BY <1>q, <2>1, <2>2
<1>22. CASE Files!GuideWritten
  <2>1. UNCHANGED <<profile, snapshots, reference>> /\ counts'.snapshot = counts.snapshot
    BY <1>0, <1>22 DEF Files!GuideWritten, Files!admin
  <2>2. pc' \notin {"snapshot", "snapping", "profile", "drop old"}
    BY <1>0, <1>22 DEF Files!GuideWritten, Files!Goes, Files!Ends
  <2> QED
    BY <1>q, <2>1, <2>2
<1>23. CASE Files!Exit
  <2>1. UNCHANGED <<profile, snapshots, reference>> /\ counts'.snapshot = counts.snapshot
    BY <1>0, <1>23 DEF Files!Exit, Files!admin
  <2>2. pc' \notin {"snapshot", "snapping", "profile", "drop old"}
    BY <1>0, <1>23 DEF Files!Exit, Files!Saves, Files!Goes, Files!Ends
  <2> QED
    BY <1>q, <2>1, <2>2
<1>24. CASE Files!Crash
  <2>1. UNCHANGED <<profile, snapshots, reference>> /\ counts'.snapshot = counts.snapshot
    BY <1>0, <1>24 DEF Counts, Files!Crash, Files!admin
  <2>2. pc' \notin {"snapshot", "snapping", "profile", "drop old"}
    BY <1>0, <1>24 DEF Files!Crash, Files!Goes, Files!Ends
  <2> QED
    BY <1>q, <2>1, <2>2
<1>25. CASE Files!Spoil
  <2>1. UNCHANGED <<profile, snapshots, reference>> /\ counts'.snapshot = counts.snapshot
    BY <1>0, <1>25 DEF Counts, Files!Spoil, Files!admin
  <2>2. pc' \notin {"snapshot", "snapping", "profile", "drop old"}
    BY <1>0, <1>25 DEF Files!Spoil, Files!Goes, Files!Ends
  <2> QED
    BY <1>q, <2>1, <2>2
<1> QED
  BY <1>0, <1>1, <1>2, <1>3, <1>4, <1>5, <1>6, <1>7, <1>8, <1>9, <1>10, <1>11,
     <1>12, <1>13, <1>14, <1>15, <1>16, <1>17, <1>18, <1>19, <1>20, <1>21, <1>22,
     <1>23, <1>24, <1>25 DEF Files!Next

\* Every picture of a profile stays named.
LEMMA NamesKept ==
    ASSUME StoreInv, Files!Next
    PROVE  PicturesAreNamed'
<1>0. /\ op \in Files!Operation /\ counts \in Counts /\ CountsGrow
      /\ Files!Works => counts' = counts
      /\ Files!Trouble =>
            /\ counts'.trouble > 0 /\ counts'.trouble = counts.trouble + 1
            /\ counts'.crash = counts.crash /\ counts'.spoil = counts.spoil
            /\ counts'.snapshot = counts.snapshot /\ counts'.overlap = counts.overlap
  BY CountsKept, CountsMatter
<1>n. /\ counts.trouble \in Nat /\ counts'.trouble \in Nat
      /\ counts.crash \in Nat /\ counts'.crash \in Nat
      /\ counts.spoil \in Nat /\ counts'.spoil \in Nat
      /\ counts.snapshot \in Nat /\ counts'.snapshot \in Nat
      /\ counts.overlap \in {0, 1} /\ counts'.overlap \in {0, 1}
      /\ counts.trouble > 0 => counts'.trouble > 0
      /\ counts'.trouble = 0 => counts.trouble = 0
      /\ counts'.crash = 0 => counts.crash = 0
      /\ counts'.overlap = 0 => counts.overlap = 0
      /\ 0 <= counts.snapshot /\ 0 <= counts'.snapshot
  BY CountsKept, CountsMatter
<1>i. /\ PicturesAreNamed /\ profile \in Files!Profiles
      /\ snapshots \in [Files!SnapshotName -> Picture \cup {Torn, None}]
  BY DEF StoreInv, Files!TypeOK
<1>t. ASSUME Files!Trouble
      PROVE  PicturesAreNamed'
  <2>1. counts'.trouble # 0
    BY <1>0, <1>n, <1>t
  <2> QED
    BY <2>1 DEF PicturesAreNamed
<1>q. ASSUME UNCHANGED <<profile, snapshots>>,
             pc \notin {"snapping", "profile", "drop old"}
      PROVE  PicturesAreNamed'
  BY <1>n, <1>i, <1>q DEF PicturesAreNamed
<1>d. Files!DropsOld => pc' = "drop old" /\ op'.job = profile
  BY <1>0 DEF Files!DropsOld, StoreInv, Files!ProfileIsWhole, Files!Operation
<1>1. CASE Files!InitializeGuide
  <2>1. UNCHANGED <<profile, snapshots>> /\ pc \notin {"snapping", "profile", "drop old"}
    BY <1>0, <1>1 DEF Files!InitializeGuide, Files!admin
  <2> QED
    BY <1>q, <2>1
<1>2. CASE Files!RestoreOnLaunch
  <2>1. UNCHANGED <<profile, snapshots>> /\ pc \notin {"snapping", "profile", "drop old"}
    BY <1>0, <1>2 DEF Files!RestoreOnLaunch, Files!Restores, Files!admin
  <2> QED
    BY <1>q, <2>1
<1>3. CASE Files!LoadConfig
  <2>1. UNCHANGED <<profile, snapshots>> /\ pc \notin {"snapping", "profile", "drop old"}
    BY <1>0, <1>3 DEF Files!LoadConfig, Files!admin
  <2> QED
    BY <1>q, <2>1
<1>4. CASE Files!BeginBackup
  <2>1. UNCHANGED <<profile, snapshots>> /\ pc \notin {"snapping", "profile", "drop old"}
    BY <1>0, <1>4 DEF Files!BeginBackup, Files!admin
  <2> QED
    BY <1>q, <2>1
<1>5. CASE Files!EndBackup
  <2>1. UNCHANGED <<profile, snapshots>> /\ pc \notin {"snapping", "profile", "drop old"}
    BY <1>0, <1>5 DEF Files!EndBackup, Files!admin
  <2> QED
    BY <1>q, <2>1
<1>6. CASE Files!ReplaceConfig
  <2>1. UNCHANGED <<profile, snapshots>> /\ pc \notin {"snapping", "profile", "drop old"}
    BY <1>0, <1>6 DEF Files!ReplaceConfig, Files!admin
  <2> QED
    BY <1>q, <2>1
<1>7. CASE Files!KeepReference
  <2>1. UNCHANGED <<profile, snapshots>> /\ pc \notin {"snapping", "profile", "drop old"}
    BY <1>0, <1>7 DEF Files!KeepReference, Files!admin
  <2> QED
    BY <1>q, <2>1
<1>8. CASE Files!RestoreReference
  <2>1. UNCHANGED <<profile, snapshots>> /\ pc \notin {"snapping", "profile", "drop old"}
    BY <1>0, <1>8 DEF Files!RestoreReference, Files!admin
  <2> QED
    BY <1>q, <2>1
<1>9. CASE Files!RollBackReference
  <2>1. UNCHANGED <<profile, snapshots>> /\ pc \notin {"snapping", "profile", "drop old"}
    BY <1>0, <1>9 DEF Files!RollBackReference, Files!admin
  <2> QED
    BY <1>q, <2>1
<1>10. CASE Files!EndRestore
  <2>1. UNCHANGED <<profile, snapshots>> /\ pc \notin {"snapping", "profile", "drop old"}
    BY <1>0, <1>10 DEF Files!EndRestore, Files!admin
  <2> QED
    BY <1>q, <2>1
<1>11. CASE Files!FlushSettings
  <2>1. UNCHANGED <<profile, snapshots>> /\ pc \notin {"snapping", "profile", "drop old"}
    BY <1>0, <1>11 DEF Files!FlushSettings, Files!admin
  <2> QED
    BY <1>q, <2>1
<1>12. CASE Files!LoadAdminConfig
  <2>1. UNCHANGED <<profile, snapshots>> /\ pc \notin {"snapping", "profile", "drop old"}
    BY <1>0, <1>12 DEF Files!LoadAdminConfig, Files!Restores, Files!admin
  <2> QED
    BY <1>q, <2>1
<1>13. CASE Files!SaveReference
  <2>1. UNCHANGED <<profile, snapshots, pc, op>>
    BY <1>13 DEF Files!SaveReference, Files!admin
  <2> QED
    BY <1>n, <1>i, <2>1 DEF PicturesAreNamed
<1>14. CASE Files!SaveAdminBaseline
  <2>1. UNCHANGED <<profile, snapshots>> /\ pc \notin {"snapping", "profile", "drop old"}
    BY <1>0, <1>14 DEF Files!SaveAdminBaseline, Files!admin
  <2> QED
    BY <1>q, <2>1
<1>15. CASE Files!CreateSnapshot
  <2>1. /\ pc = "snapshot" /\ pc' = "snapping" /\ profile' = profile
        /\ op'.job.file = counts.snapshot + 1
        /\ snapshots' = [snapshots EXCEPT ![counts.snapshot + 1] = Torn]
    <3>1. op.job \in Files!Profile
      BY <1>15 DEF Files!CreateSnapshot, StoreInv, ProfileGoesOn
    <3>2. op' = [op EXCEPT !.job = [op.job EXCEPT !.file = counts.snapshot + 1]]
      BY <1>0, <1>15 DEF Files!CreateSnapshot, Files!Operation
    <3>3. op'.job = [op.job EXCEPT !.file = counts.snapshot + 1]
      BY <1>0, <3>2 DEF Files!Operation
    <3> QED
      BY <1>15, <3>1, <3>3 DEF Files!CreateSnapshot, Files!Profile
  <2> QED
    BY <1>n, <1>i, <2>1 DEF PicturesAreNamed
<1>16. CASE Files!CopySnapshot
  <2>1. CASE Files!Trouble
    BY <1>t, <2>1
  <2>2. CASE /\ pc = "snapping" /\ pc' = "profile" /\ UNCHANGED <<profile, op>>
             /\ snapshots' = [snapshots EXCEPT ![op.job.file] = reference]
    BY <1>n, <1>i, <2>2 DEF PicturesAreNamed
  <2> QED
    BY <1>16, <2>1, <2>2 DEF Files!CopySnapshot, Files!Goes
<1>17. CASE Files!ReplaceProfile
  <2>1. CASE Files!Trouble
    BY <1>t, <2>1
  <2>2. CASE /\ pc = "profile" /\ pc' = "drop old" /\ profile' = op.job
             /\ op'.job = profile /\ snapshots' = snapshots
    BY <1>n, <1>i, <2>2 DEF PicturesAreNamed
  <2> QED
    BY <1>0, <1>d, <1>17, <2>1, <2>2 DEF Files!ReplaceProfile
<1>18. CASE Files!DropOldSnapshot
  <2>1. CASE Files!Trouble
    BY <1>t, <2>1
  <2>2. CASE /\ pc = "drop old" /\ profile' = profile
             /\ snapshots' = Files!WithoutFile(op.job.file)
    BY <1>n, <1>i, <2>2 DEF PicturesAreNamed, Files!WithoutFile
  <2> QED
    BY <1>18, <2>1, <2>2 DEF Files!DropOldSnapshot
<1>19. CASE Files!SetAdminAutoRestore
  <2>1. UNCHANGED <<snapshots, pc, op>> /\ profile'.file = profile.file
    BY <1>i, <1>19 DEF Files!SetAdminAutoRestore, Files!Profiles, Files!Profile,
       Files!NoProfile
  <2> QED
    BY <1>n, <1>i, <2>1 DEF PicturesAreNamed
<1>20. CASE Files!RemoveAdminBaseline
  <2>1. CASE Files!Trouble
    BY <1>t, <2>1
  <2>2. CASE /\ pc = "on" /\ pc' = "drop old" /\ profile' = Files!NoProfile
             /\ op'.job = profile /\ snapshots' = snapshots
    BY <1>n, <1>i, <2>2 DEF PicturesAreNamed
  <2> QED
    BY <1>0, <1>d, <1>20, <2>1, <2>2 DEF Files!RemoveAdminBaseline
<1>21. CASE Files!MarkGuideCompleted
  <2>1. UNCHANGED <<profile, snapshots>> /\ pc \notin {"snapping", "profile", "drop old"}
    BY <1>0, <1>21 DEF Files!MarkGuideCompleted, Files!admin
  <2> QED
    BY <1>q, <2>1
<1>22. CASE Files!GuideWritten
  <2>1. UNCHANGED <<profile, snapshots>> /\ pc \notin {"snapping", "profile", "drop old"}
    BY <1>0, <1>22 DEF Files!GuideWritten, Files!admin
  <2> QED
    BY <1>q, <2>1
<1>23. CASE Files!Exit
  <2>1. UNCHANGED <<profile, snapshots>> /\ pc \notin {"snapping", "profile", "drop old"}
    BY <1>0, <1>23 DEF Files!Exit, Files!admin
  <2> QED
    BY <1>q, <2>1
<1>24. CASE Files!Crash
  <2>1. counts'.crash # 0
    BY <1>0, <1>n, <1>24 DEF Files!Crash, Counts
  <2> QED
    BY <2>1 DEF PicturesAreNamed
<1>25. CASE Files!Spoil
  <2>1. UNCHANGED <<profile, snapshots>> /\ pc \notin {"snapping", "profile", "drop old"}
    BY <1>0, <1>25 DEF Files!Spoil, Files!admin
  <2> QED
    BY <1>q, <2>1
<1> QED
  BY <1>0, <1>1, <1>2, <1>3, <1>4, <1>5, <1>6, <1>7, <1>8, <1>9, <1>10, <1>11,
     <1>12, <1>13, <1>14, <1>15, <1>16, <1>17, <1>18, <1>19, <1>20, <1>21, <1>22,
     <1>23, <1>24, <1>25 DEF Files!Next

\* The inductive invariant of the files, for any contents and any number of
\* failures, crashes, damages and saves.
THEOREM StoreInvariance == Files!Spec => []StoreInv
<1>1. Files!Init => StoreInv
  <2> SUFFICES ASSUME Files!Init
               PROVE  StoreInv
    OBVIOUS
  <2>1. op \in Files!Operation /\ profile \in Files!Profiles
    BY ContentsAre DEF Files!Init, Files!NoOperation, Files!Operation, Files!Profiles
  <2>2. counts \in Counts /\ counts.spoil = 0 /\ counts.trouble = 0
        /\ counts.snapshot = 0 /\ profile.file = 0
    BY ContentsAre DEF Files!Init, Counts, Files!NoProfile
  <2>3. Files!TypeOK
    BY <2>1, <2>2, ContentsAre DEF Files!Init, Files!TypeOK, Counts
  <2>4. Files!ProfileIsWhole /\ RestoreGoesOn /\ RestoreIsSound
    BY DEF Files!Init, Files!ProfileIsWhole, RestoreGoesOn, RestoreIsSound,
       Files!Restoring, Files!NoOperation
  <2>5. ProfileGoesOn /\ PicturesAreNamed /\ BackupIsKept
    BY <2>2, ContentsAre DEF Files!Init, ProfileGoesOn, PicturesAreNamed, BackupIsKept
  <2> QED
    BY <2>3, <2>4, <2>5 DEF StoreInv
<1>2. ASSUME StoreInv, Files!Next
      PROVE  StoreInv'
  BY <1>2, StoreTypeKept, BackupStaysKept, SoundnessKept, RestoreKept, ProfileKept,
     NamesKept DEF StoreInv
<1>3. ASSUME StoreInv, UNCHANGED Files!vars
      PROVE  StoreInv'
  <2>1. UNCHANGED <<primary, backup, reference, profile, snapshots, guide, config,
                    shown, pc, op, counts>>
    BY <1>3 DEF Files!vars, Files!store, Files!admin
  <2>2. Files!TypeOK' /\ Files!ProfileIsWhole'
    BY <1>3, <2>1 DEF StoreInv, Files!TypeOK, Files!ProfileIsWhole, Files!Loadable
  <2>3. RestoreGoesOn'
    BY <1>3, <2>1 DEF StoreInv, RestoreGoesOn, Files!Snapshot
  <2>4. RestoreIsSound'
    BY <1>3, <2>1 DEF StoreInv, RestoreIsSound, Files!Restoring, Files!Loadable
  <2>5. ProfileGoesOn' /\ PicturesAreNamed' /\ BackupIsKept'
    BY <1>3, <2>1 DEF StoreInv, ProfileGoesOn, Files!Loadable, PicturesAreNamed,
       BackupIsKept
  <2> QED
    BY <2>2, <2>3, <2>4, <2>5 DEF StoreInv
<1> QED
  BY <1>1, <1>2, <1>3, PTL DEF Files!Spec

\* A setup guide that was dismissed is not opened again.
LEMMA DismissedForGood ==
    ASSUME StoreInv, Files!Next, primary # None, guide \in {"dismissed", Torn}
    PROVE  /\ guide' # "open"
           /\ pc = "off" /\ pc' = "load" => shown' = "no"
<1> USE ContentsAre
<1>1. CASE Files!InitializeGuide
  <2>1. Files!HasExistingUserData
    BY DEF Files!HasExistingUserData
  <2> QED
    BY <1>1, <2>1 DEF Files!InitializeGuide
<1>2. CASE Files!MarkGuideCompleted
  BY <1>2 DEF Files!MarkGuideCompleted, Files!Goes
<1>3. CASE Files!GuideWritten
  BY <1>3 DEF Files!GuideWritten, Files!Goes
<1>4. ASSUME ~Files!InitializeGuide, ~Files!MarkGuideCompleted, ~Files!GuideWritten
      PROVE  guide' = guide
  BY <1>4 DEF Files!Next, Files!RestoreOnLaunch, Files!LoadConfig, Files!BeginBackup,
     Files!EndBackup, Files!ReplaceConfig, Files!KeepReference, Files!RestoreReference,
     Files!RollBackReference, Files!EndRestore, Files!FlushSettings,
     Files!LoadAdminConfig, Files!SaveReference, Files!SaveAdminBaseline,
     Files!CreateSnapshot, Files!CopySnapshot, Files!ReplaceProfile,
     Files!DropOldSnapshot, Files!SetAdminAutoRestore, Files!RemoveAdminBaseline,
     Files!Exit, Files!Crash, Files!Spoil
<1>5. ASSUME pc = "off", pc' = "load"
      PROVE  Files!InitializeGuide
  BY <1>5 DEF Files!Next, Files!RestoreOnLaunch, Files!LoadConfig, Files!BeginBackup,
     Files!EndBackup, Files!ReplaceConfig, Files!KeepReference, Files!RestoreReference,
     Files!RollBackReference, Files!EndRestore, Files!FlushSettings,
     Files!LoadAdminConfig, Files!SaveReference, Files!SaveAdminBaseline,
     Files!CreateSnapshot, Files!CopySnapshot, Files!ReplaceProfile,
     Files!DropOldSnapshot, Files!SetAdminAutoRestore, Files!RemoveAdminBaseline,
     Files!MarkGuideCompleted, Files!GuideWritten,
     Files!Exit, Files!Crash, Files!Ends, Files!Spoil
<1> QED
  BY <1>1, <1>2, <1>3, <1>4, <1>5

\* Whatever fails and wherever the program dies, the files keep the configuration,
\* a restore is whole, the profile names a complete picture and nothing is orphaned,
\* and a dismissed guide stays dismissed.
THEOREM StoreKeepsFiles ==
    Files!Spec =>
       /\ [](Files!TypeOK /\ Files!ConfigSurvives /\ Files!RestoreIsWhole
               /\ Files!ProfileIsWhole /\ Files!NoOrphans)
       /\ Files!DismissedStays
<1>1. ASSUME StoreInv
      PROVE  /\ Files!TypeOK /\ Files!ConfigSurvives /\ Files!RestoreIsWhole
             /\ Files!ProfileIsWhole /\ Files!NoOrphans
  <2>1. Files!ConfigSurvives
    BY <1>1, ContentsAre DEF StoreInv, BackupIsKept, Files!ConfigSurvives
  <2>2. Files!RestoreIsWhole
    BY <1>1 DEF StoreInv, RestoreGoesOn, Files!RestoreIsWhole
  <2>3. Files!NoOrphans
    BY <1>1 DEF StoreInv, PicturesAreNamed, Files!NoOrphans
  <2> QED
    BY <1>1, <2>1, <2>2, <2>3 DEF StoreInv
<1>2. ASSUME StoreInv, [Files!Next]_(Files!vars)
      PROVE  [primary # None /\ guide \in {"dismissed", Torn}
                => /\ guide' # "open"
                   /\ pc = "off" /\ pc' = "load" => shown' = "no"]_(Files!vars)
  BY <1>2, DismissedForGood
<1> QED
  BY <1>1, <1>2, StoreInvariance, PTL DEF Files!Spec, Files!DismissedStays

\* A behaviour of the composition is a behaviour of the files.
LEMMA PicturesRunFiles == MCSpec => Files!Spec
<1>1. MCInit => Files!Init
  BY DEF MCInit
<1>2. [MCNext]_<<part, vars, scalingVars, fileVars, matchingVars>>
        => [Files!Next]_(Files!vars)
  BY DEF MCNext, fileVars, Files!vars, Files!store, Files!admin
<1> QED
  BY <1>1, <1>2, PTL DEF MCSpec, Files!Spec

\* The same in the composition.
THEOREM FilesStayKept == MCSpec => FilesAreKept
<1>1. Files!TypeOK /\ Files!ConfigSurvives /\ Files!RestoreIsWhole
        /\ Files!ProfileIsWhole /\ Files!NoOrphans
        => (part = "files" =>
              /\ Files!TypeOK
              /\ Files!ConfigSurvives
              /\ Files!RestoreIsWhole
              /\ Files!ProfileIsWhole
              /\ Files!NoOrphans)
  OBVIOUS
<1> QED
  BY <1>1, StoreKeepsFiles, PicturesRunFiles, PTL DEF FilesAreKept

----------------------------------------------------------------------------
(* The walk of the scaler, its borders and its blends (FrameScaling).      *)

\* Division with remainder.
LEMMA DivMod ==
    ASSUME NEW a \in Nat, NEW b \in Nat \ {0}
    PROVE  /\ a \div b \in Nat /\ a % b \in 0 .. b - 1
           /\ a = (a \div b) * b + (a % b)
BY SMT

\* A quotient is determined by its remainder.
LEMMA Quotient ==
    ASSUME NEW a \in Nat, NEW b \in Nat \ {0}, NEW q \in Nat,
           NEW r \in 0 .. b - 1, a = q * b + r
    PROVE  a \div b = q
BY SMT

LEMMA LessFactor ==
    ASSUME NEW a \in Nat, NEW b \in Nat, NEW c \in Nat \ {0}, a * c < b * c
    PROVE  a < b
BY SMT

LEMMA FactorLess ==
    ASSUME NEW a \in Nat, NEW b \in Nat, NEW c \in Nat \ {0}, a < b
    PROVE  a * c < b * c
BY SMT

LEMMA FactorLeq ==
    ASSUME NEW a \in Nat, NEW b \in Nat, NEW c \in Nat, a <= b
    PROVE  a * c <= b * c
BY SMT

\* A quotient lies below a bound that its dividend lies below.
LEMMA DivBelow ==
    ASSUME NEW a \in Nat, NEW b \in Nat \ {0}, NEW c \in Nat,
           a < c * b
    PROVE  a \div b \in Nat /\ a \div b < c
<1>1. a \div b \in Nat /\ (a \div b) * b <= a
  BY DivMod
<1>2. (a \div b) * b < c * b
  BY <1>1
<1> QED
  BY <1>1, <1>2, LessFactor

----------------------------------------------------------------------------
\* The walk.

WalkInv ==
    /\ source \in Nat \ {0} /\ length \in Nat \ {0}
    /\ x \in 0 .. length
    /\ position \in Nat /\ remainder \in 0 .. length - 1
    /\ position * length + remainder = x * source

\* Rounding a quotient does not pass a whole number above it.
LEMMA RoundedBelow ==
    ASSUME NEW a \in Nat, NEW b \in Nat \ {0}, NEW c \in Nat, a <= c * b
    PROVE  Scaling!Rounded(a, b) \in Nat /\ Scaling!Rounded(a, b) <= c
<1>1. 2 * a + b \in Nat /\ 2 * b \in Nat \ {0}
  OBVIOUS
<1>2. 2 * a + b < (c + 1) * (2 * b)
  <2>1. c * b \in Nat /\ (c + 1) * (2 * b) = 2 * (c * b) + 2 * b
    BY SMT
  <2> QED
    BY <2>1
<1>3. (2 * a + b) \div (2 * b) \in Nat /\ (2 * a + b) \div (2 * b) < c + 1
  BY <1>1, <1>2, DivBelow
<1> QED
  BY <1>3 DEF Scaling!Rounded

LEMMA AtLeastOneRange ==
    ASSUME NEW n \in Nat, NEW c \in Nat \ {0}, n <= c
    PROVE  Scaling!AtLeastOne(n) \in 1 .. c
BY DEF Scaling!AtLeastOne

LEMMA ClampedRange ==
    ASSUME NEW n \in Int, NEW c \in Nat \ {0}
    PROVE  Scaling!Clamped(n, c) \in 1 .. c
BY DEF Scaling!Clamped

LEMMA SizesType ==
    ASSUME NEW size \in Scaling!Sizes
    PROVE  size.width \in Nat \ {0} /\ size.height \in Nat \ {0}
BY DEF Scaling!Sizes

(* A fitted picture is not empty and not larger than the target.              *)
LEMMA FittedInside ==
    ASSUME NEW from \in Scaling!Sizes, NEW target \in Scaling!Sizes,
           NEW axis \in {"width", "height"}
    PROVE  Scaling!Fitted(from, target)[axis] \in 1 .. target[axis]
<1> DEFINE sw == from.width
           sh == from.height
           ow == target.width
           oh == target.height
<1>1. /\ sw \in Nat \ {0} /\ sh \in Nat \ {0}
      /\ ow \in Nat \ {0} /\ oh \in Nat \ {0}
  BY SizesType
<1> HIDE DEF sw, sh, ow, oh
<1>2. CASE ow * sh <= oh * sw
  <2>1. sh * ow \in Nat /\ sh * ow <= oh * sw
    BY <1>1, <1>2
  <2>2. Scaling!Rounded(sh * ow, sw) \in Nat /\ Scaling!Rounded(sh * ow, sw) <= oh
    BY <1>1, <2>1, RoundedBelow
  <2>3. Scaling!AtLeastOne(Scaling!Rounded(sh * ow, sw)) \in 1 .. oh
    BY <1>1, <2>2, AtLeastOneRange
  <2>4. Scaling!Fitted(from, target) =
          [width |-> ow, height |-> Scaling!AtLeastOne(Scaling!Rounded(sh * ow, sw))]
    BY <1>2 DEF Scaling!Fitted, sw, sh, ow, oh
  <2>5. ow \in 1 .. ow
    BY <1>1
  <2> QED
    BY <2>3, <2>4, <2>5 DEF ow, oh
<1>3. CASE ~(ow * sh <= oh * sw)
  <2>1. sw * oh \in Nat /\ sw * oh <= ow * sh
    <3>1. ow * sh \in Int /\ oh * sw \in Nat /\ sw * oh = oh * sw
      BY <1>1
    <3> QED
      BY <1>3, <3>1
  <2>2. Scaling!Rounded(sw * oh, sh) \in Nat /\ Scaling!Rounded(sw * oh, sh) <= ow
    BY <1>1, <2>1, RoundedBelow
  <2>3. Scaling!AtLeastOne(Scaling!Rounded(sw * oh, sh)) \in 1 .. ow
    BY <1>1, <2>2, AtLeastOneRange
  <2>4. Scaling!Fitted(from, target) =
          [width |-> Scaling!AtLeastOne(Scaling!Rounded(sw * oh, sh)), height |-> oh]
    BY <1>3 DEF Scaling!Fitted, sw, sh, ow, oh
  <2>5. oh \in 1 .. oh
    BY <1>1
  <2> QED
    BY <2>3, <2>4, <2>5 DEF ow, oh
<1> QED
  BY <1>2, <1>3

(* What a filled target shows is a rest of the source, and not empty.         *)
LEMMA CroppedInside ==
    ASSUME NEW from \in Scaling!Sizes, NEW aspect \in Scaling!Sizes, NEW target \in Scaling!Sizes,
           NEW axis \in {"width", "height"}
    PROVE  Scaling!Cropped(from, aspect, target)[axis] \in 1 .. from[axis]
<1> DEFINE wide == Scaling!Rounded(from.width * target.width * aspect.height,
                           target.height * aspect.width)
           high == Scaling!Rounded(from.height * aspect.width * target.height,
                           aspect.height * target.width)
<1>1. /\ from.width \in Nat \ {0} /\ from.height \in Nat \ {0}
      /\ aspect.width \in Nat \ {0} /\ aspect.height \in Nat \ {0}
      /\ target.width \in Nat \ {0} /\ target.height \in Nat \ {0}
  BY SizesType
<1>2. wide \in Int /\ high \in Int
  <2>1. ASSUME NEW a \in Nat, NEW b \in Nat \ {0}
        PROVE  Scaling!Rounded(a, b) \in Int
    <3>1. 2 * a + b \in Nat /\ 2 * b \in Nat \ {0}
      BY <2>1
    <3> QED
      BY <3>1, DivMod DEF Scaling!Rounded
  <2>2. /\ from.width * target.width * aspect.height \in Nat
        /\ target.height * aspect.width \in Nat \ {0}
        /\ from.height * aspect.width * target.height \in Nat
        /\ aspect.height * target.width \in Nat \ {0}
    <3>1. \A a, b \in Nat \ {0} : a * b \in Nat \ {0}
      BY SMT
    <3> QED
      BY <1>1, <3>1
  <2> QED
    BY <2>1, <2>2
<1>3. \/ Scaling!Cropped(from, aspect, target) =
           [width |-> Scaling!Clamped(wide, from.width), height |-> from.height]
      \/ Scaling!Cropped(from, aspect, target) =
           [width |-> from.width, height |-> Scaling!Clamped(high, from.height)]
  BY DEF Scaling!Cropped
<1> HIDE DEF wide, high
<1>4. /\ Scaling!Clamped(wide, from.width) \in 1 .. from.width
      /\ Scaling!Clamped(high, from.height) \in 1 .. from.height
      /\ from.width \in 1 .. from.width /\ from.height \in 1 .. from.height
  <2>1. Scaling!Clamped(wide, from.width) \in 1 .. from.width
    BY <1>1, <1>2, ClampedRange, Zenon
  <2>2. Scaling!Clamped(high, from.height) \in 1 .. from.height
    BY <1>1, <1>2, ClampedRange, Zenon
  <2>3. \A n \in Nat \ {0} : n \in 1 .. n
    OBVIOUS
  <2> QED
    BY <1>1, <2>1, <2>2, <2>3
<1> QED
  BY <1>3, <1>4

----------------------------------------------------------------------------
LEMMA InitWalk == Scaling!Init => WalkInv
<1> SUFFICES ASSUME Scaling!Init PROVE WalkInv
  OBVIOUS
<1>1. PICK from \in Scaling!Sizes, target \in Scaling!Sizes, aspect \in Scaling!Sizes,
           axis \in {"width", "height"} :
        /\ source = from[axis]
        /\ length = Scaling!Fitted(from, target)[axis]
        /\ x = 0 /\ position = 0 /\ remainder = 0
  BY DEF Scaling!Init
<1>2. source \in Nat \ {0} /\ target[axis] \in Nat \ {0}
  BY <1>1, SizesType
<1>3. length \in 1 .. target[axis]
  BY <1>1, FittedInside
<1>4. length \in Nat \ {0}
  BY <1>2, <1>3
<1> QED
  BY <1>1, <1>2, <1>4 DEF WalkInv

\* A pixel further, a whole step and a remainder later.
LEMMA StepWalk == WalkInv /\ [Scaling!Next]_(Scaling!vars) => WalkInv'
<1> SUFFICES ASSUME WalkInv, [Scaling!Next]_(Scaling!vars) PROVE WalkInv'
  OBVIOUS
<1>1. CASE Scaling!Step
  <2> DEFINE whole == source \div length
             rest == source % length
  <2>1. whole \in Nat /\ rest \in 0 .. length - 1
        /\ source = whole * length + rest
    BY DivMod DEF WalkInv
  <2>2. /\ x < length /\ x' = x + 1
        /\ source' = source /\ length' = length
    BY <1>1 DEF Scaling!Step
  <2>3. (x + 1) * source = x * source + source
    BY DEF WalkInv
  <2>4. CASE remainder + rest >= length
    <3>1. position' = position + whole + 1
          /\ remainder' = remainder + rest - length
      BY <1>1, <2>1, <2>4 DEF Scaling!Step, Scaling!Carries, WalkInv
    <3> HIDE DEF whole, rest
    <3>2. (position + whole + 1) * length =
            position * length + whole * length + length
      BY <2>1 DEF WalkInv
    <3>3. remainder' \in 0 .. length - 1
      BY <2>1, <2>4, <3>1 DEF WalkInv
    <3>4. position' * length + remainder' = (x + 1) * source
      BY <2>1, <2>3, <3>1, <3>2 DEF WalkInv
    <3> QED
      BY <2>1, <2>2, <3>1, <3>3, <3>4 DEF WalkInv
  <2>5. CASE ~(remainder + rest >= length)
    <3>1. position' = position + whole /\ remainder' = remainder + rest
      BY <1>1, <2>1, <2>5 DEF Scaling!Step, Scaling!Carries, WalkInv
    <3> HIDE DEF whole, rest
    <3>2. (position + whole) * length = position * length + whole * length
      BY <2>1 DEF WalkInv
    <3>3. remainder' \in 0 .. length - 1
      BY <2>1, <2>5, <3>1 DEF WalkInv
    <3>4. position' * length + remainder' = (x + 1) * source
      BY <2>1, <2>3, <3>1, <3>2 DEF WalkInv
    <3> QED
      BY <2>1, <2>2, <3>1, <3>3, <3>4 DEF WalkInv
  <2> QED
    BY <2>4, <2>5
<1>2. CASE UNCHANGED Scaling!vars
  BY <1>2 DEF WalkInv, Scaling!vars
<1> QED
  BY <1>1, <1>2 DEF Scaling!Next

LEMMA WalkFollows == WalkInv => Scaling!WalkIsPlan
<1> SUFFICES ASSUME WalkInv PROVE Scaling!WalkIsPlan
  OBVIOUS
<1>1. x * source \in Nat
  BY DEF WalkInv
<1>2. (x * source) \div length = position
  BY <1>1, Quotient DEF WalkInv
<1>3. ASSUME x < length PROVE position < source
  <2>1. x * source < length * source
    BY <1>3, FactorLess DEF WalkInv
  <2>2. position * length <= x * source
    <3>1. position * length \in Nat
      BY DEF WalkInv
    <3> QED
      BY <3>1, <1>1 DEF WalkInv
  <2>3. position * length < source * length
    <3>1. length * source = source * length /\ length * source \in Nat
          /\ position * length \in Nat
      BY DEF WalkInv
    <3> QED
      BY <1>1, <2>1, <2>2, <3>1
  <2> QED
    BY <2>3, LessFactor DEF WalkInv
<1> QED
  BY <1>2, <1>3 DEF Scaling!WalkIsPlan, Scaling!Planned

(* For pictures of any size, the walk of the captures reads the pixels that   *)
(* the plan of the compositor names, and none beyond the source.              *)
THEOREM WalkFollowsPlan == Scaling!Spec => []Scaling!WalkIsPlan
<1>1. Scaling!Init => WalkInv
  BY InitWalk
<1>2. WalkInv /\ [Scaling!Next]_(Scaling!vars) => WalkInv'
  BY StepWalk
<1>3. WalkInv => Scaling!WalkIsPlan
  BY WalkFollows
<1> QED
  BY <1>1, <1>2, <1>3, PTL DEF Scaling!Spec

----------------------------------------------------------------------------
LEMMA Halves ==
    ASSUME NEW n \in Nat
    PROVE  n \div 2 \in Nat /\ n - 2 * (n \div 2) \in {0, 1}
OBVIOUS

\* What is left over is halved, and a rest stays inside.
LEMMA OffsetInside ==
    ASSUME NEW outer \in Nat, NEW inner \in 1 .. outer
    PROVE  /\ Scaling!Offset(outer, inner) \in Nat
           /\ Scaling!Offset(outer, inner) + inner <= outer
           /\ outer - inner - 2 * Scaling!Offset(outer, inner) \in {0, 1}
BY Halves DEF Scaling!Offset

LEMMA InitInside == Scaling!Init => Scaling!StaysInside
<1> SUFFICES ASSUME Scaling!Init PROVE Scaling!StaysInside
  OBVIOUS
<1>1. PICK from \in Scaling!Sizes, target \in Scaling!Sizes, aspect \in Scaling!Sizes,
           axis \in {"width", "height"} :
        /\ source = from[axis]
        /\ length = Scaling!Fitted(from, target)[axis]
        /\ border = [start |-> Scaling!Offset(target[axis],
                                      Scaling!Fitted(from, target)[axis]),
                     size |-> target[axis]]
        /\ crop = [start |-> Scaling!Offset(from[axis],
                                    Scaling!Cropped(from, aspect, target)[axis]),
                   size |-> Scaling!Cropped(from, aspect, target)[axis]]
  BY DEF Scaling!Init
<1>2. source \in Nat \ {0} /\ border.size \in Nat \ {0}
  BY <1>1, SizesType
<1>3. length \in 1 .. border.size /\ crop.size \in 1 .. source
  BY <1>1, FittedInside, CroppedInside
<1>4. /\ border.start = Scaling!Offset(border.size, length)
      /\ crop.start = Scaling!Offset(source, crop.size)
  BY <1>1
<1>5. /\ border.start \in Nat /\ border.start + length <= border.size
      /\ border.size - length - 2 * border.start \in {0, 1}
  BY <1>2, <1>3, <1>4, OffsetInside
<1>6. crop.start \in Nat /\ crop.start + crop.size <= source
  BY <1>2, <1>3, <1>4, OffsetInside
<1>7. ASSUME NEW i \in 0 .. border.size - 1
      PROVE  Scaling!Filled(i) \in 0 .. source - 1
  <2>1. i \in Nat /\ i < border.size /\ crop.size \in Nat \ {0}
    BY <1>2, <1>3
  <2>2. i * crop.size < border.size * crop.size
    BY <1>2, <2>1, FactorLess
  <2>3. i * crop.size \in Nat /\ i * crop.size < crop.size * border.size
    BY <1>2, <2>1, <2>2
  <2>4. /\ (i * crop.size) \div border.size \in Nat
        /\ (i * crop.size) \div border.size < crop.size
    BY <1>2, <2>1, <2>3, DivBelow
  <2> QED
    BY <1>2, <1>6, <2>1, <2>4 DEF Scaling!Filled
<1> QED
  BY <1>5, <1>6, <1>7 DEF Scaling!StaysInside

(* For pictures of any size, a fitted picture lies inside the target and a    *)
(* filled target inside the source.                                           *)
THEOREM PixelsStayInside == Scaling!Spec => []Scaling!StaysInside
<1>1. Scaling!StaysInside /\ [Scaling!Next]_(Scaling!vars) => Scaling!StaysInside'
  BY DEF Scaling!Next, Scaling!Step, Scaling!vars, Scaling!StaysInside, Scaling!Filled
<1>2. Scaling!Init => Scaling!StaysInside
  BY InitInside
<1> QED
  BY <1>1, <1>2, PTL DEF Scaling!Spec

----------------------------------------------------------------------------
\* Two parts of a whole.
LEMMA Parts ==
    ASSUME NEW n \in Nat, NEW p \in Nat, NEW q \in Nat
    PROVE  n * p + n * q = n * (p + q) /\ n * p \in Nat /\ n * q \in Nat
BY SMT

\* What is weighed lies between the least and the greatest.
LEMMA Weighed ==
    ASSUME NEW low \in Nat, NEW high \in Nat, NEW left \in Nat,
           NEW right \in Nat, NEW p \in Nat, NEW q \in Nat,
           low <= left, low <= right, left <= high, right <= high
    PROVE  /\ low * (p + q) <= left * p + right * q
           /\ left * p + right * q <= high * (p + q)
<1>1. low * p <= left * p /\ left * p <= high * p
  BY FactorLeq
<1>2. low * q <= right * q /\ right * q <= high * q
  BY FactorLeq
<1>3. /\ low * p + low * q = low * (p + q)
      /\ high * p + high * q = high * (p + q)
  BY Parts
<1>4. /\ low * p \in Nat /\ low * q \in Nat /\ high * p \in Nat
      /\ high * q \in Nat /\ left * p \in Nat /\ right * q \in Nat
  BY Parts
<1> QED
  BY <1>1, <1>2, <1>3, <1>4

\* A rounded sum between two wholes: sixteen bits hold it, and so its quotient.
LEMMA SumBetween ==
    ASSUME NEW left \in Nat, NEW right \in Nat, NEW weight \in Nat,
           weight <= 256, NEW low \in Nat, NEW high \in Nat,
           low <= left, low <= right, left <= high, right <= high
    PROVE  /\ Scaling!Sum(left, right, weight) \in Nat
           /\ low * 256 <= Scaling!Sum(left, right, weight)
           /\ Scaling!Sum(left, right, weight) <= high * 256 + 128
<1> DEFINE rest == 256 - weight
<1>1. rest \in Nat /\ rest + weight = 256
  OBVIOUS
<1>2. Scaling!Sum(left, right, weight) = left * rest + right * weight + 128
  BY DEF Scaling!Sum
<1> HIDE DEF rest
<1>3. /\ low * 256 <= left * rest + right * weight
      /\ left * rest + right * weight <= high * 256
  <2>1. /\ low * (rest + weight) <= left * rest + right * weight
        /\ left * rest + right * weight <= high * (rest + weight)
    BY <1>1, Weighed
  <2> QED
    BY <1>1, <2>1
<1>4. left * rest \in Nat /\ right * weight \in Nat
  BY <1>1, Parts
<1> QED
  BY <1>2, <1>3, <1>4

LEMMA QuotientBetween ==
    ASSUME NEW a \in Nat, NEW low \in Nat, NEW high \in Nat,
           low * 256 <= a, a <= high * 256 + 128
    PROVE  a \div 256 \in Nat /\ low <= a \div 256 /\ a \div 256 <= high
OBVIOUS

LEMMA BlendBounds ==
    ASSUME NEW left \in Nat, NEW right \in Nat, NEW weight \in Nat,
           weight <= 256, NEW low \in Nat, NEW high \in Nat, high <= 255,
           low <= left, low <= right, left <= high, right <= high
    PROVE  Scaling!Blended(left, right, weight) \in low .. high
<1> DEFINE sum == Scaling!Sum(left, right, weight)
<1>1. sum \in Nat /\ low * 256 <= sum /\ sum <= high * 256 + 128
  BY SumBetween
<1> HIDE DEF sum
<1>2. sum % 65536 = sum
  BY <1>1
<1>3. /\ sum \div 256 \in Nat /\ low <= sum \div 256
      /\ sum \div 256 <= high
  BY <1>1, QuotientBetween
<1>4. Scaling!Blended(left, right, weight) = sum \div 256
  BY <1>2 DEF Scaling!Blended, sum
<1> QED
  BY <1>3, <1>4

\* A blend with all the weight on one side is that side.
LEMMA BlendEnds ==
    ASSUME NEW left \in Nat, NEW right \in Nat, left <= 255, right <= 255
    PROVE  Scaling!Blended(left, right, 0) = left /\ Scaling!Blended(left, right, 256) = right
<1>1. /\ Scaling!Sum(left, right, 0) = left * 256 + 128
      /\ Scaling!Sum(left, right, 256) = right * 256 + 128
  BY DEF Scaling!Sum
<1>2. \A n \in Nat : n <= 255 =>
        (n * 256 + 128) % 65536 = n * 256 + 128
  OBVIOUS
<1>3. \A n \in Nat : (n * 256 + 128) \div 256 = n
  OBVIOUS
<1> QED
  BY <1>1, <1>2, <1>3 DEF Scaling!Blended

AnyLevel == 0 .. 255
AnyWeight == 0 .. 256

(* Every blend of two channels lies between them, at every weight, and is     *)
(* one of them at the ends: no rounding and no carry shows.                   *)
LEMMA BlendBetween ==
    \A left, right \in AnyLevel, weight \in AnyWeight :
        Scaling!Between(left, right, weight)
<1> TAKE left, right \in AnyLevel, weight \in AnyWeight
<1>1. /\ left \in Nat /\ right \in Nat /\ weight \in Nat
      /\ left <= 255 /\ right <= 255 /\ weight <= 256
      /\ left <= left /\ right <= right
  BY DEF AnyLevel, AnyWeight
<1>2. ASSUME left <= right
      PROVE  Scaling!Blended(left, right, weight) \in left .. right
  BY <1>1, <1>2, BlendBounds
<1>3. ASSUME right <= left
      PROVE  Scaling!Blended(left, right, weight) \in right .. left
  BY <1>1, <1>3, BlendBounds
<1>4. Scaling!Blended(left, right, 0) = left /\ Scaling!Blended(left, right, 256) = right
  BY <1>1, BlendEnds
<1> QED
  BY <1>2, <1>3, <1>4 DEF Scaling!Between

LEMMA BlendIsAlwaysBetween == mix \in Scaling!Weights => Scaling!BlendIsBetween
<1>1. Scaling!Levels \subseteq AnyLevel /\ Scaling!Weights \subseteq AnyWeight
  BY DEF Scaling!Levels, Scaling!Weights, AnyLevel, AnyWeight
<1> QED
  BY <1>1, BlendBetween DEF Scaling!BlendIsBetween

(* The property the runs check, from the lemma for every level and weight.    *)
THEOREM BlendsLieBetween == Scaling!Spec => []Scaling!BlendIsBetween
<1>1. Scaling!Init => mix \in Scaling!Weights
  BY DEF Scaling!Init
<1>2. mix \in Scaling!Weights /\ [Scaling!Next]_(Scaling!vars) => (mix \in Scaling!Weights)'
  BY DEF Scaling!Next, Scaling!Step, Scaling!vars
<1>3. mix \in Scaling!Weights => Scaling!BlendIsBetween
  BY BlendIsAlwaysBetween
<1> QED
  BY <1>1, <1>2, <1>3, PTL DEF Scaling!Spec

----------------------------------------------------------------------------
(* The comparison of two pictures (PictureComparison).                     *)

LEMMA LeastNumber ==
  ASSUME NEW S \in SUBSET Nat, S # {}
  PROVE  \E least \in S : \A n \in S : least <= n
<1>1. PICK least \in S : \A n \in S : ~(<<n, least>> \in OpToRel(<, Nat))
  BY WFMin, NatLessThanWellFounded
<1>2. ASSUME NEW n \in S PROVE least <= n
  <2>1. n < least => <<n, least>> \in OpToRel(<, Nat)
    BY DEF OpToRel
  <2>2. n \in Nat /\ least \in Nat /\ ~(n < least)
    BY <1>1, <2>1
  <2> QED BY <2>2
<1> QED BY <1>2

\* A function that adds the first n values.
Adds(sum, value, first, n) ==
  sum = [k \in 0 .. n |-> IF k = 0 THEN 0 ELSE sum[k - 1] + value[first + k - 1]]

LEMMA AddsOn ==
  ASSUME NEW n \in Nat, NEW value, NEW first, NEW f, Adds(f, value, first, n)
  PROVE  \E g : Adds(g, value, first, n + 1)
<1> DEFINE g == [k \in 0 .. n + 1 |-> IF k <= n THEN f[k]
      ELSE f[n] + value[first + (n + 1) - 1]]
<1> DEFINE h == [k \in 0 .. n + 1 |-> IF k = 0 THEN 0
      ELSE g[k - 1] + value[first + k - 1]]
<1>1. ASSUME NEW k \in 0 .. n + 1 PROVE g[k] = h[k]
  <2>1. CASE k = 0
    <3>1. f[0] = 0
      BY DEF Adds
    <3> QED BY <2>1, <3>1
  <2>2. CASE k \in 1 .. n
    <3>1. f[k] = f[k - 1] + value[first + k - 1]
      BY <2>2 DEF Adds
    <3>2. g[k] = f[k] /\ g[k - 1] = f[k - 1] /\ h[k] = g[k - 1] + value[first + k - 1]
      BY <2>2
    <3> QED BY <3>1, <3>2
  <2>3. CASE k = n + 1
    <3>1. g[k] = f[n] + value[first + k - 1] /\ k - 1 = n
      BY <2>3
    <3>2. g[n] = f[n] /\ h[k] = g[k - 1] + value[first + k - 1]
      BY <2>3
    <3> QED BY <3>1, <3>2
  <2> QED BY <2>1, <2>2, <2>3
<1>2. g = h
  BY <1>1
<1>3. Adds(g, value, first, n + 1)
  BY <1>2 DEF Adds
<1> QED BY <1>3

LEMMA AddsUp ==
  ASSUME NEW value, NEW first, NEW n \in Nat
  PROVE  \E f : Adds(f, value, first, n)
<1> DEFINE Stuck == {m \in Nat : ~ \E f : Adds(f, value, first, m)}
<1>1. Stuck = {}
  <2> SUFFICES ASSUME Stuck # {} PROVE FALSE
    OBVIOUS
  <2>1. PICK least \in Stuck : \A m \in Stuck : least <= m
    BY LeastNumber
  <2>2. least # 0
    <3> DEFINE f == [k \in 0 .. 0 |-> IF k = 0 THEN 0
          ELSE 0 + value[first + k - 1]]
    <3>1. f = [k \in 0 .. 0 |-> IF k = 0 THEN 0
          ELSE f[k - 1] + value[first + k - 1]]
      OBVIOUS
    <3>2. Adds(f, value, first, 0)
      BY <3>1 DEF Adds
    <3> HIDE DEF f
    <3> QED BY <2>1, <3>2
  <2>3. least - 1 \in Nat /\ least - 1 \notin Stuck /\ (least - 1) + 1 = least
    BY <2>1, <2>2
  <2>4. PICK f : Adds(f, value, first, least - 1)
    BY <2>3
  <2>5. \E g : Adds(g, value, first, (least - 1) + 1)
    BY <2>3, <2>4, AddsOn
  <2> QED BY <2>1, <2>3, <2>5
<1> QED BY <1>1

\* How it goes on.
LEMMA AddsNext ==
  ASSUME NEW value, NEW first, NEW n \in Nat, NEW f, Adds(f, value, first, n),
         NEW k \in 1 .. n
  PROVE  f[k] = f[k - 1] + value[first + k - 1]
<1>1. k \in 0 .. n /\ k # 0
  OBVIOUS
<1> QED
  BY <1>1 DEF Adds

Count(span) == span.last - span.first + 1

LEMMA SummedIs ==
  ASSUME NEW span, NEW value, Count(span) \in Nat
  PROVE  \E f : /\ Adds(f, value, span.first, Count(span))
                /\ Matching!Summed(span, value) = f[Count(span)]
<1> DEFINE sum == CHOOSE f : f = [n \in 0 .. Count(span) |->
             IF n = 0 THEN 0 ELSE f[n - 1] + value[span.first + n - 1]]
<1>1. Adds(sum, value, span.first, Count(span))
  BY AddsUp DEF Adds
<1>2. Matching!Summed(span, value) = sum[Count(span)]
  BY DEF Matching!Summed, Count
<1> QED
  BY <1>1, <1>2

IsSpan(span) == span.first \in Int /\ span.last \in Int /\ Count(span) \in Nat

\* Each value is a multiple of the other.
Multiples(value, other, factor, span) ==
  \A i \in Matching!Range(span) : other[i] \in Nat /\ value[i] = factor * other[i]

\* Sums of multiples are multiples of sums.
LEMMA SumsScale ==
  ASSUME NEW span, IsSpan(span), NEW factor \in Nat, NEW value, NEW other,
         Multiples(value, other, factor, span)
  PROVE  /\ Matching!Summed(span, other) \in Nat
         /\ Matching!Summed(span, value) = factor * Matching!Summed(span, other)
<1> DEFINE n == Count(span)
<1>0. n \in Nat
  BY DEF IsSpan
<1>1. PICK f : Adds(f, value, span.first, n) /\ Matching!Summed(span, value) = f[n]
  BY SummedIs, <1>0
<1>2. PICK g : Adds(g, other, span.first, n) /\ Matching!Summed(span, other) = g[n]
  BY SummedIs, <1>0
<1> DEFINE Off == {k \in Nat : k <= n /\ ~(g[k] \in Nat /\ f[k] = factor * g[k])}
<1>3. Off = {}
  <2> SUFFICES ASSUME Off # {} PROVE FALSE
    OBVIOUS
  <2>1. PICK k \in Off : \A m \in Off : k <= m
    BY LeastNumber
  <2>2. k # 0
    <3>1. f[0] = 0 /\ g[0] = 0
      BY <1>0, <1>1, <1>2 DEF Adds
    <3>2. factor * 0 = 0
      OBVIOUS
    <3> QED
      BY <2>1, <3>1, <3>2
  <2>3. k \in 1 .. n
    BY <1>0, <2>1, <2>2
  <2> DEFINE i == span.first + k - 1
  <2>4. i \in Matching!Range(span)
    BY <2>3, <1>0 DEF IsSpan, Count, Matching!Range
  <2>5. other[i] \in Nat /\ value[i] = factor * other[i]
    BY <2>4 DEF Multiples
  <2>6. f[k] = f[k - 1] + value[i] /\ g[k] = g[k - 1] + other[i]
    <3>1. f[k] = f[k - 1] + value[span.first + k - 1]
      BY <1>0, <1>1, <2>3, AddsNext
    <3>2. g[k] = g[k - 1] + other[span.first + k - 1]
      BY <1>0, <1>2, <2>3, AddsNext
    <3> QED
      BY <3>1, <3>2
  <2>7. g[k - 1] \in Nat /\ f[k - 1] = factor * g[k - 1]
    <3>1. k - 1 \in Nat /\ k - 1 <= n /\ k - 1 \notin Off
      BY <1>0, <2>1, <2>3
    <3> QED
      BY <3>1
  <2> HIDE DEF i, n
  <2>8. \A a, b \in Nat : factor * (a + b) = factor * a + factor * b
    OBVIOUS
  <2>9. f[k] = factor * g[k] /\ g[k] \in Nat
    BY <2>5, <2>6, <2>7, <2>8
  <2> QED
    BY <2>1, <2>9
<1>4. n \notin Off
  BY <1>3
<1> QED
  BY <1>0, <1>1, <1>2, <1>4

\* A sum of numbers is not smaller than one of them.
LEMMA SumsCover ==
  ASSUME NEW span, IsSpan(span), NEW value,
         \A i \in Matching!Range(span) : value[i] \in Nat
  PROVE  \A i \in Matching!Range(span) : value[i] <= Matching!Summed(span, value)
<1> DEFINE n == Count(span)
<1>0. n \in Nat
  BY DEF IsSpan
<1>1. PICK f : Adds(f, value, span.first, n) /\ Matching!Summed(span, value) = f[n]
  BY SummedIs, <1>0
<1> DEFINE Covers(k) == /\ f[k] \in Nat
                        /\ \A j \in 1 .. k : value[span.first + j - 1] <= f[k]
<1> DEFINE Off == {k \in Nat : k <= n /\ ~Covers(k)}
<1>3. Off = {}
  <2> SUFFICES ASSUME Off # {} PROVE FALSE
    OBVIOUS
  <2>1. PICK k \in Off : \A m \in Off : k <= m
    BY LeastNumber
  <2>2. k # 0
    <3>1. f[0] = 0
      BY <1>0, <1>1 DEF Adds
    <3> QED
      BY <2>1, <3>1
  <2>3. k \in 1 .. n
    BY <1>0, <2>1, <2>2
  <2>4. \A j \in 1 .. k : value[span.first + j - 1] \in Nat
    <3>1. \A j \in 1 .. k : span.first + j - 1 \in Matching!Range(span)
      BY <2>3, <1>0 DEF IsSpan, Count, Matching!Range
    <3> QED
      BY <3>1
  <2>6. f[k] = f[k - 1] + value[span.first + k - 1]
    BY <1>0, <1>1, <2>3, AddsNext
  <2>7. Covers(k - 1)
    <3>1. k - 1 \in Nat /\ k - 1 <= n /\ k - 1 \notin Off
      BY <1>0, <2>1, <2>3
    <3> QED
      BY <3>1
  <2> HIDE DEF n
  <2>8. \A j \in 1 .. k : j = k \/ j \in 1 .. k - 1
    BY <2>3
  <2>9. value[span.first + k - 1] \in Nat
    BY <2>3, <2>4
  <2>10. f[k] \in Nat /\ f[k - 1] <= f[k] /\ value[span.first + k - 1] <= f[k]
    BY <2>6, <2>7, <2>9
  <2>11. ASSUME NEW j \in 1 .. k PROVE value[span.first + j - 1] <= f[k]
    <3>1. CASE j = k
      BY <2>10, <3>1
    <3>2. CASE j \in 1 .. k - 1
      BY <2>4, <2>7, <2>10, <3>2
    <3> QED
      BY <2>8, <3>1, <3>2
  <2> QED
    BY <2>1, <2>10, <2>11
<1>4. Covers(n)
  BY <1>0, <1>3
<1>5. ASSUME NEW i \in Matching!Range(span)
      PROVE  /\ i - span.first + 1 \in 1 .. n
             /\ span.first + (i - span.first + 1) - 1 = i
  BY <1>0 DEF IsSpan, Count, Matching!Range
<1> HIDE DEF n
<1> QED
  BY <1>1, <1>4, <1>5

\* A sum of numbers is none only if all of them are.
LEMMA SumsVanish ==
  ASSUME NEW span, IsSpan(span), NEW value,
         \A i \in Matching!Range(span) : value[i] \in Nat
  PROVE  /\ Matching!Summed(span, value) \in Nat
         /\ Matching!Summed(span, value) = 0
              <=> \A i \in Matching!Range(span) : value[i] = 0
<1>1. Matching!Summed(span, value) \in Nat
  <2>1. Multiples(value, value, 1, span)
    BY DEF Multiples
  <2> QED
    BY <2>1, SumsScale, 1 \in Nat
<1>2. ASSUME \A i \in Matching!Range(span) : value[i] = 0
      PROVE  Matching!Summed(span, value) = 0
  <2>1. Multiples(value, value, 0, span)
    BY <1>2 DEF Multiples
  <2>2. Matching!Summed(span, value) = 0 * Matching!Summed(span, value)
    BY <2>1, SumsScale, 0 \in Nat
  <2> QED
    BY <1>1, <2>2
<1>3. ASSUME Matching!Summed(span, value) = 0, NEW i \in Matching!Range(span)
      PROVE  value[i] = 0
  BY <1>3, SumsCover
<1> QED
  BY <1>1, <1>2, <1>3

LEMMA Monotone ==
    ASSUME NEW a \in Nat, NEW b \in Nat, NEW c \in Nat
    PROVE  a <= b => c * a <= c * b /\ a * c <= b * c
BY SMT

\* What lies between the borders.
LEMMA SpanFacts ==
  ASSUME NEW extent \in Nat \ {0}, NEW unit \in Nat \ {0, 1, 2}
  PROVE  LET span == Matching!Inside(extent, unit) IN
         /\ IsSpan(span) /\ Matching!Range(span) \subseteq 0 .. extent - 1
         /\ \A i \in 0 .. extent - 1 :
              i \in Matching!Range(span) <=> ~Matching!InBorder(i, extent, unit)
<1> DEFINE q == extent \div unit
<1> DEFINE span == Matching!Inside(extent, unit)
<1>1. q \in Nat /\ unit * q <= extent /\ extent < unit * (q + 1)
  <2>1. q \in Nat /\ extent % unit \in 0 .. unit - 1
         /\ extent = q * unit + (extent % unit)
    BY DivMod
  <2> HIDE DEF q
  <2>2. unit * (q + 1) = q * unit + unit /\ unit * q = q * unit
    BY <2>1
  <2> QED
    BY <2>1, <2>2
<1>2. span.first = q /\ span.last = extent - q - 1
  BY DEF Matching!Inside
<1> HIDE DEF q, span
<1>3. 3 * q <= extent
  <2>1. 3 * q <= unit * q
    BY <1>1, Monotone
  <2> QED
    BY <1>1, <2>1
<1>4. IsSpan(span) /\ Matching!Range(span) \subseteq 0 .. extent - 1
  BY <1>1, <1>2, <1>3 DEF IsSpan, Count, Matching!Range
<1>5. ASSUME NEW n \in Nat PROVE unit * n <= extent <=> n <= q
  <2>1. n <= q => unit * n <= unit * q
    BY <1>1, Monotone
  <2>2. q + 1 <= n => unit * (q + 1) <= unit * n
    BY <1>1, Monotone
  <2> QED
    BY <1>1, <2>1, <2>2
<1>6. ASSUME NEW i \in 0 .. extent - 1
      PROVE  i \in Matching!Range(span) <=> ~Matching!InBorder(i, extent, unit)
  <2>1. /\ unit * (i + 1) <= extent <=> i + 1 <= q
        /\ unit * (extent - i) <= extent <=> extent - i <= q
    <3>1. i + 1 \in Nat /\ extent - i \in Nat
      OBVIOUS
    <3> QED
      BY <3>1, <1>5
  <2> QED
    BY <1>1, <1>2, <2>1 DEF Matching!InBorder, Matching!Range
<1> QED
  BY <1>4, <1>6 DEF span

Columns == Matching!Inside(Analysis.width, BorderColumns)
Rows == Matching!Inside(Analysis.height, BorderRows)

LEMMA ComparisonConstants ==
  /\ Analysis \in [width : Nat \ {0}, height : Nat \ {0}]
  /\ FrameSize \in [width : Nat \ {0}, height : Nat \ {0}]
  /\ ImportSizes \subseteq [width : Nat \ {0}, height : Nat \ {0}]
  /\ BorderColumns \in Nat \ {0, 1, 2} /\ BorderRows \in Nat \ {0, 1, 2}
  /\ Colours \subseteq Matching!Colour
  BY PicturesRunAssumption DEF Matching!ComparisonAssumption, Matching!Size

\* The points that are compared.
Compare == {p \in Matching!Points(Analysis) :
              ~Matching!InBorder(p[1], Analysis.width, BorderColumns)
                /\ ~Matching!InBorder(p[2], Analysis.height, BorderRows)}

LEMMA ComparedPoints ==
  /\ IsSpan(Columns) /\ IsSpan(Rows)
  /\ \A row \in Matching!Range(Rows), column \in Matching!Range(Columns) : <<column, row>> \in Compare
  /\ \A p \in Compare : /\ p = <<p[1], p[2]>>
                        /\ p[1] \in Matching!Range(Columns) /\ p[2] \in Matching!Range(Rows)
<1>1. /\ Analysis.width \in Nat \ {0} /\ Analysis.height \in Nat \ {0}
      /\ BorderColumns \in Nat \ {0, 1, 2} /\ BorderRows \in Nat \ {0, 1, 2}
  BY ComparisonConstants
<1>2. /\ IsSpan(Columns) /\ Matching!Range(Columns) \subseteq 0 .. Analysis.width - 1
      /\ \A i \in 0 .. Analysis.width - 1 : i \in Matching!Range(Columns)
           <=> ~Matching!InBorder(i, Analysis.width, BorderColumns)
  BY <1>1, SpanFacts DEF Columns
<1>3. /\ IsSpan(Rows) /\ Matching!Range(Rows) \subseteq 0 .. Analysis.height - 1
      /\ \A i \in 0 .. Analysis.height - 1 : i \in Matching!Range(Rows)
           <=> ~Matching!InBorder(i, Analysis.height, BorderRows)
  BY <1>1, SpanFacts DEF Rows
<1>4. ASSUME NEW row \in Matching!Range(Rows), NEW column \in Matching!Range(Columns)
      PROVE  <<column, row>> \in Compare
  BY <1>2, <1>3, <1>4 DEF Compare, Matching!Points
<1>5. ASSUME NEW p \in Compare
      PROVE  /\ p = <<p[1], p[2]>>
             /\ p[1] \in Matching!Range(Columns) /\ p[2] \in Matching!Range(Rows)
  BY <1>2, <1>3, <1>5 DEF Compare, Matching!Points
<1> QED
  BY <1>2, <1>3, <1>4, <1>5

\* The sum over the rows of the sums over their columns.
RowSum(value, row) ==
  Matching!Summed(Columns, [column \in Matching!Range(Columns) |-> value[<<column, row>>]])

LEMMA TotalIs ==
  ASSUME NEW value
  PROVE  Matching!Total(value) =
           Matching!Summed(Rows, [row \in Matching!Range(Rows) |-> RowSum(value, row)])
  BY DEF Matching!Total, RowSum, Columns, Rows

LEMMA TotalsScale ==
  ASSUME NEW factor \in Nat, NEW value, NEW other,
         \A p \in Compare : other[p] \in Nat /\ value[p] = factor * other[p]
  PROVE  /\ Matching!Total(other) \in Nat
         /\ Matching!Total(value) = factor * Matching!Total(other)
<1>1. ASSUME NEW row \in Matching!Range(Rows)
      PROVE  RowSum(other, row) \in Nat /\ RowSum(value, row) = factor * RowSum(other, row)
  <2> DEFINE v == [column \in Matching!Range(Columns) |-> value[<<column, row>>]]
  <2> DEFINE o == [column \in Matching!Range(Columns) |-> other[<<column, row>>]]
  <2>1. Multiples(v, o, factor, Columns)
    BY ComparedPoints DEF Multiples
  <2>2. IsSpan(Columns)
    BY ComparedPoints
  <2> HIDE DEF v, o
  <2>3. /\ Matching!Summed(Columns, o) \in Nat
        /\ Matching!Summed(Columns, v) = factor * Matching!Summed(Columns, o)
    BY <2>1, <2>2, SumsScale
  <2> QED
    BY <2>3 DEF RowSum, v, o
<1> DEFINE v == [row \in Matching!Range(Rows) |-> RowSum(value, row)]
<1> DEFINE o == [row \in Matching!Range(Rows) |-> RowSum(other, row)]
<1>2. Multiples(v, o, factor, Rows)
  BY <1>1 DEF Multiples
<1>3. Matching!Total(value) = Matching!Summed(Rows, v)
      /\ Matching!Total(other) = Matching!Summed(Rows, o)
  BY TotalIs
<1> HIDE DEF v, o
<1> QED
  BY <1>2, <1>3, ComparedPoints, SumsScale

LEMMA TotalsVanish ==
  ASSUME NEW value, \A p \in Compare : value[p] \in Nat
  PROVE  /\ Matching!Total(value) \in Nat
         /\ Matching!Total(value) = 0 <=> \A p \in Compare : value[p] = 0
<1>1. ASSUME NEW row \in Matching!Range(Rows)
      PROVE  /\ RowSum(value, row) \in Nat
             /\ RowSum(value, row) = 0
                  <=> \A column \in Matching!Range(Columns) : value[<<column, row>>] = 0
  <2> DEFINE v == [column \in Matching!Range(Columns) |-> value[<<column, row>>]]
  <2>1. \A column \in Matching!Range(Columns) : v[column] \in Nat /\ v[column] = value[<<column, row>>]
    BY ComparedPoints
  <2>2. RowSum(value, row) = Matching!Summed(Columns, v)
    BY DEF RowSum
  <2> HIDE DEF v
  <2>3. /\ Matching!Summed(Columns, v) \in Nat
        /\ Matching!Summed(Columns, v) = 0
             <=> \A column \in Matching!Range(Columns) : v[column] = 0
    BY <2>1, ComparedPoints, SumsVanish
  <2> QED
    BY <2>1, <2>2, <2>3
<1> DEFINE v == [row \in Matching!Range(Rows) |-> RowSum(value, row)]
<1>2. \A row \in Matching!Range(Rows) : v[row] \in Nat /\ v[row] = RowSum(value, row)
  BY <1>1
<1>3. Matching!Total(value) = Matching!Summed(Rows, v)
  BY TotalIs
<1> HIDE DEF v
<1>4. /\ Matching!Summed(Rows, v) \in Nat
      /\ Matching!Summed(Rows, v) = 0 <=> \A row \in Matching!Range(Rows) : v[row] = 0
  BY <1>2, ComparedPoints, SumsVanish
<1>5. Matching!Total(value) = 0 <=>
        \A row \in Matching!Range(Rows), column \in Matching!Range(Columns) : value[<<column, row>>] = 0
  BY <1>1, <1>2, <1>3, <1>4
<1>6. (\A row \in Matching!Range(Rows), column \in Matching!Range(Columns) : value[<<column, row>>] = 0)
        <=> \A p \in Compare : value[p] = 0
  BY ComparedPoints
<1> QED
  BY <1>3, <1>4, <1>5, <1>6

\* Division of any whole number.
LEMMA DivModInt ==
  ASSUME NEW a \in Int, NEW b \in Nat \ {0}
  PROVE  a \div b \in Int /\ a % b \in 0 .. b - 1 /\ a = (a \div b) * b + (a % b)
BY SMT

\* The pixels a pixel of the target lies between are pixels of the source.
LEMMA PlacesAreInside ==
  ASSUME NEW from \in Nat \ {0}, NEW to \in Nat \ {0}, NEW i \in 0 .. to - 1
  PROVE  /\ Matching!First(i, from, to) \in 0 .. from - 1
         /\ Matching!Second(i, from, to) \in 0 .. from - 1
         /\ Matching!Fraction(i, from, to) \in 0 .. 2 * to
<1> DEFINE place == Matching!Place(i, from, to)
<1> DEFINE pixel == place \div (2 * to)
<1> DEFINE rest == place % (2 * to)
<1>1. place \in Int /\ place + to = (2 * i + 1) * from
  <2>1. (2 * i + 1) * from \in Int
    OBVIOUS
  <2> QED
    BY <2>1 DEF Matching!Place
<1>2. (2 * i + 1) * from <= (2 * to) * from
  BY Monotone
<1>3. pixel \in Int /\ rest \in 0 .. 2 * to - 1 /\ place = pixel * (2 * to) + rest
  <2>1. 2 * to \in Nat \ {0}
    OBVIOUS
  <2> HIDE DEF place
  <2> QED
    BY <1>1, <2>1, DivModInt
<1>4. pixel < from
  <2> HIDE DEF place, pixel, rest
  <2>1. place < (2 * to) * from
    BY <1>1, <1>2
  <2>2. pixel * (2 * to) < (2 * to) * from
    BY <1>3, <2>1
  <2>3. ASSUME from <= pixel PROVE FALSE
    <3>1. pixel \in Nat /\ from * (2 * to) <= pixel * (2 * to)
      BY <1>3, <2>3, Monotone
    <3>2. from * (2 * to) = (2 * to) * from
      OBVIOUS
    <3> QED
      BY <1>3, <2>2, <3>1, <3>2
  <2> QED
    BY <1>3, <2>3
<1>5. Matching!First(i, from, to) = (IF pixel < 0 THEN 0 ELSE pixel)
      /\ Matching!Fraction(i, from, to) = rest
  BY DEF Matching!First, Matching!Fraction
<1> HIDE DEF pixel, rest
<1>6. Matching!First(i, from, to) \in 0 .. from - 1
  BY <1>3, <1>4, <1>5
<1> QED
  BY <1>3, <1>5, <1>6 DEF Matching!Second

\* The gray value of a colour.
LEMMA LumaIsLevel == ASSUME NEW c \in Matching!Colour PROVE Matching!Luma(c) \in Matching!Levels
<1>1. PICK blue \in 0 .. 255, green \in 0 .. 255, red \in 0 .. 255 : c = <<blue, green, red>>
  <2>1. c[1] \in 0 .. 255 /\ c[2] \in 0 .. 255 /\ c[3] \in 0 .. 255
    BY DEF Matching!Colour, Matching!Levels
  <2>2. c = <<c[1], c[2], c[3]>>
    BY DEF Matching!Colour
  <2> QED
    BY <2>1, <2>2
<1> DEFINE sum == 722 * blue + 7152 * green + 2126 * red + 5000
<1>2. sum \in Nat /\ sum < 256 * 10000
  OBVIOUS
<1>3. Matching!Luma(c) = sum \div 10000
  BY <1>1 DEF Matching!Luma
<1> HIDE DEF sum
<1>4. sum \div 10000 \in 0 .. 255
  BY <1>2
<1> QED
  BY <1>3, <1>4 DEF Matching!Levels

\* A mixture of two levels is a level of the whole.
LEMMA MixtureIs ==
  ASSUME NEW most \in Nat, NEW left \in 0 .. most, NEW right \in 0 .. most,
         NEW whole \in Nat, NEW fraction \in 0 .. whole
  PROVE  Matching!Mixed(left, right, fraction, whole) \in 0 .. most * whole
<1> DEFINE others == whole - fraction
<1>1. others \in Nat /\ fraction \in Nat /\ left \in Nat /\ right \in Nat
      /\ left <= most /\ right <= most /\ others + fraction = whole
  OBVIOUS
<1> HIDE DEF others
<1>2. /\ left * others \in Nat /\ right * fraction \in Nat
      /\ left * others <= most * others /\ right * fraction <= most * fraction
  BY <1>1, Monotone
<1>3. most * others + most * fraction = most * whole /\ most * whole \in Nat
      /\ most * others \in Nat /\ most * fraction \in Nat
  BY <1>1
<1>4. Matching!Mixed(left, right, fraction, whole) = left * others + right * fraction
  BY DEF Matching!Mixed, others
<1> QED
  BY <1>2, <1>3, <1>4

\* The level of a point that lies between four levels.
Between4(a, b, c, d, fx, w, fy, h) ==
  (2 * Matching!Mixed(Matching!Mixed(a, b, fx, w), Matching!Mixed(c, d, fx, w), fy, h)
     + w * h) \div (2 * w * h)

LEMMA BetweenIsLevel ==
  ASSUME NEW a \in Matching!Levels, NEW b \in Matching!Levels, NEW c \in Matching!Levels, NEW d \in Matching!Levels,
         NEW w \in Nat \ {0}, NEW h \in Nat \ {0}, NEW fx \in 0 .. w, NEW fy \in 0 .. h
  PROVE  Between4(a, b, c, d, fx, w, fy, h) \in Matching!Levels
<1> DEFINE upper == Matching!Mixed(a, b, fx, w)
<1> DEFINE lower == Matching!Mixed(c, d, fx, w)
<1> DEFINE mixture == Matching!Mixed(upper, lower, fy, h)
<1>1. upper \in 0 .. 255 * w /\ lower \in 0 .. 255 * w
  BY MixtureIs DEF Matching!Levels
<1>2. mixture \in 0 .. (255 * w) * h
  <2>1. 255 * w \in Nat
    OBVIOUS
  <2> HIDE DEF upper, lower
  <2> QED
    BY <1>1, <2>1, MixtureIs
<1> HIDE DEF mixture
<1> DEFINE area == w * h
<1>3. area \in Nat \ {0} /\ (255 * w) * h = 255 * area /\ 2 * w * h = 2 * area
  OBVIOUS
<1>4. Between4(a, b, c, d, fx, w, fy, h) = (2 * mixture + area) \div (2 * area)
  BY <1>3 DEF Between4, mixture
<1> HIDE DEF area
<1>5. (2 * mixture + area) \div (2 * area) \in Nat
      /\ (2 * mixture + area) \div (2 * area) < 256
  <2>1. mixture \in Nat /\ 2 * mixture + area < 256 * (2 * area)
    BY <1>2, <1>3
  <2>2. 2 * mixture + area \in Nat /\ 2 * area \in Nat \ {0}
    BY <1>3, <2>1
  <2> QED
    BY <2>1, <2>2, DivBelow
<1> QED
  BY <1>4, <1>5 DEF Matching!Levels

\* A picture in the colours of a file or of the screen.
GrayPicture == [size : {Analysis}, at : [Matching!Points(Analysis) -> Matching!Levels]]

\* The gray levels of a picture.
Gray(shot) == [p \in Matching!Points(shot.size) |-> Matching!Luma(shot.at[p])]

\* The level that a picture of gray levels has at a point of the comparison.
Sampled(level, size, point) ==
  LET x0 == Matching!First(point[1], size.width, Analysis.width)
      x1 == Matching!Second(point[1], size.width, Analysis.width)
      y0 == Matching!First(point[2], size.height, Analysis.height)
      y1 == Matching!Second(point[2], size.height, Analysis.height)
  IN  Between4(level[<<x0, y0>>], level[<<x1, y0>>], level[<<x0, y1>>], level[<<x1, y1>>],
               Matching!Fraction(point[1], size.width, Analysis.width), 2 * Analysis.width,
               Matching!Fraction(point[2], size.height, Analysis.height), 2 * Analysis.height)

\* The corners of a point are points of the picture.
LEMMA CornersAreInside ==
  ASSUME NEW size \in Matching!Size, NEW point \in Matching!Points(Analysis)
  PROVE  LET x0 == Matching!First(point[1], size.width, Analysis.width)
             x1 == Matching!Second(point[1], size.width, Analysis.width)
             y0 == Matching!First(point[2], size.height, Analysis.height)
             y1 == Matching!Second(point[2], size.height, Analysis.height)
             fx == Matching!Fraction(point[1], size.width, Analysis.width)
             fy == Matching!Fraction(point[2], size.height, Analysis.height)
         IN  /\ <<x0, y0>> \in Matching!Points(size) /\ <<x1, y0>> \in Matching!Points(size)
             /\ <<x0, y1>> \in Matching!Points(size) /\ <<x1, y1>> \in Matching!Points(size)
             /\ fx \in 0 .. 2 * Analysis.width /\ fy \in 0 .. 2 * Analysis.height
<1>1. /\ size.width \in Nat \ {0} /\ size.height \in Nat \ {0}
      /\ Analysis.width \in Nat \ {0} /\ Analysis.height \in Nat \ {0}
  BY ComparisonConstants DEF Matching!Size
<1>2. point[1] \in 0 .. Analysis.width - 1 /\ point[2] \in 0 .. Analysis.height - 1
  BY DEF Matching!Points
<1>3. /\ Matching!First(point[1], size.width, Analysis.width) \in 0 .. size.width - 1
      /\ Matching!Second(point[1], size.width, Analysis.width) \in 0 .. size.width - 1
      /\ Matching!Fraction(point[1], size.width, Analysis.width) \in 0 .. 2 * Analysis.width
  BY <1>1, <1>2, PlacesAreInside
<1>4. /\ Matching!First(point[2], size.height, Analysis.height) \in 0 .. size.height - 1
      /\ Matching!Second(point[2], size.height, Analysis.height) \in 0 .. size.height - 1
      /\ Matching!Fraction(point[2], size.height, Analysis.height) \in 0 .. 2 * Analysis.height
  BY <1>1, <1>2, PlacesAreInside
<1> QED
  BY <1>3, <1>4 DEF Matching!Points

LEMMA SampledIsLevel ==
  ASSUME NEW size \in Matching!Size, NEW level \in [Matching!Points(size) -> Matching!Levels],
         NEW point \in Matching!Points(Analysis)
  PROVE  Sampled(level, size, point) \in Matching!Levels
<1>1. 2 * Analysis.width \in Nat \ {0} /\ 2 * Analysis.height \in Nat \ {0}
  BY ComparisonConstants
<1> QED
  BY <1>1, CornersAreInside, BetweenIsLevel DEF Sampled

LEMMA ThumbnailIs ==
  ASSUME NEW size \in Matching!Size, NEW shot \in Matching!PictureOf(size)
  PROVE  Matching!Thumbnail(shot) =
           [size |-> Analysis,
            at |-> [point \in Matching!Points(Analysis) |-> Sampled(Gray(shot), size, point)]]
<1>1. shot.size = size
  BY DEF Matching!PictureOf
<1>2. Matching!Thumbnail(shot).at = [point \in Matching!Points(Analysis) |-> Sampled(Gray(shot), size, point)]
  <2>1. ASSUME NEW p \in Matching!Points(size) PROVE Gray(shot)[p] = Matching!Luma(shot.at[p])
    BY <1>1 DEF Gray
  <2> QED
    BY <1>1, <2>1, CornersAreInside
    DEF Matching!Thumbnail, Matching!ResizeBgraToGray, Matching!Bilinear, Sampled, Between4
<1>3. Matching!Thumbnail(shot) = [size |-> Analysis, at |-> Matching!Thumbnail(shot).at]
  BY DEF Matching!Thumbnail, Matching!ResizeBgraToGray, Matching!Bilinear
<1> QED
  BY <1>2, <1>3

LEMMA SwappedTwice ==
  ASSUME NEW size \in Matching!Size, NEW shot \in Matching!PictureOf(size)
  PROVE  Matching!Swapped(shot) \in Matching!PictureOf(size)
         /\ Matching!Swapped(Matching!Swapped(shot)) = shot
<1> DEFINE Other(c) == <<c[3], c[2], c[1]>>
<1>1. ASSUME NEW c \in Matching!Colour PROVE Other(c) \in Matching!Colour /\ Other(Other(c)) = c
  <2>1. c = <<c[1], c[2], c[3]>> /\ c[1] \in Matching!Levels /\ c[2] \in Matching!Levels /\ c[3] \in Matching!Levels
    BY DEF Matching!Colour
  <2> QED
    BY <2>1 DEF Matching!Colour
<1>2. shot = [size |-> size, at |-> shot.at] /\ shot.at \in [Matching!Points(size) -> Matching!Colour]
  BY DEF Matching!PictureOf
<1>3. ASSUME NEW at \in [Matching!Points(size) -> Matching!Colour]
      PROVE  Matching!Swapped([size |-> size, at |-> at]) =
               [size |-> size, at |-> [p \in Matching!Points(size) |-> Other(at[p])]]
  BY DEF Matching!Swapped
<1> DEFINE at == [p \in Matching!Points(size) |-> Other(shot.at[p])]
<1> HIDE DEF Other
<1>4. at \in [Matching!Points(size) -> Matching!Colour]
  BY <1>1, <1>2
<1>5. [p \in Matching!Points(size) |-> Other(at[p])] = shot.at
  BY <1>1, <1>2
<1>6. Matching!Swapped(shot) = [size |-> size, at |-> at]
  BY <1>2, <1>3
<1> HIDE DEF at
<1>7. Matching!Swapped([size |-> size, at |-> at]) = shot
  BY <1>2, <1>3, <1>4, <1>5
<1> QED
  BY <1>4, <1>6, <1>7 DEF Matching!PictureOf

LEMMA FromRgbaIs ==
  ASSUME NEW size \in Matching!Size, NEW rgba \in Matching!PictureOf(size)
  PROVE  Matching!FromRgba(rgba) = Matching!Thumbnail(Matching!Swapped(rgba))
<1> DEFINE shot == Matching!Swapped(rgba)
<1>1. shot \in Matching!PictureOf(size)
  BY SwappedTwice
<1>2. Matching!FromRgba(rgba) = Matching!ResizeBilinear(Matching!BgraToGray(shot), Analysis)
  BY DEF Matching!FromRgba
<1> HIDE DEF shot
<1>3. Matching!BgraToGray(shot) = [size |-> size, at |-> Gray(shot)]
  BY <1>1 DEF Matching!BgraToGray, Gray, Matching!PictureOf
<1>4. Matching!ResizeBilinear([size |-> size, at |-> Gray(shot)], Analysis) =
        [size |-> Analysis,
         at |-> [point \in Matching!Points(Analysis) |-> Sampled(Gray(shot), size, point)]]
  BY DEF Matching!ResizeBilinear, Matching!Bilinear, Sampled, Between4
<1> QED
  BY <1>1, <1>2, <1>3, <1>4, ThumbnailIs DEF shot

LEMMA ThumbnailIsGray ==
  ASSUME NEW size \in Matching!Size, NEW shot \in Matching!PictureOf(size)
  PROVE  Matching!Thumbnail(shot) \in GrayPicture
<1>1. Gray(shot) \in [Matching!Points(size) -> Matching!Levels]
  BY LumaIsLevel DEF Gray, Matching!PictureOf
<1>2. \A point \in Matching!Points(Analysis) : Sampled(Gray(shot), size, point) \in Matching!Levels
  BY <1>1, SampledIsLevel
<1> QED
  BY <1>2, ThumbnailIs DEF GrayPicture

\* What a comparison comes to, and when it is perfect.
LEMMA ComparedIs ==
  ASSUME NEW one \in GrayPicture, NEW other \in GrayPicture
  PROVE  /\ Matching!Compared(one, other) \in Matching!Sums
         /\ Matching!IsPerfect(Matching!Compared(one, other))
              <=> \A p \in Compare : one.at[p] = other.at[p]
<1> DEFINE l == one.at
<1> DEFINE r == other.at
<1> DEFINE error == [p \in Matching!Points(Analysis) |-> Matching!Difference(l[p], r[p])]
<1> DEFINE squares == [p \in Matching!Points(Analysis) |-> l[p] * l[p] + r[p] * r[p]]
<1> DEFINE products == [p \in Matching!Points(Analysis) |-> l[p] * r[p]]
<1>1. Matching!Compared(one, other) =
        [error |-> Matching!Total(error), left |-> Matching!Total(l), right |-> Matching!Total(r),
         squares |-> Matching!Total(squares), products |-> Matching!Total(products)]
  BY DEF Matching!Compared
<1>2. Compare \subseteq Matching!Points(Analysis)
  BY DEF Compare
<1>3. ASSUME NEW p \in Compare
      PROVE  /\ l[p] \in Nat /\ r[p] \in Nat
             /\ error[p] = Matching!Difference(l[p], r[p])
             /\ squares[p] = l[p] * l[p] + r[p] * r[p]
             /\ products[p] = l[p] * r[p]
  BY <1>2, <1>3 DEF GrayPicture, Matching!Levels
<1> HIDE DEF l, r, error, squares, products
<1>4. ASSUME NEW p \in Compare
      PROVE  /\ error[p] \in Nat /\ squares[p] \in Nat /\ products[p] \in Nat
             /\ error[p] = 0 <=> l[p] = r[p]
             /\ l[p] = r[p] => squares[p] = 2 * products[p] /\ l[p] = 1 * r[p]
  <2>1. PICK a \in Nat, b \in Nat : l[p] = a /\ r[p] = b
    BY <1>3, <1>4
  <2>2. error[p] = Matching!Difference(a, b) /\ squares[p] = a * a + b * b /\ products[p] = a * b
    BY <1>3, <1>4, <2>1
  <2>3. Matching!Difference(a, b) \in Nat /\ (Matching!Difference(a, b) = 0 <=> a = b)
    BY DEF Matching!Difference
  <2>4. a * a + b * b \in Nat /\ a * b \in Nat
    OBVIOUS
  <2>5. a = b => a * a + b * b = 2 * (a * b) /\ a = 1 * b
    OBVIOUS
  <2> QED
    BY <2>1, <2>2, <2>3, <2>4, <2>5
<1>5. /\ Matching!Total(error) \in Nat /\ Matching!Total(l) \in Nat /\ Matching!Total(r) \in Nat
      /\ Matching!Total(squares) \in Nat /\ Matching!Total(products) \in Nat
      /\ Matching!Total(error) = 0 <=> \A p \in Compare : error[p] = 0
  BY <1>3, <1>4, TotalsVanish
<1>6. ASSUME \A p \in Compare : l[p] = r[p]
      PROVE  /\ Matching!Total(l) = Matching!Total(r)
             /\ Matching!Total(squares) = 2 * Matching!Total(products)
  <2>1. Matching!Total(l) = 1 * Matching!Total(r)
    <3>1. \A p \in Compare : r[p] \in Nat /\ l[p] = 1 * r[p]
      BY <1>3, <1>4, <1>6
    <3> QED
      BY <3>1, TotalsScale, 1 \in Nat
  <2>2. Matching!Total(squares) = 2 * Matching!Total(products)
    <3>1. \A p \in Compare : products[p] \in Nat /\ squares[p] = 2 * products[p]
      BY <1>3, <1>4, <1>6
    <3> QED
      BY <3>1, TotalsScale, 2 \in Nat
  <2> QED
    BY <1>5, <2>1, <2>2
<1>7. Matching!Compared(one, other) \in Matching!Sums
  BY <1>1, <1>5 DEF Matching!Sums
<1>8. Matching!IsPerfect(Matching!Compared(one, other)) <=> \A p \in Compare : l[p] = r[p]
  <2>1. Matching!IsPerfect(Matching!Compared(one, other)) <=>
          /\ Matching!Total(error) = 0 /\ Matching!Total(l) = Matching!Total(r)
          /\ Matching!Total(squares) = 2 * Matching!Total(products)
    BY <1>1 DEF Matching!IsPerfect
  <2> QED
    BY <1>4, <1>5, <1>6, <2>1
<1> QED
  BY <1>7, <1>8 DEF l, r

\* Where the mirror image of a pixel lies: between the mirror images of the two
\* pixels, as far from the one as the pixel from the other.
LEMMA PlacesMirror ==
  ASSUME NEW from \in Nat \ {0}, NEW to \in Nat \ {0}, to <= from, NEW i \in 0 .. to - 1
  PROVE  LET j == to - 1 - i IN
         \/ /\ Matching!First(j, from, to) = from - 1 - Matching!First(i, from, to)
            /\ Matching!Fraction(i, from, to) = 0 /\ Matching!Fraction(j, from, to) = 0
         \/ /\ Matching!First(j, from, to) = from - 1 - Matching!Second(i, from, to)
            /\ Matching!Second(j, from, to) = from - 1 - Matching!First(i, from, to)
            /\ Matching!Fraction(j, from, to) = 2 * to - Matching!Fraction(i, from, to)
<1> DEFINE j == to - 1 - i
<1> DEFINE place == Matching!Place(i, from, to)
<1> DEFINE other == Matching!Place(j, from, to)
<1> DEFINE whole == 2 * to
<1> DEFINE q == place \div whole
<1> DEFINE rest == place % whole
<1>1. whole \in Nat \ {0} /\ j \in 0 .. to - 1
  OBVIOUS
<1>2. place \in Nat
  <2>1. (2 * i + 1) * from \in Nat /\ 1 * from <= (2 * i + 1) * from
    BY Monotone
  <2> QED
    BY <2>1 DEF Matching!Place
<1>3. other \in Nat
  <2>1. (2 * j + 1) * from \in Nat /\ 1 * from <= (2 * j + 1) * from
    BY <1>1, Monotone
  <2> QED
    BY <1>1, <2>1 DEF Matching!Place
<1>4. place + other = whole * (from - 1)
  <2>1. (2 * j + 1) * from = whole * from - (2 * i + 1) * from
    OBVIOUS
  <2>2. whole * (from - 1) = whole * from - 2 * to
    OBVIOUS
  <2>3. (2 * i + 1) * from \in Int /\ (2 * j + 1) * from \in Int /\ whole * from \in Int
    OBVIOUS
  <2> QED
    BY <2>1, <2>2, <2>3 DEF Matching!Place
<1>5. q \in Nat /\ rest \in 0 .. whole - 1 /\ place = q * whole + rest
  <2> HIDE DEF place, whole
  <2> QED
    BY <1>1, <1>2, DivMod
<1>6. /\ Matching!First(i, from, to) = q /\ Matching!Fraction(i, from, to) = rest
      /\ Matching!First(j, from, to) = (IF other \div whole < 0 THEN 0 ELSE other \div whole)
      /\ Matching!Fraction(j, from, to) = other % whole
  <2>1. ~(q < 0)
    BY <1>5
  <2> QED
    BY <2>1 DEF Matching!First, Matching!Fraction
<1> HIDE DEF place, other, whole, q, rest, j
<1>7. \A a \in Nat, b \in 0 .. whole - 1 :
         other = a * whole + b => other \div whole = a /\ other % whole = b
  <2> SUFFICES ASSUME NEW a \in Nat, NEW b \in 0 .. whole - 1, other = a * whole + b
               PROVE  other \div whole = a /\ other % whole = b
    OBVIOUS
  <2> DEFINE c == other \div whole
  <2> DEFINE d == other % whole
  <2>1. c \in Nat /\ d \in 0 .. whole - 1 /\ other = c * whole + d
    BY <1>1, <1>3, DivMod
  <2> HIDE DEF c, d
  <2>2. c < a + 1
    <3>1. c * whole < (a + 1) * whole
      BY <1>1, <2>1
    <3> QED
      BY <1>1, <2>1, <3>1, LessFactor, a + 1 \in Nat
  <2>3. a < c + 1
    <3>1. a * whole < (c + 1) * whole
      BY <1>1, <2>1
    <3> QED
      BY <1>1, <2>1, <3>1, LessFactor, c + 1 \in Nat
  <2>4. c = a
    BY <2>1, <2>2, <2>3
  <2>5. d = b
    BY <1>1, <2>1, <2>4
  <2> QED
    BY <2>4, <2>5 DEF c, d
<1>8. q * whole + rest + other = whole * (from - 1)
  BY <1>4, <1>5
<1>9. CASE rest = 0
  <2>1. q <= from - 1
    <3>1. q * whole < from * whole
      BY <1>1, <1>3, <1>5, <1>8, <1>9
    <3> QED
      BY <1>1, <1>5, <3>1, LessFactor
  <2>2. other = (from - 1 - q) * whole + 0 /\ from - 1 - q \in Nat
    BY <1>1, <1>3, <1>5, <1>8, <1>9, <2>1
  <2>3. other \div whole = from - 1 - q /\ other % whole = 0
    BY <1>1, <1>7, <2>2
  <2> QED
    BY <1>6, <1>9, <2>2, <2>3 DEF j
<1>10. CASE rest # 0
  <2>1. q < from - 1
    <3>1. q * whole < (from - 1) * whole
      BY <1>1, <1>3, <1>5, <1>8, <1>10
    <3> QED
      BY <1>1, <1>5, <3>1, LessFactor, from - 1 \in Nat
  <2>2. /\ other = (from - 2 - q) * whole + (whole - rest)
        /\ from - 2 - q \in Nat /\ whole - rest \in 0 .. whole - 1
    BY <1>1, <1>3, <1>5, <1>8, <1>10, <2>1
  <2>3. other \div whole = from - 2 - q /\ other % whole = whole - rest
    BY <1>7, <2>2
  <2>4. Matching!First(j, from, to) = from - 2 - q /\ Matching!First(i, from, to) = q
    BY <1>6, <2>2, <2>3
  <2>5. Matching!Second(j, from, to) = from - 1 - q /\ Matching!Second(i, from, to) = q + 1
    BY <1>5, <2>1, <2>2, <2>4 DEF Matching!Second
  <2>6. /\ Matching!First(j, from, to) = from - 1 - Matching!Second(i, from, to)
        /\ Matching!Second(j, from, to) = from - 1 - Matching!First(i, from, to)
    BY <1>5, <2>4, <2>5
  <2>7. Matching!Fraction(j, from, to) = 2 * to - Matching!Fraction(i, from, to)
    BY <1>6, <2>3 DEF whole
  <2> QED
    BY <2>6, <2>7 DEF j
<1> QED
  BY <1>5, <1>9, <1>10

\* What lies at a place in a row of values.
Along(value, i, from, to) ==
  Matching!Mixed(value[Matching!First(i, from, to)], value[Matching!Second(i, from, to)],
                 Matching!Fraction(i, from, to), 2 * to)

IsRow(value, extent) == value \in [0 .. extent - 1 -> Nat]
Mirrors(other, value, extent) == \A k \in 0 .. extent - 1 : other[k] = value[extent - 1 - k]

LEMMA MixedMirrors ==
  ASSUME NEW a \in Nat, NEW b \in Nat, NEW w \in Nat, NEW n \in 0 .. w
  PROVE  /\ Matching!Mixed(a, b, 0, w) = a * w
         /\ Matching!Mixed(a, b, n, w) = Matching!Mixed(b, a, w - n, w)
BY DEF Matching!Mixed

LEMMA AlongMirrors ==
  ASSUME NEW from \in Nat \ {0}, NEW to \in Nat \ {0}, to <= from, NEW i \in 0 .. to - 1,
         NEW j \in 0 .. to - 1, i + j = to - 1,
         NEW value, IsRow(value, from), NEW mirrored, Mirrors(mirrored, value, from)
  PROVE  Along(mirrored, i, from, to) = Along(value, j, from, to)
<1> DEFINE fi == Matching!First(i, from, to)
<1> DEFINE si == Matching!Second(i, from, to)
<1> DEFINE fj == Matching!First(j, from, to)
<1> DEFINE sj == Matching!Second(j, from, to)
<1> DEFINE di == Matching!Fraction(i, from, to)
<1> DEFINE dj == Matching!Fraction(j, from, to)
<1> DEFINE w == 2 * to
<1>1. fi \in 0 .. from - 1 /\ si \in 0 .. from - 1 /\ di \in 0 .. w /\ w \in Nat
  BY PlacesAreInside
<1>2. j = to - 1 - i
  OBVIOUS
<1>3. /\ value \in [0 .. from - 1 -> Nat]
      /\ \A k \in 0 .. from - 1 : mirrored[k] = value[from - 1 - k]
  BY DEF IsRow, Mirrors
<1>4. fj \in 0 .. from - 1 /\ sj \in 0 .. from - 1 /\ dj \in 0 .. w
  BY PlacesAreInside
<1>5. \/ fj = from - 1 - fi /\ di = 0 /\ dj = 0
      \/ fj = from - 1 - si /\ sj = from - 1 - fi /\ dj = w - di
  BY <1>2, PlacesMirror
<1>6. Along(mirrored, i, from, to) = Matching!Mixed(mirrored[fi], mirrored[si], di, w)
      /\ Along(value, j, from, to) = Matching!Mixed(value[fj], value[sj], dj, w)
  BY DEF Along
<1> HIDE DEF fi, si, fj, sj, di, dj, w
<1>7. CASE fj = from - 1 - fi /\ di = 0 /\ dj = 0
  <2>1. mirrored[fi] = value[fj] /\ value[fj] \in Nat /\ value[sj] \in Nat
    BY <1>1, <1>3, <1>4, <1>7
  <2>2. mirrored[si] \in Nat
    <3>1. mirrored[si] = value[from - 1 - si] /\ from - 1 - si \in 0 .. from - 1
      BY <1>1, <1>3
    <3> QED
      BY <1>3, <3>1
  <2>3. Matching!Mixed(value[fj], mirrored[si], 0, w) = Matching!Mixed(value[fj], value[sj], 0, w)
    <3>1. PICK a \in Nat, b \in Nat, c \in Nat :
             a = value[fj] /\ b = mirrored[si] /\ c = value[sj]
      BY <2>1, <2>2
    <3>2. Matching!Mixed(a, b, 0, w) = a * w /\ Matching!Mixed(a, c, 0, w) = a * w
      <4>1. 0 \in 0 .. w
        BY <1>1, <1>3
      <4> QED
        BY <1>1, <1>3, <4>1, MixedMirrors
    <3> QED
      BY <3>1, <3>2
  <2> QED
    BY <1>6, <1>7, <2>1, <2>3
<1>8. CASE fj = from - 1 - si /\ sj = from - 1 - fi /\ dj = w - di
  <2>1. mirrored[fi] = value[sj] /\ mirrored[si] = value[fj]
    BY <1>1, <1>3, <1>8
  <2>2. value[fj] \in Nat /\ value[sj] \in Nat
    BY <1>4, <1>3
  <2>3. Matching!Mixed(value[sj], value[fj], di, w) = Matching!Mixed(value[fj], value[sj], w - di, w)
    BY <1>1, <2>2, MixedMirrors
  <2> QED
    BY <1>6, <1>8, <2>1, <2>3
<1> QED
  BY <1>5, <1>7, <1>8

\* What lies at a point of a picture of levels, by its two rows.
SampledAlong(level, size, point) ==
  LET row(n) == Along([k \in 0 .. size.width - 1 |-> level[<<k, n>>]], point[1],
                      size.width, Analysis.width)
      w == 2 * Analysis.width
      h == 2 * Analysis.height
  IN  (2 * Along([n \in 0 .. size.height - 1 |-> row(n)], point[2], size.height, Analysis.height)
         + w * h) \div (2 * w * h)

LEMMA SampledByRows ==
  ASSUME NEW size \in Matching!Size, NEW level \in [Matching!Points(size) -> Matching!Levels],
         NEW point \in Matching!Points(Analysis)
  PROVE  Sampled(level, size, point) = SampledAlong(level, size, point)
<1>1. /\ size.width \in Nat \ {0} /\ size.height \in Nat \ {0}
      /\ Analysis.width \in Nat \ {0} /\ Analysis.height \in Nat \ {0}
  BY ComparisonConstants DEF Matching!Size
<1>2. point[1] \in 0 .. Analysis.width - 1 /\ point[2] \in 0 .. Analysis.height - 1
  BY DEF Matching!Points
<1> DEFINE x0 == Matching!First(point[1], size.width, Analysis.width)
<1> DEFINE x1 == Matching!Second(point[1], size.width, Analysis.width)
<1> DEFINE y0 == Matching!First(point[2], size.height, Analysis.height)
<1> DEFINE y1 == Matching!Second(point[2], size.height, Analysis.height)
<1>3. x0 \in 0 .. size.width - 1 /\ x1 \in 0 .. size.width - 1
  BY <1>1, <1>2, PlacesAreInside
<1>4. y0 \in 0 .. size.height - 1 /\ y1 \in 0 .. size.height - 1
  BY <1>1, <1>2, PlacesAreInside
<1> DEFINE row(n) == Along([k \in 0 .. size.width - 1 |-> level[<<k, n>>]], point[1],
                           size.width, Analysis.width)
<1>5. \A n : row(n) = Matching!Mixed(level[<<x0, n>>], level[<<x1, n>>],
                 Matching!Fraction(point[1], size.width, Analysis.width), 2 * Analysis.width)
  BY <1>3 DEF Along
<1>6. Along([n \in 0 .. size.height - 1 |-> row(n)], point[2], size.height, Analysis.height)
        = Matching!Mixed(row(y0), row(y1),
            Matching!Fraction(point[2], size.height, Analysis.height), 2 * Analysis.height)
  <2> HIDE DEF row
  <2> QED
    BY <1>4 DEF Along
<1>7. SampledAlong(level, size, point) =
        (2 * Along([n \in 0 .. size.height - 1 |-> row(n)], point[2], size.height, Analysis.height)
          + (2 * Analysis.width) * (2 * Analysis.height))
            \div (2 * (2 * Analysis.width) * (2 * Analysis.height))
  BY DEF SampledAlong
<1> HIDE DEF row
<1>8. SampledAlong(level, size, point) =
        (2 * Matching!Mixed(row(y0), row(y1),
            Matching!Fraction(point[2], size.height, Analysis.height), 2 * Analysis.height)
          + (2 * Analysis.width) * (2 * Analysis.height))
            \div (2 * (2 * Analysis.width) * (2 * Analysis.height))
  BY <1>6, <1>7
<1>9. /\ row(y0) = Matching!Mixed(level[<<x0, y0>>], level[<<x1, y0>>],
                 Matching!Fraction(point[1], size.width, Analysis.width), 2 * Analysis.width)
      /\ row(y1) = Matching!Mixed(level[<<x0, y1>>], level[<<x1, y1>>],
                 Matching!Fraction(point[1], size.width, Analysis.width), 2 * Analysis.width)
  BY <1>5
<1> QED
  BY <1>8, <1>9 DEF Sampled, Between4

\* The mirror image is sampled as the mirror image of what is sampled.
LEMMA SampledMirrors ==
  ASSUME NEW size \in Matching!Size, NEW level \in [Matching!Points(size) -> Matching!Levels],
         Analysis.width <= size.width, Analysis.height <= size.height,
         NEW point \in Matching!Points(Analysis)
  PROVE  Sampled([p \in Matching!Points(size) |->
                    level[<<size.width - 1 - p[1], size.height - 1 - p[2]>>]], size, point)
           = Sampled(level, size, <<Analysis.width - 1 - point[1], Analysis.height - 1 - point[2]>>)
<1> DEFINE W == size.width
<1> DEFINE H == size.height
<1> DEFINE mirrored == [p \in Matching!Points(size) |-> level[<<W - 1 - p[1], H - 1 - p[2]>>]]
<1> DEFINE i == point[1]
<1> DEFINE j == point[2]
<1> DEFINE mi == Analysis.width - 1 - i
<1> DEFINE mj == Analysis.height - 1 - j
<1>1. /\ W \in Nat \ {0} /\ H \in Nat \ {0}
      /\ Analysis.width \in Nat \ {0} /\ Analysis.height \in Nat \ {0}
      /\ Analysis.width <= W /\ Analysis.height <= H
  BY ComparisonConstants DEF Matching!Size
<1>2. i \in 0 .. Analysis.width - 1 /\ j \in 0 .. Analysis.height - 1
  BY DEF Matching!Points
<1>3. /\ mi \in 0 .. Analysis.width - 1 /\ mj \in 0 .. Analysis.height - 1
      /\ <<mi, mj>> \in Matching!Points(Analysis)
  BY <1>1, <1>2 DEF Matching!Points
<1>4. \A k \in 0 .. W - 1, n \in 0 .. H - 1 :
        /\ <<k, n>> \in Matching!Points(size)
        /\ W - 1 - k \in 0 .. W - 1 /\ H - 1 - n \in 0 .. H - 1
  BY <1>1 DEF Matching!Points
<1>5. \A k \in 0 .. W - 1, n \in 0 .. H - 1 :
        /\ <<k, n>> \in Matching!Points(size)
        /\ W - 1 - k \in 0 .. W - 1 /\ H - 1 - n \in 0 .. H - 1
        /\ mirrored[<<k, n>>] = level[<<W - 1 - k, H - 1 - n>>]
        /\ level[<<k, n>>] \in 0 .. 255
  <2>1. \A k \in 0 .. W - 1, n \in 0 .. H - 1 : <<k, n>>[1] = k /\ <<k, n>>[2] = n
    OBVIOUS
  <2>2. \A p \in Matching!Points(size) : mirrored[p] = level[<<W - 1 - p[1], H - 1 - p[2]>>]
    OBVIOUS
  <2> HIDE DEF mirrored, W, H
  <2> QED
    BY <1>4, <2>1, <2>2 DEF Matching!Levels
<1>6. mirrored \in [Matching!Points(size) -> Matching!Levels]
  <2>1. \A p \in Matching!Points(size) :
           p[1] \in 0 .. W - 1 /\ p[2] \in 0 .. H - 1
    BY DEF Matching!Points
  <2> QED
    BY <1>5, <2>1 DEF Matching!Levels
<1> HIDE DEF mirrored, W, H, i, j
<1> DEFINE row(n) == Along([k \in 0 .. W - 1 |-> level[<<k, n>>]], mi, W, Analysis.width)
<1> DEFINE mirroredRow(n) == Along([k \in 0 .. W - 1 |-> mirrored[<<k, n>>]], i, W, Analysis.width)
<1>7. ASSUME NEW n \in 0 .. H - 1
      PROVE  mirroredRow(n) = row(H - 1 - n)
  <2> DEFINE value == [k \in 0 .. W - 1 |-> level[<<k, H - 1 - n>>]]
  <2> DEFINE other == [k \in 0 .. W - 1 |-> mirrored[<<k, n>>]]
  <2>1. IsRow(value, W)
    <3>1. H - 1 - n \in 0 .. H - 1
      BY <1>1
    <3>2. \A k \in 0 .. W - 1 : value[k] \in 0 .. 255
      BY <1>5, <3>1
    <3> QED
      BY <3>2 DEF IsRow
  <2>2. Mirrors(other, value, W)
    BY <1>1, <1>5 DEF Mirrors
  <2> HIDE DEF value, other
  <2>3. Along(other, i, W, Analysis.width) = Along(value, mi, W, Analysis.width)
    <3>1. i + mi = Analysis.width - 1
      BY <1>1, <1>2
    <3> HIDE DEF mi
    <3> QED
      BY <1>1, <1>2, <1>3, <2>1, <2>2, <3>1, AlongMirrors
  <2> QED
    BY <2>3 DEF value, other
<1>8. ASSUME NEW n \in 0 .. H - 1 PROVE row(n) \in Nat
  <2> DEFINE value == [k \in 0 .. W - 1 |-> level[<<k, n>>]]
  <2>1. \A k \in 0 .. W - 1 : value[k] \in 0 .. 255
    BY <1>5
  <2> HIDE DEF value, mi
  <2>2. /\ Matching!First(mi, W, Analysis.width) \in 0 .. W - 1
        /\ Matching!Second(mi, W, Analysis.width) \in 0 .. W - 1
        /\ Matching!Fraction(mi, W, Analysis.width) \in 0 .. 2 * Analysis.width
    BY <1>1, <1>3, PlacesAreInside
  <2>3. 2 * Analysis.width \in Nat
    BY <1>1
  <2>4. Along(value, mi, W, Analysis.width) \in 0 .. 255 * (2 * Analysis.width)
    BY <2>1, <2>2, <2>3, MixtureIs, 255 \in Nat DEF Along
  <2> QED
    BY <2>3, <2>4 DEF value
<1> DEFINE rows == [n \in 0 .. H - 1 |-> row(n)]
<1> DEFINE mirroredRows == [n \in 0 .. H - 1 |-> mirroredRow(n)]
<1>9. SampledAlong(mirrored, size, point) =
        (2 * Along(mirroredRows, j, H, Analysis.height)
           + (2 * Analysis.width) * (2 * Analysis.height))
             \div (2 * (2 * Analysis.width) * (2 * Analysis.height))
  BY DEF SampledAlong, W, H, i, j
<1>10. SampledAlong(level, size, <<mi, mj>>) =
        (2 * Along(rows, mj, H, Analysis.height)
           + (2 * Analysis.width) * (2 * Analysis.height))
             \div (2 * (2 * Analysis.width) * (2 * Analysis.height))
  BY DEF SampledAlong, W, H
<1> HIDE DEF row, mirroredRow
<1>11. IsRow(rows, H) /\ Mirrors(mirroredRows, rows, H)
  <2>1. rows \in [0 .. H - 1 -> Nat]
    BY <1>8
  <2>2. ASSUME NEW n \in 0 .. H - 1 PROVE mirroredRows[n] = rows[H - 1 - n]
    <3>1. H - 1 - n \in 0 .. H - 1
      BY <1>1
    <3> QED
      BY <1>7, <3>1
  <2> QED
    BY <2>1, <2>2 DEF IsRow, Mirrors
<1> HIDE DEF rows, mirroredRows
<1>12. Along(mirroredRows, j, H, Analysis.height) = Along(rows, mj, H, Analysis.height)
  <2>1. j + mj = Analysis.height - 1
    BY <1>1, <1>2
  <2>2. mj \in 0 .. Analysis.height - 1 /\ j \in 0 .. Analysis.height - 1
    BY <1>2, <1>3
  <2> HIDE DEF mi, mj
  <2> QED
    BY <1>1, <1>11, <2>1, <2>2, AlongMirrors
<1>13. Sampled(mirrored, size, point) = Sampled(level, size, <<mi, mj>>)
  BY <1>3, <1>6, <1>9, <1>10, <1>12, SampledByRows
<1> QED
  BY <1>13 DEF mirrored, mi, mj, W, H, i, j

LEMMA MirroredPicture ==
  ASSUME NEW size, NEW at, at = [p \in Matching!Points(size) |-> at[p]]
  PROVE  Matching!Mirrored([size |-> size, at |-> at]) =
           [size |-> size, at |-> [p \in Matching!Points(size) |->
              at[<<size.width - 1 - p[1], size.height - 1 - p[2]>>]]]
<1>1. DOMAIN at = Matching!Points(size)
  OBVIOUS
<1> DEFINE picture == [size |-> size, at |-> at]
<1> DEFINE other == [p \in Matching!Points(size) |->
                       at[<<size.width - 1 - p[1], size.height - 1 - p[2]>>]]
<1>2. picture.size = size /\ picture.at = at
  OBVIOUS
<1> HIDE DEF picture
<1>3. Matching!Mirrored(picture) = [picture EXCEPT !.at = other]
  BY <1>1, <1>2 DEF Matching!Mirrored
<1> HIDE DEF other
<1>4. Matching!Mirrored(picture) = [size |-> size, at |-> other]
  BY <1>3 DEF picture
<1> QED
  BY <1>4 DEF picture, other

LEMMA MirroredIs ==
  ASSUME NEW size \in Matching!Size, NEW shot \in Matching!PictureOf(size)
  PROVE  /\ Matching!Mirrored(shot) \in Matching!PictureOf(size)
         /\ Gray(Matching!Mirrored(shot)) = [p \in Matching!Points(size) |->
              Gray(shot)[<<size.width - 1 - p[1], size.height - 1 - p[2]>>]]
<1> DEFINE Other(p) == <<size.width - 1 - p[1], size.height - 1 - p[2]>>
<1>1. ASSUME NEW p \in Matching!Points(size) PROVE Other(p) \in Matching!Points(size)
  <2>1. size.width \in Nat \ {0} /\ size.height \in Nat \ {0}
    BY DEF Matching!Size
  <2> QED
    BY <2>1 DEF Matching!Points
<1>2. shot.size = size /\ shot.at \in [Matching!Points(size) -> Matching!Colour]
  BY DEF Matching!PictureOf
<1>3. /\ Matching!Mirrored(shot).size = size
      /\ Matching!Mirrored(shot).at = [p \in Matching!Points(size) |-> shot.at[Other(p)]]
      /\ Matching!Mirrored(shot) = [size |-> Matching!Mirrored(shot).size,
                                    at |-> Matching!Mirrored(shot).at]
  <2>1. shot = [size |-> size, at |-> shot.at]
    BY <1>2 DEF Matching!PictureOf
  <2>2. \A at \in [Matching!Points(size) -> Matching!Colour] :
           Matching!Mirrored([size |-> size, at |-> at]) =
             [size |-> size, at |-> [p \in Matching!Points(size) |-> at[Other(p)]]]
    BY MirroredPicture
  <2> DEFINE at == shot.at
  <2> HIDE DEF Other, at
  <2>3. Matching!Mirrored([size |-> size, at |-> at]) =
             [size |-> size, at |-> [p \in Matching!Points(size) |-> at[Other(p)]]]
    BY <1>2, <2>2 DEF at
  <2> QED
    BY <2>1, <2>3 DEF at
<1>4. Matching!Mirrored(shot) \in Matching!PictureOf(size)
  <2> HIDE DEF Other
  <2> QED
    BY <1>1, <1>2, <1>3 DEF Matching!PictureOf
<1>5. Gray(Matching!Mirrored(shot)) = [p \in Matching!Points(size) |-> Gray(shot)[Other(p)]]
  <2> HIDE DEF Other
  <2> QED
    BY <1>1, <1>2, <1>3 DEF Gray
<1> QED
  BY <1>4, <1>5

LEMMA ThumbnailsMirror ==
  ASSUME NEW size \in Matching!Size, NEW shot \in Matching!PictureOf(size),
         Analysis.width <= size.width, Analysis.height <= size.height
  PROVE  Matching!Thumbnail(Matching!Mirrored(shot)) = Matching!Mirrored(Matching!Thumbnail(shot))
<1> DEFINE Other(p) == <<Analysis.width - 1 - p[1], Analysis.height - 1 - p[2]>>
<1>1. ASSUME NEW p \in Matching!Points(Analysis) PROVE Other(p) \in Matching!Points(Analysis)
  <2>1. Analysis.width \in Nat \ {0} /\ Analysis.height \in Nat \ {0}
    BY ComparisonConstants
  <2> QED
    BY <2>1 DEF Matching!Points
<1>2. Gray(shot) \in [Matching!Points(size) -> Matching!Levels]
  BY LumaIsLevel DEF Gray, Matching!PictureOf
<1>3. ASSUME NEW p \in Matching!Points(Analysis)
      PROVE  Sampled(Gray(Matching!Mirrored(shot)), size, p) = Sampled(Gray(shot), size, Other(p))
  BY <1>2, MirroredIs, SampledMirrors
<1>4. Matching!Thumbnail(Matching!Mirrored(shot)) =
        [size |-> Analysis, at |-> [p \in Matching!Points(Analysis) |->
           Sampled(Gray(Matching!Mirrored(shot)), size, p)]]
  BY MirroredIs, ThumbnailIs
<1> DEFINE at == [p \in Matching!Points(Analysis) |-> Sampled(Gray(shot), size, p)]
<1>5. Matching!Thumbnail(shot) = [size |-> Analysis, at |-> at]
  BY ThumbnailIs
<1>6. Matching!Mirrored([size |-> Analysis, at |-> at]) =
        [size |-> Analysis, at |-> [p \in Matching!Points(Analysis) |-> at[Other(p)]]]
  BY MirroredPicture
<1>7. [p \in Matching!Points(Analysis) |-> at[Other(p)]] =
        [p \in Matching!Points(Analysis) |-> Sampled(Gray(shot), size, Other(p))]
  <2> HIDE DEF Other
  <2> QED
    BY <1>1
<1> HIDE DEF Other, at
<1> QED
  BY <1>3, <1>4, <1>5, <1>6, <1>7

----------------------------------------------------------------------------
LEMMA PicturesAreTyped ==
  ASSUME NEW size \in Matching!Size
  PROVE  Matching!Pictures(size) \subseteq Matching!PictureOf(size)
BY ComparisonConstants DEF Matching!Pictures, Matching!PictureOf

LEMMA NothingIsNoPicture ==
  /\ FrameSize \in Matching!Size /\ ImportSizes \subseteq Matching!Size
  /\ \A size \in ImportSizes \cup {FrameSize} : None \notin Matching!PictureOf(size)
  /\ None \notin Matching!Sums
BY PicturesRunAssumption DEF Matching!ComparisonAssumption

\* A reference in use is the gray picture of its file, and what came out of a
\* comparison is that of the frame and the reference.
MatchInv ==
  /\ stored # None => \E size \in Matching!Size : stored \in Matching!PictureOf(size)
  /\ detector # None =>
       /\ stored # None
       /\ detector = Matching!FromRgba(stored)
  /\ frame # None =>
       /\ frame \in Matching!Pictures(FrameSize) /\ detector # None
       /\ similarity = Matching!Compared(detector, Matching!Thumbnail(frame))
  /\ (frame = None) = (similarity = None)

LEMMA MatchInit == Matching!Init => MatchInv
BY DEF Matching!Init, MatchInv

LEMMA ReferenceIsGray ==
  ASSUME MatchInv, detector # None
  PROVE  detector \in GrayPicture
<1>1. PICK size \in Matching!Size : stored \in Matching!PictureOf(size)
  BY DEF MatchInv
<1>2. Matching!Swapped(stored) \in Matching!PictureOf(size)
  BY <1>1, SwappedTwice
<1>3. detector = Matching!Thumbnail(Matching!Swapped(stored))
  BY <1>1, FromRgbaIs DEF MatchInv
<1> QED
  BY <1>2, <1>3, ThumbnailIsGray

LEMMA MatchNext == MatchInv /\ Matching!Next => MatchInv'
<1> SUFFICES ASSUME MatchInv, Matching!Next PROVE MatchInv'
  OBVIOUS
<1>1. CASE Matching!Capture
  <2>1. PICK shot \in Matching!Pictures(FrameSize) :
           detector' = Matching!Thumbnail(shot) /\ stored' = Matching!Swapped(shot)
    BY <1>1 DEF Matching!Capture
  <2>2. shot \in Matching!PictureOf(FrameSize) /\ FrameSize \in Matching!Size
    BY PicturesAreTyped, NothingIsNoPicture
  <2>3. stored' \in Matching!PictureOf(FrameSize) /\ Matching!Swapped(stored') = shot
    BY <2>1, <2>2, SwappedTwice
  <2>4. detector' = Matching!FromRgba(stored')
    BY <2>1, <2>2, <2>3, FromRgbaIs
  <2>5. frame = None
    <3>1. stored = None
      BY <1>1 DEF Matching!Capture
    <3> QED
      BY <3>1 DEF MatchInv
  <2>6. stored' # None
    BY <2>3, NothingIsNoPicture
  <2> QED
    BY <1>1, <2>2, <2>3, <2>4, <2>5, <2>6 DEF Matching!Capture, MatchInv
<1>2. CASE Matching!Import
  <2>1. PICK size \in ImportSizes : stored' \in Matching!Pictures(size)
    BY <1>2 DEF Matching!Import
  <2>2. size \in Matching!Size /\ stored' \in Matching!PictureOf(size) /\ stored' # None
    BY <2>1, NothingIsNoPicture, PicturesAreTyped
  <2>3. frame = None
    BY <1>2 DEF Matching!Import, MatchInv
  <2> QED
    BY <1>2, <2>2, <2>3 DEF Matching!Import, MatchInv
<1>3. CASE Matching!Exit
  BY <1>3 DEF Matching!Exit, MatchInv
<1>4. CASE Matching!Load
  BY <1>4 DEF Matching!Load, MatchInv
<1>5. CASE Matching!Detect
  <2>1. frame' \in Matching!Pictures(FrameSize) /\ FrameSize \in Matching!Size
    BY <1>5, NothingIsNoPicture DEF Matching!Detect
  <2>2. Matching!Thumbnail(frame') \in GrayPicture
    BY <2>1, PicturesAreTyped, ThumbnailIsGray
  <2>3. similarity' \in Matching!Sums
    BY <1>5, <2>2, ReferenceIsGray, ComparedIs DEF Matching!Detect
  <2>4. frame' # None /\ similarity' # None
    BY <2>1, <2>3, PicturesAreTyped, NothingIsNoPicture
  <2> QED
    BY <1>5, <2>1, <2>4 DEF Matching!Detect, MatchInv
<1>6. CASE Matching!Forget
  BY <1>6 DEF Matching!Forget, MatchInv
<1> QED
  BY <1>1, <1>2, <1>3, <1>4, <1>5, <1>6 DEF Matching!Next

LEMMA MatchSafe ==
  ASSUME MatchInv
  PROVE  /\ Matching!TypeOK /\ Matching!ReloadAgrees
         /\ Matching!MatchIsExact /\ Matching!StaysInPlace
<1>1. Matching!TypeOK
  BY ReferenceIsGray DEF Matching!TypeOK, MatchInv, GrayPicture, Matching!Levels
<1>2. Matching!ReloadAgrees
  BY DEF Matching!ReloadAgrees, MatchInv
<1>3. ASSUME frame # None
      PROVE  /\ FrameSize \in Matching!Size /\ frame \in Matching!PictureOf(FrameSize)
             /\ Matching!Thumbnail(frame) \in GrayPicture /\ detector \in GrayPicture
  BY <1>3, NothingIsNoPicture, PicturesAreTyped, ThumbnailIsGray, ReferenceIsGray DEF MatchInv
<1>4. Matching!StaysInPlace
  BY <1>3, ThumbnailsMirror DEF Matching!StaysInPlace
<1>5. Matching!MatchIsExact
  <2> SUFFICES ASSUME frame # None
               PROVE  /\ stored = Matching!Swapped(frame) => Matching!IsPerfect(similarity)
                      /\ Matching!IsPerfect(similarity) =
                           \A p \in Matching!Points(Analysis) :
                              \/ Matching!InBorder(p[1], Analysis.width, BorderColumns)
                              \/ Matching!InBorder(p[2], Analysis.height, BorderRows)
                              \/ detector.at[p] = Matching!Thumbnail(frame).at[p]
    BY DEF Matching!MatchIsExact
  <2>1. Matching!IsPerfect(similarity)
          <=> \A p \in Compare : detector.at[p] = Matching!Thumbnail(frame).at[p]
    BY <1>3, ComparedIs DEF MatchInv
  <2>2. Matching!IsPerfect(similarity) \in BOOLEAN
    BY DEF Matching!IsPerfect
  <2>3. ASSUME stored = Matching!Swapped(frame) PROVE detector = Matching!Thumbnail(frame)
    <3>1. stored \in Matching!PictureOf(FrameSize) /\ Matching!Swapped(stored) = frame
      BY <1>3, <2>3, SwappedTwice
    <3> QED
      BY <1>3, <3>1, FromRgbaIs DEF MatchInv
  <2> QED
    BY <2>1, <2>2, <2>3 DEF Compare
<1> QED
  BY <1>1, <1>2, <1>4, <1>5

----------------------------------------------------------------------------
(* Both in the composition.                                                *)

\* The walk is where the plan has it, inside both pictures.
ScalingInv ==
    /\ WalkInv /\ Scaling!StaysInside /\ mix \in Scaling!Weights
    /\ border \in [start : Int, size : Nat \ {0}]
    /\ crop \in [start : Int, size : Nat \ {0}]

LEMMA InitScaling == Scaling!Init => ScalingInv
<1> SUFFICES ASSUME Scaling!Init PROVE ScalingInv
  OBVIOUS
<1>1. PICK from \in Scaling!Sizes, target \in Scaling!Sizes, aspect \in Scaling!Sizes,
           axis \in {"width", "height"} :
        /\ source = from[axis]
        /\ border = [start |-> Scaling!Offset(target[axis], Scaling!Fitted(from, target)[axis]),
                     size |-> target[axis]]
        /\ crop = [start |-> Scaling!Offset(from[axis],
                                    Scaling!Cropped(from, aspect, target)[axis]),
                   size |-> Scaling!Cropped(from, aspect, target)[axis]]
  BY DEF Scaling!Init
<1>2. from[axis] \in Nat \ {0} /\ target[axis] \in Nat \ {0}
  BY SizesType
<1>3. Scaling!Fitted(from, target)[axis] \in 1 .. target[axis]
  BY FittedInside
<1>4. Scaling!Cropped(from, aspect, target)[axis] \in 1 .. from[axis]
  BY CroppedInside
<1>5. Scaling!Offset(target[axis], Scaling!Fitted(from, target)[axis]) \in Nat
  BY <1>2, <1>3, OffsetInside
<1>6. Scaling!Offset(from[axis], Scaling!Cropped(from, aspect, target)[axis]) \in Nat
  BY <1>2, <1>4, OffsetInside
<1>7. border \in [start : Int, size : Nat \ {0}]
  BY <1>1, <1>2, <1>5
<1>8. crop \in [start : Int, size : Nat \ {0}]
  BY <1>1, <1>2, <1>4, <1>6
<1>9. mix \in Scaling!Weights
  BY DEF Scaling!Init
<1> QED
  BY <1>7, <1>8, <1>9, InitWalk, InitInside DEF ScalingInv

LEMMA StepScaling == ScalingInv /\ Scaling!Next => ScalingInv'
<1> SUFFICES ASSUME ScalingInv, Scaling!Next PROVE ScalingInv'
  OBVIOUS
<1>1. WalkInv'
  BY StepWalk DEF ScalingInv
<1>2. UNCHANGED <<source, length, border, crop, mix>>
  BY DEF Scaling!Next, Scaling!Step
<1>3. Scaling!StaysInside'
  BY <1>2 DEF ScalingInv, Scaling!StaysInside, Scaling!Filled
<1> QED
  BY <1>1, <1>2, <1>3 DEF ScalingInv

LEMMA ScalingSafe == ScalingInv => Scaling!TypeOK /\ Scaling!PicturesFit
<1> SUFFICES ASSUME ScalingInv PROVE Scaling!TypeOK /\ Scaling!PicturesFit
  OBVIOUS
<1>1. Scaling!TypeOK
  BY DEF ScalingInv, WalkInv, Scaling!TypeOK
<1>2. Scaling!WalkIsPlan
  BY WalkFollows DEF ScalingInv
<1>3. Scaling!BlendIsBetween
  BY BlendIsAlwaysBetween DEF ScalingInv
<1> QED
  BY <1>1, <1>2, <1>3 DEF ScalingInv, Scaling!PicturesFit

\* Whatever the sizes of the pictures, the levels compared and the borders left
\* out: a picture is scaled along its plan and inside its bounds, and compared with
\* the reference its file gives (frame.rs, image.rs).
THEOREM PicturesAlwaysFit == MCSpec => []PicturesFit
<1> DEFINE FitInv == (part = "scaling" => ScalingInv) /\ MatchInv
<1>1. MCInit => FitInv
  BY InitScaling, MatchInit DEF MCInit
<1>2. FitInv /\ [MCNext]_<<part, vars, scalingVars, fileVars, matchingVars>> => FitInv'
  <2> SUFFICES ASSUME FitInv, [MCNext]_<<part, vars, scalingVars, fileVars, matchingVars>>
               PROVE  FitInv'
    OBVIOUS
  <2>1. ASSUME UNCHANGED scalingVars PROVE ScalingInv => ScalingInv'
    BY <2>1 DEF scalingVars, ScalingInv, WalkInv, Scaling!StaysInside, Scaling!Filled
  <2>2. ASSUME UNCHANGED matchingVars PROVE MatchInv'
    BY <2>2 DEF matchingVars, MatchInv
  <2>3. CASE part = "scaling" /\ Scaling!Next /\ UNCHANGED <<part, matchingVars>>
    BY <2>2, <2>3, StepScaling
  <2>4. CASE part = "matching" /\ Matching!Next /\ UNCHANGED <<part, scalingVars>>
    BY <2>1, <2>4, MatchNext
  <2>5. CASE UNCHANGED <<part, scalingVars, matchingVars>>
    BY <2>1, <2>2, <2>5
  <2> QED
    BY <2>3, <2>4, <2>5 DEF MCNext
<1>3. FitInv => PicturesFit
  BY ScalingSafe, MatchSafe DEF PicturesFit
<1> QED
  BY <1>1, <1>2, <1>3, PTL DEF MCSpec
==============================================================================
