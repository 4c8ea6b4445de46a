------------------------------ MODULE MCPictures ------------------------------
(***************************************************************************)
(* One run for components that share no state: the pictures' buffers       *)
(* (FrameBuffers), the arithmetic of their sizes (FrameScaling), the       *)
(* comparison with the reference (PictureComparison) and the files of the  *)
(* configuration (ConfigStore).  A behaviour picks one of them; the others *)
(* stay as they began.                                                     *)
(***************************************************************************)
EXTENDS FrameBuffers

CONSTANTS MaxSize, Config, Default, Picture, Torn, None, Troubles, Crashes,
          Spoilings, Captures, Snapshots,
          Colours, FrameSize, ImportSizes, Analysis, BorderColumns, BorderRows

VARIABLES
  part,        \* the component that moves
  \* FrameScaling
  source, length, border, crop, x, position, remainder, mix,
  \* ConfigStore
  primary, backup, reference, profile, snapshots, guide, config, shown, pc, op,
  counts,
  \* PictureComparison
  stored, detector, frame, similarity

Scaling == INSTANCE FrameScaling
Files   == INSTANCE ConfigStore

Matching == INSTANCE PictureComparison WITH
  NoPicture <- None, reference <- detector

\* Black and a red with some blue in it; pictures that are made smaller and
\* larger on the way to four columns, of which the outer two are a border.
SizeOf(w, h) == [width |-> w, height |-> h]
BlackAndRed == {<<0, 0, 0>>, <<10, 0, 255>>}
SixPixels   == SizeOf(6, 1)
TwoSizes    == {SizeOf(4, 2), SizeOf(2, 1)}
FourColumns == SizeOf(4, 1)

scalingVars == <<source, length, border, crop, x, position, remainder, mix>>
fileVars == <<primary, backup, reference, profile, snapshots, guide, config,
              shown, pc, op, counts>>
matchingVars == <<stored, detector, frame, similarity>>

ASSUME PicturesRunAssumption ==
       /\ Scaling!SizeAssumption /\ Matching!ComparisonAssumption
       /\ Files!ContentAssumption /\ Files!StoreBounds

Axis == [start |-> 0, size |-> 1]

MCInit ==
  /\ part \in {"buffers", "scaling", "files", "matching"}
  /\ Init
  /\ IF part = "scaling"
     THEN Scaling!Init
     ELSE /\ source = 1 /\ length = 1 /\ border = Axis /\ crop = Axis
          /\ x = 0 /\ position = 0 /\ remainder = 0
          /\ mix = 0
  /\ Files!Init
  /\ Matching!Init

MCNext ==
  \/ /\ part = "buffers" /\ Next
     /\ UNCHANGED <<part, scalingVars, fileVars, matchingVars>>
  \/ /\ part = "scaling" /\ Scaling!Next
     /\ UNCHANGED <<part, vars, fileVars, matchingVars>>
  \/ /\ part = "files" /\ Files!Next
     /\ UNCHANGED <<part, vars, scalingVars, matchingVars>>
  \/ /\ part = "matching" /\ Matching!Next
     /\ UNCHANGED <<part, vars, scalingVars, fileVars>>

MCSpec == MCInit /\ [][MCNext]_<<part, vars, scalingVars, fileVars, matchingVars>>

\* A scaled row or column follows the plan of its copy, reads and writes inside
\* its picture, and blends to values between those it blends (FrameScaling); what
\* is compared is the same after a restart, lies in its place, and matches wholly
\* only what it was made of (PictureComparison).
PicturesFit ==
  /\ part = "scaling" => Scaling!TypeOK /\ Scaling!PicturesFit
  /\ part = "matching" =>
       /\ Matching!TypeOK /\ Matching!ReloadAgrees
       /\ Matching!MatchIsExact /\ Matching!StaysInPlace

\* No failed write, crash or spoiled file loses the configuration, a restored
\* reference and an admin profile are whole, no snapshot is left behind, and a
\* setup guide that was dismissed does not come back (ConfigStore).
FilesAreKept ==
  /\ [](part = "files" =>
          /\ Files!TypeOK
          /\ Files!ConfigSurvives
          /\ Files!RestoreIsWhole
          /\ Files!ProfileIsWhole
          /\ Files!NoOrphans)
  /\ Files!DismissedStays
===============================================================================
