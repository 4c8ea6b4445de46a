------------------------------- MODULE MCCamera -------------------------------
(***************************************************************************)
(* One run for components that share no state: the life of the camera's    *)
(* source (SourceLifecycle), its samples (CameraSource), the life of the   *)
(* DLL it is in (ServerUnload), the files and the registration of that DLL *)
(* (Deployment), the callbacks of the webcam (WebcamCapture) and the format *)
(* it is opened with (WebcamFormats).  A behaviour picks one of them; the  *)
(* others stay as they began.                                              *)
(***************************************************************************)
EXTENDS MCSourceLifecycle, Integers

CONSTANTS MaxRun, MaxSequence,
          Activations, Sources, MaxFactories, MaxLocks,
          Version, Process, Troubles,
          MaxGeneration, Threshold,
          Listed, Lengths, Changes, Absent

VARIABLES
  part,        \* the component that moves
  \* CameraSource
  published, bound, passed, view, subtype, setting, converted, at, picture,
  format, sample,
  \* ServerUnload
  module, objects, locks, factories, activation, source, held, cycle,
  serverReader,
  \* Deployment
  dll, staged, doomed, loaded, registered, threading, pc,
  version, existed, prior, outcome, doubt, troubles,
  \* WebcamCapture
  generation, running, webcamReader, latest, failure, failures, requested, step,
  goal, found, asked,
  \* WebcamFormats
  negotiation, listed, left, tried, refused, layout, declared, rows, buffer,
  changes

Samples == INSTANCE CameraSource WITH Requesters <- Callers
Server  == INSTANCE ServerUnload WITH reader <- serverReader
Files   == INSTANCE Deployment
Webcam  == INSTANCE WebcamCapture WITH reader <- webcamReader

\* Words of ten bits, a pipeline of 16 by 9 pixels, and formats that are of its
\* size, of its shape, nearly of its rate, or too large for a word.
Format(width, height, numerator, denominator, rank) ==
  [width |-> width, height |-> height, numerator |-> numerator,
   denominator |-> denominator, rank |-> rank]
PipelineFormat == Format(16, 9, 30, 1, 0)
WebcamFormat ==
  {PipelineFormat, Format(16, 9, 30, 1, 1), Format(16, 9, 29, 1, 0),
   Format(16, 9, 30000, 1001, 0), Format(8, 8, 30, 1, 1),
   Format(130, 1, 30, 1, 0), Format(300, 1, 30, 1, 0), Format(32, 18, 30, 1, 0)}
LargestWord == 1023
Multiple == 1001
Stride == {64, 72, 960, 8}
SampleSize == {576, 100, 648}
Offset == {0, 512}
Pitch == {64, -64, 72}
Formats == INSTANCE WebcamFormats WITH
  Formats <- WebcamFormat, Exact <- PipelineFormat,
  MaxWord <- LargestWord, Scale <- Multiple,
  Strides <- Stride, SampleSizes <- SampleSize, Offsets <- Offset, Pitches <- Pitch,
  phase <- negotiation, asked <- tried

mcVars == <<vars, overlapped, atRest>>
sampleVars == <<published, bound, passed, view, subtype, setting, converted,
                at, picture, format, sample>>
serverVars == <<module, objects, locks, factories, activation, source, held,
                cycle, serverReader>>
fileVars == <<dll, staged, doomed, loaded, registered, threading, pc, version, existed,
              prior, outcome, doubt, troubles>>
webcamVars == <<generation, running, webcamReader, latest, failure, failures,
                requested, step, goal, found, asked>>
negotiationVars == <<negotiation, listed, left, tried, refused, layout,
                     declared, rows, buffer, changes>>

ASSUME CameraAssumption ==
       /\ MaxRun \in Nat /\ MaxSequence \in Nat
       /\ Server!ServerAssumption
       /\ Files!NoneAssumption /\ Files!DeploymentBounds
       /\ Webcam!GenerationAssumption /\ Webcam!ThresholdAssumption
       /\ Formats!FormatsAssumption

CamInit ==
  /\ part \in {"source", "samples", "server", "files", "webcam", "formats"}
  /\ MCInit
  /\ Samples!CameraInit
  /\ Server!Init
  /\ Files!Init /\ (part # "files" =>
                      /\ \A v \in Version : dll[v] = "none"
                      /\ \A p \in Process : version[p] = CHOOSE v \in Version : TRUE)
  /\ Webcam!Init
  /\ Formats!Init /\ (part # "formats" => listed = <<>>)

CamNext ==
  \/ /\ part = "source" /\ MCNext
     /\ UNCHANGED <<part, sampleVars, serverVars, fileVars, webcamVars, negotiationVars>>
  \/ /\ part = "samples" /\ Samples!CameraNext
     /\ UNCHANGED <<part, mcVars, serverVars, fileVars, webcamVars, negotiationVars>>
  \/ /\ part = "server" /\ Server!Next
     /\ UNCHANGED <<part, mcVars, sampleVars, fileVars, webcamVars, negotiationVars>>
  \/ /\ part = "files" /\ Files!Next
     /\ UNCHANGED <<part, mcVars, sampleVars, serverVars, webcamVars, negotiationVars>>
  \/ /\ part = "webcam" /\ Webcam!Next
     /\ UNCHANGED <<part, mcVars, sampleVars, serverVars, fileVars, negotiationVars>>
  \/ /\ part = "formats" /\ Formats!Next
     /\ UNCHANGED <<part, mcVars, sampleVars, serverVars, fileVars, webcamVars>>

CamSpec ==
  CamInit /\ [][CamNext]_<<part, mcVars, sampleVars, serverVars, fileVars,
                          webcamVars, negotiationVars>>

\* Every sample has the pixels of the frame its request read, or of the one that
\* another run of the application gave the same number (CameraSource).
SampleShowsItsFrame == part = "samples" => Samples!SampleShowsItsFrame

\* The DLL is unloaded only when nothing runs in it (ServerUnload).
UnloadIsSafe == part = "server" => Server!TypeOK /\ Server!UnloadIsSafe

\* What is registered is on disk, and a registration that fails brings back the
\* one before it (Deployment).
RegistrationIsSound ==
  /\ [](part = "files" => Files!TypeOK /\ Files!RegisteredIsOnDisk)
  /\ Files!FailedRegistrationRestores

\* A webcam session that runs has a sample requested, and one that ends by itself
\* says why (WebcamCapture); it is opened with the best format its reader takes,
\* and every whole sample of an accepted format is copied (WebcamFormats).
WebcamIsServed ==
  /\ part = "webcam" => Webcam!RequestOutstanding /\ Webcam!FailureIsReported
  /\ part = "formats" =>
       Formats!TypeOK /\ Formats!BestIsTaken /\ Formats!SampleIsWhole
===============================================================================
