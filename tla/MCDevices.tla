------------------------------ MODULE MCDevices -------------------------------
(***************************************************************************)
(* One run for the transport (FramePipe) and components around it that     *)
(* share no state with it: the camera's registration with Windows          *)
(* (VirtualCamera), the conversion of the previews (PreviewConversion),    *)
(* the capture of the screen (ScreenCapture), the recovery of the webcam   *)
(* (WebcamRecovery) and the end of the transport's threads (PipeShutdown). *)
(* A behaviour picks one of them; the others stay as they began.           *)
(***************************************************************************)
EXTENDS FramePipe

CONSTANTS Restarts, Troubles, PreviewFrames, Sizes, NoPreview, Changes,
          Displays, HdrDisplays, Nothing, ScreenTroubles, Clicks,
          MaxAttempts, Stalls, Faults, Starts

VARIABLES
  part,        \* the component that moves
  \* VirtualCamera
  publisher, controller, camera, generation, running, owner, component, calls,
  late, restarts, troubles,
  \* PreviewConversion
  visible, offered, size, pass, recent, previewLatest, pending, ready,
  previewGeneration, job, worker, stopping, texture, changes,
  \* ScreenCapture
  world, stored, selected, hdr, screenSetting, session, screenLatest, failure,
  screenOwner, checks, screenComponent, shown, screenReady, screenTroubles,
  clicks,
  \* WebcamRecovery
  device, webcamRunning, webcamLatest, webcamFailure, recovery, lifecycle,
  deadline, kind, cycle, seen, webcamLate, tries, stalls, faults,
  \* PipeShutdown
  serverAt, serverStopping, fresh, anyPublished, instance, clientEnd, full,
  pipeOwner, readerAt, readerStopped, pipeSource, starts

Host    == INSTANCE VirtualCamera
Preview == INSTANCE PreviewConversion WITH
               Frames <- PreviewFrames, NoFrame <- NoPreview,
               latest <- previewLatest, generation <- previewGeneration
Screen  == INSTANCE ScreenCapture WITH
               Troubles <- ScreenTroubles, setting <- screenSetting,
               latest <- screenLatest, owner <- screenOwner,
               component <- screenComponent, ready <- screenReady,
               troubles <- screenTroubles
Webcam  == INSTANCE WebcamRecovery WITH
               running <- webcamRunning, latest <- webcamLatest,
               failure <- webcamFailure, late <- webcamLate
Threads == INSTANCE PipeShutdown WITH
               server <- serverAt, stopping <- serverStopping,
               client <- clientEnd, owner <- pipeOwner, reader <- readerAt,
               stopped <- readerStopped, published <- anyPublished,
               source <- pipeSource

hostVars == <<publisher, controller, camera, generation, running, owner,
              component, calls, late, restarts, troubles>>
previewVars == <<visible, offered, size, pass, recent, previewLatest, pending,
                 ready, previewGeneration, job, worker, stopping, texture,
                 changes>>

screenVars == <<world, stored, selected, hdr, screenSetting, session,
                screenLatest, failure, screenOwner, checks, screenComponent,
                shown, screenReady, screenTroubles, clicks>>
webcamVars == <<device, webcamRunning, webcamLatest, webcamFailure, recovery,
                lifecycle, deadline, kind, cycle, seen, webcamLate, tries,
                stalls, faults>>
threadVars == <<serverAt, serverStopping, fresh, anyPublished, instance, clientEnd,
                full, pipeOwner, readerAt, readerStopped, pipeSource, starts>>
mcVars == <<part, vars, hostVars, previewVars, screenVars, webcamVars,
            threadVars>>

ASSUME DevicesAssumption ==
       /\ Host!CameraAssumption
       /\ Preview!PreviewAssumption
       /\ Screen!CaptureAssumption
       /\ Webcam!AttemptsAssumption /\ Webcam!StallsAssumption
       /\ Webcam!FaultsAssumption
       /\ Threads!ShutdownAssumption

MCInit ==
  /\ part \in {"pipe", "host", "preview", "screen", "webcam", "threads"}
  /\ Init
  /\ Host!Init /\ (part # "host" => ~publisher)
  /\ Preview!Init /\ (part # "preview" => size = CHOOSE s \in Sizes : TRUE)
  /\ Screen!Init /\ (part # "screen" =>
                       /\ stored = CHOOSE d \in Displays : TRUE
                       /\ selected = Nothing /\ ~screenSetting.recover)
  /\ Webcam!Init /\ (part # "webcam" => lifecycle = "Stopped" /\ faults = {})
  /\ Threads!Init

MCNext ==
  \/ /\ part = "pipe" /\ Next
     /\ UNCHANGED <<part, hostVars, previewVars, screenVars, webcamVars, threadVars>>
  \/ /\ part = "host" /\ Host!Next
     /\ UNCHANGED <<part, vars, previewVars, screenVars, webcamVars, threadVars>>
  \/ /\ part = "preview" /\ Preview!Next
     /\ UNCHANGED <<part, vars, hostVars, screenVars, webcamVars, threadVars>>
  \/ /\ part = "screen" /\ Screen!Next
     /\ UNCHANGED <<part, vars, hostVars, previewVars, webcamVars, threadVars>>
  \/ /\ part = "webcam" /\ Webcam!Next
     /\ UNCHANGED <<part, vars, hostVars, previewVars, screenVars, threadVars>>
  \/ /\ part = "threads" /\ Threads!Next
     /\ UNCHANGED <<part, vars, hostVars, previewVars, screenVars, webcamVars>>

HostOwner ==
  Host!Create \/ Host!Arm \/ Host!Start \/ Host!Opened \/ Host!Cycle

\* The fairness of each component, for the behaviours that run it.
MCFairness ==
  /\ WF_vars(part = "pipe" /\ Server)
  /\ WF_vars(part = "pipe" /\ Reader)
  /\ WF_vars(part = "pipe" /\ AppJoined)
  /\ WF_hostVars(part = "host" /\ HostOwner)
  /\ WF_hostVars(part = "host" /\ Host!Compares)
  /\ WF_hostVars(part = "host" /\ Host!Clears)
  /\ WF_previewVars(part = "preview" /\ Preview!Submit)
  /\ WF_previewVars(part = "preview" /\ Preview!Draw)
  /\ WF_previewVars(part = "preview" /\ Preview!Take)
  /\ WF_previewVars(part = "preview" /\ Preview!Store)
  /\ WF_previewVars(part = "preview" /\ Preview!End)
  /\ WF_previewVars(part = "preview" /\ Preview!IntervalPasses)
  /\ WF_screenVars(part = "screen" /\ Screen!Cycle)
  /\ WF_screenVars(part = "screen" /\ Screen!Look)
  /\ WF_screenVars(part = "screen" /\ Screen!Judge)
  /\ WF_screenVars(part = "screen" /\ Screen!Restarted)
  /\ WF_screenVars(part = "screen" /\ session.fresh /\ Screen!FrameArrives)
  /\ WF_screenVars(part = "screen" /\ Screen!FrameIsKept)
  /\ WF_screenVars(part = "screen" /\ Screen!FrameIsDropped)
  /\ WF_screenVars(part = "screen" /\ Screen!Closed)
  /\ WF_screenVars(part = "screen" /\ Screen!IntervalPasses)
  /\ SF_screenVars(part = "screen" /\ Screen!HalfMinutePasses)
  /\ WF_webcamVars(part = "webcam" /\ Webcam!OwnerStep)
  /\ WF_webcamVars(part = "webcam" /\ Webcam!RetryDue)
  /\ WF_webcamVars(part = "webcam" /\ Webcam!DeadlineDue)
  /\ WF_threadVars(part = "threads" /\ Threads!Server)
  /\ WF_threadVars(part = "threads" /\ Threads!Reader)
  /\ WF_threadVars(part = "threads" /\ Threads!Publish)
  /\ WF_threadVars(part = "threads" /\ Threads!DropNotifies)
  /\ WF_threadVars(part = "threads" /\ Threads!DropCancels)
  /\ WF_threadVars(part = "threads" /\ Threads!ProcessEnds)
  /\ WF_threadVars(part = "threads" /\ Threads!StopCancels)
  /\ WF_threadVars(part = "threads" /\ Threads!StopReturns)

MCSpec ==
  /\ MCInit
  /\ [][MCNext]_mcVars
  /\ MCFairness

\* Every component keeps its types, and the ones around the transport stay safe: a
\* camera that is live is known to run (VirtualCamera), a hidden preview holds no
\* picture back (PreviewConversion), what is shown is of the selected display
\* (ScreenCapture), the webcam is tried three times and no more, and never after a
\* failure no retry can help (WebcamRecovery).
DevicesAreSafe ==
  /\ []TypeOK
  /\ [](part = "host" => Host!TypeOK /\ Host!LiveIsRunning)
  /\ [](part = "preview" => Preview!TypeOK /\ Preview!HiddenIsDrained)
  /\ [](part = "screen" => Screen!TypeOK /\ Screen!ShownIsSelected)
  /\ [](part = "webcam" => Webcam!TypeOK /\ Webcam!ThreeTries)
  /\ [](part = "threads" => Threads!TypeOK)
  /\ Webcam!FinalFailureWaits

\* The end of the application turns the picture off, and the reader gets to the
\* last publication (FramePipe); a reader that is stopped ends, and one that is
\* started gets a connection (PipeShutdown).
FollowsPublisher ==
  /\ GoneMeansOff /\ CatchesUp
  /\ Threads!StopEnds
  /\ part = "threads" => Threads!ReaderConnects

\* A camera that fails is shown as failed (VirtualCamera).
HostTellsFailure == Host!FailureIsShown

\* A frame that stays on offer is drawn in the end (PreviewConversion).
PreviewKeepsUp == Preview!LatestIsDrawn

\* A capture that died is noticed, the selected display comes back (ScreenCapture),
\* and the webcam settles (WebcamRecovery).
CapturesSettle ==
  /\ Screen!DeadIsNoticed
  /\ Screen!SelectedReturns
  /\ Webcam!RecoveryEnds
===============================================================================
