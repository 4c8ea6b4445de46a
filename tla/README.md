# StageSwap in TLA+

StageSwap is a Windows application that publishes a virtual camera. It shows the webcam, the
captured screen or a picture-in-picture of the two, and chooses between them by comparing the
screen with a reference picture: while the reference is on the screen the camera is on air, when
something else is there the screen is. The application composes thirty frames a second and sends
them over a named pipe to a Media Foundation source that the Windows Frame Server hosts.

This directory models the parts of it in which threads, processes, timers, files and the user meet,
and the arithmetic of its pictures. Paths below are relative to `src/`; RT is
`crates/app/src/runtime.rs`, APP is `crates/app/src/application.rs`.

- [Inventory](#inventory): the components, their state, how they interact, what makes them correct
- [Modules](#modules): how the state and the actions of each module correspond to the code
- [Runs](#runs): what TLC checks, the bounds, the fairness
- [Theorems](#theorems): what is proved, from what, and how
- [Where code and documents part](#where-code-and-documents-part)
- [Not modelled](#not-modelled) and [Plan](#plan)

To check a run: `tlc -config MCDevices.cfg MCDevices`; to check proofs: `tlapm DevicesProofs.tla`.
`PROJECT.json` lists runs, theorems, the lines of the source every definition stands for, and for
each property a defect (an operator whose name starts with `Bug`, never part of a specification)
that the property catches.

## Inventory

### Threads and processes

    application process                                    Frame Server process
    +----------------------------------------------+       +---------------------------+
    | interface --commands--> mailbox              |       | COM calls (free-threaded) |
    |    ^                       |                 |       |      |                    |
    |    | snapshots             v                 |       |   MediaSource/MediaStream |
    |    +----------------- runtime loop --frames--|-pipe--|-> reader thread -> cache  |
    |                        |  ^    |  ^          |       +---------------------------+
    |           commands     v  |    v  | results  |
    |                device worker  reference worker
    |                 |   ^    \                   |
    |     webcam callbacks  screen capture         |
    |                 \                            |
    |                  monitor scan worker         |
    +----------------------------------------------+

The interface never waits for the runtime: it reads the last snapshot and sends commands through
a bounded mailbox. The runtime loop runs commands and, thirty times a second, an output cycle. The
device worker owns webcam and screen capture and refreshes them in its own loop. The
reference worker reads and writes `reference.png`. The scan worker captures all displays and
compares them with the reference. Webcam frames arrive in callbacks of Media Foundation. On the
other side of the pipe one reader thread fills a cache, and any thread of the Frame Server calls
the source and its stream.

Around these: an update worker, one conversion thread for each preview place, the callbacks of the
virtual camera, and other processes of the same program (an installer, an elevated helper, a second
instance), which meet the application at mutexes, a control pipe, files and the registry.

### Components

| component | state it keeps | operations | what makes it correct | module |
|---|---|---|---|---|
| Frame transport: `crates/windows/src/pipe.rs`, `crates/media-source/src/com_server/pipe_reader.rs`, `crates/core/src/ipc.rs` | the latest-only slot; the bytes in the pipe; sequence numbers of server, reader and cache; the cached frame and its age | publish, invalidate, connect, take, write header and pixels, read, ingest, reconnect, expire | the stream stays framed over partial messages, crashes and reconnects; only the newest picture is shown; off when the application is gone; the last publication arrives; a thread that is told to stop ends | FramePipe, LatestFrame, PipeShutdown |
| Virtual camera samples: `com_server/media_stream.rs` | selected type, kept NV12 conversion | sample request, change of type | a sample has the pixels of the frame it is made of | CameraSource |
| Media source life cycle: `com_server/media_source.rs`, `media_stream.rs`, `activation.rs`, `com_server.rs` | life cycle of the source; mode, shutdown, allocator and type of the stream; two event queues; counts of objects and locks | Start, Stop, Shutdown, SetStreamState, RequestSample; activate, release, unload | shutdown is final and releases all; a failed Start changes nothing; a running stream can serve; the library stays while it is in use | SourceLifecycle, ServerUnload |
| Virtual camera registration: `crates/windows/src/virtual_camera.rs`, RT | controller, generation, running flag | create, start, callbacks, supervision, restart | a live camera is known to run, a failed one is shown as failed | VirtualCamera |
| Source selection: `crates/core/src/{runtime,decision,detector,stillness,transition}.rs`, RT | detector, stillness timer, two fades, mode and settings, what is on air | output cycle; start, stop, mode, settings, reference | nothing unusable on air, debounced switches, steady layouts, nothing carried over a stop; a still picture does bring its inset | SourceSelection |
| Runtime mailbox and loop: `crates/app/src/runtime_mailbox.rs`, RT 2076-2200, `crates/core/src/pacer.rs` | queue of ordered commands, two coalescing slots, set of pending restarts, deadline of the next cycle | dispatch, take, drain, output cycle, shutdown | the last command wins, restarts are neither lost nor doubled, commands do not starve the output, deadlines are accounted for | CommandMailbox, FramePacing |
| Device worker and exit: RT 58-150, 376-383, 2062-2074, 3590-3930 | slots of pending commands, snapshot, stop flag | hand over, take, execute, publish, hang, join or detach | commands happen, a hanging driver is told and its picture not used, every exit ends and takes the picture off the air | DeviceHandoff |
| Reference pictures: RT, `crates/app/src/application.rs` | dialog, candidate, reference, jobs and results, `reference.png` | capture, review, confirm, discard, import, load | memory and file agree, nothing saved twice, every save ends | ReferenceFlow |
| Webcam capture: `crates/windows/src/video_input.rs` | session generation, reader, latest frame, failure slot, failure count | start, stop, sample callback; choice and change of the format | exactly one request outstanding; failures reach the owner; the best format is taken and no row lies outside its buffer | WebcamCapture, WebcamFormats |
| Webcam recovery: RT 465-550, 2987-3300 | attempts and timer of the recovery, first-frame deadline, component status | refresh of the inputs, user's restart, change of device | three tries, then the user; a failure that a retry cannot help is left to the user; no wait for ever | WebcamRecovery |
| Screen capture: `crates/windows/src/screen_input.rs`, RT 385-461, 3404-3476 | session thread, generation, last frame or failure, two-strike check | select, HDR rule, session events, supervision every half minute, restart | what is shown is of the selected display; a dead capture is noticed and the selected display comes back | ScreenCapture |
| Monitor scans: RT 2193-2450, 3478-3590, `crates/core/src/monitor.rs` | request slot, result, generation, tracker, selection | settings, reference, selection, rescan, scan, apply, exit | the display changes only for two current wins, never against the settings; the best display is found | MonitorScan |
| Composition: `crates/core/src/frame.rs`, capture callbacks | buffer pools and holders; scale plans, fades | acquire, fill, hand over; fit, fill, blend | no frame composed into a buffer in use; no pixel read or written outside its picture | FrameBuffers, FrameScaling |
| Preview: `crates/app/src/preview_conversion.rs`, APP | last request, worker's job, ready picture, texture | submit, suspend, convert, take | a hidden preview holds nothing back, a frame that stays is drawn | PreviewConversion |
| Configuration: `crates/core/src/config.rs`, `setup_guide.rs`, APP | config file and backup, reference, profile, snapshots, guide state | load, save, replace, restore, roll back, profile | a whole state of the directory survives every failure and crash | ConfigStore |
| Settings on their way: APP, RT | configuration of the interface, what it waits for, what the worker has open, pending save | change, logic, flush, report | the configuration names the devices in use in the end | SettingsSync |
| Installation: `crates/windows/src/{portable_install,single_instance,instance_control}.rs` | executable, staged and previous executable, two mutexes, processes | install, replace, uninstall, hand over, roll back | one installation at a time; a program to start at each failure and crash | PortableInstall |
| Deployment: `crates/windows/src/deployment.rs`, `com_server.rs` | DLLs, registry, elevated processes, removals at reboot | install, cleanup, register, roll back | what is registered is on disk | Deployment |
| Updates: `update.rs`, `http.rs`, APP | status, two bounded channels, files | check, download, verify, launch | only verified files are started; nothing is busy for good | UpdateFlow |
| Interface: APP, `setup_guide.rs`, `tray.rs` | window, views, guide, dialogs, capture dialog, exit | events of user, tray, instances, timers | an exit that was asked for happens; no dialog waits for good | AppShell |
| Notifications: RT, `notifications.rs` | warnings, ring of alerts, entries and toasts | set, clear, number, ingest, expire | a warning that lasts is told; toasts belong to entries | Notices |
| Activity log: RT, APP, `local_log.rs` | two rings, numbers, log file | record, take over, publish, log, clear | entries once and in order, gaps marked, the last one arrives | ActivityLog |
| Picture comparison: `crates/core/src/image.rs`, RT 1416-1424, 1601-1689 | reference picture and its file | capture, import, load, compare | a reference is the same after a restart, matches the frame it was made of, and wholly nothing else | PictureComparison (a parameter of SourceSelection and MonitorScan) |
| Translations, build and release tools | none | | texts, output | |

### What is hard here

- The stream over the pipe has no delimiters that survive a lost byte: a frame is a header and a
  payload in two writes, and either process may end between them (`pipe.rs:402`,
  `pipe_reader.rs:99`).
- Almost every object is shared by threads that hold locks for a single access, so that what was
  checked may be outdated when used: the source's life cycle (`media_source.rs:333`), the
  allocator (`media_stream.rs:254`), the webcam's generation (`video_input.rs:916`), a scan's
  generation (RT 3543).
- Work takes seconds while the user goes on: scans, captures, saves, downloads. Their results are
  judged by a generation number when they arrive.
- Timers and retries meet late answers: the first-frame deadline, three attempts, the dialog's
  time-outs, a driver that returns after the exit gave up on it.
- Requests replace one another in slots (commands, scans, pending device commands), which loses
  order by design; the question is which orders matter.
- Several files make one state (configuration, reference, guide; executable, staged and previous
  one; DLL and registry), and a process may die between any two of them.
- Pictures are shared by reference between threads, and their buffers are used again.

The full list, with lines and the properties that watch each of them, is `hazards` in
`PROJECT.json`.

## Modules

Pixels, texts, formats and file contents are data and abstracted to identities. Every lock region,
call of an event queue, blocking write or read and channel operation that another thread can see
is a step of its own where threads are modelled, and every early return and error path is kept.

**FramePipe** (with **FramePipeInv**, and **DevicesProofs**) is publisher, server thread, pipe,
reader thread and cache in one state machine, because the interesting states are relations
between both ends. `latest` with `published[run]` is the slot behind the publisher's mutex; `msg` the copy
`send_frames` makes before it releases it (`ServerTake`), `wire` the chunks written and not
read, `last`/`frame`/`age` the `SharedFrameCache`. `AppCrash` ends the application at any step,
`SourceShutdown` and `SourceActivate` the source; `ServerConnectFails`, `WriteFails`, `ReadFails` are
the error returns. A frame is `[run, seq]`: sequence numbers start again in each run of the
application, which is what makes stale frames dangerous. Time is one bit, whether the
frame expired.

**LatestFrame** is what the transport promises its consumer, in four actions: a register that
moves to later publications of the run it is connected to, may skip and may go blank, and never
goes back. FramePipe implements it (`LatestOnly`, with `passed <- last, view <- Visible`).

**PipeShutdown** is the end of the same two threads: where each is in its loop, the stop flags, and the three calls of
`drop` (flag, notification, cancellation) and `stop` with the joins after them. A cancellation ends the call a thread is
in and no later one. `wait_while` looks under the lock and goes to sleep with it, which are two steps (`Predicate`,
`FallsAsleep`), because flag and notification take no lock. Here a message is one chunk and the pipe holds one.

**CameraSource** EXTENDS LatestFrame and puts the requests of the stream on the register: each requester
reads the frame, then the type, then takes or makes the NV12 conversion kept under another lock
(`make_output_sample`, `nv12_frame`, `media_stream.rs`).

**SourceLifecycle** (with **CameraProofs**) is the COM object pair. `call[c]` is the call
thread `c` is in, with its locals and the section it enters next; the actions of `StartStep`,
`StreamStep`, `StopStep` and `ShutdownStep` follow the calls line by line. `Refused` is a queue that
is closed or out of memory. **MCSourceLifecycle** adds two history variables, so that promises for
calls one after the other can be told from those for any interleaving.

**SourceSelection** (with **SourceSelectionProofs**) is `RuntimeState`: one `Step` is an output
cycle (`refresh_inputs`, `detect`, `tick`), between two of which any `Command` may come. The debounced
detector, stillness timer and both fades are operators with the code's names; time is a number of
units per cycle, a fade's mix counts from 0 to `Fade`. `samples` is history.

**CommandMailbox** is the interface's side (`Ui...`, one thread, in two steps where the code takes
two locks), `CoalescedCommands`, the restart set and the loop (`top`, `wait`, `drain`, `step`).
Commands have no effect here except on the mode; what they do otherwise is in the module of their component.

**ReferenceFlow** composes the capture dialog, engine, device worker and reference worker; the
channels between them are the ordered `inbox`, the pending flags of the device worker
(`PendingDeviceCommands`), its `published` snapshot and the two bounded job channels. A job either writes
its picture or fails and leaves `reference.png` alone, because the file is replaced atomically.

**WebcamCapture** is the owner of the capture and one callback per session. Outside the source is
Media Foundation: its reader calls `OnReadSample` serially and once per request, and `Flush` discards
requests without waiting for a callback under way.

**WebcamFormats** is the negotiation of `negotiate_rgb32_output`, one format a step, with the order of
`sort_webcam_formats` as a relation (`Better`), and then the samples: `RowsIn` is where `copy_bgra_rows` finds the rows, and
`Signed` and `Fits` are the code's conversion of the stride and its checked arithmetic, on words of `MaxWord`.

**WebcamRecovery** is the owner above it, `refresh_inputs` in three steps with the capture's start and
stop atomic. What WebcamCapture shows to be possible is a *fault* here: a late frame, a late
failure, a first request that is refused and reported. Each behaviour chooses its set of faults at
the start. Timers are `later` until `due`, frames `fresh` until `old`, at any moment, so
that the model covers every length of delays and cycles; a frame that grows old before the owner looked at it
(a worker kept busy longer than `FRAME_STALE_AFTER`) counts as a stall.

**MonitorScan** (with **MCMonitorScan**, **MonitorScanProofs**) is device worker, slot, scan worker and
tracker, with the exit of the worker. A request carries the generation it has in the code and, as
history, what it was made for, so that "current" can be stated without the generation that implements it.

**VirtualCamera** is `VirtualCamera::new`, `start`, the failure callback and the device worker's
supervision. A callback acts in two steps, because it compares the generation and clears `running`
without a lock; `late` remembers that one got past the comparison when its camera was replaced.

**ScreenCapture** is one capture session (frames, drop, close, each on the session's thread), the
selection of a display with the HDR rule, and the half-minute look with its second strike. A
generation is only ever compared with the current one, so it is the field `current`. A frame is
its display and what that showed.

**PreviewConversion** has the interface's pass (`Draw`, `Submit`, `Take`) and the converter's thread
(`Store`, `End`). The refresh interval is one flag, `recent`; hiding the window moves the generation
on, so that the job under way is thrown away when it ends.

**DeviceHandoff** (with **InterfaceProofs**) is the record of slots between runtime and device worker, the worker's round
(take, run, look, publish, wait) and the exit. `Stuck` is a call into a driver that may return
late or never; the age of the snapshot, by which the runtime tells a hanging worker, counts to `Old`.

**FramePacing** (with **LoopProofs**) is the `FramePacer` and its three users. The clock moves by any gap, and the deadline
by whole intervals past what was missed, as the code computes it.

**FrameBuffers** (with **PicturesProofs**) has the capture's pool with its lock, the compositor's stages and
everyone who keeps a reference. `Referenced` is a reference count above one, computed from who holds what, so that a
buffer is free exactly when nobody in the state has it.

**FrameScaling** (with **PicturesProofs**) holds the walk of `aspect_fit_bgra_into` along an axis, the plan the
compositor works out by division, crop, borders and blending as operators. The state is one
walk and the weight of a blend; what is blended is quantified over in the property.

**PictureComparison** (with **PicturesProofs**) has the two ways a picture becomes the small gray one that is compared (`ResizeBgraToGray`,
and `BgraToGray` with `ResizeBilinear` by way of the file), the border and the sums of `image_similarity`. Scores between
no match and a perfect one are not computed. Its sums are recursive functions over a row of rows, as the code's two loops add them.

**ConfigStore** is the directory of user data. An operation is a program counter and a record of what it is for (`Operation`); each step is one file system call;
`Trouble` lets any fail, `Crash` ends the program between two. Each error path, the roll-back and its
own failure included, is the code's.

**SettingsSync** follows one choice of a webcam or display from click to file: interface, mailbox, device worker, snapshot and back.
What a snapshot shows that the interface did not ask for it takes over and saves, and how it tells the
two apart (`awaiting`) is the question.

**Notices** (with **InterfaceProofs**) runs from `WarningRegistry` of device worker and runtime over the numbered ring of alerts to
entries and toasts. Two variables are history: `told`, the warnings that got an entry while they were there and have not gone since (so a
warning that comes back is to be told again), and `standing`, those that got one and that every snapshot the interface looked at since
calls active.

**AppShell** (with **InterfaceProofs**) has the window, tray, three views, guide, modal dialogs, capture dialog and exit. Each event is
guarded by what is visible and enabled then. `Update` is one frame of the interface.

**ActivityLog** (with **InterfaceProofs**) has the two rings and the file. An entry is its origin and number; only the number of the first
one tells the reader that it missed some.

**PortableInstall** has installers and application processes with a program counter each, three
files, two mutexes and what a running process keeps from being removed. `Trouble` fails a call or kills an
installer; time-outs are free. `Bootstrap` is the look at the managed file, `LockToInstall` the lock, and everything may happen between the
two, since the code shows a dialog there and does not look again. `misled` is history: the installers that found
other files under the lock than they had looked for.

**Deployment** has the elevated processes and the files and registry entries they change, a client that has
the DLL loaded, and the next start of Windows. Elevated processes overlap as they like, for nothing keeps them apart, and a version may come back
while its file waits for removal. `doubt` is history: one of the two has happened, and no process has done its work alone
since. The virtual camera and the entry that starts the program with Windows are read by nothing here, so the steps that remove them
only succeed or fail.

**UpdateFlow** has the interface's status, the two channels of capacity 2, the worker's check and download step by step,
and the releases on GitHub, which change in between.

**ServerUnload** is the COM server's counts: class factory, activation, source, stream, reader thread. A destructor gives
up the count first and its fields afterwards, as in Rust, and `CanUnload` may be asked between the two.

### Harnesses

The modules **MCPictures**, **MCDevices**, **MCLoop**, **MCCamera**, **MCApplication** and **MCInterface** put components that share
no state into one run. The variable `part` says which component a behaviour is of; it never changes, and the variables
of the others keep their initial values. So the states are the sum of the components' states and not their product, a
property of one component is the component's own property on the behaviours that run it
(`part = "files" => ...`), and fairness is asked of that component alone. One component of a harness may be extended
rather than instantiated, with its properties used by name; which one has no meaning beyond that. The components
that do interact are composed inside one module (FramePipe: both ends; CameraSource over LatestFrame; ReferenceFlow,
SettingsSync, PortableInstall: several threads or processes).

A property of a harness gathers the statements of its components that are of one kind. `DevicesAreSafe`, `LoopIsSafe`,
`InstallIsSafe`, `UpdatesAndSettingsAreSafe`, `FilesAreKept`, `WebcamIsServed`, `RegistrationIsSound` and `UnloadIsSafe` are safety alone
and are all proved; `CapturesSettle`, `LoopGoesOn` and `ApplicationSettles` are liveness alone, and TLC's. Below each has its parts
in the comment before it.

## Runs

TLC on two workers, each run in less than two and a half minutes. Deadlock is checked in `source_selection`, `command_mailbox_burst` and
`webcam_recovery_request`; the others say that the system may stop, because nobody has to start
the application again (FramePipe), all generations or entries are used up (WebcamCapture, ActivityLog), the workers have
ended (MonitorScan, DeviceHandoff, AppShell), or a component with no clock has no event left. What
must happen all the same is stated as liveness.

| run | components | what it shows | bounds | states |
|---|---|---|---|---|
| `pictures` | FrameBuffers, FrameScaling, PictureComparison, ConfigStore | a picture that is held never changes (`HeldNeverChanges`); the scaler stays inside its pictures, and a reference matches what it was made of, also after a restart (`PicturesFit`); configuration, reference and profile survive failures and crashes (`FilesAreKept`) | pool of 2, 1 input, 1 consumer; sizes to 6 x 6; 2 colours, frames of 6 x 1, imports of 4 x 2 and 2 x 1, compared at 4 x 1; 2 configurations, 2 pictures, 1 failure, 1 crash, 1 damaged file, 2 captures, 2 snapshots | 3.7 M |
| `devices` | FramePipe, PipeShutdown, VirtualCamera, PreviewConversion, ScreenCapture, WebcamRecovery | stream framed, newest picture only, off when gone, catches up (`NeverRejects`, `ShownIsNewest`, `LatestOnly`); a stopped reader ends, a started one connects (with the last two: `FollowsPublisher`); a live camera is known to run, a hidden preview keeps nothing, only the selected display is shown, three tries, a final failure waits, the transport keeps its types (`DevicesAreSafe`); a failed camera is shown (`HostTellsFailure`), previews keep up (`PreviewKeepsUp`), the screen returns and a recovery ends (`CapturesSettle`) | 2 application runs, 3 publications each, 1 held buffer, 3 chunks; 1 reader after the first; 4 restarts, 5 failures; 2 frames, 2 profiles, 3 changes; 2 displays, one HDR, 1 failure, 1 click; 3 attempts (the code's), every set of faults, 1 stall | 268 k |
| `loop` | FramePacing, CommandMailbox, ReferenceFlow | deadlines accounted for, rate kept (`DeadlinesAccounted`, `Paced`); restart set and queue agree, last command wins, nothing saved twice, memory follows the file (`LoopIsSafe`); restarts begin, output goes on, saves end (`LoopGoesOn`) | interval 5, tolerance 1, gaps to 13, time to 26; 2 modes, 2 targets, queue of 2, burst 1, 1 profile load; 2 frames, 1 import, queue of 2, 3 clicks, any job may fail | 454 k |
| `source_selection` | SourceSelection | off when stopped, only usable sources on air, debounce, layouts, forced camera and still picture | 2 pictures, one of them nearly black; 2 samples, fades and delay of 2 units | 177 k |
| `camera` | SourceLifecycle, CameraSource, ServerUnload, Deployment, WebcamCapture, WebcamFormats | shutdown is final; serial calls keep their promises; samples show their frame or that of the other run with its number; no unload under a thread; what processes registered that were elevated alone is on disk; a webcam session has a request outstanding and reports failures, and uses the best format it was given | 2 threads, 2 types, 1 refused event, 1 failed allocator; 2 runs, 2 frames each; 2 activations, 2 sources, 1 factory, 1 lock; 2 versions, 2 processes, 1 failure; 5 generations, threshold 3; 8 formats, 2 of them listed, words of 10 bits, 1 change of type | 3.3 M |
| `monitor_scan` | MonitorScan | tracker and selection agree, two current wins, off means off, the best is found | 2 displays, 2 levels, 3 settings, 2 changes | 1.2 M |
| `application` | PortableInstall, UpdateFlow, SettingsSync | one installation at a time, a user's program is kept and a failed replacement leaves one, but for outdated looks and second failures (`InstallIsSafe`); only what was verified is launched, a change is saved or its failure told (`UpdatesAndSettingsAreSafe`); installers end, nothing busy for good, configuration and devices agree in the end (`ApplicationSettles`) | 2 installers, 2 application processes, 2 failures; 1 version, 2 executables, 1 change, 1 restart; 2 webcams, 2 displays, 2 choices, 1 mishap, queue of 2 | 751 k |
| `interface` | AppShell, Notices, DeviceHandoff, ActivityLog | exits happen; lasting warnings are told each time they come up; commands handed over happen, hanging is shown; the log marks its gaps and ends complete | queue of 1, 3 events; 1 message, limits 1, 2 changes of the device worker and 1 of the runtime, 1 click; 1 setting, 1 restart, 1 stall; ring of 2, 4 entries, 1 other, 1 clear | 104 k |
| `command_mailbox_burst`, `webcam_recovery_request`, `monitor_scan_exit`, `screen_capture_returns` | | a document's or comment's statement does not hold | | |

Why the bounds are enough. Two application runs are the fewest in which sequence numbers repeat;
three publications allow one to be skipped between two that are sent, and a pipe of three chunks
holds a message and a half, so that either process can stop in the middle of one. Two samples for
each debounce rule let a reset fall between them, and a fade of two units can be turned in the
middle. A mailbox of two is full with one of each restart, and a burst of one is shorter than what
queue and slots hold. The job channel has its real capacity. Two webcam sessions are the fewest in
which one can disturb the other. In MonitorScan two changes can fall on both sides of a first
win; levels are 0 (never accepted) and 1. A pool of two with one input shows every case of the
buffers: free, in use, and none left. Sizes to six contain enlargement, reduction, crops and borders of odd and even
width, and results rounded up to one. The formats contain one that differs from another in the rate alone, twice (29 and 29.97), one of another shape,
and three whose rows or samples do not fit a word; strides are padded, negative and too short. Frames compared are made smaller
and imported pictures larger, by factors that are not whole. Gaps of pacing cover early, in time, within the tolerance
and more than two intervals late. One failure and one crash are what the code's roll-backs are written for; the second
configuration and snapshot are there to be confused with the first. Two installers and two processes are the
fewest that can stand in one another's way, and two failures the fewest with which a replacement and its own roll-back fail. Two changes of a
warning are one that goes and comes back; a second message adds no case (the run holds with two as well, and takes three times as long). The rings are shorter than what is recorded, so that they overflow.

Conditions inside properties are hypotheses, not bounds, and each has a reason: `LastWins`
supposes no profile load, `ThreeTries` no stall and no fault other than a late frame,
`FinalFailureWaits` no stall and no late failure, `FailureIsReported` the first session, the `Serial...`
properties calls one after the other, `InFlightEnds` that the reference worker is alive (it ends when its result channel
is full), `ProgramSurvives` a user who has the program, it and `FailureLeavesProgram` an installer that was not misled, the latter also
that no second call failed, `RegisteredIsOnDisk` and `FailedRegistrationRestores` that no elevated process is in `doubt`,
`SampleShowsItsFrame` excepts a frame with the same number from another run, and `WarningIsTold` a warning that no
snapshot did without. `DigestAgrees` and the others
[below](#where-code-and-documents-part) are in no run. Each is what remains of a stronger statement that fails.

### Fairness

| specification | fairness | why the code justifies it |
|---|---|---|
| FramePipe | weak, for server thread, reader thread and the join of `drop` | both loops block only in calls that return when the modelled condition holds; reader retries its open with a pause; publishing, crashing, requests and expiry owe nothing |
| PipeShutdown | weak, for both threads, publication, and what follows a drop or stop that began | the runtime publishes thirty times a second as long as there is a publisher; the exit ends the process when its time is up; nobody has to begin a drop or a stop |
| VirtualCamera | weak, for the owner's loop and for callbacks once begun | a callback does not block; Windows owes no call |
| PreviewConversion | weak, for the interface's pass, the converter's thread and the interval | repaints are requested while the window is visible; the thread waits on a condition that each submission notifies |
| ScreenCapture | weak, for the worker's cycle, a session's events under way and a first frame; strong for the half minute | the half minute passes again and again while other events come between |
| WebcamRecovery | weak, for the owner's loop, and each timer comes | neither device nor user owes anything: `UserIsDone` is a hypothesis |
| CommandMailbox | weak, for the runtime thread | it waits with a timeout; the interface owes nothing |
| ReferenceFlow | weak, for each look of the dialog, each loop and worker | the dialog is polled by a timer, the others are loops; the user's clicks and time-outs owe nothing |
| SourceSelection | weak, for `Step` | the loop returns to the output cycle at each deadline (that it does is `OutputGoesOn`) |
| MonitorScan | weak for the scan worker, strong for `AutomaticScan` and `Refresh` | these two take the slot's lock, which the worker holds for an instant again and again. That scans see the displays (`ScansWork`) is a hypothesis |
| PortableInstall | weak, for each installer under way | all its waits have time-outs; nothing is asked of the processes of the application |
| UpdateFlow | weak, for worker and poll | each transfer has a time-out; the user owes nothing |
| SettingsSync | weak, for the interface's logic and delayed save, the mailbox, the worker's publication, execution and report | each is a pass of a loop |
| AppShell | weak, for the interface's frames, its fades and timers, and the runtime | the window is repainted while it waits for something; user and tray owe nothing |
| Notices | weak, for report, cycle and ingestion | each is a pass of a loop |
| DeviceHandoff | weak, for both loops, wake-up, time, join or detach | the return of a driver is not assumed |
| ActivityLog | weak, for the three loops | writing may fail, which `Clears` bounds |

FrameBuffers, FrameScaling, FramePacing, PictureComparison, ConfigStore, Deployment, ServerUnload, CameraSource,
SourceLifecycle, WebcamCapture and WebcamFormats state safety only: their steps are calls that owe nothing, or (FramePacing) liveness
would be that of a clock.

## Theorems

Proved by TLAPS for every value of the constants, under the named assumptions of the modules (bounds are natural
numbers, special values differ from real ones). Where an assumption says more than that, it is named below. There
is one module of proofs for each run that has theorems, because a harness is where all of its components' variables
are: the component a harness EXTENDS is proved about by its own names, the others through their instance
(`Host!Next`, `Files!Spec`). Each component has an inductive invariant of its own; at the end
of the module lemmas such as `LoopRunsMailbox` show that a behaviour of the harness is one of each component (it takes its steps or
stutters), and the theorem about the property of the run follows from the components' theorems without another
induction. TLC has checked every one of these invariants on the instance of its run before it was proved, except that of the
activity log, which speaks of a history no variable holds.

**DevicesProofs** (run `devices`)

- Transport: `ReaderNeverRejects`, `ShownFrameIsNewest` and `ImplementsLatestFrame`. None of the
  statements is inductive: that a header decodes depends on everything that was written before. The
  invariant `IInv` (module FramePipeInv) says what lies in the pipe: `Framed`, every chunk follows the one before it (a header of
  a frame opens exactly one payload, of the same message, and sequence numbers grow); `ReaderSide`, the
  first chunk is what the reader waits for; `ServerSide`, the last one is where the server is;
  `CacheBehind`, the cache is strictly behind the message being read; `Sending`, what is being sent
  is newer than what was sent, and was published; and `Ends`, who holds which end. One lemma per conjunct shows that each action
  preserves it, on lemmas about `Append` and `Tail` of framed streams. The refinement maps the reader's
  and cache's steps to `Take`, `Blank` and `Connect`, the others to `Publish` or a stutter.
- VirtualCamera, `HostInvariance`: that a live camera is known to run (`LiveIsRunning`) rests on what the callbacks
  still under way may be of. `CallsAreOfThePast`: as long as the camera has not failed every callback is of an earlier generation,
  unless it passed the comparison before the restart, which `late` remembers. `GenerationsSuffice` shows that two generations
  for each restart are enough, so that the bound of the model never stops a restart.
- PreviewConversion, `PreviewInvariance`: `HiddenIsIdle`, a hidden window leaves at most a job of an earlier generation
  (`JobsAreDated`), so that its end stores nothing.
- ScreenCapture, `ScreenInvariance`: `CaptureIsOfSelected`, the session, what it left and what is shown are all of the selected
  display, except while the worker waits for the end of a session, when no session is current; `SeenIsOfSelected`, so is the frame
  that was read and not judged yet.
- WebcamRecovery, `RecoveryInvariance`: `ThreeTries` needs that the tries counted by the history variable are the attempts of
  the round (`TriesAreAttempts`), and that after a round that was given up neither frame, failure nor deadline is left that could begin
  another; it holds while nothing worse than a late frame happens, as the property says. `FinalFailureWaits` needs `FinalIsFinal`: a
  failure that no retry can help has ended its session (`FinalEndsSession`) and left no attempt pending.
- PipeShutdown: its types (`ThreadsTypeCorrect`); what else is stated of it is liveness.
- `TransportStaysSafe` and `DevicesStaySafe` state the run's safety of the composition.

**SourceSelectionProofs** (run `source_selection`). `StoppedStaysOff`, `OnAirStaysReady`, `LayoutIsSteady` from
`SelectionInv`. The last needs `LayoutWaits`: a layout other than the one in the settings is drawn
only while no picture is waited for, or while an old inset fades out and the time already waited plus what is
left of that fade is at most `Fade`. So the old inset has gone before the next may appear, but
only because the delay is at least as long as the fade: that is what `SelectionAssumption` says, and the code guarantees it
(500 ms against 30 to 300 s, `crates/core/src/config.rs:214`). `SwitchStaysDebounced`: the counters of the detector are how many samples at
the end of the history agree (`HistoryAgrees`), so a switch has the samples it needs, all since the last reset.

**CameraProofs** (run `camera`)

- SourceLifecycle: `StreamShutdownIsFinal` for any number of threads and types: only
  `Run`, `SetMode`, `Restore` and `StopStream` write the mode, and each looks at the shutdown in
  the same section. `SerialCallsAlwaysKeepPromises`: for a client that makes one call after the other, shutdown
  is complete, a stream is introduced once, a running stream has an allocator of its type, and a failed Start changes no mode. Its invariant `SerialInv` says
  of the section the one call under way is in what it has done so far (`Shut`, `Restorable`, `Introduced`, `Stocked`).
- ServerUnload: `LibraryUnloadsSafely`. `CountIsRight` equates the count of objects with the cardinality of what is counted;
  `RunningIsCounted` says that a thread only runs in a source that is counted, or in one whose failed activation is still inside a call.
- CameraSource: `SamplesShowTheirFrame`, without a condition on the number of runs: the frame of a sample is the one its request read, or
  another run's with the same number. That exception is what the code does (see below), because the kept conversion is found by its number.
- WebcamCapture: `WebcamInvariance`. `Served` says for each place the owner may be in who asks for the next sample; generations to come are
  unused (`FutureIsUnused`); `FirstReports` and `FirstIsAlone` carry `FailureIsReported`, which is about the first session.
- WebcamFormats: `BestFormatIsTaken`. `NoneIsBetter` needs the order of the code to be transitive on what was refused and taken; rows inside
  the buffer follow from `LayoutHasRoom` by multiplication, for words of any size. Rates are fractions and are compared
  over `Scale`, any common multiple of their denominators.
- Deployment: `RegistrationStaysSound`: what is registered is on disk, a failed registration brings the prior one back, for any
  versions, processes and troubles, however the elevated processes overlap and whatever comes back, as long as `doubt` is "none". The
  invariant says what is known then: at most one process is elevated (`OneElevated`), and what is registered stays at the next start of Windows
  (`RegisteredStays`). `Works` says for each step of the process that mends a doubt which file must be whole, and `Returns` for one without doubt
  what it may still go back to.
- `WebcamAlwaysServed` and the other theorems about `CamSpec` state the same of the composition.

**MonitorScanProofs** (run `monitor_scan`). `TrackerAgreement`; `WinsStayCurrent`, the inductive invariant
`WinsAreCurrent` (each request and result under way, and a pending first win, is of the current
generation and then of the current reference and settings, or obsolete); from it
`SwitchesAreWonTwice` and `OffIsOff`, both action properties, for any displays, levels and settings.

**PicturesProofs** (run `pictures`)

- FrameBuffers: `HeldPicturesStay`, for any number of inputs, buffers, pictures and consumers. A step can only change
  a picture by filling a buffer, and a callback acquires its buffer in one step and fills it in a later one, with no lock between. So the inductive
  invariant adds `WritingIsFree`: a buffer a callback writes is referred to by nobody, which no other step changes, because
  a reference can only be copied from one that exists. That a buffer is found when one is free rests on the least element of a set of
  numbers (well-foundedness of `<`).
- ConfigStore: `FilesStayKept` from `StoreInvariance`. `RestoreGoesOn` and `RestoreIsSound` say at each place of a restore which files are new and which
  old, `ProfileGoesOn` and `PicturesAreNamed` which pictures the profile may name, and `BackupIsKept` when the backup is complete. That a
  load finds a configuration is stated for one damage: the first save after it makes the damaged file the backup, so that with
  `Spoilings = 2` and without that condition TLC finds both damaged.
- FrameScaling: `WalkFollowsPlan`, the walk by whole steps and remainders is the division of the plan, at every
  pixel, for any two sizes; `PixelsStayInside`, a fitted picture lies inside the output, a crop inside the source, both
  with a pixel at least; `BlendsLieBetween`, a blend lies between what it blends and is exact at both ends. The provers do not know
  division: the proofs state once what `\div` and `%` bound (`DivMod`, `Quotient`, `DivBelow`) and use nothing else of it.
- PictureComparison, for any colours, sizes and borders: `MatchInv`, a reference in use is the gray picture of its file, and what came out of a
  comparison is that of the frame and the reference. The two ways to a gray picture are one (`FromRgbaIs`): the levels between which a pixel
  lies are the same whether they are computed before or after the choice of the four (`ThumbnailIs`), and red and blue are exchanged
  twice (`SwappedTwice`). A comparison is perfect exactly for pictures that are equal between the borders (`ComparedIs`): a sum of
  differences is none only if each is (`TotalsVanish`), and where each is none the sums of squares are twice the products
  (`TotalsScale`). What a sum is for every length follows from the least length at which it would be something else (`LeastNumber`), in place of an
  induction. A picture made smaller is not moved (`ThumbnailsMirror`): the place of a mirrored pixel is the mirrored place (`PlacesMirror`), in
  the row and then in the column.
- `PicturesAlwaysFit` is both in the composition.

**LoopProofs** (run `loop`)

- FramePacing: `NothingForgotten`, the deadline is the start plus a whole interval for each frame let through and each
  deadline missed, so nothing drifts; `SteadyRate`, three frames never pass within an interval less the tolerance, and a frame is
  passed over only when another passed less than an interval before. For any interval, tolerance and gaps; the invariant
  relates the deadline to the last two frames.
- CommandMailbox: `MailboxInvariance`, for any modes, targets, capacity and burst. `Once`: a restart is pending exactly when
  its command is in one of the places it passes through, and in one only. `LastIsWish`: the mode the interface shows is the one that the
  runtime will be in once the slots, then the command it holds, have been run.
- ReferenceFlow: `ReferenceInvariance`. `InOrder`: results, the job executed and the jobs that wait are one ascending sequence of generations;
  `NewestIsOnDisk`: a result of the newest job that installs a picture is what the file holds; `FramesRise` and `SavesRise`: candidates never
  give way to an older frame, so saves of one candidate are one save. From these `CandidatesSavedOnce` and `InstalledIsOnDisk`. The
  poll applies all results in one step; it is a recursive function (`Polled`), and what it does after n results follows from
  the least number at which it would not (`LeastNumber`), in place of an induction.
- `LoopStaysSafe` is the composition.

**ApplicationProofs** (run `application`)

- PortableInstall: `OneInstallation`, without any condition: one installation or removal at a time, one instance, and no file of mixed
  content. `ProgramStays`, for any number of installers, processes, failing calls and deaths: a user who has the program keeps it, unless an
  installer was misled; a replacement that fails leaves an executable, unless its installer was misled or a second call failed. The exceptions are
  the two ways in which the program is lost: an installer acts on a look that is outdated (below), or a replacement and its own
  roll-back both fail. Its invariant `ProgramInv` says for each place of an installer that was not misled which of
  the files hold an executable (`Fits`), and how many calls must have failed where none is in place.
- UpdateFlow: `OnlyVerifiedUpdates`, for any versions, contents and changes of the releases meanwhile: every answer in the queues
  names a file whose content was verified for this request.
- SettingsSync: `ChangesAreSavedOrTold`, for any devices, capacity, choices and mishaps.
- `InstallationStaysSafe` and `UpdatesAndSettingsStaySafe` are the composition.

**InterfaceProofs** (run `interface`). The properties of this run mix safety and liveness; the theorems state their safety. All follow from
one invariant of the composition, `InterfaceInvariance`, which joins those of the components:

- AppShell, `DecidedExitStays`: a decided exit is never taken back, and its close request waits until the program ends. That is the safety
  half of `ExitHappens`.
- Notices, `ToastsAlwaysHaveEntries`. `CenterInv` says more than the property: the toasts are the newest entries, place by place, and
  numbers fall from the newest on. So an entry that is dropped at the old end takes no toast's entry away, because
  `NoticesAssumption` has no more toasts than entries, as the code's limits do. What `Ingest` pushes is a choice of places of
  a list; how long it is needs that each rank has an element (`Ranks`), again by a least number.
- DeviceHandoff, `NothingHandedOverIsLost`: at every moment a restart that is owed is in the slots or with the worker
  (`OwedIsOnItsWay`), and the settings sent last are in the slot, taken, or in force (`LatestSettings`). That is the safety under
  `CommandsHappen`, and with it goes the safety half of `ExitIsClean`.
- ActivityLog, `LossIsAlwaysLogged`. The invariant `EngineInv` supposes a history of all the runtime ever recorded, of which its ring and
  the interface's view show ends (`Ring`). What matters is not the log but what it will tell when all that is on its way has been written
  (`Told`): the log, what the interface has still to write, what the runtime has more, and the worker's next entry. Each step puts a part
  in that tells nothing, joins two readings, or turns the front of one into a gap (`TellsSpliced`, `PendJoins`, `PendGrows`). The same is
  kept for an empty log, for the time after it is cleared.

What the proofs turned up in the models, and is corrected there: two definitions that chose among overlapping conditions with CASE, whose value
the semantics leaves open though TLC takes the first (`Apply` of ReferenceFlow, `Available` of SourceSelection); special values that nothing kept
apart from real ones (`NamesAssumption` of PortableInstall, `MailboxAssumption`, `ContentAssumption`); a configuration that is said to survive any number
of damages; and bounds that had to be assumed numbers.

Only model-checked, and why:

- All liveness: fairness and ENABLED are out of the prover's reach. That is `FollowsPublisher`, `HostTellsFailure`, `PreviewKeepsUp`,
  `CapturesSettle`, `LoopGoesOn`, `ApplicationSettles`, `PictureFollows`, `BestIsTracked` and, in the run
  `interface`, all but what InterfaceProofs proves.

## Where code and documents part

Four runs refute a statement of the documents or comments; `findings` in `PROJECT.json` has the details.

- `command_mailbox_burst`: "at most eight ordered commands per output cycle"
  (`docs/ARCHITECTURE.md:45`); the loop counts per turn (RT 2143), and a turn that ends
  early brings no cycle. The output is not starved all the same (`OutputGoesOn`).
- `webcam_recovery_request`: "retries the same webcam three times"
  (`docs/REQUIREMENTS_TRACEABILITY.md:22`); when the third start fails with its first request the
  error is also reported, and begins a new round (RT 3072, 3224).
- `monitor_scan_exit`: a worker left behind at exit is "stuck in an OS driver, filesystem, or decoder
  call" (RT 58); a lost wakeup leaves an idle one behind (RT 2317), and the video device worker
  has the same code (RT 2395).
- `screen_capture_returns`: "Recovery retains the stored display identity"
  (`docs/ARCHITECTURE.md:67`); a first start that fails drops the selection with the error (RT 2654), and the supervision, which
  restarts only what is selected (RT 3427), never brings the stored display back.

Further behaviours that stronger properties turned up. The properties named here stay in their modules, or are a stated
one without its hypothesis; no run lists them because they do not hold.

- `CameraSource.SampleShowsItsFrame` without its exception: the conversion is looked up by sequence number and type
  (`media_stream.rs:306`) and is not cleared by a reconnect, so the picture of the earlier run is served when the same number
  comes again between two requests.
- `PipeShutdown.DropWakes`: flag and notification of `FramePublisher::drop` come without the lock (`pipe.rs:244`), so that the
  server thread may fall asleep after them; nothing is published any more, the join does not return, and the exit of the
  application leaves the device worker behind when its time is up. A cancellation that comes before the call it is meant for
  has the same effect when no reader comes. On the reader's side the same gap closes with the next message (`StopEnds`).
- A picture that is made larger is moved at its left and upper edge: the place of the first pixel lies before the source, its
  whole part is set to zero and its fraction is kept (`image.rs:134-138`), so that the second pixel weighs more than the first. In
  PictureComparison `StaysInPlace` is about reductions, and frames of the screen are never made larger.
- `persist_frame_atomic` (RT 1681) copies rows without looking at the stride; that is right as long as the frames of the screen
  have no padding, as in PictureComparison.
- `SourceLifecycle.ShutdownOnce`: a Start or Stop under way overwrites the life cycle after another
  thread's Shutdown (`media_source.rs:333`); the next Shutdown runs again.
- `SourceLifecycle.AllocatorReleased`: `initialize_sample_allocator` reads the shutdown flag in
  one section and stores the allocator in another (`media_stream.rs:254`), after the shutdown released it.
- `ReferenceFlow.QuietAgrees`: a load that ends between capture and confirmation discards the candidate
  on the device; the save that follows succeeds, but is taken for that of a replaced candidate
  (RT 2019). File and memory differ until the next start.
- `ReferenceFlow.CaptureArrives`: discard and capture that wait together for the device worker run as capture, then
  discard (RT 3645); the dialog waits for its time-out.
- ReferenceFlow: the reference worker ends when its result channel is full; saves after that never end
  (`InFlightEnds` excepts it).
- `WebcamCapture.LatestIsCurrent`: a callback that passed the second check stores its frame after the stop
  (`video_input.rs:916`), and the frame is taken for one of the new session.
- WebcamRecovery without "no stall": a first frame that is old when it is looked at keeps the attempt's
  deadline alive (RT 3242), which begins a fourth attempt.
- CommandMailbox: without its hypothesis `LastWins` fails: a loaded profile (`ReloadSettings`) sent after a mode is run
  before it (`runtime_mailbox.rs:40`), and the runtime ends in the mode the profile replaced.
- `SettingsSync.LastChoiceHolds`: a choice taken back before its effect shows is taken for confirmed, and the
  effect, when it shows, for an automatic one (APP 5955-5966), although the program "does not silently choose a replacement".
- `UpdateFlow.StableIgnoresPrereleases`: the change of the channel resets the status and asks again (APP 4610), but the answer of a check under way still
  arrives and offers a prerelease until the next answer. `UpdateFlow.DigestAgrees`: a file from an earlier download is compared with the
  checksum fetched now and not with the digest of the release; only a new download is compared with both.
- `Notices.ActiveIsCurrent`: `merge_device_warnings` publishes the list when a warning is new, not when one is
  gone, so that a cleared device warning stays in the snapshot until another one comes (RT 1005-1013). The center
  (`notifications.rs:87`) then takes the same warning, when it comes back, for one it has told: its entry is missing, although
  the test at `notifications.rs:340` has alerts deduplicated until they are cleared. This is the exception `standing` of `WarningIsTold`.
- `AppShell.KeysMatchVisibleActions`: the guide takes its keys whatever dialog is open above it (APP 2612, 6349), so that Escape ends the guide under
  a dialog that stays; a test's name says the keys match the visible actions (APP 11459).
- `PortableInstall.PreviousKeptUntilReady`: `wait_until_ready` asks whichever instance answers, so the previous executable may go
  before the new one is ready. Without their exception for misled installers `ProgramSurvives` and `FailureLeavesProgram` fail: what there is to
  replace was looked at before the dialog (`portable_install.rs:92`) and is not looked at again under the lock (`:186`), and an installer that
  finds no managed file drops the previous one that a replacement cut short has left (`:199`).
- `Deployment.RegisteredIsOnDisk` without its exception: elevated processes take no lock, and a cleanup removes the DLL another one is about to
  register (`deployment.rs:482`); a DLL that waits for removal at the next start is found whole, registered again, and then removed
  (`deployment.rs:506`).

Some known behaviours are visible in ReferenceFlow and stated by no property: the dialog may
show a candidate older than the one that is saved (APP 3252), and takes any new
reference, an import's too, for its own success (APP 3275).

## Not modelled

Pixel values apart from comparison, scaling and blending, scores that are neither none nor perfect, the conversion to NV12
(data; the models hold for any outcome); the attributes of the COM classes; enumeration of devices and displays, one pass over
what Windows returns; drawing, wording, layout and effects; translations; retention of old logs and the diagnostics export; the
build and release tools. An encoding error of a frame (`pipe.rs:172`) has no step because the
compositor never produces a size that is refused. Transfers, file copies and requests over the control pipe succeed, fail or
break off as a whole. Floating-point numbers of FrameScaling and PictureComparison are exact.

## Plan

Done, in order of importance: transport and its abstract register; source selection; mailbox; life
cycle of the source; reference pictures; webcam capture and recovery; monitor scans; then installation and deployment,
updates, configuration and settings, interface, notices and log, previews, screen and virtual camera, device hand-over and exit,
buffers, scaling, pacing, and the server's unloading; the end of the pipe's threads, the webcam's formats, the comparison.

What is left:

1. An abstract atomic directory for ConfigStore and PortableInstall and a refinement to it, in place of the
   invariants that now say what survives; an abstract command queue for DeviceHandoff.
2. ConfigStore composed with the reference worker, which writes `reference.png` while a profile is loaded (both orders are in the
   models, one in each), and PortableInstall with UpdateFlow's launch.
3. Theorems: the refinements of point 1, and the safety of a composition of mailbox, handoff and webcam, in which a restart
   that the interface asked for is followed to the device.
