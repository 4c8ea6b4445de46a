----------------------------- MODULE CameraSource -----------------------------
(***************************************************************************)
(* How the camera's stream turns the cached frame into samples, over the   *)
(* register LatestFrame that the transport implements (FramePipe): its     *)
(* view is what SharedFrameCache::latest returns.  RGB32 samples are       *)
(* copied; for NV12 the stream keeps one conversion, which it looks up by  *)
(* the sequence number alone (make_output_sample and nv12_frame).          *)
(*                                                                         *)
(* Left out: the life cycle and the allocator (SourceLifecycle).           *)
(***************************************************************************)
EXTENDS LatestFrame

CONSTANT Requesters      \* threads of the Frame Server that request samples

VARIABLES
  subtype,     \* the selected media type
  setting,     \* progress of set_media_type
  converted,   \* the frame whose NV12 conversion is kept, or Off
  at,          \* progress of each requester's make_output_sample
  picture,     \* the live frame it read
  format,      \* the type it read
  sample       \* the last sample: the frame it is of and the pixels in it

cameraVars == <<subtype, setting, converted, at, picture, format, sample>>
allVars == <<vars, cameraVars>>

Subtypes == {"RGB32", "NV12"}
Frames == [run : 0..MaxRun, seq : 0..MaxSequence]

CameraInit ==
  /\ Init
  /\ subtype = "RGB32" /\ setting = "idle" /\ converted = Off
  /\ at = [c \in Requesters |-> "idle"]
  /\ picture = [c \in Requesters |-> Off]
  /\ format = [c \in Requesters |-> "RGB32"]
  /\ sample = [frame |-> Off, pixels |-> Off]

\* set_media_type: the descriptor's type first, then the kept conversion.
SetType ==
  /\ setting = "idle"
  /\ subtype' \in Subtypes
  /\ setting' = "clear"
  /\ UNCHANGED <<vars, converted, at, picture, format, sample>>

ClearConverted ==
  /\ setting = "clear"
  /\ converted' = Off
  /\ setting' = "idle"
  /\ UNCHANGED <<vars, subtype, at, picture, format, sample>>

ReadFrame(c) ==
  /\ at[c] = "idle"
  /\ picture' = [picture EXCEPT ![c] = view]
  /\ at' = [at EXCEPT ![c] = "type"]
  /\ UNCHANGED <<vars, subtype, setting, converted, format, sample>>

ReadType(c) ==
  /\ at[c] = "type"
  /\ format' = [format EXCEPT ![c] = subtype]
  /\ at' = [at EXCEPT ![c] = "convert"]
  /\ UNCHANGED <<vars, subtype, setting, converted, picture, sample>>

\* Mistaken variant of the lookup: any conversion that is kept will do.
BugAnyConversion(c) == converted # Off

\* The kept conversion is used for a frame of the same sequence number.
Kept(c) == converted.seq = picture[c].seq

\* nv12_frame, under the cache's lock, or the clearing of the conversion when
\* there is no live frame; then the copy into the sample.
Convert(c) ==
  /\ at[c] = "convert"
  /\ \/ /\ picture[c] = Off
        /\ converted' = Off
        /\ sample' = [frame |-> Off, pixels |-> Off]
     \/ /\ picture[c] # Off /\ format[c] = "RGB32"
        /\ sample' = [frame |-> picture[c], pixels |-> picture[c]]
        /\ UNCHANGED converted
     \/ /\ picture[c] # Off /\ format[c] = "NV12"
        /\ converted' = IF Kept(c) THEN converted ELSE picture[c]
        /\ sample' = [frame |-> picture[c], pixels |-> converted']
  /\ at' = [at EXCEPT ![c] = "idle"]
  /\ picture' = [picture EXCEPT ![c] = Off]
  /\ format' = [format EXCEPT ![c] = "RGB32"]
  /\ UNCHANGED <<vars, subtype, setting>>

Transport == Next /\ UNCHANGED cameraVars

CameraNext ==
  \/ Transport
  \/ SetType \/ ClearConverted
  \/ \E c \in Requesters : ReadFrame(c) \/ ReadType(c) \/ Convert(c)

CameraSpec == CameraInit /\ [][CameraNext]_allVars

-----------------------------------------------------------------------------
\* Every variable keeps its shape.
CameraTypeOK ==
  /\ view \in Frames /\ subtype \in Subtypes /\ setting \in {"idle", "clear"}
  /\ converted \in Frames
  /\ at \in [Requesters -> {"idle", "type", "convert"}]
  /\ picture \in [Requesters -> Frames] /\ format \in [Requesters -> Subtypes]
  /\ sample \in [frame : Frames, pixels : Frames]

\* The pixels of a sample are those of the live frame the request read, although
\* the conversion may be another requester's and older than a change of type or
\* a reconnect.  Excepted is a number that a new run of the application gives
\* again: then they may be of the frame the other run gave it to (nv12_frame).
SampleShowsItsFrame ==
  \/ sample.pixels = sample.frame
  \/ /\ Off \notin {sample.pixels, sample.frame}
     /\ sample.pixels.run # sample.frame.run
     /\ sample.pixels.seq = sample.frame.seq

=============================================================================
