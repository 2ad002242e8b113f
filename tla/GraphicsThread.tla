--------------------------- MODULE GraphicsThread ---------------------------
(***************************************************************************)
(* The graphics thread of libobs (libobs/obs-video.c).                     *)
(*                                                                         *)
(* Every round renders one scene and works on the scenes of the rounds     *)
(* before: scale, convert (with gpu_conversion), copy to a staging surface *)
(* and download, each stage one round later and always between the two     *)
(* textures of the previous and the current round.  The pictures carry no  *)
(* timestamp: video_sleep pushes one into vframe_info_buffer each round    *)
(* and a downloaded picture takes whatever is at the front.                *)
(*                                                                         *)
(* A texture is the number of the scene drawn into it; Nothing stands for  *)
(* a texture whose textures_rendered, _output, _converted or _copied flag  *)
(* is not set.                                                             *)
(***************************************************************************)
EXTENDS Integers, Sequences

CONSTANTS
  MaxCount,     \* bound: most ticks video_sleep lets one round last
  MaxRounds,    \* bound: rounds of the loop after each (re)start
  MaxFailures,  \* bound: gs_stagesurface_map failures
  MaxResets     \* bound: obs_reset_video calls

ASSUME BoundAssumption ==
  /\ MaxCount \in Nat \ {0} /\ MaxRounds \in Nat
  /\ MaxFailures \in Nat /\ MaxResets \in Nat

NUM_TEXTURES == 2
Textures == 0 .. NUM_TEXTURES - 1
Nothing  == 0

VARIABLES
  renderTextures,   \* [Textures -> scene or Nothing], and so on down the line
  outputTextures,
  convertTextures,
  copySurfaces,
  mappedSurface,    \* a texture number, or -1
  curTexture,
  gpuConversion,    \* whether the convert stage runs
  vframeInfo,       \* vframe_info_buffer: a queue of [timestamp, count]
  videoTime,        \* in ticks
  pc,               \* top render scale convert stage download output advance sleep exit
  stopped,          \* video_output_stopped
  frame,            \* the frame given to output_video_data last, [scene, timestamp, count]
  round,            \* the scene being rendered, from 1 after each start
  startOf,          \* history: startOf[n] is the video time of scene n
  failures,         \* history: map failures since the start
  resets            \* history: resets so far

textures == <<renderTextures, outputTextures, convertTextures, copySurfaces>>
hist     == <<round, startOf, failures, resets>>
vars     == <<textures, mappedSurface, curTexture, gpuConversion, vframeInfo,
              videoTime, pc, stopped, frame, hist>>

NoFrame == [scene |-> Nothing, timestamp |-> 0, count |-> 0]
Blank   == [t \in Textures |-> Nothing]

Init ==
  /\ renderTextures = Blank /\ outputTextures = Blank
  /\ convertTextures = Blank /\ copySurfaces = Blank
  /\ mappedSurface = -1
  /\ curTexture = 0
  /\ gpuConversion \in BOOLEAN
  /\ vframeInfo = <<>>
  /\ videoTime = 0
  /\ pc = "top" /\ stopped = FALSE
  /\ frame = NoFrame
  /\ round = 0 /\ startOf = <<>> /\ failures = 0 /\ resets = 0

-----------------------------------------------------------------------------
\* The loop of obs_graphics_thread; tick_sources moves the scene to video_time.
StartRound ==
  /\ pc = "top" /\ ~stopped
  /\ round < MaxRounds
  /\ round' = round + 1
  /\ startOf' = Append(startOf, videoTime)
  /\ pc' = "render"
  /\ UNCHANGED <<textures, mappedSurface, curTexture, gpuConversion,
                 vframeInfo, videoTime, stopped, frame, failures, resets>>

LeaveLoop ==
  /\ pc = "top" /\ stopped
  /\ pc' = "exit"
  /\ UNCHANGED <<textures, mappedSurface, curTexture, gpuConversion,
                 vframeInfo, videoTime, stopped, frame, hist>>

\* Mutant: the stages read what the round itself has drawn.
ThisTexture == curTexture

\* prev_texture of output_frame.
PrevTexture == IF curTexture = 0 THEN NUM_TEXTURES - 1 ELSE curTexture - 1

\* A stage reads the previous texture of one row and draws into the current
\* texture of the next row, if there is something to read.
Draw(target, source) ==
  IF source[PrevTexture] = Nothing THEN target
  ELSE [target EXCEPT ![curTexture] = source[PrevTexture]]

RenderMainTexture ==
  /\ pc = "render"
  /\ renderTextures' = [renderTextures EXCEPT ![curTexture] = round]
  /\ pc' = "scale"
  /\ UNCHANGED <<outputTextures, convertTextures, copySurfaces, mappedSurface,
                 curTexture, gpuConversion, vframeInfo, videoTime, stopped,
                 frame, hist>>

RenderOutputTexture ==
  /\ pc = "scale"
  /\ outputTextures' = Draw(outputTextures, renderTextures)
  /\ pc' = IF gpuConversion THEN "convert" ELSE "stage"
  /\ UNCHANGED <<renderTextures, convertTextures, copySurfaces, mappedSurface,
                 curTexture, gpuConversion, vframeInfo, videoTime, stopped,
                 frame, hist>>

RenderConvertTexture ==
  /\ pc = "convert"
  /\ convertTextures' = Draw(convertTextures, outputTextures)
  /\ pc' = "stage"
  /\ UNCHANGED <<renderTextures, outputTextures, copySurfaces, mappedSurface,
                 curTexture, gpuConversion, vframeInfo, videoTime, stopped,
                 frame, hist>>

StageOutputTexture ==
  /\ pc = "stage"
  /\ copySurfaces' =
       Draw(copySurfaces, IF gpuConversion THEN convertTextures
                                           ELSE outputTextures)
  /\ mappedSurface' = -1
  /\ pc' = "download"
  /\ UNCHANGED <<renderTextures, outputTextures, convertTextures, curTexture,
                 gpuConversion, vframeInfo, videoTime, stopped, frame, hist>>

\* download_frame: nothing was staged yet, or the surface is mapped, or the
\* device fails to map it.
DownloadFrame ==
  /\ pc = "download"
  /\ \/ /\ copySurfaces[PrevTexture] = Nothing
        /\ pc' = "advance"
        /\ UNCHANGED <<mappedSurface, failures>>
     \/ /\ copySurfaces[PrevTexture] # Nothing
        /\ mappedSurface' = PrevTexture
        /\ pc' = "output"
        /\ UNCHANGED failures
     \/ /\ copySurfaces[PrevTexture] # Nothing
        /\ failures < MaxFailures
        /\ failures' = failures + 1
        /\ pc' = "advance"
        /\ UNCHANGED mappedSurface
  /\ UNCHANGED <<textures, curTexture, gpuConversion, vframeInfo, videoTime,
                 stopped, frame, round, startOf, resets>>

\* circlebuf_pop_front and output_video_data: the picture of the mapped surface
\* goes out with the oldest timestamp.  circlebuf_pop_front asserts that there
\* is one.
OutputVideoData ==
  /\ pc = "output"
  /\ vframeInfo # <<>>
  /\ frame' = [scene     |-> copySurfaces[mappedSurface],
               timestamp |-> Head(vframeInfo).timestamp,
               count     |-> Head(vframeInfo).count]
  /\ vframeInfo' = Tail(vframeInfo)
  /\ pc' = "advance"
  /\ UNCHANGED <<textures, mappedSurface, curTexture, gpuConversion, videoTime,
                 stopped, hist>>

\* if (++video->cur_texture == NUM_TEXTURES) video->cur_texture = 0
NextTexture ==
  /\ pc = "advance"
  /\ curTexture' = IF curTexture + 1 = NUM_TEXTURES THEN 0 ELSE curTexture + 1
  /\ pc' = "sleep"
  /\ UNCHANGED <<textures, mappedSurface, gpuConversion, vframeInfo, videoTime,
                 stopped, frame, hist>>

\* Mutants: the time after the sleep; a late round counts as one tick.
LateFrameInfo(count)   == [timestamp |-> videoTime + count, count |-> count]
SingleFrameInfo(count) == [timestamp |-> videoTime, count |-> 1]

\* struct obs_vframe_info of the round that ends.
FrameInfo(count) == [timestamp |-> videoTime, count |-> count]

\* The round took `count' ticks: its timestamp waits for its picture.
VideoSleep(count) ==
  /\ pc = "sleep"
  /\ videoTime' = videoTime + count
  /\ vframeInfo' = Append(vframeInfo, FrameInfo(count))
  /\ pc' = "top"
  /\ UNCHANGED <<textures, mappedSurface, curTexture, gpuConversion, stopped,
                 frame, hist>>

-----------------------------------------------------------------------------
\* obs_reset_video and obs_shutdown: stop_video flags the thread at any time,
StopVideo ==
  /\ ~stopped
  /\ stopped' = TRUE
  /\ UNCHANGED <<textures, mappedSurface, curTexture, gpuConversion,
                 vframeInfo, videoTime, pc, frame, hist>>

\* joins it, obs_free_video clears the pipeline and obs_init_video starts the
\* thread again: with or without a format that has a GPU conversion.
ResetVideo ==
  /\ stopped /\ pc = "exit"
  /\ resets < MaxResets
  /\ resets' = resets + 1
  /\ renderTextures' = Blank /\ outputTextures' = Blank
  /\ convertTextures' = Blank /\ copySurfaces' = Blank
  /\ mappedSurface' = -1
  /\ vframeInfo' = <<>>
  /\ curTexture' = 0
  /\ gpuConversion' \in BOOLEAN
  /\ videoTime' = videoTime + 1
  /\ stopped' = FALSE /\ pc' = "top"
  /\ frame' = NoFrame
  /\ round' = 0 /\ startOf' = <<>> /\ failures' = 0

Next ==
  \/ StartRound \/ LeaveLoop
  \/ RenderMainTexture \/ RenderOutputTexture \/ RenderConvertTexture
  \/ StageOutputTexture \/ DownloadFrame \/ OutputVideoData \/ NextTexture
  \/ \E count \in 1 .. MaxCount : VideoSleep(count)
  \/ StopVideo \/ ResetVideo

Spec == Init /\ [][Next]_vars

-----------------------------------------------------------------------------
(* Properties.                                                             *)

VFrameInfo == [timestamp : Nat, count : 1 .. MaxCount]

Pictures == [Textures -> 0 .. round]

TypeOK ==
  /\ renderTextures \in Pictures /\ outputTextures \in Pictures
  /\ convertTextures \in Pictures /\ copySurfaces \in Pictures
  /\ mappedSurface \in Textures \union {-1}
  /\ curTexture \in Textures
  /\ gpuConversion \in BOOLEAN /\ stopped \in BOOLEAN
  /\ vframeInfo \in Seq(VFrameInfo)
  /\ videoTime \in Nat
  /\ pc \in {"top", "render", "scale", "convert", "stage", "download",
             "output", "advance", "sleep", "exit"}
  /\ frame \in [scene : Nat, timestamp : Nat, count : 0 .. MaxCount]
  /\ round \in Nat /\ startOf \in Seq(Nat)
  /\ failures \in Nat /\ resets \in Nat

\* A picture is about to leave with the timestamp at which its scene was
\* rendered.  Each map failure since the start makes all later pictures late by
\* one more scene: the pipeline loses a picture, vframe_info_buffer keeps its
\* timestamp.
StampMatchesScene ==
  pc = "output" /\ vframeInfo # <<>> =>
    Head(vframeInfo).timestamp = startOf[copySurfaces[mappedSurface] - failures]

\* circlebuf_pop_front is never called on an empty buffer (it asserts), although
\* nothing but the number of rounds relates a staged picture to the buffer.
StampReady == pc = "output" => vframeInfo # <<>>

\* The raw video queue (VideoIO) counts on contiguous frames: each one starts at
\* the tick where the one before ended, whatever was lost in between.
StampsContiguous ==
  [][frame' # frame /\ frame.scene # Nothing /\ frame'.scene # Nothing =>
       frame'.timestamp = frame.timestamp + frame.count]_vars
=============================================================================
