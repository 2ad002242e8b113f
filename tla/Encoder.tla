------------------------------ MODULE Encoder ------------------------------
(***************************************************************************)
(* The encoders of the streaming and the recording output                  *)
(* (libobs/obs-encoder.c, with the calls obs-output.c makes of it).        *)
(*                                                                         *)
(* Every output has a video encoder of its own; the outputs share one      *)
(* audio encoder, as the recorder does when RecMode is not "ffmpeg"        *)
(* (recorder-outputs.cpp: aacRecording = aacStreaming).  An output         *)
(* initializes its encoders, pairs an idle audio encoder with its video    *)
(* encoder, connects (the rtmp output on a thread of its own), begins to   *)
(* capture and is stopped by its end thread.  The video thread and the     *)
(* audio thread feed the encoders that are active meanwhile.               *)
(*                                                                         *)
(* Times are ticks.  input_mutex of the video and of the audio makes an    *)
(* encoder be connected or disconnected only between two callbacks.        *)
(***************************************************************************)
EXTENDS Integers, Sequences

CONSTANTS
  Outputs,       \* the outputs, each naming its video encoder as well
  Connects,      \* those that connect on a thread of their own
  Audio,         \* the shared audio encoder
  None,          \* nobody
  SamplePeriod,  \* ticks from one audio sample to the next
  BlockFrames,   \* samples the audio thread delivers at a time
  FrameSize,     \* samples the audio encoder takes at a time
  VideoPeriod,   \* ticks from one video frame to the next
  Origins,       \* ticks at which either clock may start
  MaxStarts,     \* bound: starts of outputs
  MaxVideo,      \* bound: the video clock
  MaxAudio       \* bound: the audio clock

ASSUME EncoderAssumption ==
  /\ Connects \subseteq Outputs
  /\ Audio \notin Outputs /\ None \notin Outputs \cup {Audio}
  /\ {SamplePeriod, BlockFrames, FrameSize, VideoPeriod} \subseteq Nat \ {0}
  /\ Origins \subseteq Nat \ {0}
  /\ {MaxStarts, MaxVideo, MaxAudio} \subseteq Nat

Encoders == Outputs \cup {Audio}

VARIABLES
  phase,      \* [Outputs -> Phase], where the output's start or stop is
  context,    \* the output whose start the context thread is in, or None
  init,       \* [Encoders -> the end thread that holds init_mutex, or None]
  enc,        \* [Encoders -> the fields of struct obs_encoder]
  buffer,     \* the times of the samples in audio_input_buffer
  firstRaw,   \* first_raw_ts of the audio encoder
  videoTime,  \* the timestamp of the video thread's next frame
  audioTime,  \* the timestamp of the audio thread's next block
  todo,       \* encoders the video thread has still to give its frame
  heard,      \* the audio thread is inside receive_audio
  packets,    \* the last samples encoded: their times and pts, the encoder's start
              \* and whether its pair was paired with it then
  starts,     \* history: starts so far
  crossed     \* history: outputs during whose start another was stopped

vars == <<phase, context, init, enc, buffer, firstRaw, videoTime, audioTime,
          todo, heard, packets, starts, crossed>>

media   == <<videoTime, audioTime, todo, heard, packets>>

Phase == {"idle", "initializing", "connecting", "beginning", "begun",
          "stopVideo", "removeVideo", "stopAudio", "removeAudio"}

Starting(o) == phase[o] \in {"initializing", "connecting", "beginning"}
Goto(o, p)  == phase' = [phase EXCEPT ![o] = p]
Upd(e, r)   == enc' = [enc EXCEPT ![e] = r]

-----------------------------------------------------------------------------
(* Fields and helpers of struct obs_encoder.  data says that context.data  *)
(* is there.                                                               *)
Created ==
  [data |-> FALSE, initialized |-> FALSE, active |-> FALSE, callbacks |-> {},
   paired |-> None, first_received |-> FALSE, start_ts |-> 0, cur_pts |-> 0]

(* obs_encoder_shutdown                                                    *)
Shutdown(r) ==
  IF r.data
    THEN [r EXCEPT !.data = FALSE, !.paired = None, !.first_received = FALSE,
                   !.start_ts = 0]
    ELSE r

(* obs_encoder_initialize_internal, when the encoder can be created.       *)
Initialized(r) ==
  IF r.active \/ r.initialized THEN r
  ELSE [Shutdown(r) EXCEPT !.data = TRUE, !.initialized = TRUE]

(* obs_encoder_start_internal: without context.data nothing happens.       *)
Started(r, o) ==
  IF ~r.data THEN r
  ELSE IF r.callbacks = {}
    THEN [r EXCEPT !.callbacks = {o}, !.cur_pts = 0, !.active = TRUE]
    ELSE [r EXCEPT !.callbacks = @ \cup {o}]

\* Mutant: the encoder is left initialized
RemovedStillInitialized(r) == [Shutdown(r) EXCEPT !.active = FALSE]

(* remove_connection and what obs_encoder_stop_internal does after it.     *)
Removed(r) == [Shutdown(r) EXCEPT !.active = FALSE, !.initialized = FALSE]

(* The thread that delivers to encoder e is between two callbacks.         *)
Between(e) == IF e = Audio THEN ~heard ELSE todo = {}

-----------------------------------------------------------------------------
Init ==
  /\ phase = [o \in Outputs |-> "idle"]
  /\ context = None
  /\ init = [e \in Encoders |-> None]
  /\ enc = [e \in Encoders |-> Created]
  /\ buffer = <<>> /\ firstRaw = 0
  /\ videoTime \in Origins /\ audioTime \in Origins
  /\ todo = {} /\ heard = FALSE
  /\ packets = [times |-> <<>>, pts |-> 0, start |-> 0, both |-> TRUE]
  /\ starts = 0 /\ crossed = {}

(* obs_output_initialize_encoders, up to                                   *)
Initialize(o) ==
  /\ phase[o] = "idle" /\ context = None /\ starts < MaxStarts
  /\ init[o] = None /\ init[Audio] = None
  /\ enc' = [enc EXCEPT ![o] = Initialized(@), ![Audio] = Initialized(@)]
  /\ buffer' = IF enc[Audio].active \/ enc[Audio].initialized THEN buffer ELSE <<>>
  /\ context' = o
  /\ starts' = starts + 1
  /\ crossed' = crossed \ {o}
  /\ Goto(o, "initializing")
  /\ UNCHANGED <<init, firstRaw, media>>

(* pair_encoders, after which the output connects.                         *)
Pair(o) ==
  /\ phase[o] = "initializing"
  /\ init[o] = None /\ init[Audio] = None
  /\ enc' = IF /\ ~enc[Audio].active /\ enc[Audio].paired = None
               /\ ~enc[o].active /\ enc[o].paired = None
              THEN [enc EXCEPT ![o].paired = Audio, ![Audio].paired = o]
              ELSE enc
  /\ context' = IF o \in Connects THEN None ELSE context
  /\ Goto(o, "connecting")
  /\ UNCHANGED <<init, buffer, firstRaw, media, starts, crossed>>

LeaveContext(o) == context' = IF context = o THEN None ELSE context

(* The output does not connect, or its file cannot be opened.              *)
Fail(o) ==
  /\ phase[o] = "connecting"
  /\ Goto(o, "idle")
  /\ LeaveContext(o)
  /\ UNCHANGED <<init, enc, buffer, firstRaw, media, starts, crossed>>

(* obs_output_begin_data_capture starts the audio encoder,                 *)
BeginAudio(o) ==
  /\ phase[o] = "connecting"
  /\ init[Audio] = None /\ Between(Audio)
  /\ Upd(Audio, Started(enc[Audio], o))
  /\ Goto(o, "beginning")
  /\ UNCHANGED <<context, init, buffer, firstRaw, media, starts, crossed>>

(* then the video encoder, and returns TRUE.                               *)
BeginVideo(o) ==
  /\ phase[o] = "beginning"
  /\ init[o] = None /\ Between(o)
  /\ Upd(o, Started(enc[o], o))
  /\ Goto(o, "begun")
  /\ LeaveContext(o)
  /\ UNCHANGED <<init, buffer, firstRaw, media, starts, crossed>>

-----------------------------------------------------------------------------
(* end_data_capture_thread: obs_encoder_stop of the video encoder, then of *)
(* the audio encoder.  Each takes the callback out under init_mutex, and   *)
(* keeps the mutex if the encoder has to be taken from its thread.         *)
End(o) ==
  /\ phase[o] = "begun"
  /\ Goto(o, "stopVideo")
  /\ crossed' = crossed \cup {k \in Outputs \ {o} : Starting(k)}
  /\ UNCHANGED <<context, init, enc, buffer, firstRaw, media, starts>>

Last(e, o) == enc[e].callbacks = {o}

Stop(e, o, remove, next) ==
  /\ init[e] = None
  /\ Upd(e, [enc[e] EXCEPT !.callbacks = @ \ {o}])
  /\ init' = [init EXCEPT ![e] = IF Last(e, o) THEN o ELSE None]
  /\ Goto(o, IF Last(e, o) THEN remove ELSE next)
  /\ crossed' = crossed \cup {k \in Outputs \ {o} : Starting(k)}
  /\ UNCHANGED <<context, buffer, firstRaw, media, starts>>

Remove(e, o, next) ==
  /\ Between(e)
  /\ Upd(e, Removed(enc[e]))
  /\ init' = [init EXCEPT ![e] = None]
  /\ Goto(o, next)
  /\ crossed' = crossed \cup {k \in Outputs \ {o} : Starting(k)}
  /\ UNCHANGED <<context, buffer, firstRaw, media, starts>>

StopVideo(o)   == phase[o] = "stopVideo" /\ Stop(o, o, "removeVideo", "stopAudio")
RemoveVideo(o) == phase[o] = "removeVideo" /\ Remove(o, o, "stopAudio")
StopAudio(o)   == phase[o] = "stopAudio" /\ Stop(Audio, o, "removeAudio", "idle")
RemoveAudio(o) == phase[o] = "removeAudio" /\ Remove(Audio, o, "idle")

-----------------------------------------------------------------------------
(* video_output_cur_frame takes a frame to every encoder connected to it.  *)
VideoFrame ==
  /\ todo = {} /\ videoTime <= MaxVideo
  /\ todo' = {o \in Outputs : enc[o].active}
  /\ videoTime' = IF todo' = {} THEN videoTime + VideoPeriod ELSE videoTime
  /\ UNCHANGED <<phase, context, init, enc, buffer, firstRaw, audioTime, heard,
                 packets, starts, crossed>>

\* Mutant: the age of the audio is not looked at
WaitsForAnyAudio(v) ==
  /\ ~enc[v].first_received /\ enc[v].paired # None
  /\ ~enc[enc[v].paired].first_received

(* receive_video: until its first packet, a paired encoder takes no frame  *)
(* older than the first audio that its pair has received.                  *)
WaitsForAudio(v) ==
  LET pair == enc[enc[v].paired] IN
  /\ ~enc[v].first_received /\ enc[v].paired # None
  /\ ~pair.first_received \/ firstRaw > videoTime

(* Whether a frame gives a packet at once is the encoder's affair.         *)
ReceiveVideo(v) ==
  /\ v \in todo
  /\ \E received \in BOOLEAN :
       Upd(v, IF WaitsForAudio(v) THEN enc[v]
              ELSE [enc[v] EXCEPT
                      !.start_ts = IF @ = 0 THEN videoTime ELSE @,
                      !.first_received = @ \/ received,
                      !.cur_pts = @ + 1])
  /\ todo' = todo \ {v}
  /\ videoTime' = IF todo' = {} THEN videoTime + VideoPeriod ELSE videoTime
  /\ UNCHANGED <<phase, context, init, buffer, firstRaw, audioTime, heard, packets,
                 starts, crossed>>

-----------------------------------------------------------------------------
Block(t)  == [i \in 1 .. BlockFrames |-> t + (i - 1) * SamplePeriod]
BlockEnd(t) == t + BlockFrames * SamplePeriod

(* push_back_audio from calc_offset_size on: the division drops the rest.  *)
From(s, first, v) == IF first < v THEN SubSeq(s, (v - first) \div SamplePeriod + 1, Len(s))
                                  ELSE s

(* receive_audio notes the first audio it gets.                            *)
AudioArrives ==
  /\ ~heard /\ audioTime <= MaxAudio
  /\ IF ~enc[Audio].active
       THEN /\ audioTime' = BlockEnd(audioTime)
            /\ UNCHANGED <<enc, buffer, firstRaw, heard>>
       ELSE /\ heard' = TRUE
            /\ firstRaw' = IF enc[Audio].first_received THEN firstRaw ELSE audioTime
            /\ buffer' = IF enc[Audio].first_received THEN buffer ELSE <<>>
            /\ Upd(Audio, [enc[Audio] EXCEPT !.first_received = TRUE])
            /\ UNCHANGED audioTime
  /\ UNCHANGED <<phase, context, init, videoTime, todo, packets, starts, crossed>>

(* send_audio_data, as often as a whole frame is buffered.                 *)
Send(start, samples, both) ==
  LET n == FrameSize * (Len(samples) \div FrameSize) IN
  /\ Upd(Audio, [enc[Audio] EXCEPT !.start_ts = start, !.cur_pts = @ + n])
  /\ buffer' = SubSeq(samples, n + 1, Len(samples))
  /\ packets' = [times |-> SubSeq(samples, 1, n), pts |-> enc[Audio].cur_pts,
                 start |-> start, both |-> both]

EndAudio ==
  /\ heard' = FALSE
  /\ audioTime' = BlockEnd(audioTime)
  /\ UNCHANGED <<phase, context, init, firstRaw, videoTime, todo, starts, crossed>>

(* buffer_audio: the start of the paired video encoder.                    *)
VideoStart == enc[enc[Audio].paired].start_ts

WaitsForVideo ==
  /\ enc[Audio].start_ts = 0 /\ enc[Audio].paired # None
  /\ VideoStart = 0 \/ BlockEnd(audioTime) <= VideoStart

KeepAudio ==
  /\ heard /\ WaitsForVideo
  /\ buffer' = buffer \o Block(audioTime)
  /\ EndAudio
  /\ UNCHANGED <<enc, packets>>

(* It starts where the video did: in this block, or in what is buffered.   *)
StartAudio ==
  /\ heard /\ enc[Audio].start_ts = 0 /\ enc[Audio].paired # None /\ ~WaitsForVideo
  /\ Send(VideoStart,
          IF audioTime <= VideoStart
            THEN From(Block(audioTime), audioTime, VideoStart)
            ELSE From(buffer, firstRaw, VideoStart) \o Block(audioTime),
          enc[enc[Audio].paired].paired = Audio)
  /\ EndAudio

(* An encoder without a pair starts with its first block.                  *)
EncodeAudio ==
  /\ heard /\ (enc[Audio].start_ts # 0 \/ enc[Audio].paired = None)
  /\ Send(IF enc[Audio].start_ts = 0 THEN audioTime ELSE enc[Audio].start_ts,
          buffer \o Block(audioTime),
          IF enc[Audio].start_ts = 0 THEN TRUE ELSE packets.both)
  /\ EndAudio

-----------------------------------------------------------------------------
Next ==
  \/ VideoFrame \/ AudioArrives \/ KeepAudio \/ StartAudio \/ EncodeAudio
  \/ \E o \in Outputs :
       \/ Initialize(o) \/ Pair(o) \/ Fail(o) \/ BeginAudio(o) \/ BeginVideo(o)
       \/ End(o) \/ StopVideo(o) \/ RemoveVideo(o) \/ StopAudio(o) \/ RemoveAudio(o)
       \/ ReceiveVideo(o)

Spec == Init /\ [][Next]_vars

(* The sound belongs to the picture: every audio sample that is encoded    *)
(* was recorded at the time its pts says, counted from the audio encoder's *)
(* start (which is the start of the video encoder it is paired with), to   *)
(* less than one sample.  Left out is the pair that only the audio encoder *)
(* still knows: a video encoder that was stopped and started again while   *)
(* another output kept the audio encoder waiting is not paired a second    *)
(* time, and starts without regard to the audio.                           *)
AudioAligned ==
  packets.both => \A i \in DOMAIN packets.times :
    packets.start + (packets.pts + i - 1) * SamplePeriod - packets.times[i]
      \in 0 .. SamplePeriod - 1

(* An output that has begun gets packets from both its encoders.           *)
Fed(o) == \A e \in {o, Audio} : o \in enc[e].callbacks /\ enc[e].active /\ enc[e].data

(* What obs_output_begin_data_capture promises when it returns TRUE        *)
(* ("Begins data capture from media/encoders", obs.h).                     *)
BeginsWhole == \A o \in Outputs : phase[o] = "begun" => Fed(o)

(* It does, unless another output was stopped between the moment the       *)
(* encoders were initialized and the moment they were started.             *)
BeginsWholeAlone == \A o \in Outputs : phase[o] = "begun" /\ o \notin crossed => Fed(o)
=============================================================================
