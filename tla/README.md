# Verification of the ZDTalk recorder

The repository is the screen recorder of ZDTalk: a Qt program without windows
(`src/zdtalkrecorder`) that takes its orders from the ZDTalk client over a local
socket and drives a modified OBS 21.0.1 (`src/libobs` and `src/plugins`). This
directory holds TLA+ models of the parts whose correctness depends on the order
in which threads, callbacks and messages happen, their TLC configurations and
TLAPS proofs.

Contents: [inventory](#inventory) · [plan](#plan) · [modules](#modules) ·
[runs](#runs) ·
[findings](#findings) · [proofs](#proofs) · [limits](#what-is-not-modelled).

## Inventory

### How the parts interact

    ZDTalk client --local socket--> RecorderClient (main thread)
                                       | queued Qt calls
                                       v
                                RecorderObsContext (context thread)
                                       | obs_output_start / stop / destroy
                                       v
    graphics thread --> raw video queue --> video thread --> encoders, raw outputs
    (obs-video.c)       (video-io.c)                              |
                                               obs_output (obs-output.c)
                                               |                     |
                                      rtmp_output            ffmpeg_output
                              connect, send threads      start, write threads
                                               |  end thread  |
                                               v              v
                              "start"/"stop" signals --> BasicOutputHandler
                              (recorder-outputs.cpp) --> notices to the client

| Part | State | Operations | Hard behaviour | What makes it correct |
|---|---|---|---|---|
| Raw video queue, `libobs/media-io/video-io.c` | ring of frames, two indices, free count, semaphore, stop flag, inputs, skip counter | lock/unlock frame, video thread, connect, disconnect, stop, close | two threads use slots outside the lock; callbacks change the list they are called from; ring full; stop at any point | no slot is filled while it is read; every tick once and in order; skipped ticks accounted for; nothing used after close |
| Graphics thread, `libobs/obs-video.c`, `obs.c` | two textures for each of four stages, a queue of timestamps, the video time | one round: render, scale, convert, stage, download, output, sleep; stop and reset | pictures and timestamps travel separately; map failures; rounds that last several ticks | a picture leaves with the timestamp of its scene; timestamps contiguous; buffer bounded |
| Output life cycle, `libobs/obs-output.c` | `active`, `data_active`, `stopping_event`, end thread, hooks into encoders | start, stop, force stop, destroy, begin and end of capture | flags without a lock, set by up to five threads; joins; signals from any thread | one end per start, no hook or flag left, no join or wait for ever |
| RTMP stream, `plugins/obs-outputs/rtmp-stream.c` | `connecting`, `active`, `stop_event`, packets and semaphore, two threads | start, connect, send, stop, disconnect, destroy | disconnection racing a stop; restart; destruction while connecting | the same, and the stream freed after its threads |
| FFmpeg output, `plugins/obs-ffmpeg/obs-ffmpeg-output.c` | `active`, `connecting`, `write_thread_active`, stop flag and timestamps, packets | start, raw video/audio, write, stop, destroy | stop at a timestamp, write errors, deactivation from the write thread | ends once, never joins itself, file complete |
| Encoders, `libobs/obs-encoder.c` | callbacks, active, first timestamps | start, stop, receive video/audio, send packet | outputs that share an encoder start and stop across each other; the two media threads read each other's fields | sound begins with its picture; an output that has begun gets packets of both |
| Interleaving, `libobs/obs-output.c` | packet list, offsets, highest timestamps | interleave, prune, send | audio and video starting apart, encoders that reorder | output in order of time, nothing lost after the start, clocks moved together |
| Reconnect and delay, `libobs/obs-output.c`, `obs-output-delay.c` | reconnect thread, delay queue | retry, delayed start/stop | timers racing stops | switched off by the recorder (both times are set to 0) |
| Recorder client, `zdtalkrecorder/recorder-client.cpp` | socket, context thread | parse a command, queue it; send a notice; quit | notices queued from other threads; quit after 200 ms | every order is answered |
| OBS context, `recorder-obs-context.cpp`, `recorder-outputs.cpp` | output handler, sources, file path | init, start/stop recording and streaming, reset | orders that arrive while an earlier one is in progress | the client's view agrees with the outputs |
| References and signals, `obs.c`, `callback/signal.c` | strong/weak counts, handler list | addref, release, get from weak; connect, disconnect, emit | a release racing a weak upgrade; a handler that removes itself | no resurrection, no call after disconnect |
| Audio, `media-io/audio-io.c`, `obs-audio.c` | ticks, buffered timestamps | audio thread, mix | sources that lag | time never runs backwards |
| Sources, scenes, hotkeys, data, graphics back ends, capture and codec plugins, vendored code | | | mostly rendering, tables and wrappers of system APIs | |

`PROJECT.json` lists the same parts under `components` and, under `hazards`,
the places where they are hard to test.

## Plan

Done, in this order (the most important first):

1. `VideoIO` with the abstract specification `TickQueue`; `VideoIOProofs`.
2. `GraphicsThread`, the producer of `VideoIO`'s frames, and
   `GraphicsThreadProofs`. The property `StampsContiguous` is exactly what
   `VideoIO` assumes of them: each frame starts where the one before ended.
3. `StreamOutput`: the output life cycle composed with its RTMP plugin;
   `StreamOutputProofs`.
4. `Recorder`: the server's commands, the main and the context thread and the
   notices, over abstract outputs; `RecorderProofs`. `OutputLife` is what it
   relies on of an output; `StreamOutput` and `FFmpegOutput` implement it.
5. `FFmpegOutput`: the default recording path, composed with the output life
   cycle; `FFmpegOutputProofs`.
6. `Interleave` and `Encoder`: in which order packets leave, and what an output
   begins with when it shares an encoder; `InterleaveProofs` and `EncoderProofs`.
7. `RefCount` (strong and weak references) and `RefCountProofs`.

Left: `RtmpDrop` (which packets a congested stream drops), `Signals` (handlers
that disconnect during a signal), `AudioIO` (buffering and the start timestamp
of the mix), reconnects and delay.

## Modules

### VideoIO, TickQueue, MCVideoIO

`VideoIO` has three threads, each with a program counter: `gpc` the graphics
thread as far as it concerns the queue, `vpc` the video thread, `spc` the thread
in `stop_video`. One action is one critical section of `data_mutex` or
`input_mutex`, or one access to an unlocked flag:

| Code | Actions |
|---|---|
| `video_output_lock_frame` | `OutputFrame` = `LockFrame` or `SkipFrame` (ring full) |
| filling the slot, no lock | the time between `LockFrame` and `UnlockFrame` |
| `video_output_unlock_frame` | `UnlockFrame` |
| `video_thread` | `SemWait`, `CheckStop`, `CheckAgain` |
| `video_output_cur_frame` | `PeekFrame`, `CallInput`, `ReturnInput`, `EndCalls`, `FinishTurn` |
| callbacks that disconnect themselves | `SelfDisconnect` |
| `video_output_connect`, `_disconnect` | `Connect`, `Disconnect` |
| `video_output_stop`, `stop_video`, `video_output_close` | `StopFlag`, `StopPost`, `JoinVideoThread`, `JoinGraphicsAndClose` |

Time is counted in ticks of the video clock: the timestamp of a slot is the
number of its next tick. `delivered`, `offered`, `erased` and `skipsDue` are
history variables: no guard reads them. The reset of `skipped_frames` in
`video_output_connect` may overwrite an increment made under the other mutex,
or be overwritten by one; both outcomes are in `Connect`.

What the model shows and a reader may not expect: `OfferedToAll` needs its
exception. A callback that erases itself shortens the array under the loop and
the next input is not called for this tick.

`TickQueue` is what the queue promises: ticks 0, 1, 2, ... are handed over and
delivered each once, in order. A full ring repeats pictures, never timestamps.

### GraphicsThread

One action per stage of a round of `obs_graphics_thread`, on the two textures
of each stage; a texture holds the number of the scene drawn into it. The
graphics context is one thread's, so the interleaving that matters is with
`StopVideo`, which may come between any two steps. `ResetVideo` is
`obs_free_video` followed by `obs_init_video`, with or without a conversion on the GPU.

The property `StampMatchesScene` says more than that all is well: after a map
failure the buffer keeps a timestamp that no picture took, so every later picture
carries the timestamp of the scene one round before, until the video is reset. The
property states the lag exactly (one scene for each failure).

### StreamOutput

Threads: the recorder's context thread (`User`), for each start a connect
thread and a send thread, and the end thread of the output. Each access to a
shared flag or event is an action of its own, because nothing locks them
together. `ret[t]` is where thread `t` goes on after
`obs_output_end_data_capture`, which the connect, send and user threads all
call. `client` is what the recorder's client has been told.

| Code | Actions |
|---|---|
| `RecorderObsContext::StartStreaming`, `obs_output_start`, `rtmp_stream_start` | `UserStart`, `WaitStopped`, `CanBegin`, `JoinEnd`, `StartConnecting` |
| `connect_thread`, `init_connect`, `try_connect`, `init_send` | `InitConnect` ... `ClearConnecting` (`ConnectStep`) |
| `obs_output_begin_data_capture` | `BeginCapture`, `Activate`, `SignalStart` |
| `rtmp_stream_data`, `send_thread` | `EncoderPacket`, `DropFrames`, `SendStep` |
| `obs_output_stop`, `rtmp_stream_stop` | `UserStop`, `ResetStoppingEvent`, `RtmpStop`, `JoinConnect`, `SetStopTs`, `SignalStopEvent` |
| `obs_output_destroy`, `rtmp_stream_destroy` | `UserDestroy`, `DestroyWait` ... `DestroySend` |
| `obs_output_end_data_capture_internal` | `EndCapture`, `ClearData`, `SpawnEnd`, `SignalStopped`, `SignalStopOnly`, `SetStoppingEvent` |
| `end_data_capture_thread` | `Unhook`, `ClearActive`, `SignalEnded`, `ClearEnding` |

The code leaves four orders of steps to luck. The model does not exclude them; it
records in the history variable `races` that one has happened, and each property
names those under which it is not claimed:

- `stopOverlap`: a stop by the user overlaps the end of the stream. The stop
  resets `stopping_event` after the end thread has set it, and the next start
  waits for it without end.
- `brokeEarly`: the connection breaks before the start signal was sent (or the
  metadata cannot be sent, which leaves the send thread waiting). The stop is
  reported before the start.
- `cutOff`: the output is destroyed while it is connecting, or while a detached
  send thread is on its way out.
- `hurried`: a new start comes while a thread of the last stream is still
  between its stop signal and its end.

A property without an exception for a race is checked in the behaviours that contain it:
`OneEndThread` holds after a `stopOverlap` or a `brokeEarly`, `FreedAfterThreads`
after a `brokeEarly`, and so on.

### FFmpegOutput

Threads: the user thread, for each start a start thread and a write thread, the
end thread, and the two media threads inside `receive_video` and `receive_audio`
(`raw`). As in `StreamOutput` nothing locks the flags, and one action is one
access.

| Code | Actions |
|---|---|
| `obs_output_start`, `ffmpeg_output_start` | `UserStart`, `StartRefused`, `FfmpegStart`, `SetConnecting` |
| `start_thread`, `try_connect` | `OpenFile`, `SetActive`, `CanBegin`, `SpawnWrite`, `SetWriteActive`, `ClearConnecting` |
| `obs_output_begin_data_capture` | `BeginCapture`, `Activate`, `SignalStart` |
| `receive_video`, `receive_audio` | `RawEnter`, `RawNothing`, `RawPacket` |
| `write_thread`, `process_packet` | `SemWait`, `CheckEvent`, `TakeToWrite`, `TakeLast`, `TookNothing`, `WriteFrame`, `WriteFails`, `Leave` |
| `obs_output_end_data_capture`, `end_data_capture_thread` | `EndCapture`, `SignalStopped`, `SignalStopOnly`, `Unhook`, `ClearActive`, `SignalEnded`, `ClearEnding` |
| `ffmpeg_deactivate`, `ffmpeg_data_free` | `Deactivate`, `JoinWrite`, `WriteTrailer`, `ClearData` |
| `obs_output_stop`, `ffmpeg_output_stop` | `UserStop`, `ResetStoppingEvent`, `StopNow`, `StopLater`, `SetStopTs` |
| `obs_output_destroy`, `ffmpeg_output_destroy` | `UserDestroy`, `DestroyWait`, `DestroyJoin`, `DestroyStop` |

A timestamp is whether a packet was encoded before the stop (`before`);
`stopTs` is the recording it was set for, because a stop between the stores to
`stopping` and `stop_ts` compares with the value of the last one. Races,
recorded as in `StreamOutput`:

- `early`: the recording ends before its start thread has set
  `write_thread_active`; `ffmpeg_deactivate` then does not join the write thread.
- `overlap`: a stop or a destruction while the recording ends by itself; two
  threads run `ffmpeg_deactivate`.
- `hasty`: a packet is looked at between the stores to `stopping` and `stop_ts`.
- `inCallback`: the file is closed under a callback that encodes. No property
  is exempted from it, but the user asks for nothing afterwards: in the code
  such a callback works on freed data and may leave a packet for the next
  recording.
- `lateConnecting`: `connecting` is set after its thread has cleared it. Every
  later start is refused.

The races of `obs_output_end_data_capture` with itself are the subject of
`StreamOutput`; here its test and the start of the end thread are one step.

### Recorder

(The ZDTalk client is the server of the local socket, and `Recorder` calls it that.)
The server's commands are in `wire`, the events of the context thread in
`ctxQ`, those of the main thread in `mainQ`. A libobs thread posts its notice to
the context thread, which relays it to the main thread; a signal that fires on
the context thread goes to the main thread at once. `OnSocketReadyRead` takes
one message for each step, although the code reads all that have arrived in a
loop: the context thread may run between two turns of that loop.

An output is abstract: it has a `phase`, may still have its end thread
(`ending`) and may owe its stop signal (`owed`), because
`obs_output_end_data_capture` starts the end thread before it signals. `file` is
the path a recording was started with, `filePath` the one in the configuration,
which is what a finished recording is reported with.

| Code | Actions |
|---|---|
| `RecorderClient::OnSocketReadyRead`, `SendMessageToServer`, `quit` | the same names, `Quit` |
| `Init`, `ResetOutputs` | `InitFails`, `InitSucceeds` |
| `StartRecording`, `StartStreaming`, `obs_output_start` | `StartIgnored`, `StartInvalid`, `StartChecked`, `StartOutput`, `StartRefused`, `StartTwice` |
| `StopRecording`, `StopStreaming` | `StopIgnored`, `StopLater`, `StopNow` |
| signals of the outputs (`OBSStart...`, `OBSStop...`) | `Connected`, `ConnectFailed`, `EndDataCapture`, `EndThread`, `SignalStop`, `Relay` |

Races: `ignored` (a start finds the output active, still or again, and nothing
is answered), `replaced` (an Init throws away an output that is connecting),
`renamed` (a start changes the path while the recording connects or its stop has
not been signalled), `overtaken` (the notice of a forced stop goes past that of
the start), `late signal` (a stop is signalled when the next start has begun),
`started twice`.

### OutputLife

The abstract specification of an output, between `Recorder` and the two models of
real outputs: idle, connecting, active, stopping; an end leaves the end thread and
exactly one stop signal behind, in either order, and the next start waits for the
end thread. `StreamOutput` and `FFmpegOutput` implement it (`ImplementsOutputLife`,
as long as no race has happened and the output is not destroyed): an output is
connecting until `Activate`, stopping while its `stopping_event` is reset, and
idle once its end thread was started; the stop signal is owed while a thread is at
`signalStopped`. Both refinements are model-checked and proved.

`Recorder` takes the steps of `OutputLife` for the stream
(`StreamingLifeCorrect`), and for the recording as well, but that a forced stop
ends the recording and signals in one step, because the context thread does both.

Two simplifications of `Recorder` rest on this reading. It lets an output become
active and signal its start in one step: between the two the context thread may
take an event but posts nothing to its own queue, so taking the event later
changes nothing (but for a forced stop of a recording, the race `early` of
`FFmpegOutput`). And it lets the start wait for the whole end thread, which is
what `JoinEnd` does.

### Interleave, MCInterleave

`interleave_packets` runs under `interleaved_mutex`, so one call is one step
(`VideoPacket`, `AudioPacket`); what remains is the order in which two encoder
threads deliver. The output is one record, `out`, and each function of the
source that changes it is an operator from record to record: `DropNonKey`,
`Insert`, `Prune` (`prune_interleaved_packets`), `PrematureIdx`, `StartIdx`,
`Initialize`, `Rebase` (offsets, highest timestamps, resort), `Send`.
`sorted` in `Resort` is the loop of `resort_interleaved_packets`. `HookDataCapture`
restarts the output while the encoders go on for another one.
A packet is its encoder, its number and its time; `Skews` are the distances
between the two clocks.

### Encoder, MCEncoder

Two outputs with a video encoder each and one shared audio encoder, as
`recorder-outputs.cpp` sets them up when `RecMode` is not "ffmpeg". Threads: the
context thread, the connect thread of the stream, an end thread for each output,
the video thread and the audio thread. `input_mutex` lets an encoder be
connected or removed only between two callbacks of its thread (`Between`);
`init_mutex` is `init`, held by an end thread from `Stop` to `Remove`. Times are
ticks, samples have a time of their own, and the buffer holds those times.

| Code | Actions |
|---|---|
| `obs_output_initialize_encoders`, `pair_encoders` | `Initialize`, `Pair` |
| `obs_output_begin_data_capture`, `obs_encoder_start` | `BeginAudio`, `BeginVideo` |
| `end_data_capture_thread`, `obs_encoder_stop`, `remove_connection` | `End`, `StopVideo`, `RemoveVideo`, `StopAudio`, `RemoveAudio` |
| `video_output_cur_frame`, `receive_video` | `VideoFrame`, `ReceiveVideo` |
| `receive_audio`, `buffer_audio`, `start_from_buffer`, `send_audio_data` | `AudioArrives`, `KeepAudio`, `StartAudio`, `EncodeAudio` |

`crossed` records the outputs during whose start another one was stopped.
`AudioAligned` leaves out a pair that only the audio encoder still knows
(`packets.both`): a video encoder that was stopped and started again while the
other output kept the audio encoder waiting.

### RefCount, MCRefCount

A handle is a place in the program that can hold one reference, with a thread of
its own. `refs` and `weakRefs` start at 0 for one owner and end at -1, as in
`obs-internal.h`. `GetRef`, `Read`, `ReadNoOwner`, `Swap` and `SwapFails` are
`obs_weak_ref_get_ref` with its compare-and-swap; `LookUp` is
`get_context_by_name`, which keeps the list's mutex while it does the same;
`Release`, `Unlist`, `Destroy`, `DropOwn` and `Free` are the steps of the last
`obs_output_release`, in the order the comment in that function asks for.

## Runs

| Run | Instance | Shows |
|---|---|---|
| `video_queue` | ring of 3, two inputs (symmetric), frames of up to 2 ticks, 7 ticks | the safety properties and the refinement of `TickQueue` |
| `video_queue_live` | ring of 2, one input, 4 ticks | every tick is delivered; a stop ends |
| `graphics` | 8 rounds after each start, rounds of up to 2 ticks, 2 map failures, 1 reset | timestamps match pictures |
| `stream` | 2 starts, 2 stops, disconnections, forced stops; hurried starts only without the other two | the life cycle leaves nothing behind; the refinement of `OutputLife` |
| `stream_live` | 1 start, 1 stop, disconnections, forced stops, dropped frames | starts and stops are answered, nobody waits for ever |
| `recording` | 1 recording, 2 stops, 2 queued packets, one stream in the file | the file is whole, nothing before a stop is cut off, stops end, all is ready for the next start; the refinement of `OutputLife` |
| `interleave` | 2 audio tracks of period 2, video of period 3 with a keyframe every 3 packets, skews -3, 0, 5, 8; 9 video and 10 audio packets, 1 restart | packets in order of time, none lost, clocks moved together |
| `interleave_reorder` | the same with keyframes every 5 packets and an encoder that reorders over 6 ticks | violation of `Monotonic` ([findings](#findings)) |
| `recorder` | 4 commands | what the server knows is true, the path is right, starts are answered |
| `refs` | 4 handles | no use after free, no leak |
| `encoders` | 2 outputs, 3 starts, samples every 2 ticks in blocks of 2 and frames of 3, video frames every 3 ticks, clocks from 1 or 4 to 7 (video) and 12 (audio) | sound begins with its picture, outputs begin whole |
| `encoders_shared` | the same | violation of `BeginsWhole` ([findings](#findings)) |

Why the bounds suffice.

- `video_queue`: a ring of three has a slot that is neither the oldest nor the
  newest, wraps round and fills up within seven ticks, and leaves room for the
  graphics thread to overtake. Two inputs are needed for one to be stepped over.
  All its properties are also proved for every size, and so are `TypeOK` and
  `SkippedBelowCount`, which the run leaves to the proofs.
- `graphics`: the pipeline is 3 or 4 rounds long; eight rounds pass two failures
  through it. Also proved for any number of rounds.
- `stream`: two starts are what it takes for a thread of the first to meet the
  second; the flags are booleans and are all back in their initial state after
  the first stream, except in the recorded races. Proved for any number of
  starts, stops and packets; only the liveness of `stream_live` rests on its bounds.
- `recording`: `Restartable` shows that after a recording every flag is back in
  its initial state, so a second recording begins like the first. The audio
  callback does the same steps as the video callback, on the same queue. Two
  packets are one before and one after the stop; two stops are one at a
  timestamp and a forced one on top. All but `StopCompletes` is proved for any
  number of recordings, packets and stops.
- `recorder`: three commands (init, start, stop) make a whole life of an output,
  the fourth comes across it. The two safety properties are proved for any
  number of commands.
- `refs`: the creator, one that lends, one that upgrades and one that is weak.
  Proved for any number of handles.
- `encoders`: the third start is that of an output that has been stopped while
  the other kept the audio encoder. Block and frame sizes without a common
  divisor leave samples in the buffer at the start, and the periods let video
  start inside a block. Proved for any number of outputs and starts, all periods
  and all sizes of blocks and frames.
- `interleave`: the skews put the first audio before, with and more than a frame
  after the video; nine video packets have three keyframes, two of them after a
  restart. Proved for any number of tracks and packets, all periods and skews.

`CHECK_DEADLOCK FALSE` is set because every instance runs out of ticks, rounds,
commands or starts, and a closed queue or a freed object has no step left.

Symmetry is used in `video_queue`, over the inputs, which no definition tells
apart (the refinement it checks is a safety property), and in `refs`, over the
handles but the creator's.

Fairness. `VideoIO`: both threads loop without an exit other than the stop flag and
callbacks return, so each is weakly fair; a stop once begun is straight-line code. Nobody has
to start a stop, connect or produce frames. `StreamOutput`: weak fairness of each
thread; weak fairness of the encoders producing packets while they are hooked; strong
fairness of `LastPacket`, because timestamps grow: once a stop was asked for, either
a packet later than the stop comes up or the shutdown timeout is over, although
`next` is left and entered again in between. Frames are dropped at most `MaxDrops`
times: the code never drops audio or key frames, so packets keep coming.
`Recorder`: the two loops of the main thread and the context thread go on, a
connection attempt ends one way or the other, an end thread ends and a signal
that is owed is sent; nobody has to send a command, end a recording or quit.
`FFmpegOutput`: every thread goes on, and strong fairness of `RawPacket`: an
encoder that is fed gives a packet now and then, although any single frame may
give none.

Every property has a mutant: an operator beside the definition it replaces
(marked "Mutant" in a comment) that changes the code's behaviour the way a
plausible bug would, and TLC finds the property violated with it.

## Findings

Two runs are expected to end in a violation.

- `interleave_reorder` (`libobs/obs-output.c:1320`).
  `initialize_interleaved_packets` moves `highest_video_ts` by the dts of the
  first video packet, but the packets by its pts. With an encoder that reorders
  frames the highest video time is too high by the difference, and an audio
  packet is sent before a video packet of a lower time, against the comment at
  line 1017 ("this ensures that the timestamps are monotonic").
- `encoders_shared` (`libobs/obs-encoder.c:456`). An output initializes the
  shared audio encoder, connects, and starts it seconds later. If the other
  output was stopped in between, `context.data` is gone, `obs_encoder_start`
  returns without a word and `obs_output_begin_data_capture` returns TRUE
  ("Begins data capture from media/encoders", `obs.h:1606`). The output never
  gets audio.

The races above are no findings: no document or comment of the repository
promises that they cannot happen.

## Proofs

`VideoIOProofs` proves, for every ring size `ConfigCacheSize >= 1`, every set of
inputs and every bound on ticks: `TypeOK`, `NoTear`, `SkippedBelowCount`,
`WakeupsMatchSlots`, `RingWellFormed`, and that `VideoIO` implements `TickQueue`.
The assumptions are those of the module (`CacheAssumption`, `InputAssumption`,
`TickAssumption`).

The argument. The properties are not inductive alone; the invariant is
`IndInv`, the conjunction of

- `TypeOK` and `StopInv` (the flag is set before its wake-up);
- `WakeupsMatchSlots`: semaphore plus the thread's own wake-up equal the taken
  slots, so that the thread never works on an empty ring;
- `RingInv`: `last_added` is the last of the `Pending` slots from `first_added`
  on, or the one after it between lock and unlock;
- `TickInv`: the taken slots cover the ticks from `delivered` to `clock` without
  gap or overlap;
- `SkippedBelowCount`: every taken slot has more ticks left than skipped ones,
  which keeps `count` positive.

`NoTear` follows from `RingInv`: the locked slot is `Pending` places after the
oldest with `Pending < CacheSize`, and the video thread reads the oldest. The
refinement follows from `TickInv` and `WakeupsMatchSlots`: in `FinishTurn` the
slot is the oldest and holds tick `delivered`. Lemmas about `SlotAt`, `Held` and
`Advance` carry the index arithmetic; there is one lemma for each action that
touches the ring and one for all the others.

`SkipsAccounted` needs that a slot that is locked has no skips yet and what a sum
over the slots does when one of them changes. The sum is a recursive function of
the number of slots; what it is follows by induction over that number, as the
closure of a set of numbers under successor (`SumFacts`, `SkipsStep`).

The second part of `VideoIOProofs` proves `CalledIsConnected`, `OfferedToAll` and
`NoUseAfterClose` for every set of inputs. Its invariant `CallsInv` says that
the inputs the loop has come past without offering them the frame
(`SteppedOver`) are no more than the entries erased during the loop, that only a
running loop calls anybody, and that the queue is closed after both threads.
The lemma behind it: erasing an entry moves at most one entry, the next one,
behind the loop (`ErasePassed`).

`GraphicsThreadProofs` proves `TypeOK`, `StampReady`, `StampMatchesScene` and
`StampsContiguous` for any number of rounds, failures and resets. The invariant
is `TypeOK`, `Pipeline` and `Stamps`. `Pipeline`: each row of textures holds the
scenes of the last two rounds that drew into it, each row one round older than
the one above. `Stamps`: the buffer is as long as the rounds slept through less
the timestamps gone, each entry begins where its scene began and ends where the
next begins. Together they give the distance between a picture that leaves and
the head of the buffer: one scene for each failure to map.

`RecorderProofs` proves the types, `ServerKnows` and `TruePath` for any number of
commands. What the server will believe of an output is the last notice of it on
its way: in `ctxQ`, or else in `mainQ`, or else what it has heard (`Believes`).
The invariant `Agreement` says that this notice is true of the output's phase
unless its end is still to be signalled or a race has happened; `Paths` says
that the path of the configuration is the recording's while it runs or owes its
signal, and that every queued notice of a finished recording has its path. The
lemmas are about appending to and taking from a queue. `StreamingLifeCorrect`
needs the types only: each action maps to a step of `OutputLife` or leaves the
stream alone, but for an `InitSucceeds` or `Quit` that throws the output away.

`StreamOutputProofs` proves every safety property of `StreamOutput`, and that it
implements `OutputLife`, for any number of starts, stops, packets and broken
connections. The argument has four layers.

- `Known`, for every behaviour: the types; that only threads of starts that have
  happened run and that `ending` is set exactly while the end thread runs
  (`Threaded`); and, unless a start was `hurried`, that the threads of all starts
  but the last have ended (`Lone`). After it five places say where everything is:
  the user's, the end thread's, and those of the last start's two threads and
  where the user goes on.
- `Parts`, for behaviours that were not `hurried`: which places go together
  (`Together`), where a stop and a destruction meet the stream (`Visits`), what is
  captured (`Capturing`), that one thread only gets past the test of `active` and
  `data_active` (`OneEnds`), that a stop without an overlap comes while the send
  thread is in its loop (`StopsEarly`), what has been signalled and told
  (`Signalled`, `Announced`), what may still run when the output is freed
  (`Freeing`). Each part names the races it does without, so that `OneEndThread`
  is proved in behaviours with an overlapping stop.
- For `StartNeverBlocks` and `CaptureBalanced`, which are claimed in `hurried`
  behaviours too: as long as `stopping_event` is reset somebody is on the way to
  set it (`EventOwed`); a client that believes there is no stream was told so
  (`Told`); an activating connect thread is alone, and whoever ends a capture
  cleared `data_active` before its end thread (`Balanced`).
- The refinement: without the races that `ImplementsOutputLife` names the
  abstract state is a function of `active`, `ending`, `stopping_event` and those
  places (`LifeView`), and each thread's step is a step of `OutputLife` or a
  stutter of it.

`FFmpegOutputProofs` proves `FileIntact`, `NothingCut`, `Restartable` and the
refinement of `OutputLife` for any number of recordings, packets and stops. Its
invariant is built the same way: `Known` (types, `Lone`, and `Paired`: the flags
say where the start and the write thread are), `Stamped` (everything in the
output belongs to its last recording), `Sorted` (the packets of before the stop
are ahead of the others, and a write thread that ends at a timestamp has left
none of them), and `Safe`: unless a recording ended `early` or a stop overlapped
an end, `Capturing`, `Filing`, `Finishing`, `Stopped` and `Telling` tie the file,
the hooks and the flags to the places of the threads that may close it.

`EncoderProofs` proves the types, `BeginsWholeAlone` and `AudioAligned` for any
set of outputs, any periods, and any sizes of blocks and frames. For
`BeginsWholeAlone` the invariant is `Whole`: an encoder keeps its data while it
is initialized or active, has outputs only while it is active, and none while its
`init_mutex` is held; an output that has come past a step of its start finds what
that step made, unless another one was stopped meanwhile. For `AudioAligned` it
is `InStep`: the buffer holds one sample after the other, from the first that is
not encoded yet (`Origin`) to the audio thread's next block, until the start
exactly from the first audio received on; and of a pair the video does not start
before that (`PairInOrder`). What is encoded at a pts is then less than a sample
from the time the pts says.

`InterleaveProofs` proves the types, `NothingLost` and `InSync` for any number of
tracks and packets, all periods, keyframe intervals, restarts and skews, and
`Monotonic` for an encoder that reorders nothing (`Reorder = 0`). What holds of
the packets of an output is `Held`: each has the time that its number and the
offset of its encoder give it; the queue is in order of time; the packets of the
video, and those of all tracks together, are in the order in which they came;
and with a packet all that came after it are there (`Complete`, which makes
pruning from the front harmless). `Rounds` says that the audio thread serves the
tracks in turn, so that no two tracks are more than a packet apart. From these it
follows what pruning leaves: no track begins more than a video frame and an audio
packet after the first picture (`Near`), nor more than an audio packet before it
(`StartNotEarly`); that is `InSync`. It is also what makes resorting after the
offsets keep the order of each encoder, for `Resort` inserts packet after packet
and its result is found by induction over how many it has inserted.
`Monotonic` adds `Timely`: the highest times so far do not lie beyond the packets
to come, so that a packet which `has_higher_opposing_ts` lets go is before all of
them. With reordering the start of the stream breaks this by `Reorder`, and no
more: `LateByReorderAtMost` proves that no packet is sent further behind an
earlier one than pts and dts of a keyframe differ, which bounds the
[finding](#findings). The proofs assume of the constants what
`InterleaveAssumption` says: positive counts and periods, and that the audio
clock does not start before time 0.

`RefCountProofs` proves `TypeOK`, `NoUseAfterFree` and `NoLeak` for every finite
set of handles (`RefCountAssumption`). The invariant: the two counts are the
numbers of handles that hold a reference (`Counts`); while there is an owner the
object is whole, and afterwards one handle takes it down step by step (`Death`);
the control block goes with the last weak reference (`Block`); a call that reads
a count relies on a reference that is kept, or on the list and its mutex
(`Loans`). `Counts` rests on a lemma on the cardinality of the handles in a
state when one of them changes its state.

None of these proofs uses the bounds (`MaxTicks`, `MaxRounds`, `MaxCommands`
...): they are arbitrary constants there.

Every safety property of the passing runs is proved. Only model-checked are the
liveness properties (`AllDelivered`, `StopCompletes`, `StartAnswered`,
`UserReturns`): liveness and ENABLED are out of the prover's reach.

## What is not modelled

- Pictures, samples, packets and files as data: a frame is its timestamp and
  counts, a picture the number of its scene, a packet one of `packets`.
- Reconnects and stream delay: the recorder sets both to zero
  (`recorder-outputs.cpp`, `set_reconnect_settings`); in the plan.
- `stop_code`: `Recorder` tells success from error; which error is not modelled.
- The new socket loop of rtmp-stream (an option that is off by default), and which
  frames a congested stream drops (`DropFrames` drops any, from any length of the queue on).
- librtmp, Qt, Windows and the graphics devices are external: a call into them
  succeeds or fails.
- Memory exhaustion and failures of `pthread_create`.
- An encoder that fails to encode or to be created (`full_stop`), and
  `destroy_on_stop`. `full_stop` takes `callbacks_mutex` and `init_mutex` in the
  order opposite to a stop; the hazard is listed.
- Captions (compiled out) and the commands that only set a property of a source
  (crop, mute, devices, window).
- A message of the server that arrives in two pieces.
- What the context thread finds deleted when the program quits (memory).
- Signal handlers that connect or disconnect during a signal; a signal is one call.
- The audio pipeline, and sources, scenes and transitions: left for want of time
  (audio) or because they are mostly rendering and plumbing of properties.
- Rendering, graphics back ends, capture plugins, wrappers of codecs, tables of
  services, property and data containers, and vendored code (librtmp, ftl-sdk,
  jansson, glad). They make up most of the repository's lines and have little
  control of their own that the recorder depends on, so the models cover the
  core of the recorder, not a large share of all lines.
