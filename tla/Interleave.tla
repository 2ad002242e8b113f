----------------------------- MODULE Interleave -----------------------------
(***************************************************************************)
(* The interleaving of encoded packets in an output                        *)
(* (interleave_packets of libobs/obs-output.c).                            *)
(*                                                                         *)
(* The video thread and the audio thread hand the packets of one video     *)
(* encoder and of one encoder per audio track to the output.  The output   *)
(* queues them by time, holds the stream back until it has a keyframe and  *)
(* audio beside it, moves every encoder's clock to zero and sends a packet *)
(* only when one of the other type with a higher time has come.            *)
(*                                                                         *)
(* Times are ticks.  dts is the dts_usec of a packet: until the stream     *)
(* starts the encoder's clock plus the encoder's base (system time), then  *)
(* the clock minus the offset of its encoder.  interleaved_mutex makes one *)
(* call one step.                                                          *)
(***************************************************************************)
EXTENDS Integers, Sequences, SequencesExt, FiniteSetsExt, TLC

CONSTANTS
  NumTracks,    \* audio tracks of the output, num_audio_mixes()
  VideoPeriod,  \* ticks between two video packets
  AudioPeriod,  \* ticks between two packets of an audio track
  Reorder,      \* pts - dts of a keyframe: ticks the encoder reorders over
  KeyInterval,  \* video packets from one keyframe to the next
  Skews,        \* times at which the audio clock may start beside the video's
  MaxVideo,     \* bound: video packets
  MaxAudio,     \* bound: packets of each audio track
  MaxRestarts   \* bound: times the output is stopped and started again

Origin == 100    \* the system time at the video clock's zero

\* No clock starts before the system's.
ASSUME InterleaveAssumption ==
  /\ {NumTracks, VideoPeriod, AudioPeriod, KeyInterval} \subseteq Nat \ {0}
  /\ {Reorder, MaxVideo, MaxAudio, MaxRestarts} \subseteq Nat
  /\ Skews \subseteq {s \in Int : Origin + s >= 0}

Video   == -1    \* the source that is no track
Tracks  == 0 .. NumTracks - 1
Sources == Tracks \cup {Video}

VARIABLES
  next,      \* [Sources -> number of the encoder's next packet]
  turn,      \* the track the audio thread serves next
  skew,      \* the audio clock at the video clock's zero
  out,       \* the output: its queue, received_*, highest_*_ts and *_offset
  sent,      \* packets given to info.encoded_packet since the start
  restarts   \* history: restarts so far

vars == <<next, turn, skew, out, sent, restarts>>

(***************************************************************************)
(* What the encoders give: a packet has the number its encoder gave it,    *)
(* and nothing but its time and whether it is a keyframe matters.          *)
(***************************************************************************)
Abs(x) == IF x < 0 THEN -x ELSE x

IsVideo(p) == p.src = Video
Clock(s, n) == n * (IF s = Video THEN VideoPeriod ELSE AudioPeriod)
Packet(s, n) ==
  [src |-> s, n |-> n, dts |-> Origin + Clock(s, n) + (IF s = Video THEN 0 ELSE skew),
   keyframe |-> s = Video /\ n % KeyInterval = 0]

(* reset_packet_data; audio_offsets is set before its next use.            *)
Reset == [packets |-> <<>>, gotVideo |-> FALSE, gotAudio |-> FALSE,
          highestVideo |-> 0, highestAudio |-> 0,
          offset |-> [s \in Sources |-> 0]]

Started(o) == o.gotVideo /\ o.gotAudio

(***************************************************************************)
(* The queue.                                                              *)
(***************************************************************************)
At(ps, s)    == {i \in DOMAIN ps : ps[i].src = s}
First(ps, s) == ps[Min(At(ps, s))]
Latest(ps, s) == ps[Max(At(ps, s))]
Discard(ps, k) == SubSeq(ps, k + 1, Len(ps))

(* Behind the packets of the same time, but video before audio.            *)
Insert(ps, p) ==
  LET later == {i \in DOMAIN ps : \/ p.dts < ps[i].dts
                                  \/ p.dts = ps[i].dts /\ IsVideo(p)}
  IN  InsertAt(ps, IF later = {} THEN Len(ps) + 1 ELSE Min(later), p)

Resort(ps) ==
  LET sorted[k \in 0 .. Len(ps)] ==
        IF k = 0 THEN <<>> ELSE Insert(sorted[k - 1], ps[k])
  IN  sorted[Len(ps)]

SetHigher(o, p) ==
  IF IsVideo(p) THEN [o EXCEPT !.highestVideo = Max({@, p.dts})]
                ELSE [o EXCEPT !.highestAudio = Max({@, p.dts})]

ApplyOffset(o, p) == [p EXCEPT !.dts = Clock(p.src, p.n) - o.offset[p.src]]

\* Mutant: any later packet will do
HasHigher(o, p) == o.highestAudio > p.dts \/ o.highestVideo > p.dts

HasHigherOpposing(o, p) ==
  IF IsVideo(p) THEN o.highestAudio > p.dts ELSE o.highestVideo > p.dts

(***************************************************************************)
(* The start of the stream.                                                *)
(***************************************************************************)
NoVideo(ps) == At(ps, Video) = {}
NoAudio(ps) == \E t \in Tracks : At(ps, t) = {}
Lacking(ps) == NoVideo(ps) \/ NoAudio(ps)
Unreceive(o) == [o EXCEPT !.gotVideo = @ /\ ~NoVideo(o.packets),
                          !.gotAudio = @ /\ ~NoAudio(o.packets)]

(* The packets before the audio closest to the first video, and before it. *)
StartIdx(ps) ==
  LET v       == Min(At(ps, Video))
      audio   == DOMAIN ps \ At(ps, Video)
      Far(i)  == Abs(ps[i].dts - ps[v].dts)
      closest == {i \in audio : \A j \in audio : Far(i) <= Far(j)}
  IN  Min({v, Min(closest)}) - 1

\* Mutant: nothing is ever premature
NeverPremature(ps) == 0

(* Audio that begins more than a frame after the video: the code computes  *)
(* the largest difference of any track and compares the last track's.      *)
PrematureIdx(ps) ==
  LET late == First(ps, NumTracks - 1).dts - First(ps, Video).dts
  IN  IF late > VideoPeriod THEN Max({Min(At(ps, s)) : s \in Sources}) ELSE 0

(* The first packets of every encoder become time 0 (pts 0 for video).     *)
Rebase(o) ==
  LET ps    == o.packets
      based == [o EXCEPT
        !.offset = [s \in Sources |-> Clock(s, First(ps, s).n) +
                                        (IF s = Video THEN Reorder ELSE 0)],
        !.highestVideo = @ - First(ps, Video).dts,
        !.highestAudio = @ - First(ps, 0).dts]
  IN  [based EXCEPT !.packets =
         Resort([i \in DOMAIN ps |-> ApplyOffset(based, ps[i])])]

Initialize(o) ==
  LET ps    == o.packets
      short == \E t \in Tracks : Latest(ps, t).dts < First(ps, Video).dts
      cut   == [o EXCEPT !.packets = Discard(ps, StartIdx(ps))]
  IN  IF Lacking(ps) THEN Unreceive(o)
      ELSE IF short THEN [o EXCEPT !.gotAudio = FALSE]
      ELSE IF Lacking(cut.packets) THEN Unreceive(cut)
      ELSE Rebase(cut)

(* prune_interleaved_packets, then initialize_interleaved_packets.  A      *)
(* missing video is seen first, and alone.                                 *)
Prune(o) ==
  LET ps    == o.packets
      early == PrematureIdx(ps)
  IN  IF NoVideo(ps) THEN [o EXCEPT !.gotVideo = FALSE]
      ELSE IF NoAudio(ps) THEN [o EXCEPT !.gotAudio = FALSE]
      ELSE Initialize([o EXCEPT !.packets =
             Discard(ps, IF early # 0 THEN early ELSE StartIdx(ps))])

(***************************************************************************)
(* interleave_packets.                                                     *)
(***************************************************************************)
(* What the call leaves in the output before it sends.                     *)
Queued(o, p) ==
  LET got  == [o EXCEPT !.gotVideo = @ \/ IsVideo(p), !.gotAudio = @ \/ ~IsVideo(p)]
      q    == IF Started(o) THEN ApplyOffset(o, p) ELSE p
      held == SetHigher([got EXCEPT !.packets = Insert(@, q)], q)
  IN  IF Started(got) /\ ~Started(o) THEN Prune(held) ELSE held

Send(o) ==
  IF Started(o) /\ HasHigherOpposing(o, Head(o.packets))
  THEN /\ out' = [o EXCEPT !.packets = Tail(@)]
       /\ sent' = Append(sent, Head(o.packets))
  ELSE out' = o /\ UNCHANGED sent

(* The front of the queue, up to the first packet of that time or later.   *)
DiscardOlder(ps, dts) ==
  LET kept == {i \in DOMAIN ps : ps[i].dts >= dts}
  IN  IF kept = {} THEN <<>> ELSE Discard(ps, Min(kept) - 1)

\* Mutant: received_video is not looked at
DropEveryNonKey(p) ==
  /\ IsVideo(p) /\ ~p.keyframe
  /\ out' = [out EXCEPT !.packets = DiscardOlder(@, p.dts)]
  /\ UNCHANGED sent

(* A video packet before the first keyframe is dropped, with the audio     *)
(* that is older.                                                          *)
DropNonKey(p) ==
  /\ ~out.gotVideo /\ IsVideo(p) /\ ~p.keyframe
  /\ out' = [out EXCEPT !.packets = DiscardOlder(@, p.dts)]
  /\ UNCHANGED sent

Keep(p) ==
  /\ out.gotVideo \/ ~IsVideo(p) \/ p.keyframe
  /\ Send(Queued(out, p))

VideoPacket ==
  /\ next[Video] < MaxVideo
  /\ DropNonKey(Packet(Video, next[Video])) \/ Keep(Packet(Video, next[Video]))
  /\ next' = [next EXCEPT ![Video] = @ + 1]
  /\ UNCHANGED <<turn, skew, restarts>>

(* The audio thread serves the tracks in order, block after block.         *)
AudioPacket ==
  /\ next[turn] < MaxAudio
  /\ Keep(Packet(turn, next[turn]))
  /\ next' = [next EXCEPT ![turn] = @ + 1]
  /\ turn' = (turn + 1) % NumTracks
  /\ UNCHANGED <<skew, restarts>>

(* hook_data_capture: the output stopped and started, the encoders went on *)
(* for another output.                                                     *)
HookDataCapture ==
  /\ restarts < MaxRestarts
  /\ out' = Reset
  /\ sent' = <<>>
  /\ restarts' = restarts + 1
  /\ UNCHANGED <<next, turn, skew>>

Init ==
  /\ next = [s \in Sources |-> 0]
  /\ turn = 0
  /\ skew \in Skews
  /\ out = Reset /\ sent = <<>> /\ restarts = 0

Next == VideoPacket \/ AudioPacket \/ HookDataCapture

Spec == Init /\ [][Next]_vars

-----------------------------------------------------------------------------

(* The packets sent never go back in time (the comment above               *)
(* has_higher_opposing_ts in send_interleaved promises it).                *)
Monotonic ==
  \A i \in 1 .. Len(sent) - 1 : sent[i].dts <= sent[i + 1].dts

(* The packets of an encoder are in order, without a gap.                  *)
Consecutive(ps, s) ==
  \A i, j \in At(ps, s) : i < j =>
    /\ ps[i].n < ps[j].n
    /\ \A m \in ps[i].n .. ps[j].n : \E k \in At(ps, s) : ps[k].n = m

(* Once the stream has started nothing of an encoder is lost, repeated or  *)
(* out of order: what was sent and what is queued of it are consecutive    *)
(* packets up to the last one that came.                                   *)
NothingLost ==
  Started(out) =>
    \A s \in Sources :
      LET all == sent \o out.packets
      IN  /\ At(all, s) # {} /\ Latest(all, s).n = next[s] - 1
          /\ Consecutive(all, s)

(* Moving the clocks to zero moves the sound against the picture by no     *)
(* more than a video frame and an audio packet together, the error that    *)
(* apply_interleaved_packet_offset speaks of.                              *)
InSync ==
  Started(out) =>
    \A t \in Tracks :
      Abs((out.offset[t] + skew) - (out.offset[Video] - Reorder))
        <= VideoPeriod + AudioPeriod
=============================================================================
