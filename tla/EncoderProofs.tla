--------------------------- MODULE EncoderProofs ---------------------------
(***************************************************************************)
(* Proofs about Encoder for any outputs, clocks and frame sizes.           *)
(***************************************************************************)
EXTENDS Encoder, TLAPS

EncoderRecord ==
  [data : BOOLEAN, initialized : BOOLEAN, active : BOOLEAN,
   callbacks : SUBSET Outputs, paired : Encoders \cup {None},
   first_received : BOOLEAN, start_ts : Nat, cur_pts : Nat]

TypeOK ==
  /\ phase \in [Outputs -> Phase]
  /\ context \in Outputs \cup {None}
  /\ init \in [Encoders -> Outputs \cup {None}]
  /\ enc \in [Encoders -> EncoderRecord]
  /\ buffer \in Seq(Nat) /\ firstRaw \in Nat
  /\ videoTime \in Nat \ {0} /\ audioTime \in Nat \ {0}
  /\ todo \in SUBSET Outputs /\ heard \in BOOLEAN
  /\ packets \in [times : Seq(Nat), pts : Nat, start : Nat, both : BOOLEAN]
  /\ starts \in Nat /\ crossed \in SUBSET Outputs

-----------------------------------------------------------------------------
(* What holds of the fields of an encoder whose init_mutex is held by m.   *)

Sound(r, m) ==
  /\ r.initialized \/ r.active => r.data
  /\ r.callbacks # {} => r.active
  /\ m # None => r.callbacks = {}

Removing(ph, m, o) ==
  /\ ph = "removeVideo" => m[o] = o
  /\ ph = "removeAudio" => m[Audio] = o

Prepared(ph, e, o) ==
  /\ ph \in {"initializing", "connecting", "beginning"} => e[o].data /\ e[Audio].data
  /\ ph \in {"beginning", "begun"} => o \in e[Audio].callbacks
  /\ ph = "begun" => o \in e[o].callbacks

Whole ==
  /\ \A e \in Encoders : Sound(enc[e], init[e])
  /\ \A o \in Outputs : Removing(phase[o], init, o)
  /\ \A o \in Outputs \ crossed : Prepared(phase[o], enc, o)

-----------------------------------------------------------------------------
(* Sequences of times one sample apart.                                    *)

Ticks(n) == n * SamplePeriod

LEMMA Periods ==
  /\ SamplePeriod \in Nat \ {0} /\ BlockFrames \in Nat \ {0}
  /\ FrameSize \in Nat \ {0} /\ VideoPeriod \in Nat \ {0}
BY EncoderAssumption

LEMMA Ticking ==
  /\ \A a, b \in Int : /\ Ticks(a) \in Int
                       /\ Ticks(a + b) = Ticks(a) + Ticks(b)
                       /\ Ticks(a - b) = Ticks(a) - Ticks(b)
  /\ \A a \in Nat : Ticks(a) \in Nat /\ (a > 0 => Ticks(a) > 0)
  /\ \A a, b \in Int : Ticks(a) < Ticks(b) => a < b
  /\ Ticks(0) = 0
BY Periods, SMT DEF Ticks

LEMMA Division ==
  ASSUME NEW x \in Nat
  PROVE  /\ x \div SamplePeriod \in Nat
         /\ x - Ticks(x \div SamplePeriod) \in 0 .. SamplePeriod - 1
         /\ FrameSize * (x \div FrameSize) \in 0 .. x
<1>1. x \div SamplePeriod \in Nat
      /\ x - Ticks(x \div SamplePeriod) \in 0 .. SamplePeriod - 1
  BY Periods, SMT DEF Ticks
<1>2. FrameSize * (x \div FrameSize) \in 0 .. x
  BY Periods, SMT
<1> QED BY <1>1, <1>2

Runs(s, b) == \A i \in 1 .. Len(s) : s[i] = b + Ticks(i - 1)

LEMMA RunsBlock ==
  ASSUME NEW s \in Seq(Nat), NEW b \in Nat, Runs(s, b),
         NEW t \in Nat, t = b + Ticks(Len(s))
  PROVE  /\ s \o Block(t) \in Seq(Nat)
         /\ Len(s \o Block(t)) = Len(s) + BlockFrames
         /\ Runs(s \o Block(t), b)
         /\ b + Ticks(Len(s \o Block(t))) = BlockEnd(t)
<1>1. BlockFrames \in Nat \ {0} /\ Len(s) \in Nat
  BY EncoderAssumption
<1>2. \A i \in 1 .. BlockFrames : t + (i - 1) * SamplePeriod \in Nat
  <2> SUFFICES ASSUME NEW i \in 1 .. BlockFrames
               PROVE  t + (i - 1) * SamplePeriod \in Nat
    OBVIOUS
  <2>1. i - 1 \in Nat
    BY <1>1
  <2>2. Ticks(i - 1) \in Nat
    BY <2>1, Ticking
  <2>3. t + Ticks(i - 1) \in Nat
    BY <2>2
  <2> QED BY <2>3, Zenon DEF Ticks
<1>3. Block(t) \in Seq(Nat) /\ Len(Block(t)) = BlockFrames
  BY <1>1, <1>2 DEF Block
<1>4. /\ s \o Block(t) \in Seq(Nat)
      /\ Len(s \o Block(t)) = Len(s) + BlockFrames
  BY <1>3, SMTT(30)
<1>5. ASSUME NEW i \in 1 .. Len(s) + BlockFrames
      PROVE  (s \o Block(t))[i] = b + Ticks(i - 1)
  <2>1. CASE i =< Len(s)
    <3>1. (s \o Block(t))[i] = s[i]
      BY <1>3, <2>1
    <3> QED BY <1>1, <2>1, <3>1 DEF Runs
  <2>2. CASE i > Len(s)
    <3>1. (s \o Block(t))[i] = Block(t)[i - Len(s)]
      BY <1>1, <1>3, <2>2
    <3>2. i - Len(s) \in 1 .. BlockFrames
      BY <1>1, <2>2
    <3>3. Block(t)[i - Len(s)] = t + Ticks(i - Len(s) - 1)
      BY <3>2 DEF Block, Ticks
    <3>4. Ticks(Len(s)) + Ticks(i - Len(s) - 1) = Ticks(Len(s) + (i - Len(s) - 1))
      BY <1>1, <3>2, Ticking
    <3>5. Len(s) + (i - Len(s) - 1) = i - 1
      BY <1>1
    <3>6. Ticks(Len(s)) \in Nat /\ Ticks(i - Len(s) - 1) \in Int
      BY <1>1, <3>2, Ticking
    <3>7. Ticks(Len(s)) + Ticks(i - Len(s) - 1) = Ticks(i - 1)
      BY <3>4, <3>5
    <3>8. t + Ticks(i - Len(s) - 1) = b + Ticks(i - 1)
      BY <3>6, <3>7
    <3> QED BY <3>1, <3>3, <3>8
  <2>3. i \in Nat
    BY <1>1
  <2>4. i =< Len(s) \/ i > Len(s)
    BY <1>1, <2>3
  <2> QED BY <2>1, <2>2, <2>4
<1>6. Runs(s \o Block(t), b)
  BY <1>4, <1>5 DEF Runs
<1>7. Ticks(Len(s) + BlockFrames) = Ticks(Len(s)) + Ticks(BlockFrames)
  BY <1>1, Ticking
<1>8. Ticks(Len(s)) \in Nat /\ Ticks(BlockFrames) \in Nat
  BY <1>1, Ticking
<1>9. b + Ticks(Len(s) + BlockFrames) = t + Ticks(BlockFrames)
  BY <1>7, <1>8
<1>10. b + Ticks(Len(s) + BlockFrames) = BlockEnd(t)
  BY <1>9, Zenon DEF BlockEnd, Ticks
<1> QED BY <1>4, <1>6, <1>10

LEMMA RunsCut ==
  ASSUME NEW s \in Seq(Nat), NEW b \in Nat, Runs(s, b),
         NEW n \in 0 .. Len(s)
  PROVE  /\ SubSeq(s, 1, n) \in Seq(Nat) /\ Len(SubSeq(s, 1, n)) = n
         /\ Runs(SubSeq(s, 1, n), b)
         /\ SubSeq(s, n + 1, Len(s)) \in Seq(Nat)
         /\ Len(SubSeq(s, n + 1, Len(s))) = Len(s) - n
         /\ Runs(SubSeq(s, n + 1, Len(s)), b + Ticks(n))
<1>1. n \in Nat /\ Len(s) \in Nat
  OBVIOUS
<1>2. SubSeq(s, 1, n) \in Seq(Nat) /\ Len(SubSeq(s, 1, n)) = n
  BY <1>1
<1>3. Runs(SubSeq(s, 1, n), b)
  BY <1>1, <1>2 DEF Runs
<1>4. /\ SubSeq(s, n + 1, Len(s)) \in Seq(Nat)
      /\ Len(SubSeq(s, n + 1, Len(s))) = Len(s) - n
  BY <1>1
<1>5. ASSUME NEW i \in 1 .. Len(s) - n
      PROVE  SubSeq(s, n + 1, Len(s))[i] = b + Ticks(n) + Ticks(i - 1)
  <2>1. SubSeq(s, n + 1, Len(s))[i] = s[n + i]
    BY <1>1
  <2>2. s[n + i] = b + Ticks(n + i - 1)
    BY <1>1 DEF Runs
  <2>3. Ticks(n + (i - 1)) = Ticks(n) + Ticks(i - 1)
    BY <1>1, Ticking
  <2>4. n + (i - 1) = n + i - 1
    BY <1>1
  <2>5. Ticks(n) \in Nat /\ Ticks(i - 1) \in Int
    BY <1>1, Ticking
  <2>6. Ticks(n + i - 1) = Ticks(n) + Ticks(i - 1)
    BY <2>3, <2>4
  <2> QED BY <2>1, <2>2, <2>5, <2>6
<1> QED BY <1>2, <1>3, <1>4, <1>5 DEF Runs

(* From gives the end of s that begins less than one sample before v.      *)
LEMMA FromRuns ==
  ASSUME NEW s \in Seq(Nat), NEW b \in Nat, Runs(s, b), NEW v \in Nat, b =< v,
         v < b + Ticks(Len(s))
  PROVE  \E d \in Nat :
           /\ d =< Len(s) /\ v - (b + Ticks(d)) \in 0 .. SamplePeriod - 1
           /\ From(s, b, v) \in Seq(Nat) /\ Len(From(s, b, v)) = Len(s) - d
           /\ Runs(From(s, b, v), b + Ticks(d))
<1> DEFINE d == (v - b) \div SamplePeriod
<1>1. v - b \in Nat /\ Len(s) \in Nat
  OBVIOUS
<1>2. d \in Nat /\ v - b - Ticks(d) \in 0 .. SamplePeriod - 1 /\ Ticks(d) \in Nat
  BY <1>1, Division, Ticking
<1>3. SamplePeriod \in Nat \ {0} /\ Ticks(Len(s)) \in Nat
  BY <1>1, Periods, Ticking
<1>4. Ticks(d) < Ticks(Len(s))
  BY <1>1, <1>2, <1>3
<1> HIDE DEF d
<1>5. d < Len(s)
  BY <1>1, <1>2, <1>4, Ticking
<1>6. v - (b + Ticks(d)) \in 0 .. SamplePeriod - 1
  BY <1>2
<1>7. CASE b < v
  <2>1. From(s, b, v) = SubSeq(s, d + 1, Len(s))
    BY <1>7 DEF From, d
  <2>2. d \in 0 .. Len(s)
    BY <1>1, <1>2, <1>5
  <2>3. /\ From(s, b, v) \in Seq(Nat) /\ Len(From(s, b, v)) = Len(s) - d
        /\ Runs(From(s, b, v), b + Ticks(d))
    BY <2>1, <2>2, RunsCut, SMTT(30)
  <2> QED BY <1>2, <1>5, <1>6, <2>3
<1>8. CASE b = v
  <2>1. From(s, b, v) = s
    BY <1>8 DEF From
  <2>2. v - (b + Ticks(0)) \in 0 .. SamplePeriod - 1 /\ b + Ticks(0) = b
    <3>1. b + 0 = b /\ v - b = 0 /\ 0 \in 0 .. SamplePeriod - 1
      BY <1>3, <1>8
    <3> QED BY <3>1, <1>8, Ticking
  <2>3. 0 \in Nat /\ 0 =< Len(s) /\ Len(s) - 0 = Len(s)
    BY <1>1
  <2> QED BY <2>1, <2>2, <2>3
<1> QED BY <1>7, <1>8

-----------------------------------------------------------------------------
(* Types.                                                                  *)

LEMMA ShutdownType ==
  ASSUME NEW r \in EncoderRecord
  PROVE  Shutdown(r) \in EncoderRecord
BY DEF Shutdown, EncoderRecord

LEMMA HelperTypes ==
  ASSUME NEW r \in EncoderRecord, NEW o \in Outputs
  PROVE  /\ Initialized(r) \in EncoderRecord /\ Started(r, o) \in EncoderRecord
         /\ Removed(r) \in EncoderRecord
         /\ [r EXCEPT !.callbacks = @ \ {o}] \in EncoderRecord
<1>1. Shutdown(r) \in EncoderRecord
  BY ShutdownType
<1>2. Initialized(r) \in EncoderRecord
  BY <1>1 DEF Initialized, EncoderRecord
<1>3. Started(r, o) \in EncoderRecord
  BY DEF Started, EncoderRecord
<1>4. Removed(r) \in EncoderRecord
  BY <1>1 DEF Removed, EncoderRecord
<1>5. [r EXCEPT !.callbacks = @ \ {o}] \in EncoderRecord
  BY DEF EncoderRecord
<1> QED BY <1>2, <1>3, <1>4, <1>5

LEMMA Names ==
  ASSUME NEW o \in Outputs
  PROVE  /\ o \in Encoders /\ Audio \in Encoders /\ Audio # o
         /\ None # o /\ None # Audio
BY EncoderAssumption DEF Encoders

LEMMA UpdType ==
  ASSUME TypeOK, NEW e \in Encoders, NEW r \in EncoderRecord, Upd(e, r)
  PROVE  enc' \in [Encoders -> EncoderRecord]
BY DEF TypeOK, Upd

LEMMA OutputTypes ==
  ASSUME TypeOK, NEW o \in Outputs,
         \/ Initialize(o) \/ Pair(o) \/ Fail(o) \/ BeginAudio(o) \/ BeginVideo(o)
         \/ End(o) \/ StopVideo(o) \/ RemoveVideo(o) \/ StopAudio(o)
         \/ RemoveAudio(o) \/ ReceiveVideo(o)
  PROVE  TypeOK'
<1>1. o \in Encoders /\ Audio \in Encoders /\ Audio # o
  BY Names
<1>2. enc[o] \in EncoderRecord /\ enc[Audio] \in EncoderRecord
  BY <1>1 DEF TypeOK
<1>3. /\ \A r \in EncoderRecord :
           /\ Initialized(r) \in EncoderRecord /\ Started(r, o) \in EncoderRecord
           /\ Removed(r) \in EncoderRecord
           /\ [r EXCEPT !.callbacks = @ \ {o}] \in EncoderRecord
  BY HelperTypes
<1>4. \A p \in Phase : Goto(o, p) => phase' \in [Outputs -> Phase]
  BY DEF TypeOK, Goto
<1>5. \A p : LeaveContext(o) => context' \in Outputs \cup {None}
  BY DEF TypeOK, LeaveContext
<1>6. CASE Initialize(o)
  <2>1. enc' \in [Encoders -> EncoderRecord]
    BY <1>1, <1>2, <1>3, <1>6 DEF TypeOK, Initialize
  <2>2. phase' \in [Outputs -> Phase]
    BY <1>4, <1>6 DEF Initialize, Phase
  <2>3. buffer' \in Seq(Nat)
    BY <1>6 DEF TypeOK, Initialize
  <2>4. context' \in Outputs \cup {None} /\ starts' \in Nat
        /\ crossed' \in SUBSET Outputs
    BY <1>6 DEF TypeOK, Initialize
  <2>5. UNCHANGED <<init, firstRaw, media>>
    BY <1>6 DEF Initialize
  <2> QED BY <2>1, <2>2, <2>3, <2>4, <2>5 DEF TypeOK, media
<1>7. CASE Pair(o)
  <2>1. enc' \in [Encoders -> EncoderRecord]
    <3>1. /\ [enc[o] EXCEPT !.paired = Audio] \in EncoderRecord
          /\ [enc[Audio] EXCEPT !.paired = o] \in EncoderRecord
      BY <1>1, <1>2 DEF EncoderRecord
    <3> QED BY <1>1, <1>7, <3>1 DEF TypeOK, Pair
  <2>2. phase' \in [Outputs -> Phase]
    BY <1>4, <1>7 DEF Pair, Phase
  <2>3. context' \in Outputs \cup {None}
    BY <1>7 DEF TypeOK, Pair
  <2> QED BY <1>7, <2>1, <2>2, <2>3 DEF TypeOK, Pair, media
<1>8. CASE Fail(o)
  <2>1. phase' \in [Outputs -> Phase] /\ context' \in Outputs \cup {None}
    BY <1>4, <1>5, <1>8 DEF Fail, Phase
  <2> QED BY <1>8, <2>1 DEF TypeOK, Fail, media
<1>9. CASE BeginAudio(o)
  <2>1. enc' \in [Encoders -> EncoderRecord]
    BY <1>1, <1>2, <1>3, <1>9, UpdType DEF BeginAudio
  <2>2. phase' \in [Outputs -> Phase]
    BY <1>4, <1>9 DEF BeginAudio, Phase
  <2> QED BY <1>9, <2>1, <2>2 DEF TypeOK, BeginAudio, media
<1>10. CASE BeginVideo(o)
  <2>1. enc' \in [Encoders -> EncoderRecord]
    BY <1>1, <1>2, <1>3, <1>10, UpdType DEF BeginVideo
  <2>2. phase' \in [Outputs -> Phase] /\ context' \in Outputs \cup {None}
    BY <1>4, <1>5, <1>10 DEF BeginVideo, Phase
  <2> QED BY <1>10, <2>1, <2>2 DEF TypeOK, BeginVideo, media
<1>11. CASE End(o)
  <2>1. phase' \in [Outputs -> Phase]
    BY <1>4, <1>11 DEF End, Phase
  <2> QED BY <1>11, <2>1 DEF TypeOK, End, media
<1>12. ASSUME NEW e \in {o, Audio}, NEW p \in Phase, NEW q \in Phase,
              Stop(e, o, p, q)
       PROVE  TypeOK'
  <2>1. e \in Encoders
    BY <1>1
  <2>2. [enc[e] EXCEPT !.callbacks = @ \ {o}] \in EncoderRecord
    BY <1>2, <1>3
  <2>3. enc' \in [Encoders -> EncoderRecord]
    BY <1>12, <2>1, <2>2, UpdType DEF Stop
  <2>4. phase' \in [Outputs -> Phase]
    BY <1>4, <1>12 DEF Stop
  <2>5. init' \in [Encoders -> Outputs \cup {None}]
    BY <1>12, <2>1 DEF TypeOK, Stop
  <2> QED BY <1>12, <2>3, <2>4, <2>5 DEF TypeOK, Stop, media
<1>13. ASSUME NEW e \in {o, Audio}, NEW p \in Phase, Remove(e, o, p)
       PROVE  TypeOK'
  <2>1. e \in Encoders
    BY <1>1
  <2>2. Removed(enc[e]) \in EncoderRecord
    BY <1>2, <1>3
  <2>3. enc' \in [Encoders -> EncoderRecord]
    BY <1>13, <2>1, <2>2, UpdType DEF Remove
  <2>4. phase' \in [Outputs -> Phase]
    BY <1>4, <1>13 DEF Remove
  <2>5. init' \in [Encoders -> Outputs \cup {None}]
    BY <1>13, <2>1 DEF TypeOK, Remove
  <2> QED BY <1>13, <2>3, <2>4, <2>5 DEF TypeOK, Remove, media
<1>14. CASE ReceiveVideo(o)
  <2>1. videoTime \in Nat \ {0} /\ VideoPeriod \in Nat \ {0}
    BY Periods DEF TypeOK
  <2>2. PICK received \in BOOLEAN :
          Upd(o, IF WaitsForAudio(o) THEN enc[o]
                 ELSE [enc[o] EXCEPT
                        !.start_ts = IF @ = 0 THEN videoTime ELSE @,
                        !.first_received = @ \/ received, !.cur_pts = @ + 1])
    BY <1>14 DEF ReceiveVideo
  <2>3. [enc[o] EXCEPT !.start_ts = IF @ = 0 THEN videoTime ELSE @,
                       !.first_received = @ \/ received, !.cur_pts = @ + 1]
          \in EncoderRecord
    <3>1. /\ (IF enc[o].start_ts = 0 THEN videoTime ELSE enc[o].start_ts) \in Nat
          /\ (enc[o].first_received \/ received) \in BOOLEAN
          /\ enc[o].cur_pts + 1 \in Nat
      BY <1>2, <2>1 DEF EncoderRecord
    <3> QED BY <1>2, <3>1 DEF EncoderRecord
  <2>4. enc' \in [Encoders -> EncoderRecord]
    BY <1>1, <1>2, <2>2, <2>3, UpdType
  <2>5. videoTime' \in Nat \ {0}
    <3>1. videoTime' = videoTime \/ videoTime' = videoTime + VideoPeriod
      BY <1>14 DEF ReceiveVideo
    <3> QED BY <2>1, <3>1
  <2>6. todo' \in SUBSET Outputs
    BY <1>14 DEF TypeOK, ReceiveVideo
  <2> QED BY <1>14, <2>4, <2>5, <2>6 DEF TypeOK, ReceiveVideo
<1>15. {"stopAudio", "removeVideo", "removeAudio", "idle"} \subseteq Phase
  BY DEF Phase
<1> QED
  BY <1>6, <1>7, <1>8, <1>9, <1>10, <1>11, <1>12, <1>13, <1>14, <1>15
  DEF StopVideo, RemoveVideo, StopAudio, RemoveAudio

LEMMA FromType ==
  ASSUME NEW s \in Seq(Nat), NEW first \in Nat, NEW v \in Nat
  PROVE  From(s, first, v) \in Seq(Nat)
<1>1. CASE first < v
  <2> DEFINE d == (v - first) \div SamplePeriod
  <2>1. v - first \in Nat
    BY <1>1
  <2>2. d \in Nat
    BY <2>1, Division
  <2>3. From(s, first, v) = SubSeq(s, d + 1, Len(s))
    BY <1>1 DEF From
  <2> HIDE DEF d
  <2> QED BY <2>2, <2>3
<1>2. CASE ~(first < v)
  BY <1>2 DEF From
<1> QED BY <1>1, <1>2

(* What is handed to the encoder is a whole number of frames.              *)
LEMMA SendFrames ==
  ASSUME TypeOK, NEW start \in Nat, NEW samples \in Seq(Nat),
         NEW both \in BOOLEAN, Send(start, samples, both)
  PROVE  \E n \in 0 .. Len(samples) :
           /\ enc' = [enc EXCEPT ![Audio] =
                        [enc[Audio] EXCEPT !.start_ts = start, !.cur_pts = @ + n]]
           /\ buffer' = SubSeq(samples, n + 1, Len(samples))
           /\ packets' = [times |-> SubSeq(samples, 1, n), pts |-> enc[Audio].cur_pts,
                          start |-> start, both |-> both]
<1> DEFINE n == FrameSize * (Len(samples) \div FrameSize)
<1>1. n \in 0 .. Len(samples)
  BY Division
<1>2. /\ enc' = [enc EXCEPT ![Audio] =
                   [enc[Audio] EXCEPT !.start_ts = start, !.cur_pts = @ + n]]
      /\ buffer' = SubSeq(samples, n + 1, Len(samples))
      /\ packets' = [times |-> SubSeq(samples, 1, n), pts |-> enc[Audio].cur_pts,
                     start |-> start, both |-> both]
  BY Zenon DEF Send, Upd
<1> QED BY <1>1, <1>2, Zenon

LEMMA SendTypes ==
  ASSUME TypeOK, NEW start \in Nat, NEW samples \in Seq(Nat),
         NEW both \in BOOLEAN, Send(start, samples, both)
  PROVE  /\ enc' \in [Encoders -> EncoderRecord]
         /\ buffer' \in Seq(Nat)
         /\ packets' \in [times : Seq(Nat), pts : Nat, start : Nat, both : BOOLEAN]
<1>1. PICK n \in 0 .. Len(samples) :
           /\ enc' = [enc EXCEPT ![Audio] =
                        [enc[Audio] EXCEPT !.start_ts = start, !.cur_pts = @ + n]]
           /\ buffer' = SubSeq(samples, n + 1, Len(samples))
           /\ packets' = [times |-> SubSeq(samples, 1, n), pts |-> enc[Audio].cur_pts,
                          start |-> start, both |-> both]
  BY SendFrames
<1>2. Audio \in Encoders
  BY DEF Encoders
<1>3. enc[Audio] \in EncoderRecord
  BY <1>2 DEF TypeOK
<1>4. enc[Audio].cur_pts \in Nat /\ enc[Audio].cur_pts + n \in Nat
  BY <1>3 DEF EncoderRecord
<1>5. [enc[Audio] EXCEPT !.start_ts = start, !.cur_pts = @ + n] \in EncoderRecord
  BY <1>3, <1>4 DEF EncoderRecord
<1>6. enc' \in [Encoders -> EncoderRecord]
  BY <1>1, <1>2, <1>5 DEF TypeOK
<1>7. buffer' \in Seq(Nat) /\ SubSeq(samples, 1, n) \in Seq(Nat)
  BY <1>1
<1> QED BY <1>1, <1>4, <1>6, <1>7

LEMMA BlockTypes ==
  ASSUME NEW t \in Nat \ {0}
  PROVE  /\ Block(t) \in Seq(Nat) /\ Len(Block(t)) = BlockFrames
         /\ BlockEnd(t) \in Nat \ {0} /\ t < BlockEnd(t)
         /\ BlockEnd(t) = t + Ticks(BlockFrames) /\ Runs(Block(t), t)
<1>1. BlockFrames \in Nat \ {0}
  BY Periods
<1>2. ASSUME NEW i \in 1 .. BlockFrames PROVE t + Ticks(i - 1) \in Nat
  <2>1. i - 1 \in Nat
    BY <1>1
  <2>2. Ticks(i - 1) \in Nat
    BY <2>1, Ticking
  <2> QED BY <2>2
<1>3. Block(t) = [i \in 1 .. BlockFrames |-> t + Ticks(i - 1)]
  BY DEF Block, Ticks
<1>4. Block(t) \in Seq(Nat) /\ Len(Block(t)) = BlockFrames
  BY <1>1, <1>2, <1>3
<1>5. Ticks(BlockFrames) \in Nat \ {0}
  <2>1. BlockFrames \in Nat /\ BlockFrames > 0
    BY <1>1
  <2>2. Ticks(BlockFrames) \in Nat /\ Ticks(BlockFrames) > 0
    BY <2>1, Ticking
  <2> QED BY <2>2
<1>6. BlockEnd(t) = t + Ticks(BlockFrames)
  BY DEF BlockEnd, Ticks
<1>7. Runs(Block(t), t)
  BY <1>3, <1>4 DEF Runs
<1> QED BY <1>4, <1>5, <1>6, <1>7

LEMMA MediaTypes ==
  ASSUME TypeOK,
         VideoFrame \/ AudioArrives \/ KeepAudio \/ StartAudio \/ EncodeAudio
  PROVE  TypeOK'
<1>1. Audio \in Encoders
  BY DEF Encoders
<1>2. enc[Audio] \in EncoderRecord
  BY <1>1 DEF TypeOK
<1>3. /\ Block(audioTime) \in Seq(Nat)
      /\ BlockEnd(audioTime) \in Nat \ {0}
  BY BlockTypes DEF TypeOK
<1>4. CASE VideoFrame
  <2>1. videoTime' = videoTime \/ videoTime' = videoTime + VideoPeriod
    BY <1>4 DEF VideoFrame
  <2>2. videoTime' \in Nat \ {0}
    BY <2>1, Periods DEF TypeOK
  <2>3. todo' \in SUBSET Outputs
    BY <1>4 DEF VideoFrame
  <2> QED BY <1>4, <2>2, <2>3 DEF TypeOK, VideoFrame
<1>5. CASE AudioArrives
  <2>1. [enc[Audio] EXCEPT !.first_received = TRUE] \in EncoderRecord
    BY <1>2 DEF EncoderRecord
  <2>2. enc' \in [Encoders -> EncoderRecord]
    BY <1>1, <1>5, <2>1, UpdType DEF TypeOK, AudioArrives
  <2>3. /\ buffer' \in Seq(Nat) /\ firstRaw' \in Nat
        /\ audioTime' \in Nat \ {0} /\ heard' \in BOOLEAN
    <3>1. CASE enc[Audio].active
      <4>1. /\ heard' = TRUE /\ audioTime' = audioTime
            /\ firstRaw' = firstRaw \/ firstRaw' = audioTime
            /\ buffer' = buffer \/ buffer' = <<>>
        BY <1>5, <3>1 DEF AudioArrives
      <4>2. buffer' \in Seq(Nat)
        <5>1. <<>> \in Seq(Nat)
          OBVIOUS
        <5>2. buffer \in Seq(Nat)
          BY DEF TypeOK
        <5> QED BY <4>1, <5>1, <5>2
      <4>3. firstRaw' \in Nat /\ audioTime' \in Nat \ {0}
        BY <4>1 DEF TypeOK
      <4> QED BY <4>1, <4>2, <4>3
    <3>2. CASE ~enc[Audio].active
      <4>1. /\ audioTime' = BlockEnd(audioTime)
            /\ UNCHANGED <<buffer, firstRaw, heard>>
        BY <1>5, <3>2 DEF AudioArrives
      <4> QED BY <1>3, <4>1 DEF TypeOK
    <3> QED BY <3>1, <3>2
  <2> QED BY <1>5, <2>2, <2>3 DEF TypeOK, AudioArrives
<1>6. CASE KeepAudio
  <2>1. buffer' \in Seq(Nat)
    BY <1>3, <1>6 DEF TypeOK, KeepAudio
  <2> QED BY <1>3, <1>6, <2>1 DEF TypeOK, KeepAudio, EndAudio
<1>7. CASE StartAudio
  <2>1. /\ enc[Audio].paired # None /\ ~WaitsForVideo
        /\ enc[Audio].paired \in Encoders
    BY <1>2, <1>7 DEF StartAudio, EncoderRecord
  <2>2. enc[enc[Audio].paired] \in EncoderRecord
    BY <2>1 DEF TypeOK
  <2>3. VideoStart \in Nat
    BY <2>2 DEF VideoStart, EncoderRecord
  <2> DEFINE samples ==
        IF audioTime <= VideoStart
          THEN From(Block(audioTime), audioTime, VideoStart)
          ELSE From(buffer, firstRaw, VideoStart) \o Block(audioTime)
  <2>4. samples \in Seq(Nat)
    <3>1. /\ From(Block(audioTime), audioTime, VideoStart) \in Seq(Nat)
          /\ From(buffer, firstRaw, VideoStart) \in Seq(Nat)
      BY <1>3, <2>3, FromType DEF TypeOK
    <3> QED BY <1>3, <3>1
  <2>5. Send(VideoStart, samples, enc[enc[Audio].paired].paired = Audio)
    BY <1>7 DEF StartAudio
  <2>6. (enc[enc[Audio].paired].paired = Audio) \in BOOLEAN
    OBVIOUS
  <2> HIDE DEF samples
  <2>7. /\ enc' \in [Encoders -> EncoderRecord]
        /\ buffer' \in Seq(Nat)
        /\ packets' \in [times : Seq(Nat), pts : Nat, start : Nat, both : BOOLEAN]
    BY <2>3, <2>4, <2>5, <2>6, SendTypes
  <2> QED BY <1>3, <1>7, <2>7 DEF TypeOK, StartAudio, EndAudio
<1>8. CASE EncodeAudio
  <2> DEFINE start == IF enc[Audio].start_ts = 0 THEN audioTime
                      ELSE enc[Audio].start_ts
             both  == IF enc[Audio].start_ts = 0 THEN TRUE ELSE packets.both
  <2>1. start \in Nat /\ both \in BOOLEAN
    BY <1>2 DEF TypeOK, EncoderRecord
  <2>2. buffer \o Block(audioTime) \in Seq(Nat)
    BY <1>3 DEF TypeOK
  <2>3. Send(start, buffer \o Block(audioTime), both)
    BY <1>8 DEF EncodeAudio
  <2> HIDE DEF start, both
  <2>4. /\ enc' \in [Encoders -> EncoderRecord]
        /\ buffer' \in Seq(Nat)
        /\ packets' \in [times : Seq(Nat), pts : Nat, start : Nat, both : BOOLEAN]
    BY <2>1, <2>2, <2>3, SendTypes
  <2> QED BY <1>3, <1>8, <2>4 DEF TypeOK, EncodeAudio, EndAudio
<1> QED BY <1>4, <1>5, <1>6, <1>7, <1>8

LEMMA InitTypes == Init => TypeOK
<1> SUFFICES ASSUME Init PROVE TypeOK
  OBVIOUS
<1>1. Created \in EncoderRecord
  BY DEF Created, EncoderRecord
<1>2. enc \in [Encoders -> EncoderRecord]
  BY <1>1 DEF Init
<1>3. videoTime \in Nat \ {0} /\ audioTime \in Nat \ {0}
  BY EncoderAssumption DEF Init
<1>4. packets \in [times : Seq(Nat), pts : Nat, start : Nat, both : BOOLEAN]
  BY DEF Init
<1> QED BY <1>2, <1>3, <1>4 DEF Init, TypeOK, Phase

LEMMA TypeStep == TypeOK /\ [Next]_vars => TypeOK'
<1>1. TypeOK /\ Next => TypeOK'
  BY MediaTypes, OutputTypes DEF Next
<1>2. TypeOK /\ UNCHANGED vars => TypeOK'
  BY DEF TypeOK, vars
<1> QED BY <1>1, <1>2

(* Every field keeps its type, whatever the outputs and the clocks.        *)
THEOREM EncoderTypes == Spec => []TypeOK
<1> QED BY InitTypes, TypeStep, PTL DEF Spec

-----------------------------------------------------------------------------
(* Outputs begin whole.                                                    *)

LEMMA SoundHelpers ==
  ASSUME NEW r \in EncoderRecord, NEW o \in Outputs, NEW m, Sound(r, m)
  PROVE  /\ /\ Sound(Initialized(r), m) /\ Initialized(r).data
            /\ Initialized(r).callbacks = r.callbacks
         /\ m = None =>
              /\ Sound(Started(r, o), None)
              /\ r.data => Started(r, o).data /\ o \in Started(r, o).callbacks
              /\ r.callbacks \subseteq Started(r, o).callbacks
         /\ m = None =>
              Sound([r EXCEPT !.callbacks = @ \ {o}],
                    IF r.callbacks = {o} THEN o ELSE None)
<1>1. /\ Sound(Initialized(r), m) /\ Initialized(r).data
      /\ Initialized(r).callbacks = r.callbacks
  BY DEF Sound, Initialized, Shutdown, EncoderRecord
<1>2. m = None => /\ Sound(Started(r, o), None)
                  /\ r.data => Started(r, o).data /\ o \in Started(r, o).callbacks
                  /\ r.callbacks \subseteq Started(r, o).callbacks
  BY DEF Sound, Started, EncoderRecord
<1>3. m = None =>
        Sound([r EXCEPT !.callbacks = @ \ {o}],
              IF r.callbacks = {o} THEN o ELSE None)
  BY DEF Sound, EncoderRecord
<1> QED BY <1>1, <1>2, <1>3

(* The threads of the media change nothing that Whole looks at.            *)
Same(r, q) ==
  /\ q.data = r.data /\ q.initialized = r.initialized
  /\ q.active = r.active /\ q.callbacks = r.callbacks

LEMMA WholeKept ==
  ASSUME Whole, UNCHANGED <<phase, init, crossed>>,
         \A e \in Encoders : Same(enc[e], enc'[e])
  PROVE  Whole'
<1>1. \A e \in Encoders : Sound(enc'[e], init'[e])
  BY DEF Whole, Sound, Same
<1>2. \A o \in Outputs : Removing(phase'[o], init', o)
  BY DEF Whole
<1>3. ASSUME NEW o \in Outputs \ crossed PROVE Prepared(phase'[o], enc', o)
  <2>1. Same(enc[o], enc'[o]) /\ Same(enc[Audio], enc'[Audio])
    BY DEF Encoders
  <2> QED BY <2>1 DEF Whole, Prepared, Same
<1> QED BY <1>1, <1>2, <1>3 DEF Whole

(* A step of output o keeps what the others rely on.                       *)
LEMMA WholeStep ==
  ASSUME TypeOK, Whole, NEW o \in Outputs, TypeOK',
         \A k \in Outputs \ {o} : /\ phase'[k] = phase[k] /\ enc'[k] = enc[k]
                                  /\ init'[k] = init[k]
                                  /\ init[Audio] = k => init'[Audio] = k
                                  /\ k \notin crossed' => k \notin crossed,
         Sound(enc'[o], init'[o]), Sound(enc'[Audio], init'[Audio]),
         Removing(phase'[o], init', o),
         o \notin crossed' => Prepared(phase'[o], enc', o),
         enc[Audio].callbacks \ {o} \subseteq enc'[Audio].callbacks,
         \/ enc[Audio].data => enc'[Audio].data
         \/ \A k \in Outputs \ {o} : Starting(k) => k \in crossed'
  PROVE  Whole'
<1>1. ASSUME NEW e \in Encoders PROVE Sound(enc'[e], init'[e])
  <2>1. CASE e \in {o, Audio}
    BY <2>1
  <2>2. CASE e \in Outputs \ {o}
    BY <2>2 DEF Whole, Encoders
  <2> QED BY <2>1, <2>2 DEF Encoders
<1>2. ASSUME NEW k \in Outputs \ {o}
      PROVE  Removing(phase'[k], init', k)
  BY DEF Whole, Removing
<1>3. ASSUME NEW k \in Outputs \ {o}, k \notin crossed'
      PROVE  Prepared(phase'[k], enc', k)
  <2>1. Prepared(phase[k], enc, k)
    BY <1>3 DEF Whole
  <2>2. Starting(k) => enc'[Audio].data
    BY <1>3, <2>1 DEF Prepared, Starting
  <2> QED BY <2>1, <2>2 DEF Prepared, Starting
<1> QED BY <1>1, <1>2, <1>3 DEF Whole

LEMMA WholeMedia ==
  ASSUME TypeOK, Whole,
         \/ VideoFrame \/ AudioArrives \/ KeepAudio \/ StartAudio \/ EncodeAudio
         \/ \E o \in Outputs : ReceiveVideo(o)
  PROVE  Whole'
<1>1. ASSUME NEW e \in Encoders, NEW r, Upd(e, r), Same(enc[e], r)
      PROVE  \A k \in Encoders : Same(enc[k], enc'[k])
  BY <1>1 DEF TypeOK, Upd, Same
<1>2. Audio \in Encoders
  BY DEF Encoders
<1>3. enc[Audio] \in EncoderRecord
  BY <1>2 DEF TypeOK
<1>4. enc' = enc => \A k \in Encoders : Same(enc[k], enc'[k])
  BY DEF Same
<1>5. CASE VideoFrame
  BY <1>4, <1>5, WholeKept DEF VideoFrame
<1>6. CASE AudioArrives
  <2>1. Same(enc[Audio], [enc[Audio] EXCEPT !.first_received = TRUE])
    BY <1>3 DEF Same, EncoderRecord
  <2>2. UNCHANGED <<phase, init, crossed>>
    BY <1>6 DEF AudioArrives
  <2>3. enc' = enc \/ Upd(Audio, [enc[Audio] EXCEPT !.first_received = TRUE])
    BY <1>6 DEF AudioArrives
  <2> QED BY <1>1, <1>2, <1>4, <2>1, <2>2, <2>3, WholeKept
<1>7. CASE KeepAudio
  BY <1>4, <1>7, WholeKept DEF KeepAudio, EndAudio
<1>8. ASSUME NEW start, NEW samples, NEW both, Send(start, samples, both), EndAudio
      PROVE  Whole'
  <2> DEFINE r == [enc[Audio] EXCEPT !.start_ts = start, !.cur_pts =
                     @ + FrameSize * (Len(samples) \div FrameSize)]
  <2>1. Upd(Audio, r)
    BY <1>8 DEF Send
  <2>2. Same(enc[Audio], r)
    BY <1>3 DEF Same, EncoderRecord
  <2>3. UNCHANGED <<phase, init, crossed>>
    BY <1>8 DEF EndAudio
  <2> HIDE DEF r
  <2> QED BY <1>1, <1>2, <2>1, <2>2, <2>3, WholeKept
<1>9. CASE StartAudio
  BY <1>8, <1>9, Zenon DEF StartAudio
<1>10. CASE EncodeAudio
  BY <1>8, <1>10, Zenon DEF EncodeAudio
<1>11. ASSUME NEW o \in Outputs, ReceiveVideo(o) PROVE Whole'
  <2>1. PICK received \in BOOLEAN :
          Upd(o, IF WaitsForAudio(o) THEN enc[o]
                 ELSE [enc[o] EXCEPT
                        !.start_ts = IF @ = 0 THEN videoTime ELSE @,
                        !.first_received = @ \/ received, !.cur_pts = @ + 1])
    BY <1>11 DEF ReceiveVideo
  <2>2. o \in Encoders /\ enc[o] \in EncoderRecord
    BY DEF TypeOK, Encoders
  <2>3. Same(enc[o], enc[o])
    BY DEF Same
  <2>4. Same(enc[o], [enc[o] EXCEPT
                        !.start_ts = IF @ = 0 THEN videoTime ELSE @,
                        !.first_received = @ \/ received, !.cur_pts = @ + 1])
    BY <2>2 DEF Same, EncoderRecord
  <2>5. UNCHANGED <<phase, init, crossed>>
    BY <1>11 DEF ReceiveVideo
  <2> QED BY <1>1, <2>1, <2>2, <2>3, <2>4, <2>5, WholeKept
<1> QED BY <1>5, <1>6, <1>7, <1>9, <1>10, <1>11

LEMMA WholeOutput ==
  ASSUME TypeOK, Whole, NEW o \in Outputs,
         \/ Initialize(o) \/ Pair(o) \/ Fail(o) \/ BeginAudio(o) \/ BeginVideo(o)
         \/ End(o) \/ StopVideo(o) \/ RemoveVideo(o) \/ StopAudio(o) \/ RemoveAudio(o)
  PROVE  Whole'
<1>1. /\ o \in Encoders /\ Audio \in Encoders /\ Audio # o /\ None # o
      /\ Outputs \subseteq Encoders /\ Audio \notin Outputs /\ None \notin Outputs
  BY EncoderAssumption DEF Encoders
<1>2. enc[o] \in EncoderRecord /\ enc[Audio] \in EncoderRecord
  BY <1>1 DEF TypeOK
<1>3. TypeOK'
  BY OutputTypes
<1>4. /\ Sound(enc[o], init[o]) /\ Sound(enc[Audio], init[Audio])
      /\ Removing(phase[o], init, o)
      /\ o \notin crossed => Prepared(phase[o], enc, o)
  BY <1>1 DEF Whole
<1>5. ASSUME NEW p, Goto(o, p)
      PROVE  /\ \A k \in Outputs \ {o} : phase'[k] = phase[k]
             /\ phase'[o] = p
  BY <1>5 DEF Goto, TypeOK
<1>6. ASSUME NEW e \in {o, Audio}, NEW r, Upd(e, r)
      PROVE  enc'[e] = r /\ \A k \in Encoders \ {e} : enc'[k] = enc[k]
  BY <1>1, <1>6 DEF Upd, TypeOK
<1>7. CASE Initialize(o)
  <2>1. /\ enc'[o] = Initialized(enc[o])
        /\ enc'[Audio] = Initialized(enc[Audio])
        /\ \A k \in Outputs \ {o} : enc'[k] = enc[k]
    BY <1>1, <1>7 DEF Initialize, TypeOK
  <2>2. /\ Sound(Initialized(enc[o]), init[o]) /\ Initialized(enc[o]).data
        /\ Sound(Initialized(enc[Audio]), init[Audio]) /\ Initialized(enc[Audio]).data
        /\ Initialized(enc[Audio]).callbacks = enc[Audio].callbacks
    BY <1>2, <1>4, SoundHelpers
  <2>3. phase'[o] = "initializing" /\ \A k \in Outputs \ {o} : phase'[k] = phase[k]
    BY <1>5, <1>7 DEF Initialize
  <2>4. init' = init /\ crossed' = crossed \ {o}
    BY <1>7 DEF Initialize
  <2>5. Prepared(phase'[o], enc', o) /\ Removing(phase'[o], init', o)
    BY <2>1, <2>2, <2>3 DEF Prepared, Removing
  <2> QED BY <1>3, <2>1, <2>2, <2>3, <2>4, <2>5, WholeStep
<1>8. CASE Pair(o)
  <2>1. \A k \in Encoders : /\ Same(enc[k], enc'[k])
                            /\ k \notin {o, Audio} => enc'[k] = enc[k]
    <3>1. CASE enc' = enc
      BY <3>1 DEF Same
    <3>2. CASE enc' = [enc EXCEPT ![o].paired = Audio, ![Audio].paired = o]
      BY <1>1, <1>2, <3>2 DEF Same, TypeOK, EncoderRecord
    <3> QED BY <1>8, <3>1, <3>2 DEF Pair
  <2>2. phase'[o] = "connecting" /\ \A k \in Outputs \ {o} : phase'[k] = phase[k]
    BY <1>5, <1>8 DEF Pair
  <2>3. init' = init /\ crossed' = crossed /\ phase[o] = "initializing"
    BY <1>8 DEF Pair
  <2>4. Same(enc[o], enc'[o]) /\ Same(enc[Audio], enc'[Audio])
    BY <1>1, <2>1
  <2>5. Sound(enc'[o], init'[o]) /\ Sound(enc'[Audio], init'[Audio])
    BY <1>4, <2>3, <2>4 DEF Sound, Same
  <2>6. /\ o \notin crossed' => Prepared(phase'[o], enc', o)
        /\ Removing(phase'[o], init', o)
    BY <1>4, <2>2, <2>3, <2>4 DEF Prepared, Removing, Same
  <2>7. /\ \A k \in Outputs \ {o} : enc'[k] = enc[k]
        /\ enc'[Audio].callbacks = enc[Audio].callbacks
        /\ enc'[Audio].data = enc[Audio].data
    BY <1>1, <2>1, <2>4 DEF Same
  <2> QED BY <1>3, <2>2, <2>3, <2>5, <2>6, <2>7, WholeStep
<1>9. CASE Fail(o)
  <2>1. phase'[o] = "idle" /\ \A k \in Outputs \ {o} : phase'[k] = phase[k]
    BY <1>5, <1>9 DEF Fail
  <2>2. init' = init /\ crossed' = crossed /\ enc' = enc
    BY <1>9 DEF Fail
  <2>3. Prepared(phase'[o], enc', o) /\ Removing(phase'[o], init', o)
    BY <2>1 DEF Prepared, Removing
  <2> QED BY <1>3, <1>4, <2>1, <2>2, <2>3, WholeStep
<1>10. CASE BeginAudio(o)
  <2>1. /\ enc'[Audio] = Started(enc[Audio], o) /\ enc'[o] = enc[o]
        /\ \A k \in Outputs \ {o} : enc'[k] = enc[k]
    BY <1>1, <1>6, <1>10 DEF BeginAudio
  <2>2. phase'[o] = "beginning" /\ \A k \in Outputs \ {o} : phase'[k] = phase[k]
    BY <1>5, <1>10 DEF BeginAudio
  <2>3. /\ init' = init /\ init[Audio] = None /\ crossed' = crossed
        /\ phase[o] = "connecting"
    BY <1>10 DEF BeginAudio
  <2>4. /\ Sound(Started(enc[Audio], o), None)
        /\ enc[Audio].data => /\ Started(enc[Audio], o).data
                              /\ o \in Started(enc[Audio], o).callbacks
        /\ enc[Audio].callbacks \subseteq Started(enc[Audio], o).callbacks
    BY <1>2, <1>4, <2>3, SoundHelpers
  <2>5. /\ o \notin crossed' => Prepared(phase'[o], enc', o)
        /\ Removing(phase'[o], init', o)
    BY <1>4, <2>1, <2>2, <2>3, <2>4 DEF Prepared, Removing
  <2> QED BY <1>3, <1>4, <2>1, <2>2, <2>3, <2>4, <2>5, WholeStep
<1>11. CASE BeginVideo(o)
  <2>1. /\ enc'[o] = Started(enc[o], o) /\ enc'[Audio] = enc[Audio]
        /\ \A k \in Outputs \ {o} : enc'[k] = enc[k]
    BY <1>1, <1>6, <1>11 DEF BeginVideo
  <2>2. phase'[o] = "begun" /\ \A k \in Outputs \ {o} : phase'[k] = phase[k]
    BY <1>5, <1>11 DEF BeginVideo
  <2>3. /\ init' = init /\ init[o] = None /\ crossed' = crossed
        /\ phase[o] = "beginning"
    BY <1>11 DEF BeginVideo
  <2>4. /\ Sound(Started(enc[o], o), None)
        /\ enc[o].data => o \in Started(enc[o], o).callbacks
    BY <1>2, <1>4, <2>3, SoundHelpers
  <2>5. /\ o \notin crossed' => Prepared(phase'[o], enc', o)
        /\ Removing(phase'[o], init', o)
    BY <1>4, <2>1, <2>2, <2>3, <2>4 DEF Prepared, Removing
  <2> QED BY <1>3, <1>4, <2>1, <2>2, <2>3, <2>4, <2>5, WholeStep
<1>12. CASE End(o)
  <2>1. phase'[o] = "stopVideo" /\ \A k \in Outputs \ {o} : phase'[k] = phase[k]
    BY <1>5, <1>12 DEF End
  <2>2. init' = init /\ enc' = enc /\ crossed \subseteq crossed'
    BY <1>12 DEF End
  <2>3. Prepared(phase'[o], enc', o) /\ Removing(phase'[o], init', o)
    BY <2>1 DEF Prepared, Removing
  <2> QED BY <1>3, <1>4, <2>1, <2>2, <2>3, WholeStep
<1>13. ASSUME NEW e \in {o, Audio}, NEW p, NEW q, Stop(e, o, p, q),
              p = IF e = o THEN "removeVideo" ELSE "removeAudio",
              q = IF e = o THEN "stopAudio" ELSE "idle"
       PROVE  Whole'
  <2> DEFINE r == [enc[e] EXCEPT !.callbacks = @ \ {o}]
  <2>1. /\ enc'[e] = r /\ \A k \in Encoders \ {e} : enc'[k] = enc[k]
    BY <1>6, <1>13 DEF Stop
  <2>2. /\ phase'[o] = IF Last(e, o) THEN p ELSE q
        /\ \A k \in Outputs \ {o} : phase'[k] = phase[k]
    BY <1>5, <1>13 DEF Stop
  <2>3. init[e] = None /\ crossed \subseteq crossed'
    BY <1>13 DEF Stop
  <2>4. /\ init'[e] = IF Last(e, o) THEN o ELSE None
        /\ \A k \in Encoders \ {e} : init'[k] = init[k]
    BY <1>1, <1>13 DEF Stop, TypeOK
  <2>5. Sound(r, IF Last(e, o) THEN o ELSE None)
    BY <1>2, <1>4, <2>3, SoundHelpers DEF Last
  <2>6. r.callbacks = enc[e].callbacks \ {o} /\ r.data = enc[e].data
    BY <1>2 DEF EncoderRecord
  <2> HIDE DEF r
  <2>7. Sound(enc'[o], init'[o]) /\ Sound(enc'[Audio], init'[Audio])
    BY <1>1, <1>4, <2>1, <2>4, <2>5
  <2>8. Prepared(phase'[o], enc', o) /\ Removing(phase'[o], init', o)
    BY <1>13, <2>2, <2>4 DEF Prepared, Removing
  <2>9. /\ enc[Audio].callbacks \ {o} \subseteq enc'[Audio].callbacks
        /\ enc[Audio].data => enc'[Audio].data
    BY <1>1, <2>1, <2>6
  <2>10. \A k \in Outputs \ {o} : /\ enc'[k] = enc[k] /\ init'[k] = init[k]
                                  /\ init[Audio] = k => init'[Audio] = k
    BY <1>1, <2>1, <2>3, <2>4
  <2> QED BY <1>3, <2>2, <2>3, <2>7, <2>8, <2>9, <2>10, WholeStep
<1>14. ASSUME NEW e \in {o, Audio}, NEW p, Remove(e, o, p), init[e] = o,
              p \in {"stopAudio", "idle"}
       PROVE  Whole'
  <2>1. /\ enc'[e] = Removed(enc[e])
        /\ \A k \in Encoders \ {e} : enc'[k] = enc[k]
    BY <1>6, <1>14 DEF Remove
  <2>2. phase'[o] = p /\ \A k \in Outputs \ {o} : phase'[k] = phase[k]
    BY <1>5, <1>14 DEF Remove
  <2>3. /\ crossed \subseteq crossed'
        /\ \A k \in Outputs \ {o} : Starting(k) => k \in crossed'
    BY <1>14 DEF Remove
  <2>4. init'[e] = None /\ \A k \in Encoders \ {e} : init'[k] = init[k]
    BY <1>1, <1>14 DEF Remove, TypeOK
  <2>5. /\ Sound(Removed(enc[e]), None)
        /\ Removed(enc[e]).callbacks = {} /\ enc[e].callbacks = {}
    <3>1. Sound(enc[e], init[e]) /\ enc[e] \in EncoderRecord /\ init[e] # None
      BY <1>1, <1>2, <1>4, <1>14
    <3> QED BY <3>1 DEF Sound, Removed, Shutdown, EncoderRecord
  <2>6. Sound(enc'[o], init'[o]) /\ Sound(enc'[Audio], init'[Audio])
    BY <1>1, <1>4, <2>1, <2>4, <2>5
  <2>7. Prepared(phase'[o], enc', o) /\ Removing(phase'[o], init', o)
    BY <1>14, <2>2 DEF Prepared, Removing
  <2>8. enc[Audio].callbacks \ {o} \subseteq enc'[Audio].callbacks
    BY <1>1, <2>1, <2>5
  <2>9. \A k \in Outputs \ {o} : /\ enc'[k] = enc[k] /\ init'[k] = init[k]
                                 /\ init[Audio] = k => init'[Audio] = k
    BY <1>1, <1>14, <2>1, <2>4
  <2> QED BY <1>3, <2>2, <2>3, <2>6, <2>7, <2>8, <2>9, WholeStep
<1>15. CASE StopVideo(o)
  BY <1>1, <1>13, <1>15 DEF StopVideo
<1>16. CASE RemoveVideo(o)
  BY <1>4, <1>14, <1>16 DEF RemoveVideo, Removing
<1>17. CASE StopAudio(o)
  BY <1>1, <1>13, <1>17 DEF StopAudio
<1>18. CASE RemoveAudio(o)
  BY <1>4, <1>14, <1>18 DEF RemoveAudio, Removing
<1> QED
  BY <1>7, <1>8, <1>9, <1>10, <1>11, <1>12, <1>15, <1>16, <1>17, <1>18

LEMMA WholeInit == Init => Whole
BY EncoderAssumption
DEF Init, Created, Whole, Sound, Removing, Prepared, Encoders

LEMMA WholeNext == TypeOK /\ Whole /\ [Next]_vars => Whole'
<1>1. TypeOK /\ Whole /\ Next => Whole'
  BY WholeMedia, WholeOutput DEF Next
<1>2. Whole /\ UNCHANGED vars => Whole'
  BY DEF Whole, vars
<1> QED BY <1>1, <1>2

(* An output that has begun gets packets from both encoders, unless        *)
(* another was stopped during its start, for any number of outputs: an     *)
(* encoder that is being taken from its thread has no callbacks, so only   *)
(* a stop can take context.data away between initialization and start.     *)
THEOREM OutputsBeginWhole == Spec => []BeginsWholeAlone
<1>1. TypeOK /\ Whole => BeginsWholeAlone
  <2> SUFFICES ASSUME TypeOK, Whole, NEW o \in Outputs \ crossed,
                      phase[o] = "begun"
               PROVE  Fed(o)
    BY DEF BeginsWholeAlone
  <2>1. o \in enc[o].callbacks /\ o \in enc[Audio].callbacks
    BY DEF Whole, Prepared
  <2>2. Sound(enc[o], init[o]) /\ Sound(enc[Audio], init[Audio])
    BY DEF Whole, Encoders
  <2> QED BY <2>1, <2>2 DEF Fed, Sound
<1> QED BY <1>1, InitTypes, TypeStep, WholeInit, WholeNext, PTL DEF Spec

-----------------------------------------------------------------------------
(* The sound belongs to the picture.                                       *)

(* Only an encoder that is active has received anything, and one that has  *)
(* not started has encoded nothing.                                        *)
Quiet(r, m) ==
  /\ ~r.active => r.start_ts = 0 /\ ~r.first_received
  /\ r.active /\ r.callbacks = {} => m # None
  /\ r.active /\ r.start_ts = 0 => r.cur_pts = 0

(* The sample of time b, if it gets this pts, sounds on time.              *)
OnTime(start, pts, b) == start + Ticks(pts) - b \in 0 .. SamplePeriod - 1

(* Of a pair, the video starts after the first audio.                      *)
PairInOrder(a, v, o, first) ==
  a.paired = o /\ v.paired = Audio /\ v.start_ts # 0 =>
    a.first_received /\ first =< v.start_ts

(* The time of the first sample that is not encoded yet.                   *)
Origin == audioTime - Ticks(Len(buffer))

(* The buffer ends at the audio thread's next block.  Until the encoder    *)
(* starts it begins with the first audio received, and is empty unless a   *)
(* video encoder is waited for.                                            *)
Buffered ==
  LET a == enc[Audio] IN
  a.first_received =>
    /\ Origin \in Nat /\ Runs(buffer, Origin)
    /\ a.start_ts = 0 => firstRaw = Origin
    /\ a.start_ts = 0 /\ a.paired = None => buffer = <<>>
    /\ a.start_ts # 0 /\ packets.both => OnTime(a.start_ts, a.cur_pts, Origin)

InStep ==
  /\ \A e \in Encoders : Quiet(enc[e], init[e])
  /\ \A o \in Outputs :
       /\ enc[o].first_received => enc[o].start_ts # 0
       /\ PairInOrder(enc[Audio], enc[o], o, firstRaw)
  /\ \A o \in todo : enc[o].active
  /\ heard => enc[Audio].active /\ enc[Audio].first_received
  /\ enc[Audio].start_ts # 0 => enc[Audio].first_received
  /\ Buffered
  /\ AudioAligned

LEMMA QuietHelpers ==
  ASSUME NEW r \in EncoderRecord, NEW o \in Outputs, NEW m, Sound(r, m), Quiet(r, m)
  PROVE  /\ /\ Quiet(Initialized(r), m)
            /\ Initialized(r).active = r.active
            /\ Initialized(r).start_ts = r.start_ts
            /\ Initialized(r).first_received = r.first_received
            /\ Initialized(r).cur_pts = r.cur_pts
            /\ Initialized(r).paired \in {r.paired, None}
            /\ r.active => Initialized(r) = r
         /\ m = None =>
              /\ Quiet(Started(r, o), None)
              /\ Started(r, o).start_ts = r.start_ts
              /\ Started(r, o).first_received = r.first_received
              /\ r.active => Started(r, o).cur_pts = r.cur_pts
              /\ Started(r, o).paired = r.paired
              /\ r.active => Started(r, o).active
<1>1. /\ Quiet(Initialized(r), m)
      /\ Initialized(r).active = r.active
      /\ Initialized(r).start_ts = r.start_ts
      /\ Initialized(r).first_received = r.first_received
      /\ Initialized(r).cur_pts = r.cur_pts
      /\ Initialized(r).paired \in {r.paired, None}
      /\ r.active => Initialized(r) = r
  <2>1. CASE r.active \/ r.initialized
    BY <2>1 DEF Initialized
  <2>2. CASE ~(r.active \/ r.initialized)
    BY <2>2 DEF Quiet, Initialized, Shutdown, EncoderRecord
  <2> QED BY <2>1, <2>2
<1>2. m = None =>
        /\ Quiet(Started(r, o), None)
        /\ Started(r, o).start_ts = r.start_ts
        /\ Started(r, o).first_received = r.first_received
        /\ r.active => Started(r, o).cur_pts = r.cur_pts
        /\ Started(r, o).paired = r.paired
        /\ r.active => Started(r, o).active
  BY DEF Sound, Quiet, Started, EncoderRecord
<1> QED BY <1>1, <1>2

LEMMA QuietRemoved ==
  ASSUME NEW r \in EncoderRecord, NEW m, Sound(r, m), Quiet(r, m)
  PROVE  /\ Quiet(Removed(r), None) /\ ~Removed(r).active
         /\ Removed(r).start_ts = 0 /\ ~Removed(r).first_received
         /\ Removed(r).paired \in {r.paired, None}
BY DEF Sound, Quiet, Removed, Shutdown, EncoderRecord

LEMMA QuietStopped ==
  ASSUME NEW r \in EncoderRecord, NEW o \in Outputs, Sound(r, None), Quiet(r, None)
  PROVE  Quiet([r EXCEPT !.callbacks = @ \ {o}],
               IF r.callbacks = {o} THEN o ELSE None)
BY EncoderAssumption DEF Sound, Quiet, EncoderRecord

(* A step of output o leaves the order of the others and the sound alone.  *)
LEMMA InStepStep ==
  ASSUME InStep, todo \subseteq Outputs, NEW o \in Outputs,
         UNCHANGED <<firstRaw, audioTime, heard, packets, todo>>,
         buffer' = buffer \/ ~enc[Audio].first_received,
         \A k \in Outputs \ {o} : enc'[k] = enc[k] /\ init'[k] = init[k],
         Quiet(enc'[o], init'[o]), Quiet(enc'[Audio], init'[Audio]),
         enc'[o].first_received => enc'[o].start_ts # 0,
         o \in todo => enc'[o].active,
         heard => enc'[Audio].active /\ enc'[Audio].first_received,
         enc'[Audio].start_ts # 0 => enc'[Audio].first_received,
         enc'[Audio].first_received =>
           /\ enc[Audio].first_received
           /\ enc'[Audio].start_ts = enc[Audio].start_ts
           /\ enc'[Audio].cur_pts = enc[Audio].cur_pts
           /\ enc'[Audio].paired = enc[Audio].paired,
         \A k \in Outputs : PairInOrder(enc'[Audio], enc'[k], k, firstRaw)
  PROVE  InStep'
<1>1. ASSUME NEW e \in Encoders PROVE Quiet(enc'[e], init'[e])
  BY DEF InStep, Encoders
<1>2. ASSUME NEW k \in Outputs
      PROVE  /\ enc'[k].first_received => enc'[k].start_ts # 0
             /\ PairInOrder(enc'[Audio], enc'[k], k, firstRaw')
             /\ k \in todo' => enc'[k].active
  BY DEF InStep
<1>3. Buffered'
  <2> SUFFICES ASSUME enc'[Audio].first_received
               PROVE  /\ Origin' \in Nat /\ Runs(buffer', Origin')
                      /\ enc'[Audio].start_ts = 0 => firstRaw' = Origin'
                      /\ enc'[Audio].start_ts = 0 /\ enc'[Audio].paired = None
                           => buffer' = <<>>
                      /\ enc'[Audio].start_ts # 0 /\ packets'.both =>
                           OnTime(enc'[Audio].start_ts, enc'[Audio].cur_pts, Origin')
    BY DEF Buffered
  <2>1. buffer' = buffer /\ Origin' = Origin
    BY DEF Origin
  <2> QED BY <2>1 DEF InStep, Buffered
<1>4. AudioAligned'
  BY DEF InStep, AudioAligned
<1>5. \A k \in todo' : enc'[k].active
  BY <1>2
<1> QED BY <1>1, <1>2, <1>3, <1>4, <1>5 DEF InStep

LEMMA InStepOutput ==
  ASSUME TypeOK, Whole, InStep, NEW o \in Outputs,
         \/ Initialize(o) \/ Pair(o) \/ Fail(o) \/ BeginAudio(o) \/ BeginVideo(o)
         \/ End(o) \/ StopVideo(o) \/ RemoveVideo(o) \/ StopAudio(o) \/ RemoveAudio(o)
  PROVE  InStep'
<1>1. /\ o \in Encoders /\ Audio \in Encoders /\ Audio # o /\ None # o
      /\ Outputs \subseteq Encoders /\ Audio \notin Outputs /\ None \notin Outputs
  BY EncoderAssumption DEF Encoders
<1>2. /\ enc[o] \in EncoderRecord /\ enc[Audio] \in EncoderRecord
      /\ todo \subseteq Outputs
  BY <1>1 DEF TypeOK
<1>3. /\ Sound(enc[o], init[o]) /\ Sound(enc[Audio], init[Audio])
      /\ Quiet(enc[o], init[o]) /\ Quiet(enc[Audio], init[Audio])
  BY <1>1 DEF Whole, InStep
<1>4. /\ enc[o].first_received => enc[o].start_ts # 0
      /\ o \in todo => enc[o].active
      /\ heard => enc[Audio].active /\ enc[Audio].first_received
      /\ enc[Audio].start_ts # 0 => enc[Audio].first_received
      /\ enc[Audio].first_received => enc[Audio].active
      /\ \A k \in Outputs : PairInOrder(enc[Audio], enc[k], k, firstRaw)
  BY <1>3 DEF InStep, Quiet
<1>5. ASSUME NEW e \in {o, Audio}, NEW r, Upd(e, r)
      PROVE  enc'[e] = r /\ \A k \in Encoders \ {e} : enc'[k] = enc[k]
  BY <1>1, <1>5 DEF Upd, TypeOK
<1>6. CASE Initialize(o)
  <2>1. /\ enc'[o] = Initialized(enc[o])
        /\ enc'[Audio] = Initialized(enc[Audio])
        /\ \A k \in Outputs \ {o} : enc'[k] = enc[k]
    BY <1>1, <1>6 DEF Initialize, TypeOK
  <2>2. \A r \in {enc[o], enc[Audio]} :
          /\ Initialized(r).active = r.active
          /\ Initialized(r).start_ts = r.start_ts
          /\ Initialized(r).first_received = r.first_received
          /\ Initialized(r).cur_pts = r.cur_pts
          /\ Initialized(r).paired \in {r.paired, None}
          /\ r.active => Initialized(r) = r
    BY <1>2, <1>3, QuietHelpers
  <2>3. /\ Quiet(Initialized(enc[o]), init[o])
        /\ Quiet(Initialized(enc[Audio]), init[Audio])
    BY <1>2, <1>3, QuietHelpers
  <2>4. /\ init' = init
        /\ UNCHANGED <<firstRaw, audioTime, heard, packets, todo>>
        /\ buffer' = buffer \/ ~enc[Audio].active
    BY <1>6 DEF Initialize, media
  <2>5. buffer' = buffer \/ ~enc[Audio].first_received
    BY <1>4, <2>4
  <2>6. \A k \in Outputs : PairInOrder(enc'[Audio], enc'[k], k, firstRaw)
    <3>1. \A k \in Outputs : /\ enc'[k].start_ts = enc[k].start_ts
                             /\ enc'[k].paired = Audio => enc[k].paired = Audio
                             /\ enc'[Audio].paired = k => enc[Audio].paired = k
      BY <1>1, <2>1, <2>2, EncoderAssumption
    <3>2. enc'[Audio].first_received = enc[Audio].first_received
      BY <2>1, <2>2
    <3> QED BY <1>4, <3>1, <3>2 DEF PairInOrder
  <2>7. enc'[Audio].first_received =>
           /\ enc[Audio].first_received
           /\ enc'[Audio].start_ts = enc[Audio].start_ts
           /\ enc'[Audio].cur_pts = enc[Audio].cur_pts
           /\ enc'[Audio].paired = enc[Audio].paired
    BY <1>4, <2>1, <2>2
  <2>8. /\ enc'[o].first_received => enc'[o].start_ts # 0
        /\ o \in todo => enc'[o].active
        /\ heard => enc'[Audio].active /\ enc'[Audio].first_received
        /\ enc'[Audio].start_ts # 0 => enc'[Audio].first_received
    BY <1>4, <2>1, <2>2
  <2> QED BY <1>2, <2>1, <2>3, <2>4, <2>5, <2>6, <2>7, <2>8, InStepStep
<1>7. CASE Pair(o)
  <2>1. /\ init' = init
        /\ UNCHANGED <<firstRaw, audioTime, heard, packets, todo, buffer>>
    BY <1>7 DEF Pair, media
  <2>2. CASE enc' = enc
    BY <1>2, <1>3, <1>4, <2>1, <2>2, InStepStep
  <2>3. CASE /\ enc' = [enc EXCEPT ![o].paired = Audio, ![Audio].paired = o]
             /\ ~enc[Audio].active /\ ~enc[o].active
    <3>1. /\ enc'[o] = [enc[o] EXCEPT !.paired = Audio]
          /\ enc'[Audio] = [enc[Audio] EXCEPT !.paired = o]
          /\ \A k \in Outputs \ {o} : enc'[k] = enc[k]
      BY <1>1, <2>3 DEF TypeOK
    <3>2. /\ Quiet(enc'[o], init[o]) /\ Quiet(enc'[Audio], init[Audio])
          /\ enc'[o].start_ts = 0 /\ enc'[Audio].start_ts = 0
          /\ ~enc'[o].first_received /\ ~enc'[Audio].first_received
          /\ enc'[Audio].paired = o /\ ~heard /\ o \notin todo
      BY <1>2, <1>3, <1>4, <2>3, <3>1 DEF Quiet, EncoderRecord
    <3>3. \A k \in Outputs : PairInOrder(enc'[Audio], enc'[k], k, firstRaw)
      BY <3>1, <3>2 DEF PairInOrder
    <3> QED BY <1>2, <2>1, <3>1, <3>2, <3>3, InStepStep
  <2> QED BY <1>7, <2>2, <2>3 DEF Pair
<1>8. CASE Fail(o) \/ End(o)
  <2>1. /\ enc' = enc /\ init' = init
        /\ UNCHANGED <<firstRaw, audioTime, heard, packets, todo, buffer>>
    BY <1>8 DEF Fail, End, media
  <2> QED BY <1>2, <1>3, <1>4, <2>1, InStepStep
<1>9. CASE BeginAudio(o)
  <2>1. /\ enc'[Audio] = Started(enc[Audio], o) /\ enc'[o] = enc[o]
        /\ \A k \in Outputs \ {o} : enc'[k] = enc[k]
    BY <1>1, <1>5, <1>9 DEF BeginAudio
  <2>2. /\ init' = init /\ init[Audio] = None
        /\ UNCHANGED <<firstRaw, audioTime, heard, packets, todo, buffer>>
    BY <1>9 DEF BeginAudio, media
  <2>3. /\ Quiet(Started(enc[Audio], o), None)
        /\ Started(enc[Audio], o).start_ts = enc[Audio].start_ts
        /\ Started(enc[Audio], o).first_received = enc[Audio].first_received
        /\ enc[Audio].active => Started(enc[Audio], o).cur_pts = enc[Audio].cur_pts
        /\ Started(enc[Audio], o).paired = enc[Audio].paired
        /\ enc[Audio].active => Started(enc[Audio], o).active
    BY <1>2, <1>3, <2>2, QuietHelpers
  <2>4. \A k \in Outputs : PairInOrder(enc'[Audio], enc'[k], k, firstRaw)
    BY <1>4, <2>1, <2>3 DEF PairInOrder
  <2>5. enc'[Audio].first_received =>
           /\ enc[Audio].first_received
           /\ enc'[Audio].start_ts = enc[Audio].start_ts
           /\ enc'[Audio].cur_pts = enc[Audio].cur_pts
           /\ enc'[Audio].paired = enc[Audio].paired
    BY <1>4, <2>1, <2>3
  <2>6. /\ enc'[o].first_received => enc'[o].start_ts # 0
        /\ o \in todo => enc'[o].active
        /\ heard => enc'[Audio].active /\ enc'[Audio].first_received
        /\ enc'[Audio].start_ts # 0 => enc'[Audio].first_received
    BY <1>4, <2>1, <2>3
  <2>7. Quiet(enc'[o], init'[o]) /\ Quiet(enc'[Audio], init'[Audio])
    BY <1>3, <2>1, <2>2, <2>3
  <2> QED BY <1>2, <2>1, <2>2, <2>4, <2>5, <2>6, <2>7, InStepStep
<1>10. CASE BeginVideo(o)
  <2>1. /\ enc'[o] = Started(enc[o], o) /\ enc'[Audio] = enc[Audio]
        /\ \A k \in Outputs \ {o} : enc'[k] = enc[k]
    BY <1>1, <1>5, <1>10 DEF BeginVideo
  <2>2. /\ init' = init /\ init[o] = None
        /\ UNCHANGED <<firstRaw, audioTime, heard, packets, todo, buffer>>
    BY <1>10 DEF BeginVideo, media
  <2>3. /\ Quiet(Started(enc[o], o), None)
        /\ Started(enc[o], o).start_ts = enc[o].start_ts
        /\ Started(enc[o], o).first_received = enc[o].first_received
        /\ Started(enc[o], o).paired = enc[o].paired
        /\ enc[o].active => Started(enc[o], o).active
    BY <1>2, <1>3, <2>2, QuietHelpers
  <2>4. \A k \in Outputs : PairInOrder(enc'[Audio], enc'[k], k, firstRaw)
    BY <1>4, <2>1, <2>3 DEF PairInOrder
  <2>5. /\ enc'[o].first_received => enc'[o].start_ts # 0
        /\ o \in todo => enc'[o].active
    BY <1>4, <2>1, <2>3
  <2>6. Quiet(enc'[o], init'[o]) /\ Quiet(enc'[Audio], init'[Audio])
    BY <1>3, <2>1, <2>2, <2>3
  <2> QED BY <1>2, <1>4, <2>1, <2>2, <2>4, <2>5, <2>6, InStepStep
<1>11. ASSUME NEW e \in {o, Audio}, NEW p, NEW q, Stop(e, o, p, q)
       PROVE  InStep'
  <2> DEFINE r == [enc[e] EXCEPT !.callbacks = @ \ {o}]
  <2>1. enc'[e] = r /\ \A k \in Encoders \ {e} : enc'[k] = enc[k]
    BY <1>5, <1>11 DEF Stop
  <2>2. /\ init'[e] = IF enc[e].callbacks = {o} THEN o ELSE None
        /\ \A k \in Encoders \ {e} : init'[k] = init[k]
    BY <1>1, <1>11 DEF Stop, Last, TypeOK
  <2>3. /\ init[e] = None
        /\ UNCHANGED <<firstRaw, audioTime, heard, packets, todo, buffer>>
    BY <1>11 DEF Stop, media
  <2>4. enc[e] \in EncoderRecord /\ Sound(enc[e], None) /\ Quiet(enc[e], None)
    BY <1>2, <1>3, <2>3
  <2>5. Quiet(r, IF enc[e].callbacks = {o} THEN o ELSE None)
    BY <2>4, QuietStopped
  <2>6. /\ r.start_ts = enc[e].start_ts /\ r.active = enc[e].active
        /\ r.first_received = enc[e].first_received
        /\ r.cur_pts = enc[e].cur_pts /\ r.paired = enc[e].paired
    BY <2>4 DEF EncoderRecord
  <2> HIDE DEF r
  <2>7. Quiet(enc'[o], init'[o]) /\ Quiet(enc'[Audio], init'[Audio])
    BY <1>1, <1>3, <2>1, <2>2, <2>5
  <2>8. ASSUME NEW k \in Encoders
        PROVE  /\ enc'[k].start_ts = enc[k].start_ts
               /\ enc'[k].active = enc[k].active
               /\ enc'[k].first_received = enc[k].first_received
               /\ enc'[k].cur_pts = enc[k].cur_pts
               /\ enc'[k].paired = enc[k].paired
    BY <2>1, <2>6
  <2>9. \A k \in Outputs : PairInOrder(enc'[Audio], enc'[k], k, firstRaw)
    BY <1>1, <1>4, <2>8 DEF PairInOrder
  <2>10. /\ enc'[o].first_received => enc'[o].start_ts # 0
         /\ o \in todo => enc'[o].active
         /\ heard => enc'[Audio].active /\ enc'[Audio].first_received
         /\ enc'[Audio].start_ts # 0 => enc'[Audio].first_received
    BY <1>1, <1>4, <2>8
  <2>11. \A k \in Outputs \ {o} : enc'[k] = enc[k] /\ init'[k] = init[k]
    BY <1>1, <2>1, <2>2
  <2>12. enc'[Audio].first_received =>
           /\ enc[Audio].first_received
           /\ enc'[Audio].start_ts = enc[Audio].start_ts
           /\ enc'[Audio].cur_pts = enc[Audio].cur_pts
           /\ enc'[Audio].paired = enc[Audio].paired
    BY <1>1, <2>8
  <2> QED BY <1>2, <2>3, <2>7, <2>9, <2>10, <2>11, <2>12, InStepStep
<1>12. ASSUME NEW e \in {o, Audio}, NEW p, Remove(e, o, p)
       PROVE  InStep'
  <2>1. /\ enc'[e] = Removed(enc[e])
        /\ \A k \in Encoders \ {e} : enc'[k] = enc[k]
    BY <1>5, <1>12 DEF Remove
  <2>2. init'[e] = None /\ \A k \in Encoders \ {e} : init'[k] = init[k]
    BY <1>1, <1>12 DEF Remove, TypeOK
  <2>3. /\ Between(e)
        /\ UNCHANGED <<firstRaw, audioTime, heard, packets, todo, buffer>>
    BY <1>12 DEF Remove, media
  <2>4. /\ enc[e] \in EncoderRecord
        /\ Sound(enc[e], init[e]) /\ Quiet(enc[e], init[e])
    BY <1>2, <1>3
  <2>5. /\ Quiet(Removed(enc[e]), None) /\ ~Removed(enc[e]).active
        /\ Removed(enc[e]).start_ts = 0 /\ ~Removed(enc[e]).first_received
        /\ Removed(enc[e]).paired \in {enc[e].paired, None}
    BY <2>4, QuietRemoved
  <2>6. Quiet(enc'[o], init'[o]) /\ Quiet(enc'[Audio], init'[Audio])
    BY <1>1, <1>3, <2>1, <2>2, <2>5
  <2>7. \A k \in Outputs \ {o} : enc'[k] = enc[k] /\ init'[k] = init[k]
    BY <1>1, <2>1, <2>2
  <2>8. CASE e = Audio
    <3>1. ~heard /\ enc'[o] = enc[o]
      BY <1>1, <2>1, <2>3, <2>8 DEF Between
    <3>2. ASSUME NEW k \in Outputs
          PROVE  PairInOrder(enc'[Audio], enc'[k], k, firstRaw)
      <4>1. enc'[k] = enc[k]
        BY <1>1, <2>1, <2>8
      <4>2. CASE enc[Audio].active
        <5>1. enc'[Audio].paired = None
          BY <2>1, <2>4, <2>8, <4>2
          DEF Sound, Removed, Shutdown, EncoderRecord
        <5> QED BY <1>1, <5>1 DEF PairInOrder
      <4>3. CASE ~enc[Audio].active
        <5>1. ~enc[Audio].first_received
          BY <1>4, <4>3
        <5>2. enc[Audio].paired = k /\ enc[k].paired = Audio => enc[k].start_ts = 0
          BY <1>4, <5>1 DEF PairInOrder
        <5> QED BY <1>1, <2>1, <2>5, <2>8, <4>1, <5>2 DEF PairInOrder
      <4> QED BY <4>2, <4>3
    <3> QED BY <1>2, <1>4, <2>1, <2>3, <2>5, <2>6, <2>7, <2>8, <3>1, <3>2,
               InStepStep
  <2>9. CASE e = o
    <3>1. todo = {} /\ enc'[Audio] = enc[Audio]
      BY <1>1, <2>1, <2>3, <2>9 DEF Between
    <3>2. \A k \in Outputs : PairInOrder(enc'[Audio], enc'[k], k, firstRaw)
      BY <1>1, <1>4, <2>1, <2>5, <2>7, <2>9, <3>1 DEF PairInOrder
    <3> QED BY <1>2, <1>4, <2>1, <2>3, <2>5, <2>6, <2>7, <2>9, <3>1, <3>2,
               InStepStep
  <2> QED BY <2>8, <2>9
<1> QED
  BY <1>6, <1>7, <1>8, <1>9, <1>10, <1>11, <1>12
  DEF StopVideo, RemoveVideo, StopAudio, RemoveAudio

LEMMA InStepVideo ==
  ASSUME TypeOK, InStep, VideoFrame \/ \E o \in Outputs : ReceiveVideo(o)
  PROVE  InStep'
<1>1. /\ UNCHANGED <<init, firstRaw, audioTime, heard, packets, buffer>>
      /\ Audio \notin Outputs
  BY EncoderAssumption DEF VideoFrame, ReceiveVideo
<1>2. CASE VideoFrame
  <2>1. enc' = enc /\ todo' = {o \in Outputs : enc[o].active}
    BY <1>2 DEF VideoFrame
  <2>2. Buffered' /\ AudioAligned'
    BY <1>1, <2>1 DEF InStep, Buffered, AudioAligned, Origin
  <2> QED BY <1>1, <2>1, <2>2 DEF InStep
<1>3. ASSUME NEW o \in Outputs, ReceiveVideo(o) PROVE InStep'
  <2>1. o \in Encoders /\ Audio \in Encoders /\ o # Audio
    BY <1>1 DEF Encoders
  <2>2. enc[o] \in EncoderRecord
    BY <2>1 DEF TypeOK
  <2>3. PICK received \in BOOLEAN :
          Upd(o, IF WaitsForAudio(o) THEN enc[o]
                 ELSE [enc[o] EXCEPT
                        !.start_ts = IF @ = 0 THEN videoTime ELSE @,
                        !.first_received = @ \/ received, !.cur_pts = @ + 1])
    BY <1>3 DEF ReceiveVideo
  <2>4. o \in todo /\ todo' = todo \ {o}
    BY <1>3 DEF ReceiveVideo
  <2>5. \A k \in Encoders \ {o} : enc'[k] = enc[k]
    BY <2>1, <2>3 DEF TypeOK, Upd
  <2>6. /\ enc[o].active /\ Quiet(enc[o], init[o])
        /\ enc[o].first_received => enc[o].start_ts # 0
        /\ PairInOrder(enc[Audio], enc[o], o, firstRaw)
    BY <2>1, <2>4 DEF InStep
  <2>7. /\ Quiet(enc'[o], init'[o])
        /\ enc'[o].first_received => enc'[o].start_ts # 0
        /\ PairInOrder(enc[Audio], enc'[o], o, firstRaw)
    <3>1. CASE WaitsForAudio(o)
      <4>1. enc'[o] = enc[o]
        BY <2>1, <2>3, <3>1 DEF TypeOK, Upd
      <4> QED BY <1>1, <2>6, <4>1
    <3>2. CASE ~WaitsForAudio(o)
      <4>1. enc'[o] = [enc[o] EXCEPT
                        !.start_ts = IF @ = 0 THEN videoTime ELSE @,
                        !.first_received = @ \/ received, !.cur_pts = @ + 1]
        BY <2>1, <2>3, <3>2 DEF TypeOK, Upd
      <4>2. /\ enc'[o].start_ts = IF enc[o].start_ts = 0 THEN videoTime
                                  ELSE enc[o].start_ts
            /\ enc'[o].active = enc[o].active
            /\ enc'[o].callbacks = enc[o].callbacks
            /\ enc'[o].paired = enc[o].paired
        BY <2>2, <4>1 DEF EncoderRecord
      <4>3. videoTime \in Nat \ {0} /\ firstRaw \in Nat
        BY DEF TypeOK
      <4>4. enc'[o].start_ts # 0
        BY <4>2, <4>3
      <4>5. Quiet(enc'[o], init'[o])
        BY <1>1, <2>6, <4>2, <4>4 DEF Quiet
      <4>6. PairInOrder(enc[Audio], enc'[o], o, firstRaw)
        <5> SUFFICES ASSUME enc[Audio].paired = o, enc[o].paired = Audio
                     PROVE  /\ enc[Audio].first_received
                            /\ firstRaw =< enc'[o].start_ts
          BY <4>2 DEF PairInOrder
        <5>1. CASE enc[o].start_ts # 0
          BY <2>6, <4>2, <5>1 DEF PairInOrder
        <5>2. CASE enc[o].start_ts = 0
          <6>1. ~enc[o].first_received /\ enc[o].paired # None
            BY <2>6, <5>2, EncoderAssumption
          <6>2. enc[Audio].first_received /\ ~(firstRaw > videoTime)
            BY <3>2, <6>1 DEF WaitsForAudio
          <6> QED BY <4>2, <4>3, <5>2, <6>2
        <5> QED BY <5>1, <5>2
      <4> QED BY <4>4, <4>5, <4>6
    <3> QED BY <3>1, <3>2
  <2>8. enc'[Audio] = enc[Audio]
    BY <2>1, <2>5
  <2>9. \A k \in Outputs : /\ enc'[k].first_received => enc'[k].start_ts # 0
                           /\ PairInOrder(enc'[Audio], enc'[k], k, firstRaw')
    BY <1>1, <2>5, <2>7, <2>8 DEF InStep, Encoders
  <2>10. \A k \in todo' : enc'[k].active
    BY <2>4, <2>5 DEF InStep, TypeOK, Encoders
  <2>11. \A e \in Encoders : Quiet(enc'[e], init'[e])
    BY <1>1, <2>5, <2>7 DEF InStep
  <2>12. Buffered' /\ AudioAligned'
    BY <1>1, <2>8 DEF InStep, Buffered, AudioAligned, Origin
  <2> QED BY <1>1, <2>8, <2>9, <2>10, <2>11, <2>12 DEF InStep
<1> QED BY <1>2, <1>3

(* The audio thread changes only the audio encoder.                        *)
LEMMA InStepAudioOnly ==
  ASSUME TypeOK, InStep, UNCHANGED <<init, todo>>,
         \A k \in Outputs : enc'[k] = enc[k],
         Quiet(enc'[Audio], init[Audio]),
         \A k \in Outputs : PairInOrder(enc'[Audio], enc[k], k, firstRaw'),
         heard' => enc'[Audio].active /\ enc'[Audio].first_received,
         enc'[Audio].start_ts # 0 => enc'[Audio].first_received,
         Buffered', AudioAligned'
  PROVE  InStep'
<1>1. \A e \in Encoders : Quiet(enc'[e], init'[e])
  BY DEF InStep, Encoders
<1>2. \A k \in Outputs : /\ enc'[k].first_received => enc'[k].start_ts # 0
                         /\ PairInOrder(enc'[Audio], enc'[k], k, firstRaw')
  BY DEF InStep
<1>3. \A k \in todo' : enc'[k].active
  BY DEF InStep, TypeOK
<1> QED BY <1>1, <1>2, <1>3 DEF InStep

LEMMA AudioFacts ==
  ASSUME TypeOK, InStep
  PROVE  /\ Audio \in Encoders /\ Audio \notin Outputs /\ enc[Audio] \in EncoderRecord
         /\ Quiet(enc[Audio], init[Audio])
         /\ \A k \in Outputs : PairInOrder(enc[Audio], enc[k], k, firstRaw)
         /\ \A k \in Outputs : k # Audio /\ k \in Encoders
BY EncoderAssumption DEF TypeOK, InStep, Encoders

LEMMA InStepArrives ==
  ASSUME TypeOK, InStep, AudioArrives PROVE InStep'
<1>1. /\ Audio \in Encoders /\ enc[Audio] \in EncoderRecord
      /\ Quiet(enc[Audio], init[Audio])
      /\ \A k \in Outputs : PairInOrder(enc[Audio], enc[k], k, firstRaw)
      /\ \A k \in Outputs : k # Audio /\ k \in Encoders
  BY AudioFacts
<1>2. /\ UNCHANGED <<init, todo, packets>> /\ ~heard
      /\ AudioAligned'
  BY DEF AudioArrives, InStep, AudioAligned
<1>3. CASE ~enc[Audio].active
  <2>1. UNCHANGED <<enc, buffer, firstRaw, heard>>
    BY <1>3 DEF AudioArrives
  <2>2. ~enc[Audio].first_received
    BY <1>1, <1>3 DEF Quiet
  <2>3. Buffered'
    BY <2>1, <2>2 DEF Buffered
  <2> QED BY <1>1, <1>2, <2>1, <2>2, <2>3, InStepAudioOnly DEF InStep
<1>4. CASE enc[Audio].active
  <2>1. /\ heard' = TRUE /\ audioTime' = audioTime
        /\ firstRaw' = IF enc[Audio].first_received THEN firstRaw ELSE audioTime
        /\ buffer' = IF enc[Audio].first_received THEN buffer ELSE <<>>
        /\ enc' = [enc EXCEPT ![Audio] =
                     [enc[Audio] EXCEPT !.first_received = TRUE]]
    BY <1>4 DEF AudioArrives, Upd
  <2>2. /\ enc'[Audio] = [enc[Audio] EXCEPT !.first_received = TRUE]
        /\ \A k \in Outputs : enc'[k] = enc[k]
    BY <1>1, <2>1 DEF TypeOK
  <2>3. /\ enc'[Audio].first_received
        /\ enc'[Audio].active = enc[Audio].active
        /\ enc'[Audio].callbacks = enc[Audio].callbacks
        /\ enc'[Audio].start_ts = enc[Audio].start_ts
        /\ enc'[Audio].cur_pts = enc[Audio].cur_pts
        /\ enc'[Audio].paired = enc[Audio].paired
    BY <1>1, <2>2 DEF EncoderRecord
  <2>4. Quiet(enc'[Audio], init[Audio])
    BY <1>1, <1>4, <2>3 DEF Quiet
  <2>5. CASE enc[Audio].first_received
    <3>1. firstRaw' = firstRaw /\ buffer' = buffer
      BY <2>1, <2>5
    <3>2. Buffered'
      BY <1>2, <2>1, <2>3, <2>5, <3>1 DEF InStep, Buffered, Origin
    <3>3. \A k \in Outputs : PairInOrder(enc'[Audio], enc[k], k, firstRaw')
      BY <1>1, <2>3, <3>1 DEF PairInOrder
    <3> QED BY <1>2, <1>4, <2>2, <2>3, <2>4, <3>2, <3>3, InStepAudioOnly
  <2>6. CASE ~enc[Audio].first_received
    <3>1. firstRaw' = audioTime /\ buffer' = <<>> /\ audioTime \in Nat
      BY <2>1, <2>6 DEF TypeOK
    <3>2. enc[Audio].start_ts = 0
      BY <2>6 DEF InStep
    <3>3. Origin' = audioTime
      BY <2>1, <3>1, Ticking DEF Origin
    <3>4. Runs(buffer', audioTime)
      BY <3>1 DEF Runs
    <3>5. Buffered'
      BY <2>3, <3>1, <3>2, <3>3, <3>4 DEF Buffered
    <3>6. \A k \in Outputs : PairInOrder(enc'[Audio], enc[k], k, firstRaw')
      BY <1>1, <2>3, <2>6 DEF PairInOrder
    <3> QED BY <1>2, <1>4, <2>2, <2>3, <2>4, <3>5, <3>6, InStepAudioOnly
  <2> QED BY <2>5, <2>6
<1> QED BY <1>3, <1>4

LEMMA InStepKeep ==
  ASSUME TypeOK, InStep, KeepAudio PROVE InStep'
<1>1. /\ Audio \in Encoders /\ enc[Audio] \in EncoderRecord
      /\ Quiet(enc[Audio], init[Audio])
      /\ \A k \in Outputs : PairInOrder(enc[Audio], enc[k], k, firstRaw)
      /\ \A k \in Outputs : k # Audio /\ k \in Encoders
  BY AudioFacts
<1>2. /\ UNCHANGED <<init, todo, packets, enc, firstRaw>> /\ heard' = FALSE /\ heard
      /\ AudioAligned'
  BY DEF KeepAudio, EndAudio, InStep, AudioAligned
<1>3. /\ enc[Audio].start_ts = 0 /\ enc[Audio].paired # None
      /\ buffer' = buffer \o Block(audioTime) /\ audioTime' = BlockEnd(audioTime)
  BY DEF KeepAudio, EndAudio, WaitsForVideo
<1>4. /\ enc[Audio].first_received /\ Origin \in Nat /\ Runs(buffer, Origin)
      /\ firstRaw = Origin
  BY <1>2, <1>3 DEF InStep, Buffered
<1>5. /\ buffer \in Seq(Nat) /\ audioTime \in Nat
      /\ audioTime = Origin + Ticks(Len(buffer))
  <2>1. buffer \in Seq(Nat) /\ audioTime \in Nat
    BY DEF TypeOK
  <2>2. Ticks(Len(buffer)) \in Nat
    BY <2>1, Ticking
  <2> QED BY <2>1, <2>2 DEF Origin
<1>6. /\ buffer' \in Seq(Nat) /\ Runs(buffer', Origin)
      /\ Origin + Ticks(Len(buffer')) = audioTime'
  BY <1>3, <1>4, <1>5, RunsBlock
<1>7. Origin' = Origin
  <2>1. Ticks(Len(buffer')) \in Nat
    BY <1>6, Ticking
  <2>2. audioTime' - Ticks(Len(buffer')) = Origin
    BY <1>4, <1>6, <2>1
  <2> QED BY <2>2 DEF Origin
<1>8. Buffered'
  BY <1>2, <1>3, <1>4, <1>6, <1>7 DEF Buffered
<1> QED BY <1>1, <1>2, <1>4, <1>8, InStepAudioOnly DEF InStep

(* Samples that run without a gap up to the end of the block are sent.     *)
LEMMA InStepSend ==
  ASSUME TypeOK, InStep, heard, EndAudio,
         NEW start \in Nat, start # 0, NEW samples \in Seq(Nat), NEW both \in BOOLEAN,
         NEW b \in Nat, Runs(samples, b),
         b + Ticks(Len(samples)) = BlockEnd(audioTime),
         both => OnTime(start, enc[Audio].cur_pts, b),
         \A k \in Outputs : enc[Audio].paired = k /\ enc[k].paired = Audio
                              /\ enc[k].start_ts # 0 => firstRaw =< enc[k].start_ts,
         Send(start, samples, both)
  PROVE  InStep'
<1>1. /\ Audio \in Encoders /\ enc[Audio] \in EncoderRecord
      /\ Quiet(enc[Audio], init[Audio])
      /\ \A k \in Outputs : k # Audio /\ k \in Encoders
  BY AudioFacts
<1>2. PICK n \in 0 .. Len(samples) :
           /\ enc' = [enc EXCEPT ![Audio] =
                        [enc[Audio] EXCEPT !.start_ts = start, !.cur_pts = @ + n]]
           /\ buffer' = SubSeq(samples, n + 1, Len(samples))
           /\ packets' = [times |-> SubSeq(samples, 1, n), pts |-> enc[Audio].cur_pts,
                          start |-> start, both |-> both]
  BY SendFrames
<1>3. /\ enc'[Audio] = [enc[Audio] EXCEPT !.start_ts = start, !.cur_pts = @ + n]
      /\ \A k \in Outputs : enc'[k] = enc[k]
  BY <1>1, <1>2 DEF TypeOK
<1>4. /\ enc'[Audio].start_ts = start
      /\ enc'[Audio].cur_pts = enc[Audio].cur_pts + n
      /\ enc'[Audio].active = enc[Audio].active
      /\ enc'[Audio].callbacks = enc[Audio].callbacks
      /\ enc'[Audio].first_received = enc[Audio].first_received
      /\ enc'[Audio].paired = enc[Audio].paired
      /\ enc[Audio].cur_pts \in Nat
  BY <1>1, <1>3 DEF EncoderRecord
<1>5. enc[Audio].active /\ enc[Audio].first_received
  BY DEF InStep
<1>6. Quiet(enc'[Audio], init[Audio])
  BY <1>1, <1>4, <1>5 DEF Quiet
<1>7. \A k \in Outputs : PairInOrder(enc'[Audio], enc[k], k, firstRaw')
  BY <1>4, <1>5 DEF PairInOrder, EndAudio
<1>8. /\ SubSeq(samples, 1, n) \in Seq(Nat) /\ Len(SubSeq(samples, 1, n)) = n
      /\ Runs(SubSeq(samples, 1, n), b)
      /\ buffer' \in Seq(Nat) /\ Len(buffer') = Len(samples) - n
      /\ Runs(buffer', b + Ticks(n))
  BY <1>2, RunsCut
<1>9. /\ n \in Nat /\ Len(samples) \in Nat
      /\ Ticks(n) \in Nat /\ Ticks(Len(samples)) \in Nat
      /\ Ticks(Len(samples) - n) = Ticks(Len(samples)) - Ticks(n)
  <2>1. n \in Nat /\ Len(samples) \in Nat
    OBVIOUS
  <2>2. n \in Int /\ Len(samples) \in Int
    BY <2>1
  <2> QED BY <2>1, <2>2, Ticking
<1>10. Origin' = b + Ticks(n)
  <2>1. audioTime' = b + Ticks(Len(samples))
    BY DEF EndAudio
  <2>2. audioTime' - Ticks(Len(samples) - n) = b + Ticks(n)
    BY <1>9, <2>1
  <2> QED BY <1>8, <2>2 DEF Origin
<1>11. both => OnTime(start, enc[Audio].cur_pts + n, b + Ticks(n))
  <2> SUFFICES ASSUME both PROVE OnTime(start, enc[Audio].cur_pts + n, b + Ticks(n))
    OBVIOUS
  <2>1. /\ Ticks(enc[Audio].cur_pts + n) = Ticks(enc[Audio].cur_pts) + Ticks(n)
        /\ Ticks(enc[Audio].cur_pts) \in Nat
    <3>1. enc[Audio].cur_pts \in Int /\ n \in Int
      BY <1>4, <1>9
    <3> QED BY <1>4, <3>1, Ticking
  <2>2. start + Ticks(enc[Audio].cur_pts) - b \in 0 .. SamplePeriod - 1
    BY DEF OnTime
  <2>3. start + (Ticks(enc[Audio].cur_pts) + Ticks(n)) - (b + Ticks(n))
          = start + Ticks(enc[Audio].cur_pts) - b
    BY <1>9, <2>1
  <2> QED BY <2>1, <2>2, <2>3 DEF OnTime
<1>12. Buffered'
  <2>1. b + Ticks(n) \in Nat
    BY <1>9
  <2>2. packets'.both = both
    BY <1>2
  <2> QED BY <1>4, <1>8, <1>10, <1>11, <2>1, <2>2 DEF Buffered
<1>13. AudioAligned'
  <2> SUFFICES ASSUME both, NEW i \in 1 .. n
               PROVE  start + Ticks(enc[Audio].cur_pts + i - 1)
                        - SubSeq(samples, 1, n)[i] \in 0 .. SamplePeriod - 1
    <3>1. /\ packets'.both = both /\ packets'.start = start
          /\ packets'.pts = enc[Audio].cur_pts
          /\ packets'.times = SubSeq(samples, 1, n)
      BY <1>2
    <3>2. DOMAIN packets'.times = 1 .. n
      BY <1>8, <3>1
    <3>3. (packets'.both => \A i \in DOMAIN packets'.times :
             packets'.start + Ticks(packets'.pts + i - 1) - packets'.times[i]
               \in 0 .. SamplePeriod - 1) => AudioAligned'
      BY Zenon DEF AudioAligned, Ticks
    <3> QED BY <3>1, <3>2, <3>3
  <2>1. SubSeq(samples, 1, n)[i] = b + Ticks(i - 1)
    BY <1>8 DEF Runs
  <2>2. /\ Ticks(enc[Audio].cur_pts + (i - 1)) = Ticks(enc[Audio].cur_pts) + Ticks(i - 1)
        /\ Ticks(enc[Audio].cur_pts) \in Nat /\ Ticks(i - 1) \in Int
    <3>1. enc[Audio].cur_pts \in Int /\ i - 1 \in Int
      BY <1>4, <1>9
    <3> QED BY <1>4, <3>1, Ticking
  <2>3. start + Ticks(enc[Audio].cur_pts) - b \in 0 .. SamplePeriod - 1
    BY DEF OnTime
  <2>4. start + (Ticks(enc[Audio].cur_pts) + Ticks(i - 1)) - (b + Ticks(i - 1))
          = start + Ticks(enc[Audio].cur_pts) - b
    BY <2>2
  <2>5. enc[Audio].cur_pts + i - 1 = enc[Audio].cur_pts + (i - 1)
    BY <1>4, <1>9
  <2>6. start + Ticks(enc[Audio].cur_pts + i - 1) - SubSeq(samples, 1, n)[i]
          \in 0 .. SamplePeriod - 1
    BY <2>1, <2>2, <2>3, <2>4, <2>5
  <2> QED BY <2>6
<1>14. UNCHANGED <<init, todo>> /\ heard' = FALSE
  BY DEF EndAudio
<1> QED BY <1>3, <1>4, <1>5, <1>6, <1>7, <1>12, <1>13, <1>14, InStepAudioOnly

LEMMA InStepStart ==
  ASSUME TypeOK, InStep, StartAudio PROVE InStep'
<1> DEFINE v == VideoStart
           o == enc[Audio].paired
           block == Block(audioTime)
<1>1. /\ Audio \in Encoders /\ enc[Audio] \in EncoderRecord
      /\ Quiet(enc[Audio], init[Audio])
      /\ \A k \in Outputs : PairInOrder(enc[Audio], enc[k], k, firstRaw)
  BY AudioFacts
<1>2. /\ heard /\ enc[Audio].start_ts = 0 /\ o # None /\ ~WaitsForVideo
      /\ enc[Audio].active /\ enc[Audio].first_received
  BY DEF StartAudio, InStep
<1>3. v # 0 /\ ~(BlockEnd(audioTime) =< v)
  BY <1>2 DEF WaitsForVideo
<1>4. o \in Outputs
  <2>1. o \in Encoders
    BY <1>1, <1>2 DEF EncoderRecord
  <2>2. o # Audio
    BY <1>2, <1>3 DEF VideoStart
  <2> QED BY <2>1, <2>2 DEF Encoders
<1>5. enc[o] \in EncoderRecord
  BY <1>4, AudioFacts DEF TypeOK
<1>6. v = enc[o].start_ts /\ v \in Nat \ {0}
  BY <1>3, <1>5 DEF VideoStart, EncoderRecord
<1>7. /\ audioTime \in Nat \ {0} /\ block \in Seq(Nat) /\ Len(block) = BlockFrames
      /\ BlockEnd(audioTime) \in Nat
      /\ BlockEnd(audioTime) = audioTime + Ticks(Len(block))
      /\ Runs(block, audioTime)
  BY BlockTypes DEF TypeOK
<1>8. enc[Audio].cur_pts = 0
  BY <1>1, <1>2 DEF Quiet
<1>9. /\ buffer \in Seq(Nat) /\ Runs(buffer, firstRaw) /\ firstRaw \in Nat
      /\ audioTime = firstRaw + Ticks(Len(buffer))
  <2>1. buffer \in Seq(Nat) /\ firstRaw \in Nat
    BY DEF TypeOK
  <2>2. Runs(buffer, firstRaw) /\ firstRaw = Origin
    BY <1>2 DEF InStep, Buffered
  <2>3. Ticks(Len(buffer)) \in Nat
    BY <2>1, Ticking
  <2> QED BY <1>7, <2>1, <2>2, <2>3 DEF Origin
<1>10. \A k \in Outputs : enc[Audio].paired = k /\ enc[k].paired = Audio
          /\ enc[k].start_ts # 0 => firstRaw =< enc[k].start_ts
  BY <1>1 DEF PairInOrder
<1>11. EndAudio
  BY DEF StartAudio
<1> DEFINE both == enc[o].paired = Audio
<1>12. both \in BOOLEAN
  OBVIOUS
<1>13. ASSUME NEW b \in Nat, v - b \in 0 .. SamplePeriod - 1
       PROVE  OnTime(v, enc[Audio].cur_pts, b)
  <2>1. v + 0 - b = v - b
    BY <1>6
  <2> QED BY <1>8, <1>13, <2>1, Ticking DEF OnTime
<1>14. v \in Nat /\ v # 0
  BY <1>6
<1>15. CASE audioTime =< v
  <2>1. Send(v, From(block, audioTime, v), both)
    BY <1>15 DEF StartAudio
  <2>2. audioTime \in Nat /\ v \in Nat /\ v < audioTime + Ticks(Len(block))
    BY <1>3, <1>6, <1>7
  <2>3. PICK d \in Nat :
          /\ d =< Len(block) /\ v - (audioTime + Ticks(d)) \in 0 .. SamplePeriod - 1
          /\ From(block, audioTime, v) \in Seq(Nat)
          /\ Len(From(block, audioTime, v)) = Len(block) - d
          /\ Runs(From(block, audioTime, v), audioTime + Ticks(d))
    BY <1>7, <1>15, <2>2, FromRuns
  <2>4. /\ audioTime + Ticks(d) \in Nat
        /\ audioTime + Ticks(d) + Ticks(Len(block) - d) = BlockEnd(audioTime)
    <3>1. Len(block) \in Nat /\ d \in Int /\ Len(block) \in Int
      BY <1>7
    <3>2. /\ Ticks(d) \in Nat /\ Ticks(Len(block)) \in Nat
          /\ Ticks(Len(block) - d) = Ticks(Len(block)) - Ticks(d)
      BY <3>1, Ticking
    <3> QED BY <1>7, <3>2
  <2>5. OnTime(v, enc[Audio].cur_pts, audioTime + Ticks(d))
    BY <1>13, <2>3, <2>4
  <2> HIDE DEF v, both, block, o
  <2> QED BY <1>2, <1>6, <1>10, <1>11, <1>12, <1>14, <2>1, <2>3, <2>4, <2>5,
             InStepSend
<1>16. CASE ~(audioTime =< v)
  <2> DEFINE kept == From(buffer, firstRaw, v)
  <2>1. Send(v, kept \o block, both)
    BY <1>16 DEF StartAudio
  <2>2. \E b \in Nat : /\ kept \in Seq(Nat) /\ Runs(kept, b)
                       /\ audioTime = b + Ticks(Len(kept))
                       /\ both => v - b \in 0 .. SamplePeriod - 1
    <3>1. CASE firstRaw =< v
      <4>1. v \in Nat /\ v < firstRaw + Ticks(Len(buffer))
        BY <1>6, <1>7, <1>9, <1>16
      <4>2. PICK d \in Nat :
              /\ d =< Len(buffer) /\ v - (firstRaw + Ticks(d)) \in 0 .. SamplePeriod - 1
              /\ kept \in Seq(Nat) /\ Len(kept) = Len(buffer) - d
              /\ Runs(kept, firstRaw + Ticks(d))
        BY <1>9, <3>1, <4>1, FromRuns
      <4>3. /\ firstRaw + Ticks(d) \in Nat
            /\ audioTime = firstRaw + Ticks(d) + Ticks(Len(buffer) - d)
        <5>1. Len(buffer) \in Nat /\ d \in Int /\ Len(buffer) \in Int
          BY <1>9
        <5>2. /\ Ticks(d) \in Nat /\ Ticks(Len(buffer)) \in Nat
              /\ Ticks(Len(buffer) - d) = Ticks(Len(buffer)) - Ticks(d)
          BY <5>1, Ticking
        <5> QED BY <1>9, <5>2
      <4> HIDE DEF kept
      <4> QED BY <4>2, <4>3
    <3>2. CASE ~(firstRaw =< v)
      <4>1. kept = buffer
        BY <1>6, <1>9, <3>2 DEF From
      <4>2. ~both
        BY <1>4, <1>6, <1>10, <3>2
      <4> QED BY <1>9, <4>1, <4>2
    <3> QED BY <3>1, <3>2
  <2> HIDE DEF kept
  <2>3. PICK b \in Nat : /\ kept \in Seq(Nat) /\ Runs(kept, b)
                         /\ audioTime = b + Ticks(Len(kept))
                         /\ both => v - b \in 0 .. SamplePeriod - 1
    BY <2>2
  <2>4. /\ kept \o block \in Seq(Nat) /\ Runs(kept \o block, b)
        /\ b + Ticks(Len(kept \o block)) = BlockEnd(audioTime)
    <3>1. audioTime \in Nat
      BY <1>7
    <3> QED BY <2>3, <3>1, RunsBlock
  <2>5. both => OnTime(v, enc[Audio].cur_pts, b)
    BY <1>13, <2>3
  <2> HIDE DEF v, both, block, o
  <2> QED BY <1>2, <1>6, <1>10, <1>11, <1>12, <1>14, <2>1, <2>4, <2>5,
             InStepSend
<1> QED BY <1>15, <1>16

LEMMA InStepEncode ==
  ASSUME TypeOK, InStep, EncodeAudio PROVE InStep'
<1> DEFINE a == enc[Audio]
           start == IF a.start_ts = 0 THEN audioTime ELSE a.start_ts
           both == IF a.start_ts = 0 THEN TRUE ELSE packets.both
<1>1. /\ enc[Audio] \in EncoderRecord /\ Quiet(enc[Audio], init[Audio])
      /\ \A k \in Outputs : PairInOrder(enc[Audio], enc[k], k, firstRaw)
  BY AudioFacts
<1>2. /\ heard /\ (a.start_ts # 0 \/ a.paired = None)
      /\ a.active /\ a.first_received /\ EndAudio
      /\ Send(start, buffer \o Block(audioTime), both)
  BY DEF EncodeAudio, InStep
<1>3. start \in Nat /\ start # 0 /\ both \in BOOLEAN
  BY <1>1 DEF TypeOK, EncoderRecord
<1>4. /\ Origin \in Nat /\ Runs(buffer, Origin) /\ buffer \in Seq(Nat)
      /\ a.start_ts = 0 /\ a.paired = None => buffer = <<>>
      /\ a.start_ts # 0 /\ packets.both => OnTime(a.start_ts, a.cur_pts, Origin)
  BY <1>2 DEF InStep, Buffered, TypeOK
<1>5. audioTime \in Nat /\ audioTime = Origin + Ticks(Len(buffer))
  <2>1. Ticks(Len(buffer)) \in Nat
    BY <1>4, Ticking
  <2> QED BY <2>1 DEF Origin, TypeOK
<1>6. /\ buffer \o Block(audioTime) \in Seq(Nat)
      /\ Runs(buffer \o Block(audioTime), Origin)
      /\ Origin + Ticks(Len(buffer \o Block(audioTime))) = BlockEnd(audioTime)
  BY <1>4, <1>5, RunsBlock
<1>7. both => OnTime(start, a.cur_pts, Origin)
  <2>1. CASE a.start_ts # 0
    BY <1>4, <2>1
  <2>2. CASE a.start_ts = 0
    <3>1. buffer = <<>> /\ a.cur_pts = 0
      BY <1>1, <1>2, <1>4, <2>2 DEF Quiet
    <3>2. Len(buffer) = 0
      BY <3>1
    <3>3. Origin = audioTime
      BY <1>5, <3>2, Ticking DEF Origin
    <3>4. audioTime + 0 - audioTime = 0 /\ 0 \in 0 .. SamplePeriod - 1
      BY <1>5, Periods
    <3> QED BY <2>2, <3>1, <3>3, <3>4, Ticking DEF OnTime
  <2> QED BY <2>1, <2>2
<1>8. \A k \in Outputs : enc[Audio].paired = k /\ enc[k].paired = Audio
          /\ enc[k].start_ts # 0 => firstRaw =< enc[k].start_ts
  BY <1>1 DEF PairInOrder
<1> HIDE DEF start, both
<1> QED BY <1>2, <1>3, <1>4, <1>6, <1>7, <1>8, InStepSend

LEMMA InStepInit == Init => InStep
BY EncoderAssumption
DEF Init, Created, InStep, Quiet, PairInOrder, Buffered, AudioAligned, Encoders

LEMMA InStepNext == TypeOK /\ Whole /\ InStep /\ [Next]_vars => InStep'
<1>1. TypeOK /\ Whole /\ InStep /\ Next => InStep'
  BY InStepOutput, InStepVideo, InStepArrives, InStepKeep, InStepStart,
     InStepEncode DEF Next
<1>2. InStep /\ UNCHANGED vars => InStep'
  BY DEF InStep, Buffered, AudioAligned, Origin, vars
<1> QED BY <1>1, <1>2

(* Every encoded sample was recorded at the time its pts says, to less     *)
(* than one sample, for any sample period, block and frame size and any    *)
(* clocks: the buffer holds the samples between what is encoded and the    *)
(* next block without a gap, and a paired video encoder takes no frame     *)
(* before the first audio.                                                 *)
THEOREM SoundBelongsToPicture == Spec => []AudioAligned
<1>1. InStep => AudioAligned
  BY DEF InStep
<1> QED
  BY <1>1, InitTypes, TypeStep, WholeInit, WholeNext, InStepInit, InStepNext,
     PTL DEF Spec
=============================================================================
