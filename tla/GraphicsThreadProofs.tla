------------------------ MODULE GraphicsThreadProofs ------------------------
(***************************************************************************)
(* Proofs about GraphicsThread for any number of rounds, map failures and  *)
(* resets.  Each row of textures holds the scenes of the last two rounds   *)
(* that drew into it, each row one round older than the one above; the     *)
(* queue of timestamps is as much shorter than the history as pictures     *)
(* have gone out.                                                          *)
(***************************************************************************)
EXTENDS GraphicsThread, TLAPS

Pic(n) == IF n > 0 THEN n ELSE Nothing

(* The scenes of one row: the newest in texture t, the one before in the   *)
(* other.                                                                  *)
Holds(row, t, n) == row[t] = Pic(n) /\ row[1 - t] = Pic(n - 1)

(* cur_texture has gone on to the next round.                              *)
Advanced == pc \in {"sleep", "top", "exit"}

(* A row whose pictures are depth rounds old when they are drawn; todo are *)
(* the points before it is drawn in this round.                            *)
Row(row, depth, todo) ==
  /\ Advanced => Holds(row, PrevTexture, round - depth)
  /\ pc \in todo => Holds(row, PrevTexture, round - 1 - depth)
  /\ ~Advanced /\ pc \notin todo => Holds(row, curTexture, round - depth)

(* Rounds from rendering a scene to downloading it.                        *)
Latency == IF gpuConversion THEN 4 ELSE 3

Pipeline ==
  /\ Row(renderTextures, 0, {"render"})
  /\ Row(outputTextures, 1, {"render", "scale"})
  /\ gpuConversion => Row(convertTextures, 2, {"render", "scale", "convert"})
  /\ Row(copySurfaces, Latency - 1, {"render", "scale", "convert", "stage"})
  /\ pc = "convert" => gpuConversion
  /\ pc = "output" => mappedSurface = PrevTexture /\ round > Latency

(* Rounds whose timestamp is in the buffer or gone.                        *)
Slept == IF pc \in {"top", "exit"} THEN round ELSE round - 1

(* Pictures that have been downloaded or lost.                             *)
Downloaded ==
  LET n == IF Advanced \/ pc = "advance" THEN round ELSE round - 1
  IN  IF n > Latency THEN n - Latency ELSE 0

(* Timestamps that have left the buffer.                                   *)
Gone == Downloaded - failures

(* When scene n began, or will begin.                                      *)
Began(starts, now, n) == IF n =< Len(starts) THEN starts[n] ELSE now

Stamps ==
  /\ Len(startOf) = round
  /\ pc \notin {"top", "exit"} => round > 0 /\ startOf[round] = videoTime
  /\ failures =< Downloaded
  /\ Len(vframeInfo) = Slept - Gone
  /\ \A i \in 1 .. Len(vframeInfo) :
       /\ vframeInfo[i].timestamp = Began(startOf, videoTime, Gone + i)
       /\ vframeInfo[i].timestamp + vframeInfo[i].count
            = Began(startOf, videoTime, Gone + i + 1)
  /\ frame.scene # Nothing =>
       frame.timestamp + frame.count = Began(startOf, videoTime, Gone + 1)

IInv == TypeOK /\ Pipeline /\ Stamps

USE DEF BoundAssumption, NUM_TEXTURES, Nothing

-----------------------------------------------------------------------------
(* Types.                                                                  *)

LEMMA TwoTextures == Textures = {0, 1}
  BY DEF Textures

LEMMA PrevTextureOther ==
  ASSUME curTexture \in Textures
  PROVE  PrevTexture \in Textures /\ PrevTexture = 1 - curTexture
  BY TwoTextures DEF PrevTexture

(* Drawing copies a scene or leaves the row.                               *)
LEMMA DrawType ==
  ASSUME curTexture \in Textures,
         NEW target \in Pictures, NEW source \in Pictures
  PROVE  Draw(target, source) \in Pictures
  BY PrevTextureOther DEF Draw, Pictures

LEMMA BlankType == Blank \in [Textures -> {Nothing}]
  BY DEF Blank

LEMMA InitType == Init => TypeOK
<1> SUFFICES ASSUME Init PROVE TypeOK
  OBVIOUS
<1>1. Blank \in Pictures
  BY BlankType DEF Init, Pictures
<1>2. frame \in [scene : Nat, timestamp : Nat, count : 0 .. MaxCount]
  BY BoundAssumption DEF Init, NoFrame
<1>3. vframeInfo \in Seq(VFrameInfo) /\ startOf \in Seq(Nat)
  BY DEF Init
<1>4. mappedSurface \in Textures \union {-1} /\ curTexture \in Textures
  BY TwoTextures DEF Init
<1> QED BY <1>1, <1>2, <1>3, <1>4 DEF Init, TypeOK

(* A downloaded picture is in the surface that was mapped.                 *)
LEMMA TypeStep == TypeOK /\ Pipeline /\ [Next]_vars => TypeOK'
<1> SUFFICES ASSUME TypeOK, Pipeline, [Next]_vars PROVE TypeOK'
  OBVIOUS
<1> USE DEF TypeOK
<1>1. CASE StartRound
  <2>1. Pictures \subseteq Pictures'
    BY <1>1 DEF StartRound, Pictures
  <2>2. startOf' \in Seq(Nat)
    BY <1>1 DEF StartRound
  <2> QED BY <1>1, <2>1, <2>2 DEF StartRound, textures, VFrameInfo
<1>2. CASE LeaveLoop
  BY <1>2 DEF LeaveLoop, textures, hist, Pictures, VFrameInfo
<1>3. CASE RenderMainTexture
  BY <1>3 DEF RenderMainTexture, hist, Pictures, VFrameInfo
<1>4. CASE RenderOutputTexture
  BY <1>4, DrawType DEF RenderOutputTexture, hist, Pictures, VFrameInfo
<1>5. CASE RenderConvertTexture
  BY <1>5, DrawType DEF RenderConvertTexture, hist, Pictures, VFrameInfo
<1>6. CASE StageOutputTexture
  BY <1>6, DrawType DEF StageOutputTexture, hist, Pictures, VFrameInfo
<1>7. CASE DownloadFrame
  <2>1. mappedSurface' \in Textures \union {-1} /\ failures' \in Nat
    BY <1>7, PrevTextureOther DEF DownloadFrame
  <2>2. pc' \in {"output", "advance"}
    BY <1>7 DEF DownloadFrame
  <2> QED BY <1>7, <2>1, <2>2 DEF DownloadFrame, textures, Pictures, VFrameInfo
<1>8. CASE OutputVideoData
  <2>1. Head(vframeInfo) \in VFrameInfo /\ Tail(vframeInfo) \in Seq(VFrameInfo)
    BY <1>8 DEF OutputVideoData
  <2>2. copySurfaces[mappedSurface] \in Nat
    BY <1>8, PrevTextureOther DEF OutputVideoData, Pipeline, Pictures
  <2>3. frame' \in [scene : Nat, timestamp : Nat, count : 0 .. MaxCount]
    BY <1>8, <2>1, <2>2, BoundAssumption DEF OutputVideoData, VFrameInfo
  <2>4. vframeInfo' \in Seq(VFrameInfo)
    BY <1>8, <2>1 DEF OutputVideoData
  <2> QED BY <1>8, <2>3, <2>4 DEF OutputVideoData, textures, hist, Pictures
<1>9. CASE NextTexture
  <2>1. curTexture' \in Textures
    BY <1>9, TwoTextures DEF NextTexture
  <2> QED BY <1>9, <2>1 DEF NextTexture, textures, hist, Pictures, VFrameInfo
<1>10. ASSUME NEW count \in 1 .. MaxCount, VideoSleep(count) PROVE TypeOK'
  BY <1>10, SMTT(20) DEF VideoSleep, FrameInfo, textures, hist, Pictures, VFrameInfo
<1>11. CASE StopVideo
  BY <1>11 DEF StopVideo, textures, hist, Pictures, VFrameInfo
<1>12. CASE ResetVideo
  <2>1. Blank \in Pictures'
    BY <1>12, BlankType DEF ResetVideo, Pictures
  <2>2. frame' \in [scene : Nat, timestamp : Nat, count : 0 .. MaxCount]
    BY <1>12, BoundAssumption DEF ResetVideo, NoFrame
  <2>3. (vframeInfo \in Seq(VFrameInfo))' /\ startOf' \in Seq(Nat)
    BY <1>12 DEF ResetVideo
  <2>4. mappedSurface' \in Textures \union {-1} /\ curTexture' \in Textures
    BY <1>12, TwoTextures DEF ResetVideo
  <2>5. gpuConversion' \in BOOLEAN /\ stopped' = FALSE /\ pc' = "top"
    BY <1>12, Zenon DEF ResetVideo
  <2>6. round' = 0 /\ failures' = 0 /\ resets' = resets + 1
    BY <1>12, Zenon DEF ResetVideo
  <2>7. videoTime' \in Nat
    BY <1>12 DEF ResetVideo
  <2>8. /\ renderTextures' = Blank /\ outputTextures' = Blank
        /\ convertTextures' = Blank /\ copySurfaces' = Blank
    BY <1>12 DEF ResetVideo
  <2>9. (renderTextures \in Pictures)' /\ (outputTextures \in Pictures)'
    BY <2>1, <2>8
  <2>10. (copySurfaces \in Pictures)' /\ (convertTextures \in Pictures)'
    BY <2>1, <2>8
  <2>11. (gpuConversion \in BOOLEAN)' /\ (stopped \in BOOLEAN)'
    BY <2>5
  <2>12. (pc \in {"top", "render", "scale", "convert", "stage", "download",
             "output", "advance", "sleep", "exit"})'
    BY <2>5
  <2>13. (round \in Nat /\ failures \in Nat)'
    BY <2>6
  <2>14. resets' \in Nat
    BY <2>6
  <2> QED BY <2>2, <2>3, <2>4, <2>7, <2>9, <2>10, <2>11, <2>12, <2>13, <2>14,
             Zenon
<1>13. CASE UNCHANGED vars
  BY <1>13 DEF vars, textures, hist, Pictures, VFrameInfo
<1> QED BY <1>1, <1>2, <1>3, <1>4, <1>5, <1>6, <1>7, <1>8, <1>9, <1>10, <1>11,
           <1>12, <1>13 DEF Next

-----------------------------------------------------------------------------
(* The rows of textures.                                                   *)

LEMMA BlankHolds ==
  ASSUME NEW t \in Textures, NEW n \in Int, n =< 0
  PROVE  Holds(Blank, t, n)
  BY TwoTextures DEF Holds, Blank, Pic

(* A stage draws the picture of the row above that is one round older than *)
(* that row's newest.                                                      *)
LEMMA DrawHolds ==
  ASSUME curTexture \in Textures, NEW n \in Int,
         NEW target \in Pictures, NEW source \in Pictures,
         Holds(target, PrevTexture, n - 1), source[PrevTexture] = Pic(n)
  PROVE  Holds(Draw(target, source), curTexture, n)
<1>1. /\ PrevTexture = 1 - curTexture /\ PrevTexture \in Textures
      /\ 1 - PrevTexture = curTexture
  BY PrevTextureOther, TwoTextures
<1>2. target[PrevTexture] = Pic(n - 1) /\ target[curTexture] = Pic(n - 2)
  BY <1>1 DEF Holds
<1>3. CASE n =< 0
  <2>1. Draw(target, source) = target
    BY <1>3 DEF Draw, Pic
  <2> QED BY <1>1, <1>2, <1>3, <2>1 DEF Holds, Pic
<1>4. CASE n > 0
  <2>1. Draw(target, source) = [target EXCEPT ![curTexture] = Pic(n)]
    BY <1>4 DEF Draw, Pic
  <2>2. PrevTexture # curTexture
    BY <1>1, TwoTextures
  <2> QED BY <1>1, <1>2, <2>1, <2>2 DEF Holds, Pictures
<1> QED BY <1>3, <1>4

(* What the previous texture of a row holds while a round is under way.    *)
LEMMA PrevHolds ==
  ASSUME curTexture \in Textures, NEW row, NEW depth \in Int, NEW todo,
         Row(row, depth, todo), ~Advanced, round \in Nat
  PROVE  row[PrevTexture] = Pic(round - 1 - depth)
<1>1. CASE pc \in todo
  BY <1>1 DEF Row, Holds
<1>2. CASE pc \notin todo
  <2>1. row[1 - curTexture] = Pic(round - depth - 1)
    BY <1>2 DEF Row, Holds
  <2> QED BY <2>1, PrevTextureOther
<1> QED BY <1>1, <1>2

LEMMA InitPipeline == Init => Pipeline
<1> SUFFICES ASSUME Init PROVE Pipeline
  OBVIOUS
<1>1. PrevTexture \in Textures /\ Advanced /\ pc = "top" /\ round = 0
  BY PrevTextureOther, TwoTextures DEF Init, Advanced
<1>2. \A n \in Int : n =< 0 => Holds(Blank, PrevTexture, n)
  BY <1>1, BlankHolds
<1>3. Latency \in {3, 4}
  BY DEF Latency
<1>4. ASSUME NEW depth \in 0 .. 3, NEW todo, pc \notin todo
      PROVE  Row(Blank, depth, todo)
  BY <1>1, <1>2, <1>4 DEF Row
<1> QED BY <1>1, <1>3, <1>4 DEF Pipeline, Init

LEMMA PipelineStep == TypeOK /\ Pipeline /\ [Next]_vars => Pipeline'
<1> SUFFICES ASSUME TypeOK, Pipeline, [Next]_vars PROVE Pipeline'
  OBVIOUS
<1>0. round \in Nat /\ curTexture \in Textures /\ Latency \in {3, 4}
  BY DEF TypeOK, Latency
<1>1. CASE StartRound
  <2>1. /\ PrevTexture' = PrevTexture /\ Latency' = Latency
        /\ pc = "top" /\ pc' = "render" /\ round' = round + 1
    BY <1>1, Zenon DEF StartRound, PrevTexture, Latency
  <2>2. Advanced /\ ~Advanced'
    BY <2>1 DEF Advanced
  <2>3. \A depth \in 0 .. 3 : round' - 1 - depth = round - depth
    BY <1>0, <2>1
  <2>4. /\ Row(renderTextures, 0, {"render"})'
        /\ Row(outputTextures, 1, {"render", "scale"})'
    BY <1>1, <2>1, <2>2, <2>3 DEF StartRound, Pipeline, Row, textures
  <2>5. gpuConversion' =>
          Row(convertTextures, 2, {"render", "scale", "convert"})'
    BY <1>1, <2>1, <2>2, <2>3 DEF StartRound, Pipeline, Row, textures
  <2>6. Row(copySurfaces, Latency - 1, {"render", "scale", "convert", "stage"})'
    <3>1. round' - 1 - (Latency - 1) = round - (Latency - 1)
      BY <1>0, <2>1
    <3> QED BY <1>1, <2>1, <2>2, <3>1 DEF StartRound, Pipeline, Row, textures
  <2> QED BY <2>1, <2>4, <2>5, <2>6 DEF Pipeline
<1>2. CASE LeaveLoop
  BY <1>2
     DEF LeaveLoop, Pipeline, Row, Advanced, PrevTexture, Latency, textures,
         hist
<1>3. CASE RenderMainTexture
  <2>1. Holds(renderTextures', curTexture, round - 0)
    <3>1. Holds(renderTextures, PrevTexture, round - 1 - 0)
      BY <1>3, Zenon DEF RenderMainTexture, Pipeline, Row
    <3>2. renderTextures[1 - curTexture] = Pic(round - 1)
      BY <1>0, <3>1, PrevTextureOther DEF Holds
    <3>3. /\ renderTextures' = [renderTextures EXCEPT ![curTexture] = round]
          /\ renderTextures \in Pictures
      BY <1>3, Zenon DEF RenderMainTexture, TypeOK
    <3> QED BY <1>0, <3>2, <3>3, TwoTextures DEF Holds, Pic, Pictures
  <2> QED BY <1>3, <2>1
             DEF RenderMainTexture, Pipeline, Row, Advanced, PrevTexture,
             Latency, hist
<1>4. CASE RenderOutputTexture
  <2>1. Holds(outputTextures', curTexture, round - 1)
    <3>1. ~Advanced /\ pc = "scale"
      BY <1>4 DEF RenderOutputTexture, Advanced
    <3>2. Holds(outputTextures, PrevTexture, round - 1 - 1)
      BY <3>1, Zenon DEF Pipeline, Row
    <3>3. renderTextures[PrevTexture] = Pic(round - 1 - 0)
      BY <1>0, <3>1, PrevHolds DEF Pipeline
    <3> QED BY <1>0, <1>4, <3>2, <3>3, DrawHolds DEF RenderOutputTexture, TypeOK
  <2> QED BY <1>4, <2>1
             DEF RenderOutputTexture, Pipeline, Row, Advanced, PrevTexture,
             Latency, hist
<1>5. CASE RenderConvertTexture
  <2>1. Holds(convertTextures', curTexture, round - 2)
    <3>1. ~Advanced /\ pc = "convert" /\ gpuConversion
      BY <1>5, Zenon DEF RenderConvertTexture, Advanced, Pipeline
    <3>2. Holds(convertTextures, PrevTexture, round - 1 - 2)
      BY <3>1, Zenon DEF Pipeline, Row
    <3>3. outputTextures[PrevTexture] = Pic(round - 1 - 1)
      BY <1>0, <3>1, PrevHolds DEF Pipeline
    <3> QED BY <1>0, <1>5, <3>2, <3>3, DrawHolds
               DEF RenderConvertTexture, TypeOK
  <2> QED BY <1>5, <2>1
             DEF RenderConvertTexture, Pipeline, Row, Advanced, PrevTexture,
             Latency, hist
<1>6. CASE StageOutputTexture
  <2>1. Holds(copySurfaces', curTexture, round - (Latency - 1))
    <3>1. ~Advanced /\ pc = "stage"
      BY <1>6, Zenon DEF StageOutputTexture, Advanced
    <3>2. Holds(copySurfaces, PrevTexture, round - 1 - (Latency - 1))
      BY <3>1, Zenon DEF Pipeline, Row
    <3>3. CASE gpuConversion
      <4>1. convertTextures[PrevTexture] = Pic(round - 1 - 2)
        BY <1>0, <3>1, <3>3, PrevHolds DEF Pipeline
      <4> QED BY <1>0, <1>6, <3>2, <3>3, <4>1, DrawHolds
                 DEF StageOutputTexture, TypeOK, Latency
    <3>4. CASE ~gpuConversion
      <4>1. outputTextures[PrevTexture] = Pic(round - 1 - 1)
        BY <1>0, <3>1, PrevHolds DEF Pipeline
      <4> QED BY <1>0, <1>6, <3>2, <3>4, <4>1, DrawHolds
                 DEF StageOutputTexture, TypeOK, Latency
    <3> QED BY <3>3, <3>4
  <2> QED BY <1>6, <2>1
             DEF StageOutputTexture, Pipeline, Row, Advanced, PrevTexture,
             Latency, hist
<1>7. CASE DownloadFrame
  <2>1. ~Advanced /\ pc = "download"
    BY <1>7, Zenon DEF DownloadFrame, Advanced
  <2>2. copySurfaces[PrevTexture] = Pic(round - 1 - (Latency - 1))
    BY <1>0, <2>1, PrevHolds DEF Pipeline
  <2>3. copySurfaces[PrevTexture] # Nothing => round > Latency
    BY <1>0, <2>2 DEF Pic
  <2> QED BY <1>7, <2>3 DEF DownloadFrame, Pipeline, Row, Advanced, PrevTexture,
             Latency, textures
<1>8. CASE OutputVideoData
  BY <1>8
     DEF OutputVideoData, Pipeline, Row, Advanced, PrevTexture, Latency,
         textures, hist
<1>9. CASE NextTexture
  <2>1. PrevTexture' = curTexture
    BY <1>0, <1>9, TwoTextures DEF NextTexture, PrevTexture
  <2> QED BY <1>9, <2>1
             DEF NextTexture, Pipeline, Row, Advanced, Latency, textures, hist
<1>10. ASSUME NEW count \in 1 .. MaxCount, VideoSleep(count) PROVE Pipeline'
  BY <1>10
     DEF VideoSleep, Pipeline, Row, Advanced, PrevTexture, Latency, textures,
         hist
<1>11. CASE StopVideo
  BY <1>11
     DEF StopVideo, Pipeline, Row, Advanced, PrevTexture, Latency, textures,
         hist
<1>12. CASE ResetVideo
  <2>1. PrevTexture' \in Textures /\ Advanced' /\ pc' = "top" /\ round' = 0
    BY <1>12, TwoTextures DEF ResetVideo, PrevTexture, Advanced
  <2>2. \A depth \in 0 .. 3 : Holds(Blank, PrevTexture', 0 - depth)
    BY <2>1, BlankHolds
  <2>3. Latency' \in {3, 4}
    BY DEF Latency
  <2> QED BY <1>12, <2>1, <2>2, <2>3 DEF ResetVideo, Pipeline, Row
<1>13. CASE UNCHANGED vars
  BY <1>13
     DEF vars, Pipeline, Row, Advanced, PrevTexture, Latency, textures, hist
<1> QED BY <1>1, <1>2, <1>3, <1>4, <1>5, <1>6, <1>7, <1>8, <1>9, <1>10, <1>11,
           <1>12, <1>13 DEF Next

-----------------------------------------------------------------------------
(* The timestamps.                                                         *)

LEMMA Counters ==
  ASSUME TypeOK, Stamps
  PROVE  /\ Latency \in {3, 4} /\ Slept \in Int /\ Downloaded \in Nat
         /\ Gone \in Nat /\ Gone =< Slept /\ Len(vframeInfo) \in Nat
<1>1. Latency \in {3, 4} /\ round \in Nat /\ failures \in Nat
  BY DEF TypeOK, Latency
<1>2. Downloaded \in Nat
  <2>1. round # 0 \/ Advanced \/ pc = "advance" => Downloaded \in Nat
    BY <1>1 DEF Downloaded
  <2>2. round = 0 => Advanced
    BY DEF Stamps, Advanced
  <2> QED BY <2>1, <2>2
<1>3. Slept \in Int
  BY <1>1 DEF Slept
<1>4. /\ failures =< Downloaded /\ Len(vframeInfo) = Slept - Gone
      /\ Len(vframeInfo) \in Nat
  BY DEF Stamps, TypeOK
<1>5. Gone \in Nat
  BY <1>1, <1>2, <1>4 DEF Gone
<1> QED BY <1>1, <1>2, <1>3, <1>4, <1>5

LEMMA InitStamps == Init => Stamps
<1> SUFFICES ASSUME Init PROVE Stamps
  OBVIOUS
<1>1. Slept = 0 /\ Downloaded = 0 /\ Gone = 0
  BY DEF Init, Slept, Downloaded, Gone, Latency, Advanced
<1> QED BY <1>1 DEF Init, Stamps, NoFrame

(* A step that moves no timestamp and ends no download.                    *)
LEMMA StampsKept ==
  ASSUME TypeOK, Stamps,
         UNCHANGED <<startOf, vframeInfo, videoTime, frame, failures, round>>,
         Slept' = Slept, Downloaded' = Downloaded,
         pc' \in {"top", "exit"} <=> pc \in {"top", "exit"}
  PROVE  Stamps'
<1>1. Gone' = Gone
  BY DEF Gone
<1>2. \A n : Began(startOf', videoTime', n) = Began(startOf, videoTime, n)
  BY DEF Began
<1> QED BY <1>1, <1>2 DEF Stamps

LEMMA StampsStep == TypeOK /\ Pipeline /\ Stamps /\ [Next]_vars => Stamps'
<1> SUFFICES ASSUME TypeOK, Pipeline, Stamps, [Next]_vars PROVE Stamps'
  OBVIOUS
<1>0. /\ Latency \in {3, 4} /\ Slept \in Int /\ Downloaded \in Nat
      /\ Gone \in Nat /\ Gone =< Slept /\ Len(vframeInfo) \in Nat
      /\ round \in Nat /\ Len(startOf) = round /\ Len(vframeInfo) = Slept - Gone
  BY Counters DEF TypeOK, Stamps
<1>1. CASE StartRound
  <2>1. /\ Slept' = Slept /\ Slept = round
        /\ Downloaded' = Downloaded /\ Gone' = Gone
    BY <1>1 DEF StartRound, Slept, Downloaded, Gone, Advanced, Latency, TypeOK
  <2>2. /\ Len(startOf') = round' /\ round' = round + 1
        /\ startOf'[round'] = videoTime'
    BY <1>0, <1>1 DEF StartRound, TypeOK
  <2>3. \A n \in 1 .. round + 1 :
          Began(startOf', videoTime', n) = Began(startOf, videoTime, n)
    BY <1>0, <1>1, <2>2 DEF StartRound, Began, TypeOK
  <2>4. \A i \in 1 .. Len(vframeInfo) :
          Gone + i \in 1 .. round + 1 /\ Gone + i + 1 \in 1 .. round + 1
    BY <1>0, <2>1
  <2>5. Gone + 1 \in 1 .. round + 1
    BY <1>0, <2>1
  <2>6. /\ vframeInfo' = vframeInfo /\ frame' = frame /\ failures' = failures
    BY <1>1, Zenon DEF StartRound
  <2> QED BY <1>0, <2>1, <2>2, <2>3, <2>4, <2>5, <2>6 DEF Stamps
<1>2. CASE LeaveLoop \/ StopVideo \/ UNCHANGED vars
  <2>1. /\ Slept' = Slept /\ Downloaded' = Downloaded
        /\ pc' \in {"top", "exit"} <=> pc \in {"top", "exit"}
    BY <1>2
       DEF LeaveLoop, StopVideo, vars, hist, Slept, Downloaded, Advanced,
           Latency
  <2> QED BY <1>2, <2>1, StampsKept DEF LeaveLoop, StopVideo, vars, hist
<1>3. CASE \/ RenderMainTexture \/ RenderOutputTexture
           \/ RenderConvertTexture \/ StageOutputTexture
  <2>1. /\ Slept' = Slept /\ Downloaded' = Downloaded
        /\ pc' \in {"top", "exit"} <=> pc \in {"top", "exit"}
    BY <1>3 DEF RenderMainTexture, RenderOutputTexture, RenderConvertTexture,
       StageOutputTexture, hist, Slept, Downloaded, Advanced, Latency
  <2> QED BY <1>3, <2>1, StampsKept DEF RenderMainTexture, RenderOutputTexture,
             RenderConvertTexture, StageOutputTexture, hist
<1>4. CASE NextTexture
  <2>1. /\ Slept' = Slept /\ Downloaded' = Downloaded
        /\ pc' \in {"top", "exit"} <=> pc \in {"top", "exit"}
    BY <1>4 DEF NextTexture, hist, Slept, Downloaded, Advanced, Latency
  <2> QED BY <1>4, <2>1, StampsKept DEF NextTexture, hist
<1>5. CASE DownloadFrame
  <2>1. copySurfaces[PrevTexture] = Pic(round - 1 - (Latency - 1))
    <3>1. ~Advanced /\ curTexture \in Textures
      BY <1>5 DEF DownloadFrame, Advanced, TypeOK
    <3> QED BY <1>0, <3>1, PrevHolds DEF Pipeline
  <2>2. copySurfaces[PrevTexture] # Nothing <=> round > Latency
    BY <1>0, <2>1 DEF Pic
  <2>3. Slept' = Slept /\ Latency' = Latency
    BY <1>5 DEF DownloadFrame, Slept, Latency
  <2>4. CASE pc' = "output" \/ round =< Latency
    <3>1. Downloaded' = Downloaded
      BY <1>0, <1>5, <2>3, <2>4 DEF DownloadFrame, Downloaded, Advanced
    <3>2. failures' = failures
      BY <1>0, <1>5, <2>2, <2>4 DEF DownloadFrame
    <3> QED BY <1>5, <2>3, <3>1, <3>2, StampsKept DEF DownloadFrame
  <2>5. CASE pc' # "output" /\ round > Latency
    <3>1. Downloaded' = Downloaded + 1
      BY <1>0, <1>5, <2>3, <2>5 DEF DownloadFrame, Downloaded, Advanced
    <3>2. failures' = failures + 1 /\ failures \in Nat
      BY <1>5, <2>2, <2>5 DEF DownloadFrame, TypeOK
    <3>3. Gone' = Gone
      BY <1>0, <3>1, <3>2 DEF Gone
    <3>4. \A n : Began(startOf', videoTime', n) = Began(startOf, videoTime, n)
      BY <1>5 DEF DownloadFrame, Began
    <3> QED BY <1>0, <1>5, <2>3, <3>1, <3>2, <3>3, <3>4
               DEF DownloadFrame, Stamps
  <2> QED BY <1>0, <2>4, <2>5
<1>6. CASE OutputVideoData
  <2>1. Slept' = Slept /\ Latency' = Latency /\ round' = round
    BY <1>6 DEF OutputVideoData, Slept, Latency, hist
  <2>2. Downloaded' = Downloaded + 1
    BY <1>0, <1>6, <2>1 DEF OutputVideoData, Downloaded, Advanced, Pipeline
  <2>3. Gone' = Gone + 1
    BY <1>0, <1>6, <2>2 DEF OutputVideoData, Gone, hist, TypeOK
  <2>4. \A n : Began(startOf', videoTime', n) = Began(startOf, videoTime, n)
    BY <1>6 DEF OutputVideoData, Began, hist
  <2>5. /\ Len(vframeInfo') = Len(vframeInfo) - 1 /\ Len(vframeInfo) > 0
        /\ \A i \in 1 .. Len(vframeInfo') : vframeInfo'[i] = vframeInfo[i + 1]
    BY <1>6 DEF OutputVideoData, TypeOK
  <2>6. \A i \in 1 .. Len(vframeInfo') :
          /\ vframeInfo'[i].timestamp = Began(startOf', videoTime', Gone' + i)
          /\ vframeInfo'[i].timestamp + vframeInfo'[i].count
               = Began(startOf', videoTime', Gone' + i + 1)
    <3> TAKE i \in 1 .. Len(vframeInfo')
    <3>1. i + 1 \in 1 .. Len(vframeInfo) /\ vframeInfo'[i] = vframeInfo[i + 1]
      BY <1>0, <2>5
    <3>2. Gone' + i = Gone + (i + 1) /\ Gone' + i + 1 = Gone + (i + 1) + 1
      BY <1>0, <2>3
    <3> QED BY <2>4, <3>1, <3>2 DEF Stamps
  <2>7. frame'.timestamp + frame'.count = Began(startOf', videoTime', Gone' + 1)
    BY <1>0, <1>6, <2>3, <2>4, <2>5 DEF OutputVideoData, Stamps
  <2>8. failures' =< Downloaded' /\ Len(vframeInfo') = Slept' - Gone'
    BY <1>0, <1>6, <2>1, <2>2, <2>3, <2>5
       DEF OutputVideoData, Stamps, hist, TypeOK
  <2> QED BY <1>0, <1>6, <2>6, <2>7, <2>8 DEF OutputVideoData, Stamps, hist
<1>7. ASSUME NEW count \in 1 .. MaxCount, VideoSleep(count) PROVE Stamps'
  <2>1. Slept = round - 1 /\ Slept' = round /\ round > 0
    BY <1>7 DEF VideoSleep, Slept, hist, Stamps
  <2>2. Downloaded' = Downloaded /\ Gone' = Gone
    BY <1>7 DEF VideoSleep, Downloaded, Gone, Advanced, Latency, hist
  <2>3. /\ \A n \in 1 .. round :
             Began(startOf', videoTime', n) = Began(startOf, videoTime, n)
        /\ Began(startOf, videoTime, round) = videoTime
        /\ Began(startOf', videoTime', round + 1) = videoTime + count
    BY <1>0, <1>7, <2>1 DEF VideoSleep, Began, hist, Stamps
  <2>4. /\ Len(vframeInfo') = Len(vframeInfo) + 1
        /\ \A i \in 1 .. Len(vframeInfo) : vframeInfo'[i] = vframeInfo[i]
        /\ vframeInfo'[Len(vframeInfo) + 1] = FrameInfo(count)
    BY <1>7 DEF VideoSleep, TypeOK, FrameInfo, VFrameInfo
  <2>5. \A i \in 1 .. Len(vframeInfo) :
          /\ vframeInfo'[i].timestamp = Began(startOf', videoTime', Gone' + i)
          /\ vframeInfo'[i].timestamp + vframeInfo'[i].count
               = Began(startOf', videoTime', Gone' + i + 1)
    <3> TAKE i \in 1 .. Len(vframeInfo)
    <3>1. Gone + i \in 1 .. round /\ Gone + i + 1 \in 1 .. round
      BY <1>0, <2>1
    <3> QED BY <2>2, <2>3, <2>4, <3>1 DEF Stamps
  <2>6. Gone + (Len(vframeInfo) + 1) = round
    BY <1>0, <2>1
  <2>7. /\ FrameInfo(count).timestamp = Began(startOf', videoTime', round)
        /\ FrameInfo(count).timestamp + FrameInfo(count).count
             = Began(startOf', videoTime', round + 1)
    BY <1>0, <2>1, <2>3 DEF FrameInfo
  <2>8. \A i \in 1 .. Len(vframeInfo') :
          /\ vframeInfo'[i].timestamp = Began(startOf', videoTime', Gone' + i)
          /\ vframeInfo'[i].timestamp + vframeInfo'[i].count
               = Began(startOf', videoTime', Gone' + i + 1)
    <3> TAKE i \in 1 .. Len(vframeInfo')
    <3>1. CASE i \in 1 .. Len(vframeInfo)
      BY <2>5, <3>1
    <3>2. CASE i = Len(vframeInfo) + 1
      <4>1. Gone' + i = round /\ Gone' + i + 1 = round + 1
        BY <1>0, <2>2, <2>6, <3>2
      <4> QED BY <2>4, <2>7, <3>2, <4>1
    <3> QED BY <1>0, <2>4, <3>1, <3>2
  <2>9. Began(startOf', videoTime', Gone' + 1)
          = Began(startOf, videoTime, Gone + 1)
    BY <1>0, <2>1, <2>2, <2>3
  <2> QED BY <1>0, <1>7, <2>1, <2>2, <2>4, <2>8, <2>9
             DEF VideoSleep, Stamps, hist
<1>8. CASE ResetVideo
  <2>1. Slept' = 0 /\ Downloaded' = 0 /\ Gone' = 0
    BY <1>8 DEF ResetVideo, Slept, Downloaded, Gone, Latency, Advanced
  <2> QED BY <1>8, <2>1 DEF ResetVideo, Stamps, NoFrame
<1> QED BY <1>1, <1>2, <1>3, <1>4, <1>5, <1>6, <1>7, <1>8 DEF Next

-----------------------------------------------------------------------------
(* The theorems.                                                           *)

LEMMA Invariant == Spec => []IInv
<1>1. Init => IInv
  BY InitType, InitPipeline, InitStamps DEF IInv
<1>2. IInv /\ [Next]_vars => IInv'
  BY TypeStep, PipelineStep, StampsStep DEF IInv
<1> QED BY <1>1, <1>2, PTL DEF Spec

(* What the graphics thread keeps stays in its types, over any number of   *)
(* rounds, failures of the device and resets of the video.                 *)
THEOREM TypeCorrect == Spec => []TypeOK
<1>1. IInv => TypeOK
  BY DEF IInv
<1> QED BY <1>1, Invariant, PTL

(* output_frame finds a timestamp in vframe_info_buffer for every picture  *)
(* that download_frame has mapped.                                         *)
THEOREM StampReadyCorrect == Spec => []StampReady
<1>1. IInv => StampReady
  <2> SUFFICES ASSUME IInv, pc = "output" PROVE vframeInfo # <<>>
    BY DEF StampReady
  <2>1. /\ Len(vframeInfo) = Latency + failures
        /\ Latency \in {3, 4} /\ failures \in Nat
    BY
       DEF IInv, TypeOK, Pipeline, Stamps, Slept, Gone, Downloaded, Advanced,
           Latency
  <2> QED BY <2>1
<1> QED BY <1>1, Invariant, PTL

(* That timestamp is the picture's own, or of a scene as many rounds before*)
(* as pictures could not be mapped.                                        *)
THEOREM StampMatchesSceneCorrect == Spec => []StampMatchesScene
<1>1. IInv => StampMatchesScene
  <2> SUFFICES ASSUME IInv, pc = "output", vframeInfo # <<>>
               PROVE  Head(vframeInfo).timestamp
                        = startOf[copySurfaces[mappedSurface] - failures]
    BY DEF StampMatchesScene
  <2>1. /\ round \in Nat /\ round > Latency
        /\ Latency \in {3, 4} /\ failures \in Nat
        /\ mappedSurface = PrevTexture /\ ~Advanced /\ curTexture \in Textures
    BY DEF IInv, TypeOK, Pipeline, Advanced, Latency
  <2>2. copySurfaces[mappedSurface] = round - Latency
    <3>1. copySurfaces[PrevTexture] = Pic(round - 1 - (Latency - 1))
      BY <2>1, PrevHolds DEF IInv, Pipeline
    <3> QED BY <2>1, <3>1 DEF Pic
  <2>3. Gone = round - 1 - Latency - failures /\ Gone \in Nat
    BY <2>1 DEF IInv, Stamps, Gone, Downloaded, Advanced
  <2>4. 1 \in 1 .. Len(vframeInfo) /\ Head(vframeInfo) = vframeInfo[1]
    BY DEF IInv, TypeOK
  <2>5. Head(vframeInfo).timestamp = Began(startOf, videoTime, Gone + 1)
    BY <2>4 DEF IInv, Stamps
  <2>6. Began(startOf, videoTime, Gone + 1) = startOf[Gone + 1]
    BY <2>1, <2>3 DEF IInv, Stamps, Began
  <2>7. Gone + 1 = copySurfaces[mappedSurface] - failures
    BY <2>1, <2>2, <2>3
  <2> QED BY <2>5, <2>6, <2>7
<1> QED BY <1>1, Invariant, PTL

(* A frame handed to the raw video queue begins where the one before it    *)
(* ended, which is what VideoIO takes for granted of its producer.         *)
THEOREM StampsContiguousCorrect == Spec => StampsContiguous
<1>1. IInv /\ [Next]_vars =>
        [frame' # frame /\ frame.scene # Nothing /\ frame'.scene # Nothing =>
           frame'.timestamp = frame.timestamp + frame.count]_vars
  <2> SUFFICES ASSUME IInv, Next, frame' # frame,
                      frame.scene # Nothing, frame'.scene # Nothing
               PROVE  frame'.timestamp = frame.timestamp + frame.count
    BY DEF vars
  <2>1. OutputVideoData
    BY DEF Next, StartRound, LeaveLoop, RenderMainTexture, RenderOutputTexture,
       RenderConvertTexture, StageOutputTexture, DownloadFrame, NextTexture,
       VideoSleep, StopVideo, ResetVideo, NoFrame
  <2>2. frame.timestamp + frame.count = Began(startOf, videoTime, Gone + 1)
    BY DEF IInv, Stamps
  <2>3. 1 \in 1 .. Len(vframeInfo) /\ Head(vframeInfo) = vframeInfo[1]
    BY <2>1 DEF OutputVideoData, IInv, TypeOK
  <2>4. vframeInfo[1].timestamp = Began(startOf, videoTime, Gone + 1)
    BY <2>3 DEF IInv, Stamps
  <2> QED BY <2>1, <2>2, <2>3, <2>4 DEF OutputVideoData
<1> QED BY <1>1, Invariant, PTL DEF Spec, StampsContiguous

=============================================================================
