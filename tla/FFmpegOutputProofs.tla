------------------------- MODULE FFmpegOutputProofs -------------------------
(***************************************************************************)
(* Proofs about FFmpegOutput for any number of recordings, stops and       *)
(* packets, and for a file with a video stream, an audio stream or both.   *)
(***************************************************************************)
EXTENDS FFmpegOutput, TLAPS

(* The places of each kind of thread.                                      *)
Ended == {"none", "done"}
Loop  == {"wait", "check", "take", "write"}
\* After the end of the capture, up to the end of ffmpeg_deactivate.
Past  == {"signalStopped", "deactivate", "joinWrite", "trailer", "clear"}
EC    == {"endCapture"} \cup Past
\* Before the write thread is there, and then before the start signal.
Opening  == {"open", "setActive", "canBegin", "spawnWrite", "endCapture"}
Going    == {"begin", "activate"}
Starting == {"signalStart", "setWrite"}
Begun    == {"connected", "done"}
Stops    == {"resetEvent", "pluginStop", "setStopTs"}
Waiting  == {"idle", "waitStopped", "setConnecting"}

StartLabels == {"none", "signalStopped"} \cup Opening \cup Going \cup Starting
                 \cup Begun
WriteLabels == Ended \cup Loop \cup EC \cup {"leave"}
UserLabels  == Waiting \cup Stops \cup EC
                 \cup {"destroyWait", "destroyJoin", "destroyStop", "freed"}
EndLabels   == Ended \cup {"video", "audio", "inactive", "event", "ending"}
Labels == StartLabels \cup WriteLabels \cup UserLabels \cup EndLabels
Returns == {"wait", "leave", "idle", "destroyWait", "freed"}

PlacesOK(p, q) ==
  /\ p \in [Threads -> Labels] /\ q \in [Threads -> Returns]
  /\ \A g \in Starts : /\ p[Start(g)] \in StartLabels
                       /\ p[Write(g)] \in WriteLabels
                       /\ q[Write(g)] \in {"wait", "leave"}
  /\ p[User] \in UserLabels /\ q[User] \in {"idle", "destroyWait", "freed"}
  /\ p[End] \in EndLabels

Races == {"lateConnecting", "early", "hasty", "overlap", "inCallback"}

Flags ==
  {obsActive, dataActive, stoppingEvent, ending, active, connecting, stopping,
   writeActive, stopEvent, forced, destroying, asked} \subseteq BOOLEAN

Values ==
  /\ hooked \subseteq {"video", "audio"}
  /\ {stopTs, writeThread, data, starts} \subseteq 0 .. MaxStarts
  /\ writeSem \in Nat /\ stops \in Nat
  /\ packets \in Seq([of : 0 .. MaxStarts, before : BOOLEAN])
  /\ raw \in [Sources -> 0 .. MaxStarts] /\ hand \in [Starts -> 0 .. MaxStarts]
  /\ closed \subseteq Starts
  /\ client \in {"idle", "starting", "live", "stopping"}
  /\ races \subseteq Races

TypeOK == Flags /\ Values /\ PlacesOK(pc, ret)

-----------------------------------------------------------------------------
(* Five places say where the threads are: those of the recordings before   *)
(* have ended.                                                             *)

st   == IF starts = 0 THEN "none" ELSE pc[Start(starts)]
wr   == IF starts = 0 THEN "none" ELSE pc[Write(starts)]
wret == IF starts = 0 THEN "wait" ELSE ret[Write(starts)]
usr  == pc[User]
fin  == pc[End]
back == ret[User]

(* While a start waits everything has ended, and it has the room that      *)
(* UserStart found.                                                        *)
Room ==
  usr = "waitStopped" =>
    /\ \A t \in Threads \ {User} : pc[t] \in Ended
    /\ starts < MaxStarts \/ connecting
    /\ races \subseteq {"lateConnecting"} /\ ~obsActive

Lone ==
  /\ \A g \in Starts : g # starts => pc[Start(g)] \in Ended /\ pc[Write(g)] \in Ended
  /\ \A g \in Starts : g > starts => pc[Start(g)] = "none" /\ pc[Write(g)] = "none"
  /\ \A g \in Starts : ret[Write(g)] = "leave" => pc[Write(g)] \in EC

Paired ==
  /\ wr # "none" => writeThread = starts
  /\ st \in Opening \cup {"none", "signalStopped"} => wr = "none"
  /\ st \in Going \cup Starting => wr # "none"
  /\ active <=> (st \in {"canBegin", "spawnWrite"} \/ wr \notin Ended)
  /\ ending <=> fin \notin Ended
  /\ st \notin Ended => connecting \/ usr = "setConnecting"
  /\ "lateConnecting" \notin races /\ (connecting \/ usr = "setConnecting") =>
       st \notin Ended
  /\ detached \subseteq (IF starts = 0 THEN {} ELSE {Write(starts)})
  /\ detached # {} => wr = "leave" \/ (wr \in EC /\ wret = "leave")

(* Everything in the output belongs to the recording of its last start.    *)
Stamped ==
  /\ data \in {0, starts} /\ \A g \in closed : g =< starts
  /\ \A s \in Sources : raw[s] \in {0, starts}
  /\ \A i \in DOMAIN packets : packets[i].of = starts
  /\ wr = "write" => hand[starts] = starts

(* The packets of before the stop are ahead of the others, and a write     *)
(* thread that ends at a timestamp has left none of them.                  *)
Sorted ==
  /\ \A i, j \in DOMAIN packets : i < j /\ packets[j].before => packets[i].before
  /\ \A i \in DOMAIN packets : ~packets[i].before => asked
  /\ wr \in EC /\ wret = "wait" /\ "hasty" \notin races =>
       asked /\ \A i \in DOMAIN packets : ~packets[i].before

-----------------------------------------------------------------------------
(* The parts of the invariant of a behaviour that is calm: no recording    *)
(* ended early and no stop overlapped an end.                              *)

Calm == "early" \notin races /\ "overlap" \notin races
Hooked == fin \in {"video", "audio", "inactive"}
Empty  == packets = <<>> /\ \A s \in Sources : raw[s] = 0
Held   == \A s \in Sources : raw[s] # 0 => s \in hooked
Filed  == starts \in closed
InCall == "inCallback" \in races

(* What is captured.                                                       *)
Capturing ==
  /\ st # "signalStopped"
  /\ st \in Opening \cup {"none", "begin"} =>
       ~dataActive /\ ~obsActive /\ fin \in Ended /\ stoppingEvent
  /\ st = "begin" => wr \in Loop /\ ~stopEvent
  /\ st = "activate" => dataActive /\ ~obsActive /\ stoppingEvent
  /\ st \in Starting => dataActive /\ obsActive
  /\ dataActive => /\ fin \in Ended /\ (obsActive \/ st = "activate")
                   /\ wr \in Loop \cup {"endCapture"} /\ usr \notin Past
  /\ obsActive => dataActive \/ Hooked
  /\ Hooked => obsActive
  /\ fin \in {"event", "ending"} => ~obsActive
  /\ hooked # {} => dataActive \/ fin \in {"video", "audio"}
  /\ fin = "audio" => hooked \subseteq {"audio"}
  /\ Held
  /\ ~stoppingEvent => dataActive \/ Hooked \/ fin = "event"

(* Who has the file open.                                                  *)
Filing ==
  /\ st \in {"none", "open", "endCapture"} => data = 0
  /\ st \in {"setActive", "canBegin", "spawnWrite"} \cup Going \cup Starting => data # 0
  /\ dataActive => data # 0
  /\ data # 0 => \/ st \in {"setActive", "canBegin", "spawnWrite"} \cup Going
                 \/ dataActive \/ wr \in Past \/ usr \in Past
  /\ data = 0 /\ wr \notin Ended =>
       wr = "leave" \/ (wr \in {"wait", "check"} /\ stopEvent)
  /\ Filed => st \in Begun /\ (data = 0 \/ usr = "clear" \/ wr = "clear")
  /\ data = 0 \/ usr = "clear" \/ wr = "clear" => InCall \/ Empty

(* A write thread ends the recording by itself.                            *)
Finishing ==
  /\ wr \in EC => /\ st \in Begun /\ data # 0 /\ usr \notin EC
                  /\ ~(usr = "pluginStop" /\ forced)
                  /\ wret = "wait" =>
                       (writeActive <=> wr \notin {"trailer", "clear"})
                  /\ wret = "leave" => ~writeActive /\ wr # "joinWrite"
                  /\ stopEvent <=>
                       (wret = "wait" /\ wr \in {"joinWrite", "trailer", "clear"})
  /\ wr = "endCapture" => dataActive
  /\ wr \in Past => ~dataActive
  /\ wr \in Ended => ~stopEvent
  /\ wr = "leave" => ~stopEvent /\ ~dataActive /\ (detached # {} => data = 0)
  /\ wr \in Loop =>
       IF stopEvent
         THEN /\ ~dataActive
              /\ usr = "joinWrite" \/ (data = 0 /\ wr \in {"wait", "check"})
         ELSE dataActive \/ st = "begin" \/ usr \in {"signalStopped", "deactivate"}

(* The user ends it.                                                       *)
Stopped ==
  /\ usr = "pluginStop" /\ forced => dataActive /\ wr \in Loop
  /\ usr \in EC => st \in Begun \cup {"none"} /\ (data = 0 => back = "freed")
  /\ usr = "endCapture" /\ data # 0 => dataActive /\ wr \in Loop
  /\ usr \in {"signalStopped", "deactivate"} /\ data # 0 =>
       wr \in Loop /\ writeActive /\ ~stopEvent
  /\ usr = "joinWrite" => /\ data # 0
                          /\ ((wr \in Loop /\ stopEvent) \/ wr \in {"leave", "done"})
  /\ usr \in {"trailer", "clear"} /\ data # 0 => wr = "done"
  /\ writeActive => data # 0 /\ (wr \in Loop \cup EC \/ usr = "joinWrite")
  /\ dataActive /\ st \in Begun => writeActive \/ (wr = "endCapture" /\ wret = "leave")

(* What the recorder has been told, and the end of the output.             *)
Telling ==
  /\ usr \in Waiting => ~destroying
  /\ destroying /\ usr \in EC => back # "idle"
  /\ ~destroying => usr \in Waiting \cup Stops \cup EC /\ back = "idle"
  /\ ~destroying /\ client # "idle" =>
       \/ st \in Opening \cup Going \/ dataActive
       \/ wr = "signalStopped" \/ usr = "signalStopped"
  /\ usr \in {"destroyStop", "freed"} \/ (usr \in EC /\ back = "freed") => st \in Ended
  /\ usr \in Stops => st \in Starting \cup Begun

Parts == Capturing /\ Filing /\ Finishing /\ Stopped /\ Telling
Safe == Calm => Parts

-----------------------------------------------------------------------------
(* Types.                                                                  *)

LEMMA ThreadNames ==
  /\ User \in Threads /\ End \in Threads /\ User # End
  /\ \A g \in Starts : /\ Start(g) \in Threads /\ Write(g) \in Threads
                       /\ Start(g) \notin {User, End} /\ Write(g) \notin {User, End}
                       /\ Write(g) \in Writers /\ Start(g) \notin Writers
  /\ User \notin Writers /\ End \notin Writers
  /\ \A g, h \in Starts : /\ Start(g) # Write(h)
                          /\ Start(g) = Start(h) => g = h
                          /\ Write(g) = Write(h) => g = h
  /\ \A t \in Threads : \/ t \in {User, End}
                        \/ \E g \in Starts : t \in {Start(g), Write(g)}
  /\ \A t \in Writers : \E g \in Starts : t = Write(g)
BY DEF Threads, Writers, User, End, Start, Write

LEMMA PlaceStart ==
  ASSUME PlacesOK(pc, ret), NEW g \in Starts, NEW l \in StartLabels
  PROVE  PlacesOK([pc EXCEPT ![Start(g)] = l], ret)
BY ThreadNames DEF PlacesOK, Labels

LEMMA PlaceWrite ==
  ASSUME PlacesOK(pc, ret), NEW g \in Starts, NEW l \in WriteLabels
  PROVE  PlacesOK([pc EXCEPT ![Write(g)] = l], ret)
BY ThreadNames DEF PlacesOK, Labels

LEMMA PlaceUser ==
  ASSUME PlacesOK(pc, ret), NEW l \in UserLabels
  PROVE  PlacesOK([pc EXCEPT ![User] = l], ret)
BY ThreadNames DEF PlacesOK, Labels

LEMMA PlaceEnd ==
  ASSUME PlacesOK(pc, ret), NEW l \in EndLabels
  PROVE  PlacesOK([pc EXCEPT ![End] = l], ret)
BY ThreadNames DEF PlacesOK, Labels

LEMMA PlaceReturn ==
  ASSUME PlacesOK(pc, ret)
  PROVE  /\ \A l \in {"idle", "destroyWait", "freed"} :
              PlacesOK(pc, [ret EXCEPT ![User] = l])
         /\ \A g \in Starts : \A l \in {"wait", "leave"} :
              PlacesOK(pc, [ret EXCEPT ![Write(g)] = l])
<1>1. {"idle", "destroyWait", "freed", "wait", "leave"} \subseteq Returns
  BY DEF Returns
<1> QED BY <1>1, ThreadNames DEF PlacesOK

LEMMA StartTypes ==
  ASSUME TypeOK, NEW g \in Starts, StartStep(g)
  PROVE  TypeOK'
<1> USE DEF StartLabels, Ended, Opening, Going, Starting, Begun, At, Goto, Move,
    output, plugin, stopAt, writer, file, calls, user, counts
<1>1. PlacesOK(pc, ret) /\ g \in 0 .. MaxStarts /\ 0 \in 0 .. MaxStarts
  BY BoundAssumption DEF TypeOK, Starts
<1>2. CASE OpenFile(g) \/ SetActive(g) \/ CanBegin(g) \/ BeginCapture(g)
  <2>1. PlacesOK(pc, ret)'
    BY <1>1, <1>2, PlaceStart DEF OpenFile, SetActive, CanBegin, BeginCapture
  <2>2. Flags'
    BY <1>2, <2>1 DEF TypeOK, Flags, OpenFile, SetActive, CanBegin, BeginCapture
  <2>3. Values'
    BY <1>1, <1>2, <2>1 DEF TypeOK, Values, OpenFile, SetActive, CanBegin,
       BeginCapture
  <2> QED BY <2>1, <2>2, <2>3 DEF TypeOK
<1>3. CASE Activate(g) \/ SignalStart(g) \/ SetWriteActive(g) \/ ClearConnecting(g)
  <2>1. PlacesOK(pc, ret)'
    BY <1>1, <1>3, PlaceStart DEF Activate, SignalStart, SetWriteActive,
       ClearConnecting
  <2>2. Flags'
    BY <1>3, <2>1 DEF TypeOK, Flags, Activate, SignalStart, SetWriteActive,
       ClearConnecting
  <2>3. Values'
    BY <1>1, <1>3, <2>1 DEF TypeOK, Values, Activate, SignalStart,
       SetWriteActive, ClearConnecting, Race, Races
  <2> QED BY <2>1, <2>2, <2>3 DEF TypeOK
<1>4. CASE SpawnWrite(g)
  <2>1. PlacesOK([pc EXCEPT ![Start(g)] = "begin"], ret)
    BY <1>1, PlaceStart
  <2>2. PlacesOK([[pc EXCEPT ![Start(g)] = "begin"] EXCEPT ![Write(g)] = "wait"], ret)
    BY <2>1, ThreadNames DEF PlacesOK, Labels, WriteLabels, Loop
  <2>3. /\ pc' = [[pc EXCEPT ![Start(g)] = "begin"] EXCEPT ![Write(g)] = "wait"]
        /\ ret' = ret
    BY <1>4 DEF SpawnWrite
  <2>4. Flags' BY <1>4 DEF TypeOK, Flags, SpawnWrite
  <2>5. Values' BY <1>1, <1>4 DEF TypeOK, Values, SpawnWrite
  <2> QED BY <2>2, <2>3, <2>4, <2>5 DEF TypeOK
<1> QED BY <1>2, <1>3, <1>4 DEF StartStep

LEMMA WriteTypes ==
  ASSUME TypeOK, NEW g \in Starts, WriteStep(g)
  PROVE  TypeOK'
<1> USE DEF WriteLabels, Ended, Loop, EC, At, Goto, Move, output, plugin,
    stopAt, writer, file, calls, user, counts
<1>1. PlacesOK(pc, ret) /\ 0 \in 0 .. MaxStarts
  BY BoundAssumption DEF TypeOK
<1>2. CASE SemWait(g) \/ CheckEvent(g) \/ TookNothing(g) \/ WriteFrame(g)
           \/ Leave(g)
  <2>1. PlacesOK(pc, ret)'
    <3>1. CASE CheckEvent(g)
      <4>1. PICK l \in {"leave", "wait", "take"} : pc' = [pc EXCEPT ![Write(g)] = l]
        BY <3>1 DEF CheckEvent
      <4> QED BY <1>1, <3>1, <4>1, PlaceWrite, ZenonT(40) DEF CheckEvent
    <3>2. CASE SemWait(g) \/ TookNothing(g) \/ WriteFrame(g) \/ Leave(g)
      <4>1. PICK l \in {"check", "wait", "done"} : pc' = [pc EXCEPT ![Write(g)] = l]
        BY <3>2 DEF SemWait, TookNothing, WriteFrame, Leave
      <4>2. ret' = ret
        BY <3>2 DEF SemWait, TookNothing, WriteFrame, Leave
      <4> QED BY <1>1, <4>1, <4>2, PlaceWrite
    <3> QED BY <1>2, <3>1, <3>2
  <2>2. Flags'
    BY <1>2, <2>1 DEF TypeOK, Flags, SemWait, CheckEvent, TookNothing,
       WriteFrame, Leave
  <2>3. Values'
    BY <1>1, <1>2, <2>1, SMTT(20) DEF TypeOK, Values, SemWait, CheckEvent, TookNothing,
       WriteFrame, Leave
  <2> QED BY <2>1, <2>2, <2>3 DEF TypeOK
<1>3. CASE TakeToWrite(g) \/ TakeLast(g)
  <2>1. PlacesOK(pc, ret)'
    BY <1>1, <1>3, PlaceWrite DEF TakeToWrite, TakeLast, Take
  <2>2. Flags'
    BY <1>3, <2>1 DEF TypeOK, Flags, TakeToWrite, TakeLast, Take
  <2>3. /\ Head(packets) \in [of : 0 .. MaxStarts, before : BOOLEAN]
        /\ packets' \in Seq([of : 0 .. MaxStarts, before : BOOLEAN])
    <3>1. packets # <<>> /\ packets' = Tail(packets)
      BY <1>3 DEF TakeToWrite, TakeLast, Take
    <3> DEFINE P == [of : 0 .. MaxStarts, before : BOOLEAN]
    <3>2. packets \in Seq(P) BY DEF TypeOK, Values
    <3> HIDE DEF P
    <3>3. Head(packets) \in P /\ packets' \in Seq(P) BY <3>1, <3>2
    <3> QED BY <3>3 DEF P
  <2>4. Values'
    BY <1>1, <1>3, <2>1, <2>3 DEF TypeOK, Values, TakeToWrite, TakeLast, Take,
       Races
  <2> QED BY <2>1, <2>2, <2>4 DEF TypeOK
<1>4. CASE WriteFails(g)
  <2>1. PlacesOK([pc EXCEPT ![Write(g)] = "endCapture"], ret)
    BY <1>1, PlaceWrite
  <2>2. PlacesOK([pc EXCEPT ![Write(g)] = "endCapture"],
                 [ret EXCEPT ![Write(g)] = "leave"])
    BY <2>1, ThreadNames DEF PlacesOK, Returns
  <2>3. PlacesOK(pc, ret)' BY <1>4, <2>2 DEF WriteFails
  <2>4. Flags' BY <1>4 DEF TypeOK, Flags, WriteFails
  <2>5. Values' BY <1>1, <1>4 DEF TypeOK, Values, WriteFails, Races
  <2> QED BY <2>3, <2>4, <2>5 DEF TypeOK
<1> QED BY <1>2, <1>3, <1>4 DEF WriteStep

(* Who runs obs_output_end_data_capture and ffmpeg_deactivate.             *)
LEMMA WhoEnds ==
  ASSUME TypeOK, NEW t \in Threads, pc[t] \in EC
  PROVE  /\ t # End
         /\ \/ t = User
            \/ \E g \in Starts : t = Write(g)
            \/ /\ \E g \in Starts : t = Start(g)
               /\ pc[t] \in {"endCapture", "signalStopped"}
<1>1. pc[End] \in EndLabels /\ \A g \in Starts : pc[Start(g)] \in StartLabels
  BY DEF TypeOK, PlacesOK
<1> QED BY <1>1, ThreadNames DEF EndLabels, StartLabels, Opening, Going,
           Starting, Begun, Ended, EC, Past

LEMMA EndCaptureTypes ==
  ASSUME TypeOK, NEW t \in Threads, EndCaptureStep(t)
  PROVE  TypeOK'
<1> USE DEF At, Goto, Move, output, plugin, stopAt, writer, file, calls, user,
    counts
<1>1. PlacesOK(pc, ret) /\ 0 \in 0 .. MaxStarts
  BY BoundAssumption DEF TypeOK
<1>2. pc[t] \in EC
  BY DEF EC, Past, EndCaptureStep, EndCapture, SignalStopped, SignalStopOnly,
     Deactivate, JoinWrite, WriteTrailer, ClearData
<1>3. /\ t # End
      /\ \/ t = User
         \/ \E g \in Starts : t = Write(g)
         \/ /\ \E g \in Starts : t = Start(g)
            /\ pc[t] \in {"endCapture", "signalStopped"}
  BY <1>2, WhoEnds
<1>4. PlacesOK(pc, ret)'
  <2>1. ASSUME NEW g \in Starts, t = Start(g) PROVE PlacesOK(pc, ret)'
    <3>1. /\ ~Deactivates(t) /\ pc[t] \in {"endCapture", "signalStopped"}
          /\ "signalStopped" \in StartLabels /\ "connected" \in StartLabels
      BY <1>2, <1>3, <2>1, ThreadNames DEF Deactivates, StartLabels, Begun
    <3>2. PlacesOK([pc EXCEPT ![t] = "signalStopped"], ret)
      BY <1>1, <2>1, <3>1, PlaceStart
    <3>3. PlacesOK([[pc EXCEPT ![t] = "signalStopped"] EXCEPT ![End] = "video"], ret)
      BY <3>2, ThreadNames DEF PlacesOK, EndLabels, Labels
    <3>4. PlacesOK([pc EXCEPT ![t] = "connected"], ret)
      BY <1>1, <2>1, <3>1, PlaceStart
    <3> QED BY <3>1, <3>3, <3>4 DEF EndCaptureStep, EndCapture, SignalStopped,
            SignalStopOnly, Deactivate, JoinWrite, WriteTrailer, ClearData
  <2>2. ASSUME NEW g \in Starts, t = Write(g) PROVE PlacesOK(pc, ret)'
    <3>1. \A l \in EC : PlacesOK([pc EXCEPT ![t] = l], ret)
      BY <1>1, <2>2, PlaceWrite DEF WriteLabels
    <3>2. PlacesOK([[pc EXCEPT ![t] = "signalStopped"] EXCEPT ![End] = "video"], ret)
      <4>1. PlacesOK([pc EXCEPT ![t] = "signalStopped"], ret)
        BY <3>1 DEF EC, Past
      <4> QED BY <4>1, ThreadNames DEF PlacesOK, EndLabels, Labels
    <3>3. PlacesOK([pc EXCEPT ![t] = ret[t]], [ret EXCEPT ![t] = "wait"])
      <4>1. ret[t] \in {"wait", "leave"} BY <1>1, <2>2 DEF PlacesOK
      <4>2. PlacesOK([pc EXCEPT ![t] = ret[t]], ret)
        BY <1>1, <2>2, <4>1, PlaceWrite DEF WriteLabels, Loop
      <4> QED BY <2>2, <4>2, ThreadNames DEF PlacesOK, Returns
    <3>4. t # User /\ Deactivates(t) BY <2>2, ThreadNames DEF Deactivates
    <3> QED BY <3>1, <3>2, <3>3, <3>4 DEF EC, Past, EndCaptureStep, EndCapture,
            SignalStopped, SignalStopOnly, Deactivate, JoinWrite, WriteTrailer,
            ClearData
  <2>3. CASE t = User
    <3>1. \A l \in EC : PlacesOK([pc EXCEPT ![t] = l], ret)
      BY <1>1, <2>3, PlaceUser DEF UserLabels
    <3>2. PlacesOK([[pc EXCEPT ![t] = "signalStopped"] EXCEPT ![End] = "video"], ret)
      <4>1. PlacesOK([pc EXCEPT ![t] = "signalStopped"], ret)
        BY <3>1 DEF EC, Past
      <4> QED BY <4>1, ThreadNames DEF PlacesOK, EndLabels, Labels
    <3>3. PlacesOK([pc EXCEPT ![t] = ret[t]], [ret EXCEPT ![t] = "idle"])
      <4>1. ret[t] \in {"idle", "destroyWait", "freed"}
        BY <1>1, <2>3 DEF PlacesOK
      <4>2. PlacesOK([pc EXCEPT ![t] = ret[t]], ret)
        BY <1>1, <2>3, <4>1, PlaceUser DEF UserLabels, Waiting
      <4> QED BY <2>3, <4>2, ThreadNames DEF PlacesOK, Returns
    <3> QED BY <2>3, <3>1, <3>2, <3>3, ZenonT(40) DEF EC, Past, Deactivates, EndCaptureStep,
            EndCapture, SignalStopped, SignalStopOnly, Deactivate, JoinWrite,
            WriteTrailer, ClearData
  <2> QED BY <1>3, <2>1, <2>2, <2>3, ThreadNames
<1>5. Flags'
  BY <1>4 DEF TypeOK, Flags, EndCaptureStep, EndCapture, SignalStopped,
     SignalStopOnly, Deactivate, JoinWrite, WriteTrailer, ClearData
<1>6. Values'
  <2>1. CASE EndCapture(t) \/ SignalStopped(t) \/ SignalStopOnly(t) \/ JoinWrite(t)
    BY <1>4, <2>1 DEF TypeOK, Values, EndCapture, SignalStopped, SignalStopOnly,
       JoinWrite, Told
  <2>2. CASE Deactivate(t)
    BY <1>4, <2>2 DEF TypeOK, Values, Deactivate
  <2>3. CASE WriteTrailer(t)
    <3>1. data # 0 => data \in Starts
      BY BoundAssumption DEF TypeOK, Values, Starts
    <3> QED BY <1>4, <2>3, <3>1 DEF TypeOK, Values, WriteTrailer, Race, Races
  <2>4. CASE ClearData(t)
    BY <1>1, <1>4, <2>4 DEF TypeOK, Values, ClearData
  <2> QED BY <2>1, <2>2, <2>3, <2>4 DEF EndCaptureStep
<1> QED BY <1>4, <1>5, <1>6 DEF TypeOK

LEMMA EndTypes ==
  ASSUME TypeOK, EndStep
  PROVE  TypeOK'
<1> USE DEF EndLabels, Ended, At, Goto, output, plugin, stopAt, writer, file,
    calls, user, counts
<1>1. PlacesOK(pc, ret) BY DEF TypeOK
<1>2. PlacesOK(pc, ret)'
  BY <1>1, PlaceEnd DEF EndStep, Unhook, ClearActive, SignalEnded, ClearEnding
<1>3. Flags'
  BY <1>2 DEF TypeOK, Flags, EndStep, Unhook, ClearActive, SignalEnded,
     ClearEnding
<1>4. Values'
  BY <1>2 DEF TypeOK, Values, EndStep, Unhook, ClearActive, SignalEnded,
     ClearEnding
<1> QED BY <1>2, <1>3, <1>4 DEF TypeOK

LEMMA UserTypes ==
  ASSUME TypeOK, Room, UserStep
  PROVE  TypeOK'
<1> USE DEF UserLabels, Waiting, Stops, At, Goto, Move, output, plugin, stopAt,
    writer, file, calls, user, counts
<1>1. PlacesOK(pc, ret) BY DEF TypeOK
<1>2. Back \in {"idle", "destroyWait"} BY DEF Back
<1>3. CASE StartRefused \/ SetConnecting \/ ResetStoppingEvent \/ StopLater
           \/ SetStopTs
  <2>1. PlacesOK(pc, ret)'
    BY <1>1, <1>2, <1>3, PlaceUser DEF StartRefused, SetConnecting,
       ResetStoppingEvent, StopLater, SetStopTs
  <2>2. Flags'
    BY <1>3, <2>1 DEF TypeOK, Flags, StartRefused, SetConnecting,
       ResetStoppingEvent, StopLater, SetStopTs
  <2>3. Values'
    BY <1>3, <2>1 DEF TypeOK, Values, StartRefused, SetConnecting,
       ResetStoppingEvent, StopLater, SetStopTs, Race, Races
  <2> QED BY <2>1, <2>2, <2>3 DEF TypeOK
<1>4. CASE DestroyWait \/ DestroyJoin
  <2>1. PlacesOK(pc, ret)'
    BY <1>1, <1>4, PlaceUser DEF DestroyWait, DestroyJoin
  <2>2. Flags' BY <1>4, <2>1 DEF TypeOK, Flags, DestroyWait, DestroyJoin
  <2>3. Values' BY <1>4, <2>1 DEF TypeOK, Values, DestroyWait, DestroyJoin
  <2> QED BY <2>1, <2>2, <2>3 DEF TypeOK
<1>5. CASE StopNow \/ DestroyStop
  <2>1. PICK l \in UserLabels, r \in {"idle", "destroyWait", "freed"} :
          pc' = [pc EXCEPT ![User] = l] /\ ret' = [ret EXCEPT ![User] = r]
    BY <1>2, <1>5 DEF StopNow, DestroyStop, EC
  <2>2. PlacesOK([pc EXCEPT ![User] = l], ret) BY <1>1, PlaceUser
  <2>3. PlacesOK([pc EXCEPT ![User] = l], [ret EXCEPT ![User] = r])
    BY <2>2, ThreadNames DEF PlacesOK, Returns
  <2>4. PlacesOK(pc, ret)' BY <2>1, <2>3
  <2>5. Flags' BY <1>5, <2>4 DEF TypeOK, Flags, StopNow, DestroyStop
  <2>6. Values'
    BY <1>5, <2>4 DEF TypeOK, Values, StopNow, DestroyStop, Race, Races
  <2> QED BY <2>4, <2>5, <2>6 DEF TypeOK
<1>6. CASE FfmpegStart
  <2>1. starts + 1 \in Starts /\ starts + 1 \in 0 .. MaxStarts
    BY <1>6, BoundAssumption DEF TypeOK, Values, Flags, Room, Starts,
       FfmpegStart, usr
  <2>2. PlacesOK([pc EXCEPT ![User] = "setConnecting"], ret) BY <1>1, PlaceUser
  <2>3. PlacesOK([[pc EXCEPT ![User] = "setConnecting"]
                     EXCEPT ![Start(starts + 1)] = "open"], ret)
    BY <2>1, <2>2, ThreadNames DEF PlacesOK, Labels, StartLabels, Opening
  <2>4. /\ pc' = [[pc EXCEPT ![User] = "setConnecting"]
                     EXCEPT ![Start(starts + 1)] = "open"]
        /\ ret' = ret
    BY <1>6 DEF FfmpegStart
  <2>5. Flags' BY <1>6 DEF TypeOK, Flags, FfmpegStart
  <2>6. Values' BY <1>6, <2>1 DEF TypeOK, Values, FfmpegStart
  <2> QED BY <2>3, <2>4, <2>5, <2>6 DEF TypeOK
<1> QED BY <1>3, <1>4, <1>5, <1>6 DEF UserStep

LEMMA OtherTypes ==
  ASSUME TypeOK,
         \/ UserStart \/ UserDestroy \/ \E force \in BOOLEAN : UserStop(force)
         \/ \E s \in Sources : RawStep(s)
         \/ UNCHANGED vars
  PROVE  TypeOK'
<1> USE DEF At, Goto, Move, output, plugin, stopAt, writer, file, calls, user,
    counts, vars
<1>1. PlacesOK(pc, ret) BY DEF TypeOK
<1>2. CASE UserStart \/ UserDestroy \/ \E force \in BOOLEAN : UserStop(force)
  <2>1. PlacesOK(pc, ret)'
    BY <1>1, <1>2, PlaceUser DEF UserStart, UserDestroy, UserStop, UserLabels,
       Waiting, Stops
  <2>2. Flags' BY <1>2, <2>1 DEF TypeOK, Flags, UserStart, UserDestroy, UserStop
  <2>3. Values'
    BY <1>2, <2>1 DEF TypeOK, Values, UserStart, UserDestroy, UserStop
  <2> QED BY <2>1, <2>2, <2>3 DEF TypeOK
<1>3. ASSUME NEW s \in Sources, RawStep(s) PROVE TypeOK'
  <2>1. PlacesOK(pc, ret)'
    BY <1>1, <1>3 DEF RawStep, RawEnter, RawNothing, RawPacket
  <2>2. Flags'
    BY <1>3, <2>1 DEF TypeOK, Flags, RawStep, RawEnter, RawNothing, RawPacket
  <2>3. Values'
    <3>1. CASE RawPacket(s)
      <4>1. packets' \in Seq([of : 0 .. MaxStarts, before : BOOLEAN])
        <5>1. [of |-> raw[s], before |-> ~asked]
                \in [of : 0 .. MaxStarts, before : BOOLEAN]
          BY DEF TypeOK, Values
        <5> QED BY <3>1, <5>1 DEF RawPacket, TypeOK, Values
      <4> QED BY <3>1, <4>1, BoundAssumption DEF RawPacket, TypeOK, Values
    <3>2. CASE RawEnter(s) \/ RawNothing(s)
      <4>1. PICK d \in 0 .. MaxStarts : raw' = [raw EXCEPT ![s] = d]
        BY <3>2, BoundAssumption DEF RawEnter, RawNothing, TypeOK, Values
      <4> QED BY <3>2, <4>1 DEF RawEnter, RawNothing, TypeOK, Values
    <3> QED BY <1>3, <3>1, <3>2 DEF RawStep
  <2> QED BY <2>1, <2>2, <2>3 DEF TypeOK
<1>4. CASE UNCHANGED vars
  <2>1. PlacesOK(pc, ret)' BY <1>1, <1>4
  <2>2. Flags' BY <1>4 DEF TypeOK, Flags
  <2>3. Values' BY <1>4 DEF TypeOK, Values
  <2> QED BY <2>1, <2>2, <2>3 DEF TypeOK
<1> QED BY <1>2, <1>3, <1>4

LEMMA TypeStep ==
  ASSUME TypeOK, Room, [Next]_vars
  PROVE  TypeOK'
<1>1. ASSUME NEW g \in Starts, StartStep(g) \/ WriteStep(g) PROVE TypeOK'
  BY <1>1, StartTypes, WriteTypes
<1>2. ASSUME NEW t \in Threads, EndCaptureStep(t) PROVE TypeOK'
  BY <1>2, EndCaptureTypes
<1>3. CASE EndStep BY <1>3, EndTypes
<1>4. CASE UserStep BY <1>4, UserTypes
<1> QED BY <1>1, <1>2, <1>3, <1>4, OtherTypes DEF Next

LEMMA StartType == Init => TypeOK
<1> SUFFICES ASSUME Init PROVE TypeOK OBVIOUS
<1>1. PlacesOK(pc, ret)
  BY ThreadNames DEF Init, PlacesOK, Labels, StartLabels, WriteLabels,
     UserLabels, EndLabels, Ended, Waiting, Returns
<1>2. Flags BY DEF Init, Flags
<1>3. Values BY BoundAssumption DEF Init, Values, Races
<1> QED BY <1>1, <1>2, <1>3 DEF TypeOK

-----------------------------------------------------------------------------
(* The steps in terms of the five places.                                  *)

Known == TypeOK /\ Room /\ Lone /\ Paired

LEMMA PlacesKnown ==
  ASSUME Known
  PROVE  /\ st \in StartLabels /\ wr \in WriteLabels /\ wret \in {"wait", "leave"}
         /\ usr \in UserLabels /\ fin \in EndLabels
         /\ back \in {"idle", "destroyWait", "freed"}
         /\ starts \in Starts => /\ st = pc[Start(starts)] /\ wr = pc[Write(starts)]
                                 /\ wret = ret[Write(starts)]
         /\ \A g \in Starts : pc[Start(g)] \notin Ended \/ pc[Write(g)] \notin Ended
                                => g = starts
         /\ DOMAIN pc = Threads /\ DOMAIN ret = Threads
         /\ starts \in Nat /\ (starts = 0 \/ starts \in Starts)
         /\ starts = 0 => st = "none" /\ wr = "none" /\ wret = "wait"
         /\ wret = "leave" => wr \in EC
<1>1. starts \in Nat /\ (starts = 0 \/ starts \in Starts)
  BY BoundAssumption DEF Known, TypeOK, Values, Starts
<1>2. \A g \in Starts : pc[Start(g)] \notin Ended \/ pc[Write(g)] \notin Ended
                           => g = starts
  BY DEF Known, Lone
<1>3. starts \in Starts => /\ st = pc[Start(starts)] /\ wr = pc[Write(starts)]
                           /\ wret = ret[Write(starts)]
  BY DEF Starts, st, wr, wret
<1>4. starts = 0 => st = "none" /\ wr = "none" /\ wret = "wait"
  BY DEF st, wr, wret
<1>5. wret = "leave" => wr \in EC BY <1>1, <1>3, <1>4 DEF Known, Lone
<1> QED BY <1>1, <1>2, <1>3, <1>4, <1>5, ThreadNames DEF Known, TypeOK,
           PlacesOK, usr, fin, back, StartLabels, WriteLabels, Ended

LEMMA StartView ==
  ASSUME Known, NEW g \in Starts, StartStep(g)
  PROVE  /\ g = starts /\ UNCHANGED <<usr, fin, back, wret, starts>>
         /\ ~SpawnWrite(g) => UNCHANGED wr
         /\ OpenFile(g) => /\ st = "open"
                           /\ st' = IF data' = 0 THEN "endCapture" ELSE "setActive"
                           /\ data' \in {0, starts}
         /\ SetActive(g) => st = "setActive" /\ st' = "canBegin"
         /\ CanBegin(g) => st = "canBegin" /\ st' = "spawnWrite"
         /\ SpawnWrite(g) => st = "spawnWrite" /\ st' = "begin" /\ wr' = "wait"
         /\ BeginCapture(g) => st = "begin" /\ st' = "activate"
         /\ Activate(g) => st = "activate" /\ st' = "signalStart"
         /\ SignalStart(g) => st = "signalStart" /\ st' = "setWrite"
         /\ SetWriteActive(g) => st = "setWrite" /\ st' = "connected"
         /\ ClearConnecting(g) => st = "connected" /\ st' = "done"
<1> USE ThreadNames, PlacesKnown DEF At, Goto, Move, calls, counts
<1>1. g = starts
  BY DEF Ended, StartStep, OpenFile, SetActive, CanBegin, SpawnWrite,
     BeginCapture, Activate, SignalStart, SetWriteActive, ClearConnecting
<1>2. UNCHANGED <<usr, fin, back, wret, starts>>
  BY DEF usr, fin, back, wret, StartStep, OpenFile, SetActive, CanBegin,
     SpawnWrite, BeginCapture, Activate, SignalStart, SetWriteActive,
     ClearConnecting
<1>3. /\ st = pc[Start(g)] /\ st' = pc'[Start(g)]
      /\ wr = pc[Write(g)] /\ wr' = pc'[Write(g)]
  BY <1>1, <1>2 DEF Starts, st, wr
<1>4. g # 0 BY DEF Starts
<1> QED BY <1>1, <1>2, <1>3, <1>4 DEF StartStep, OpenFile, SetActive, CanBegin,
        SpawnWrite, BeginCapture, Activate, SignalStart, SetWriteActive,
        ClearConnecting

LEMMA WriteView ==
  ASSUME Known, NEW g \in Starts, WriteStep(g)
  PROVE  /\ g = starts /\ UNCHANGED <<st, usr, fin, back, starts>>
         /\ ~WriteFails(g) => UNCHANGED wret
         /\ SemWait(g) => wr = "wait" /\ wr' = "check"
         /\ CheckEvent(g) => /\ wr = "check"
                             /\ wr' = IF stopEvent THEN "leave"
                                      ELSE IF packets = <<>> THEN "wait" ELSE "take"
         /\ TakeToWrite(g) => wr = "take" /\ wr' = "write"
         /\ TakeLast(g) => /\ wr = "take"
                           /\ wr' = IF active THEN "endCapture" ELSE "wait"
         /\ TookNothing(g) => wr = "take" /\ wr' = "wait"
         /\ WriteFrame(g) => wr = "write" /\ wr' = "wait"
         /\ WriteFails(g) => wr = "write" /\ wr' = "endCapture" /\ wret' = "leave"
         /\ Leave(g) => wr = "leave" /\ wr' = "done"
<1> USE ThreadNames, PlacesKnown DEF At, Goto, Move, Take, calls, counts
<1>1. g = starts
  BY DEF Ended, WriteStep, SemWait, CheckEvent, TakeToWrite, TakeLast,
     TookNothing, WriteFrame, WriteFails, Leave
<1>2. UNCHANGED <<usr, fin, back, starts>>
  BY DEF usr, fin, back, WriteStep, SemWait, CheckEvent, TakeToWrite, TakeLast,
     TookNothing, WriteFrame, WriteFails, Leave
<1>3. /\ st = pc[Start(g)] /\ st' = pc'[Start(g)]
      /\ wr = pc[Write(g)] /\ wr' = pc'[Write(g)]
      /\ wret = ret[Write(g)] /\ wret' = ret'[Write(g)]
  BY <1>1, <1>2 DEF Starts, st, wr, wret
<1>4. UNCHANGED st
  BY <1>3 DEF WriteStep, SemWait, CheckEvent, TakeToWrite, TakeLast,
     TookNothing, WriteFrame, WriteFails, Leave
<1> QED BY <1>1, <1>2, <1>3, <1>4 DEF WriteStep, SemWait, CheckEvent,
           TakeToWrite, TakeLast, TookNothing, WriteFrame, WriteFails, Leave

(* What the end of a recording by its write thread is a race with.         *)
LEMMA EndRaces ==
  ASSUME Known, NEW g \in Starts, TakeLast(g) \/ WriteFails(g)
  PROVE  /\ Calm' => /\ st \notin Going \cup Starting /\ usr \notin EC
                     /\ ~(usr = "pluginStop" /\ forced)
         /\ races \subseteq races'
         /\ {"inCallback", "lateConnecting"} \cap races' \subseteq races
         /\ TakeLast(g) /\ "hasty" \notin races' => stopTs = starts
<1>1. st \in Going \cup Starting => Unset
  BY PlacesKnown DEF Unset, Going, Starting
<1>2. usr \in EC \/ (usr = "pluginStop" /\ forced) => UserStops
  BY DEF UserStops, Ending, At, usr, EC, Past
<1> QED BY <1>1, <1>2 DEF TakeLast, WriteFails, Calm

(* The steps of obs_output_end_data_capture and ffmpeg_deactivate: from     *)
(* place p to q; n is where the thread goes after the capture has ended.   *)
EndsCapture(p, q) ==
  /\ p = "endCapture" /\ q = "signalStopped"
  /\ obsActive /\ dataActive /\ fin \in Ended
  /\ dataActive' = FALSE /\ ending' = TRUE /\ fin' = "video"
  /\ UNCHANGED <<stoppingEvent, writer, file, client, closed, races>>

Signals(p, q, n) ==
  /\ p = "signalStopped" /\ q = n
  /\ client' = Told
  /\ UNCHANGED <<dataActive, ending, fin, stoppingEvent, writer, file, closed,
                 races>>

OnlySignals(p, q, n) ==
  /\ p = "endCapture" /\ q = n
  /\ ~(obsActive /\ dataActive)
  /\ client' = Told /\ stoppingEvent' = TRUE
  /\ UNCHANGED <<dataActive, ending, fin, writer, file, closed, races>>

Wakes(p, q) ==
  /\ p = "deactivate" /\ q = (IF writeActive THEN "joinWrite" ELSE "trailer")
  /\ stopEvent' = (stopEvent \/ writeActive)
  /\ UNCHANGED <<dataActive, ending, fin, stoppingEvent, writeActive, file,
                 client, closed, races>>

Joins(p, q) ==
  /\ p = "joinWrite" /\ q = "trailer"
  /\ writeActive' = FALSE
  /\ UNCHANGED <<dataActive, ending, fin, stoppingEvent, stopEvent, file, client,
                 closed, races>>

Closes(p, q) ==
  /\ p = "trailer" /\ q = "clear"
  /\ packets' = <<>> /\ closed' = closed \cup ({data} \ {0})
  /\ Race("inCallback", \E s \in Sources : raw[s] # 0)
  /\ UNCHANGED <<dataActive, ending, fin, stoppingEvent, writer, data, client>>

Forgets(p, q, k, l) ==
  /\ p = "clear" /\ q = k /\ l \in {"idle", "wait"}
  /\ data' = 0
  /\ UNCHANGED <<dataActive, ending, fin, stoppingEvent, writer, packets, client,
                 closed, races>>

(* k is the place where the thread returns to, l that place after the step. *)
EndMove(p, q, k, l, n) ==
  /\ UNCHANGED <<obsActive, hooked, active, connecting, stopAt, writeThread,
                 raw, detached, hand, forced, destroying, starts, stops, asked>>
  /\ \/ l = k /\ EndsCapture(p, q)
     \/ l = k /\ Signals(p, q, n)
     \/ l = k /\ OnlySignals(p, q, n)
     \/ l = k /\ Wakes(p, q)
     \/ l = k /\ Joins(p, q)
     \/ l = k /\ Closes(p, q)
     \/ Forgets(p, q, k, l)

LEMMA EndCaptureMoves ==
  ASSUME Known, NEW t \in Threads, EndCaptureStep(t)
  PROVE  /\ t # End /\ pc[t] \in EC
         /\ EndMove(pc[t], pc'[t], ret[t], ret'[t],
                    IF Deactivates(t) THEN "deactivate" ELSE "connected")
         /\ pc[t] = "joinWrite" /\ t = User => detached # {} \/ wr \in Ended
         /\ \A x \in Threads \ {t, End} : pc'[x] = pc[x] /\ ret'[x] = ret[x]
<1> USE ThreadNames, PlacesKnown DEF At, Goto, Move, output, plugin, stopAt,
    writer, file, calls, user, counts
<1>1. t # End /\ pc[t] \in EC
  BY WhoEnds DEF Known, EC, Past, EndCaptureStep, EndCapture, SignalStopped,
     SignalStopOnly, Deactivate, JoinWrite, WriteTrailer, ClearData
<1>2. \A x \in Threads \ {t, End} : pc'[x] = pc[x] /\ ret'[x] = ret[x]
  BY DEF EndCaptureStep, EndCapture, SignalStopped, SignalStopOnly, Deactivate,
     JoinWrite, WriteTrailer, ClearData
<1>3. EndMove(pc[t], pc'[t], ret[t], ret'[t],
              IF Deactivates(t) THEN "deactivate" ELSE "connected")
  <2>1. CASE EndCapture(t)
    <3>1. End \notin detached BY DEF Known, Paired
    <3> QED BY <1>1, <2>1, <3>1 DEF EndCapture, EndMove, EndsCapture, fin,
               Joined, Running, Ended, Known, Paired
  <2>2. CASE SignalStopped(t) \/ SignalStopOnly(t)
    BY <1>1, <2>2 DEF SignalStopped, SignalStopOnly, EndMove, Signals,
       OnlySignals, fin
  <2>3. CASE Deactivate(t)
    BY <1>1, <2>3 DEF Deactivate, EndMove, Wakes, fin, Known, TypeOK, Flags
  <2>4. CASE JoinWrite(t)
    BY <1>1, <2>4 DEF JoinWrite, EndMove, Joins, fin
  <2>5. CASE WriteTrailer(t)
    BY <1>1, <2>5 DEF WriteTrailer, EndMove, Closes, fin
  <2>6. CASE ClearData(t)
    BY <1>1, <2>6 DEF ClearData, EndMove, Forgets, fin
  <2> QED BY <2>1, <2>2, <2>3, <2>4, <2>5, <2>6 DEF EndCaptureStep
<1>4. pc[t] = "joinWrite" /\ t = User => detached # {} \/ wr \in Ended
  <2>1. SUFFICES ASSUME JoinWrite(t), t = User, wr \notin Ended
                 PROVE  detached # {}
    BY DEF EndCaptureStep, EndCapture, SignalStopped, SignalStopOnly,
       Deactivate, WriteTrailer, ClearData
  <2>2. writeThread = starts /\ starts \in Starts
    BY <2>1 DEF Known, Paired, Ended
  <2> QED BY <2>1, <2>2 DEF JoinWrite, Joined, Running, Ended
<1> QED BY <1>1, <1>2, <1>3, <1>4

LEMMA EndCaptureView ==
  ASSUME Known, NEW t \in Threads, EndCaptureStep(t)
  PROVE  \/ /\ t = User /\ usr \in EC /\ UNCHANGED <<st, wr, wret>>
            /\ EndMove(usr, usr', back, back', "deactivate")
            /\ usr = "joinWrite" => detached # {} \/ wr \in Ended
         \/ /\ wr \in EC /\ UNCHANGED <<st, usr, back>>
            /\ EndMove(wr, wr', wret, wret', "deactivate")
         \/ /\ st \in {"endCapture", "signalStopped"}
            /\ UNCHANGED <<wr, wret, usr, back>>
            /\ st' \in {"signalStopped", "connected"}
            /\ EndMove(st, st', "wait", "wait", "connected")
<1> USE ThreadNames, PlacesKnown DEF EndsCapture, Signals, OnlySignals, Wakes, Joins,
    Closes, Forgets
<1>1. /\ t # End /\ pc[t] \in EC
      /\ EndMove(pc[t], pc'[t], ret[t], ret'[t],
                 IF Deactivates(t) THEN "deactivate" ELSE "connected")
      /\ pc[t] = "joinWrite" /\ t = User => detached # {} \/ wr \in Ended
      /\ \A x \in Threads \ {t, End} : pc'[x] = pc[x] /\ ret'[x] = ret[x]
  BY EndCaptureMoves
<1>2. UNCHANGED starts BY <1>1 DEF EndMove
<1>3. CASE t = User
  <2>1. UNCHANGED <<st, wr, wret>> BY <1>1, <1>2, <1>3 DEF st, wr, wret
  <2> QED BY <1>1, <1>2, <1>3, <2>1 DEF usr, back, Deactivates
<1>4. ASSUME NEW g \in Starts, t = Write(g)
      PROVE  /\ wr \in EC /\ UNCHANGED <<st, usr, back>>
             /\ EndMove(wr, wr', wret, wret', "deactivate")
  <2>1. g = starts BY <1>1, <1>4 DEF Ended, EC, Past
  <2>2. UNCHANGED <<st, usr, back>>
    BY <1>1, <1>2, <1>4, <2>1 DEF st, usr, back, Starts
  <2>3. wr = pc[t] /\ wr' = pc'[t] /\ wret = ret[t] /\ wret' = ret'[t]
    BY <1>1, <1>2, <1>4, <2>1 DEF wr, wret, Starts
  <2> QED BY <1>1, <1>4, <2>1, <2>2, <2>3 DEF Deactivates
<1>5. ASSUME NEW g \in Starts, t = Start(g),
             pc[t] \in {"endCapture", "signalStopped"}
      PROVE  /\ st \in {"endCapture", "signalStopped"}
             /\ UNCHANGED <<wr, wret, usr, back>>
             /\ st' \in {"signalStopped", "connected"}
             /\ EndMove(st, st', "wait", "wait", "connected")
  <2>1. g = starts BY <1>1, <1>5 DEF Ended, EC, Past
  <2>2. UNCHANGED <<wr, wret, usr, back>>
    BY <1>1, <1>2, <1>5, <2>1 DEF wr, wret, usr, back, Starts
  <2>3. st = pc[t] /\ st' = pc'[t]
    BY <1>1, <1>2, <1>5, <2>1 DEF st, Starts
  <2>4. ~Deactivates(t) BY <1>5 DEF Deactivates
  <2> QED BY <1>1, <1>5, <2>1, <2>2, <2>3, <2>4 DEF EndMove
<1>6. \/ t = User
      \/ \E g \in Starts : t = Write(g)
      \/ (\E g \in Starts : t = Start(g)) /\ pc[t] \in {"endCapture", "signalStopped"}
  BY <1>1, WhoEnds DEF Known
<1> QED BY <1>3, <1>4, <1>5, <1>6

LEMMA EndView ==
  ASSUME Known, EndStep
  PROVE  /\ UNCHANGED <<st, wr, wret, usr, back, starts>>
         /\ Unhook("video", "video", "audio") => fin = "video" /\ fin' = "audio"
         /\ Unhook("audio", "audio", "inactive") => fin = "audio" /\ fin' = "inactive"
         /\ ClearActive => fin = "inactive" /\ fin' = "event"
         /\ SignalEnded => fin = "event" /\ fin' = "ending"
         /\ ClearEnding => fin = "ending" /\ fin' = "done"
<1> USE ThreadNames, PlacesKnown DEF At, Goto, calls, counts, EndStep, Unhook,
    ClearActive, SignalEnded, ClearEnding
<1>1. UNCHANGED <<st, wr, wret, usr, back, starts>>
  BY DEF st, wr, wret, usr, back
<1> QED BY <1>1 DEF fin

LEMMA OnlyUser ==
  ASSUME Known, UNCHANGED starts,
         \A t \in Threads \ {User} : pc'[t] = pc[t] /\ ret'[t] = ret[t]
  PROVE  UNCHANGED <<st, wr, wret, fin>>
BY ThreadNames, PlacesKnown DEF st, wr, wret, fin

LEMMA UserView ==
  ASSUME Known
  PROVE  /\ StartRefused => usr = "waitStopped" /\ usr' = "idle"
         /\ SetConnecting => usr = "setConnecting" /\ usr' = "idle"
         /\ ResetStoppingEvent =>
              /\ usr = "resetEvent"
              /\ usr' = IF stoppingEvent \/ forced THEN "pluginStop" ELSE Back
         /\ StopLater => /\ usr = "pluginStop" /\ ~forced
                         /\ usr' = IF active THEN "setStopTs" ELSE Back
         /\ SetStopTs => usr = "setStopTs" /\ usr' = Back
         /\ DestroyWait => /\ usr = "destroyWait"
                           /\ usr' = IF connecting THEN "destroyJoin" ELSE "destroyStop"
         /\ DestroyJoin => usr = "destroyJoin" /\ usr' = "destroyStop" /\ st \in Ended
         /\ StopNow => /\ usr = "pluginStop"
                       /\ usr' = IF active THEN "endCapture" ELSE Back
                       /\ back' = IF active THEN Back ELSE "idle"
         /\ DestroyStop => /\ usr = "destroyStop" /\ back' = "freed"
                           /\ usr' = IF active THEN "endCapture" ELSE "freed"
         /\ StartRefused \/ SetConnecting \/ ResetStoppingEvent \/ StopLater
              \/ SetStopTs \/ DestroyWait \/ DestroyJoin =>
              UNCHANGED <<st, wr, wret, fin, starts, back>>
         /\ StopNow \/ DestroyStop => UNCHANGED <<st, wr, wret, fin, starts>>
<1> USE ThreadNames, PlacesKnown DEF At, Goto, Move, calls, counts
<1>1. StartRefused \/ SetConnecting \/ ResetStoppingEvent \/ StopLater \/ SetStopTs
        \/ DestroyWait \/ DestroyJoin => UNCHANGED <<st, wr, wret, fin, starts, back>>
  <2>1. StartRefused \/ SetConnecting \/ ResetStoppingEvent \/ StopLater \/ SetStopTs
          \/ DestroyWait \/ DestroyJoin =>
          /\ UNCHANGED <<starts, ret>>
          /\ \A t \in Threads \ {User} : pc'[t] = pc[t]
    BY DEF StartRefused, SetConnecting, ResetStoppingEvent, StopLater,
       SetStopTs, DestroyWait, DestroyJoin
  <2> QED BY <2>1, OnlyUser DEF back
<1>2. StopNow \/ DestroyStop => UNCHANGED <<st, wr, wret, fin, starts>>
  <2>1. StopNow \/ DestroyStop =>
          /\ UNCHANGED starts
          /\ \A t \in Threads \ {User} : pc'[t] = pc[t] /\ ret'[t] = ret[t]
    BY DEF StopNow, DestroyStop
  <2> QED BY <2>1, OnlyUser
<1>3. DestroyJoin => usr = "destroyJoin" /\ usr' = "destroyStop" /\ st \in Ended
  BY DEF DestroyJoin, Joined, Running, Known, Paired, Ended, usr
<1> QED BY <1>1, <1>2, <1>3 DEF StartRefused, SetConnecting, ResetStoppingEvent,
        StopNow, StopLater, SetStopTs, DestroyWait, DestroyStop, usr, back

LEMMA FfmpegStartView ==
  ASSUME Known, FfmpegStart
  PROVE  /\ usr = "waitStopped" /\ usr' = "setConnecting" /\ UNCHANGED <<fin, back>>
         /\ st \in Ended /\ wr \in Ended /\ fin \in Ended
         /\ starts' = starts + 1 /\ starts' \in Starts
         /\ st' = "open" /\ wr' = "none" /\ wret' = "wait"
         /\ \A g \in Starts : /\ pc'[Write(g)] = pc[Write(g)]
                              /\ g # starts' => pc'[Start(g)] = pc[Start(g)]
<1> USE ThreadNames, PlacesKnown DEF At, calls
<1>1. usr = "waitStopped" /\ ~connecting BY DEF FfmpegStart, usr
<1>2. starts \in Nat /\ starts + 1 \in Starts /\ starts + 1 # 0
  BY <1>1, BoundAssumption DEF Known, Room, Starts
<1>3. pc[Write(starts + 1)] = "none" /\ ret[Write(starts + 1)] = "wait"
  BY <1>2 DEF Known, Lone, TypeOK, PlacesOK, EC, Past
<1>4. /\ usr' = "setConnecting" /\ UNCHANGED <<fin, back>>
      /\ starts' = starts + 1
      /\ st' = "open" /\ wr' = "none" /\ wret' = "wait"
      /\ \A g \in Starts : /\ pc'[Write(g)] = pc[Write(g)]
                           /\ g # starts' => pc'[Start(g)] = pc[Start(g)]
  BY <1>2, <1>3 DEF FfmpegStart, usr, fin, back, st, wr, wret
<1>5. st \in Ended /\ wr \in Ended /\ fin \in Ended
  BY <1>1 DEF Known, Room, st, wr, fin, Ended
<1> QED BY <1>1, <1>2, <1>4, <1>5

LEMMA OtherView ==
  ASSUME Known
  PROVE  /\ UserStart => usr = "idle" /\ usr' = "waitStopped"
         /\ \A force \in BOOLEAN :
              UserStop(force) => usr = "idle" /\ usr' = "resetEvent"
         /\ UserDestroy => /\ usr = "idle"
                           /\ usr' = IF obsActive THEN "resetEvent" ELSE "destroyWait"
         /\ (\E s \in Sources : RawStep(s)) \/ UNCHANGED vars => UNCHANGED <<pc, usr>>
         /\ \/ UserStart \/ UserDestroy \/ \E force \in BOOLEAN : UserStop(force)
            \/ \E s \in Sources : RawStep(s)
            \/ UNCHANGED vars
            => UNCHANGED <<st, wr, wret, fin, back, starts, ret>>
<1> USE ThreadNames, PlacesKnown DEF At, Goto, Move, MayAsk, calls, counts, vars
<1>1. \/ UserStart \/ UserDestroy \/ \E force \in BOOLEAN : UserStop(force)
      \/ \E s \in Sources : RawStep(s)
      \/ UNCHANGED vars
      => UNCHANGED <<st, wr, wret, fin, back, starts, ret>>
  <2>1. \/ UserStart \/ UserDestroy \/ \E force \in BOOLEAN : UserStop(force)
        \/ \E s \in Sources : RawStep(s)
        \/ UNCHANGED vars
        => UNCHANGED <<starts, ret>> /\ \A t \in Threads \ {User} : pc'[t] = pc[t]
    BY DEF UserStart, UserStop, UserDestroy, RawStep, RawEnter, RawNothing,
       RawPacket
  <2> QED BY <2>1, OnlyUser DEF back
<1>2. (\E s \in Sources : RawStep(s)) \/ UNCHANGED vars => UNCHANGED <<pc, usr>>
  BY DEF RawStep, RawEnter, RawNothing, RawPacket, usr
<1> QED BY <1>1, <1>2 DEF UserStart, UserStop, UserDestroy, usr

\* No step forgets a race.
LEMMA RacesGrow ==
  ASSUME TypeOK, [Next]_vars
  PROVE  races \subseteq races'
<1> USE DEF Move, Race
<1>1. UserStart \/ UserDestroy \/ (\E force \in BOOLEAN : UserStop(force)) \/ UserStep
        => races \subseteq races'
  BY DEF UserStart, UserDestroy, UserStop, UserStep, StartRefused, FfmpegStart,
     SetConnecting, ResetStoppingEvent, StopNow, StopLater, SetStopTs,
     DestroyWait, DestroyJoin, DestroyStop
<1>2. \A g \in Starts : StartStep(g) => races \subseteq races'
  BY DEF StartStep, OpenFile, SetActive, CanBegin, SpawnWrite, BeginCapture,
     Activate, SignalStart, SetWriteActive, ClearConnecting
<1>3. \A g \in Starts : WriteStep(g) => races \subseteq races'
  BY DEF WriteStep, SemWait, CheckEvent, TakeToWrite, TakeLast, TookNothing,
     WriteFrame, WriteFails, Leave
<1>4. \A t \in Threads : EndCaptureStep(t) => races \subseteq races'
  BY DEF EndCaptureStep, EndCapture, SignalStopped, SignalStopOnly, Deactivate,
     JoinWrite, WriteTrailer, ClearData
<1>5. EndStep \/ (\E s \in Sources : RawStep(s)) \/ UNCHANGED vars
        => races \subseteq races'
  BY DEF EndStep, Unhook, ClearActive, SignalEnded, ClearEnding, RawStep,
     RawEnter, RawNothing, RawPacket, vars
<1> QED BY <1>1, <1>2, <1>3, <1>4, <1>5 DEF Next

\* The threads of the recordings before stay as they are.
OthersStay ==
  /\ UNCHANGED starts
  /\ \A g \in Starts \ {starts} : /\ pc'[Start(g)] = pc[Start(g)]
                                  /\ pc'[Write(g)] = pc[Write(g)]
                                  /\ ret'[Write(g)] = ret[Write(g)]

LEMMA LoneKept ==
  ASSUME Known, OthersStay, wret' = "leave" => wr' \in EC
  PROVE  Lone'
<1>1. starts \in Starts => wr' = pc'[Write(starts)] /\ wret' = ret'[Write(starts)]
  BY DEF OthersStay, wr, wret, Starts
<1> QED BY <1>1, PlacesKnown DEF Known, Lone, OthersStay

LEMMA RoomKept ==
  ASSUME Known, usr # "waitStopped" => usr' # "waitStopped",
         st \notin Ended \/ wr \notin Ended \/ fin \notin Ended \/ usr # "waitStopped"
  PROVE  Room'
<1>1. usr = "waitStopped" => st \in Ended /\ wr \in Ended /\ fin \in Ended
  BY ThreadNames, PlacesKnown DEF Known, Room, st, wr, fin, Ended
<1> QED BY <1>1 DEF Room

LEMMA StartKnown ==
  ASSUME Known, NEW g \in Starts, StartStep(g)
  PROVE  (Room /\ Lone /\ Paired)'
<1> USE PlacesKnown, StartView
<1>1. st \notin Ended /\ UNCHANGED <<usr, fin, wret>> /\ g = starts
  BY DEF StartStep, Ended
<1>2. Room' BY <1>1, RoomKept
<1>3. OthersStay
  BY <1>1, ThreadNames DEF OthersStay, At, Goto, Move, calls, counts, StartStep,
     OpenFile, SetActive, CanBegin, SpawnWrite, BeginCapture, Activate,
     SignalStart, SetWriteActive, ClearConnecting
<1>4. Lone'
  <2>1. SpawnWrite(g) => wr \notin EC
    BY DEF Known, Paired, Opening, EC, Past
  <2> QED BY <1>1, <1>3, <2>1, LoneKept
<1>5. Paired'
  <2> USE DEF Known, Paired, Opening, Going, Starting, Begun, Ended, EC, Past,
      Move, output, plugin, stopAt, writer, file, calls
  <2>1. CASE OpenFile(g) BY <1>1, <2>1 DEF OpenFile
  <2>2. CASE SetActive(g) BY <1>1, <2>2 DEF SetActive
  <2>3. CASE CanBegin(g) BY <1>1, <2>3 DEF CanBegin
  <2>4. CASE SpawnWrite(g) BY <1>1, <2>4 DEF SpawnWrite
  <2>5. CASE BeginCapture(g) BY <1>1, <2>5 DEF BeginCapture
  <2>6. CASE Activate(g) BY <1>1, <2>6 DEF Activate
  <2>7. CASE SignalStart(g) BY <1>1, <2>7 DEF SignalStart
  <2>8. CASE SetWriteActive(g) BY <1>1, <2>8 DEF SetWriteActive
  <2>9. CASE ClearConnecting(g)
    <3>1. usr = "setConnecting" => "lateConnecting" \in races'
      BY <2>9 DEF ClearConnecting, Race, At, usr
    <3> QED BY <1>1, <2>9, <3>1 DEF ClearConnecting
  <2> QED BY <2>1, <2>2, <2>3, <2>4, <2>5, <2>6, <2>7, <2>8, <2>9 DEF StartStep
<1> QED BY <1>2, <1>4, <1>5

LEMMA WriteKnown ==
  ASSUME Known, NEW g \in Starts, WriteStep(g)
  PROVE  (Room /\ Lone /\ Paired)'
<1> USE PlacesKnown, WriteView
<1>1. wr \notin Ended /\ UNCHANGED <<st, usr, fin>> /\ g = starts
  BY DEF WriteStep, Ended
<1>2. Room' BY <1>1, RoomKept
<1>3. OthersStay
  BY <1>1, ThreadNames DEF OthersStay, At, Goto, Move, Take, calls, counts,
     WriteStep, SemWait, CheckEvent, TakeToWrite, TakeLast, TookNothing,
     WriteFrame, WriteFails, Leave
<1>4. wr \notin EC /\ (~WriteFails(g) => wret' = "wait")
  <2>1. wr \notin EC BY DEF WriteStep, EC, Past
  <2> QED BY <2>1
<1>5. Lone' BY <1>3, <1>4, LoneKept DEF EC
<1>6. Paired'
  <2> USE DEF Known, Paired, Opening, Going, Starting, Begun, Ended, EC, Past,
      Move, output, plugin, stopAt, writer, file, calls
  <2>1. CASE SemWait(g) BY <1>1, <1>4, <2>1 DEF SemWait
  <2>2. CASE CheckEvent(g) BY <1>1, <1>4, <2>2 DEF CheckEvent
  <2>3. CASE TakeToWrite(g) BY <1>1, <1>4, <2>3 DEF TakeToWrite, Take
  <2>4. CASE TakeLast(g)
    <3>1. "lateConnecting" \in races => "lateConnecting" \in races'
      BY <2>4 DEF TakeLast
    <3> QED BY <1>1, <1>4, <2>4, <3>1 DEF TakeLast, Take
  <2>5. CASE TookNothing(g) BY <1>1, <1>4, <2>5 DEF TookNothing
  <2>6. CASE WriteFrame(g) BY <1>1, <1>4, <2>6 DEF WriteFrame
  <2>7. CASE WriteFails(g)
    <3>1. "lateConnecting" \in races => "lateConnecting" \in races'
      BY <2>7 DEF WriteFails
    <3>2. detached' = detached \cup {Write(starts)} /\ starts # 0
      BY <1>1, <2>7 DEF WriteFails
    <3>3. UNCHANGED <<active, connecting, ending, writeThread>>
      BY <2>7 DEF WriteFails
    <3>4. wr = "write" /\ wr' = "endCapture" /\ wret' = "leave" BY <2>7
    <3> HIDE <2>7
    <3>5. active /\ writeThread = starts BY <1>1, <3>4
    <3>6. detached' \subseteq {Write(starts)} BY <3>2
    <3> QED BY <1>1, <3>1, <3>2, <3>3, <3>4, <3>5, <3>6
  <2>8. CASE Leave(g) BY <1>1, <1>4, <2>8 DEF Leave
  <2> QED BY <2>1, <2>2, <2>3, <2>4, <2>5, <2>6, <2>7, <2>8 DEF WriteStep
<1> QED BY <1>2, <1>5, <1>6

LEMMA EndCaptureKnown ==
  ASSUME Known, NEW t \in Threads, EndCaptureStep(t)
  PROVE  (Room /\ Lone /\ Paired)'
<1> USE PlacesKnown DEF EndsCapture, Signals, OnlySignals, Wakes, Joins, Closes,
    Forgets
<1>1. OthersStay
  <2>1. /\ t # End /\ pc[t] \in EC /\ UNCHANGED starts
        /\ \A x \in Threads \ {t, End} : pc'[x] = pc[x] /\ ret'[x] = ret[x]
    BY EndCaptureMoves DEF EndMove
  <2> QED BY <2>1, ThreadNames DEF OthersStay, Ended, EC, Past
<1>2. /\ races \subseteq races'
      /\ "lateConnecting" \in races' => "lateConnecting" \in races
  BY DEF Move, Race, EndCaptureStep, EndCapture, SignalStopped, SignalStopOnly,
     Deactivate, JoinWrite, WriteTrailer, ClearData
<1>3. (ending <=> fin \notin Ended)'
  BY EndCaptureView DEF EndMove, Known, Paired, Ended
<1>4. CASE /\ usr \in EC /\ UNCHANGED <<st, wr, wret>>
           /\ EndMove(usr, usr', back, back', "deactivate")
  <2>1. usr' \in EC \cup {"idle", "destroyWait", "freed"}
    BY <1>4 DEF EndMove, EC, Past
  <2>2. usr \notin Waiting /\ usr' \notin {"waitStopped", "setConnecting"}
    BY <1>4, <2>1 DEF EC, Past, Waiting
  <2>3. Room' BY <2>2, RoomKept DEF Waiting
  <2>4. Lone' BY <1>1, <1>4, LoneKept
  <2>5. Paired'
    BY <1>2, <1>3, <1>4, <2>2 DEF EndMove, Known, Paired, Waiting
  <2> QED BY <2>3, <2>4, <2>5
<1>5. CASE /\ wr \in EC /\ UNCHANGED <<st, usr, back>>
           /\ EndMove(wr, wr', wret, wret', "deactivate")
  <2>1. wr \notin Ended /\ wr' \notin Ended BY <1>5 DEF EndMove, EC, Past, Ended
  <2>2. Room' BY <1>5, <2>1, RoomKept
  <2>3. wret' = "leave" => wr' \in EC BY <1>5 DEF EndMove, EC, Past
  <2>4. Lone' BY <1>1, <2>3, LoneKept
  <2>5. detached # {} => wr' = "leave" \/ (wr' \in EC /\ wret' = "leave")
    BY <1>5 DEF EndMove, EC, Past, Known, Paired
  <2>6. Paired'
    BY <1>2, <1>3, <1>5, <2>1, <2>5 DEF EndMove, Known, Paired, Ended
  <2> QED BY <2>2, <2>4, <2>6
<1>6. CASE /\ st \in {"endCapture", "signalStopped"}
           /\ UNCHANGED <<wr, wret, usr, back>>
           /\ st' \in {"signalStopped", "connected"}
           /\ EndMove(st, st', "wait", "wait", "connected")
  <2>1. Room' BY <1>6, RoomKept DEF Ended
  <2>2. Lone' BY <1>1, <1>6, LoneKept
  <2>3. Paired'
    BY <1>2, <1>3, <1>6 DEF EndMove, Known, Paired, Ended, Opening, Going,
       Starting
  <2> QED BY <2>1, <2>2, <2>3
<1> QED BY <1>4, <1>5, <1>6, EndCaptureView

LEMMA EndKnown ==
  ASSUME Known, EndStep
  PROVE  (Room /\ Lone /\ Paired)'
<1> USE PlacesKnown, EndView
<1>1. UNCHANGED <<st, wr, wret, usr>> /\ fin \notin Ended
  BY DEF EndStep, Ended
<1>2. Room' BY <1>1, RoomKept
<1>3. OthersStay /\ UNCHANGED races
  BY ThreadNames DEF OthersStay, Goto, calls, counts, EndStep, Unhook,
     ClearActive, SignalEnded, ClearEnding
<1>4. Lone' BY <1>1, <1>3, LoneKept
<1>5. UNCHANGED <<active, connecting, writeThread, detached>>
  BY DEF EndStep, Unhook, ClearActive, SignalEnded, ClearEnding, plugin, writer,
     calls
<1>6. (ending <=> fin \notin Ended)'
  BY DEF Known, Paired, EndStep, Unhook, ClearActive, SignalEnded, ClearEnding,
     Ended
<1>7. Paired' BY <1>1, <1>3, <1>5, <1>6 DEF Known, Paired, OthersStay
<1> QED BY <1>2, <1>4, <1>7

LEMMA UserKnown ==
  ASSUME Known, UserStep
  PROVE  (Room /\ Lone /\ Paired)'
<1> USE PlacesKnown
<1>1. CASE FfmpegStart
  <2>1. Room' BY <1>1, FfmpegStartView DEF Room
  <2>2. UNCHANGED <<ret, detached, active, ending, races, writeThread>> /\ st' # "done"
    BY <1>1, FfmpegStartView DEF FfmpegStart, calls, output, writer
  <2>3. Lone'
    <3>1. \A g \in Starts : g # starts => pc'[Write(g)] \in Ended
      BY <1>1, FfmpegStartView DEF Known, Lone
    <3>2. \A g \in Starts : g # starts' => pc'[Start(g)] \in Ended
      BY <1>1, FfmpegStartView DEF Known, Lone
    <3>3. \A g \in Starts : g # starts' => pc'[Write(g)] \in Ended
      BY <1>1, <3>1, FfmpegStartView DEF Known, Lone
    <3>4. \A g \in Starts : g > starts' =>
            pc'[Start(g)] = "none" /\ pc'[Write(g)] = "none"
      BY <1>1, FfmpegStartView DEF Known, Lone, Starts
    <3>5. \A g \in Starts : ret'[Write(g)] = "leave" => pc'[Write(g)] \in EC
      BY <1>1, <2>2, FfmpegStartView DEF Known, Lone
    <3> QED BY <3>2, <3>3, <3>4, <3>5 DEF Lone
  <2>4. detached = {}
    BY <1>1, FfmpegStartView DEF Known, Paired, Ended, EC, Past
  <2>5. ~active /\ ~ending
    BY <1>1, FfmpegStartView DEF Known, Paired, Ended
  <2>6. Paired'
    BY <1>1, <2>2, <2>4, <2>5, FfmpegStartView
    DEF Paired, Ended, Opening, Going, Starting
  <2> QED BY <2>1, <2>3, <2>6
<1>2. CASE ~FfmpegStart
  <2>1. UNCHANGED <<st, wr, wret, fin, starts>> BY <1>2, UserView DEF UserStep
  <2>2. usr' # "waitStopped"
    BY <1>2, UserView DEF UserStep, Back
  <2>3. Room' BY <2>2 DEF Room
  <2>4. OthersStay
    BY <1>2, ThreadNames, ZenonT(40) DEF OthersStay, Goto, Move, calls, counts, UserStep,
       StartRefused, SetConnecting, ResetStoppingEvent, StopNow, StopLater,
       SetStopTs, DestroyWait, DestroyJoin, DestroyStop
  <2>5. Lone' BY <2>1, <2>4, LoneKept
  <2>6. UNCHANGED <<active, ending, writeThread, detached>>
    BY <1>2 DEF UserStep, StartRefused, SetConnecting, ResetStoppingEvent,
       StopNow, StopLater, SetStopTs, DestroyWait, DestroyJoin, DestroyStop,
       Move, output, plugin, writer, calls
  <2>7. "lateConnecting" \in races' <=> "lateConnecting" \in races
    BY <1>2 DEF UserStep, StartRefused, SetConnecting, ResetStoppingEvent,
       StopNow, StopLater, SetStopTs, DestroyWait, DestroyJoin, DestroyStop,
       Move, Race
  <2>8. CASE SetConnecting
    <3>1. usr = "setConnecting" /\ connecting'
      BY <2>8, UserView DEF SetConnecting
    <3>2. Paired' BY <2>1, <2>6, <2>7, <3>1 DEF Known, Paired
    <3> QED BY <2>3, <2>5, <3>2
  <2>9. CASE ~SetConnecting
    <3>1. UNCHANGED connecting
      BY <1>2, <2>9 DEF UserStep, StartRefused, ResetStoppingEvent, StopNow,
         StopLater, SetStopTs, DestroyWait, DestroyJoin, DestroyStop, Move,
         plugin
    <3>2. usr # "setConnecting" /\ usr' # "setConnecting"
      BY <1>2, <2>9, UserView DEF UserStep, Back
    <3> QED BY <2>1, <2>3, <2>5, <2>6, <2>7, <3>1, <3>2 DEF Known, Paired
  <2> QED BY <2>3, <2>5, <2>8, <2>9
<1> QED BY <1>1, <1>2

LEMMA OtherKnown ==
  ASSUME Known,
         \/ UserStart \/ UserDestroy \/ \E force \in BOOLEAN : UserStop(force)
         \/ \E s \in Sources : RawStep(s)
         \/ UNCHANGED vars
  PROVE  (Room /\ Lone /\ Paired)'
<1> USE PlacesKnown, OtherView
<1>1. UNCHANGED <<st, wr, wret, fin, starts, ret>> OBVIOUS
<1>2. OthersStay
  BY <1>1, ThreadNames DEF OthersStay, Goto, Move, UserStart, UserStop,
     UserDestroy, vars
<1>3. Lone' BY <1>1, <1>2, LoneKept
<1>4. UNCHANGED <<active, connecting, ending, writeThread, detached, races, obsActive>>
  BY DEF UserStart, UserStop, UserDestroy, RawStep, RawEnter, RawNothing,
     RawPacket, Move, output, plugin, writer, calls, vars
<1>5. Room'
  <2>1. CASE UserStart
    <3>1. \A t \in Threads \ {User} : pc'[t] \in Ended
      BY <2>1, ThreadNames DEF UserStart, Settled, Running, Ended, Move, Goto
    <3> QED BY <1>1, <1>4, <2>1, <3>1 DEF UserStart, MayAsk, Room
  <2>2. CASE UserDestroy \/ \E force \in BOOLEAN : UserStop(force)
    BY <2>2 DEF Room
  <2>3. CASE (\E s \in Sources : RawStep(s)) \/ UNCHANGED vars
    BY <1>1, <1>4, <2>3 DEF Known, Room
  <2> QED BY <2>1, <2>2, <2>3
<1>6. usr # "setConnecting" => usr' # "setConnecting" OBVIOUS
<1>7. usr = "setConnecting" => usr' = "setConnecting" OBVIOUS
<1>8. Paired' BY <1>1, <1>4, <1>6, <1>7 DEF Known, Paired
<1> QED BY <1>3, <1>5, <1>8

LEMMA KnownStep ==
  ASSUME Known, [Next]_vars
  PROVE  Known'
<1>1. TypeOK' BY TypeStep DEF Known
<1>2. ASSUME NEW g \in Starts, StartStep(g) \/ WriteStep(g)
      PROVE  (Room /\ Lone /\ Paired)'
  BY <1>2, StartKnown, WriteKnown
<1>3. ASSUME NEW t \in Threads, EndCaptureStep(t) PROVE (Room /\ Lone /\ Paired)'
  BY <1>3, EndCaptureKnown
<1>4. CASE EndStep BY <1>1, <1>4, EndKnown DEF Known
<1>5. CASE UserStep BY <1>1, <1>5, UserKnown DEF Known
<1> QED BY <1>1, <1>2, <1>3, <1>4, <1>5, OtherKnown DEF Known, Next

-----------------------------------------------------------------------------
(* The parts of the invariant are kept by every step.                      *)

LEMMA Kept ==
  /\ Held \in BOOLEAN /\ Empty \in BOOLEAN /\ Filed \in BOOLEAN /\ InCall \in BOOLEAN
  /\ UNCHANGED <<raw, hooked>> => (Held' <=> Held)
  /\ UNCHANGED <<raw, packets>> => (Empty' <=> Empty)
  /\ UNCHANGED <<starts, closed>> => (Filed' <=> Filed)
  /\ UNCHANGED races => (InCall' <=> InCall)
BY DEF Held, Empty, Filed, InCall

LEMMA StartParts ==
  ASSUME Known, Stamped, Parts, Calm', NEW g \in Starts, StartStep(g)
  PROVE  Parts'
<1> USE DEF Ended, Loop, Past, EC, Opening, Going, Starting, Begun, Stops,
    Waiting, Hooked, Parts, Capturing, Filing, Finishing, Stopped, Telling,
    Move, output, plugin, stopAt, writer, file, calls, user, counts
<1>0. /\ st \in StartLabels /\ wr \in WriteLabels /\ usr \in UserLabels
      /\ fin \in EndLabels /\ UNCHANGED <<usr, fin, back, wret>> /\ g = starts
      /\ (ending <=> fin \notin Ended) /\ (wret = "leave" => wr \in EC)
  BY PlacesKnown, StartView DEF Known, Paired
<1>1. CASE OpenFile(g)
  <2>1. st = "open" /\ st' = (IF data' = 0 THEN "endCapture" ELSE "setActive")
        /\ data' \in {0, starts} /\ UNCHANGED wr /\ wr = "none" /\ starts # 0
    BY <1>1, StartView DEF Known, Paired, Starts
  <2>2. ~Filed' BY <1>1, <2>1, Kept DEF OpenFile
  <2> QED BY <1>0, <1>1, <2>1, <2>2, Kept DEF OpenFile
<1>2. CASE SetActive(g) BY <1>0, <1>2, StartView, Kept DEF SetActive
<1>3. CASE CanBegin(g) BY <1>0, <1>3, StartView, Kept DEF CanBegin
<1>4. CASE SpawnWrite(g)
  <2>1. wr = "none" BY <1>4, StartView DEF Known, Paired
  <2> QED BY <1>0, <1>4, <2>1, StartView, Kept DEF SpawnWrite
<1>5. CASE BeginCapture(g)
  <2>1. Held' BY <1>5, SourcesAssumption DEF BeginCapture, Held
  <2> QED BY <1>0, <1>5, <2>1, StartView, Kept DEF BeginCapture
<1>6. CASE Activate(g) BY <1>0, <1>6, StartView, Kept DEF Activate
<1>7. CASE SignalStart(g) BY <1>0, <1>7, StartView, Kept DEF SignalStart
<1>8. CASE SetWriteActive(g) BY <1>0, <1>8, StartView, Kept DEF SetWriteActive
<1>9. CASE ClearConnecting(g)
  <2>1. InCall' <=> InCall BY <1>9 DEF ClearConnecting, Race, InCall
  <2>2. Capturing' BY <1>0, <1>9, <2>1, StartView, Kept DEF ClearConnecting
  <2>3. Filing' BY <1>0, <1>9, <2>1, StartView, Kept DEF ClearConnecting
  <2>4. Finishing' BY <1>0, <1>9, <2>1, StartView, Kept DEF ClearConnecting
  <2>5. Stopped' BY <1>0, <1>9, <2>1, StartView, Kept DEF ClearConnecting
  <2>6. Telling' BY <1>0, <1>9, <2>1, StartView, Kept DEF ClearConnecting
  <2> HIDE DEF Capturing, Filing, Finishing, Stopped, Telling
  <2> QED BY <2>2, <2>3, <2>4, <2>5, <2>6
<1> QED BY <1>1, <1>2, <1>3, <1>4, <1>5, <1>6, <1>7, <1>8, <1>9 DEF StartStep

LEMMA WriteParts ==
  ASSUME Known, Stamped, Parts, Calm', NEW g \in Starts, WriteStep(g)
  PROVE  Parts'
<1> USE DEF Ended, Loop, Past, EC, Opening, Going, Starting, Begun, Stops,
    Waiting, Hooked, Parts, Capturing, Filing, Finishing, Stopped, Telling,
    Move, output, plugin, stopAt, writer, file, calls, user, counts
<1>0. /\ st \in StartLabels /\ wr \in WriteLabels /\ usr \in UserLabels
      /\ fin \in EndLabels /\ UNCHANGED <<st, usr, fin, back>> /\ g = starts
      /\ (wret = "leave" => wr \in EC) /\ (~WriteFails(g) => wret' = wret)
      /\ (st \in Opening \cup {"none", "signalStopped"} => wr = "none")
      /\ active /\ wret \in {"wait", "leave"}
      /\ detached # {} => wr = "leave" \/ wr \in EC
  BY PlacesKnown, WriteView DEF Known, Paired, WriteStep
<1>1. CASE SemWait(g) BY <1>0, <1>1, WriteView, Kept DEF SemWait
<1>2. CASE CheckEvent(g)
  <2>1. Capturing' BY <1>0, <1>2, WriteView, Kept DEF CheckEvent
  <2>2. Filing' BY <1>0, <1>2, WriteView, Kept DEF CheckEvent
  <2>3. Finishing' BY <1>0, <1>2, WriteView, Kept DEF CheckEvent
  <2>4. Stopped' BY <1>0, <1>2, WriteView, Kept DEF CheckEvent
  <2>5. Telling' BY <1>0, <1>2, WriteView, Kept DEF CheckEvent
  <2> HIDE DEF Capturing, Filing, Finishing, Stopped, Telling
  <2> QED BY <2>1, <2>2, <2>3, <2>4, <2>5
<1>3. CASE TakeToWrite(g)
  <2>1. Empty => FALSE BY <1>3 DEF TakeToWrite, Take, Empty
  <2>2. Capturing' BY <1>0, <1>3, <2>1, WriteView, Kept DEF TakeToWrite, Take
  <2>3. Filing' BY <1>0, <1>3, <2>1, WriteView, Kept DEF TakeToWrite, Take
  <2>4. Finishing' BY <1>0, <1>3, <2>1, WriteView, Kept DEF TakeToWrite, Take
  <2>5. Stopped' BY <1>0, <1>3, <2>1, WriteView, Kept DEF TakeToWrite, Take
  <2>6. Telling' BY <1>0, <1>3, <2>1, WriteView, Kept DEF TakeToWrite, Take
  <2> HIDE DEF Capturing, Filing, Finishing, Stopped, Telling
  <2> QED BY <2>2, <2>3, <2>4, <2>5, <2>6
<1>4. CASE TakeLast(g)
  <2>1. wr = "take" /\ wr' = "endCapture" BY <1>0, <1>4, WriteView
  <2>2. /\ st \notin Going \cup Starting /\ usr \notin EC
        /\ ~(usr = "pluginStop" /\ forced)
        /\ (InCall' <=> InCall)
    BY <1>4, EndRaces DEF InCall
  <2>3. Empty => FALSE BY <1>4 DEF TakeLast, Take, Empty
  <2>4. Capturing' BY <1>0, <1>4, <2>1, <2>2, <2>3, Kept DEF TakeLast, Take
  <2>5. Filing' BY <1>0, <1>4, <2>1, <2>2, <2>3, Kept DEF TakeLast, Take
  <2>6. Finishing'
    <3>1. /\ UNCHANGED <<writeActive, stopEvent, data, dataActive, forced, detached>>
          /\ UNCHANGED <<st, usr, wret>>
      BY <1>0, <1>4, <2>1, WriteView DEF TakeLast, Take
    <3> HIDE <1>4
    <3>2. /\ st \in Begun /\ dataActive /\ writeActive /\ ~stopEvent /\ data # 0
          /\ wret = "wait"
      BY <1>0, <2>1, <2>2 DEF StartLabels
    <3> QED BY <1>0, <2>1, <2>2, <3>1, <3>2
  <2>7. Stopped' BY <1>0, <1>4, <2>1, <2>2, <2>3, Kept DEF TakeLast, Take
  <2>8. Telling' BY <1>0, <1>4, <2>1, <2>2, <2>3, Kept DEF TakeLast, Take
  <2> HIDE DEF Capturing, Filing, Finishing, Stopped, Telling
  <2> QED BY <2>4, <2>5, <2>6, <2>7, <2>8
<1>5. CASE TookNothing(g) BY <1>0, <1>5, WriteView, Kept DEF TookNothing
<1>6. CASE WriteFrame(g)
  <2>1. Capturing' BY <1>0, <1>6, WriteView, Kept DEF WriteFrame
  <2>2. Filing' BY <1>0, <1>6, WriteView, Kept DEF WriteFrame
  <2>3. Finishing' BY <1>0, <1>6, WriteView, Kept DEF WriteFrame
  <2>4. Stopped' BY <1>0, <1>6, WriteView, Kept DEF WriteFrame
  <2>5. Telling' BY <1>0, <1>6, WriteView, Kept DEF WriteFrame
  <2> HIDE DEF Capturing, Filing, Finishing, Stopped, Telling
  <2> QED BY <2>1, <2>2, <2>3, <2>4, <2>5
<1>7. CASE WriteFails(g)
  <2>1. wr = "write" /\ wr' = "endCapture" /\ wret' = "leave"
    BY <1>0, <1>7, WriteView
  <2>2. /\ st \notin Going \cup Starting /\ usr \notin EC
        /\ ~(usr = "pluginStop" /\ forced)
        /\ (InCall' <=> InCall)
    BY <1>7, EndRaces DEF InCall
  <2>3. Capturing' BY <1>0, <1>7, <2>1, <2>2, Kept DEF WriteFails
  <2>4. Filing' BY <1>0, <1>7, <2>1, <2>2, Kept DEF WriteFails
  <2>5. Finishing' BY <1>0, <1>7, <2>1, <2>2, Kept DEF WriteFails, StartLabels
  <2>6. Stopped' BY <1>0, <1>7, <2>1, <2>2, Kept DEF WriteFails
  <2>7. Telling' BY <1>0, <1>7, <2>1, <2>2, Kept DEF WriteFails
  <2> HIDE DEF Capturing, Filing, Finishing, Stopped, Telling
  <2> QED BY <2>3, <2>4, <2>5, <2>6, <2>7
<1>8. CASE Leave(g)
  <2>1. Capturing' BY <1>0, <1>8, WriteView, Kept DEF Leave
  <2>2. Filing' BY <1>0, <1>8, WriteView, Kept DEF Leave
  <2>3. Finishing' BY <1>0, <1>8, WriteView, Kept DEF Leave
  <2>4. Stopped' BY <1>0, <1>8, WriteView, Kept DEF Leave
  <2>5. Telling' BY <1>0, <1>8, WriteView, Kept DEF Leave
  <2> HIDE DEF Capturing, Filing, Finishing, Stopped, Telling
  <2> QED BY <2>1, <2>2, <2>3, <2>4, <2>5
<1> QED BY <1>1, <1>2, <1>3, <1>4, <1>5, <1>6, <1>7, <1>8 DEF WriteStep

LEMMA EndParts ==
  ASSUME Known, Stamped, Parts, Calm', EndStep
  PROVE  Parts'
<1> USE DEF Ended, Loop, Past, EC, Opening, Going, Starting, Begun, Stops,
    Waiting, Hooked, Parts, Capturing, Filing, Finishing, Stopped, Telling,
    output, plugin, stopAt, writer, file, calls, user, counts
<1>0. /\ st \in StartLabels /\ wr \in WriteLabels /\ usr \in UserLabels
      /\ UNCHANGED <<st, wr, wret, usr, back>>
  BY PlacesKnown, EndView
<1>1. CASE Unhook("video", "video", "audio")
  <2>1. Held'
    BY <1>1 DEF Unhook, Held
  <2>2. hooked \subseteq {"video", "audio"} BY DEF Known, TypeOK, Values
  <2> QED BY <1>0, <1>1, <2>1, <2>2, EndView, Kept DEF Unhook
<1>2. CASE Unhook("audio", "audio", "inactive")
  <2>1. Held'
    BY <1>2 DEF Unhook, Held
  <2> QED BY <1>0, <1>2, <2>1, EndView, Kept DEF Unhook
<1>3. CASE ClearActive
  <2>1. Capturing' BY <1>0, <1>3, EndView, Kept DEF ClearActive
  <2>2. Filing' BY <1>0, <1>3, EndView, Kept DEF ClearActive
  <2>3. Finishing' BY <1>0, <1>3, EndView, Kept DEF ClearActive
  <2>4. Stopped' BY <1>0, <1>3, EndView, Kept DEF ClearActive
  <2>5. Telling' BY <1>0, <1>3, EndView, Kept DEF ClearActive
  <2> HIDE DEF Capturing, Filing, Finishing, Stopped, Telling
  <2> QED BY <2>1, <2>2, <2>3, <2>4, <2>5
<1>4. CASE SignalEnded BY <1>0, <1>4, EndView, Kept DEF SignalEnded
<1>5. CASE ClearEnding
  <2>1. Capturing' BY <1>0, <1>5, EndView, Kept DEF ClearEnding
  <2>2. Filing' BY <1>0, <1>5, EndView, Kept DEF ClearEnding
  <2>3. Finishing' BY <1>0, <1>5, EndView, Kept DEF ClearEnding
  <2>4. Stopped' BY <1>0, <1>5, EndView, Kept DEF ClearEnding
  <2>5. Telling' BY <1>0, <1>5, EndView, Kept DEF ClearEnding
  <2> HIDE DEF Capturing, Filing, Finishing, Stopped, Telling
  <2> QED BY <2>1, <2>2, <2>3, <2>4, <2>5
<1> QED BY <1>1, <1>2, <1>3, <1>4, <1>5 DEF EndStep

LEMMA EndMoved ==
  ASSUME Stamped, NEW p, NEW q, NEW k, NEW l, NEW n, EndMove(p, q, k, l, n)
  PROVE  /\ Held' <=> Held
         /\ p # "trailer" =>
              (Filed' <=> Filed) /\ (Empty' <=> Empty) /\ (InCall' <=> InCall)
         /\ p = "trailer" => (InCall' \/ Empty') /\ (Filed' <=> Filed \/ data # 0)
<1> USE DEF EndsCapture, Signals, OnlySignals, Wakes, Joins, Closes, Forgets
<1>1. Held' <=> Held BY Kept DEF EndMove
<1>2. ASSUME p # "trailer"
      PROVE  (Filed' <=> Filed) /\ (Empty' <=> Empty) /\ (InCall' <=> InCall)
  BY <1>2, Kept DEF EndMove, file
<1>3. ASSUME p = "trailer"
      PROVE  (InCall' \/ Empty') /\ (Filed' <=> Filed \/ data # 0)
  <2>1. /\ UNCHANGED <<raw, starts>> /\ packets' = <<>>
        /\ closed' = closed \cup ({data} \ {0})
        /\ Race("inCallback", \E s \in Sources : raw[s] # 0)
    BY <1>3 DEF EndMove
  <2> QED BY <2>1 DEF Race, InCall, Empty, Filed, Stamped
<1> QED BY <1>1, <1>2, <1>3

LEMMA EndCaptureParts ==
  ASSUME Known, Stamped, Parts, Calm', NEW t \in Threads, EndCaptureStep(t)
  PROVE  Parts'
<1> USE DEF Ended, Loop, Past, EC, Opening, Going, Starting, Begun, Stops,
    Waiting, Hooked, Parts, Capturing, Filing, Finishing, Stopped, Telling,
    stopAt, writer, file
<1>0. /\ st \in StartLabels /\ wr \in WriteLabels /\ usr \in UserLabels
      /\ fin \in EndLabels /\ (wret = "leave" => wr \in EC)
      /\ wret \in {"wait", "leave"}
      /\ back \in {"idle", "destroyWait", "freed"}
      /\ (st \in Opening \cup {"none", "signalStopped"} => wr = "none")
      /\ detached # {} => wr = "leave" \/ (wr \in EC /\ wret = "leave")
  BY PlacesKnown DEF Known, Paired
<1>1. CASE /\ usr \in EC /\ UNCHANGED <<st, wr, wret>>
           /\ EndMove(usr, usr', back, back', "deactivate")
           /\ usr = "joinWrite" => detached # {} \/ wr \in Ended
  <2>1. /\ Held' <=> Held
        /\ usr # "trailer" =>
             (Filed' <=> Filed) /\ (Empty' <=> Empty) /\ (InCall' <=> InCall)
        /\ usr = "trailer" => (InCall' \/ Empty') /\ (Filed' <=> Filed \/ data # 0)
    BY <1>1, EndMoved
  <2>2. /\ UNCHANGED <<obsActive, hooked, active, connecting, writeThread, detached>>
        /\ UNCHANGED <<forced, destroying, starts>>
        /\ UNCHANGED <<st, wr, wret>>
    BY <1>1 DEF EndMove
  <2>3. wr \notin EC /\ (usr = "joinWrite" => detached # {} \/ wr \in Ended)
    BY <1>1
  <2>4. CASE EndsCapture(usr, usr') /\ UNCHANGED back
    BY <1>0, <2>1, <2>2, <2>3, <2>4 DEF EndsCapture
  <2>5. CASE Signals(usr, usr', "deactivate") /\ UNCHANGED back
    BY <1>0, <2>1, <2>2, <2>3, <2>5 DEF Signals, Told
  <2>6. CASE OnlySignals(usr, usr', "deactivate") /\ UNCHANGED back
    BY <1>0, <2>1, <2>2, <2>3, <2>6 DEF OnlySignals, Told
  <2>7. CASE Wakes(usr, usr') /\ UNCHANGED back
    <3>1. Capturing' BY <1>0, <2>1, <2>2, <2>3, <2>7 DEF Wakes
    <3>2. Filing' BY <1>0, <2>1, <2>2, <2>3, <2>7 DEF Wakes
    <3>3. Finishing' BY <1>0, <2>1, <2>2, <2>3, <2>7 DEF Wakes
    <3>4. Stopped' BY <1>0, <2>1, <2>2, <2>3, <2>7 DEF Wakes
    <3>5. Telling' BY <1>0, <2>1, <2>2, <2>3, <2>7 DEF Wakes
    <3> HIDE DEF Capturing, Filing, Finishing, Stopped, Telling
    <3> QED BY <3>1, <3>2, <3>3, <3>4, <3>5
  <2>8. CASE Joins(usr, usr') /\ UNCHANGED back
    BY <1>0, <2>1, <2>2, <2>3, <2>8 DEF Joins
  <2>9. CASE Closes(usr, usr') /\ UNCHANGED back
    BY <1>0, <2>1, <2>2, <2>3, <2>9 DEF Closes
  <2>10. CASE Forgets(usr, usr', back, back')
    <3>1. Capturing' BY <1>0, <2>1, <2>2, <2>3, <2>10 DEF Forgets
    <3>2. Filing' BY <1>0, <2>1, <2>2, <2>3, <2>10 DEF Forgets
    <3>3. Finishing' BY <1>0, <2>1, <2>2, <2>3, <2>10 DEF Forgets
    <3>4. Stopped' BY <1>0, <2>1, <2>2, <2>3, <2>10 DEF Forgets
    <3>5. back' # "wait"
      BY EndCaptureTypes DEF Known, TypeOK, PlacesOK, back
    <3>6. Telling' BY <1>0, <2>1, <2>2, <2>3, <2>10, <3>5 DEF Forgets
    <3> HIDE DEF Capturing, Filing, Finishing, Stopped, Telling
    <3> QED BY <3>1, <3>2, <3>3, <3>4, <3>6
  <2> QED BY <1>1, <2>4, <2>5, <2>6, <2>7, <2>8, <2>9, <2>10 DEF EndMove
<1>2. CASE /\ wr \in EC /\ UNCHANGED <<st, usr, back>>
           /\ EndMove(wr, wr', wret, wret', "deactivate")
  <2>1. /\ Held' <=> Held
        /\ wr # "trailer" =>
             (Filed' <=> Filed) /\ (Empty' <=> Empty) /\ (InCall' <=> InCall)
        /\ wr = "trailer" => (InCall' \/ Empty') /\ (Filed' <=> Filed \/ data # 0)
    BY <1>2, EndMoved
  <2>2. /\ UNCHANGED <<obsActive, hooked, active, connecting, writeThread, detached>>
        /\ UNCHANGED <<forced, destroying, starts>>
        /\ UNCHANGED <<st, usr, back>>
    BY <1>2 DEF EndMove
  <2>3. st \in Begun /\ data # 0 /\ usr \notin EC /\ ~(usr = "pluginStop" /\ forced)
    BY <1>2
  <2>4. CASE EndsCapture(wr, wr') /\ UNCHANGED wret
    BY <1>0, <2>1, <2>2, <2>3, <2>4 DEF EndsCapture
  <2>5. CASE Signals(wr, wr', "deactivate") /\ UNCHANGED wret
    BY <1>0, <2>1, <2>2, <2>3, <2>5 DEF Signals, Told
  <2>6. CASE OnlySignals(wr, wr', "deactivate") /\ UNCHANGED wret
    BY <1>0, <2>1, <2>2, <2>3, <2>6 DEF OnlySignals, Told
  <2>7. CASE Wakes(wr, wr') /\ UNCHANGED wret
    <3>1. Capturing' BY <1>0, <2>1, <2>2, <2>3, <2>7 DEF Wakes
    <3>2. Filing' BY <1>0, <2>1, <2>2, <2>3, <2>7 DEF Wakes
    <3>3. Finishing' BY <1>0, <2>1, <2>2, <2>3, <2>7 DEF Wakes
    <3>4. Stopped' BY <1>0, <2>1, <2>2, <2>3, <2>7 DEF Wakes
    <3>5. Telling' BY <1>0, <2>1, <2>2, <2>3, <2>7 DEF Wakes
    <3> HIDE DEF Capturing, Filing, Finishing, Stopped, Telling
    <3> QED BY <3>1, <3>2, <3>3, <3>4, <3>5
  <2>8. CASE Joins(wr, wr') /\ UNCHANGED wret
    BY <1>0, <2>1, <2>2, <2>3, <2>8 DEF Joins
  <2>9. CASE Closes(wr, wr') /\ UNCHANGED wret
    BY <1>0, <2>1, <2>2, <2>3, <2>9 DEF Closes
  <2>10. CASE Forgets(wr, wr', wret, wret')
    BY <1>0, <2>1, <2>2, <2>3, <2>10 DEF Forgets
  <2> QED BY <1>2, <2>4, <2>5, <2>6, <2>7, <2>8, <2>9, <2>10 DEF EndMove
<1>3. CASE /\ st \in {"endCapture", "signalStopped"}
           /\ UNCHANGED <<wr, wret, usr, back>>
           /\ st' \in {"signalStopped", "connected"}
           /\ EndMove(st, st', "wait", "wait", "connected")
  <2>1. /\ Held' <=> Held
        /\ (Filed' <=> Filed) /\ (Empty' <=> Empty) /\ (InCall' <=> InCall)
    BY <1>3, EndMoved
  <2>2. UNCHANGED <<obsActive, hooked, active, connecting, writeThread, detached,
                    forced, destroying, starts, wr, wret, usr, back>>
    BY <1>3 DEF EndMove
  <2>3. /\ st = "endCapture" /\ st' = "connected" /\ ~dataActive /\ data = 0
        /\ wr = "none" /\ OnlySignals(st, st', "connected")
    BY <1>0, <1>3 DEF EndMove, EndsCapture, Signals, OnlySignals, Wakes, Joins,
       Closes, Forgets
  <2> QED BY <1>0, <2>1, <2>2, <2>3 DEF OnlySignals, Told
<1> QED BY <1>1, <1>2, <1>3, EndCaptureView

LEMMA FreshStart ==
  ASSUME Known, Safe, Stamped, usr = "waitStopped"
  PROVE  /\ Parts /\ st \in Ended /\ wr \in Ended /\ fin \in Ended
         /\ data = 0 /\ Empty /\ ~dataActive /\ ~obsActive /\ hooked = {}
         /\ ~stopEvent /\ ~writeActive /\ ~destroying /\ ~InCall
<1>1. races \subseteq {"lateConnecting"} BY DEF Known, Room
<1>2. Calm /\ ~InCall BY <1>1 DEF Calm, InCall
<1>3. st \in Ended /\ wr \in Ended /\ fin \in Ended /\ ~obsActive
  BY ThreadNames, PlacesKnown DEF Known, Room, st, wr, fin, Ended
<1>4. Parts BY <1>2 DEF Safe
<1>5. ~dataActive /\ hooked = {} /\ ~stopEvent /\ ~destroying
  BY <1>3, <1>4 DEF Parts, Capturing, Finishing, Telling, Hooked, Ended, Loop,
     Waiting, Known, TypeOK, Values
<1>6. data = 0
  BY <1>3, <1>4, <1>5 DEF Parts, Filing, Ended, Going, Past
<1>7. Empty /\ ~writeActive
  BY <1>2, <1>3, <1>4, <1>6 DEF Parts, Filing, Stopped
<1> QED BY <1>2, <1>3, <1>4, <1>5, <1>6, <1>7

LEMMA UserParts ==
  ASSUME Known, Stamped, Parts, Calm', UserStep
  PROVE  Parts'
<1> USE DEF Ended, Loop, Past, EC, Opening, Going, Starting, Begun, Stops,
    Waiting, Hooked, Parts, Capturing, Filing, Finishing, Stopped, Telling,
    Move, output, plugin, stopAt, writer, file, calls, user, counts, Back
<1>0. /\ st \in StartLabels /\ wr \in WriteLabels /\ usr \in UserLabels
      /\ fin \in EndLabels /\ back \in {"idle", "destroyWait", "freed"}
      /\ (st \in Opening \cup {"none", "signalStopped"} => wr = "none")
      /\ (active <=> (st \in {"canBegin", "spawnWrite"} \/ wr \notin Ended))
      /\ (st \notin Ended => connecting \/ usr = "setConnecting")
  BY PlacesKnown DEF Known, Paired
<1>1. CASE FfmpegStart
  <2>1. Safe BY DEF Safe
  <2>2. /\ data = 0 /\ Empty /\ ~dataActive /\ ~obsActive /\ hooked = {}
        /\ ~stopEvent /\ ~writeActive /\ ~destroying /\ ~InCall
    BY <1>1, <2>1, FreshStart, FfmpegStartView
  <2>3. UNCHANGED <<data, packets, raw, dataActive, obsActive, hooked, stopEvent,
                    writeActive, destroying, races, stoppingEvent, closed>>
        /\ stoppingEvent
    BY <1>1 DEF FfmpegStart
  <2>4. /\ usr' = "setConnecting" /\ st' = "open" /\ wr' = "none"
        /\ UNCHANGED <<fin, back>> /\ fin \in Ended /\ usr = "waitStopped"
        /\ starts' = starts + 1 /\ wret' = "wait"
    BY <1>1, FfmpegStartView
  <2>5. ~Filed' BY <2>3, <2>4, PlacesKnown DEF Stamped, Filed
  <2>6. UNCHANGED detached BY <1>1 DEF FfmpegStart
  <2> HIDE <1>1
  <2> QED BY <1>0, <2>2, <2>3, <2>4, <2>5, <2>6, Kept
<1>2. CASE StartRefused BY <1>0, <1>2, UserView, Kept DEF StartRefused
<1>3. CASE SetConnecting BY <1>0, <1>3, UserView, Kept DEF SetConnecting
<1>4. CASE ResetStoppingEvent
  <2>1. /\ usr = "resetEvent"
        /\ usr' = (IF stoppingEvent \/ forced THEN "pluginStop" ELSE Back)
        /\ UNCHANGED <<st, wr, wret, fin, back, starts>>
    BY <1>4, UserView
  <2>2. /\ (InCall' <=> InCall)
        /\ usr' = "pluginStop" => dataActive /\ wr # "endCapture"
    BY <1>4, <2>1, ThreadNames, PlacesKnown
    DEF ResetStoppingEvent, Race, InCall, Ending, Calm
  <2> QED BY <1>0, <1>4, <2>1, <2>2, Kept DEF ResetStoppingEvent
<1>5. CASE StopNow
  <2>1. /\ usr = "pluginStop" /\ usr' = (IF active THEN "endCapture" ELSE Back)
        /\ back' = (IF active THEN Back ELSE "idle")
        /\ UNCHANGED <<st, wr, wret, fin, starts>>
    BY <1>5, UserView
  <2>2. (InCall' <=> InCall) /\ st \notin Starting
    BY <1>5, <2>1, PlacesKnown DEF StopNow, Race, InCall, Unset, Calm
  <2> QED BY <1>0, <1>5, <2>1, <2>2, Kept DEF StopNow
<1>6. CASE StopLater
  <2>1. Capturing' BY <1>0, <1>6, UserView, Kept DEF StopLater
  <2>2. Filing' BY <1>0, <1>6, UserView, Kept DEF StopLater
  <2>3. Finishing' BY <1>0, <1>6, UserView, Kept DEF StopLater
  <2>4. Stopped' BY <1>0, <1>6, UserView, Kept DEF StopLater
  <2>5. Telling' BY <1>0, <1>6, UserView, Kept DEF StopLater
  <2> HIDE DEF Capturing, Filing, Finishing, Stopped, Telling
  <2> QED BY <2>1, <2>2, <2>3, <2>4, <2>5
<1>7. CASE SetStopTs BY <1>0, <1>7, UserView, Kept DEF SetStopTs
<1>8. CASE DestroyWait BY <1>0, <1>8, UserView, Kept DEF DestroyWait
<1>9. CASE DestroyJoin BY <1>0, <1>9, UserView, Kept DEF DestroyJoin
<1>10. CASE DestroyStop
  <2>1. /\ usr = "destroyStop" /\ usr' = (IF active THEN "endCapture" ELSE "freed")
        /\ back' = "freed" /\ UNCHANGED <<st, wr, wret, fin, starts>>
    BY <1>10, UserView
  <2>2. (InCall' <=> InCall) /\ wr \notin EC
    BY <1>10, <2>1, ThreadNames, PlacesKnown DEF DestroyStop, Race, InCall,
       Ending, Calm
  <2> QED BY <1>0, <1>10, <2>1, <2>2, Kept DEF DestroyStop
<1> QED BY <1>1, <1>2, <1>3, <1>4, <1>5, <1>6, <1>7, <1>8, <1>9, <1>10
           DEF UserStep

LEMMA OtherParts ==
  ASSUME Known, Stamped, Parts, Calm',
         \/ UserStart \/ UserDestroy \/ \E force \in BOOLEAN : UserStop(force)
         \/ \E s \in Sources : RawStep(s)
         \/ UNCHANGED vars
  PROVE  Parts'
<1> USE DEF Ended, Loop, Past, EC, Opening, Going, Starting, Begun, Stops,
    Waiting, Hooked, Parts, Capturing, Filing, Finishing, Stopped, Telling,
    Move, output, plugin, stopAt, writer, file, calls, user, counts
<1>0. /\ st \in StartLabels /\ wr \in WriteLabels /\ fin \in EndLabels
      /\ UNCHANGED <<st, wr, wret, fin, back, starts>>
      /\ (st \in Opening \cup {"none", "signalStopped"} => wr = "none")
  BY PlacesKnown, OtherView DEF Known, Paired
<1>1. CASE UserStart BY <1>0, <1>1, OtherView, Kept DEF UserStart
<1>2. CASE UserDestroy
  BY <1>0, <1>2, OtherView, Kept DEF UserDestroy, StartLabels
<1>3. ASSUME NEW force \in BOOLEAN, UserStop(force) PROVE Parts'
  BY <1>0, <1>3, OtherView, Kept DEF UserStop, StartLabels
<1>4. ASSUME NEW s \in Sources, RawStep(s) PROVE Parts'
  <2>0. UNCHANGED usr BY <1>4, OtherView
  <2>1. CASE RawEnter(s)
    <3>1. /\ Held' /\ dataActive /\ data # 0
          /\ UNCHANGED <<races, closed>>
      BY <2>1 DEF RawEnter, Held, Known, TypeOK, Values
    <3> QED BY <1>0, <2>1, <3>1, <2>0, Kept DEF RawEnter
  <2>2. CASE RawNothing(s)
    <3>1. Held' /\ (Empty => Empty')
      BY <2>2 DEF RawNothing, Held, Empty, Known, TypeOK, Values
    <3> QED BY <1>0, <2>2, <3>1, <2>0, Kept DEF RawNothing
  <2>3. CASE RawPacket(s)
    <3>1. Held' /\ ~Empty
      BY <2>3 DEF RawPacket, Held, Empty, Known, TypeOK, Values
    <3> QED BY <1>0, <2>3, <3>1, <2>0, Kept DEF RawPacket
  <2> QED BY <1>4, <2>1, <2>2, <2>3 DEF RawStep
<1>5. CASE UNCHANGED vars BY <1>0, <1>5, OtherView, Kept DEF vars
<1> QED BY <1>1, <1>2, <1>3, <1>4, <1>5

LEMMA SafeStep ==
  ASSUME Known, Stamped, Safe, [Next]_vars
  PROVE  Safe'
<1> SUFFICES ASSUME Calm' PROVE Parts' BY DEF Safe
<1>1. Calm BY RacesGrow DEF Calm, Known
<1>2. Parts BY <1>1 DEF Safe
<1>3. ASSUME NEW g \in Starts, StartStep(g) \/ WriteStep(g) PROVE Parts'
  BY <1>2, <1>3, StartParts, WriteParts
<1>4. ASSUME NEW t \in Threads, EndCaptureStep(t) PROVE Parts'
  BY <1>2, <1>4, EndCaptureParts
<1> QED BY <1>2, <1>3, <1>4, EndParts, UserParts, OtherParts DEF Next

-----------------------------------------------------------------------------
(* The packets: whose they are, and in which order.                        *)

LEMMA TailAt ==
  ASSUME NEW P, NEW s \in Seq(P), s # <<>>
  PROVE  /\ Head(s) = s[1] /\ 1 \in DOMAIN s
         /\ \A i \in DOMAIN Tail(s) : /\ i \in Nat \ {0} /\ i + 1 \in DOMAIN s
                                      /\ Tail(s)[i] = s[i + 1]
OBVIOUS

LEMMA AppendAt ==
  ASSUME NEW P, NEW s \in Seq(P), NEW e \in P
  PROVE  \A i \in DOMAIN Append(s, e) :
           \/ i \in DOMAIN s /\ Append(s, e)[i] = s[i]
           \/ i \notin DOMAIN s /\ i = Len(s) + 1 /\ Append(s, e)[i] = e
OBVIOUS

\* A packet of the queue.
Packet == [of : 0 .. MaxStarts, before : BOOLEAN]

LEMMA Queue == TypeOK => packets \in Seq(Packet)
BY DEF TypeOK, Values, Packet

(* The steps that leave the packets alone.                                 *)
LEMMA StampsKept ==
  ASSUME Stamped, UNCHANGED <<raw, packets, starts>>,
         closed' \subseteq closed \cup ({data} \ {0}),
         data' \in {0, data, starts},
         wr' = "write" => wr = "write" /\ UNCHANGED hand,
         TypeOK
  PROVE  Stamped'
BY DEF Stamped, TypeOK, Values

LEMMA StampedStep ==
  ASSUME Known, Safe, Stamped, [Next]_vars
  PROVE  Stamped'
<1> USE DEF Move, output, plugin, stopAt, writer, file, calls, user, counts
<1>0. TypeOK BY DEF Known
<1>1. ASSUME NEW g \in Starts, StartStep(g) PROVE Stamped'
  <2>1. CASE SpawnWrite(g)
    BY <1>0, <1>1, <2>1, StartView, StampsKept DEF SpawnWrite
  <2>2. CASE ~SpawnWrite(g)
    <3>1. /\ UNCHANGED <<raw, packets, starts, closed, hand, wr>>
          /\ data' \in {0, data, starts}
      BY <1>1, <2>2, StartView DEF StartStep, OpenFile, SetActive, CanBegin,
         BeginCapture, Activate, SignalStart, SetWriteActive, ClearConnecting
    <3> QED BY <1>0, <3>1, StampsKept
  <2> QED BY <2>1, <2>2
<1>2. ASSUME NEW g \in Starts, WriteStep(g) PROVE Stamped'
  <2>1. CASE TakeToWrite(g) \/ TakeLast(g)
    <3>1. /\ packets # <<>> /\ packets' = Tail(packets)
          /\ UNCHANGED <<data, closed, raw, starts>>
      BY <2>1 DEF TakeToWrite, TakeLast, Take
    <3>2. packets \in Seq(Packet) BY <1>0, Queue
    <3>3. /\ Head(packets).of = starts
          /\ \A i \in DOMAIN packets' : packets'[i].of = starts
      BY <3>1, <3>2, TailAt DEF Stamped
    <3>4. g = starts /\ (TakeLast(g) => wr' # "write")
      BY <1>2, WriteView
    <3>5. wr' = "write" => hand'[starts'] = starts'
      BY <1>0, <2>1, <3>1, <3>3, <3>4 DEF TakeToWrite, TypeOK, Values
    <3> QED BY <3>1, <3>3, <3>5 DEF Stamped
  <2>2. CASE SemWait(g) \/ CheckEvent(g) \/ TookNothing(g) \/ WriteFrame(g)
             \/ WriteFails(g) \/ Leave(g)
    <3>1. UNCHANGED <<raw, packets, starts, closed, data>>
      BY <2>2 DEF SemWait, CheckEvent, TookNothing, WriteFrame, WriteFails,
         Leave
    <3>2. wr' # "write" BY <1>2, <2>2, WriteView
    <3> QED BY <1>0, <3>1, <3>2, StampsKept
  <2> QED BY <1>2, <2>1, <2>2 DEF WriteStep
<1>3. ASSUME NEW t \in Threads, EndCaptureStep(t) PROVE Stamped'
  <2>1. /\ UNCHANGED <<raw, hand, starts>>
        /\ closed' \subseteq closed \cup ({data} \ {0}) /\ data' \in {0, data}
        /\ packets' \in {packets, <<>>}
    BY EndCaptureMoves, <1>3 DEF EndMove, EndsCapture, Signals, OnlySignals,
       Wakes, Joins, Closes, Forgets
  <2>2. wr' = "write" => wr = "write"
    BY <1>3, EndCaptureView, PlacesKnown DEF EndMove, EndsCapture, Signals,
       OnlySignals, Wakes, Joins, Closes, Forgets
  <2>3. CASE UNCHANGED packets BY <1>0, <2>1, <2>2, <2>3, StampsKept
  <2>4. CASE packets' = <<>>
    <3>1. \A i \in DOMAIN packets' : packets'[i].of = starts' BY <2>4
    <3>2. \A g \in closed' : g =< starts'
      BY <1>0, <2>1 DEF Stamped, TypeOK, Values
    <3> QED BY <2>1, <2>2, <3>1, <3>2 DEF Stamped
  <2> QED BY <2>1, <2>3, <2>4
<1>4. ASSUME EndStep PROVE Stamped'
  <2>1. UNCHANGED <<raw, packets, starts, closed, data, hand, wr>>
    BY <1>4, EndView DEF EndStep, Unhook, ClearActive, SignalEnded, ClearEnding
  <2> QED BY <1>0, <2>1, StampsKept
<1>5. ASSUME UserStep PROVE Stamped'
  <2>1. CASE FfmpegStart
    <3>1. data = 0 /\ Empty BY <2>1, FreshStart DEF FfmpegStart, At, usr
    <3>2. /\ starts' = starts + 1 /\ wr' = "none"
          /\ UNCHANGED <<raw, packets, closed, data>>
      BY <2>1, FfmpegStartView DEF FfmpegStart
    <3>3. \A g \in closed : g \in Nat /\ g =< starts
      BY <1>0 DEF Stamped, TypeOK, Values, Starts
    <3> QED BY <1>0, <3>1, <3>2, <3>3 DEF Stamped, Empty, TypeOK, Values
  <2>2. CASE ~FfmpegStart
    <3>1. UNCHANGED <<raw, packets, starts, closed, data, hand, wr>>
      BY <1>5, <2>2, UserView DEF UserStep, StartRefused, SetConnecting,
         ResetStoppingEvent, StopNow, StopLater, SetStopTs, DestroyWait,
         DestroyJoin, DestroyStop
    <3> QED BY <1>0, <3>1, StampsKept
  <2> QED BY <2>1, <2>2
<1>6. ASSUME \/ UserStart \/ UserDestroy \/ \E force \in BOOLEAN : UserStop(force)
             \/ UNCHANGED vars
      PROVE  Stamped'
  <2>1. UNCHANGED <<raw, packets, starts, closed, data, hand, wr>>
    BY <1>6, OtherView DEF UserStart, UserDestroy, UserStop, vars
  <2> QED BY <1>0, <2>1, StampsKept
<1>7. ASSUME NEW s \in Sources, RawStep(s) PROVE Stamped'
  <2>1. UNCHANGED <<starts, closed, data, hand, wr>>
    BY <1>7, OtherView DEF RawStep, RawEnter, RawNothing, RawPacket
  <2>2. \A x \in Sources : raw'[x] \in {0, starts}
    BY <1>0, <1>7 DEF RawStep, RawEnter, RawNothing, RawPacket, Stamped, TypeOK,
       Values
  <2>3. \A i \in DOMAIN packets' : packets'[i].of = starts
    <3>1. CASE RawPacket(s)
      <4> DEFINE e == [of |-> raw[s], before |-> ~asked]
      <4>1. e.of = starts BY <3>1 DEF RawPacket, Stamped
      <4>2. e \in Packet
        BY <1>0, (~asked) \in BOOLEAN DEF Packet, TypeOK, Values
      <4>3. packets' = Append(packets, e) BY <3>1 DEF RawPacket
      <4>4. packets \in Seq(Packet) BY <1>0, Queue
      <4> HIDE DEF e
      <4> QED BY <4>1, <4>2, <4>3, <4>4, AppendAt DEF Stamped
    <3>2. CASE UNCHANGED packets BY <3>2 DEF Stamped
    <3> QED BY <1>7, <3>1, <3>2 DEF RawStep, RawEnter, RawNothing
  <2> QED BY <2>1, <2>2, <2>3 DEF Stamped
<1> QED BY <1>1, <1>2, <1>3, <1>4, <1>5, <1>6, <1>7 DEF Next

(* The steps that leave the order alone.                                   *)
LEMMA SortsKept ==
  ASSUME Sorted, UNCHANGED packets, asked => asked', races \subseteq races',
         wr' \in EC /\ wret' = "wait" => wr \in EC /\ wret = "wait"
  PROVE  Sorted'
BY DEF Sorted

LEMMA SortedStep ==
  ASSUME Known, Safe, Stamped, Sorted, [Next]_vars
  PROVE  Sorted'
<1> USE DEF Move, output, plugin, stopAt, writer, file, calls, user, counts
<1>0. TypeOK /\ races \subseteq races' BY RacesGrow DEF Known
<1>1. ASSUME NEW g \in Starts, StartStep(g) PROVE Sorted'
  <2>1. UNCHANGED <<packets, asked, wret>>
    BY <1>1, StartView DEF StartStep, OpenFile, SetActive, CanBegin, SpawnWrite,
       BeginCapture, Activate, SignalStart, SetWriteActive, ClearConnecting
  <2>2. wr' \in EC => wr \in EC
    BY <1>1, StartView DEF EC, Past
  <2> QED BY <1>0, <2>1, <2>2, SortsKept
<1>2. ASSUME NEW g \in Starts, WriteStep(g) PROVE Sorted'
  <2>1. CASE TakeToWrite(g) \/ TakeLast(g)
    <3>1. packets # <<>> /\ packets' = Tail(packets) /\ UNCHANGED asked
      BY <2>1 DEF TakeToWrite, TakeLast, Take
    <3>2. packets \in Seq(Packet) BY <1>0, Queue
    <3>3. /\ Head(packets) = packets[1] /\ 1 \in DOMAIN packets
          /\ \A i \in DOMAIN packets' : /\ i \in Nat \ {0} /\ i + 1 \in DOMAIN packets
                                        /\ packets'[i] = packets[i + 1]
      BY <3>1, <3>2, TailAt
    <3>4. /\ \A i, j \in DOMAIN packets' :
               i < j /\ packets'[j].before => packets'[i].before
          /\ \A i \in DOMAIN packets' : ~packets'[i].before => asked'
      BY <3>1, <3>3 DEF Sorted
    <3>5. ASSUME wr' \in EC, "hasty" \notin races'
          PROVE  asked' /\ \A i \in DOMAIN packets' : ~packets'[i].before
      <4>1. TakeLast(g) BY <1>2, <2>1, <3>5, WriteView DEF EC, Past
      <4>2. stopTs = starts BY <3>5, <4>1, EndRaces
      <4>3. ~packets[1].before BY <3>3, <4>1, <4>2 DEF TakeLast
      <4> QED BY <3>1, <3>3, <4>3 DEF Sorted
    <3> QED BY <3>4, <3>5 DEF Sorted
  <2>2. CASE SemWait(g) \/ CheckEvent(g) \/ TookNothing(g) \/ WriteFrame(g)
             \/ WriteFails(g) \/ Leave(g)
    <3>1. UNCHANGED <<packets, asked>>
      BY <2>2 DEF SemWait, CheckEvent, TookNothing, WriteFrame, WriteFails,
         Leave
    <3>2. ~(wr' \in EC /\ wret' = "wait") BY <1>2, <2>2, WriteView DEF EC, Past
    <3> QED BY <1>0, <3>1, <3>2, SortsKept
  <2> QED BY <1>2, <2>1, <2>2 DEF WriteStep
<1>3. ASSUME NEW t \in Threads, EndCaptureStep(t) PROVE Sorted'
  <2>1. UNCHANGED asked /\ packets' \in {packets, <<>>}
    BY EndCaptureMoves, <1>3 DEF EndMove, EndsCapture, Signals, OnlySignals,
       Wakes, Joins, Closes, Forgets
  <2>2. wr' \in EC /\ wret' = "wait" => wr \in EC /\ wret = "wait"
    BY <1>3, EndCaptureView, PlacesKnown DEF EndMove, EndsCapture, Signals,
       OnlySignals, Wakes, Joins, Closes, Forgets, EC, Past
  <2>3. CASE UNCHANGED packets BY <1>0, <2>1, <2>2, <2>3, SortsKept
  <2>4. CASE packets' = <<>>
    <3>1. DOMAIN packets' = {} BY <2>4
    <3> QED BY <1>0, <2>1, <2>2, <3>1 DEF Sorted
  <2> QED BY <2>1, <2>3, <2>4
<1>4. ASSUME EndStep PROVE Sorted'
  <2>1. UNCHANGED <<packets, asked, wr, wret>>
    BY <1>4, EndView DEF EndStep, Unhook, ClearActive, SignalEnded, ClearEnding
  <2> QED BY <1>0, <2>1, SortsKept
<1>5. ASSUME UserStep PROVE Sorted'
  <2>1. CASE FfmpegStart
    <3>1. Empty BY <2>1, FreshStart DEF FfmpegStart, At, usr
    <3>2. wr' = "none" /\ UNCHANGED packets
      BY <2>1, FfmpegStartView DEF FfmpegStart
    <3>3. DOMAIN packets' = {} /\ wr' \notin EC
      BY <3>1, <3>2 DEF Empty, EC, Past
    <3> QED BY <3>3 DEF Sorted
  <2>2. CASE ~FfmpegStart
    <3>1. UNCHANGED <<packets, asked, wr, wret>>
      BY <1>5, <2>2, UserView DEF UserStep, StartRefused, SetConnecting,
         ResetStoppingEvent, StopNow, StopLater, SetStopTs, DestroyWait,
         DestroyJoin, DestroyStop
    <3> QED BY <1>0, <3>1, SortsKept
  <2> QED BY <2>1, <2>2
<1>6. ASSUME \/ UserStart \/ UserDestroy \/ \E force \in BOOLEAN : UserStop(force)
             \/ UNCHANGED vars
      PROVE  Sorted'
  <2>1. UNCHANGED <<wr, wret>> BY <1>6, OtherView
  <2>2. UNCHANGED packets /\ (asked => asked')
    BY <1>6 DEF UserStart, UserDestroy, UserStop, vars
  <2> QED BY <1>0, <2>1, <2>2, SortsKept
<1>7. ASSUME NEW s \in Sources, RawStep(s) PROVE Sorted'
  <2>1. UNCHANGED <<asked, wr, wret, races>>
    BY <1>7, OtherView DEF RawStep, RawEnter, RawNothing, RawPacket
  <2>2. CASE RawPacket(s)
    <3> DEFINE e == [of |-> raw[s], before |-> ~asked]
    <3>1. e.before <=> ~asked OBVIOUS
    <3>2. e \in Packet BY <1>0, (~asked) \in BOOLEAN DEF Packet, TypeOK, Values
    <3>3. packets' = Append(packets, e) BY <2>2 DEF RawPacket
    <3>4. packets \in Seq(Packet) BY <1>0, Queue
    <3> HIDE DEF e
    <3>5. \A i \in DOMAIN packets' :
            \/ i \in DOMAIN packets /\ packets'[i] = packets[i]
            \/ i \notin DOMAIN packets /\ i = Len(packets) + 1 /\ packets'[i] = e
      BY <3>2, <3>3, <3>4, AppendAt
    <3>6. \A i, j \in DOMAIN packets' :
            i < j /\ packets'[j].before => packets'[i].before
      <4> SUFFICES ASSUME NEW i \in DOMAIN packets', NEW j \in DOMAIN packets',
                          i < j, packets'[j].before
                   PROVE  packets'[i].before
        OBVIOUS
      <4>1. i \in DOMAIN packets /\ packets'[i] = packets[i]
        <5>1. DOMAIN packets = 1 .. Len(packets) /\ Len(packets) \in Nat BY <3>4
        <5> QED BY <3>5, <5>1
      <4>2. CASE j \in DOMAIN packets BY <3>5, <4>1, <4>2 DEF Sorted
      <4>3. CASE j \notin DOMAIN packets BY <3>1, <3>5, <4>1, <4>3 DEF Sorted
      <4> QED BY <4>2, <4>3
    <3>7. \A i \in DOMAIN packets' : ~packets'[i].before => asked
      BY <3>1, <3>5 DEF Sorted
    <3>8. wr \in EC /\ wret = "wait" /\ "hasty" \notin races =>
            asked /\ \A i \in DOMAIN packets' : ~packets'[i].before
      BY <3>1, <3>5 DEF Sorted
    <3> QED BY <2>1, <3>6, <3>7, <3>8 DEF Sorted
  <2>3. CASE UNCHANGED packets BY <1>0, <2>1, <2>3, SortsKept
  <2> QED BY <1>7, <2>2, <2>3 DEF RawStep, RawEnter, RawNothing
<1> QED BY <1>1, <1>2, <1>3, <1>4, <1>5, <1>6, <1>7 DEF Next

-----------------------------------------------------------------------------
(* The invariant, and the properties that follow from it.                  *)

IInv == Known /\ Stamped /\ Sorted /\ Safe

LEMMA StartsWell == Init => IInv
<1> SUFFICES ASSUME Init PROVE IInv OBVIOUS
<1> USE ThreadNames DEF Init
<1>1. TypeOK BY StartType
<1>2. /\ st = "none" /\ wr = "none" /\ wret = "wait"
      /\ usr = "idle" /\ fin = "none" /\ back = "idle"
  BY DEF st, wr, wret, usr, fin, back
<1>3. Room BY <1>2 DEF Room
<1>4. Lone BY DEF Lone, Ended
<1>5. Paired BY <1>2 DEF Paired, Ended, Opening, Going, Starting, EC, Past
<1>6. Stamped BY <1>2 DEF Stamped
<1>7. Sorted
  <2>1. DOMAIN packets = {} /\ wr \notin EC BY <1>2 DEF EC, Past
  <2> QED BY <2>1 DEF Sorted
<1>8. Empty /\ Held /\ ~Filed BY DEF Empty, Held, Filed
<1>9. Capturing
  BY <1>2, <1>8 DEF Capturing, Ended, Opening, Starting, Hooked
<1>10. Filing
  BY <1>2, <1>8 DEF Filing, Ended, Going, Starting, Past
<1>11. Finishing BY <1>2 DEF Finishing, Ended, EC, Past, Loop
<1>12. Stopped BY <1>2 DEF Stopped, EC, Past, Begun
<1>13. Telling BY <1>2 DEF Telling, Waiting, Stops, EC, Past
<1> QED BY <1>1, <1>3, <1>4, <1>5, <1>6, <1>7, <1>9, <1>10, <1>11, <1>12, <1>13
    DEF IInv, Known, Safe, Parts

LEMMA StepsWell == IInv /\ [Next]_vars => IInv'
BY KnownStep, StampedStep, SortedStep, SafeStep DEF IInv

LEMMA Always == Spec => []IInv
BY StartsWell, StepsWell, PTL DEF Spec

(* Every variable keeps its type and every thread is at a place of its own  *)
(* program.                                                                *)
THEOREM FFmpegTypes == Spec => []TypeOK
<1>1. IInv => TypeOK BY DEF IInv, Known
<1> QED BY <1>1, Always, PTL

\* Who closes the file or writes to it: the user thread or the write thread
\* of the last recording.
LEMMA WhoCloses ==
  ASSUME Known, NEW t \in Threads
  PROVE  /\ Closing(t) =>
              \/ t = User /\ usr \in {"trailer", "clear"}
              \/ t = Write(starts) /\ starts \in Starts /\ wr \in {"trailer", "clear"}
         /\ At(t, "write") => t = Write(starts) /\ starts \in Starts /\ wr = "write"
         /\ At(t, "trailer") => \/ t = User /\ usr = "trailer"
                                \/ t = Write(starts) /\ wr = "trailer"
<1> USE ThreadNames, PlacesKnown DEF Known, TypeOK, PlacesOK, Closing, At, Ended
<1>1. \/ t = User /\ pc[t] = usr
      \/ t = End /\ pc[t] = fin
      \/ \E g \in Starts : t = Start(g) /\ pc[t] \in StartLabels
      \/ \E g \in Starts : /\ t = Write(g)
                           /\ pc[t] \in Ended \/ (g = starts /\ pc[t] = wr)
  BY DEF usr, fin
<1>2. usr # "write" /\ fin \notin {"write", "trailer", "clear"}
  BY DEF UserLabels, Waiting, Stops, EC, Past, EndLabels
<1>3. {"write", "trailer", "clear"} \cap StartLabels = {}
  BY DEF StartLabels, Opening, Going, Starting, Begun
<1> QED BY <1>1, <1>2, <1>3

(* A recording's file gets the packets encoded for it and only those, from  *)
(* one thread at a time, and its trailer once, after the last of them: the  *)
(* threads that write packets, stop, and close the file never meet.        *)
THEOREM FilesStayIntact == Spec => []FileIntact
<1>1. IInv => FileIntact
  <2> SUFFICES ASSUME IInv, Without({"early", "overlap"})
               PROVE  /\ \A g \in Starts :
                           At(Write(g), "write") => hand[g] = data /\ data \notin closed
                      /\ \A t, u \in Threads :
                           Closing(t) /\ t # u => ~Closing(u) /\ ~At(u, "write")
                      /\ \A t \in Threads : At(t, "trailer") => data \notin closed
    BY DEF FileIntact
  <2>1. Filing /\ Finishing /\ Stopped BY DEF IInv, Safe, Parts, Calm, Without
  <2>2. wr \in {"trailer", "clear"} => usr \notin {"trailer", "clear"}
    BY <2>1 DEF Finishing, EC, Past
  <2>3. wr = "write" => data # 0 /\ usr \notin {"trailer", "clear"}
    BY <2>1 DEF Filing, Stopped, Ended
  <2>4. data # 0 => data = starts BY DEF IInv, Stamped
  <2>5. 0 \notin closed BY DEF IInv, Known, TypeOK, Values, Starts
  <2>6. Filed => data = 0 \/ usr = "clear" \/ wr = "clear" BY <2>1 DEF Filing
  <2>7. usr = "clear" /\ data # 0 => wr = "done" BY <2>1 DEF Stopped
  <2>8. wr = "write" \/ usr = "trailer" \/ wr = "trailer" => data \notin closed
    BY <2>2, <2>3, <2>4, <2>5, <2>6, <2>7 DEF Filed
  <2>9. ASSUME NEW g \in Starts, At(Write(g), "write")
        PROVE  hand[g] = data /\ data \notin closed
    <3>1. g = starts /\ wr = "write"
      BY <2>9, WhoCloses, ThreadNames DEF IInv
    <3> QED BY <2>3, <2>4, <2>8, <3>1 DEF IInv, Stamped
  <2>10. \A t, u \in Threads : Closing(t) /\ t # u => ~Closing(u) /\ ~At(u, "write")
    BY <2>2, <2>3, WhoCloses DEF IInv
  <2>11. \A t \in Threads : At(t, "trailer") => data \notin closed
    BY <2>8, WhoCloses DEF IInv
  <2> QED BY <2>9, <2>10, <2>11
<1> QED BY <1>1, Always, PTL

(* A stop at a timestamp drops nothing that was encoded before it: when the *)
(* write thread closes the file, no packet in front of the stop is left in  *)
(* the queue.                                                              *)
THEOREM StopCutsNothing == Spec => []NothingCut
<1>1. IInv => NothingCut
  <2> SUFFICES ASSUME IInv, Without({"hasty"}), NEW t \in Writers,
                      At(t, "trailer"), ret[t] = "wait"
               PROVE  \A i \in DOMAIN packets : ~packets[i].before
    BY DEF NothingCut
  <2>1. t = Write(starts) /\ starts \in Starts /\ wr = "trailer"
    BY ThreadNames, WhoCloses DEF IInv, Closing, At
  <2>2. wret = "wait" BY <2>1 DEF wret, Starts
  <2> QED BY <2>1, <2>2 DEF IInv, Sorted, Without, EC, Past
<1> QED BY <1>1, Always, PTL

(* After a recording everything is ready for the next one: the events, the  *)
(* flags and what the client believes are back where a start needs them.   *)
THEOREM RestartsFresh == Spec => []Restartable
<1>1. IInv => Restartable
  <2> SUFFICES ASSUME IInv, AtRest, Without({"lateConnecting", "early", "overlap"})
               PROVE  /\ stoppingEvent /\ ~connecting /\ ~stopEvent
                      /\ ~active /\ ~writeActive /\ data = 0
                      /\ At(User, "idle") => client = "idle"
    BY DEF Restartable
  <2>1. Parts /\ Paired BY DEF IInv, Known, Safe, Calm, Without
  <2>2. st \in Ended /\ wr \in Ended /\ fin \in Ended /\ usr \in {"idle", "freed"}
    BY ThreadNames, PlacesKnown
    DEF IInv, AtRest, Settled, Running, Ended, st, wr, fin, usr
  <2>3. ~dataActive
    BY <2>1, <2>2 DEF Parts, Capturing, Ended, Loop
  <2>4. stoppingEvent BY <2>1, <2>2, <2>3 DEF Parts, Capturing, Hooked, Ended
  <2>5. ~connecting /\ ~active BY <2>1, <2>2 DEF Paired, Without, Ended
  <2>6. ~stopEvent BY <2>1, <2>2 DEF Parts, Finishing
  <2>7. ~writeActive
    BY <2>1, <2>2 DEF Parts, Stopped, Ended, Loop, EC, Past
  <2>8. data = 0 BY <2>1, <2>2, <2>3 DEF Parts, Filing, Ended, Going, Past
  <2>9. At(User, "idle") => client = "idle"
    BY <2>1, <2>2, <2>3 DEF Parts, Telling, At, usr, Waiting, Ended, Opening,
       Going
  <2> QED BY <2>4, <2>5, <2>6, <2>7, <2>8, <2>9
<1> QED BY <1>1, Always, PTL

-----------------------------------------------------------------------------
(* The refinement: what the recording shows of its life, from the five      *)
(* places.                                                                 *)

Under == Opening \cup Going

\* A behaviour without the races that ImplementsOutputLife leaves out, as far
\* as the destruction of the output.
Quiet == Known /\ Parts /\ Calm /\ ~destroying

Phase == IF obsActive /\ ~ending THEN IF stoppingEvent THEN "active" ELSE "stopping"
         ELSE IF st \in Under THEN "connecting" ELSE "idle"
Owed == wr = "signalStopped" \/ usr = "signalStopped"

LEMMA LifeView == Quiet =>
  /\ LifePhase = Phase
  /\ LifeEnding <=> Hooked
  /\ LifeOwed <=> Owed
<1> SUFFICES ASSUME Quiet
             PROVE  /\ (\E g \in Starts : Running(Start(g)) /\ ~Over(g))
                          <=> st \in Under
                    /\ (\E t \in Threads : At(t, "signalStopped")) <=> Owed
  BY DEF LifePhase, Phase, LifeEnding, Hooked, LifeOwed, fin
<1> USE ThreadNames, PlacesKnown DEF Quiet
<1>1. st # "signalStopped" BY DEF Parts, Capturing
<1>2. st \in Under <=> st \notin Ended \cup {"signalStart", "setWrite", "connected"}
  BY <1>1 DEF StartLabels, Under, Ended, Opening, Going, Starting, Begun
<1>3. (\E g \in Starts : Running(Start(g)) /\ ~Over(g)) <=> st \in Under
  BY <1>2 DEF Running, Over, Ended
<1>4. Owed => \E t \in Threads : At(t, "signalStopped") BY DEF Owed, At, usr
<1>5. ASSUME NEW t \in Threads, At(t, "signalStopped") PROVE Owed
  <2>1. CASE t = User BY <1>5, <2>1 DEF At, Owed, usr
  <2>2. CASE t = End BY <1>5, <2>2 DEF At, fin, EndLabels, Ended
  <2>3. ASSUME NEW g \in Starts, t = Start(g) PROVE Owed
    BY <1>1, <1>5, <2>3 DEF At, Ended
  <2>4. ASSUME NEW g \in Starts, t = Write(g) PROVE Owed
    BY <1>5, <2>4 DEF At, Ended, Owed
  <2> QED BY <2>1, <2>2, <2>3, <2>4
<1> QED BY <1>3, <1>4, <1>5

(* What a step does to these places and flags is a step of OutputLife.     *)
Same == UNCHANGED <<Phase, Hooked, Owed>>
LifeStep ==
  \/ Same
  \/ Phase = "idle" /\ ~Hooked /\ Phase' = "connecting" /\ UNCHANGED <<Hooked, Owed>>
  \/ Phase = "connecting" /\ Phase' \in {"active", "idle"} /\ UNCHANGED <<Hooked, Owed>>
  \/ Phase = "active" /\ Phase' = "stopping" /\ UNCHANGED <<Hooked, Owed>>
  \/ Phase \in {"active", "stopping"} /\ Phase' = "idle" /\ Hooked' /\ Owed'
  \/ Hooked /\ ~Hooked' /\ UNCHANGED <<Phase, Owed>>
  \/ Owed /\ ~Owed' /\ UNCHANGED <<Phase, Hooked>>

LEMMA LifeStart ==
  ASSUME Quiet, Quiet', NEW g \in Starts, StartStep(g)
  PROVE  LifeStep
<1> USE DEF Quiet, Under, Opening, Going, Phase, Hooked, Owed, Same, LifeStep
<1>0. UNCHANGED <<fin, usr, ending, stoppingEvent>>
  BY StartView DEF Move, output, StartStep, OpenFile, SetActive, CanBegin,
     SpawnWrite, BeginCapture, Activate, SignalStart, SetWriteActive,
     ClearConnecting
<1>1. CASE Activate(g)
  <2>1. st = "activate" /\ st' = "signalStart" /\ obsActive' /\ UNCHANGED wr
    BY <1>1, StartView DEF Activate
  <2>2. ~obsActive /\ fin \in Ended /\ stoppingEvent
    BY <2>1 DEF Parts, Capturing
  <2>3. ~ending BY <2>2 DEF Known, Paired
  <2> QED BY <1>0, <2>1, <2>2, <2>3
<1>2. CASE ~Activate(g)
  <2>1. UNCHANGED obsActive
    BY <1>2 DEF Move, output, StartStep, OpenFile, SetActive, CanBegin,
       SpawnWrite, BeginCapture, SignalStart, SetWriteActive, ClearConnecting
  <2>2. st' \in Under <=> st \in Under
    BY <1>2, StartView DEF StartStep
  <2>3. SpawnWrite(g) => st = "spawnWrite" /\ wr' = "wait" BY StartView
  <2>4. st = "spawnWrite" => wr # "signalStopped" BY DEF Known, Paired
  <2>5. UNCHANGED Owed BY <1>0, <2>3, <2>4, StartView
  <2> QED BY <1>0, <2>1, <2>2, <2>5
<1> QED BY <1>1, <1>2

LEMMA LifeWrite ==
  ASSUME Quiet, Quiet', NEW g \in Starts, WriteStep(g)
  PROVE  LifeStep
<1>1. UNCHANGED <<st, usr, fin, obsActive, ending, stoppingEvent>>
  BY WriteView DEF Quiet, Move, Take, output, WriteStep, SemWait, CheckEvent,
     TakeToWrite, TakeLast, TookNothing, WriteFrame, WriteFails, Leave
<1>2. wr # "signalStopped" /\ wr' # "signalStopped"
  BY WriteView DEF Quiet, WriteStep
<1> QED BY <1>1, <1>2 DEF Phase, Hooked, Owed, Same, LifeStep

(* The end of a recording that captures, as OutputLife sees it.            *)
LEMMA EndingLife ==
  ASSUME NEW p, NEW q, NEW k, NEW l, EndMove(p, q, k, l, "deactivate"),
         st \notin Under, UNCHANGED st, ending <=> fin \notin Ended,
         p = "endCapture" => dataActive /\ obsActive, k # "signalStopped"
  PROVE  \/ /\ UNCHANGED <<Phase, Hooked>>
            /\ p # "signalStopped" /\ q # "signalStopped"
         \/ /\ Phase \in {"active", "stopping"} /\ Phase' = "idle" /\ Hooked'
            /\ q = "signalStopped"
         \/ /\ UNCHANGED <<Phase, Hooked>>
            /\ p = "signalStopped" /\ q # "signalStopped"
<1>1. CASE EndsCapture(p, q)
  BY <1>1 DEF EndMove, EndsCapture, Phase, Hooked, Ended
<1>2. CASE ~EndsCapture(p, q)
  <2>1. UNCHANGED <<obsActive, ending, stoppingEvent, fin>>
    BY <1>2 DEF EndMove, Signals, OnlySignals, Wakes, Joins, Closes, Forgets
  <2>2. \/ p # "signalStopped" /\ q # "signalStopped"
        \/ p = "signalStopped" /\ q # "signalStopped"
    BY <1>2 DEF EndMove, Signals, OnlySignals, Wakes, Joins, Closes, Forgets
  <2> QED BY <2>1, <2>2 DEF Phase, Hooked
<1> QED BY <1>1, <1>2

LEMMA LifeEndCapture ==
  ASSUME Quiet, Quiet', NEW t \in Threads, EndCaptureStep(t)
  PROVE  LifeStep
<1> USE PlacesKnown DEF Quiet
<1>0. ending <=> fin \notin Ended BY DEF Known, Paired
<1>1. CASE /\ usr \in EC /\ UNCHANGED <<st, wr>>
           /\ EndMove(usr, usr', back, back', "deactivate")
  <2>1. /\ st \in Begun \cup {"none"} /\ wr \notin EC
        /\ usr = "endCapture" => dataActive
    BY <1>1 DEF Parts, Stopped, Finishing, Telling
  <2>2. dataActive => obsActive BY <2>1 DEF Parts, Capturing, Begun
  <2>3. st \notin Under /\ wr # "signalStopped" /\ back # "signalStopped"
    BY <2>1 DEF Under, Opening, Going, Begun, EC, Past
  <2>4. \/ /\ UNCHANGED <<Phase, Hooked>>
           /\ usr # "signalStopped" /\ usr' # "signalStopped"
        \/ /\ Phase \in {"active", "stopping"} /\ Phase' = "idle" /\ Hooked'
           /\ usr' = "signalStopped"
        \/ /\ UNCHANGED <<Phase, Hooked>>
           /\ usr = "signalStopped" /\ usr' # "signalStopped"
    BY <1>0, <1>1, <2>1, <2>2, <2>3, EndingLife
  <2> QED BY <1>1, <2>3, <2>4 DEF Owed, Same, LifeStep
<1>2. CASE /\ wr \in EC /\ UNCHANGED <<st, usr>>
           /\ EndMove(wr, wr', wret, wret', "deactivate")
  <2>1. /\ st \in Begun /\ usr \notin EC
        /\ wr = "endCapture" => dataActive
    BY <1>2 DEF Parts, Finishing
  <2>2. dataActive => obsActive BY <2>1 DEF Parts, Capturing, Begun
  <2>3. st \notin Under /\ usr # "signalStopped" /\ wret # "signalStopped"
    BY <2>1 DEF Under, Opening, Going, Begun, EC, Past
  <2>4. \/ /\ UNCHANGED <<Phase, Hooked>>
           /\ wr # "signalStopped" /\ wr' # "signalStopped"
        \/ /\ Phase \in {"active", "stopping"} /\ Phase' = "idle" /\ Hooked'
           /\ wr' = "signalStopped"
        \/ /\ UNCHANGED <<Phase, Hooked>>
           /\ wr = "signalStopped" /\ wr' # "signalStopped"
    BY <1>0, <1>2, <2>1, <2>2, <2>3, EndingLife
  <2> QED BY <1>2, <2>3, <2>4 DEF Owed, Same, LifeStep
<1>3. CASE /\ st \in {"endCapture", "signalStopped"} /\ UNCHANGED <<wr, usr>>
           /\ EndMove(st, st', "wait", "wait", "connected")
  <2>1. st = "endCapture" /\ ~obsActive
    BY <1>3 DEF Parts, Capturing, Opening
  <2>2. st' = "connected" /\ UNCHANGED <<obsActive, ending, fin>>
    BY <1>3, <2>1 DEF EndMove, EndsCapture, Signals, OnlySignals, Wakes, Joins,
       Closes, Forgets
  <2> QED BY <1>3, <2>1, <2>2 DEF Phase, Hooked, Owed, Under, Opening, Going,
             LifeStep
<1> QED BY <1>1, <1>2, <1>3, EndCaptureView

LEMMA LifeEnd ==
  ASSUME Quiet, Quiet', EndStep
  PROVE  LifeStep
<1> USE DEF Quiet, Ended, Phase, Hooked, Owed, Same, LifeStep
<1>1. UNCHANGED <<st, wr, usr>> BY EndView
<1>2. /\ ending <=> fin \notin Ended
      /\ ending' <=> fin' \notin Ended
  BY DEF Known, Paired
<1>3. fin \in {"event", "ending"} => ~obsActive BY DEF Parts, Capturing
<1>4. CASE Unhook("video", "video", "audio") \/ Unhook("audio", "audio", "inactive")
  BY <1>1, <1>4, EndView DEF Unhook
<1>5. CASE SignalEnded
  <2>1. fin = "event" /\ fin' = "ending" /\ UNCHANGED obsActive
    BY <1>5, EndView DEF SignalEnded
  <2>2. ~obsActive /\ ~obsActive' BY <1>3, <2>1
  <2> QED BY <1>1, <2>1, <2>2
<1>6. CASE ClearEnding
  <2>1. fin = "ending" /\ fin' = "done" /\ UNCHANGED obsActive
    BY <1>6, EndView DEF ClearEnding
  <2>2. ~obsActive /\ ~obsActive' BY <1>3, <2>1
  <2> QED BY <1>1, <2>1, <2>2
<1>7. CASE ClearActive
  BY <1>1, <1>2, <1>7, EndView DEF ClearActive
<1> QED BY <1>4, <1>5, <1>6, <1>7 DEF EndStep

LEMMA LifeUser ==
  ASSUME Quiet, Quiet', UserStep
  PROVE  LifeStep
<1> USE DEF Quiet, Ended, Phase, Hooked, Owed, Same, LifeStep, Move, output
<1>0. Back = "idle" BY DEF Back
<1>1. CASE FfmpegStart
  <2>1. UNCHANGED <<obsActive, ending, stoppingEvent, fin>> /\ ~obsActive
    BY <1>1, FfmpegStartView DEF FfmpegStart, Known, Room
  <2>2. /\ st \in Ended /\ wr \in Ended /\ fin \in Ended /\ usr = "waitStopped"
        /\ st' = "open" /\ wr' = "none" /\ usr' = "setConnecting"
    BY <1>1, FfmpegStartView
  <2> QED BY <2>1, <2>2 DEF Under, Opening, Going
<1>2. CASE ResetStoppingEvent
  <2>1. UNCHANGED <<st, wr, fin, obsActive, ending>>
    BY <1>2, UserView DEF ResetStoppingEvent
  <2>2. usr = "resetEvent" /\ usr' \in {"idle", "pluginStop"}
    BY <1>0, <1>2, UserView
  <2>3. UNCHANGED stoppingEvent \/ ~stoppingEvent'
    BY <1>2 DEF ResetStoppingEvent
  <2>4. stoppingEvent \in BOOLEAN BY DEF Known, TypeOK, Flags
  <2> QED BY <2>1, <2>2, <2>3, <2>4
<1>3. CASE StartRefused \/ SetConnecting \/ StopNow \/ StopLater \/ SetStopTs
           \/ DestroyWait \/ DestroyJoin \/ DestroyStop
  <2>1. UNCHANGED <<st, wr, fin>> BY <1>3, UserView
  <2>2. UNCHANGED <<obsActive, ending, stoppingEvent>>
    BY <1>3 DEF StartRefused, SetConnecting, StopNow, StopLater, SetStopTs,
       DestroyWait, DestroyJoin, DestroyStop
  <2>3. usr # "signalStopped" /\ usr' # "signalStopped" BY <1>0, <1>3, UserView
  <2> QED BY <2>1, <2>2, <2>3
<1> QED BY <1>1, <1>2, <1>3 DEF UserStep

LEMMA LifeOther ==
  ASSUME Quiet, Quiet',
         \/ UserStart \/ UserDestroy \/ \E force \in BOOLEAN : UserStop(force)
         \/ \E s \in Sources : RawStep(s)
         \/ UNCHANGED vars
  PROVE  LifeStep
<1>1. ~UserDestroy BY DEF Quiet, UserDestroy
<1>2. UNCHANGED <<st, wr, fin>> BY OtherView DEF Quiet
<1>3. usr = "signalStopped" <=> usr' = "signalStopped"
  BY <1>1, OtherView DEF Quiet
<1>4. UNCHANGED <<obsActive, ending, stoppingEvent>>
  BY <1>1 DEF Move, output, vars, UserStart, UserStop, RawStep, RawEnter,
     RawNothing, RawPacket
<1> QED BY <1>2, <1>3, <1>4 DEF Phase, Hooked, Owed, Same, LifeStep

LEMMA LifeNext ==
  ASSUME Quiet, Quiet', [Next]_vars
  PROVE  LifeStep
<1>1. ASSUME NEW g \in Starts, StartStep(g) \/ WriteStep(g) PROVE LifeStep
  BY <1>1, LifeStart, LifeWrite
<1>2. ASSUME NEW t \in Threads, EndCaptureStep(t) PROVE LifeStep
  BY <1>2, LifeEndCapture
<1> QED BY <1>1, <1>2, LifeEnd, LifeUser, LifeOther DEF Next

\* The output is destroyed once.
LEMMA DestroyedForGood ==
  ASSUME [Next]_vars, destroying
  PROVE  destroying'
<1> USE DEF Move, user
<1>1. UserStart \/ UserDestroy \/ (\E force \in BOOLEAN : UserStop(force)) \/ UserStep
        => destroying'
  BY DEF UserStart, UserDestroy, UserStop, UserStep, StartRefused, FfmpegStart,
     SetConnecting, ResetStoppingEvent, StopNow, StopLater, SetStopTs,
     DestroyWait, DestroyJoin, DestroyStop
<1>2. \A g \in Starts : StartStep(g) => destroying'
  BY DEF StartStep, OpenFile, SetActive, CanBegin, SpawnWrite, BeginCapture,
     Activate, SignalStart, SetWriteActive, ClearConnecting
<1>3. \A g \in Starts : WriteStep(g) => destroying'
  BY DEF WriteStep, SemWait, CheckEvent, TakeToWrite, TakeLast, Take,
     TookNothing, WriteFrame, WriteFails, Leave
<1>4. \A t \in Threads : EndCaptureStep(t) => destroying'
  BY DEF EndCaptureStep, EndCapture, SignalStopped, SignalStopOnly, Deactivate,
     JoinWrite, WriteTrailer, ClearData
<1>5. EndStep \/ (\E s \in Sources : RawStep(s)) \/ UNCHANGED vars => destroying'
  BY DEF EndStep, Unhook, ClearActive, SignalEnded, ClearEnding, RawStep,
     RawEnter, RawNothing, RawPacket, vars
<1> QED BY <1>1, <1>2, <1>3, <1>4, <1>5 DEF Next

(* The recording implements the output that the recorder relies on: every   *)
(* step until the destruction or a race is one of OutputLife or changes     *)
(* nothing of what it shows.                                               *)
THEOREM ImplementsLife == Spec => ImplementsOutputLife
<1> DEFINE Exempt == ~destroying /\ Without({"early", "overlap"})
<1>1. Init => Life!Init
  <2> SUFFICES ASSUME Init PROVE Life!Init OBVIOUS
  <2>1. \A t \in Threads : pc[t] \in {"idle", "none"} BY DEF Init
  <2>2. LifePhase = "idle" BY ThreadNames DEF Init, LifePhase, Running
  <2>3. ~LifeEnding /\ ~LifeOwed
    BY <2>1, ThreadNames DEF LifeEnding, LifeOwed, At
  <2> QED BY <2>2, <2>3 DEF Life!Init
<1>2. IInv /\ Exempt => Quiet BY DEF IInv, Safe, Calm, Quiet, Without
<1>3. IInv /\ [Next]_vars /\ Exempt' => Exempt
  <2> SUFFICES ASSUME IInv, [Next]_vars, Exempt' PROVE Exempt OBVIOUS
  <2>1. races \subseteq races' BY RacesGrow DEF IInv, Known
  <2>2. ~destroying BY DestroyedForGood
  <2> QED BY <2>1, <2>2 DEF Without
<1>4. (IInv /\ Exempt => Quiet)' BY <1>2, PTL
<1>5. LifeView' BY LifeView, PTL
<1>6. Quiet /\ Quiet' /\ [Next]_vars => [Life!Next]_(Life!vars)
  <2> SUFFICES ASSUME Quiet, Quiet', [Next]_vars PROVE [Life!Next]_(Life!vars)
    OBVIOUS
  <2>1. LifeStep BY LifeNext
  <2>2. /\ LifePhase = Phase /\ LifePhase' = Phase'
        /\ LifeEnding <=> Hooked
        /\ LifeEnding' <=> Hooked'
        /\ LifeOwed <=> Owed
        /\ LifeOwed' <=> Owed'
    BY LifeView, <1>5
  <2>3. {LifeEnding, LifeEnding', LifeOwed, LifeOwed'} \subseteq BOOLEAN
    BY DEF LifeEnding, LifeOwed
  <2> QED BY <2>1, <2>2, <2>3 DEF LifeStep, Same, Life!Next, Life!vars,
     Life!Begin, Life!Connected, Life!ConnectFailed, Life!StopLater,
     Life!EndDataCapture, Life!EndThread, Life!SignalStop
<1>7. IInv /\ [Next]_vars =>
        (~destroying' /\ Without({"early", "overlap"})' =>
           [Life!Next]_(Life!vars))
  BY <1>2, <1>3, <1>4, <1>6, StepsWell
<1> QED BY <1>1, <1>7, Always, PTL
        DEF Spec, ImplementsOutputLife
=============================================================================
