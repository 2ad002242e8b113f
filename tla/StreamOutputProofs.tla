------------------------- MODULE StreamOutputProofs -------------------------
(***************************************************************************)
(* Proofs about StreamOutput for any number of starts, stops, packets and  *)
(* drops.                                                                  *)
(***************************************************************************)
EXTENDS StreamOutput, TLAPS

(* The places of each kind of thread.                                      *)
EC == {"endCapture", "clearData", "spawnEnd", "signalStopped",
       "signalStopOnly", "setEvent"}
Ended  == {"none", "done"}
Pre    == {"init", "joinSend", "clear", "try", "spawn", "streaming", "metadata",
           "begin"}
Begun  == {"signalStart", "detach", "connected", "done"}
Loop   == {"wait", "next", "send"}
Starting == {"waitStopped", "canBegin", "joinEnd", "connect"}
Stops    == {"rtmpStop", "joinConnect", "setStopTs", "signalStop"}

ConnLabels == Ended \cup Pre \cup EC \cup Begun \cup {"activate"}
SendLabels == Ended \cup Loop \cup EC \cup {"leave", "reset", "inactive", "headers"}
UserLabels == {"idle", "resetEvent", "freed"} \cup Starting \cup Stops \cup EC \cup
  {"destroyWait", "destroyJoin", "rtmpDestroy", "destroyConnect", "destroyStop",
   "destroyActive", "destroySend"}
EndLabels  == Ended \cup {"unhook", "inactive", "event", "ending"}
Labels == ConnLabels \cup SendLabels \cup UserLabels \cup EndLabels

PlacesOK(p, q) ==
  /\ p \in [Threads -> Labels] /\ q \in [Threads -> Labels]
  /\ \A g \in Starts : /\ p[Conn(g)] \in ConnLabels
                       /\ p[Conn(g)] \in EC => q[Conn(g)] = "detach"
                       /\ p[Send(g)] \in SendLabels
                       /\ p[Send(g)] \in EC => q[Send(g)] = "reset"
  /\ p[User] \in UserLabels
  /\ p[User] \in EC => q[User] \in {"idle", "destroyWait", "destroySend"}
  /\ p[End] \in EndLabels

Races == {"stopOverlap", "brokeEarly", "cutOff", "hurried"}

Flags ==
  {active, dataActive, stoppingEvent, ending, connecting, streaming, stopEvent,
   disconnected, hooked, forced, destroying} \subseteq BOOLEAN

Values ==
  /\ stopTs \in {0, 1} /\ sendSem \in Nat /\ packets \in Nat /\ drops \in Nat
  /\ connectThread \in 0 .. MaxStarts /\ sendThread \in 0 .. MaxStarts
  /\ starts \in 0 .. MaxStarts /\ stops \in Nat /\ stopSignals \in Nat
  /\ detached \subseteq Threads \ {User, End}
  /\ client \in {"idle", "starting", "live", "stopping"}
  /\ races \subseteq Races

\* StartConnecting finds a connect thread left: UserStart looked for it.
Room == pc[User] \in Starting => starts < MaxStarts

Typed  == Flags /\ Values /\ PlacesOK(pc, ret)
TypeOK == Typed /\ Room

LEMMA ThreadNames ==
  /\ User \in Threads /\ End \in Threads /\ User # End
  /\ \A g \in Starts : /\ Conn(g) \in Threads /\ Send(g) \in Threads
                       /\ Conn(g) \notin {User, End} /\ Send(g) \notin {User, End}
  /\ \A g, h \in Starts : /\ Conn(g) # Send(h)
                          /\ Conn(g) = Conn(h) => g = h
                          /\ Send(g) = Send(h) => g = h
  /\ \A t \in Threads : \/ t \in {User, End}
                        \/ \E g \in Starts : t \in {Conn(g), Send(g)}
BY DEF Threads, User, End, Conn, Send

LEMMA PlaceConn ==
  ASSUME PlacesOK(pc, ret), NEW g \in Starts, NEW l \in ConnLabels,
         l \in EC => pc[Conn(g)] \in EC
  PROVE  PlacesOK([pc EXCEPT ![Conn(g)] = l], ret)
BY ThreadNames, l \in Labels DEF PlacesOK, Labels

LEMMA PlaceSend ==
  ASSUME PlacesOK(pc, ret), NEW g \in Starts, NEW l \in SendLabels,
         l \in EC => pc[Send(g)] \in EC
  PROVE  PlacesOK([pc EXCEPT ![Send(g)] = l], ret)
BY ThreadNames DEF PlacesOK, Labels

LEMMA PlaceUser ==
  ASSUME PlacesOK(pc, ret), NEW l \in UserLabels,
         l \in EC => pc[User] \in EC
  PROVE  PlacesOK([pc EXCEPT ![User] = l], ret)
BY ThreadNames DEF PlacesOK, Labels

LEMMA PlaceEnd ==
  ASSUME PlacesOK(pc, ret), NEW l \in EndLabels
  PROVE  PlacesOK([pc EXCEPT ![End] = l], ret)
BY ThreadNames DEF PlacesOK, Labels

(* A thread enters obs_output_end_data_capture.                            *)
LEMMA PlaceEnding ==
  ASSUME PlacesOK(pc, ret)
  PROVE  /\ \A g \in Starts :
              /\ PlacesOK([pc EXCEPT ![Conn(g)] = "endCapture"],
                          [ret EXCEPT ![Conn(g)] = "detach"])
              /\ PlacesOK([pc EXCEPT ![Send(g)] = "endCapture"],
                          [ret EXCEPT ![Send(g)] = "reset"])
         /\ \A l \in {"idle", "destroyWait", "destroySend"} :
              PlacesOK([pc EXCEPT ![User] = "endCapture"],
                       [ret EXCEPT ![User] = l])
<1>1. /\ "endCapture" \in ConnLabels \cap SendLabels \cap UserLabels
      /\ "endCapture" \in Labels /\ "detach" \in Labels /\ "reset" \in Labels
      /\ {"idle", "destroyWait", "destroySend"} \subseteq Labels
  BY DEF ConnLabels, SendLabels, UserLabels, Labels, EC, Begun
<1> QED BY <1>1, ThreadNames DEF PlacesOK

(* The places of all threads after a step.                                 *)
LEMMA ConnTypes ==
  ASSUME TypeOK, NEW g \in Starts, ConnectStep(g)
  PROVE  Typed'
<1> USE DEF ConnLabels, Ended, Pre, EC, Begun, At, Goto, Move, output, stream,
    encoders, user, hist
<1>1. PlacesOK(pc, ret) BY DEF TypeOK, Typed
<1>2. CASE InitConnect(g) \/ JoinSend(g) \/ TryConnect(g) \/ SetStreaming(g)
           \/ ClearStream(g) \/ SendMetaData(g)
  <2>1. PlacesOK(pc, ret)'
    <3>1. ASSUME TryConnect(g) \/ SendMetaData(g) PROVE PlacesOK(pc, ret)'
      BY <1>1, <3>1, PlaceConn, PlaceEnding DEF TryConnect, SendMetaData
    <3>2. ASSUME InitConnect(g) \/ JoinSend(g) \/ SetStreaming(g) \/ ClearStream(g)
          PROVE  PlacesOK(pc, ret)'
      BY <1>1, <3>2, PlaceConn DEF InitConnect, JoinSend, SetStreaming,
         ClearStream
    <3> QED BY <1>2, <3>1, <3>2
  <2>2. Flags'
    BY <1>2, <2>1 DEF TypeOK, Typed, Flags, InitConnect, JoinSend, TryConnect,
       SetStreaming, ClearStream, SendMetaData, Races
  <2>3. Values'
    BY <1>2, <2>1 DEF TypeOK, Typed, Values, InitConnect, JoinSend, TryConnect,
       SetStreaming, ClearStream, SendMetaData, Races
  <2> QED BY <2>1, <2>2, <2>3 DEF TypeOK, Typed
<1>3. CASE BeginCapture(g) \/ Activate(g) \/ SignalStart(g) \/ Detach(g)
           \/ ClearConnecting(g)
  <2>1. PlacesOK(pc, ret)'
    BY <1>1, <1>3, PlaceConn DEF BeginCapture, Activate, SignalStart, Detach,
       ClearConnecting
  <2>2. Conn(g) \in Threads \ {User, End} BY ThreadNames
  <2>3. Flags'
    BY <1>3, <2>1, <2>2 DEF TypeOK, Typed, Flags, BeginCapture, Activate,
       SignalStart, Detach, ClearConnecting
  <2>4. Values'
    BY <1>3, <2>1, <2>2 DEF TypeOK, Typed, Values, BeginCapture, Activate,
       SignalStart, Detach, ClearConnecting
  <2> QED BY <2>1, <2>2, <2>3, <2>4 DEF TypeOK, Typed
<1>4. CASE SpawnSend(g)
  <2>1. PlacesOK([pc EXCEPT ![Conn(g)] = "streaming"], ret)
    BY <1>1, PlaceConn
  <2>2. PlacesOK([[pc EXCEPT ![Conn(g)] = "streaming"]
                     EXCEPT ![Send(g)] = "wait"], ret)
    BY <2>1, ThreadNames DEF PlacesOK, Labels, SendLabels, Loop
  <2>3. /\ pc' = [[pc EXCEPT ![Conn(g)] = "streaming"] EXCEPT ![Send(g)] = "wait"]
        /\ ret' = ret
    BY <1>4 DEF SpawnSend
  <2>4. Flags' BY <1>4, <2>2, <2>3 DEF TypeOK, Typed, Flags, SpawnSend, Starts
  <2>5. Values' BY <1>4, <2>2, <2>3 DEF TypeOK, Typed, Values, SpawnSend, Starts
  <2> QED BY <2>2, <2>3, <2>4, <2>5 DEF TypeOK, Typed
<1> QED BY <1>2, <1>3, <1>4 DEF ConnectStep

LEMMA SendTypes ==
  ASSUME TypeOK, NEW g \in Starts, SendStep(g)
  PROVE  Typed'
<1> USE DEF SendLabels, Ended, Loop, EC, At, Goto, Move, output, stream,
    encoders, user, hist
<1>1. PlacesOK(pc, ret) BY DEF TypeOK, Typed
<1>2. CASE SemWait(g) \/ BreakForced(g) \/ NoPacket(g) \/ LastPacket(g)
           \/ TakePacket(g) \/ SendPacket(g)
  <2>1. PlacesOK(pc, ret)'
    BY <1>1, <1>2, PlaceSend DEF SemWait, BreakForced, NoPacket, LastPacket,
       TakePacket, SendPacket
  <2>2. Flags'
    BY <1>2, <2>1 DEF TypeOK, Typed, Flags, SemWait, BreakForced, NoPacket,
       LastPacket, TakePacket, SendPacket
  <2>3. Values'
    BY <1>2, <2>1 DEF TypeOK, Typed, Values, SemWait, BreakForced, NoPacket,
       LastPacket, TakePacket, SendPacket
  <2> QED BY <2>1, <2>2, <2>3 DEF TypeOK, Typed
<1>3. CASE LeaveLoop(g)
  <2>1. PlacesOK(pc, ret)' BY <1>1, <1>3, PlaceEnding DEF LeaveLoop
  <2>2. Send(g) \in Threads \ {User, End} BY ThreadNames
  <2>3. Flags' BY <1>3, <2>1, <2>2 DEF TypeOK, Typed, Flags, LeaveLoop, Races
  <2>4. Values' BY <1>3, <2>1, <2>2 DEF TypeOK, Typed, Values, LeaveLoop, Races
  <2> QED BY <2>1, <2>2, <2>3, <2>4 DEF TypeOK, Typed
<1>4. CASE ResetStopEvent(g) \/ ClearStreaming(g) \/ ClearHeaders(g)
  <2>1. PlacesOK(pc, ret)'
    BY <1>1, <1>4, PlaceSend DEF ResetStopEvent, ClearStreaming, ClearHeaders
  <2>2. Flags'
    BY <1>4, <2>1 DEF TypeOK, Typed, Flags, ResetStopEvent, ClearStreaming,
       ClearHeaders
  <2>3. Values'
    BY <1>4, <2>1 DEF TypeOK, Typed, Values, ResetStopEvent, ClearStreaming,
       ClearHeaders
  <2> QED BY <2>1, <2>2, <2>3 DEF TypeOK, Typed
<1> QED BY <1>2, <1>3, <1>4 DEF SendStep

(* Only the user, connect and send threads run obs_output_end_data_capture. *)
LEMMA WhoEnds ==
  ASSUME TypeOK, NEW t \in Threads, pc[t] \in EC
  PROVE  /\ t # End
         /\ t = User \/ \E g \in Starts : t = Conn(g) \/ t = Send(g)
         /\ t \in Threads \ {End}
<1>1. pc[End] \in EndLabels BY DEF TypeOK, Typed, PlacesOK
<1> QED BY <1>1, ThreadNames DEF EndLabels, Ended, EC

LEMMA EndCaptureTypes ==
  ASSUME TypeOK, NEW t \in Threads, EndCaptureStep(t)
  PROVE  Typed'
<1> USE DEF At, Goto, Move, output, stream, encoders, user, hist
<1>1. PlacesOK(pc, ret) BY DEF TypeOK, Typed
<1>2. /\ pc[t] \in EC
      /\ \E l \in EC \cup {ret[t]} :
           \/ pc' = [pc EXCEPT ![t] = l]
           \/ pc' = [pc EXCEPT ![t] = l, ![End] = "unhook"]
      /\ ret' = ret
  BY DEF EndCaptureStep, EndCapture, SignalStopOnly, SetStoppingEvent,
     ClearData, SpawnEnd, SignalStopped, EC
<1>3. PICK l \in EC \cup {ret[t]} :
         \/ pc' = [pc EXCEPT ![t] = l]
         \/ pc' = [pc EXCEPT ![t] = l, ![End] = "unhook"]
  BY <1>2
<1>4. PlacesOK([pc EXCEPT ![t] = l], ret)
  <2>1. CASE t = User
    <3>1. l \in UserLabels
      BY <1>1, <1>2, <2>1 DEF PlacesOK, UserLabels
    <3> QED BY <1>1, <1>2, <2>1, <3>1, PlaceUser
  <2>2. ASSUME NEW g \in Starts, t = Conn(g)
        PROVE  PlacesOK([pc EXCEPT ![t] = l], ret)
    <3>1. l \in ConnLabels
      BY <1>1, <1>2, <2>2 DEF PlacesOK, ConnLabels, Begun
    <3> QED BY <1>1, <1>2, <2>2, <3>1, PlaceConn
  <2>3. ASSUME NEW g \in Starts, t = Send(g)
        PROVE  PlacesOK([pc EXCEPT ![t] = l], ret)
    <3>1. l \in SendLabels
      BY <1>1, <1>2, <2>3 DEF PlacesOK, SendLabels
    <3> QED BY <1>1, <1>2, <2>3, <3>1, PlaceSend
  <2> QED BY <1>2, <2>1, <2>2, <2>3, WhoEnds
<1>5. PlacesOK([[pc EXCEPT ![t] = l] EXCEPT ![End] = "unhook"], ret)
  BY <1>4, ThreadNames DEF PlacesOK, Labels, EndLabels
<1>6. PlacesOK(pc, ret)'
  BY <1>2, <1>3, <1>4, <1>5, ThreadNames
<1>7. Flags'
  BY <1>6 DEF TypeOK, Typed, Flags, EndCaptureStep, EndCapture, SignalStopOnly,
     SetStoppingEvent, ClearData, SpawnEnd, SignalStopped, StopSignal
<1>8. Values'
  BY <1>6 DEF TypeOK, Typed, Values, EndCaptureStep, EndCapture, SignalStopOnly,
     SetStoppingEvent, ClearData, SpawnEnd, SignalStopped, StopSignal
<1> QED BY <1>6, <1>7, <1>8 DEF TypeOK, Typed

LEMMA EndTypes ==
  ASSUME TypeOK, EndStep
  PROVE  Typed'
<1> USE DEF EndLabels, Ended, At, Goto, Move, output, stream, encoders, user, hist
<1>1. PlacesOK(pc, ret) BY DEF TypeOK, Typed
<1>2. PlacesOK(pc, ret)'
  BY <1>1, PlaceEnd DEF EndStep, Unhook, ClearActive, SignalEnded, ClearEnding
<1>3. Flags'
  BY <1>2 DEF TypeOK, Typed, Flags, EndStep, Unhook, ClearActive, SignalEnded,
     ClearEnding
<1>4. Values'
  BY <1>2 DEF TypeOK, Typed, Values, EndStep, Unhook, ClearActive, SignalEnded,
     ClearEnding
<1> QED BY <1>2, <1>3, <1>4 DEF TypeOK, Typed

LEMMA UserTypes ==
  ASSUME TypeOK, UserStep
  PROVE  Typed'
<1> USE DEF UserLabels, Starting, Stops, EC, At, Goto, Move, output, stream,
    encoders, user, hist, Back
<1>1. PlacesOK(pc, ret) BY DEF TypeOK, Typed
<1>2. CASE WaitStopped \/ CanBegin \/ JoinEnd \/ ResetStoppingEvent \/ RtmpStop
           \/ JoinConnect \/ SetStopTs \/ SignalStopEvent
  <2>1. PlacesOK(pc, ret)'
    BY <1>1, <1>2, PlaceUser, PlaceEnding DEF WaitStopped, CanBegin, JoinEnd,
       ResetStoppingEvent, RtmpStop, JoinConnect, SetStopTs, SignalStopEvent
  <2>2. Flags'
    BY <1>2, <2>1 DEF TypeOK, Typed, Flags, WaitStopped, CanBegin, JoinEnd,
       Races, ResetStoppingEvent, RtmpStop, JoinConnect, SetStopTs,
       SignalStopEvent
  <2>3. Values'
    <3>1. CASE ResetStoppingEvent
      BY <3>1 DEF TypeOK, Typed, Values, Races, ResetStoppingEvent
    <3>2. CASE SetStopTs
      BY <3>2 DEF TypeOK, Typed, Values, SetStopTs
    <3>3. CASE SignalStopEvent
      BY <3>3 DEF TypeOK, Typed, Values, SignalStopEvent
    <3> QED BY <1>2, <3>1, <3>2, <3>3 DEF TypeOK, Typed, Values, WaitStopped,
               CanBegin, JoinEnd, RtmpStop, JoinConnect
  <2> QED BY <2>1, <2>2, <2>3 DEF TypeOK, Typed
<1>3. CASE DestroyWait \/ DestroyJoin \/ RtmpDestroy \/ DestroyConnect
           \/ DestroyStop \/ DestroyActive \/ DestroySend
  <2>1. PlacesOK(pc, ret)'
    BY <1>1, <1>3, PlaceUser, PlaceEnding DEF DestroyWait, DestroyJoin,
       RtmpDestroy, DestroyConnect, DestroyStop, DestroyActive, DestroySend
  <2>2. Flags'
    BY <1>3, <2>1 DEF TypeOK, Typed, Flags, DestroyWait, DestroyJoin,
       RtmpDestroy, DestroyConnect, DestroyStop, DestroyActive, DestroySend
  <2>3. Values'
    BY <1>3, <2>1 DEF TypeOK, Typed, Values, DestroyWait, DestroyJoin,
       RtmpDestroy, DestroyConnect, DestroyStop, DestroyActive, DestroySend
  <2> QED BY <2>1, <2>2, <2>3 DEF TypeOK, Typed
<1>4. CASE StartConnecting
  <2>1. PlacesOK([pc EXCEPT ![User] = "idle"], ret) BY <1>1, PlaceUser
  <2>2. \A g \in Starts :
          PlacesOK([[pc EXCEPT ![User] = "idle"] EXCEPT ![Conn(g)] = "init"], ret)
    BY <2>1, ThreadNames DEF PlacesOK, ConnLabels, Pre, Labels
  <2>5. PlacesOK(pc, ret)'
    <3>1. CASE pc' = [pc EXCEPT ![User] = "idle"]
      BY <1>4, <2>1, <3>1 DEF StartConnecting
    <3>2. CASE pc' = [pc EXCEPT ![User] = "idle", ![Conn(starts + 1)] = "init"]
      <4>1. starts + 1 \in Starts
        BY <1>4, BoundAssumption DEF TypeOK, Typed, Values, Room, Starts,
           StartConnecting
      <4> QED BY <1>4, <2>2, <3>2, <4>1 DEF StartConnecting
    <3> QED BY <1>4, <3>1, <3>2 DEF StartConnecting
  <2>3. Flags'
    BY <1>4, <2>1, <2>2 DEF TypeOK, Typed, Flags, StartConnecting, Starts
  <2>4. Values'
    <3>1. starts + 1 \in 0 .. MaxStarts
      BY <1>4, BoundAssumption DEF TypeOK, Typed, Values, Room, StartConnecting
    <3> QED BY <1>4, <3>1 DEF TypeOK, Typed, Values, StartConnecting
  <2> QED BY <2>5, <2>3, <2>4 DEF Typed
<1> QED BY <1>2, <1>3, <1>4 DEF UserStep

LEMMA OtherTypes ==
  ASSUME TypeOK,
         \/ UserStart \/ \E f \in BOOLEAN : UserStop(f)
         \/ UserDestroy \/ EncoderPacket \/ DropFrames \/ UNCHANGED vars
  PROVE  Typed'
<1> USE DEF At, Goto, Move, output, stream, encoders, user, hist, vars
<1>1. PlacesOK(pc, ret) BY DEF TypeOK, Typed
<1>2. CASE UserStart \/ UserDestroy
  <2>1. PlacesOK(pc, ret)'
    BY <1>1, <1>2, PlaceUser DEF UserStart, UserDestroy, UserLabels, Starting,
       EC
  <2>2. Flags' BY <1>2 DEF TypeOK, Typed, Flags, UserStart, UserDestroy
  <2>3. Values'
    BY <1>2 DEF TypeOK, Typed, Values, UserStart, UserDestroy, Races
  <2> QED BY <2>1, <2>2, <2>3 DEF Typed
<1>3. ASSUME NEW f \in BOOLEAN, UserStop(f) PROVE Typed'
  <2>1. PlacesOK(pc, ret)'
    BY <1>1, <1>3, PlaceUser DEF UserStop, UserLabels, EC
  <2>2. Flags' BY <1>3 DEF TypeOK, Typed, Flags, UserStop
  <2>3. Values' BY <1>3 DEF TypeOK, Typed, Values, UserStop
  <2> QED BY <2>1, <2>2, <2>3 DEF Typed
<1>4. CASE EncoderPacket \/ DropFrames \/ UNCHANGED vars
  <2>1. PlacesOK(pc, ret)' BY <1>1, <1>4 DEF EncoderPacket, DropFrames
  <2>2. Flags' BY <1>4 DEF TypeOK, Typed, Flags, EncoderPacket, DropFrames
  <2>3. packets \in Nat => 0 .. packets - 1 \subseteq Nat OBVIOUS
  <2>4. Values'
    BY <1>4, <2>3 DEF TypeOK, Typed, Values, EncoderPacket, DropFrames
  <2> QED BY <2>1, <2>2, <2>4 DEF Typed
<1> QED BY <1>2, <1>3, <1>4

(* The steps of the other threads move neither the user thread nor starts. *)
LEMMA UserStays ==
  ASSUME TypeOK,
         \/ \E g \in Starts : ConnectStep(g) \/ SendStep(g)
         \/ \E t \in Threads \ {User} : EndCaptureStep(t)
         \/ EndStep \/ EncoderPacket \/ DropFrames \/ UNCHANGED vars
  PROVE  pc'[User] = pc[User] /\ starts' = starts
<1> USE ThreadNames DEF At, Goto, Move, output, stream, encoders, user, hist, vars
<1>1. PlacesOK(pc, ret) BY DEF TypeOK, Typed
<1>2. ASSUME NEW g \in Starts, ConnectStep(g)
      PROVE  pc'[User] = pc[User] /\ starts' = starts
  BY <1>1, <1>2 DEF PlacesOK, ConnectStep, InitConnect, JoinSend, ClearStream,
     TryConnect, SpawnSend, SetStreaming, SendMetaData, BeginCapture, Activate,
     SignalStart, Detach, ClearConnecting
<1>3. ASSUME NEW g \in Starts, SendStep(g)
      PROVE  pc'[User] = pc[User] /\ starts' = starts
  BY <1>1, <1>3 DEF PlacesOK, SendStep, SemWait, BreakForced, NoPacket,
     LastPacket, TakePacket, SendPacket, LeaveLoop, ResetStopEvent,
     ClearStreaming, ClearHeaders
<1>4. ASSUME NEW t \in Threads \ {User}, EndCaptureStep(t)
      PROVE  pc'[User] = pc[User] /\ starts' = starts
  BY <1>1, <1>4 DEF PlacesOK, EndCaptureStep, EndCapture, SignalStopOnly,
     SetStoppingEvent, ClearData, SpawnEnd, SignalStopped
<1>5. CASE EndStep \/ EncoderPacket \/ DropFrames \/ UNCHANGED vars
  BY <1>1, <1>5 DEF PlacesOK, EndStep, Unhook, ClearActive, SignalEnded,
     ClearEnding, EncoderPacket, DropFrames
<1> QED BY <1>2, <1>3, <1>4, <1>5

(* Types: every flag is Boolean, every thread is at one of its places, a   *)
(* thread in obs_output_end_data_capture goes on where its caller does, and *)
(* no more starts than MaxStarts.                                          *)
LEMMA TypeStep ==
  ASSUME TypeOK, [Next]_vars
  PROVE  TypeOK'
<1> USE DEF At, Goto, Move, output, stream, encoders, user, hist
<1>1. Typed'
  BY ConnTypes, SendTypes, EndCaptureTypes, EndTypes, UserTypes, OtherTypes
     DEF Next
<1>2. Room'
  <2>1. CASE \/ \E g \in Starts : ConnectStep(g) \/ SendStep(g)
             \/ \E t \in Threads \ {User} : EndCaptureStep(t)
             \/ EndStep \/ EncoderPacket \/ DropFrames \/ UNCHANGED vars
    BY <2>1, UserStays DEF TypeOK, Room
  <2>2. PlacesOK(pc, ret) BY DEF TypeOK, Typed
  <2>3. CASE \/ UserStart \/ \E f \in BOOLEAN : UserStop(f)
             \/ UserDestroy
    BY <2>2, <2>3, ThreadNames DEF TypeOK, Room, PlacesOK, UserStart, UserStop,
       UserDestroy, Starting
  <2>4. CASE EndCaptureStep(User)
    <3>1. pc[User] \in EC /\ pc'[User] \in EC \cup {ret[User]}
      BY <2>2, <2>4, ThreadNames DEF PlacesOK, EC, EndCaptureStep, EndCapture,
         SignalStopOnly, SetStoppingEvent, ClearData, SpawnEnd, SignalStopped
    <3> QED BY <2>2, <3>1 DEF PlacesOK, Room, EC, Starting
  <2>5. CASE UserStep
    <3>1. CASE WaitStopped \/ CanBegin \/ JoinEnd \/ ResetStoppingEvent
               \/ RtmpStop \/ JoinConnect \/ SetStopTs \/ SignalStopEvent
      BY <2>2, <3>1, ThreadNames DEF TypeOK, Room, PlacesOK, Starting,
         WaitStopped, CanBegin, JoinEnd, ResetStoppingEvent, RtmpStop,
         JoinConnect, SetStopTs, SignalStopEvent, Back
    <3>2. CASE DestroyWait \/ DestroyJoin \/ RtmpDestroy \/ DestroyConnect
               \/ DestroyStop \/ DestroyActive \/ DestroySend
      <4>1. pc'[User] \in {"destroyJoin", "rtmpDestroy", "destroySend",
              "destroyConnect", "destroyStop", "destroyActive", "freed", "endCapture"}
        BY <2>2, <3>2, ThreadNames DEF PlacesOK, DestroyWait, DestroyJoin,
           RtmpDestroy, DestroyConnect, DestroyStop, DestroyActive, DestroySend
      <4> QED BY <4>1 DEF Room, Starting
    <3>3. CASE StartConnecting
      <4>1. pc'[User] = "idle"
        <5>1. starts + 1 \in Starts
          BY <3>3, BoundAssumption DEF TypeOK, Typed, Values, Room, Starts,
             StartConnecting, Starting
        <5> QED BY <2>2, <3>3, <5>1, ThreadNames DEF PlacesOK, StartConnecting
      <4> QED BY <4>1 DEF Room, Starting
    <3> QED BY <2>5, <3>1, <3>2, <3>3 DEF UserStep
  <2> QED BY <2>1, <2>3, <2>4, <2>5 DEF Next
<1> QED BY <1>1, <1>2 DEF TypeOK

LEMMA StartTypes ==
  ASSUME Init
  PROVE  TypeOK
<1>1. PlacesOK(pc, ret)
  BY ThreadNames DEF Init, PlacesOK, Labels, ConnLabels, SendLabels,
     UserLabels, EndLabels, Ended, EC, Pre, Begun, Loop, Starting, Stops
<1>2. Flags BY DEF Init, Flags
<1>3. Values BY BoundAssumption DEF Init, Values
<1>4. Room BY ThreadNames DEF Init, Room, Starting
<1> QED BY <1>1, <1>2, <1>3, <1>4 DEF TypeOK, Typed

(* Every flag is a Boolean, every thread is at a place of its own kind, and *)
(* a thread that ends the data capture goes on where its caller left off.  *)
THEOREM StreamTypes == Spec => []TypeOK
BY StartTypes, TypeStep, PTL DEF Spec

-----------------------------------------------------------------------------
(* What holds in every behaviour: the threads that there are, and who will *)
(* still set stopping_event.                                               *)

Connecting == {"init", "joinSend", "clear", "try", "spawn"}
Going      == {"streaming", "metadata", "begin", "activate"}

Numbered ==
  /\ connectThread = starts
  /\ \A g \in Starts : g > starts => pc[Conn(g)] = "none" /\ pc[Send(g)] = "none"
  /\ \A g \in Starts : pc[Conn(g)] \in Connecting => pc[Send(g)] = "none"

Named ==
  /\ sendThread =< starts
  /\ \A g \in Starts : sendThread = g => pc[Send(g)] # "none"
  /\ \A g \in Starts : pc[Conn(g)] \in Going => sendThread # 0
  /\ active \/ At(User, "resetEvent") => sendThread # 0

EndingFlag == ending <=> ~At(End, "none") /\ ~At(End, "done")

DetachedRan == \A g \in Starts :
  /\ Conn(g) \in detached => pc[Conn(g)] \in {"connected", "done"}
  /\ Send(g) \in detached => pc[Send(g)] \notin Loop \cup {"none", "leave"}

Threaded == Numbered /\ Named /\ EndingFlag /\ DetachedRan

LEMMA ConnThreaded ==
  ASSUME TypeOK, Threaded, NEW g \in Starts, ConnectStep(g)
  PROVE  Threaded'
<1> USE ThreadNames DEF At, Goto, Move, output, stream, encoders, user, hist
<1>1. PlacesOK(pc, ret) BY DEF TypeOK, Typed
<1>2. CASE InitConnect(g) \/ JoinSend(g) \/ TryConnect(g) \/ SetStreaming(g)
           \/ ClearStream(g) \/ SendMetaData(g)
  <2>1. Numbered'
    BY <1>1, <1>2 DEF Threaded, PlacesOK, Numbered, Connecting, InitConnect,
       JoinSend, TryConnect, SetStreaming, ClearStream, SendMetaData
  <2>2. Named'
    BY <1>1, <1>2 DEF Threaded, PlacesOK, Named, Going, InitConnect,
       JoinSend, TryConnect, SetStreaming, ClearStream, SendMetaData
  <2>3. EndingFlag'
    BY <1>1, <1>2 DEF Threaded, PlacesOK, EndingFlag, InitConnect,
       JoinSend, TryConnect, SetStreaming, ClearStream, SendMetaData
  <2>4. DetachedRan'
    BY <1>1, <1>2 DEF Threaded, PlacesOK, DetachedRan, InitConnect,
       JoinSend, TryConnect, SetStreaming, ClearStream, SendMetaData
  <2> QED BY <2>1, <2>2, <2>3, <2>4 DEF Threaded
<1>3. CASE BeginCapture(g) \/ Activate(g) \/ SignalStart(g) \/ Detach(g)
           \/ ClearConnecting(g)
  <2>1. Numbered'
    BY <1>1, <1>3 DEF Threaded, PlacesOK, Numbered, Connecting, BeginCapture,
       Activate, SignalStart, Detach, ClearConnecting
  <2>2. Named'
    BY <1>1, <1>3 DEF Threaded, PlacesOK, Named, Going, BeginCapture, Activate,
       SignalStart, Detach, ClearConnecting
  <2>3. EndingFlag'
    BY <1>1, <1>3 DEF Threaded, PlacesOK, EndingFlag, BeginCapture, Activate,
       SignalStart, Detach, ClearConnecting
  <2>4. DetachedRan'
    BY <1>1, <1>3 DEF Threaded, PlacesOK, DetachedRan, BeginCapture,
       Activate, SignalStart, Detach, ClearConnecting
  <2> QED BY <2>1, <2>2, <2>3, <2>4 DEF Threaded
<1>4. CASE SpawnSend(g)
  <2>1. g =< starts /\ g # 0
    BY <1>1, <1>4 DEF TypeOK, Typed, Values, Threaded, Numbered, SpawnSend,
       Starts
  <2>2. Numbered'
    BY <1>1, <1>4, <2>1 DEF Threaded, PlacesOK, Numbered, Connecting, SpawnSend
  <2>3. Named'
    BY <1>1, <1>4, <2>1 DEF Threaded, PlacesOK, Named, SpawnSend
  <2>4. EndingFlag'
    BY <1>1, <1>4 DEF Threaded, PlacesOK, EndingFlag, SpawnSend
  <2>5. DetachedRan'
    BY <1>1, <1>4 DEF Threaded, PlacesOK, Numbered, Connecting, DetachedRan,
       SpawnSend
  <2> QED BY <2>2, <2>3, <2>4, <2>5 DEF Threaded
<1> QED BY <1>2, <1>3, <1>4 DEF ConnectStep

LEMMA SendThreaded ==
  ASSUME TypeOK, Threaded, NEW g \in Starts, SendStep(g)
  PROVE  Threaded'
<1> USE ThreadNames DEF At, Goto, Move, output, stream, encoders, user, hist
<1>1. PlacesOK(pc, ret) BY DEF TypeOK, Typed
<1>2. CASE SemWait(g) \/ BreakForced(g) \/ NoPacket(g) \/ LastPacket(g)
           \/ TakePacket(g) \/ SendPacket(g)
  <2>1. Numbered'
    BY <1>1, <1>2 DEF Threaded, PlacesOK, Numbered, SemWait, BreakForced,
       NoPacket, LastPacket, TakePacket, SendPacket
  <2>2. Named'
    BY <1>1, <1>2 DEF Threaded, PlacesOK, Named, SemWait, BreakForced,
       NoPacket, LastPacket, TakePacket, SendPacket
  <2>3. EndingFlag'
    BY <1>1, <1>2 DEF Threaded, PlacesOK, EndingFlag, SemWait, BreakForced,
       NoPacket, LastPacket, TakePacket, SendPacket
  <2>4. DetachedRan'
    BY <1>1, <1>2 DEF Threaded, PlacesOK, DetachedRan, Loop, SemWait,
       BreakForced, NoPacket, LastPacket, TakePacket, SendPacket
  <2> QED BY <2>1, <2>2, <2>3, <2>4 DEF Threaded
<1>3. CASE LeaveLoop(g) \/ ResetStopEvent(g) \/ ClearStreaming(g) \/ ClearHeaders(g)
  <2>1. Numbered'
    BY <1>1, <1>3 DEF Threaded, PlacesOK, Numbered, LeaveLoop, ResetStopEvent,
       ClearStreaming, ClearHeaders
  <2>2. Named'
    BY <1>1, <1>3 DEF Threaded, PlacesOK, Named, LeaveLoop, ResetStopEvent,
       ClearStreaming, ClearHeaders
  <2>3. EndingFlag'
    BY <1>1, <1>3 DEF Threaded, PlacesOK, EndingFlag, LeaveLoop, ResetStopEvent,
       ClearStreaming, ClearHeaders
  <2>4. DetachedRan'
    BY <1>1, <1>3 DEF Threaded, PlacesOK, DetachedRan, Loop, LeaveLoop,
       ResetStopEvent, ClearStreaming, ClearHeaders
  <2> QED BY <2>1, <2>2, <2>3, <2>4 DEF Threaded
<1> QED BY <1>2, <1>3 DEF SendStep

LEMMA EndCaptureThreaded ==
  ASSUME TypeOK, Threaded, NEW t \in Threads, EndCaptureStep(t)
  PROVE  Threaded'
<1> USE ThreadNames DEF At, Goto, Move, output, stream, encoders, user, hist
<1>1. PlacesOK(pc, ret) BY DEF TypeOK, Typed
<1>2. /\ pc[t] \in EC /\ t \in Threads \ {End}
      /\ pc' = [pc EXCEPT ![t] = pc'[t], ![End] = pc'[End]]
      /\ pc'[t] \in EC \cup {ret[t]}
  BY <1>1, WhoEnds DEF PlacesOK, EndCaptureStep, EndCapture, ClearData,
     SpawnEnd, SignalStopped, SignalStopOnly, SetStoppingEvent, EC
<1>3. pc'[t] \notin {"none", "resetEvent"} \cup Connecting \cup Going
  BY <1>1, <1>2 DEF PlacesOK, EC, Connecting, Going
<1>4. UNCHANGED <<starts, connectThread, sendThread, active, detached>>
  BY DEF EndCaptureStep, EndCapture, ClearData, SpawnEnd, SignalStopped,
     SignalStopOnly, SetStoppingEvent, StopSignal
<1>5. Numbered'
  BY <1>1, <1>2, <1>3, <1>4 DEF Threaded, PlacesOK, Numbered, Connecting, EC
<1>6. Named'
  BY <1>1, <1>2, <1>3, <1>4 DEF Threaded, PlacesOK, Named, Going, EC
<1>7. EndingFlag'
  BY <1>1, <1>2 DEF Threaded, PlacesOK, EndingFlag, EndCaptureStep, EndCapture,
     ClearData, SpawnEnd, SignalStopped, SignalStopOnly, SetStoppingEvent
<1>8. DetachedRan'
  BY <1>1, <1>2, <1>4 DEF Threaded, PlacesOK, DetachedRan, EC, Loop
<1> QED BY <1>5, <1>6, <1>7, <1>8 DEF Threaded

LEMMA EndThreaded ==
  ASSUME TypeOK, Threaded, EndStep
  PROVE  Threaded'
<1> USE ThreadNames DEF At, Goto, Move, output, stream, encoders, user, hist,
    EndStep, Unhook, ClearActive, SignalEnded, ClearEnding
<1>1. PlacesOK(pc, ret) BY DEF TypeOK, Typed
<1>2. Numbered' BY <1>1 DEF Threaded, PlacesOK, Numbered
<1>3. Named' BY <1>1 DEF Threaded, PlacesOK, Named
<1>4. EndingFlag' BY <1>1 DEF Threaded, PlacesOK, EndingFlag
<1>5. DetachedRan' BY <1>1 DEF Threaded, PlacesOK, DetachedRan
<1> QED BY <1>2, <1>3, <1>4, <1>5 DEF Threaded

LEMMA UserThreaded ==
  ASSUME TypeOK, Threaded, UserStep
  PROVE  Threaded'
<1> USE ThreadNames DEF At, Goto, Move, output, stream, encoders, user, hist
<1>1. PlacesOK(pc, ret) BY DEF TypeOK, Typed
<1>2. CASE WaitStopped \/ CanBegin \/ JoinEnd \/ ResetStoppingEvent \/ RtmpStop
           \/ JoinConnect \/ SetStopTs \/ SignalStopEvent
  <2> USE DEF WaitStopped, CanBegin, JoinEnd, ResetStoppingEvent, RtmpStop,
      JoinConnect, SetStopTs, SignalStopEvent, Back
  <2>1. Numbered' BY <1>1, <1>2 DEF Threaded, PlacesOK, Numbered
  <2>2. Named' BY <1>1, <1>2 DEF Threaded, PlacesOK, Named
  <2>3. EndingFlag' BY <1>1, <1>2 DEF Threaded, PlacesOK, EndingFlag
  <2>4. DetachedRan' BY <1>1, <1>2 DEF Threaded, PlacesOK, DetachedRan
  <2> QED BY <2>1, <2>2, <2>3, <2>4 DEF Threaded
<1>3. CASE DestroyWait \/ DestroyJoin \/ RtmpDestroy \/ DestroyConnect
           \/ DestroyStop \/ DestroyActive \/ DestroySend
  <2> USE DEF DestroyWait, DestroyJoin, RtmpDestroy, DestroyConnect,
      DestroyStop, DestroyActive, DestroySend
  <2>1. Numbered' BY <1>1, <1>3 DEF Threaded, PlacesOK, Numbered
  <2>2. Named' BY <1>1, <1>3 DEF Threaded, PlacesOK, Named
  <2>3. EndingFlag' BY <1>1, <1>3 DEF Threaded, PlacesOK, EndingFlag
  <2>4. DetachedRan' BY <1>1, <1>3 DEF Threaded, PlacesOK, DetachedRan
  <2> QED BY <2>1, <2>2, <2>3, <2>4 DEF Threaded
<1>4. CASE StartConnecting
  <2>1. starts + 1 \in Starts /\ starts \in Nat
    BY <1>4, BoundAssumption DEF TypeOK, Typed, Values, Room, Starts,
       StartConnecting, Starting
  <2>2. Numbered'
    BY <1>1, <1>4, <2>1 DEF Threaded, PlacesOK, Numbered, StartConnecting,
       Starts
  <2>3. Named'
    BY <1>1, <1>4, <2>1 DEF TypeOK, Typed, Values, Threaded, PlacesOK, Named,
       Going, StartConnecting, Starts
  <2>4. EndingFlag'
    BY <1>1, <1>4, <2>1 DEF Threaded, PlacesOK, EndingFlag, StartConnecting
  <2>5. DetachedRan'
    BY <1>1, <1>4, <2>1 DEF Threaded, PlacesOK, Numbered, DetachedRan,
       StartConnecting
  <2> QED BY <2>2, <2>3, <2>4, <2>5 DEF Threaded
<1> QED BY <1>2, <1>3, <1>4 DEF UserStep

LEMMA OtherThreaded ==
  ASSUME TypeOK, Threaded,
         \/ UserStart \/ \E f \in BOOLEAN : UserStop(f)
         \/ UserDestroy \/ EncoderPacket \/ DropFrames \/ UNCHANGED vars
  PROVE  Threaded'
<1> USE ThreadNames DEF At, Goto, Move, output, stream, encoders, user, hist,
    vars, UserStart, UserStop, UserDestroy, EncoderPacket, DropFrames
<1>1. PlacesOK(pc, ret) BY DEF TypeOK, Typed
<1>2. Numbered' BY <1>1 DEF Threaded, PlacesOK, Numbered
<1>3. Named' BY <1>1 DEF Threaded, PlacesOK, Named
<1>4. EndingFlag' BY <1>1 DEF Threaded, PlacesOK, EndingFlag
<1>5. DetachedRan' BY <1>1 DEF Threaded, PlacesOK, DetachedRan
<1> QED BY <1>2, <1>3, <1>4, <1>5 DEF Threaded

LEMMA ThreadedStep ==
  ASSUME TypeOK, Threaded, [Next]_vars
  PROVE  Threaded'
BY ConnThreaded, SendThreaded, EndCaptureThreaded, EndThreaded, UserThreaded,
   OtherThreaded DEF Next

(* A thread that is going to set stopping_event, or to start one that does. *)
Owing == {"wait", "next", "send", "leave", "endCapture", "clearData", "spawnEnd",
          "signalStopOnly", "setEvent", "unhook", "event"}

Provided(p) == p[End] = "inactive" \/ \E t \in Threads : p[t] \in Owing

EventOwed == ~stoppingEvent /\ Without({"stopOverlap"}) => Provided(pc)

\* Thread t goes on to l, and is still going to set the event if it was.
StaysOwing(t, l) ==
  /\ pc' = [pc EXCEPT ![t] = l]
  /\ pc[t] \in Owing => l \in Owing \/ (t = End /\ l = "inactive")
  /\ t = End /\ pc[t] = "inactive" => l \in Owing

LEMMA ProviderStays ==
  ASSUME TypeOK, NEW t \in Threads, NEW l, StaysOwing(t, l), Provided(pc)
  PROVE  Provided(pc')
<1>1. PlacesOK(pc, ret) BY DEF TypeOK, Typed
<1>2. DOMAIN pc = Threads /\ pc'[t] = l /\ \A u \in Threads \ {t} : pc'[u] = pc[u]
  BY <1>1 DEF PlacesOK, StaysOwing
<1> QED BY <1>2, ThreadNames DEF Provided, StaysOwing

LEMMA EventOwedStep ==
  ASSUME TypeOK, Threaded, EventOwed, [Next]_vars
  PROVE  EventOwed'
<1> USE ThreadNames DEF At, Goto, Move, output, stream, encoders, user, hist, vars
<1>1. PlacesOK(pc, ret) BY DEF TypeOK, Typed
<1>2. ASSUME NEW g \in Starts, ConnectStep(g) PROVE EventOwed'
  <2>1. /\ UNCHANGED stoppingEvent /\ races \subseteq races'
        /\ \/ \E l \in ConnLabels : StaysOwing(Conn(g), l)
           \/ SpawnSend(g)
    BY <1>1, <1>2 DEF PlacesOK, StaysOwing, Owing, ConnLabels, Pre, EC, Begun,
       ConnectStep, InitConnect, JoinSend, ClearStream, TryConnect, SpawnSend,
       SetStreaming, SendMetaData, BeginCapture, Activate, SignalStart, Detach,
       ClearConnecting
  <2>2. Provided(pc) => Provided(pc')
    <3>1. CASE SpawnSend(g)
      BY <1>1, <3>1 DEF PlacesOK, Provided, SpawnSend, Owing
    <3> QED BY <2>1, <3>1, ProviderStays
  <2> QED BY <2>1, <2>2 DEF EventOwed, Without
<1>3. ASSUME NEW g \in Starts, SendStep(g) PROVE EventOwed'
  <2>1. /\ UNCHANGED stoppingEvent /\ races \subseteq races'
        /\ \E l \in SendLabels : StaysOwing(Send(g), l)
    BY <1>1, <1>3 DEF PlacesOK, StaysOwing, Owing, SendLabels, Loop, Ended, EC,
       SendStep, SemWait, BreakForced, NoPacket, LastPacket, TakePacket,
       SendPacket, LeaveLoop, ResetStopEvent, ClearStreaming, ClearHeaders
  <2> QED BY <2>1, ProviderStays DEF EventOwed, Without
<1>4. ASSUME NEW t \in Threads, EndCaptureStep(t) PROVE EventOwed'
  <2>1. t # End BY <1>4, WhoEnds DEF EC, EndCaptureStep, EndCapture, ClearData,
        SpawnEnd, SignalStopped, SignalStopOnly, SetStoppingEvent
  <2>2. CASE EndCapture(t) \/ ClearData(t) \/ SignalStopOnly(t)
    <3>1. /\ UNCHANGED <<stoppingEvent, races>>
          /\ \E l \in Labels : StaysOwing(t, l)
      BY <1>1, <2>1, <2>2 DEF PlacesOK, StaysOwing, Owing, Labels, ConnLabels,
         EC, EndCapture, ClearData, SignalStopOnly, StopSignal
    <3> QED BY <3>1, ProviderStays DEF EventOwed, Without
  <2>3. CASE SpawnEnd(t)
    BY <1>1, <2>1, <2>3 DEF PlacesOK, EventOwed, Provided, SpawnEnd, Owing
  <2>4. CASE SignalStopped(t)
    <3>1. /\ UNCHANGED <<stoppingEvent, races>>
          /\ StaysOwing(t, ret[t])
      BY <1>1, <2>1, <2>4 DEF PlacesOK, StaysOwing, Owing, SignalStopped,
         StopSignal
    <3> QED BY <3>1, ProviderStays DEF EventOwed, Without
  <2>5. CASE SetStoppingEvent(t)
    BY <2>5 DEF SetStoppingEvent, EventOwed
  <2> QED BY <1>4, <2>2, <2>3, <2>4, <2>5 DEF EndCaptureStep
<1>5. CASE EndStep
  <2>1. CASE Unhook \/ ClearActive
    <3>1. /\ UNCHANGED <<stoppingEvent, races>>
          /\ \E l \in EndLabels : StaysOwing(End, l)
      BY <1>1, <2>1 DEF PlacesOK, StaysOwing, Owing, EndLabels, Unhook,
         ClearActive
    <3> QED BY <3>1, ProviderStays DEF EventOwed, Without
  <2>2. CASE ClearEnding
    <3>1. /\ UNCHANGED <<stoppingEvent, races>>
          /\ StaysOwing(End, "done")
      BY <1>1, <2>2 DEF PlacesOK, StaysOwing, Owing, ClearEnding
    <3> QED BY <3>1, ProviderStays DEF EventOwed, Without
  <2>3. CASE SignalEnded
    BY <2>3 DEF SignalEnded, EventOwed
  <2> QED BY <1>5, <2>1, <2>2, <2>3 DEF EndStep
<1>6. CASE ResetStoppingEvent
  <2>1. CASE UNCHANGED stoppingEvent
    <3>1. /\ races \subseteq races' 
          /\ \E l \in UserLabels : StaysOwing(User, l)
      BY <1>1, <1>6, <2>1 DEF PlacesOK, StaysOwing, Owing, UserLabels, Stops,
         ResetStoppingEvent, Back
    <3> QED BY <2>1, <3>1, ProviderStays DEF EventOwed, Without
  <2>2. CASE Leaving(sendThread) /\ "stopOverlap" \in races'
    BY <2>2 DEF EventOwed, Without
  <2>3. CASE ~Leaving(sendThread)
    <3>1. sendThread \in Starts /\ pc[Send(sendThread)] \in Owing
      BY <1>1, <1>6, <2>3 DEF TypeOK, Typed, Values, Threaded, Named, Starts,
         ResetStoppingEvent, PlacesOK, Leaving, SendLabels, Ended, Loop, EC,
         Owing
    <3>2. pc'[Send(sendThread)] = pc[Send(sendThread)]
      BY <1>1, <1>6, <3>1 DEF PlacesOK, ResetStoppingEvent
    <3> QED BY <3>1, <3>2 DEF EventOwed, Provided
  <2> QED BY <1>6, <2>1, <2>2, <2>3 DEF ResetStoppingEvent
<1>7. CASE WaitStopped \/ CanBegin \/ JoinEnd \/ RtmpStop \/ JoinConnect
           \/ SetStopTs \/ SignalStopEvent
  <2>1. /\ UNCHANGED <<stoppingEvent, races>>
        /\ \E l \in UserLabels : StaysOwing(User, l)
    BY <1>1, <1>7 DEF PlacesOK, StaysOwing, Owing, UserLabels, Stops, Starting,
       EC, WaitStopped, CanBegin, JoinEnd, RtmpStop, JoinConnect, SetStopTs,
       SignalStopEvent, Back
  <2> QED BY <2>1, ProviderStays DEF EventOwed, Without
<1>8. CASE DestroyWait \/ DestroyJoin \/ RtmpDestroy \/ DestroyConnect
           \/ DestroyStop \/ DestroyActive \/ DestroySend
  <2>1. /\ UNCHANGED <<stoppingEvent, races>>
        /\ \E l \in UserLabels : StaysOwing(User, l)
    BY <1>1, <1>8 DEF PlacesOK, StaysOwing, Owing, UserLabels, EC, DestroyWait,
       DestroyJoin, RtmpDestroy, DestroyConnect, DestroyStop, DestroyActive,
       DestroySend
  <2> QED BY <2>1, ProviderStays DEF EventOwed, Without
<1>9. CASE StartConnecting
  <2>1. starts + 1 \in Starts /\ pc[Conn(starts + 1)] = "none"
    BY <1>9, BoundAssumption DEF TypeOK, Typed, Values, Room, Starts,
       StartConnecting, Starting, Threaded, Numbered
  <2>2. UNCHANGED <<stoppingEvent, races>> BY <1>9 DEF StartConnecting
  <2>3. Provided(pc) => Provided(pc')
    BY <1>1, <1>9, <2>1 DEF PlacesOK, Provided, Owing, StartConnecting
  <2> QED BY <2>2, <2>3 DEF EventOwed, Without
<1>10. CASE \/ UserStart \/ \E f \in BOOLEAN : UserStop(f) \/ UserDestroy
  <2>1. /\ UNCHANGED stoppingEvent /\ races \subseteq races'
        /\ \E l \in UserLabels : StaysOwing(User, l)
    BY <1>1, <1>10 DEF PlacesOK, StaysOwing, Owing, UserLabels, Starting,
       UserStart, UserStop, UserDestroy
  <2> QED BY <2>1, ProviderStays DEF EventOwed, Without
<1>11. CASE EncoderPacket \/ DropFrames \/ UNCHANGED vars
  BY <1>11 DEF EventOwed, Without, EncoderPacket, DropFrames
<1> QED BY <1>2, <1>3, <1>4, <1>5, <1>6, <1>7, <1>8, <1>9, <1>10, <1>11
        DEF Next, UserStep

LEMMA StreamStart ==
  ASSUME Init
  PROVE  TypeOK /\ Threaded /\ EventOwed
<1> USE ThreadNames
<1>1. TypeOK BY StartTypes
<1>2. \A t \in Threads : pc[t] = IF t = User THEN "idle" ELSE "none"
  BY DEF Init
<1>3. Threaded
  <2>1. /\ \A g \in Starts : pc[Conn(g)] = "none" /\ pc[Send(g)] = "none" /\ g # 0
        /\ pc[End] = "none" /\ pc[User] = "idle"
    BY <1>2 DEF Starts
  <2>2. Numbered BY <2>1 DEF Init, Numbered, Connecting
  <2>3. Named BY <2>1 DEF Init, Named, Going, At
  <2>4. EndingFlag BY <2>1 DEF Init, EndingFlag, At
  <2>5. DetachedRan BY DEF Init, DetachedRan
  <2> QED BY <2>2, <2>3, <2>4, <2>5 DEF Threaded
<1> QED BY <1>1, <1>3 DEF Init, EventOwed

(* When all threads came to rest stopping_event is set, so that the next    *)
(* obs_output_start or obs_output_destroy does not wait for ever, unless a  *)
(* stop by the user overlapped the end of the stream.  As long as the event *)
(* is reset some thread is still on its way to set it, or to start the end  *)
(* thread, which does; also when starts are hurried or connections break.   *)
THEOREM StartsNeverBlock == Spec => []StartNeverBlocks
<1>1. TypeOK /\ Threaded /\ EventOwed => StartNeverBlocks
  <2> SUFFICES ASSUME TypeOK, AtRest, EventOwed, Provided(pc) PROVE FALSE
    BY DEF StartNeverBlocks, EventOwed
  <2>1. \A t \in Threads \ {User} : pc[t] \in {"none", "done"}
    BY DEF AtRest, Settled, Running
  <2> QED BY <2>1, ThreadNames DEF AtRest, Provided, Owing
<1> QED BY <1>1, StreamStart, TypeStep, ThreadedStep, EventOwedStep, PTL
           DEF Spec

-----------------------------------------------------------------------------
(* A behaviour in which no start was hurried: the threads of the streams    *)
(* before have ended, and five places say where the others are.            *)

Unhurried == "hurried" \notin races

conn == IF starts = 0 THEN "none" ELSE pc[Conn(starts)]
send == IF starts = 0 THEN "none" ELSE pc[Send(starts)]
usr  == pc[User]
fin  == pc[End]
back == ret[User]

Lone ==
  /\ \A g \in Starts : g # starts => pc[Conn(g)] \in Ended /\ pc[Send(g)] \in Ended
  /\ usr \in Starting => conn \in Ended /\ send \in Ended /\ fin \in Ended
  /\ send # "none" => sendThread = starts
  /\ connecting <=> conn \notin Ended

Known == TypeOK /\ Threaded /\ Lone

(* What a step of a thread that has not ended is in terms of these places. *)
LEMMA PlacesKnown ==
  ASSUME Known
  PROVE  /\ conn \in ConnLabels /\ send \in SendLabels
         /\ usr \in UserLabels /\ fin \in EndLabels
         /\ starts \in Starts => conn = pc[Conn(starts)] /\ send = pc[Send(starts)]
         /\ \A g \in Starts : pc[Conn(g)] \notin Ended \/ pc[Send(g)] \notin Ended
                                => g = starts
         /\ DOMAIN pc = Threads /\ DOMAIN ret = Threads
         /\ starts = 0 \/ starts \in Starts
         /\ starts = 0 => conn = "none" /\ send = "none"
BY ThreadNames DEF Known, TypeOK, Typed, Values, PlacesOK, Lone, conn, send,
   usr, fin, Starts, ConnLabels, SendLabels, Ended

LEMMA ConnView ==
  ASSUME Known, NEW g \in Starts, ConnectStep(g)
  PROVE  /\ g = starts /\ UNCHANGED <<usr, fin, back>>
         /\ InitConnect(g) => UNCHANGED send /\ conn = "init" /\
                              conn' = IF stopEvent THEN "joinSend" ELSE "clear"
         /\ JoinSend(g) => UNCHANGED send /\ conn = "joinSend" /\ conn' = "clear"
         /\ ClearStream(g) => UNCHANGED send /\ conn = "clear" /\ conn' = "try"
         /\ TryConnect(g) => /\ UNCHANGED send /\ conn = "try"
                             /\ conn' \in {"spawn", "endCapture"}
         /\ SpawnSend(g) => conn = "spawn" /\ conn' = "streaming" /\ send' = "wait"
         /\ SetStreaming(g) => UNCHANGED send /\ conn = "streaming" /\ conn' = "metadata"
         /\ SendMetaData(g) => /\ UNCHANGED send /\ conn = "metadata"
                               /\ conn' \in {"begin", "endCapture"}
         /\ BeginCapture(g) => /\ UNCHANGED send /\ conn = "begin"
                               /\ conn' = IF active THEN "detach" ELSE "activate"
         /\ Activate(g) => UNCHANGED send /\ conn = "activate" /\ conn' = "signalStart"
         /\ SignalStart(g) => UNCHANGED send /\ conn = "signalStart" /\ conn' = "detach"
         /\ Detach(g) => UNCHANGED send /\ conn = "detach" /\ conn' = "connected"
         /\ ClearConnecting(g) => UNCHANGED send /\ conn = "connected" /\ conn' = "done"
<1> USE ThreadNames, PlacesKnown DEF At, Goto, Move, hist, stream
<1>1. g = starts
  BY DEF Ended, ConnectStep, InitConnect, JoinSend, ClearStream,
     TryConnect, SpawnSend, SetStreaming, SendMetaData, BeginCapture, Activate,
     SignalStart, Detach, ClearConnecting
<1>2. UNCHANGED <<usr, fin, back>> /\ UNCHANGED starts
  BY DEF usr, fin, back, ConnectStep, InitConnect, JoinSend, ClearStream,
     TryConnect, SpawnSend, SetStreaming, SendMetaData, BeginCapture, Activate,
     SignalStart, Detach, ClearConnecting
<1>3. /\ conn = pc[Conn(g)] /\ conn' = pc'[Conn(g)]
      /\ send = pc[Send(g)] /\ send' = pc'[Send(g)]
  BY <1>1, <1>2 DEF Starts, conn, send
<1> QED BY <1>1, <1>2, <1>3 DEF InitConnect, JoinSend, ClearStream,
     TryConnect, SpawnSend, SetStreaming, SendMetaData, BeginCapture, Activate,
     SignalStart, Detach, ClearConnecting

LEMMA SendView ==
  ASSUME Known, NEW g \in Starts, SendStep(g)
  PROVE  /\ g = starts /\ UNCHANGED <<conn, usr, fin, back>>
         /\ SemWait(g) => send = "wait" /\ send' = "next"
         /\ BreakForced(g) => send = "next" /\ send' = "leave"
         /\ NoPacket(g) => send = "next" /\ send' = "wait"
         /\ LastPacket(g) => send = "next" /\ send' = "leave"
         /\ TakePacket(g) => send = "next" /\ send' = "send"
         /\ SendPacket(g) => send = "send" /\ send' \in {"wait", "leave"}
         /\ LeaveLoop(g) => send = "leave" /\ send' = "endCapture"
         /\ ResetStopEvent(g) => send = "reset" /\ send' = "inactive"
         /\ ClearStreaming(g) => send = "inactive" /\ send' = "headers"
         /\ ClearHeaders(g) => send = "headers" /\ send' = "done"
<1> USE ThreadNames, PlacesKnown DEF At, Goto, Move, hist, stream
<1>1. g = starts
  BY DEF Ended, SendStep, SemWait, BreakForced, NoPacket, LastPacket,
     TakePacket, SendPacket, LeaveLoop, ResetStopEvent, ClearStreaming,
     ClearHeaders
<1>2. UNCHANGED <<usr, fin, back>> /\ UNCHANGED starts
  BY DEF usr, fin, back, SendStep, SemWait, BreakForced, NoPacket, LastPacket,
     TakePacket, SendPacket, LeaveLoop, ResetStopEvent, ClearStreaming,
     ClearHeaders
<1>3. /\ conn = pc[Conn(g)] /\ conn' = pc'[Conn(g)]
      /\ send = pc[Send(g)] /\ send' = pc'[Send(g)]
  BY <1>1, <1>2 DEF Starts, conn, send
<1>4. UNCHANGED conn
  BY <1>3 DEF SendStep, SemWait, BreakForced, NoPacket, LastPacket,
     TakePacket, SendPacket, LeaveLoop, ResetStopEvent, ClearStreaming,
     ClearHeaders
<1> QED BY <1>1, <1>2, <1>3, <1>4 DEF SemWait, BreakForced, NoPacket,
           LastPacket, TakePacket, SendPacket, LeaveLoop, ResetStopEvent,
           ClearStreaming, ClearHeaders

(* A step of obs_output_end_data_capture by a thread that is at p, goes to  *)
(* q and goes on at k afterwards.                                          *)
EndMove(p, q, k) ==
  /\ UNCHANGED <<active, stream, encoders, detached, user, starts, stops, races>>
  /\ \/ /\ p = "endCapture"
        /\ q = IF active /\ dataActive THEN "clearData" ELSE "signalStopOnly"
        /\ UNCHANGED <<dataActive, stoppingEvent, ending, fin, client, stopSignals>>
     \/ /\ p = "clearData" /\ q = "spawnEnd"
        /\ dataActive' = FALSE
        /\ UNCHANGED <<stoppingEvent, ending, fin, client, stopSignals>>
     \/ /\ p = "signalStopOnly" /\ q = "setEvent"
        /\ StopSignal
        /\ UNCHANGED <<dataActive, stoppingEvent, ending, fin>>
     \/ /\ p = "setEvent" /\ q = k
        /\ stoppingEvent' = TRUE
        /\ UNCHANGED <<dataActive, ending, fin, client, stopSignals>>
     \/ /\ p = "spawnEnd" /\ q = "signalStopped"
        /\ ending => fin = "done"
        /\ ending' = TRUE /\ fin' = "unhook"
        /\ UNCHANGED <<dataActive, stoppingEvent, client, stopSignals>>
     \/ /\ p = "signalStopped" /\ q = k
        /\ StopSignal
        /\ UNCHANGED <<dataActive, stoppingEvent, ending, fin>>

LEMMA EndCaptureMoves ==
  ASSUME Known, NEW t \in Threads, EndCaptureStep(t)
  PROVE  /\ t # End /\ pc[t] \in EC
         /\ EndMove(pc[t], pc'[t], ret[t])
         /\ ret' = ret
         /\ \A x \in Threads \ {t, End} : pc'[x] = pc[x]
<1> USE ThreadNames, PlacesKnown DEF At, Goto, Move, output
<1>1. t # End /\ pc[t] \in EC
  BY WhoEnds DEF Known, EC, EndCaptureStep, EndCapture, ClearData, SpawnEnd,
     SignalStopped, SignalStopOnly, SetStoppingEvent
<1>2. ret' = ret /\ \A x \in Threads \ {t, End} : pc'[x] = pc[x]
  BY DEF EndCaptureStep, EndCapture, ClearData, SpawnEnd,
     SignalStopped, SignalStopOnly, SetStoppingEvent
<1>3. CASE EndCapture(t) \/ ClearData(t)
  BY <1>1, <1>3 DEF EndCapture, ClearData, EndMove, fin, hist
<1>4. CASE SignalStopped(t) \/ SignalStopOnly(t)
  BY <1>1, <1>4 DEF SignalStopped, SignalStopOnly, EndMove, fin, hist
<1>5. CASE SetStoppingEvent(t)
  BY <1>1, <1>5 DEF SetStoppingEvent, EndMove, fin, hist
<1>6. CASE SpawnEnd(t)
  <2>1. End \notin detached BY DEF Known, TypeOK, Typed, Values
  <2> QED BY <1>1, <1>6, <2>1 DEF SpawnEnd, Joined, EndMove, fin, hist
<1> QED BY <1>1, <1>2, <1>3, <1>4, <1>5, <1>6 DEF EndCaptureStep

LEMMA EndCaptureView ==
  ASSUME Known, NEW t \in Threads, EndCaptureStep(t)
  PROVE  /\ UNCHANGED back
         /\ \/ /\ t = User /\ usr \in EC
               /\ UNCHANGED <<conn, send>> /\ EndMove(usr, usr', back)
            \/ /\ conn \in EC
               /\ UNCHANGED <<send, usr>> /\ EndMove(conn, conn', "detach")
            \/ /\ send \in EC
               /\ UNCHANGED <<conn, usr>> /\ EndMove(send, send', "reset")
<1> USE ThreadNames, PlacesKnown
<1>1. /\ t # End /\ pc[t] \in EC
      /\ EndMove(pc[t], pc'[t], ret[t])
      /\ ret' = ret /\ \A x \in Threads \ {t, End} : pc'[x] = pc[x]
  BY EndCaptureMoves
<1>2. UNCHANGED starts /\ UNCHANGED back BY <1>1 DEF EndMove, back
<1>3. CASE t = User
  <2>1. UNCHANGED <<conn, send>> BY <1>1, <1>2, <1>3 DEF conn, send
  <2> QED BY <1>1, <1>2, <1>3, <2>1 DEF usr, back
<1>4. ASSUME NEW g \in Starts, t = Conn(g)
      PROVE  /\ conn \in EC
             /\ UNCHANGED <<send, usr>> /\ EndMove(conn, conn', "detach")
  <2>1. g = starts /\ ret[t] = "detach"
    BY <1>1, <1>4 DEF Known, TypeOK, Typed, PlacesOK, Ended, EC
  <2>2. conn = pc[t] /\ conn' = pc'[t] /\ UNCHANGED <<send, usr>>
    BY <1>1, <1>2, <1>4, <2>1 DEF conn, send, usr, Starts
  <2> QED BY <1>1, <2>1, <2>2
<1>5. ASSUME NEW g \in Starts, t = Send(g)
      PROVE  /\ send \in EC
             /\ UNCHANGED <<conn, usr>> /\ EndMove(send, send', "reset")
  <2>1. g = starts /\ ret[t] = "reset"
    BY <1>1, <1>5 DEF Known, TypeOK, Typed, PlacesOK, Ended, EC
  <2>2. send = pc[t] /\ send' = pc'[t] /\ UNCHANGED <<conn, usr>>
    BY <1>1, <1>2, <1>5, <2>1 DEF conn, send, usr, Starts
  <2> QED BY <1>1, <2>1, <2>2
<1> QED BY <1>1, <1>2, <1>3, <1>4, <1>5

LEMMA EndView ==
  ASSUME Known, EndStep
  PROVE  /\ UNCHANGED <<conn, send, usr, back>>
         /\ Unhook => fin = "unhook" /\ fin' = "inactive"
         /\ ClearActive => fin = "inactive" /\ fin' = "event"
         /\ SignalEnded => fin = "event" /\ fin' = "ending"
         /\ ClearEnding => fin = "ending" /\ fin' = "done"
BY ThreadNames, PlacesKnown DEF At, Goto, Move, hist, conn, send, usr, fin,
   back, EndStep, Unhook, ClearActive, SignalEnded, ClearEnding

LEMMA JoinedView ==
  ASSUME Known
  PROVE  /\ Joined(End) => fin = "done"
         /\ Joined(Conn(connectThread)) => conn \in {"none", "connected", "done"}
         /\ Joined(Send(sendThread)) =>
              send \in {"none", "done"} \/ (starts # 0 /\ Send(starts) \in detached)
<1> USE ThreadNames, PlacesKnown DEF Joined, At
<1>1. Joined(End) => fin = "done" BY DEF Known, TypeOK, Typed, Values, fin
<1>2. Joined(Conn(connectThread)) => conn \in {"none", "connected", "done"}
  BY DEF Known, Threaded, Numbered, DetachedRan
<1>3. Joined(Send(sendThread)) =>
        send \in {"none", "done"} \/ (starts # 0 /\ Send(starts) \in detached)
  BY DEF Known, Lone
<1> QED BY <1>1, <1>2, <1>3

LEMMA StartView ==
  ASSUME Known
  PROVE  /\ WaitStopped => usr = "waitStopped" /\ usr' = "canBegin"
         /\ CanBegin => /\ usr = "canBegin"
                        /\ usr' = IF active THEN "idle"
                                  ELSE IF ending THEN "joinEnd" ELSE "connect"
         /\ JoinEnd => usr = "joinEnd" /\ usr' = "connect" /\ fin = "done"
         /\ StartConnecting =>
              /\ usr = "connect" /\ usr' = "idle"
              /\ \/ UNCHANGED <<conn, send, starts>>
                 \/ /\ starts' = starts + 1 /\ starts' \in Starts
                    /\ conn' = "init" /\ send' = "none"
         /\ WaitStopped \/ CanBegin \/ JoinEnd =>
              UNCHANGED <<conn, send, fin, back>>
         /\ StartConnecting => UNCHANGED <<fin, back>>
<1> USE ThreadNames, PlacesKnown, JoinedView DEF At, Goto, Move
<1>1. /\ WaitStopped => usr = "waitStopped" /\ usr' = "canBegin"
      /\ CanBegin => /\ usr = "canBegin"
                     /\ usr' = IF active THEN "idle"
                               ELSE IF ending THEN "joinEnd" ELSE "connect"
      /\ JoinEnd => usr = "joinEnd" /\ usr' = "connect" /\ fin = "done"
      /\ WaitStopped \/ CanBegin \/ JoinEnd =>
           UNCHANGED <<conn, send, fin, back>>
  BY DEF WaitStopped, CanBegin, JoinEnd, usr, fin, conn, send, back, hist
<1>2. ASSUME StartConnecting
      PROVE  /\ usr = "connect" /\ usr' = "idle"
             /\ \/ UNCHANGED <<conn, send, starts>>
                \/ /\ starts' = starts + 1 /\ starts' \in Starts
                   /\ conn' = "init" /\ send' = "none"
             /\ UNCHANGED <<fin, back>>
  <2>1. starts \in Nat /\ starts + 1 \in Starts /\ starts + 1 # 0
    BY <1>2, BoundAssumption DEF Known, TypeOK, Typed, Values, Room, Starts,
       StartConnecting, Starting
  <2>2. pc[Send(starts + 1)] = "none"
    BY <2>1 DEF Known, Threaded, Numbered
  <2>3. UNCHANGED <<fin, back>> /\ usr = "connect" /\ usr' = "idle"
    BY <1>2, <2>1 DEF StartConnecting, fin, back, usr
  <2>4. CASE UNCHANGED starts /\ Goto(User, "idle")
    BY <2>3, <2>4 DEF conn, send
  <2>5. CASE starts' = starts + 1
    BY <1>2, <2>1, <2>2, <2>3, <2>5 DEF StartConnecting, conn, send
  <2> QED BY <1>2, <2>3, <2>4, <2>5 DEF StartConnecting
<1> QED BY <1>1, <1>2

LEMMA StopView ==
  ASSUME Known
  PROVE  /\ ResetStoppingEvent =>
              /\ usr = "resetEvent"
              /\ usr' = IF stoppingEvent \/ forced THEN "rtmpStop" ELSE Back
         /\ RtmpStop => /\ usr = "rtmpStop"
                        /\ usr' = IF stopEvent /\ ~forced THEN Back
                                  ELSE IF connecting THEN "joinConnect" ELSE "setStopTs"
         /\ JoinConnect => /\ usr = "joinConnect" /\ usr' = "setStopTs"
                           /\ conn \in {"none", "connected", "done"}
         /\ SetStopTs =>
              /\ usr = "setStopTs"
              /\ \/ streaming /\ usr' = "signalStop" /\ UNCHANGED back
                 \/ ~streaming /\ usr' = "endCapture" /\ back' = Back
         /\ SignalStopEvent => usr = "signalStop" /\ usr' = Back
         /\ ResetStoppingEvent \/ RtmpStop \/ JoinConnect \/ SignalStopEvent =>
              UNCHANGED back
         /\ ResetStoppingEvent \/ RtmpStop \/ JoinConnect \/ SetStopTs
              \/ SignalStopEvent => UNCHANGED <<conn, send, fin>>
<1> USE ThreadNames, PlacesKnown, JoinedView DEF At, Goto, Move
<1>1. ResetStoppingEvent \/ RtmpStop \/ JoinConnect \/ SetStopTs
        \/ SignalStopEvent => UNCHANGED <<conn, send, fin>>
  BY DEF ResetStoppingEvent, RtmpStop, JoinConnect, SetStopTs, SignalStopEvent,
     fin, conn, send, hist
<1> QED BY <1>1 DEF ResetStoppingEvent, RtmpStop, JoinConnect, SetStopTs,
        SignalStopEvent, usr, back

LEMMA DestroyView ==
  ASSUME Known
  PROVE  /\ DestroyWait => /\ usr = "destroyWait"
                           /\ usr' = IF ending THEN "destroyJoin" ELSE "rtmpDestroy"
         /\ DestroyJoin => /\ usr = "destroyJoin" /\ usr' = "rtmpDestroy"
                           /\ fin = "done"
         /\ RtmpDestroy => /\ usr = "rtmpDestroy"
                           /\ usr' = IF stopEvent /\ ~connecting THEN "destroySend"
                                     ELSE IF connecting THEN "destroyConnect"
                                     ELSE IF streaming THEN "destroyStop" ELSE "freed"
         /\ DestroyConnect => /\ usr = "destroyConnect" /\ usr' = "destroyStop"
                              /\ conn \in {"none", "connected", "done"}
         /\ DestroyStop => usr = "destroyStop" /\ usr' = "destroyActive"
         /\ DestroyActive =>
              /\ usr = "destroyActive"
              /\ \/ ~streaming /\ usr' = "freed" /\ UNCHANGED back
                 \/ streaming /\ usr' = "endCapture" /\ back' = "destroySend"
         /\ DestroySend =>
              /\ usr = "destroySend" /\ usr' = "freed"
              /\ send \in {"none", "done"} \/ (starts # 0 /\ Send(starts) \in detached)
         /\ DestroyWait \/ DestroyJoin \/ RtmpDestroy \/ DestroyConnect \/ DestroyStop
              \/ DestroySend => UNCHANGED back
         /\ DestroyWait \/ DestroyJoin \/ RtmpDestroy \/ DestroyConnect
              \/ DestroyStop \/ DestroyActive \/ DestroySend =>
              UNCHANGED <<conn, send, fin>>
<1> USE ThreadNames, PlacesKnown, JoinedView DEF At, Goto, Move
<1>1. DestroyWait \/ DestroyJoin \/ RtmpDestroy \/ DestroyConnect \/ DestroyStop
        \/ DestroyActive \/ DestroySend => UNCHANGED <<conn, send, fin>>
  BY DEF DestroyWait, DestroyJoin, RtmpDestroy, DestroyConnect, DestroyStop,
     DestroyActive, DestroySend, fin, conn, send, hist
<1> QED BY <1>1 DEF DestroyWait, DestroyJoin, RtmpDestroy, DestroyConnect,
        DestroyStop, DestroyActive, DestroySend, usr, back

LEMMA OtherView ==
  ASSUME Known
  PROVE  /\ UserStart => usr = "idle" /\ usr' = "waitStopped"
         /\ \A f \in BOOLEAN : UserStop(f) => usr = "idle" /\ usr' = "resetEvent"
         /\ UserDestroy => /\ usr = "idle"
                           /\ usr' = IF active THEN "resetEvent" ELSE "destroyWait"
         /\ EncoderPacket \/ DropFrames \/ UNCHANGED vars => UNCHANGED usr
         /\ UserStart \/ UserDestroy \/ EncoderPacket \/ DropFrames
              \/ UNCHANGED vars \/ (\E f \in BOOLEAN : UserStop(f)) =>
              UNCHANGED <<conn, send, fin, back>>
<1> USE ThreadNames, PlacesKnown DEF At, Goto, Move, vars, output, stream
<1>1. UserStart \/ UserDestroy \/ EncoderPacket \/ DropFrames
        \/ UNCHANGED vars \/ (\E f \in BOOLEAN : UserStop(f)) =>
        UNCHANGED <<conn, send, fin, back>>
  BY DEF UserStart, UserStop, UserDestroy, EncoderPacket, DropFrames, conn,
     send, fin, back, hist
<1> QED BY <1>1 DEF UserStart, UserStop, UserDestroy, EncoderPacket, DropFrames,
           usr

\* The threads of the streams before stay as they are.
OthersStay ==
  /\ UNCHANGED starts
  /\ \A g \in Starts \ {starts} : /\ pc'[Conn(g)] = pc[Conn(g)]
                                  /\ pc'[Send(g)] = pc[Send(g)]

LEMMA LoneConn ==
  ASSUME Known, NEW g \in Starts, ConnectStep(g)
  PROVE  Lone'
<1> USE ThreadNames, PlacesKnown
<1>1. g = starts /\ UNCHANGED <<usr, fin>> BY ConnView
<1>2. OthersStay
  BY <1>1 DEF OthersStay, At, Goto, Move, hist, ConnectStep, InitConnect,
     JoinSend, ClearStream, TryConnect, SpawnSend, SetStreaming, SendMetaData,
     BeginCapture, Activate, SignalStart, Detach, ClearConnecting
<1>3. conn \notin Ended /\ (conn' \notin Ended <=> ~ClearConnecting(g))
  BY ConnView DEF Ended, ConnectStep
<1>4. connecting' = IF ClearConnecting(g) THEN FALSE ELSE connecting
  BY DEF ConnectStep, InitConnect, JoinSend, ClearStream, TryConnect, SpawnSend,
     SetStreaming, SendMetaData, BeginCapture, Activate, SignalStart, Detach,
     ClearConnecting, Move, stream
<1>5. IF SpawnSend(g) THEN sendThread' = g ELSE UNCHANGED <<sendThread, send>>
  <2>1. SpawnSend(g) => sendThread' = g BY DEF SpawnSend
  <2>2. ~SpawnSend(g) => UNCHANGED send BY ConnView DEF ConnectStep
  <2>3. ~SpawnSend(g) => UNCHANGED sendThread
    BY DEF ConnectStep, InitConnect, JoinSend, ClearStream, TryConnect,
       SetStreaming, SendMetaData, BeginCapture, Activate, SignalStart, Detach,
       ClearConnecting, Move, stream
  <2> QED BY <2>1, <2>2, <2>3
<1> QED BY <1>1, <1>2, <1>3, <1>4, <1>5 DEF Known, Lone, OthersStay

LEMMA LoneSend ==
  ASSUME Known, NEW g \in Starts, SendStep(g)
  PROVE  Lone'
<1> USE ThreadNames, PlacesKnown
<1>1. g = starts /\ UNCHANGED <<conn, usr, fin>> BY SendView
<1>2. OthersStay
  BY <1>1 DEF OthersStay, At, Goto, Move, hist, SendStep, SemWait, BreakForced,
     NoPacket, LastPacket, TakePacket, SendPacket, LeaveLoop, ResetStopEvent,
     ClearStreaming, ClearHeaders
<1>3. send \notin Ended BY SendView DEF Ended, SendStep
<1>4. UNCHANGED <<connecting, sendThread>>
  BY DEF SendStep, SemWait, BreakForced, NoPacket, LastPacket, TakePacket,
     SendPacket, LeaveLoop, ResetStopEvent, ClearStreaming, ClearHeaders, Move,
     stream
<1> QED BY <1>1, <1>2, <1>3, <1>4 DEF Known, Lone, OthersStay, Ended

LEMMA LoneEndCapture ==
  ASSUME Known, NEW t \in Threads, EndCaptureStep(t)
  PROVE  Lone'
<1> USE ThreadNames, PlacesKnown
<1>1. /\ t # End /\ pc[t] \in EC
      /\ EndMove(pc[t], pc'[t], ret[t])
      /\ ret' = ret /\ \A x \in Threads \ {t, End} : pc'[x] = pc[x]
  BY EndCaptureMoves
<1>2. OthersStay
  BY <1>1 DEF OthersStay, EndMove, Ended, EC
<1>3. UNCHANGED <<connecting, sendThread>> BY <1>1 DEF EndMove, stream
<1>4. CASE /\ t = User /\ usr \in EC
           /\ UNCHANGED <<conn, send>> /\ EndMove(usr, usr', back)
  <2>1. usr' \in EC \cup {back} /\ back \in {"idle", "destroyWait", "destroySend"}
    BY <1>4 DEF EndMove, EC, Known, TypeOK, Typed, PlacesOK, usr, back
  <2>2. usr' \notin Starting
    BY <2>1 DEF EC, Starting
  <2> QED BY <1>2, <1>3, <1>4, <2>2 DEF Known, Lone, OthersStay
<1>5. CASE conn \in EC /\ UNCHANGED <<send, usr>> /\ EndMove(conn, conn', "detach")
  <2>1. conn' \notin Ended /\ conn \notin Ended BY <1>5 DEF EndMove, EC, Ended
  <2> QED BY <1>2, <1>3, <1>5, <2>1 DEF Known, Lone, OthersStay
<1>6. CASE send \in EC /\ UNCHANGED <<conn, usr>> /\ EndMove(send, send', "reset")
  <2>1. send' # "none" /\ send \notin Ended BY <1>6 DEF EndMove, EC, Ended
  <2> QED BY <1>2, <1>3, <1>6, <2>1 DEF Known, Lone, OthersStay, Ended
<1> QED BY <1>4, <1>5, <1>6, EndCaptureView

LEMMA LoneEnd ==
  ASSUME Known, EndStep
  PROVE  Lone'
<1> USE ThreadNames, PlacesKnown
<1>1. /\ UNCHANGED <<conn, send, usr>> /\ fin \notin Ended
  BY EndView DEF EndStep, Ended
<1>2. OthersStay /\ UNCHANGED <<connecting, sendThread>>
  BY DEF OthersStay, At, Goto, hist, stream, EndStep, Unhook, ClearActive,
     SignalEnded, ClearEnding
<1> QED BY <1>1, <1>2 DEF Known, Lone, OthersStay

LEMMA LoneUser ==
  ASSUME Known, UserStep
  PROVE  Lone'
<1> USE ThreadNames, PlacesKnown
<1>1. CASE WaitStopped \/ CanBegin \/ JoinEnd
  <2>1. OthersStay /\ UNCHANGED <<connecting, sendThread>>
    BY <1>1 DEF OthersStay, At, Goto, Move, hist, stream, WaitStopped, CanBegin,
       JoinEnd
  <2>2. UNCHANGED <<conn, send, fin>> /\ usr \in Starting
    BY <1>1, StartView DEF Starting
  <2> QED BY <2>1, <2>2 DEF Known, Lone, OthersStay
<1>2. CASE StartConnecting
  <2>1. usr' = "idle" /\ usr \in Starting /\ UNCHANGED fin
    BY <1>2, StartView DEF Starting
  <2>2. UNCHANGED sendThread /\ conn \in Ended /\ send \in Ended
    BY <1>2, <2>1 DEF StartConnecting, Known, Lone
  <2>3. CASE UNCHANGED <<conn, send, starts, connecting>> /\ Goto(User, "idle")
    <3>1. OthersStay BY <2>3 DEF OthersStay, Goto
    <3> QED BY <2>1, <2>2, <2>3, <3>1 DEF Known, Lone, OthersStay, Starting
  <2>4. CASE /\ starts' = starts + 1 /\ starts' \in Starts /\ connecting'
             /\ conn' = "init" /\ send' = "none"
             /\ pc' = [pc EXCEPT ![User] = "idle", ![Conn(starts + 1)] = "init"]
    <3>1. \A g \in Starts : g # starts' =>
            pc'[Conn(g)] \in Ended /\ pc'[Send(g)] \in Ended
      BY <2>2, <2>4 DEF Known, Lone, conn, send, Starts
    <3> QED BY <2>1, <2>2, <2>4, <3>1 DEF Lone, Starting, Ended
  <2>5. \/ Goto(User, "idle") /\ UNCHANGED <<connecting, starts>>
        \/ /\ connecting' /\ starts' = starts + 1
           /\ pc' = [pc EXCEPT ![User] = "idle", ![Conn(starts + 1)] = "init"]
    BY <1>2 DEF StartConnecting
  <2>6. starts \in Nat BY DEF Known, TypeOK, Typed, Values
  <2> QED BY <1>2, <2>3, <2>4, <2>5, <2>6, StartView
<1>3. CASE ResetStoppingEvent \/ RtmpStop \/ JoinConnect \/ SetStopTs
           \/ SignalStopEvent
  <2>1. OthersStay /\ UNCHANGED <<connecting, sendThread>>
    BY <1>3 DEF OthersStay, At, Goto, Move, hist, stream, ResetStoppingEvent,
       RtmpStop, JoinConnect, SetStopTs, SignalStopEvent
  <2>2. UNCHANGED <<conn, send, fin>> /\ usr' \notin Starting
    BY <1>3, StopView DEF Starting, Back
  <2> QED BY <2>1, <2>2 DEF Known, Lone, OthersStay
<1>4. CASE DestroyWait \/ DestroyJoin \/ RtmpDestroy \/ DestroyConnect
           \/ DestroyStop \/ DestroyActive \/ DestroySend
  <2>1. OthersStay /\ UNCHANGED <<connecting, sendThread>>
    BY <1>4 DEF OthersStay, At, Goto, Move, hist, stream, DestroyWait,
       DestroyJoin, RtmpDestroy, DestroyConnect, DestroyStop, DestroyActive,
       DestroySend
  <2>2. UNCHANGED <<conn, send, fin>> /\ usr' \notin Starting
    BY <1>4, DestroyView DEF Starting
  <2> QED BY <2>1, <2>2 DEF Known, Lone, OthersStay
<1> QED BY <1>1, <1>2, <1>3, <1>4 DEF UserStep

LEMMA LoneOther ==
  ASSUME Known, Unhurried',
         \/ UserStart \/ \E f \in BOOLEAN : UserStop(f)
         \/ UserDestroy \/ EncoderPacket \/ DropFrames \/ UNCHANGED vars
  PROVE  Lone'
<1> USE ThreadNames, PlacesKnown
<1>1. OthersStay /\ UNCHANGED <<connecting, sendThread>>
  BY DEF OthersStay, At, Goto, hist, stream, UserStart, UserStop, UserDestroy,
     EncoderPacket, DropFrames, vars
<1>2. UNCHANGED <<conn, send, fin>> BY OtherView
<1>3. CASE UserStart
  <2>1. Settled BY <1>3 DEF UserStart, Unhurried
  <2>2. conn \in Ended /\ send \in Ended /\ fin \in Ended
    BY <2>1 DEF Settled, Running, conn, send, fin, Ended
  <2> QED BY <1>1, <1>2, <2>2 DEF Known, Lone, OthersStay
<1>4. CASE ~UserStart
  <2>1. usr' \in Starting => usr \in Starting BY <1>4, OtherView DEF Starting
  <2> QED BY <1>1, <1>2, <2>1, SMTT(30) DEF Known, Lone, OthersStay
<1> QED BY <1>3, <1>4

-----------------------------------------------------------------------------
(* The parts of the invariant of such a behaviour.                         *)

NoOverlap  == "stopOverlap" \notin races
NoEarlyBreak == "brokeEarly" \notin races
NoCutOff   == "cutOff" \notin races

Ending  == {"clearData", "spawnEnd"}
InLoop  == Loop \cup {"leave"}
Trying  == Pre \cup {"endCapture", "signalStopOnly", "setEvent"}
Left    == {"headers", "done"}
Destroying == {"destroyWait", "destroyJoin", "rtmpDestroy", "destroyConnect",
               "destroyStop", "destroyActive", "destroySend", "freed"}
SendDetached == starts # 0 /\ Send(starts) \in detached

(* Which places go together.                                               *)
Together ==
  /\ conn \in EC => conn \in {"endCapture", "signalStopOnly", "setEvent"}
  /\ conn = "none" => send = "none"
  /\ conn \in Going \cup {"signalStart"} => send # "none"
  /\ conn \in Trying =>
       fin \in Ended /\ send \in {"none", "wait"} /\ (send = "wait" => sendSem = 0)
  /\ streaming <=> send \notin {"none"} \cup Left /\ conn # "streaming"
  /\ active => conn \in Begun /\ send # "none"

(* Where a stop and a destruction meet the stream.                         *)
Visits ==
  /\ usr \in Destroying => destroying
  /\ usr \in Starting \cup {"idle"} => ~destroying
  /\ destroying => forced
  /\ usr \in EC => IF destroying THEN back \in {"destroyWait", "destroySend"}
                                 ELSE back = "idle"
  /\ usr \in {"destroyStop", "destroyActive", "destroySend", "freed"}
       \/ (usr \in EC /\ back = "destroySend") =>
       conn \in {"none", "connected", "done"}
  /\ usr \in Stops \cup {"resetEvent"} \/ (usr \in EC /\ back # "destroySend") =>
       conn \in Begun /\ send # "none"
  /\ usr \in EC /\ back # "destroySend" => send \in Left
  /\ ~NoCutOff => destroying
  /\ destroying /\ NoCutOff => conn \in Ended
  /\ usr = "destroyConnect" => ~NoCutOff

(* What is captured.                                                       *)
Capturing ==
  /\ conn \in Trying \/ usr \in Starting => ~dataActive /\ ~hooked /\ ~active
  /\ conn = "activate" => /\ dataActive /\ hooked /\ ~active /\ fin \in Ended
                          /\ send \notin Ending \cup {"signalStopped"}
  /\ dataActive => /\ hooked /\ fin \in Ended /\ (active \/ conn = "activate")
                   /\ send # "spawnEnd" /\ usr # "spawnEnd"
  /\ active => dataActive \/ send \in Ending \/ usr \in Ending
                 \/ fin \in {"unhook", "inactive"}
  /\ hooked => dataActive \/ send \in Ending \/ usr \in Ending \/ fin = "unhook"

(* The send thread has passed the test of active and data_active.          *)
Tested == {"signalStopOnly", "setEvent", "spawnEnd", "signalStopped", "reset",
           "inactive", "headers", "done"}

(* Nobody else gets past the test once a thread has.                       *)
OneEnds == NoCutOff =>
  /\ dataActive /\ usr \in EC \cup {"destroyStop", "destroyActive"} => send \in Tested
  /\ dataActive /\ usr \in {"destroyWait", "destroyJoin", "rtmpDestroy"} =>
       stopEvent \/ send \in Tested
  /\ send = "clearData" \/ usr = "clearData" => dataActive
  /\ send \in Ending \/ usr \in Ending => active /\ fin \in Ended
  /\ ~(send \in Ending /\ usr \in Ending)
  /\ fin \in {"unhook", "inactive"} => active
  /\ fin \in {"event", "ending"} => ~active

(* A stop that does not overlap the end of the stream comes while the send *)
(* thread is in its loop.                                                  *)
StopsEarly == NoOverlap =>
  /\ usr = "resetEvent" /\ send \in InLoop => active
  /\ usr \in Stops => send \in InLoop /\ ~stoppingEvent
  /\ usr \in EC => back = "destroySend"
  /\ NoCutOff \/ usr \notin EC \cup Destroying =>
       (fin \notin Ended =>
          send \in {"signalStopped", "reset", "inactive", "headers", "done"})
  /\ NoCutOff =>
       /\ usr \notin Ending
       /\ send \in InLoop /\ ~hooked =>
            (send = "wait" /\ sendSem = 0) \/ (destroying /\ stopEvent)
       /\ usr \in Stops => active /\ dataActive

(* The stop signal has not been sent before the thread that sends it is    *)
(* there.                                                                  *)
Signalled == NoOverlap =>
  /\ stopSignals =< 1
  /\ ~destroying =>
       /\ conn \in Pre \cup {"endCapture", "signalStopOnly"} => stopSignals = 0
       /\ send \in {"next", "send", "leave", "endCapture", "clearData", "spawnEnd",
                    "signalStopOnly", "signalStopped"} => stopSignals = 0
       /\ send = "wait" /\ stopSignals # 0 =>
            conn \in {"setEvent", "detach", "connected", "done"} /\ ~hooked
       /\ stopEvent => send \in Loop \cup EC \cup {"leave", "reset"}

(* A connection that does not break before the start signal.               *)
Announced == NoOverlap /\ NoEarlyBreak =>
  /\ dataActive => send \in InLoop \cup {"endCapture", "clearData"}
  /\ conn \in {"activate", "signalStart"} => send \in InLoop
  /\ send \in EC => conn \in {"detach", "connected", "done"}
  /\ ~destroying =>
       /\ client # "idle" =>
            \/ conn \in Pre \cup {"endCapture", "signalStopOnly", "activate",
                                  "signalStart"}
            \/ send \in InLoop \cup (EC \ {"setEvent"})
       /\ conn \in Trying \cup {"activate"} => stoppingEvent
       /\ usr \in {"canBegin", "joinEnd", "connect"} => stoppingEvent
       /\ send \in InLoop => fin \in Ended
       /\ send \in {"reset", "inactive", "headers"} \/ fin \notin Ended =>
            conn \in {"detach", "connected", "done"}
       /\ send \in {"endCapture", "clearData"} => active /\ dataActive
       /\ send \notin {"signalStopOnly", "setEvent"}

(* What is still running when the output is freed.                         *)
Freeing == NoOverlap /\ NoCutOff =>
  /\ usr = "destroyWait"
       /\ (dataActive \/ send \in Ending \/ fin \in {"unhook", "inactive"}) =>
       ~stoppingEvent /\ send \notin {"signalStopOnly", "setEvent"}
  /\ usr = "destroyJoin" => ~dataActive /\ send \notin Ending
  /\ usr \in EC \cup {"rtmpDestroy", "destroyStop", "destroyActive", "destroySend",
                      "freed"} =>
       ~dataActive /\ send \notin Ending /\ fin \in Ended
  /\ usr \in EC \cup {"destroyActive"} => stopEvent \/ send \in Tested
  /\ usr = "freed" => send \in {"none"} \cup Left
  /\ destroying /\ usr # "resetEvent" /\ SendDetached => send \in Ended

Parts == /\ Together /\ Visits /\ Capturing /\ OneEnds /\ StopsEarly /\ Signalled
         /\ Announced /\ Freeing

LEMMA ConnParts ==
  ASSUME Known, Parts, Unhurried', NEW g \in Starts, ConnectStep(g)
  PROVE  Parts'
<1> USE DEF NoOverlap, NoEarlyBreak, NoCutOff, Ending, InLoop, Trying, Left,
    Destroying, Tested, Going, Pre, EC, Begun, Loop, Starting, Stops, Ended,
    Parts, Together, Visits, Capturing, OneEnds, StopsEarly, Signalled,
    Announced, Freeing, Move, output, stream, encoders, user, hist
<1>0. /\ conn \in ConnLabels /\ send \in SendLabels /\ usr \in UserLabels
      /\ fin \in EndLabels /\ UNCHANGED <<usr, fin, back>> /\ g = starts
      /\ sendSem \in Nat /\ (conn = "spawn" => send = "none")
      /\ usr \in Starting => conn \in Ended
  BY PlacesKnown, ConnView DEF Known, TypeOK, Typed, Values, Threaded, Numbered,
     Connecting, Lone
<1>1. CASE InitConnect(g) BY <1>0, <1>1, ConnView DEF InitConnect
<1>2. CASE JoinSend(g) BY <1>0, <1>2, ConnView DEF JoinSend
<1>3. CASE ClearStream(g) BY <1>0, <1>3, ConnView DEF ClearStream
<1>4. CASE TryConnect(g) BY <1>0, <1>4, ConnView DEF TryConnect
<1>5. CASE SpawnSend(g) BY <1>0, <1>5, ConnView DEF SpawnSend
<1>6. CASE SetStreaming(g) BY <1>0, <1>6, ConnView DEF SetStreaming
<1>7. CASE SendMetaData(g) BY <1>0, <1>7, ConnView DEF SendMetaData
<1>8. CASE BeginCapture(g) BY <1>0, <1>8, ConnView DEF BeginCapture
<1>9. CASE Activate(g) BY <1>0, <1>9, ConnView DEF Activate
<1>10. CASE SignalStart(g) BY <1>0, <1>10, ConnView DEF SignalStart
<1>11. CASE Detach(g) BY <1>0, <1>11, ConnView DEF Detach
<1>12. CASE ClearConnecting(g)
  <2>1. UNCHANGED send /\ conn = "connected" /\ conn' = "done"
    BY <1>12, ConnView
  <2> QED BY <1>0, <1>12, <2>1 DEF ClearConnecting
<1> QED BY <1>1, <1>2, <1>3, <1>4, <1>5, <1>6, <1>7, <1>8, <1>9, <1>10, <1>11,
           <1>12 DEF ConnectStep

LEMMA SendParts ==
  ASSUME Known, Parts, Unhurried', NEW g \in Starts, SendStep(g)
  PROVE  Parts'
<1> USE DEF NoOverlap, NoEarlyBreak, NoCutOff, Ending, InLoop, Trying, Left,
    Destroying, Tested, Going, Pre, EC, Begun, Loop, Starting, Stops, Ended,
    Parts, Together, Visits, Capturing, OneEnds, StopsEarly, Signalled,
    Announced, Freeing, SendDetached, Move, output, stream, encoders, user, hist
<1>0. /\ conn \in ConnLabels /\ send \in SendLabels /\ usr \in UserLabels
      /\ fin \in EndLabels /\ UNCHANGED <<conn, usr, fin, back>> /\ g = starts
      /\ sendSem \in Nat /\ starts # 0
      /\ (usr \in Starting => send \in Ended)
      /\ (conn \in Connecting => send = "none")
  BY PlacesKnown, SendView DEF Known, TypeOK, Typed, Values, Lone, Starts,
     Threaded, Numbered
<1>1. CASE SemWait(g) BY <1>0, <1>1, SendView DEF SemWait
<1>2. CASE BreakForced(g) BY <1>0, <1>2, SendView DEF BreakForced
<1>3. CASE NoPacket(g) BY <1>0, <1>3, SendView DEF NoPacket
<1>4. CASE LastPacket(g) BY <1>0, <1>4, SendView DEF LastPacket
<1>5. CASE TakePacket(g) BY <1>0, <1>5, SendView DEF TakePacket
<1>6. CASE SendPacket(g)
  <2>0. send = "send" /\ send' \in {"wait", "leave"}
    BY <1>6, SendView
  <2> QED BY <1>0, <1>6, <2>0 DEF SendPacket
<1>7. CASE LeaveLoop(g)
  <2>0. /\ send = "leave" /\ send' = "endCapture"
        /\ ~active \/ conn = "signalStart" => ~NoEarlyBreak'
        /\ usr \in Stops => ~NoOverlap'
        /\ races \subseteq races' /\ ("cutOff" \in races' => "cutOff" \in races)
    BY <1>0, <1>7, SendView, PlacesKnown DEF LeaveLoop, Unannounced, Stopping,
       At, usr
  <2>1. /\ Together' /\ Visits' /\ Capturing' /\ OneEnds' /\ StopsEarly'
        /\ Signalled' /\ Announced'
    BY <1>0, <1>7, <2>0 DEF LeaveLoop
  <2>2. ASSUME NoOverlap', NoCutOff' PROVE Freeing'
    <3>1. /\ NoOverlap /\ NoCutOff /\ usr \notin Stops
          /\ UNCHANGED <<user, active, dataActive>>
          /\ UNCHANGED <<stopEvent, stoppingEvent, hooked, starts>>
          /\ detached' = IF stopEvent THEN detached ELSE detached \union {Send(g)}
      BY <1>7, <2>0, <2>2 DEF LeaveLoop
    <3>2. hooked => dataActive
      BY <1>0, <2>0, <3>1
    <3>3. destroying /\ usr # "resetEvent" => stopEvent
      BY <1>0, <2>0, <3>1, <3>2 DEF UserLabels
    <3>4. destroying /\ usr # "resetEvent" => ~SendDetached'
      BY <1>0, <2>0, <3>1, <3>3
    <3> QED BY <1>0, <2>0, <3>1, <3>4
  <2> QED BY <2>1, <2>2
<1>8. CASE ResetStopEvent(g)
  <2>0. send = "reset" /\ send' = "inactive"
    BY <1>8, SendView
  <2> QED BY <1>0, <1>8, <2>0 DEF ResetStopEvent
<1>9. CASE ClearStreaming(g)
  <2>0. send = "inactive" /\ send' = "headers"
    BY <1>9, SendView
  <2> QED BY <1>0, <1>9, <2>0 DEF ClearStreaming
<1>10. CASE ClearHeaders(g) BY <1>0, <1>10, SendView DEF ClearHeaders
<1> QED BY <1>1, <1>2, <1>3, <1>4, <1>5, <1>6, <1>7, <1>8, <1>9, <1>10
        DEF SendStep

LEMMA EndCaptureParts ==
  ASSUME Known, Parts, Unhurried', NEW t \in Threads, EndCaptureStep(t)
  PROVE  Parts'
<1> USE DEF NoOverlap, NoEarlyBreak, NoCutOff, Ending, InLoop, Trying, Left,
    Destroying, Tested, Going, Pre, EC, Begun, Loop, Starting, Stops, Ended,
    Parts, Together, Visits, Capturing, OneEnds, StopsEarly, Signalled,
    Announced, Freeing, SendDetached, StopSignal, stream, encoders, user
<1>0. /\ conn \in ConnLabels /\ send \in SendLabels /\ usr \in UserLabels
      /\ fin \in EndLabels /\ (ending <=> fin \notin Ended)
      /\ sendSem \in Nat /\ stopSignals \in Nat
      /\ usr \in Starting => conn \in Ended /\ send \in Ended
      /\ usr \in EC => back \in {"idle", "destroyWait", "destroySend"}
  BY PlacesKnown DEF Known, TypeOK, Typed, Values, PlacesOK, Lone, Threaded,
     EndingFlag, At, fin, usr, back
<1>1. CASE /\ usr \in EC /\ UNCHANGED <<conn, send, back>>
           /\ EndMove(usr, usr', back)
  BY <1>0, <1>1 DEF EndMove
<1>2. CASE /\ conn \in EC /\ UNCHANGED <<send, usr, back>>
           /\ EndMove(conn, conn', "detach")
  BY <1>0, <1>2 DEF EndMove
<1>3. CASE /\ send \in EC /\ UNCHANGED <<conn, usr, back>>
           /\ EndMove(send, send', "reset")
  BY <1>0, <1>3 DEF EndMove
<1> QED BY <1>1, <1>2, <1>3, EndCaptureView

LEMMA EndParts ==
  ASSUME Known, Parts, Unhurried', EndStep
  PROVE  Parts'
<1> USE DEF NoOverlap, NoEarlyBreak, NoCutOff, Ending, InLoop, Trying, Left,
    Destroying, Tested, Going, Pre, EC, Begun, Loop, Starting, Stops, Ended,
    Parts, Together, Visits, Capturing, OneEnds, StopsEarly, Signalled,
    Announced, Freeing, SendDetached, Back, Move, output, stream, encoders, user,
    hist
<1>0. /\ conn \in ConnLabels /\ send \in SendLabels /\ usr \in UserLabels
      /\ fin \in EndLabels /\ (ending <=> fin \notin Ended)
      /\ (connecting <=> conn \notin Ended)
      /\ sendSem \in Nat /\ stopSignals \in Nat
      /\ usr \in Starting => conn \in Ended /\ send \in Ended /\ fin \in Ended
      /\ SendDetached => send \notin InLoop
      /\ starts \in Nat
  BY PlacesKnown DEF Known, TypeOK, Typed, Values, Lone, Threaded, EndingFlag,
     At, fin, DetachedRan
<1>1. CASE Unhook
  <2>0. UNCHANGED <<conn, send, usr, back>> /\ fin = "unhook" /\ fin' = "inactive"
    BY <1>1, EndView
  <2>1. Together' BY <1>0, <1>1, <2>0 DEF Unhook
  <2>2. Visits' BY <1>0, <1>1, <2>0 DEF Unhook
  <2>3. Capturing' BY <1>0, <1>1, <2>0 DEF Unhook
  <2>4. OneEnds' BY <1>0, <1>1, <2>0 DEF Unhook
  <2>5. StopsEarly' BY <1>0, <1>1, <2>0 DEF Unhook
  <2>6. Signalled' BY <1>0, <1>1, <2>0 DEF Unhook
  <2>7. Announced' BY <1>0, <1>1, <2>0 DEF Unhook
  <2>8. Freeing' BY <1>0, <1>1, <2>0 DEF Unhook
  <2> HIDE DEF Together, Visits, Capturing, OneEnds, StopsEarly, Signalled,
      Announced, Freeing
  <2> QED BY <2>1, <2>2, <2>3, <2>4, <2>5, <2>6, <2>7, <2>8
<1>2. CASE ClearActive
  <2>0. UNCHANGED <<conn, send, usr, back>> /\ fin = "inactive" /\ fin' = "event"
    BY <1>2, EndView
  <2>1. Together' BY <1>0, <1>2, <2>0 DEF ClearActive
  <2>2. Visits' BY <1>0, <1>2, <2>0 DEF ClearActive
  <2>3. Capturing' BY <1>0, <1>2, <2>0 DEF ClearActive
  <2>4. OneEnds' BY <1>0, <1>2, <2>0 DEF ClearActive
  <2>5. StopsEarly' BY <1>0, <1>2, <2>0 DEF ClearActive
  <2>6. Signalled' BY <1>0, <1>2, <2>0 DEF ClearActive
  <2>7. Announced' BY <1>0, <1>2, <2>0 DEF ClearActive
  <2>8. Freeing' BY <1>0, <1>2, <2>0 DEF ClearActive
  <2> HIDE DEF Together, Visits, Capturing, OneEnds, StopsEarly, Signalled,
      Announced, Freeing
  <2> QED BY <2>1, <2>2, <2>3, <2>4, <2>5, <2>6, <2>7, <2>8
<1>3. CASE SignalEnded
  <2>0. UNCHANGED <<conn, send, usr, back>> /\ fin = "event" /\ fin' = "ending"
    BY <1>3, EndView
  <2>1. Together' BY <1>0, <1>3, <2>0 DEF SignalEnded
  <2>2. Visits' BY <1>0, <1>3, <2>0 DEF SignalEnded
  <2>3. Capturing' BY <1>0, <1>3, <2>0 DEF SignalEnded
  <2>4. OneEnds' BY <1>0, <1>3, <2>0 DEF SignalEnded
  <2>5. StopsEarly' BY <1>0, <1>3, <2>0 DEF SignalEnded
  <2>6. Signalled' BY <1>0, <1>3, <2>0 DEF SignalEnded
  <2>7. Announced' BY <1>0, <1>3, <2>0 DEF SignalEnded
  <2>8. Freeing' BY <1>0, <1>3, <2>0 DEF SignalEnded
  <2> HIDE DEF Together, Visits, Capturing, OneEnds, StopsEarly, Signalled,
      Announced, Freeing
  <2> QED BY <2>1, <2>2, <2>3, <2>4, <2>5, <2>6, <2>7, <2>8
<1>4. CASE ClearEnding
  <2>0. UNCHANGED <<conn, send, usr, back>> /\ fin = "ending" /\ fin' = "done"
    BY <1>4, EndView
  <2>1. Together' BY <1>0, <1>4, <2>0 DEF ClearEnding
  <2>2. Visits' BY <1>0, <1>4, <2>0 DEF ClearEnding
  <2>3. Capturing' BY <1>0, <1>4, <2>0 DEF ClearEnding
  <2>4. OneEnds' BY <1>0, <1>4, <2>0 DEF ClearEnding
  <2>5. StopsEarly' BY <1>0, <1>4, <2>0 DEF ClearEnding
  <2>6. Signalled' BY <1>0, <1>4, <2>0 DEF ClearEnding
  <2>7. Announced' BY <1>0, <1>4, <2>0 DEF ClearEnding
  <2>8. Freeing' BY <1>0, <1>4, <2>0 DEF ClearEnding
  <2> HIDE DEF Together, Visits, Capturing, OneEnds, StopsEarly, Signalled,
      Announced, Freeing
  <2> QED BY <2>1, <2>2, <2>3, <2>4, <2>5, <2>6, <2>7, <2>8
<1> QED BY <1>1, <1>2, <1>3, <1>4 DEF EndStep

LEMMA UserParts ==
  ASSUME Known, Parts, Unhurried', UserStep
  PROVE  Parts'
<1> USE DEF NoOverlap, NoEarlyBreak, NoCutOff, Ending, InLoop, Trying, Left,
    Destroying, Tested, Going, Pre, EC, Begun, Loop, Starting, Stops, Ended,
    Parts, Together, Visits, Capturing, OneEnds, StopsEarly, Signalled,
    Announced, Freeing, SendDetached, Back, Move, output, stream, encoders, user,
    hist
<1>0. /\ conn \in ConnLabels /\ send \in SendLabels /\ usr \in UserLabels
      /\ fin \in EndLabels /\ (ending <=> fin \notin Ended)
      /\ (connecting <=> conn \notin Ended)
      /\ sendSem \in Nat /\ stopSignals \in Nat
      /\ usr \in Starting => conn \in Ended /\ send \in Ended /\ fin \in Ended
      /\ SendDetached => send \notin InLoop
      /\ starts \in Nat
  BY PlacesKnown DEF Known, TypeOK, Typed, Values, Lone, Threaded, EndingFlag,
     At, fin, DetachedRan
<1>1. CASE WaitStopped BY <1>0, <1>1, StartView DEF WaitStopped
<1>2. CASE CanBegin BY <1>0, <1>2, StartView DEF CanBegin
<1>3. CASE JoinEnd BY <1>0, <1>3, StartView DEF JoinEnd
<1>4. CASE StartConnecting
  <2>1. /\ usr = "connect" /\ usr' = "idle" /\ UNCHANGED <<fin, back>>
        /\ conn \in Ended /\ send \in Ended /\ ~destroying
    BY <1>0, <1>4, StartView
  <2>2. CASE UNCHANGED starts
    <3>1. UNCHANGED <<conn, send>> BY <1>0, <1>4, <2>2, StartView
    <3>2. UNCHANGED <<client, stopSignals, connecting>>
      BY <1>0, <1>4, <2>2 DEF StartConnecting
    <3> QED BY <1>0, <1>4, <2>1, <2>2, <3>1, <3>2 DEF StartConnecting
  <2>3. CASE starts' = starts + 1
    <3>1. conn' = "init" /\ send' = "none" BY <1>0, <1>4, <2>3, StartView
    <3>2. stopSignals' = 0 BY <1>0, <1>4, <2>3 DEF StartConnecting
    <3> QED BY <1>0, <1>4, <2>1, <3>1, <3>2 DEF StartConnecting
  <2> QED BY <1>4, <2>2, <2>3, StartView
<1>5. CASE RtmpStop BY <1>0, <1>5, StopView DEF RtmpStop
<1>6. CASE JoinConnect BY <1>0, <1>6, StopView DEF JoinConnect
<1>7. CASE SetStopTs BY <1>0, <1>7, StopView DEF SetStopTs
<1>8. CASE SignalStopEvent BY <1>0, <1>8, StopView DEF SignalStopEvent
<1>9. CASE DestroyWait BY <1>0, <1>9, DestroyView DEF DestroyWait
<1>10. CASE DestroyJoin BY <1>0, <1>10, DestroyView DEF DestroyJoin
<1>11. CASE RtmpDestroy BY <1>0, <1>11, DestroyView DEF RtmpDestroy
<1>12. CASE DestroyConnect BY <1>0, <1>12, DestroyView DEF DestroyConnect
<1>13. CASE DestroyStop BY <1>0, <1>13, DestroyView DEF DestroyStop
<1>14. CASE DestroyActive BY <1>0, <1>14, DestroyView DEF DestroyActive
<1>15. CASE DestroySend BY <1>0, <1>15, DestroyView DEF DestroySend
<1>16. CASE ResetStoppingEvent
  <2>1. /\ usr = "resetEvent" /\ usr' \in {Back, "rtmpStop"}
        /\ UNCHANGED <<conn, send, fin, back>>
        /\ usr' = (IF stoppingEvent \/ forced THEN "rtmpStop" ELSE Back)
        /\ (usr' = "rtmpStop" \/ ~destroying)
    BY <1>0, <1>16, StopView
  <2>2. send \notin Loop => Leaving(sendThread)
    BY <1>0, <2>1, PlacesKnown DEF Known, Lone, Leaving, SendLabels
  <2>3. Together' BY <1>0, <1>16, <2>1, <2>2 DEF ResetStoppingEvent
  <2>4. Visits' BY <1>0, <1>16, <2>1, <2>2 DEF ResetStoppingEvent
  <2>5. Capturing' BY <1>0, <1>16, <2>1, <2>2 DEF ResetStoppingEvent
  <2>6. OneEnds' BY <1>0, <1>16, <2>1, <2>2 DEF ResetStoppingEvent
  <2>7. StopsEarly' BY <1>0, <1>16, <2>1, <2>2 DEF ResetStoppingEvent
  <2>8. Signalled' BY <1>0, <1>16, <2>1, <2>2 DEF ResetStoppingEvent
  <2>9. Announced' BY <1>0, <1>16, <2>1, <2>2 DEF ResetStoppingEvent
  <2>10. Freeing' BY <1>0, <1>16, <2>1, <2>2 DEF ResetStoppingEvent
  <2> HIDE DEF Together, Visits, Capturing, OneEnds, StopsEarly, Signalled,
      Announced, Freeing
  <2> QED BY <2>3, <2>4, <2>5, <2>6, <2>7, <2>8, <2>9, <2>10
<1> QED BY <1>1, <1>2, <1>3, <1>4, <1>5, <1>6, <1>7, <1>8, <1>9, <1>10, <1>11,
           <1>12, <1>13, <1>14, <1>15, <1>16 DEF UserStep

LEMMA OtherParts ==
  ASSUME Known, Parts, Unhurried',
         \/ UserStart \/ \E f \in BOOLEAN : UserStop(f)
         \/ UserDestroy \/ EncoderPacket \/ DropFrames \/ UNCHANGED vars
  PROVE  Parts'
<1> USE DEF NoOverlap, NoEarlyBreak, NoCutOff, Ending, InLoop, Trying, Left,
    Destroying, Tested, Going, Pre, EC, Begun, Loop, Starting, Stops, Ended,
    Parts, Together, Visits, Capturing, OneEnds, StopsEarly, Signalled,
    Announced, Freeing, SendDetached, Back, Move, output, stream, encoders, user,
    hist
<1>0. /\ conn \in ConnLabels /\ send \in SendLabels /\ usr \in UserLabels
      /\ fin \in EndLabels /\ (ending <=> fin \notin Ended)
      /\ (connecting <=> conn \notin Ended)
      /\ sendSem \in Nat /\ stopSignals \in Nat
      /\ usr \in Starting => conn \in Ended /\ send \in Ended /\ fin \in Ended
      /\ SendDetached => send \notin InLoop
      /\ starts \in Nat
  BY PlacesKnown DEF Known, TypeOK, Typed, Values, Lone, Threaded, EndingFlag,
     At, fin, DetachedRan
<1>1. UNCHANGED <<conn, send, fin, back>> BY OtherView
<1>2. CASE UserStart
  <2>1. usr = "idle" /\ usr' = "waitStopped" BY <1>2, OtherView
  <2>2. conn \in Ended /\ send \in Ended /\ fin \in Ended
    BY <1>1, <1>2, <2>1, LoneOther DEF Lone
  <2> QED BY <1>0, <1>1, <1>2, <2>1, <2>2 DEF UserStart
<1>3. ASSUME NEW f \in BOOLEAN, UserStop(f) PROVE Parts'
  BY <1>0, <1>1, <1>3, OtherView DEF UserStop
<1>4. CASE UserDestroy
  <2>1. /\ usr = "idle" /\ usr' = IF active THEN "resetEvent" ELSE "destroyWait"
        /\ connecting => ~NoCutOff'
        /\ SendDetached /\ send \notin Ended => ~NoCutOff'
        /\ races \subseteq races'
        /\ ("stopOverlap" \in races' => "stopOverlap" \in races)
    BY <1>4, OtherView, PlacesKnown DEF UserDestroy, Known, Lone, Running
  <2> QED BY <1>0, <1>1, <1>4, <2>1 DEF UserDestroy
<1>5. CASE EncoderPacket \/ DropFrames
  BY <1>0, <1>1, <1>5, OtherView DEF EncoderPacket, DropFrames
<1>6. CASE UNCHANGED vars
  BY <1>0, <1>1, <1>6, OtherView DEF vars
<1> QED BY <1>2, <1>3, <1>4, <1>5, <1>6

Safe == Unhurried => Lone /\ Parts

\* No step forgets a race.
LEMMA RacesGrow ==
  ASSUME TypeOK, [Next]_vars
  PROVE  races \subseteq races'
<1> USE DEF Move, hist
<1>1. UserStart \/ UserDestroy \/ (\E f \in BOOLEAN : UserStop(f)) =>
        races \subseteq races'
  BY DEF UserStart, UserDestroy, UserStop
<1>2. UserStep => races \subseteq races'
  <2>1. WaitStopped \/ CanBegin \/ JoinEnd \/ StartConnecting
          \/ ResetStoppingEvent \/ RtmpStop \/ JoinConnect \/ SetStopTs
          \/ SignalStopEvent => races \subseteq races'
    BY DEF WaitStopped, CanBegin, JoinEnd, StartConnecting, ResetStoppingEvent,
       RtmpStop, JoinConnect, SetStopTs, SignalStopEvent
  <2>2. DestroyWait \/ DestroyJoin \/ RtmpDestroy \/ DestroyConnect \/ DestroyStop
          \/ DestroyActive \/ DestroySend => races \subseteq races'
    BY DEF DestroyWait, DestroyJoin, RtmpDestroy, DestroyConnect, DestroyStop,
       DestroyActive, DestroySend
  <2> QED BY <2>1, <2>2 DEF UserStep
<1>3. \A g \in Starts : ConnectStep(g) => races \subseteq races'
  BY DEF ConnectStep, InitConnect, JoinSend, ClearStream, TryConnect, SpawnSend,
     SetStreaming, SendMetaData, BeginCapture, Activate, SignalStart, Detach,
     ClearConnecting
<1>4. \A g \in Starts : SendStep(g) => races \subseteq races'
  BY DEF SendStep, SemWait, BreakForced, NoPacket, LastPacket, TakePacket,
     SendPacket, LeaveLoop, ResetStopEvent, ClearStreaming, ClearHeaders
<1>5. \A t \in Threads : EndCaptureStep(t) => races \subseteq races'
  BY DEF EndCaptureStep, EndCapture, ClearData, SpawnEnd, SignalStopped,
     SignalStopOnly, SetStoppingEvent
<1>6. EndStep \/ EncoderPacket \/ DropFrames \/ UNCHANGED vars => races \subseteq races'
  BY DEF EndStep, Unhook, ClearActive, SignalEnded, ClearEnding, EncoderPacket,
     DropFrames, vars
<1> QED BY <1>1, <1>2, <1>3, <1>4, <1>5, <1>6 DEF Next

LEMMA SafeStep ==
  ASSUME TypeOK, Threaded, Safe, [Next]_vars
  PROVE  Safe'
<1> SUFFICES ASSUME Unhurried' PROVE (Lone /\ Parts)' BY DEF Safe
<1>1. Unhurried BY RacesGrow DEF Unhurried
<1>2. Known /\ Parts BY <1>1 DEF Known, Safe
<1>3. ASSUME NEW g \in Starts, ConnectStep(g) \/ SendStep(g) PROVE (Lone /\ Parts)'
  BY <1>2, <1>3, LoneConn, LoneSend, ConnParts, SendParts
<1>4. ASSUME NEW t \in Threads, EndCaptureStep(t) PROVE (Lone /\ Parts)'
  BY <1>2, <1>4, LoneEndCapture, EndCaptureParts
<1>5. CASE EndStep BY <1>2, <1>5, LoneEnd, EndParts
<1>6. CASE UserStep BY <1>2, <1>6, LoneUser, UserParts
<1>7. CASE UserStart \/ UserDestroy \/ EncoderPacket \/ DropFrames
           \/ UNCHANGED vars \/ \E f \in BOOLEAN : UserStop(f)
  BY <1>2, <1>7, LoneOther, OtherParts
<1> QED BY <1>3, <1>4, <1>5, <1>6, <1>7 DEF Next

LEMMA SafeStart ==
  ASSUME Init
  PROVE  Safe
<1>1. /\ conn = "none" /\ send = "none" /\ usr = "idle" /\ fin = "none"
      /\ \A g \in Starts : pc[Conn(g)] = "none" /\ pc[Send(g)] = "none"
  BY ThreadNames DEF Init, conn, send, usr, fin
<1>2. Lone BY <1>1 DEF Init, Lone, Ended, Starting
<1>3. Parts
  BY <1>1 DEF Init, Parts, Together, Visits, Capturing, OneEnds, StopsEarly,
     Signalled, Announced, Freeing, SendDetached, NoOverlap, NoEarlyBreak,
     NoCutOff, Ending, InLoop, Trying, Left, Destroying, Tested, Going, Pre, EC,
     Begun, Loop, Starting, Stops, Ended
<1> QED BY <1>2, <1>3 DEF Safe

LEMMA SafeAlways == Spec => [](TypeOK /\ Threaded /\ Safe)
BY StreamStart, SafeStart, TypeStep, ThreadedStep, SafeStep, PTL DEF Spec

LEMMA Exempt ==
  ASSUME NEW rs, Without(rs)
  PROVE  \A x \in rs : x \notin races
BY DEF Without

(* The place of a thread of a behaviour without hurried starts.            *)
LEMMA Whereabouts ==
  ASSUME Known
  PROVE  \A t \in Threads : pc[t] \in Ended \/ pc[t] \in {conn, send, usr, fin}
BY ThreadNames, PlacesKnown DEF usr, fin

(* Once a thread is past the test of active and data_active in              *)
(* obs_output_end_data_capture no other passes it and no end thread runs,  *)
(* until the end thread it starts has ended.                               *)
THEOREM EndsAlone == Spec => []OneEndThread
<1>1. TypeOK /\ Threaded /\ Safe => OneEndThread
  <2> SUFFICES ASSUME TypeOK, Threaded, Safe, Without({"hurried", "cutOff"}),
                      NEW t \in Threads, pc[t] \in {"clearData", "spawnEnd"}
               PROVE  /\ ~Running(End)
                      /\ \A v \in Threads \ {t} : pc[v] \notin {"clearData", "spawnEnd"}
    BY DEF OneEndThread
  <2>1. Unhurried /\ NoCutOff BY Exempt DEF Unhurried, NoCutOff
  <2>2. Known /\ Parts BY <2>1 DEF Known, Safe
  <2>3. \A v \in Threads : pc[v] \in {"clearData", "spawnEnd"} =>
          \/ v = User /\ usr \in Ending
          \/ starts # 0 /\ v = Send(starts) /\ send \in Ending
    <3> SUFFICES ASSUME NEW v \in Threads, pc[v] \in {"clearData", "spawnEnd"}
                 PROVE  \/ v = User /\ usr \in Ending
                        \/ starts # 0 /\ v = Send(starts) /\ send \in Ending
      OBVIOUS
    <3>1. v # End BY <2>2, PlacesKnown DEF fin, EndLabels, Ended
    <3>2. ASSUME NEW g \in Starts, v = Conn(g) PROVE FALSE
      <4>1. conn \in Ending
        BY <2>2, <3>2, PlacesKnown DEF Ended, Ending
      <4> QED BY <2>2, <4>1 DEF Parts, Together, EC, Ending
    <3>3. ASSUME NEW g \in Starts, v = Send(g)
          PROVE  starts # 0 /\ v = Send(starts) /\ send \in Ending
      BY <2>2, <3>3, PlacesKnown DEF Ended, Ending, Starts
    <3> QED BY <3>1, <3>2, <3>3, ThreadNames DEF usr, Ending
  <2>4. ~(usr \in Ending /\ send \in Ending)
    BY <2>1, <2>2 DEF Parts, OneEnds
  <2>5. fin \in Ended
    BY <2>1, <2>2, <2>3 DEF Parts, OneEnds
  <2> QED BY <2>3, <2>4, <2>5 DEF Running, fin, Ended
<1> QED BY <1>1, SafeAlways, PTL

(* A stream reports its end once: whoever is going to send the stop signal *)
(* finds that it has not been sent since the start.                        *)
THEOREM StopsSignalledOnce == Spec => []OneStopSignal
<1>1. Safe => OneStopSignal
  BY Exempt DEF Safe, Unhurried, OneStopSignal, Parts, Signalled, NoOverlap
<1> QED BY <1>1, SafeAlways, PTL

(* At rest the flags of output and stream are reset for the next start and *)
(* the client knows that there is no stream.                               *)
THEOREM NothingIsLeftOver == Spec => []NothingLeftOver
<1>1. TypeOK /\ Threaded /\ Safe => NothingLeftOver
  <2> SUFFICES ASSUME TypeOK, Threaded, Safe, AtRest,
                      Without({"stopOverlap", "brokeEarly", "hurried"})
               PROVE  /\ ~active /\ ~ending /\ ~hooked /\ ~streaming /\ ~connecting
                      /\ pc[User] = "idle" => ~stopEvent /\ client = "idle"
    BY DEF NothingLeftOver
  <2>1. Unhurried /\ NoOverlap /\ NoEarlyBreak
    BY Exempt DEF Unhurried, NoOverlap, NoEarlyBreak
  <2>2. Lone /\ Parts BY <2>1 DEF Safe
  <2>3. /\ conn \in Ended /\ send \in Ended /\ fin \in Ended
        /\ usr \in {"idle", "freed"}
    BY ThreadNames DEF AtRest, Settled, Running, conn, send, usr, fin, Ended,
       TypeOK, Typed, Values, Starts
  <2>4. ~dataActive /\ ~active /\ ~hooked
    BY <2>1, <2>2, <2>3 DEF Parts, Announced, Capturing, InLoop, Loop, Ending,
       Ended
  <2>5. ~ending /\ ~streaming /\ ~connecting
    BY <2>2, <2>3 DEF Threaded, EndingFlag, At, Lone, Parts, Together, fin,
       Ended, Left
  <2>6. usr = "idle" => ~stopEvent /\ client = "idle"
    BY <2>1, <2>2, <2>3 DEF Parts, Visits, Signalled, Announced, Ended, Loop,
       EC, InLoop, Pre, Starting
  <2> QED BY <2>4, <2>5, <2>6 DEF usr
<1> QED BY <1>1, SafeAlways, PTL

(* When the output is freed its threads have ended, but for the last store *)
(* of the send thread.                                                     *)
THEOREM ThreadsEndBeforeFree == Spec => []FreedAfterThreads
<1>1. TypeOK /\ Threaded /\ Safe => FreedAfterThreads
  <2> SUFFICES ASSUME TypeOK, Threaded, Safe, At(User, "freed"),
                      Without({"stopOverlap", "cutOff", "hurried"})
               PROVE  /\ ~Running(End)
                      /\ \A g \in Starts : /\ ~Running(Conn(g))
                                           /\ Running(Send(g)) => At(Send(g), "headers")
    BY DEF FreedAfterThreads
  <2>1. Unhurried /\ NoOverlap /\ NoCutOff
    BY Exempt DEF Unhurried, NoOverlap, NoCutOff
  <2>2. Known /\ Parts BY <2>1 DEF Known, Safe
  <2>3. fin \in Ended /\ send \in {"none", "headers", "done"} /\ conn \in Ended
    BY <2>1, <2>2 DEF Parts, Freeing, Visits, Destroying, Left, usr, At
  <2> QED BY <2>2, <2>3, PlacesKnown DEF Running, At, fin, Ended
<1> QED BY <1>1, SafeAlways, PTL

-----------------------------------------------------------------------------
(* The capture in every behaviour: a connect thread that has not activated  *)
(* the output yet is alone, finds nothing captured and nobody ending a      *)
(* capture; who ends one cleared data_active before the end thread starts.  *)

Beginning(g) == pc[Conn(g)] \in Pre \cup {"activate"}
Activating == \E g \in Starts : At(Conn(g), "activate")

AloneAtStart ==
  /\ usr \in Starting \/ (\E g \in Starts : Beginning(g)) =>
       /\ ~active /\ fin \notin {"unhook", "inactive"}
       /\ \A t \in Threads : pc[t] \notin Ending
  /\ usr \in Starting => \A g \in Starts : ~Beginning(g)
  /\ \A g, h \in Starts : Beginning(g) /\ Beginning(h) => g = h
  /\ usr \in Starting \/ (\E g \in Starts : pc[Conn(g)] \in Pre) =>
       ~dataActive /\ ~hooked
  /\ Activating => dataActive /\ hooked

Captured ==
  /\ dataActive => /\ hooked /\ fin \notin {"unhook", "inactive"}
                   /\ active \/ Activating
                   /\ \A t \in Threads : pc[t] # "spawnEnd"
  /\ hooked => dataActive \/ Unhooking
  /\ active => dataActive \/ Unhooking \/ fin = "inactive"

Balanced == AloneAtStart /\ Captured

\* A client that believes there is no stream has been told so.
Told == ~destroying /\ starts # 0 /\ client = "idle" => stopSignals # 0

\* A step that leaves alone what Balanced is about.
CaptureKept ==
  /\ UNCHANGED <<active, dataActive, hooked>>
  /\ \A l \in {"unhook", "inactive"} : fin' = l <=> fin = l
  /\ usr' \in Starting => usr \in Starting
  /\ \A t \in Threads : /\ pc'[t] = "clearData" <=> pc[t] = "clearData"
                        /\ pc'[t] = "spawnEnd" <=> pc[t] = "spawnEnd"
  /\ \A g \in Starts : /\ pc'[Conn(g)] \in Pre => pc[Conn(g)] \in Pre
                       /\ pc'[Conn(g)] = "activate" <=> pc[Conn(g)] = "activate"

LEMMA BalancedKept ==
  ASSUME Balanced, CaptureKept
  PROVE  Balanced'
<1>1. /\ \A g \in Starts : Beginning(g)' => Beginning(g)
      /\ Activating' <=> Activating
      /\ \A t \in Threads : pc'[t] \in Ending <=> pc[t] \in Ending
      /\ Unhooking' <=> Unhooking
  BY DEF CaptureKept, Beginning, Activating, Unhooking, Ending, At, fin
<1>2. AloneAtStart' BY <1>1 DEF Balanced, CaptureKept, AloneAtStart
<1>3. Captured' BY <1>1 DEF Balanced, CaptureKept, Captured
<1> QED BY <1>2, <1>3 DEF Balanced

(* One thread moves, and neither ends a capture nor begins one.            *)
LEMMA MoveKept ==
  ASSUME TypeOK, UNCHANGED <<active, dataActive, hooked>>,
         NEW t \in Threads \ {End}, NEW l, pc' = [pc EXCEPT ![t] = l],
         {pc[t], l} \cap {"clearData", "spawnEnd", "activate"} = {},
         l \in Pre => pc[t] \in Pre,
         t = User /\ l \in Starting => usr \in Starting
  PROVE  CaptureKept
<1>1. PlacesOK(pc, ret) BY DEF TypeOK, Typed
<1>2. \A u \in Threads : pc'[u] = IF u = t THEN l ELSE pc[u]
  BY <1>1 DEF PlacesOK
<1>3. UNCHANGED fin BY <1>2, ThreadNames DEF fin
<1>4. usr' \in Starting => usr \in Starting BY <1>2, ThreadNames DEF usr
<1> QED BY <1>2, <1>3, <1>4, ThreadNames DEF CaptureKept

LEMMA BalancedConn ==
  ASSUME TypeOK, Balanced, NEW g \in Starts, ConnectStep(g)
  PROVE  Balanced'
<1> USE ThreadNames DEF At, Goto, Move, output, stream, encoders, user, hist
<1>1. PlacesOK(pc, ret) BY DEF TypeOK, Typed
<1>2. CASE InitConnect(g) \/ JoinSend(g) \/ TryConnect(g) \/ SetStreaming(g)
           \/ ClearStream(g) \/ SendMetaData(g) \/ SpawnSend(g)
  <2> SUFFICES CaptureKept BY BalancedKept
  <2>1. CASE InitConnect(g) \/ JoinSend(g) \/ SetStreaming(g) \/ ClearStream(g)
    BY <1>1, <2>1 DEF PlacesOK, CaptureKept, Pre, usr, fin, InitConnect,
       JoinSend, SetStreaming, ClearStream
  <2>2. CASE TryConnect(g) \/ SendMetaData(g)
    <3>1. /\ UNCHANGED <<active, dataActive, hooked>>
          /\ \/ pc' = [pc EXCEPT ![Conn(g)] = "spawn"]
             \/ pc' = [pc EXCEPT ![Conn(g)] = "begin"]
             \/ pc' = [pc EXCEPT ![Conn(g)] = "endCapture"]
          /\ pc[Conn(g)] \in {"try", "metadata"}
      BY <2>2 DEF TryConnect, SendMetaData
    <3> QED BY <3>1, MoveKept DEF Pre
  <2>3. CASE SpawnSend(g)
    <3>1. /\ UNCHANGED <<active, dataActive, hooked>>
          /\ pc[Conn(g)] = "spawn"
          /\ \A u \in Threads : pc'[u] = IF u = Conn(g) THEN "streaming"
                                        ELSE IF u = Send(g) THEN "wait" ELSE pc[u]
      BY <1>1, <2>3 DEF SpawnSend, PlacesOK
    <3>2. pc[Send(g)] \notin {"clearData", "spawnEnd"}
      BY <3>1 DEF Balanced, AloneAtStart, Beginning, Pre, Ending
    <3> QED BY <3>1, <3>2 DEF CaptureKept, Pre, fin, usr
  <2> QED BY <1>2, <2>1, <2>2, <2>3
<1>3. CASE SignalStart(g) \/ Detach(g) \/ ClearConnecting(g)
  <2>1. CaptureKept
    BY <1>1, <1>3 DEF PlacesOK, CaptureKept, Pre, usr, fin, SignalStart, Detach,
       ClearConnecting
  <2> QED BY <2>1, BalancedKept
<1>4. CASE BeginCapture(g)
  <2>1. pc[Conn(g)] \in Pre /\ Beginning(g)
    BY <1>4 DEF BeginCapture, Pre, Beginning
  <2>2. ~active /\ ~dataActive /\ ~hooked /\ fin \notin {"unhook", "inactive"}
        /\ \A t \in Threads : pc[t] \notin Ending
    BY <2>1 DEF Balanced, AloneAtStart
  <2>3. /\ dataActive' /\ hooked' /\ UNCHANGED <<active, fin, usr>>
        /\ pc' = [pc EXCEPT ![Conn(g)] = "activate"]
    BY <1>1, <1>4, <2>2 DEF BeginCapture, PlacesOK, fin, usr
  <2>4. \A t \in Threads : pc'[t] \notin Ending
    BY <1>1, <2>2, <2>3 DEF PlacesOK, Ending
  <2>5. /\ \A h \in Starts : Beginning(h)' <=> Beginning(h)
        /\ Activating' /\ \A h \in Starts : pc'[Conn(h)] \notin Pre
    BY <1>1, <2>1, <2>3 DEF PlacesOK, Beginning, Activating, Balanced,
       AloneAtStart, Pre
  <2>6. AloneAtStart'
    BY <2>1, <2>2, <2>3, <2>4, <2>5 DEF Balanced, AloneAtStart
  <2>7. Captured'
    BY <2>2, <2>3, <2>4, <2>5 DEF Captured, Ending
  <2> QED BY <2>6, <2>7 DEF Balanced
<1>5. CASE Activate(g)
  <2>1. Beginning(g) /\ Activating BY <1>5 DEF Activate, Beginning, Activating
  <2>2. /\ active' /\ UNCHANGED <<dataActive, hooked, fin, usr>>
        /\ pc' = [pc EXCEPT ![Conn(g)] = "signalStart"]
    BY <1>1, <1>5 DEF Activate, PlacesOK, fin, usr
  <2>3. dataActive /\ hooked /\ usr \notin Starting
    BY <2>1 DEF Balanced, AloneAtStart
  <2>4. /\ \A h \in Starts : ~Beginning(h)' /\ pc'[Conn(h)] \notin Pre
        /\ ~Activating'
    BY <1>1, <2>1, <2>2 DEF PlacesOK, Beginning, Activating, Balanced,
       AloneAtStart, Pre
  <2>5. \A t \in Threads : pc'[t] # "spawnEnd"
    BY <1>1, <2>2, <2>3 DEF PlacesOK, Balanced, Captured
  <2>6. AloneAtStart' BY <2>2, <2>3, <2>4 DEF AloneAtStart
  <2>7. Captured' BY <2>2, <2>3, <2>5 DEF Balanced, Captured
  <2> QED BY <2>6, <2>7 DEF Balanced
<1> QED BY <1>2, <1>3, <1>4, <1>5 DEF ConnectStep

LEMMA BalancedSend ==
  ASSUME TypeOK, Balanced, NEW g \in Starts, SendStep(g)
  PROVE  Balanced'
<1>1. PlacesOK(pc, ret) BY DEF TypeOK, Typed
<1>2. CaptureKept
  BY <1>1, ThreadNames DEF PlacesOK, CaptureKept, usr, fin, At, Goto, Move,
     output, stream, encoders, user, hist, SendStep, SemWait, BreakForced,
     NoPacket, LastPacket, TakePacket, SendPacket, LeaveLoop, ResetStopEvent,
     ClearStreaming, ClearHeaders
<1> QED BY <1>2, BalancedKept

LEMMA BalancedEndCapture ==
  ASSUME TypeOK, Balanced, NEW t \in Threads, EndCaptureStep(t)
  PROVE  Balanced'
<1> USE ThreadNames DEF At, Goto, Move, output, stream, encoders, user, hist
<1>1. PlacesOK(pc, ret) BY DEF TypeOK, Typed
<1>2. t # End /\ pc[t] \in EC
  BY WhoEnds DEF EC, EndCaptureStep, EndCapture, ClearData, SpawnEnd,
     SignalStopped, SignalStopOnly, SetStoppingEvent
<1>3. ret[t] \notin EC \cup Pre \cup Starting \cup {"activate"}
  BY <1>1, <1>2, ThreadNames DEF PlacesOK, EC, Pre, Starting
<1>4. CASE SignalStopOnly(t) \/ SetStoppingEvent(t) \/ SignalStopped(t)
  <2>1. CaptureKept
    BY <1>1, <1>2, <1>3, <1>4 DEF PlacesOK, CaptureKept, Pre, EC, Starting, usr,
       fin, SignalStopOnly, SetStoppingEvent, SignalStopped
  <2> QED BY <2>1, BalancedKept
<1>5. CASE EndCapture(t)
  <2>1. CASE active /\ dataActive
    <3>1. usr \notin Starting /\ \A g \in Starts : ~Beginning(g)
      BY <2>1 DEF Balanced, AloneAtStart
    <3>2. /\ UNCHANGED <<active, dataActive, hooked, fin>>
          /\ pc' = [pc EXCEPT ![t] = "clearData"]
      BY <1>1, <1>2, <1>5, <2>1 DEF EndCapture, PlacesOK, fin
    <3>3. /\ usr' \notin Starting
          /\ \A g \in Starts : pc'[Conn(g)] \notin Pre \cup {"activate"}
      BY <1>1, <3>1, <3>2 DEF PlacesOK, usr, Beginning, Starting, Pre
    <3>4. \A v \in Threads : pc'[v] = "spawnEnd" => pc[v] = "spawnEnd"
      BY <1>1, <3>2 DEF PlacesOK
    <3>5. AloneAtStart'
      BY <3>3 DEF AloneAtStart, Beginning, Activating
    <3>6. Captured'
      BY <2>1, <3>1, <3>2, <3>4 DEF Balanced, Captured
    <3> QED BY <3>5, <3>6 DEF Balanced
  <2>2. CASE ~(active /\ dataActive)
    <3>1. CaptureKept
      BY <1>1, <1>2, <1>5, <2>2 DEF PlacesOK, CaptureKept, Pre, EC, Starting,
         usr, fin, EndCapture
    <3> QED BY <3>1, BalancedKept
  <2> QED BY <2>1, <2>2
<1>6. CASE ClearData(t) \/ SpawnEnd(t)
  <2>1. usr \notin Starting /\ \A g \in Starts : ~Beginning(g)
    BY <1>6 DEF Balanced, AloneAtStart, ClearData, SpawnEnd, Ending
  <2>2. /\ usr' \notin Starting
        /\ \A g \in Starts : pc'[Conn(g)] \notin Pre \cup {"activate"}
    BY <1>1, <1>2, <1>6, <2>1 DEF PlacesOK, usr, Beginning, Starting, Pre,
       ClearData, SpawnEnd
  <2>3. AloneAtStart' BY <2>2 DEF AloneAtStart, Beginning, Activating
  <2>4. Unhooking' /\ ~dataActive'
    <3>1. CASE ClearData(t)
      BY <1>1, <1>2, <3>1 DEF PlacesOK, ClearData, Unhooking
    <3>2. CASE SpawnEnd(t)
      BY <1>1, <1>2, <3>2 DEF PlacesOK, SpawnEnd, Unhooking, Balanced, Captured
    <3> QED BY <1>6, <3>1, <3>2
  <2>5. Captured' BY <2>4 DEF Captured
  <2> QED BY <2>3, <2>5 DEF Balanced
<1> QED BY <1>4, <1>5, <1>6 DEF EndCaptureStep

LEMMA BalancedEnd ==
  ASSUME TypeOK, Balanced, EndStep
  PROVE  Balanced'
<1> USE ThreadNames DEF At, Goto, output, stream, encoders, user, hist
<1>1. PlacesOK(pc, ret) BY DEF TypeOK, Typed
<1>2. \A t \in Threads \ {End} : pc'[t] = pc[t]
  BY <1>1 DEF PlacesOK, EndStep, Unhook, ClearActive, SignalEnded, ClearEnding
<1>3. /\ UNCHANGED usr
      /\ \A g \in Starts : pc'[Conn(g)] = pc[Conn(g)]
  BY <1>2 DEF usr
<1>4. /\ fin \notin Ending /\ fin' \notin Ending
      /\ \A t \in Threads : pc'[t] \in Ending <=> pc[t] \in Ending
      /\ \A t \in Threads : pc'[t] = "spawnEnd" <=> pc[t] = "spawnEnd"
  BY <1>1, <1>2 DEF PlacesOK, EndStep, Unhook, ClearActive, SignalEnded,
     ClearEnding, Ending, fin
<1>5. CASE Unhook
  <2>1. /\ ~hooked' /\ UNCHANGED <<active, dataActive>>
        /\ fin = "unhook" /\ fin' = "inactive"
    BY <1>1, <1>5 DEF PlacesOK, Unhook, fin
  <2>2. usr \notin Starting /\ (\A g \in Starts : ~Beginning(g)) /\ ~dataActive
    BY <2>1 DEF Balanced, AloneAtStart, Captured
  <2>3. AloneAtStart'
    BY <1>3, <2>2 DEF AloneAtStart, Beginning, Activating
  <2>4. Captured' BY <2>1, <2>2 DEF Captured
  <2> QED BY <2>3, <2>4 DEF Balanced
<1>6. CASE ClearActive
  <2>1. /\ ~active' /\ UNCHANGED <<hooked, dataActive>>
        /\ fin = "inactive" /\ fin' = "event"
    BY <1>1, <1>6 DEF PlacesOK, ClearActive, fin
  <2>2. usr \notin Starting /\ (\A g \in Starts : ~Beginning(g)) /\ ~dataActive
    BY <2>1 DEF Balanced, AloneAtStart, Captured
  <2>3. AloneAtStart'
    BY <1>3, <2>2 DEF AloneAtStart, Beginning, Activating
  <2>4. hooked => \E t \in Threads : pc[t] \in Ending
    BY <2>1, <2>2 DEF Balanced, Captured, Unhooking, fin, Ending
  <2>5. Captured'
    BY <1>4, <2>1, <2>2, <2>4 DEF Captured, Unhooking, Ending
  <2> QED BY <2>3, <2>5 DEF Balanced
<1>7. CASE SignalEnded \/ ClearEnding
  <2>1. /\ UNCHANGED <<active, dataActive, hooked>>
        /\ fin \in {"event", "ending"} /\ fin' \in {"ending", "done"}
    BY <1>1, <1>7 DEF PlacesOK, SignalEnded, ClearEnding, fin
  <2>2. CaptureKept
    BY <1>2, <1>3, <1>4, <2>1 DEF CaptureKept, Ending, fin
  <2> QED BY <2>2, BalancedKept
<1> QED BY <1>5, <1>6, <1>7 DEF EndStep

LEMMA BalancedUser ==
  ASSUME TypeOK, Balanced, UserStep
  PROVE  Balanced'
<1> USE ThreadNames DEF At, Goto, Move, output, stream, encoders, user, hist
<1>1. PlacesOK(pc, ret) BY DEF TypeOK, Typed
<1>2. CASE ~StartConnecting
  <2> DEFINE Hop(p, q) == /\ UNCHANGED <<active, dataActive, hooked>>
                           /\ pc[User] = p /\ pc' = [pc EXCEPT ![User] = q]
  <2>1. \/ \E p, q \in Starting \cup {"idle"} : p \in Starting /\ Hop(p, q)
        \/ \E p, q \in UserLabels \ (Starting \cup Ending) : Hop(p, q)
    <3>1. CASE WaitStopped \/ CanBegin \/ JoinEnd
      BY <3>1 DEF WaitStopped, CanBegin, JoinEnd, Starting
    <3>2. CASE ResetStoppingEvent \/ RtmpStop \/ JoinConnect \/ SetStopTs
                 \/ SignalStopEvent
      BY <3>2 DEF ResetStoppingEvent, RtmpStop, JoinConnect, SetStopTs, Back,
         SignalStopEvent, UserLabels, Starting, Stops, EC, Ending
    <3>3. CASE DestroyWait \/ DestroyJoin \/ RtmpDestroy \/ DestroyConnect
                 \/ DestroyStop \/ DestroyActive \/ DestroySend
      BY <3>3 DEF DestroyWait, DestroyJoin, RtmpDestroy, DestroyConnect,
         DestroyStop, DestroyActive, DestroySend, UserLabels, Starting, Stops,
         EC, Ending
    <3> QED BY <1>2, <3>1, <3>2, <3>3 DEF UserStep
  <2>2. CaptureKept
    BY <2>1, MoveKept DEF usr, UserLabels, Starting, Stops, EC, Ending, Pre
  <2> QED BY <2>2, BalancedKept
<1>3. CASE StartConnecting
  <2>1. /\ usr \in Starting /\ UNCHANGED <<active, dataActive, hooked>>
        /\ starts + 1 \in Starts
    BY <1>3, BoundAssumption DEF TypeOK, Typed, Values, Room, Starts, usr,
       StartConnecting, Starting
  <2>2. /\ ~active /\ ~dataActive /\ ~hooked
        /\ fin \notin {"unhook", "inactive"}
        /\ \A t \in Threads : pc[t] \notin Ending
        /\ \A g \in Starts : ~Beginning(g)
    BY <2>1 DEF Balanced, AloneAtStart
  <2>3. /\ usr' = "idle" /\ UNCHANGED fin
        /\ \A t \in Threads : pc'[t] \notin Ending
        /\ \A g \in Starts : /\ Beginning(g)' => g = starts + 1
                             /\ pc'[Conn(g)] # "activate"
    BY <1>1, <1>3, <2>1, <2>2 DEF StartConnecting, PlacesOK, usr, fin, Ending,
       Beginning
  <2>4. AloneAtStart'
    BY <2>1, <2>2, <2>3 DEF AloneAtStart, Starting, Activating
  <2>5. Captured' BY <2>1, <2>2 DEF Captured
  <2> QED BY <2>4, <2>5 DEF Balanced
<1> QED BY <1>2, <1>3

(* A start finds nobody beginning or ending a capture: either all threads   *)
(* have ended or, hurried, it is the first race of the behaviour, and the   *)
(* client has been told that the stream before stopped.                     *)
LEMMA StartFindsNone ==
  ASSUME TypeOK, Threaded, Safe, Told, UserStart
  PROVE  /\ fin \notin {"unhook", "inactive"}
         /\ \A t \in Threads : pc[t] \notin Ending
         /\ \A g \in Starts : ~Beginning(g)
<1> USE ThreadNames
<1>1. usr = "idle" /\ client = "idle" /\ ~active
  BY DEF UserStart, At, usr
<1>2. CASE Settled
  <2>1. \A t \in Threads \ {User} : pc[t] \in Ended
    BY <1>2 DEF Settled, Running, Ended
  <2> QED BY <1>1, <2>1 DEF usr, fin, Ended, Ending, Beginning, Pre
<1>3. CASE ~Settled
  <2>1. races = {} BY <1>3 DEF UserStart, MayHurryNow
  <2>2. Unhurried /\ NoOverlap /\ NoEarlyBreak /\ NoCutOff
    BY <2>1 DEF Unhurried, NoOverlap, NoEarlyBreak, NoCutOff
  <2>3. Known /\ Parts BY <2>2 DEF Safe, Known
  <2>4. ~destroying BY <1>1, <2>3 DEF Parts, Visits
  <2>5. send \notin Ending /\ fin \notin {"unhook", "inactive"}
    BY <1>1, <2>2, <2>3 DEF Parts, OneEnds
  <2>6. conn \notin EC \ {"endCapture", "signalStopOnly", "setEvent"}
    BY <2>3 DEF Parts, Together
  <2>7. \A t \in Threads : pc[t] \notin Ending
    BY <1>1, <2>3, <2>5, <2>6, Whereabouts, PlacesKnown DEF Ended, Ending, EC,
       EndLabels
  <2>8. conn \notin Pre \cup {"activate"}
    <3>1. CASE starts = 0 BY <2>3, <3>1, PlacesKnown DEF Pre
    <3>2. CASE starts # 0
      <4>1. stopSignals # 0 BY <1>1, <2>4, <3>2 DEF Told
      <4>2. conn \notin Pre
        BY <2>2, <2>3, <2>4, <4>1 DEF Parts, Signalled
      <4>3. conn = "activate" => send \in InLoop /\ hooked
        BY <2>2, <2>3 DEF Parts, Announced, Capturing
      <4>4. conn # "activate"
        BY <2>2, <2>3, <2>4, <4>1, <4>3 DEF Parts, Signalled, InLoop, Loop
      <4> QED BY <4>2, <4>4
    <3> QED BY <3>1, <3>2
  <2>9. \A g \in Starts : ~Beginning(g)
    BY <2>3, <2>8, PlacesKnown DEF Beginning, Ended, Pre
  <2> QED BY <2>5, <2>7, <2>9
<1> QED BY <1>2, <1>3

LEMMA BalancedOther ==
  ASSUME TypeOK, Threaded, Safe, Told, Balanced,
         \/ UserStart \/ \E f \in BOOLEAN : UserStop(f)
         \/ UserDestroy \/ EncoderPacket \/ DropFrames \/ UNCHANGED vars
  PROVE  Balanced'
<1> USE ThreadNames DEF At, Goto, output, stream, encoders, user, hist
<1>1. PlacesOK(pc, ret) BY DEF TypeOK, Typed
<1>2. CASE UserStart
  <2>1. /\ usr' = "waitStopped" /\ UNCHANGED <<active, dataActive, hooked, fin>>
        /\ \A t \in Threads \ {User} : pc'[t] = pc[t]
    BY <1>1, <1>2 DEF UserStart, PlacesOK, usr, fin
  <2>2. ~active BY <1>2 DEF UserStart
  <2>3. ~dataActive /\ ~hooked
    BY <1>2, <2>2, StartFindsNone DEF Balanced, Captured, Activating, Beginning,
       Unhooking, Ending, fin
  <2>4. AloneAtStart'
    BY <1>2, <2>1, <2>2, <2>3, StartFindsNone DEF AloneAtStart, Activating,
       Beginning, Ending, usr
  <2>5. Captured' BY <2>1, <2>2, <2>3 DEF Captured
  <2> QED BY <2>4, <2>5 DEF Balanced
<1>3. CASE UserDestroy \/ \E f \in BOOLEAN : UserStop(f)
  <2>1. /\ UNCHANGED <<active, dataActive, hooked>> /\ pc[User] = "idle"
        /\ \E l \in {"resetEvent", "destroyWait"} : pc' = [pc EXCEPT ![User] = l]
    BY <1>3 DEF UserDestroy, UserStop
  <2>2. CaptureKept BY <2>1, MoveKept DEF Pre, Starting
  <2> QED BY <2>2, BalancedKept
<1>4. CASE EncoderPacket \/ DropFrames \/ UNCHANGED vars
  <2>1. CaptureKept
    BY <1>4 DEF CaptureKept, EncoderPacket, DropFrames, vars, usr, fin
  <2> QED BY <2>1, BalancedKept
<1> QED BY <1>2, <1>3, <1>4

LEMMA BalancedStep ==
  ASSUME TypeOK, Threaded, Safe, Told, Balanced, [Next]_vars
  PROVE  Balanced'
BY BalancedConn, BalancedSend, BalancedEndCapture, BalancedEnd, BalancedUser,
   BalancedOther DEF Next

LEMMA ToldStep ==
  ASSUME TypeOK, Told, [Next]_vars
  PROVE  Told'
<1> USE DEF Move, user, hist, Told
<1>1. stopSignals \in Nat /\ starts \in Nat BY DEF TypeOK, Typed, Values
<1>2. ASSUME UserStart \/ UserDestroy \/ (\E f \in BOOLEAN : UserStop(f))
             \/ EncoderPacket \/ DropFrames \/ UNCHANGED vars
      PROVE  Told'
  BY <1>2 DEF UserStart, UserDestroy, UserStop, EncoderPacket, DropFrames, vars
<1>3. ASSUME UserStep PROVE Told'
  <2>1. CASE WaitStopped \/ CanBegin \/ JoinEnd \/ ResetStoppingEvent \/ RtmpStop
             \/ JoinConnect \/ SetStopTs \/ SignalStopEvent
    BY <2>1 DEF WaitStopped, CanBegin, JoinEnd, ResetStoppingEvent, RtmpStop,
       JoinConnect, SetStopTs, SignalStopEvent
  <2>2. CASE DestroyWait \/ DestroyJoin \/ RtmpDestroy \/ DestroyConnect
             \/ DestroyStop \/ DestroyActive \/ DestroySend
    BY <2>2 DEF DestroyWait, DestroyJoin, RtmpDestroy, DestroyConnect,
       DestroyStop, DestroyActive, DestroySend
  <2>3. CASE StartConnecting BY <2>3 DEF StartConnecting
  <2> QED BY <1>3, <2>1, <2>2, <2>3 DEF UserStep
<1>4. ASSUME NEW g \in Starts, ConnectStep(g) PROVE Told'
  BY <1>4 DEF ConnectStep, InitConnect, JoinSend, ClearStream, TryConnect,
     SpawnSend, SetStreaming, SendMetaData, BeginCapture, Activate, SignalStart,
     Detach, ClearConnecting
<1>5. ASSUME NEW g \in Starts, SendStep(g) PROVE Told'
  BY <1>5 DEF SendStep, SemWait, BreakForced, NoPacket, LastPacket, TakePacket,
     SendPacket, LeaveLoop, ResetStopEvent, ClearStreaming, ClearHeaders
<1>6. ASSUME NEW t \in Threads, EndCaptureStep(t) PROVE Told'
  BY <1>1, <1>6 DEF EndCaptureStep, EndCapture, SignalStopOnly,
     SetStoppingEvent, ClearData, SpawnEnd, SignalStopped, StopSignal
<1>7. ASSUME EndStep PROVE Told'
  BY <1>7 DEF EndStep, Unhook, ClearActive, SignalEnded, ClearEnding
<1> QED BY <1>2, <1>3, <1>4, <1>5, <1>6, <1>7 DEF Next

LEMMA BalancedStart == Init => Told /\ Balanced
<1> SUFFICES ASSUME Init PROVE Told /\ Balanced OBVIOUS
<1>1. \A t \in Threads : pc[t] \in {"idle", "none"} BY DEF Init
<1>2. usr = "idle" /\ fin = "none" /\ ~active /\ ~dataActive /\ ~hooked
      /\ starts = 0
  BY ThreadNames DEF Init, usr, fin
<1>3. Told BY <1>2 DEF Told
<1>4. AloneAtStart
  <2>1. \A t \in Threads : pc[t] \notin Pre \cup Ending \cup {"activate"}
    BY <1>1 DEF Pre, Ending
  <2>2. usr \notin Starting BY <1>2 DEF Starting
  <2> QED BY <2>1, <2>2, ThreadNames DEF AloneAtStart, Beginning, Activating, At
<1>5. Captured BY <1>2 DEF Captured
<1> QED BY <1>3, <1>4, <1>5 DEF Balanced

(* What captures has its callbacks connected, callbacks that are connected  *)
(* and an active output belong to a capture or to somebody who is ending    *)
(* it: active, data_active and the encoders' callbacks never come apart.    *)
THEOREM CaptureBalances == Spec => []CaptureBalanced
<1> DEFINE Inv == TypeOK /\ Threaded /\ Safe /\ Told /\ Balanced
<1>1. Init => Inv BY StreamStart, SafeStart, BalancedStart
<1>2. Inv /\ [Next]_vars => Inv'
  BY TypeStep, ThreadedStep, SafeStep, ToldStep, BalancedStep
<1>3. Inv => CaptureBalanced
  <2> SUFFICES ASSUME Inv
               PROVE  /\ dataActive => hooked
                      /\ hooked => dataActive \/ Unhooking
                      /\ active => dataActive \/ Running(End) \/ Unhooking
    BY DEF CaptureBalanced
  <2> QED BY DEF Balanced, Captured, Running, fin
<1> QED BY <1>1, <1>2, <1>3, PTL DEF Spec

-----------------------------------------------------------------------------
(* The refinement: what the stream shows of its life, from the five places. *)

Under == Pre \cup {"activate", "endCapture", "signalStopOnly"}

\* A behaviour without the races that ImplementsOutputLife leaves out, as far
\* as the destruction of the output.
Calm == Known /\ Parts /\ NoOverlap /\ NoEarlyBreak /\ ~destroying

LEMMA LifeView == Calm =>
  /\ LifePhase = IF active /\ ~ending
                   THEN IF stoppingEvent THEN "active" ELSE "stopping"
                   ELSE IF conn \in Under THEN "connecting" ELSE "idle"
  /\ LifeEnding <=> fin \in {"unhook", "inactive"}
  /\ LifeOwed <=> send = "signalStopped"
<1> SUFFICES ASSUME Calm
             PROVE  /\ (\E g \in Starts : Running(Conn(g)) /\ ~Over(g))
                          <=> conn \in Under
                    /\ (\E t \in Threads : At(t, "signalStopped"))
                          <=> send = "signalStopped"
  BY DEF LifePhase, LifeEnding, LifeOwed, fin
<1> USE ThreadNames, PlacesKnown DEF Calm
<1>1. conn \in EC => conn \in {"endCapture", "signalStopOnly", "setEvent"}
  BY DEF Parts, Together
<1>2. usr \notin EC BY DEF Parts, StopsEarly, Visits
<1>3. conn \in Under <=>
        conn \notin Ended \cup {"signalStart", "setEvent", "detach", "connected"}
  BY <1>1 DEF ConnLabels, Under, Ended, Pre, EC, Begun
<1>4. (\E g \in Starts : Running(Conn(g)) /\ ~Over(g)) <=> conn \in Under
  BY <1>3 DEF Running, Over, Ended
<1>5. send = "signalStopped" => \E t \in Threads : At(t, "signalStopped")
  BY DEF At
<1>6. ASSUME NEW t \in Threads, At(t, "signalStopped")
      PROVE  send = "signalStopped"
  BY <1>1, <1>2, <1>6, Whereabouts DEF At, EC, Ended, EndLabels
<1> QED BY <1>4, <1>5, <1>6

(* What a step does to these places and flags is a step of OutputLife.     *)
Phase == IF active /\ ~ending THEN IF stoppingEvent THEN "active" ELSE "stopping"
         ELSE IF conn \in Under THEN "connecting" ELSE "idle"
Unending == fin \notin {"unhook", "inactive"}
Owed == send = "signalStopped"

Same == UNCHANGED <<Phase, Unending, Owed>>
LifeStep ==
  \/ Same
  \/ Phase = "idle" /\ Unending /\ Phase' = "connecting" /\ UNCHANGED <<Unending, Owed>>
  \/ Phase = "connecting" /\ Phase' \in {"active", "idle"}
       /\ UNCHANGED <<Unending, Owed>>
  \/ Phase = "active" /\ Phase' = "stopping" /\ UNCHANGED <<Unending, Owed>>
  \/ Phase \in {"active", "stopping"} /\ Phase' = "idle" /\ ~Unending' /\ Owed'
  \/ ~Unending /\ Unending' /\ UNCHANGED <<Phase, Owed>>
  \/ Owed /\ ~Owed' /\ UNCHANGED <<Phase, Unending>>

LEMMA LifeConn ==
  ASSUME Calm, Calm', NEW g \in Starts, ConnectStep(g)
  PROVE  LifeStep
<1> USE DEF Calm, Known, NoOverlap, NoEarlyBreak, Under, Pre, EC, Begun, Ended,
    Phase, Unending, Owed, Same, LifeStep, Move, output, stream, hist
<1>0. UNCHANGED <<fin, ending, stoppingEvent>>
  BY ConnView DEF ConnectStep, InitConnect, JoinSend, ClearStream, TryConnect,
     SpawnSend, SetStreaming, SendMetaData, BeginCapture, Activate, SignalStart,
     Detach, ClearConnecting
<1>1. CASE InitConnect(g) \/ JoinSend(g) \/ TryConnect(g) \/ SetStreaming(g)
           \/ ClearStream(g) \/ SendMetaData(g)
  <2>1. UNCHANGED active
    BY <1>1 DEF InitConnect, JoinSend, TryConnect, SetStreaming, ClearStream,
       SendMetaData
  <2>2. conn \in Under /\ conn' \in Under /\ UNCHANGED send BY <1>1, ConnView
  <2> QED BY <1>0, <2>1, <2>2
<1>2. CASE SpawnSend(g)
  <2>1. conn \in Pre /\ conn' \in Pre /\ send' = "wait" /\ UNCHANGED active
    BY <1>2, ConnView DEF SpawnSend
  <2>2. send # "signalStopped" BY <2>1 DEF Parts, Together, Trying
  <2> QED BY <1>0, <2>1, <2>2
<1>3. CASE BeginCapture(g) \/ SignalStart(g) \/ Detach(g) \/ ClearConnecting(g)
  <2>1. ~active \/ conn # "begin" BY DEF Parts, Together
  <2>2. UNCHANGED <<active, send>>
    BY <1>3, ConnView DEF BeginCapture, SignalStart, Detach, ClearConnecting
  <2>3. conn' \in Under <=> conn \in Under
    BY <1>3, <2>1, ConnView DEF BeginCapture
  <2> QED BY <1>0, <2>2, <2>3
<1>4. CASE Activate(g)
  <2>1. conn = "activate" /\ conn' = "signalStart" /\ active' /\ UNCHANGED send
    BY <1>4, ConnView DEF Activate
  <2>2. ~active /\ fin \in Ended /\ stoppingEvent
    BY <2>1 DEF Parts, Capturing, Announced
  <2>3. ~ending BY <2>2 DEF Threaded, EndingFlag, At, fin
  <2> QED BY <1>0, <2>1, <2>2, <2>3
<1> QED BY <1>1, <1>2, <1>3, <1>4 DEF ConnectStep

LEMMA LifeSend ==
  ASSUME Calm, Calm', NEW g \in Starts, SendStep(g)
  PROVE  LifeStep
<1>1. /\ UNCHANGED <<conn, fin, active, ending, stoppingEvent>>
      /\ send # "signalStopped" /\ send' # "signalStopped"
  BY SendView DEF Calm, Move, output, SendStep, SemWait, BreakForced, NoPacket,
     LastPacket, TakePacket, SendPacket, LeaveLoop, ResetStopEvent,
     ClearStreaming, ClearHeaders
<1> QED BY <1>1 DEF Phase, Unending, Owed, Same, LifeStep

LEMMA LifeEndCapture ==
  ASSUME Calm, Calm', NEW t \in Threads, EndCaptureStep(t)
  PROVE  LifeStep
<1> USE PlacesKnown DEF Calm, Under, Pre, EC, Begun, Ended, Phase, Unending, Owed,
    Same, LifeStep, hist
<1>1. CASE usr \in EC BY <1>1 DEF Parts, StopsEarly, Visits
<1>2. CASE conn \in EC /\ UNCHANGED send /\ EndMove(conn, conn', "detach")
  <2>1. ~active /\ conn \in {"endCapture", "signalStopOnly", "setEvent"}
    BY <1>2 DEF Parts, Together
  <2> QED BY <1>2, <2>1 DEF EndMove
<1>3. CASE send \in EC /\ UNCHANGED conn /\ EndMove(send, send', "reset")
  <2>1. conn \notin Under /\ send \notin {"signalStopOnly", "setEvent"}
    BY <1>3 DEF Parts, Announced
  <2>2. send = "spawnEnd" => active /\ fin \in Ended /\ ~ending
    BY DEF Parts, OneEnds, Ending, Visits, Known, Threaded, EndingFlag, At, fin
  <2> QED BY <1>3, <2>1, <2>2 DEF EndMove
<1> QED BY <1>1, <1>2, <1>3, EndCaptureView

LEMMA LifeEnd ==
  ASSUME Calm, Calm', EndStep
  PROVE  LifeStep
<1> USE DEF Calm, Ended, Phase, Unending, Owed, Same, LifeStep
<1>1. UNCHANGED <<conn, send>> BY EndView
<1>2. /\ ending <=> fin \notin Ended
      /\ ending' <=> fin' \notin Ended
  BY DEF Known, Threaded, EndingFlag, At, fin
<1>3. fin = "ending" => ~active BY DEF Parts, OneEnds, Visits
<1>4. CASE Unhook
  BY <1>1, <1>4, EndView DEF output, Unhook
<1>5. CASE SignalEnded
  BY <1>1, <1>2, <1>5, EndView DEF SignalEnded
<1>6. CASE ClearEnding
  BY <1>1, <1>2, <1>3, <1>6, EndView DEF ClearEnding
<1>7. CASE ClearActive
  BY <1>1, <1>2, <1>7, EndView DEF ClearActive
<1> QED BY <1>4, <1>5, <1>6, <1>7 DEF EndStep

LEMMA LifeUser ==
  ASSUME Calm, Calm', UserStep
  PROVE  LifeStep
<1> USE DEF Calm, Ended, Phase, Unending, Owed, Same, LifeStep, Move, output
<1>1. CASE WaitStopped \/ CanBegin \/ JoinEnd \/ RtmpStop \/ JoinConnect
           \/ SetStopTs \/ SignalStopEvent
  <2>1. UNCHANGED <<conn, send, fin>> BY <1>1, StartView, StopView
  <2>2. UNCHANGED <<active, ending, stoppingEvent>>
    BY <1>1 DEF WaitStopped, CanBegin, JoinEnd, RtmpStop, JoinConnect,
       SetStopTs, SignalStopEvent
  <2> QED BY <2>1, <2>2
<1>2. CASE StartConnecting
  <2>1. usr \in Starting /\ UNCHANGED <<active, ending, stoppingEvent, fin>>
    BY <1>2, StartView DEF StartConnecting, Starting
  <2>2. conn \in Ended /\ send \in Ended /\ fin \in Ended /\ ~active
    BY <2>1 DEF Known, Lone, Parts, Capturing
  <2>3. \/ UNCHANGED <<conn, send>>
        \/ conn' = "init" /\ send' = "none"
    <3>1. CASE UNCHANGED <<conn, send, starts>> BY <3>1
    <3>2. CASE conn' = "init" /\ send' = "none" BY <3>2
    <3> QED BY <1>2, <3>1, <3>2, StartView
  <2> QED BY <2>1, <2>2, <2>3 DEF Under, Pre
<1>3. CASE ResetStoppingEvent
  <2>1. UNCHANGED <<conn, send, fin, active, ending>>
    BY <1>3, StopView DEF ResetStoppingEvent
  <2>2. UNCHANGED stoppingEvent \/ ~stoppingEvent'
    BY <1>3 DEF ResetStoppingEvent
  <2>3. stoppingEvent \in BOOLEAN BY DEF Known, TypeOK, Typed, Flags
  <2> QED BY <2>1, <2>2, <2>3
<1>4. CASE DestroyWait \/ DestroyJoin \/ RtmpDestroy \/ DestroyConnect
           \/ DestroyStop \/ DestroyActive \/ DestroySend
  BY <1>4, DestroyView DEF Parts, Visits, Destroying
<1> QED BY <1>1, <1>2, <1>3, <1>4 DEF UserStep

LEMMA LifeOther ==
  ASSUME Calm, Calm',
         \/ UserStart \/ \E f \in BOOLEAN : UserStop(f)
         \/ UserDestroy \/ EncoderPacket \/ DropFrames \/ UNCHANGED vars
  PROVE  LifeStep
<1>1. UNCHANGED <<conn, send, fin>> BY OtherView DEF Calm
<1>2. ~UserDestroy BY DEF Calm, UserDestroy
<1>3. UNCHANGED <<active, ending, stoppingEvent>>
  BY <1>2 DEF output, vars, UserStart, UserStop, EncoderPacket, DropFrames
<1> QED BY <1>1, <1>3 DEF Phase, Unending, Owed, Same, LifeStep

LEMMA LifeNext ==
  ASSUME Calm, Calm', [Next]_vars
  PROVE  LifeStep
BY LifeConn, LifeSend, LifeEndCapture, LifeEnd, LifeUser, LifeOther DEF Next

\* The output is destroyed once.
LEMMA DestroyedForGood ==
  ASSUME [Next]_vars, destroying
  PROVE  destroying'
<1> USE DEF Move, user
<1>1. ASSUME UserStart \/ UserDestroy \/ (\E f \in BOOLEAN : UserStop(f))
             \/ EncoderPacket \/ DropFrames \/ UNCHANGED vars
      PROVE  destroying'
  BY <1>1 DEF UserStart, UserDestroy, UserStop, EncoderPacket, DropFrames, vars
<1>2. ASSUME UserStep PROVE destroying'
  BY <1>2 DEF UserStep, WaitStopped, CanBegin, JoinEnd, StartConnecting,
     ResetStoppingEvent, RtmpStop, JoinConnect, SetStopTs, SignalStopEvent,
     DestroyWait, DestroyJoin, RtmpDestroy, DestroyConnect, DestroyStop,
     DestroyActive, DestroySend
<1>3. ASSUME NEW g \in Starts, ConnectStep(g) PROVE destroying'
  BY <1>3 DEF ConnectStep, InitConnect, JoinSend, ClearStream, TryConnect,
     SpawnSend, SetStreaming, SendMetaData, BeginCapture, Activate, SignalStart,
     Detach, ClearConnecting
<1>4. ASSUME NEW g \in Starts, SendStep(g) PROVE destroying'
  BY <1>4 DEF SendStep, SemWait, BreakForced, NoPacket, LastPacket, TakePacket,
     SendPacket, LeaveLoop, ResetStopEvent, ClearStreaming, ClearHeaders
<1>5. ASSUME NEW t \in Threads, EndCaptureStep(t) PROVE destroying'
  BY <1>5 DEF EndCaptureStep, EndCapture, SignalStopOnly, SetStoppingEvent,
     ClearData, SpawnEnd, SignalStopped, StopSignal
<1>6. ASSUME EndStep PROVE destroying'
  BY <1>6 DEF EndStep, Unhook, ClearActive, SignalEnded, ClearEnding
<1> QED BY <1>1, <1>2, <1>3, <1>4, <1>5, <1>6 DEF Next


(* The stream implements the output that the recorder relies on: every step *)
(* until the destruction or a race is one of OutputLife or changes nothing  *)
(* of what it shows.                                                        *)
THEOREM ImplementsLife == Spec => ImplementsOutputLife
<1> DEFINE Inv == TypeOK /\ Threaded /\ Safe
           Quiet == ~destroying /\ Without({"stopOverlap", "brokeEarly", "hurried"})
<1>1. Init => Life!Init
  <2> SUFFICES ASSUME Init PROVE Life!Init OBVIOUS
  <2>1. \A t \in Threads : pc[t] \in {"idle", "none"} BY DEF Init
  <2>2. LifePhase = "idle"
    BY ThreadNames DEF Init, LifePhase, Running
  <2>3. ~LifeEnding /\ ~LifeOwed
    BY <2>1, ThreadNames DEF LifeEnding, LifeOwed, At
  <2> QED BY <2>2, <2>3 DEF Life!Init
<1>2. Inv /\ Quiet => Calm
  BY Exempt DEF Calm, Known, Safe, Unhurried, NoOverlap, NoEarlyBreak
<1>3. Inv /\ [Next]_vars => Inv' BY TypeStep, ThreadedStep, SafeStep
<1>4. Inv /\ [Next]_vars /\ Quiet' => Quiet
  <2> SUFFICES ASSUME Inv, [Next]_vars, Quiet' PROVE Quiet OBVIOUS
  <2>1. races \subseteq races' BY RacesGrow
  <2>2. ~destroying BY DestroyedForGood
  <2> QED BY <2>1, <2>2 DEF Without
<1>5. (Inv /\ Quiet => Calm)' BY <1>2, PTL
<1>6. LifeView' BY LifeView, PTL
<1>7. Calm /\ Calm' /\ [Next]_vars => [Life!Next]_(Life!vars)
  <2> SUFFICES ASSUME Calm, Calm', [Next]_vars PROVE [Life!Next]_(Life!vars)
    OBVIOUS
  <2>1. LifeStep BY LifeNext
  <2>2. /\ LifePhase = Phase /\ LifePhase' = Phase'
        /\ LifeEnding <=> ~Unending
        /\ LifeEnding' <=> ~Unending'
        /\ LifeOwed <=> Owed
        /\ LifeOwed' <=> Owed'
    BY LifeView, <1>6 DEF Phase, Unending, Owed
  <2>3. {LifeEnding, LifeEnding', LifeOwed, LifeOwed'} \subseteq BOOLEAN
    BY DEF LifeEnding, LifeOwed
  <2> QED BY <2>1, <2>2, <2>3 DEF LifeStep, Same, Life!Next, Life!vars,
     Life!Begin, Life!Connected, Life!ConnectFailed, Life!StopLater,
     Life!EndDataCapture, Life!EndThread, Life!SignalStop
<1>8. Inv /\ [Next]_vars =>
        (~destroying' /\ Without({"stopOverlap", "brokeEarly", "hurried"})' =>
           [Life!Next]_(Life!vars))
  BY <1>2, <1>3, <1>4, <1>5, <1>7
<1> QED BY <1>1, <1>3, <1>8, StreamStart, SafeStart, PTL
        DEF Spec, ImplementsOutputLife
=============================================================================
