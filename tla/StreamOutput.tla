---------------------------- MODULE StreamOutput ----------------------------
(***************************************************************************)
(* The life of a stream: an output of libobs (libobs/obs-output.c) whose   *)
(* plugin is rtmp_output (plugins/obs-outputs/rtmp-stream.c), as the       *)
(* recorder uses it: no stream delay and no reconnects (both are set to    *)
(* zero).                                                                  *)
(*                                                                         *)
(* The user thread (the recorder's context thread) starts, stops and       *)
(* destroys the output.  A start spawns the connect thread, a connection   *)
(* spawns the send thread, and whoever ends the data capture spawns the    *)
(* end thread.  All share flags and events without a common lock; one      *)
(* action is one access to them.  pc[t] is where thread t is and ret[t]    *)
(* where it goes on after obs_output_end_data_capture.                     *)
(***************************************************************************)
EXTENDS Integers, Sequences, FiniteSets

CONSTANTS
  MaxStarts,    \* bound: connect threads, and so send threads, in a behaviour
  MaxStops,     \* bound: stops the user asks for
  MaxPackets,   \* bound: encoded packets waiting to be sent
  MaxDrops,     \* bound: times that packets are dropped because of congestion
  MayDisconnect,\* whether the server may drop the connection
  MayForce,     \* whether the user may ask for a forced stop
  MayHurry      \* whether a start may come while a thread of the stream before
                \* is still between its stop signal and its end

ASSUME BoundAssumption ==
  /\ MaxStarts \in Nat \ {0} /\ MaxStops \in Nat /\ MaxPackets \in Nat \ {0}
  /\ MaxDrops \in Nat
  /\ MayDisconnect \in BOOLEAN /\ MayForce \in BOOLEAN  /\ MayHurry \in BOOLEAN

User == <<"user", 0>>
End  == <<"end", 0>>
Starts  == 1 .. MaxStarts
Conn(g) == <<"conn", g>>
Send(g) == <<"send", g>>
Threads == {User, End} \union {Conn(g) : g \in Starts} \union {Send(g) : g \in Starts}

VARIABLES
  \* struct obs_output
  active, dataActive, stoppingEvent, ending,
  \* struct rtmp_stream
  connecting, streaming, stopEvent, stopTs, sendSem, packets, disconnected,
  connectThread, sendThread,
  \* whether the encoders call the output (hook_data_capture), history: how
  \* often a congested stream dropped frames
  hooked, drops,
  \* control
  pc, ret, detached, forced, destroying,
  \* what the client of the recorder believes: idle, starting, live
  client,
  \* history
  starts, stops, stopSignals, races

output == <<active, dataActive, stoppingEvent, ending>>
stream == <<connecting, streaming, stopEvent, stopTs, sendSem, packets,
            disconnected, connectThread, sendThread>>
encoders == <<hooked, drops>>
user   == <<forced, destroying>>
hist   == <<starts, stops, stopSignals, races>>
vars   == <<output, stream, encoders, pc, ret, detached, user, client, hist>>

Init ==
  /\ active = FALSE /\ dataActive = FALSE /\ stoppingEvent = TRUE /\ ending = FALSE
  /\ connecting = FALSE /\ streaming = FALSE /\ stopEvent = FALSE
  /\ stopTs = 0 /\ sendSem = 0 /\ packets = 0 /\ disconnected = FALSE
  /\ connectThread = 0 /\ sendThread = 0
  /\ hooked = FALSE /\ drops = 0
  /\ pc = [t \in Threads |-> IF t = User THEN "idle" ELSE "none"]
  /\ ret = [t \in Threads |-> "none"]
  /\ detached = {}
  /\ forced = FALSE /\ destroying = FALSE
  /\ client = "idle"
  /\ starts = 0 /\ stops = 0 /\ stopSignals = 0
  /\ races = {}

At(t, l)   == pc[t] = l
Goto(t, l) == pc' = [pc EXCEPT ![t] = l]

\* Thread t goes on from `from' to `to' and touches nothing shared.
Move(t, from, to) ==
  /\ At(t, from)
  /\ Goto(t, to)
  /\ UNCHANGED <<output, stream, encoders, ret, detached, user, client, hist>>

\* Thread t is running.
Running(t) == pc[t] \notin {"none", "done"}

\* Mutant: pthread_join returns without waiting.
JoinedAtOnce(t) == TRUE

\* pthread_join: of a detached thread it fails at once.
Joined(t) == t \in detached \/ At(t, "done")

Settled == \A t \in Threads \ {User} : ~Running(t)

\* Bounds: a hurried start is tried alone, without another race, a connection
\* that breaks or a forced stop.
MayHurryNow == MayHurry /\ races = {} /\ ~forced /\ ~disconnected
MayBreak    == MayDisconnect /\ "hurried" \notin races
MayForceNow == MayForce /\ "hurried" \notin races

-----------------------------------------------------------------------------
(* obs_output_start, on the user thread.                                   *)

\* RecorderObsContext::StartStreaming does nothing while the output is active;
\* the client starts a stream only when it believes there is none.
UserStart ==
  /\ At(User, "idle") /\ client = "idle" /\ ~active
  /\ starts < MaxStarts
  /\ Settled \/ MayHurryNow
  /\ races' = IF Settled THEN races ELSE races \union {"hurried"}
  /\ Goto(User, "waitStopped")
  /\ UNCHANGED <<output, stream, encoders, ret, detached, user, client, starts,
                 stops, stopSignals>>

\* obs_output_actual_start: os_event_wait(stopping_event).
WaitStopped ==
  /\ stoppingEvent
  /\ Move(User, "waitStopped", "canBegin")

\* obs_output_can_begin_data_capture.
CanBegin ==
  Move(User, "canBegin",
       IF active THEN "idle" ELSE IF ending THEN "joinEnd" ELSE "connect")

JoinEnd ==
  /\ Move(User, "joinEnd", "connect")
  /\ Joined(End)

\* The rest of rtmp_stream_start: the encoders may fail to initialize.
StartConnecting ==
  /\ At(User, "connect")
  /\ \/ /\ Goto(User, "idle")
        /\ UNCHANGED <<connecting, connectThread, client, starts, stops, stopSignals>>
     \/ /\ connecting' = TRUE
        /\ connectThread' = starts + 1
        /\ starts' = starts + 1
        /\ stopSignals' = 0
        /\ pc' = [pc EXCEPT ![User] = "idle", ![Conn(starts + 1)] = "init"]
        /\ client' = "starting"
  /\ UNCHANGED <<output, streaming, stopEvent, stopTs, sendSem, packets,
                 disconnected, sendThread, encoders, ret, detached, user, stops, races>>

-----------------------------------------------------------------------------
(* The connect thread.                                                     *)

\* init_connect: if a stop is still going on, its send thread is joined first.
InitConnect(g) == Move(Conn(g), "init", IF stopEvent THEN "joinSend" ELSE "clear")

JoinSend(g) ==
  /\ Move(Conn(g), "joinSend", "clear")
  /\ Joined(Send(sendThread))

\* free_packets and the counters of the stream.
ClearStream(g) ==
  /\ At(Conn(g), "clear")
  /\ packets' = 0
  /\ disconnected' = FALSE
  /\ Goto(Conn(g), "try")
  /\ UNCHANGED <<output, connecting, streaming, stopEvent, stopTs, sendSem,
                 connectThread, sendThread, encoders, ret, detached, user, client, hist>>

\* Mutant: connect_thread reports no failure.
TrySilently(g) ==
  Move(Conn(g), "try", "spawn") \/ Move(Conn(g), "try", "detach")

\* try_connect: RTMP_Connect and RTMP_ConnectStream succeed or fail; a failure
\* goes through obs_output_signal_stop.
TryConnect(g) ==
  /\ At(Conn(g), "try")
  /\ \/ Goto(Conn(g), "spawn") /\ UNCHANGED ret
     \/ /\ pc' = [pc EXCEPT ![Conn(g)] = "endCapture"]
        /\ ret' = [ret EXCEPT ![Conn(g)] = "detach"]
  /\ UNCHANGED <<output, stream, encoders, detached, user, client, hist>>

\* init_send: reset_semaphore and pthread_create of the send thread.
SpawnSend(g) ==
  /\ At(Conn(g), "spawn")
  /\ sendSem' = 0
  /\ sendThread' = g
  /\ pc' = [pc EXCEPT ![Conn(g)] = "streaming", ![Send(g)] = "wait"]
  /\ UNCHANGED <<output, connecting, streaming, stopEvent, stopTs, packets,
                 disconnected, connectThread, encoders, ret, detached, user, client, hist>>

SetStreaming(g) ==
  /\ At(Conn(g), "streaming")
  /\ streaming' = TRUE
  /\ Goto(Conn(g), "metadata")
  /\ UNCHANGED <<output, connecting, stopEvent, stopTs, sendSem, packets,
                 disconnected, connectThread, sendThread, encoders, ret, detached,
                 user, client, hist>>

\* send_meta_data: if it fails the send thread is left waiting.
SendMetaData(g) ==
  /\ At(Conn(g), "metadata")
  /\ \/ Goto(Conn(g), "begin") /\ UNCHANGED <<ret, races>>
     \/ /\ MayBreak
        /\ pc' = [pc EXCEPT ![Conn(g)] = "endCapture"]
        /\ ret' = [ret EXCEPT ![Conn(g)] = "detach"]
        /\ races' = races \union {"brokeEarly"}
  /\ UNCHANGED <<output, stream, encoders, detached, user, client, starts,
                 stops, stopSignals>>

\* obs_output_begin_data_capture; its result is ignored.
BeginCapture(g) ==
  /\ At(Conn(g), "begin")
  /\ \/ /\ active
        /\ Goto(Conn(g), "detach")
        /\ UNCHANGED <<dataActive, encoders>>
     \/ /\ ~active
        /\ dataActive' = TRUE
        /\ hooked' = TRUE /\ UNCHANGED drops
        /\ Goto(Conn(g), "activate")
  /\ UNCHANGED <<active, stoppingEvent, ending, stream, ret, detached, user,
                 client, hist>>

Activate(g) ==
  /\ At(Conn(g), "activate")
  /\ active' = TRUE
  /\ Goto(Conn(g), "signalStart")
  /\ UNCHANGED <<dataActive, stoppingEvent, ending, stream, encoders, ret,
                 detached, user, client, hist>>

SignalStart(g) ==
  /\ At(Conn(g), "signalStart")
  /\ client' = IF destroying THEN client ELSE "live"
  /\ Goto(Conn(g), "detach")
  /\ UNCHANGED <<output, stream, encoders, ret, detached, user, hist>>

\* The end of connect_thread.
Detach(g) ==
  /\ At(Conn(g), "detach")
  /\ detached' = IF stopEvent THEN detached ELSE detached \union {Conn(g)}
  /\ Goto(Conn(g), "connected")
  /\ UNCHANGED <<output, stream, encoders, ret, user, client, hist>>

\* Mutant: connecting is not reset.
KeepConnecting(g) == Move(Conn(g), "connected", "done")

ClearConnecting(g) ==
  /\ At(Conn(g), "connected")
  /\ connecting' = FALSE
  /\ Goto(Conn(g), "done")
  /\ UNCHANGED <<output, streaming, stopEvent, stopTs, sendSem, packets,
                 disconnected, connectThread, sendThread, encoders, ret, detached,
                 user, client, hist>>

-----------------------------------------------------------------------------
(* The encoders and the send thread.                                       *)

\* rtmp_stream_data of a packet that is queued: the send thread is woken.
EncoderPacket ==
  /\ hooked /\ streaming /\ ~disconnected
  /\ packets < MaxPackets
  /\ packets' = packets + 1
  /\ sendSem' = sendSem + 1
  /\ UNCHANGED <<output, connecting, streaming, stopEvent, stopTs, disconnected,
                 connectThread, sendThread, encoders, pc, ret, detached, user,
                 client, hist>>

\* rtmp_stream_data of a frame that is refused, after drop_frames threw out some
\* of those that waited: their wake-ups stay.  The five packets and the thresholds of
\* check_to_drop_frames are left open.
DropFrames ==
  /\ hooked /\ streaming /\ ~disconnected
  /\ drops < MaxDrops
  /\ drops' = drops + 1
  /\ packets' \in 0 .. packets - 1
  /\ UNCHANGED <<output, connecting, streaming, stopEvent, stopTs, sendSem,
                 disconnected, connectThread, sendThread, hooked, pc, ret,
                 detached, user, client, hist>>

\* os_sem_wait, then a forced stop ends the loop.
SemWait(g) ==
  /\ At(Send(g), "wait") /\ sendSem > 0
  /\ sendSem' = sendSem - 1
  /\ Goto(Send(g), "next")
  /\ UNCHANGED <<output, connecting, streaming, stopEvent, stopTs, packets,
                 disconnected, connectThread, sendThread, encoders, ret, detached,
                 user, client, hist>>

ForcedStop == stopEvent /\ stopTs = 0

\* A forced stop ends the loop before the next packet.
BreakForced(g) ==
  /\ ForcedStop
  /\ Move(Send(g), "next", "leave")

\* get_next_packet finds none.
NoPacket(g) ==
  /\ ~ForcedStop /\ packets = 0
  /\ Move(Send(g), "next", "wait")

\* can_shutdown_stream: this packet is later than the stop, or the shutdown
\* timeout is over.
LastPacket(g) ==
  /\ At(Send(g), "next") /\ ~ForcedStop /\ packets > 0
  /\ stopEvent
  /\ packets' = packets - 1
  /\ Goto(Send(g), "leave")
  /\ UNCHANGED <<output, connecting, streaming, stopEvent, stopTs, sendSem,
                 disconnected, connectThread, sendThread, encoders, ret, detached,
                 user, client, hist>>

TakePacket(g) ==
  /\ At(Send(g), "next") /\ ~ForcedStop /\ packets > 0
  /\ packets' = packets - 1
  /\ Goto(Send(g), "send")
  /\ UNCHANGED <<output, connecting, streaming, stopEvent, stopTs, sendSem,
                 disconnected, connectThread, sendThread, encoders, ret, detached,
                 user, client, hist>>

SendPacket(g) ==
  /\ At(Send(g), "send")
  /\ \/ Goto(Send(g), "wait") /\ UNCHANGED disconnected
     \/ MayBreak /\ disconnected' = TRUE /\ Goto(Send(g), "leave")
  /\ UNCHANGED <<output, connecting, streaming, stopEvent, stopTs, sendSem,
                 packets, connectThread, sendThread, encoders, ret, detached, user,
                 client, hist>>

Stopping ==
  pc[User] \in {"rtmpStop", "joinConnect", "setStopTs", "signalStop"}

\* The start of the stream has not been reported yet.
Unannounced(g) == ~active \/ At(Conn(g), "signalStart")

\* After the loop: detach and report a disconnection, unless a stop was asked
\* for; both go through obs_output_end_data_capture.
LeaveLoop(g) ==
  /\ At(Send(g), "leave")
  /\ detached' = IF stopEvent THEN detached ELSE detached \union {Send(g)}
  /\ pc' = [pc EXCEPT ![Send(g)] = "endCapture"]
  /\ ret' = [ret EXCEPT ![Send(g)] = "reset"]
  /\ races' = races
       \union (IF Unannounced(g) THEN {"brokeEarly"} ELSE {})
       \union (IF Stopping THEN {"stopOverlap"} ELSE {})
  /\ UNCHANGED <<output, stream, encoders, user, client, starts, stops, stopSignals>>

\* The send thread is past its loop.
Leaving(g) ==
  g # 0 /\ pc[Send(g)] \in {"leave", "endCapture", "signalStopOnly", "setEvent",
            "clearData", "spawnEnd", "signalStopped", "reset", "inactive", "headers", "done"}

\* free_packets and os_event_reset(stop_event).
ResetStopEvent(g) ==
  /\ At(Send(g), "reset")
  /\ packets' = 0
  /\ stopEvent' = FALSE
  /\ Goto(Send(g), "inactive")
  /\ UNCHANGED <<output, connecting, streaming, stopTs, sendSem, disconnected,
                 connectThread, sendThread, encoders, ret, detached, user, client, hist>>

ClearStreaming(g) ==
  /\ At(Send(g), "inactive")
  /\ streaming' = FALSE
  /\ Goto(Send(g), "headers")
  /\ UNCHANGED <<output, connecting, stopEvent, stopTs, sendSem, packets,
                 disconnected, connectThread, sendThread, encoders, ret, detached,
                 user, client, hist>>

\* stream->sent_headers = false, the last access to the stream.
ClearHeaders(g) == Move(Send(g), "headers", "done")

-----------------------------------------------------------------------------
(* obs_output_stop and obs_output_force_stop, on the user thread.          *)

\* Both RecorderObsContext::StopStreaming and obs_output_stop test active.
UserStop(force) ==
  /\ At(User, "idle") /\ active
  /\ stops < MaxStops
  /\ stops' = stops + 1
  /\ client' = IF client = "live" THEN "stopping" ELSE client
  /\ forced' = force
  /\ Goto(User, "resetEvent")
  /\ UNCHANGED <<output, stream, encoders, ret, detached, destroying, starts,
                 stopSignals, races>>

Back == IF destroying THEN "destroyWait" ELSE "idle"

\* obs_output_actual_stop.
ResetStoppingEvent ==
  /\ At(User, "resetEvent")
  /\ \/ /\ ~stoppingEvent /\ ~forced
        /\ Goto(User, Back)
        /\ UNCHANGED <<stoppingEvent, races>>
     \/ /\ stoppingEvent \/ forced
        /\ stoppingEvent' = FALSE
        /\ races' = IF Leaving(sendThread) THEN races \union {"stopOverlap"} ELSE races
        /\ Goto(User, "rtmpStop")
  /\ UNCHANGED <<active, dataActive, ending, stream, encoders, ret, detached,
                 user, client, starts, stops, stopSignals>>

\* rtmp_stream_stop.
RtmpStop ==
  Move(User, "rtmpStop",
       IF stopEvent /\ ~forced THEN Back
       ELSE IF connecting THEN "joinConnect" ELSE "setStopTs")

JoinConnect ==
  /\ Move(User, "joinConnect", "setStopTs")
  /\ Joined(Conn(connectThread))

\* Mutant: rtmp_stream_stop ends the capture of a running stream as well.
EndAndSignal ==
  /\ At(User, "setStopTs")
  /\ stopTs' = IF forced THEN 0 ELSE 1
  /\ pc' = [pc EXCEPT ![User] = "endCapture"]
  /\ ret' = [ret EXCEPT ![User] = IF streaming THEN "signalStop" ELSE Back]
  /\ UNCHANGED <<output, connecting, streaming, stopEvent, sendSem, packets,
                 disconnected, connectThread, sendThread, encoders, detached, user,
                 client, hist>>

SetStopTs ==
  /\ At(User, "setStopTs")
  /\ stopTs' = IF forced THEN 0 ELSE 1
  /\ \/ streaming /\ Goto(User, "signalStop") /\ UNCHANGED ret
     \/ /\ ~streaming
        /\ pc' = [pc EXCEPT ![User] = "endCapture"]
        /\ ret' = [ret EXCEPT ![User] = Back]
  /\ UNCHANGED <<output, connecting, streaming, stopEvent, sendSem, packets,
                 disconnected, connectThread, sendThread, encoders, detached, user,
                 client, hist>>

\* Mutant: the send thread is not told.
StopUnsignalled == Move(User, "signalStop", Back)

SignalStopEvent ==
  /\ At(User, "signalStop")
  /\ stopEvent' = TRUE
  /\ sendSem' = IF stopTs = 0 THEN sendSem + 1 ELSE sendSem
  /\ Goto(User, Back)
  /\ UNCHANGED <<output, connecting, streaming, stopTs, packets, disconnected,
                 connectThread, sendThread, encoders, ret, detached, user, client, hist>>

(* obs_output_destroy, when the recorder drops its outputs or exits.       *)

UserDestroy ==
  /\ At(User, "idle") /\ ~destroying
  /\ destroying' = TRUE
  /\ forced' = TRUE
  /\ Goto(User, IF active THEN "resetEvent" ELSE "destroyWait")
  /\ races' = IF connecting \/ (sendThread # 0 /\ Send(sendThread) \in detached
                                                /\ Running(Send(sendThread)))
              THEN races \union {"cutOff"} ELSE races
  /\ UNCHANGED <<output, stream, encoders, ret, detached, client, starts,
                 stops, stopSignals>>

DestroyWait ==
  /\ stoppingEvent
  /\ Move(User, "destroyWait", IF ending THEN "destroyJoin" ELSE "rtmpDestroy")

DestroyJoin ==
  /\ Move(User, "destroyJoin", "rtmpDestroy")
  /\ Joined(End)

\* rtmp_stream_destroy.
RtmpDestroy ==
  Move(User, "rtmpDestroy",
       IF stopEvent /\ ~connecting THEN "destroySend"
       ELSE IF connecting THEN "destroyConnect"
       ELSE IF streaming THEN "destroyStop" ELSE "freed")

DestroyConnect ==
  /\ Move(User, "destroyConnect", "destroyStop")
  /\ Joined(Conn(connectThread))

DestroyStop ==
  /\ At(User, "destroyStop")
  /\ stopTs' = 0
  /\ stopEvent' = TRUE
  /\ Goto(User, "destroyActive")
  /\ UNCHANGED <<output, connecting, streaming, sendSem, packets, disconnected,
                 connectThread, sendThread, encoders, ret, detached, user, client, hist>>

\* A stream that got active is ended here, beside its send thread.
DestroyActive ==
  /\ At(User, "destroyActive")
  /\ \/ ~streaming /\ Goto(User, "freed") /\ UNCHANGED <<sendSem, ret>>
     \/ /\ streaming
        /\ sendSem' = sendSem + 1
        /\ pc' = [pc EXCEPT ![User] = "endCapture"]
        /\ ret' = [ret EXCEPT ![User] = "destroySend"]
  /\ UNCHANGED <<output, connecting, streaming, stopEvent, stopTs, packets,
                 disconnected, connectThread, sendThread, encoders, detached, user,
                 client, hist>>

DestroySend ==
  /\ Move(User, "destroySend", "freed")
  /\ Joined(Send(sendThread))

-----------------------------------------------------------------------------
(* obs_output_end_data_capture, on the connect, send or user thread.       *)

\* The "stop" signal reaches the client unless the recorder has already
\* disconnected its handlers, which it does before it destroys the output.
StopSignal ==
  IF destroying THEN UNCHANGED <<client, stopSignals>>
  ELSE client' = "idle" /\ stopSignals' = stopSignals + 1

\* Mutant: data_active is not looked at.
EndIfActive(t) ==
  Move(t, "endCapture", IF active THEN "clearData" ELSE "signalStopOnly")

EndCapture(t) ==
  Move(t, "endCapture", IF active /\ dataActive THEN "clearData" ELSE "signalStopOnly")

\* Mutant: data_active stays set.
KeepData(t) == Move(t, "clearData", "spawnEnd")

\* The test and the store are not one step.
ClearData(t) ==
  /\ At(t, "clearData")
  /\ dataActive' = FALSE
  /\ Goto(t, "spawnEnd")
  /\ UNCHANGED <<active, stoppingEvent, ending, stream, encoders, ret, detached,
                 user, client, hist>>

\* Nothing was captured: only the signal and the event.
SignalStopOnly(t) ==
  /\ At(t, "signalStopOnly")
  /\ StopSignal
  /\ Goto(t, "setEvent")
  /\ UNCHANGED <<output, stream, encoders, ret, detached, user, starts, stops, races>>

SetStoppingEvent(t) ==
  /\ At(t, "setEvent")
  /\ stoppingEvent' = TRUE
  /\ Goto(t, ret[t])
  /\ UNCHANGED <<active, dataActive, ending, stream, encoders, ret, detached,
                 user, client, hist>>

\* Mutant: the "stop" signal is forgotten after the end thread was started.
SpawnEndSilently(t) ==
  /\ At(t, "spawnEnd")
  /\ ending => Joined(End)
  /\ ending' = TRUE
  /\ pc' = [pc EXCEPT ![t] = ret[t], ![End] = "unhook"]
  /\ UNCHANGED <<active, dataActive, stoppingEvent, stream, encoders, ret,
                 detached, user, client, hist>>

\* An end thread that is not done yet is joined first.  Two threads that both
\* passed the test (see OneEndThread) would create two end threads: the module
\* has one, and claims nothing of the captures of such a behaviour.
SpawnEnd(t) ==
  /\ At(t, "spawnEnd")
  /\ ending => Joined(End)
  /\ ending' = TRUE
  /\ pc' = [pc EXCEPT ![t] = "signalStopped", ![End] = "unhook"]
  /\ UNCHANGED <<active, dataActive, stoppingEvent, stream, encoders, ret,
                 detached, user, client, hist>>

SignalStopped(t) ==
  /\ At(t, "signalStopped")
  /\ StopSignal
  /\ Goto(t, ret[t])
  /\ UNCHANGED <<output, stream, encoders, ret, detached, user, starts, stops, races>>

(* end_data_capture_thread.                                                *)

Unhook ==
  /\ At(End, "unhook")
  /\ hooked' = FALSE /\ UNCHANGED drops
  /\ Goto(End, "inactive")
  /\ UNCHANGED <<output, stream, ret, detached, user, client, hist>>

ClearActive ==
  /\ At(End, "inactive")
  /\ active' = FALSE
  /\ Goto(End, "event")
  /\ UNCHANGED <<dataActive, stoppingEvent, ending, stream, encoders, ret,
                 detached, user, client, hist>>

\* Mutant: the end thread does not signal stopping_event.
EndSilently == Move(End, "event", "ending")

SignalEnded ==
  /\ At(End, "event")
  /\ stoppingEvent' = TRUE
  /\ Goto(End, "ending")
  /\ UNCHANGED <<active, dataActive, ending, stream, encoders, ret, detached,
                 user, client, hist>>

ClearEnding ==
  /\ At(End, "ending")
  /\ ending' = FALSE
  /\ Goto(End, "done")
  /\ UNCHANGED <<active, dataActive, stoppingEvent, stream, encoders, ret,
                 detached, user, client, hist>>

-----------------------------------------------------------------------------
ConnectStep(g) ==
  \/ InitConnect(g) \/ JoinSend(g) \/ ClearStream(g) \/ TryConnect(g) \/ SpawnSend(g) \/ SetStreaming(g)
  \/ SendMetaData(g) \/ BeginCapture(g) \/ Activate(g) \/ SignalStart(g)
  \/ Detach(g) \/ ClearConnecting(g)

SendStep(g) ==
  \/ SemWait(g) \/ BreakForced(g) \/ NoPacket(g) \/ LastPacket(g)
  \/ TakePacket(g) \/ SendPacket(g) \/ LeaveLoop(g)
  \/ ResetStopEvent(g) \/ ClearStreaming(g) \/ ClearHeaders(g)

EndCaptureStep(t) ==
  \/ EndCapture(t) \/ SignalStopOnly(t) \/ SetStoppingEvent(t)
  \/ ClearData(t) \/ SpawnEnd(t) \/ SignalStopped(t)

EndStep == Unhook \/ ClearActive \/ SignalEnded \/ ClearEnding

UserStep ==
  \/ WaitStopped \/ CanBegin \/ JoinEnd \/ StartConnecting
  \/ ResetStoppingEvent \/ RtmpStop \/ JoinConnect \/ SetStopTs
  \/ SignalStopEvent
  \/ DestroyWait \/ DestroyJoin \/ RtmpDestroy \/ DestroyConnect
  \/ DestroyStop \/ DestroyActive \/ DestroySend

Next ==
  \/ UserStart \/ UserStop(FALSE) \/ (MayForceNow /\ UserStop(TRUE)) \/ UserDestroy
  \/ UserStep
  \/ \E g \in Starts : ConnectStep(g) \/ SendStep(g)
  \/ EncoderPacket \/ DropFrames
  \/ \E t \in Threads : EndCaptureStep(t)
  \/ EndStep

Spec == Init /\ [][Next]_vars

\* Every thread runs on, the encoders go on producing packets and, once a stop
\* was asked for, packets later than the stop arrive.
FairSpec ==
  /\ Spec
  /\ WF_vars(UserStep)
  /\ WF_vars(EncoderPacket)
  /\ WF_vars(EndStep)
  /\ \A g \in Starts :
       /\ WF_vars(ConnectStep(g))
       /\ WF_vars(SendStep(g)) /\ SF_vars(LastPacket(g))
  /\ \A t \in Threads : WF_vars(EndCaptureStep(t))

-----------------------------------------------------------------------------
(* Properties.                                                             *)

\* None of the races in rs has happened.  They are the orders of steps that the
\* code leaves to luck: a stop by the user that overlaps the end of the stream
\* (stopOverlap), a connection that breaks before the start signal
\* (brokeEarly), a destruction while the stream is connecting or its detached
\* send thread is ending (cutOff), and a start before the threads of the stream
\* before have ended (hurried).
Without(rs) == races \intersect rs = {}

\* Some thread is about to disconnect the encoders.
Unhooking ==
  \/ At(End, "unhook")
  \/ \E t \in Threads : pc[t] \in {"clearData", "spawnEnd"}

\* data_active, active and the encoder callbacks are set and cleared by different
\* threads: still, an output that captures has its callbacks connected, callbacks
\* that are connected belong to a capture or to one that is being ended, and an
\* active output captures or has a thread that clears active.  It takes a start
\* hurried into a connection that broke before it was active to break that.
CaptureBalanced ==
  Without({"hurried", "cutOff"}) \/ Without({"brokeEarly", "cutOff"}) =>
    /\ dataActive => hooked
    /\ hooked => dataActive \/ Unhooking
    /\ active => dataActive \/ Running(End) \/ Unhooking

\* No two threads are past the test in obs_output_end_data_capture at once, and
\* nobody gets there while an end thread is running: the test of active and
\* data_active and the store that fails it later are separate steps, and the
\* handle of the end thread and its flag are set without a lock.
OneEndThread ==
  Without({"hurried", "cutOff"}) =>
    \A t \in Threads : pc[t] \in {"clearData", "spawnEnd"} =>
      /\ ~Running(End)
      /\ \A u \in Threads \ {t} : pc[u] \notin {"clearData", "spawnEnd"}

\* A stream reports its end once, unless a stop by the user overlaps the end of
\* the stream, or a start comes before the threads of the stream before ended.
OneStopSignal == Without({"stopOverlap", "hurried"}) => stopSignals =< 1

AtRest == Settled /\ pc[User] \in {"idle", "freed"}

\* When all threads came to rest, stopping_event is set, so that the next
\* obs_output_start (or obs_output_destroy) does not block the recorder for
\* ever: only a stop that overlaps the end of the stream leaves it reset.
StartNeverBlocks == AtRest /\ Without({"stopOverlap"}) => stoppingEvent

\* When all threads came to rest no flag of output or stream is left over for
\* the next start, and the client does not take the stream for live.  It may if
\* the connection breaks just before the start signal: the stop is reported
\* first and the start last.
NothingLeftOver ==
  AtRest /\ Without({"stopOverlap", "brokeEarly", "hurried"}) =>
    /\ ~active /\ ~ending /\ ~hooked /\ ~streaming /\ ~connecting
    /\ pc[User] = "idle" => ~stopEvent /\ client = "idle"

\* The output and the stream are freed after all their threads ended, but for
\* the last store of the send thread (sent_headers), unless the output was
\* destroyed while it was connecting or reporting a disconnection.
FreedAfterThreads ==
  At(User, "freed") /\ Without({"stopOverlap", "cutOff", "hurried"}) =>
    /\ ~Running(End)
    /\ \A g \in Starts :
         ~Running(Conn(g)) /\ (Running(Send(g)) => At(Send(g), "headers"))

\* The connect thread has got the stream going, or reported that it failed.
Over(g) ==
  pc[Conn(g)] \in {"signalStart", "setEvent", "detach", "connected"}

\* The stream as the recorder's context thread sees it.
LifePhase ==
  IF active /\ ~ending THEN IF stoppingEvent THEN "active" ELSE "stopping"
  ELSE IF \E g \in Starts : Running(Conn(g)) /\ ~Over(g)
    THEN "connecting" ELSE "idle"

LifeEnding == pc[End] \in {"unhook", "inactive"}
LifeOwed   == \E t \in Threads : At(t, "signalStopped")

Life == INSTANCE OutputLife WITH
          phase <- LifePhase, ending <- LifeEnding, owed <- LifeOwed

\* The stream implements the output that the recorder relies on, until it is
\* destroyed or one of the races happens.
ImplementsOutputLife ==
  /\ Life!Init
  /\ [][~destroying' /\ Without({"stopOverlap", "brokeEarly", "hurried"})' =>
         [Life!Next]_(Life!vars)]_vars

\* The client is told how each start ended: live or stopped.
StartAnswered == client = "starting" ~> client # "starting" \/ destroying

\* A stop ends with the stop signal, unless it overlaps a disconnection.
StopCompletes ==
  client = "stopping" ~> client # "stopping" \/ destroying \/ races # {}

\* The recorder's context thread always comes back from start, stop and
\* destruction, with the same exception.
UserReturns ==
  pc[User] # "idle" ~> pc[User] \in {"idle", "freed"} \/ races # {}
=============================================================================
