---------------------------- MODULE FFmpegOutput ----------------------------
(***************************************************************************)
(* The life of a recording: an output of libobs whose plugin is            *)
(* ffmpeg_output (plugins/obs-ffmpeg/obs-ffmpeg-output.c), the recorder's  *)
(* RecMode "ffmpeg".  It takes raw video and audio, encodes them in the    *)
(* threads that deliver them and writes the packets in a thread of its     *)
(* own.                                                                    *)
(*                                                                         *)
(* The user thread (the recorder's context thread) starts, stops and       *)
(* destroys the output.  A start spawns the start thread, which opens the  *)
(* file and spawns the write thread; whoever ends the data capture spawns  *)
(* the end thread, and ffmpeg_deactivate then closes the file.  The flags  *)
(* have no lock: one action is one access to them.  pc[t] is where thread  *)
(* t is and ret[t] where it goes on after ffmpeg_deactivate.  The races of *)
(* obs_output_end_data_capture with itself are the subject of              *)
(* StreamOutput: its test and the start of the end thread are one step     *)
(* here.                                                                   *)
(***************************************************************************)
EXTENDS Naturals, Sequences, SequencesExt

CONSTANTS
  Sources,     \* of "video" and "audio", those the file has a stream for
  MaxStarts,   \* bound: recordings in a behaviour
  MaxStops,    \* bound: stops the user asks for
  MaxPackets   \* bound: encoded packets waiting to be written

ASSUME SourcesAssumption == Sources \subseteq {"video", "audio"}
ASSUME BoundAssumption == {MaxStarts, MaxStops, MaxPackets} \subseteq Nat

Starts   == 1 .. MaxStarts
User     == <<"user", 0>>
End      == <<"end", 0>>
Start(g) == <<"start", g>>
Write(g) == <<"write", g>>
Writers  == {Write(g) : g \in Starts}
Threads  == {User, End} \cup {Start(g) : g \in Starts} \cup Writers

VARIABLES
  \* struct obs_output, and the sources hook_data_capture connected
  obsActive, dataActive, stoppingEvent, ending, hooked,
  \* struct ffmpeg_output: stopTs and data are the recording they were set for,
  \* 0 for none; a packet has the recording it was encoded for
  active, connecting, stopping, stopTs, writeActive, writeThread, stopEvent,
  writeSem, packets, data,
  \* [Sources -> the recording whose ff_data the callback works on, or 0]
  raw,
  \* control; hand is the recording of the packet that a write thread took
  pc, ret, detached, hand, forced, destroying,
  \* what the recorder's client believes: idle, starting, live, stopping
  client,
  \* history: stops asked of this recording, recordings with a trailer
  starts, stops, asked, closed, races

output  == <<obsActive, dataActive, stoppingEvent, ending, hooked>>
stopAt  == <<stopping, stopTs>>
writer  == <<writeActive, writeThread, stopEvent, writeSem>>
file    == <<packets, data>>
plugin  == <<active, connecting, stopAt, writer, file>>
calls   == <<ret, detached, hand>>
user    == <<forced, destroying, client>>
counts  == <<starts, stops, asked, closed>>
vars    == <<output, plugin, raw, pc, calls, user, counts, races>>

At(t, l)   == pc[t] = l
Goto(t, l) == pc' = [pc EXCEPT ![t] = l]
Running(t) == pc[t] \notin {"none", "done"}
Settled    == \A t \in Threads \ {User} : ~Running(t)
Race(r, c) == races' = IF c THEN races \cup {r} ELSE races

(* Thread t goes on and touches nothing shared.                            *)
Move(t, from, to) ==
  /\ At(t, from) /\ Goto(t, to)
  /\ UNCHANGED <<output, plugin, raw, calls, user, counts, races>>

(* pthread_join fails at once on the own thread and on a detached one.     *)
Joined(me, t) == t = me \/ t \in detached \/ ~Running(t)

(* The start thread of the last recording has not set write_thread_active. *)
Unset ==
  \E g \in Starts :
    pc[Start(g)] \in {"begin", "activate", "signalStart", "setWrite"}

(* A write thread that stops by itself, from its decision on.              *)
Ending(t) ==
  pc[t] \in {"endCapture", "signalStopped", "deactivate", "joinWrite",
             "trailer", "clear", "leave"}

UserStops == (At(User, "pluginStop") /\ forced) \/ Ending(User)

-----------------------------------------------------------------------------
(* obs_output_start and ffmpeg_output_start, on the user thread.           *)

(* Bound: the user asks for nothing after a race that a property exempts.  *)
MayAsk == At(User, "idle") /\ races \subseteq {"lateConnecting"}

(* Bounds: a start waits until the threads of the last recording are done; *)
(* after MaxStarts only starts that are refused.                           *)
UserStart ==
  /\ MayAsk
  /\ client = "idle" /\ ~obsActive /\ Settled
  /\ starts < MaxStarts \/ connecting
  /\ Move(User, "idle", "waitStopped")

(* A start that is refused is reported as an error.                        *)
StartRefused ==
  /\ stoppingEvent /\ connecting
  /\ Move(User, "waitStopped", "idle")

FfmpegStart ==
  /\ At(User, "waitStopped") /\ stoppingEvent /\ ~connecting
  /\ stopping' = FALSE
  /\ starts' = starts + 1
  /\ asked' = FALSE
  /\ client' = "starting"
  /\ pc' = [pc EXCEPT ![User] = "setConnecting", ![Start(starts + 1)] = "open"]
  /\ UNCHANGED <<output, active, connecting, stopTs, writer, file, raw, calls,
                 forced, destroying, stops, closed, races>>

(* The thread is created before connecting says so.                        *)
SetConnecting ==
  /\ At(User, "setConnecting")
  /\ connecting' = TRUE
  /\ Goto(User, "idle")
  /\ UNCHANGED <<output, active, stopAt, writer, file, raw, calls, user,
                 counts, races>>

-----------------------------------------------------------------------------
(* start_thread and try_connect.                                           *)

\* Mutant: a file that cannot be opened is not reported
OpenSilently(g) ==
  \/ Move(Start(g), "open", "connected")
  \/ /\ At(Start(g), "open")
     /\ data' = g
     /\ Goto(Start(g), "setActive")
     /\ UNCHANGED <<output, active, connecting, stopAt, writer, packets, raw,
                    calls, user, counts, races>>

(* ffmpeg_data_init forgets what was open before; it opens the file or     *)
(* fails, and then obs_output_signal_stop reports it.                      *)
OpenFile(g) ==
  /\ At(Start(g), "open")
  /\ \/ data' = g /\ Goto(Start(g), "setActive")
     \/ data' = 0 /\ Goto(Start(g), "endCapture")
  /\ UNCHANGED <<output, active, connecting, stopAt, writer, packets, raw,
                 calls, user, counts, races>>

SetActive(g) ==
  /\ At(Start(g), "setActive")
  /\ active' = TRUE
  /\ Goto(Start(g), "canBegin")
  /\ UNCHANGED <<output, connecting, stopAt, writer, file, raw, calls, user,
                 counts, races>>

(* obs_output_can_begin_data_capture joins an end thread.  The output is    *)
(* not active: UserStart has seen that, and nothing activates it since.    *)
CanBegin(g) ==
  /\ ~obsActive /\ (ending => Joined(Start(g), End))
  /\ Move(Start(g), "canBegin", "spawnWrite")

SpawnWrite(g) ==
  /\ At(Start(g), "spawnWrite")
  /\ writeThread' = g
  /\ pc' = [pc EXCEPT ![Start(g)] = "begin", ![Write(g)] = "wait"]
  /\ UNCHANGED <<output, active, connecting, stopAt, writeActive, stopEvent,
                 writeSem, file, raw, calls, user, counts, races>>

(* obs_output_begin_data_capture, of an output that is not active.         *)
BeginCapture(g) ==
  /\ At(Start(g), "begin") /\ ~obsActive
  /\ dataActive' = TRUE
  /\ hooked' = {"video", "audio"}
  /\ Goto(Start(g), "activate")
  /\ UNCHANGED <<obsActive, stoppingEvent, ending, plugin, raw, calls, user,
                 counts, races>>

Activate(g) ==
  /\ At(Start(g), "activate")
  /\ obsActive' = TRUE
  /\ Goto(Start(g), "signalStart")
  /\ UNCHANGED <<dataActive, stoppingEvent, ending, hooked, plugin, raw, calls,
                 user, counts, races>>

SignalStart(g) ==
  /\ At(Start(g), "signalStart")
  /\ client' = IF destroying THEN client ELSE "live"
  /\ Goto(Start(g), "setWrite")
  /\ UNCHANGED <<output, plugin, raw, calls, forced, destroying, counts,
                 races>>

SetWriteActive(g) ==
  /\ At(Start(g), "setWrite")
  /\ writeActive' = TRUE
  /\ Goto(Start(g), "connected")
  /\ UNCHANGED <<output, active, connecting, stopAt, writeThread, stopEvent,
                 writeSem, file, raw, calls, user, counts, races>>

ClearConnecting(g) ==
  /\ At(Start(g), "connected")
  /\ connecting' = FALSE
  /\ Goto(Start(g), "done")
  /\ Race("lateConnecting", At(User, "setConnecting"))
  /\ UNCHANGED <<output, active, stopAt, writer, file, raw, calls, user,
                 counts>>

-----------------------------------------------------------------------------
(* receive_video and receive_audio, called with the input mutex held.      *)

RawEnter(s) ==
  /\ s \in hooked /\ dataActive /\ raw[s] = 0 /\ data # 0
  /\ raw' = [raw EXCEPT ![s] = data]
  /\ UNCHANGED <<output, plugin, pc, calls, user, counts, races>>

(* The encoder has no packet yet,                                          *)
RawNothing(s) ==
  /\ raw[s] # 0
  /\ raw' = [raw EXCEPT ![s] = 0]
  /\ UNCHANGED <<output, plugin, pc, calls, user, counts, races>>

(* or one.                                                                 *)
RawPacket(s) ==
  /\ raw[s] # 0 /\ Len(packets) < MaxPackets
  /\ packets' = Append(packets, [of |-> raw[s], before |-> ~asked])
  /\ writeSem' = writeSem + 1
  /\ raw' = [raw EXCEPT ![s] = 0]
  /\ UNCHANGED <<output, active, connecting, stopAt, writeActive, writeThread,
                 stopEvent, data, pc, calls, user, counts, races>>

-----------------------------------------------------------------------------
(* write_thread and process_packet.                                        *)

SemWait(g) ==
  /\ At(Write(g), "wait") /\ writeSem > 0
  /\ writeSem' = writeSem - 1
  /\ Goto(Write(g), "check")
  /\ UNCHANGED <<output, active, connecting, stopAt, writeActive, writeThread,
                 stopEvent, file, raw, calls, user, counts, races>>

(* os_event_try resets the event.                                          *)
CheckEvent(g) ==
  /\ At(Write(g), "check")
  /\ stopEvent' = FALSE
  /\ Goto(Write(g), IF stopEvent THEN "leave"
                    ELSE IF packets = <<>> THEN "wait" ELSE "take")
  /\ UNCHANGED <<output, active, connecting, stopAt, writeActive, writeThread,
                 writeSem, file, raw, calls, user, counts, races>>

Take(g) ==
  /\ At(Write(g), "take")
  /\ packets # <<>>
  /\ packets' = Tail(packets)
  /\ UNCHANGED <<output, active, connecting, stopAt, writer, data, raw, ret,
                 detached, user, counts>>

(* A packet that was queued before the stop is older than it.  Until       *)
(* stop_ts is set its last value counts, and every packet is later.        *)
TakeToWrite(g) ==
  /\ Take(g)
  /\ stopping => stopTs = starts /\ Head(packets).before
  /\ hand' = [hand EXCEPT ![g] = Head(packets).of]
  /\ Goto(Write(g), "write")
  /\ UNCHANGED races

\* Mutant: a stop ends the recording with the packet at hand
CutAtOnce(g) ==
  /\ Take(g)
  /\ stopping
  /\ Goto(Write(g), IF active THEN "endCapture" ELSE "wait")
  /\ UNCHANGED hand
  /\ races' = races \cup (IF stopTs = starts THEN {} ELSE {"hasty"})
                    \cup (IF Unset THEN {"early"} ELSE {})
                    \cup (IF UserStops THEN {"overlap"} ELSE {})

TakeLast(g) ==
  /\ Take(g)
  /\ stopping /\ (stopTs = starts => ~Head(packets).before)
  /\ Goto(Write(g), IF active THEN "endCapture" ELSE "wait")
  /\ UNCHANGED hand
  /\ races' = races \cup (IF stopTs = starts THEN {} ELSE {"hasty"})
                    \cup (IF Unset THEN {"early"} ELSE {})
                    \cup (IF UserStops THEN {"overlap"} ELSE {})

TookNothing(g) == packets = <<>> /\ Move(Write(g), "take", "wait")

(* av_interleaved_write_frame; after an error the thread detaches itself   *)
(* and reports the end by obs_output_signal_stop.                          *)
WriteFrame(g) ==
  /\ At(Write(g), "write")
  /\ hand' = [hand EXCEPT ![g] = 0]
  /\ Goto(Write(g), "wait")
  /\ UNCHANGED <<output, plugin, raw, ret, detached, user, counts, races>>

WriteFails(g) ==
  /\ At(Write(g), "write")
  /\ detached' = detached \cup {Write(writeThread)}
  /\ hand' = [hand EXCEPT ![g] = 0]
  /\ writeActive' = FALSE
  /\ pc' = [pc EXCEPT ![Write(g)] = "endCapture"]
  /\ ret' = [ret EXCEPT ![Write(g)] = "leave"]
  /\ races' = races \cup (IF Unset THEN {"early"} ELSE {})
                    \cup (IF UserStops THEN {"overlap"} ELSE {})
  /\ UNCHANGED <<output, active, connecting, stopAt, writeThread, stopEvent,
                 writeSem, file, raw, user, counts>>

Leave(g) ==
  /\ At(Write(g), "leave")
  /\ active' = FALSE
  /\ detached' = detached \ {Write(g)}
  /\ Goto(Write(g), "done")
  /\ UNCHANGED <<output, connecting, stopAt, writer, file, raw, ret, hand,
                 user, counts, races>>

-----------------------------------------------------------------------------
(* obs_output_end_data_capture, on a start, write or the user thread.      *)

Deactivates(t) == t = User \/ t \in Writers

\* Mutant: the "stop" signal is forgotten
EndCaptureSilently(t) ==
  /\ At(t, "endCapture") /\ obsActive /\ dataActive
  /\ ending => Joined(t, End)
  /\ dataActive' = FALSE
  /\ ending' = TRUE
  /\ pc' = [pc EXCEPT ![t] = IF Deactivates(t) THEN "deactivate"
                                 ELSE "connected", ![End] = "video"]
  /\ UNCHANGED <<obsActive, stoppingEvent, hooked, plugin, raw, calls, user,
                 counts, races>>

EndCapture(t) ==
  /\ At(t, "endCapture") /\ obsActive /\ dataActive
  /\ ending => Joined(t, End)
  /\ dataActive' = FALSE
  /\ ending' = TRUE
  /\ pc' = [pc EXCEPT ![t] = "signalStopped", ![End] = "video"]
  /\ UNCHANGED <<obsActive, stoppingEvent, hooked, plugin, raw, calls, user,
                 counts, races>>

Told == IF destroying THEN client ELSE "idle"

SignalStopped(t) ==
  /\ At(t, "signalStopped")
  /\ client' = Told
  /\ Goto(t, IF Deactivates(t) THEN "deactivate" ELSE "connected")
  /\ UNCHANGED <<output, plugin, raw, calls, forced, destroying, counts,
                 races>>

(* Nothing is captured: only the signal and the event.                     *)
SignalStopOnly(t) ==
  /\ At(t, "endCapture") /\ ~(obsActive /\ dataActive)
  /\ client' = Told
  /\ stoppingEvent' = TRUE
  /\ Goto(t, IF Deactivates(t) THEN "deactivate" ELSE "connected")
  /\ UNCHANGED <<obsActive, dataActive, ending, hooked, plugin, raw, calls,
                 forced, destroying, counts, races>>

(* end_data_capture_thread: disconnecting waits for the callback.          *)
Unhook(s, from, to) ==
  /\ At(End, from) /\ (s \in Sources => raw[s] = 0)
  /\ hooked' = hooked \ {s}
  /\ Goto(End, to)
  /\ UNCHANGED <<obsActive, dataActive, stoppingEvent, ending, plugin, raw,
                 calls, user, counts, races>>

ClearActive ==
  /\ At(End, "inactive")
  /\ obsActive' = FALSE
  /\ Goto(End, "event")
  /\ UNCHANGED <<dataActive, stoppingEvent, ending, hooked, plugin, raw, calls,
                 user, counts, races>>

SignalEnded ==
  /\ At(End, "event")
  /\ stoppingEvent' = TRUE
  /\ Goto(End, "ending")
  /\ UNCHANGED <<obsActive, dataActive, ending, hooked, plugin, raw, calls,
                 user, counts, races>>

ClearEnding ==
  /\ At(End, "ending")
  /\ ending' = FALSE
  /\ Goto(End, "done")
  /\ UNCHANGED <<obsActive, dataActive, stoppingEvent, hooked, plugin, raw,
                 calls, user, counts, races>>

-----------------------------------------------------------------------------
(* ffmpeg_deactivate, on a write or the user thread.                       *)

\* Mutant: the write thread is not woken up
DeactivateUnposted(t) ==
  /\ At(t, "deactivate")
  /\ stopEvent' = (stopEvent \/ writeActive)
  /\ Goto(t, IF writeActive THEN "joinWrite" ELSE "trailer")
  /\ UNCHANGED <<output, active, connecting, stopAt, writeActive, writeThread,
                 writeSem, file, raw, calls, user, counts, races>>

Deactivate(t) ==
  /\ At(t, "deactivate")
  /\ IF writeActive
       THEN /\ stopEvent' = TRUE
            /\ writeSem' = writeSem + 1
            /\ Goto(t, "joinWrite")
       ELSE Goto(t, "trailer") /\ UNCHANGED <<stopEvent, writeSem>>
  /\ UNCHANGED <<output, active, connecting, stopAt, writeActive, writeThread,
                 file, raw, calls, user, counts, races>>

\* Mutant: the write thread is not joined
JoinNothing(t) ==
  /\ At(t, "joinWrite")
  /\ writeActive' = FALSE
  /\ Goto(t, "trailer")
  /\ UNCHANGED <<output, active, connecting, stopAt, writeThread, stopEvent,
                 writeSem, file, raw, calls, user, counts, races>>

JoinWrite(t) ==
  /\ At(t, "joinWrite") /\ Joined(t, Write(writeThread))
  /\ writeActive' = FALSE
  /\ Goto(t, "trailer")
  /\ UNCHANGED <<output, active, connecting, stopAt, writeThread, stopEvent,
                 writeSem, file, raw, calls, user, counts, races>>

(* The packets that are left, then ffmpeg_data_free: the trailer is        *)
(* written and the encoders are closed,                                    *)
WriteTrailer(t) ==
  /\ At(t, "trailer")
  /\ packets' = <<>>
  /\ closed' = IF data = 0 THEN closed ELSE closed \cup {data}
  /\ Race("inCallback", \E s \in Sources : raw[s] # 0)
  /\ Goto(t, "clear")
  /\ UNCHANGED <<output, active, connecting, stopAt, writer, data, raw, calls,
                 user, starts, stops, asked>>

(* and everything is forgotten.                                            *)
ClearData(t) ==
  /\ At(t, "clear")
  /\ data' = 0
  /\ ret' = [ret EXCEPT ![t] = IF t = User THEN "idle" ELSE "wait"]
  /\ Goto(t, ret[t])
  /\ UNCHANGED <<output, active, connecting, stopAt, writer, packets, raw,
                 detached, hand, user, counts, races>>

-----------------------------------------------------------------------------
(* obs_output_stop and obs_output_force_stop, on the user thread.          *)

Back == IF destroying THEN "destroyWait" ELSE "idle"

UserStop(force) ==
  /\ MayAsk /\ obsActive
  /\ stops < MaxStops
  /\ stops' = stops + 1
  /\ asked' = TRUE
  /\ client' = IF client = "live" THEN "stopping" ELSE client
  /\ forced' = force
  /\ Goto(User, "resetEvent")
  /\ UNCHANGED <<output, plugin, raw, calls, destroying, starts, closed,
                 races>>

(* obs_output_actual_stop                                                  *)
ResetStoppingEvent ==
  \/ ~stoppingEvent /\ ~forced /\ Move(User, "resetEvent", Back)
  \/ /\ At(User, "resetEvent") /\ (stoppingEvent \/ forced)
     /\ stoppingEvent' = FALSE
     /\ Goto(User, "pluginStop")
     /\ Race("overlap", ~dataActive \/ \E w \in Writers : Ending(w))
     /\ UNCHANGED <<obsActive, dataActive, ending, hooked, plugin, raw, calls,
                    user, counts>>

(* ffmpeg_output_stop: at once, or at the timestamp.                       *)
StopNow ==
  /\ At(User, "pluginStop") /\ forced
  /\ IF active THEN Goto(User, "endCapture") ELSE Goto(User, Back)
  /\ ret' = [ret EXCEPT ![User] = IF active THEN Back ELSE "idle"]
  /\ forced' = FALSE
  /\ Race("early", Unset)
  /\ UNCHANGED <<output, plugin, raw, detached, hand, destroying, client,
                 counts>>

StopLater ==
  /\ At(User, "pluginStop") /\ ~forced
  /\ IF active THEN stopping' = TRUE /\ Goto(User, "setStopTs")
               ELSE UNCHANGED stopping /\ Goto(User, Back)
  /\ UNCHANGED <<output, active, connecting, stopTs, writer, file, raw, calls,
                 user, counts, races>>

SetStopTs ==
  /\ At(User, "setStopTs")
  /\ stopTs' = starts
  /\ Goto(User, Back)
  /\ UNCHANGED <<output, active, connecting, stopping, writer, file, raw,
                 calls, user, counts, races>>

(* obs_output_destroy and ffmpeg_output_destroy.  Bound: after the last     *)
(* start.                                                                  *)
UserDestroy ==
  /\ MayAsk /\ ~destroying /\ starts = MaxStarts
  /\ destroying' = TRUE
  /\ forced' = obsActive /\ asked' = TRUE
  /\ Goto(User, IF obsActive THEN "resetEvent" ELSE "destroyWait")
  /\ UNCHANGED <<output, plugin, raw, calls, client, starts, stops, closed,
                 races>>

DestroyWait ==
  /\ stoppingEvent /\ (ending => Joined(User, End))
  /\ Move(User, "destroyWait",
          IF connecting THEN "destroyJoin" ELSE "destroyStop")

DestroyJoin ==
  /\ Move(User, "destroyJoin", "destroyStop")
  /\ Joined(User, Start(starts))

DestroyStop ==
  /\ At(User, "destroyStop")
  /\ Goto(User, IF active THEN "endCapture" ELSE "freed")
  /\ ret' = [ret EXCEPT ![User] = "freed"]
  /\ Race("overlap", \E w \in Writers : Ending(w))
  /\ UNCHANGED <<output, plugin, raw, detached, hand, user, counts>>

-----------------------------------------------------------------------------
Init ==
  /\ obsActive = FALSE /\ dataActive = FALSE /\ stoppingEvent = TRUE
  /\ ending = FALSE /\ hooked = {}
  /\ active = FALSE /\ connecting = FALSE /\ stopping = FALSE /\ stopTs = 0
  /\ writeActive = FALSE /\ writeThread = 0 /\ stopEvent = FALSE /\ writeSem = 0
  /\ packets = <<>> /\ data = 0
  /\ raw = [s \in Sources |-> 0]
  /\ pc = [t \in Threads |-> IF t = User THEN "idle" ELSE "none"]
  /\ ret = [t \in Threads |-> IF t = User THEN "idle" ELSE "wait"]
  /\ detached = {}
  /\ hand = [g \in Starts |-> 0]
  /\ forced = FALSE /\ destroying = FALSE
  /\ client = "idle"
  /\ starts = 0 /\ stops = 0 /\ asked = FALSE /\ closed = {} /\ races = {}

UserStep ==
  \/ StartRefused \/ FfmpegStart \/ SetConnecting
  \/ ResetStoppingEvent \/ StopNow \/ StopLater \/ SetStopTs
  \/ DestroyWait \/ DestroyJoin \/ DestroyStop

StartStep(g) ==
  \/ OpenFile(g) \/ SetActive(g) \/ CanBegin(g) \/ SpawnWrite(g)
  \/ BeginCapture(g) \/ Activate(g) \/ SignalStart(g) \/ SetWriteActive(g)
  \/ ClearConnecting(g)

WriteStep(g) ==
  \/ SemWait(g) \/ CheckEvent(g) \/ TakeToWrite(g) \/ TakeLast(g)
  \/ TookNothing(g) \/ WriteFrame(g) \/ WriteFails(g) \/ Leave(g)

EndCaptureStep(t) ==
  \/ EndCapture(t) \/ SignalStopped(t) \/ SignalStopOnly(t)
  \/ Deactivate(t) \/ JoinWrite(t) \/ WriteTrailer(t) \/ ClearData(t)

EndStep ==
  \/ Unhook("video", "video", "audio") \/ Unhook("audio", "audio", "inactive")
  \/ ClearActive \/ SignalEnded \/ ClearEnding

RawStep(s) == RawEnter(s) \/ RawNothing(s) \/ RawPacket(s)

Next ==
  \/ UserStart \/ UserDestroy \/ \E force \in BOOLEAN : UserStop(force)
  \/ UserStep \/ EndStep
  \/ \E g \in Starts : StartStep(g) \/ WriteStep(g)
  \/ \E t \in Threads : EndCaptureStep(t)
  \/ \E s \in Sources : RawStep(s)

(* Every thread runs on, the encoders give packets, and in the end one is  *)
(* later than the stop.                                                    *)
Fairness ==
  /\ WF_vars(UserStep) /\ WF_vars(EndStep)
  /\ WF_vars(\E g \in Starts : StartStep(g))
  /\ WF_vars(\E g \in Starts : WriteStep(g))
  /\ WF_vars(\E t \in Threads : EndCaptureStep(t))
  /\ WF_vars(\E s \in Sources : RawStep(s))
  /\ SF_vars(\E s \in Sources : RawPacket(s))

Spec == Init /\ [][Next]_vars /\ Fairness

-----------------------------------------------------------------------------
(* Races of the code that the properties leave out:                        *)
(*  - early: the recording ends before its start thread has set            *)
(*    write_thread_active,                                                 *)
(*  - overlap: a stop or a destruction while the recording ends by itself, *)
(*  - inCallback: the file is closed under a callback that encodes (no     *)
(*    property, but MayAsk: a packet may be left for the next recording),  *)
(*  - hasty: a packet between the stores to stopping and stop_ts,          *)
(*  - lateConnecting: connecting is set after its thread has cleared it.   *)
Without(rs) == races \cap rs = {}

Closing(t) == pc[t] \in {"trailer", "clear"}

(* A recording's file gets the packets encoded for it and only those, from *)
(* one writer, and its trailer once, after the last of them.               *)
FileIntact ==
  Without({"early", "overlap"}) =>
    /\ \A g \in Starts :
         At(Write(g), "write") => hand[g] = data /\ data \notin closed
    /\ \A t, u \in Threads :
         Closing(t) /\ t # u => ~Closing(u) /\ ~At(u, "write")
    /\ \A t \in Threads : At(t, "trailer") => data \notin closed

(* A stop at a timestamp drops nothing that was encoded before it.         *)
NothingCut ==
  Without({"hasty"}) =>
    \A t \in Writers : At(t, "trailer") /\ ret[t] = "wait" =>
      \A i \in DOMAIN packets : ~packets[i].before

AtRest ==
  Settled /\ pc[User] \in {"idle", "freed"} /\ \A s \in Sources : raw[s] = 0

(* After a recording everything is ready for the next one: no flag stays   *)
(* set, no event signalled, no thread left behind.                         *)
Restartable ==
  AtRest /\ Without({"lateConnecting", "early", "overlap"}) =>
    /\ stoppingEvent /\ ~connecting /\ ~stopEvent
    /\ ~active /\ ~writeActive /\ data = 0
    /\ At(User, "idle") => client = "idle"

(* The recording as the recorder's context thread sees it.                 *)
Over(g) == pc[Start(g)] \in {"signalStart", "setWrite", "connected"}

LifePhase ==
  IF obsActive /\ ~ending THEN IF stoppingEvent THEN "active" ELSE "stopping"
  ELSE IF \E g \in Starts : Running(Start(g)) /\ ~Over(g)
    THEN "connecting" ELSE "idle"

LifeEnding == pc[End] \in {"video", "audio", "inactive"}
LifeOwed   == \E t \in Threads : At(t, "signalStopped")

Life == INSTANCE OutputLife WITH
          phase <- LifePhase, ending <- LifeEnding, owed <- LifeOwed

(* The recording implements the output that the recorder relies on, until  *)
(* it is destroyed or one of the races happens.                            *)
ImplementsOutputLife ==
  /\ Life!Init
  /\ [][~destroying' /\ Without({"early", "overlap"})' =>
         [Life!Next]_(Life!vars)]_vars

(* A stop is reported in the end and its file closed.                      *)
StopCompletes ==
  client = "stopping" ~> \/ client # "stopping" /\ starts \in closed
                         \/ destroying \/ ~Without({"early", "overlap"})
=============================================================================
