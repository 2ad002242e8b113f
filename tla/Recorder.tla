------------------------------ MODULE Recorder ------------------------------
(***************************************************************************)
(* The recorder process (zdtalkrecorder): commands come from a server over *)
(* a local socket to the main thread (recorder-client.cpp), which posts    *)
(* them to the thread of RecorderObsContext; that thread drives the two    *)
(* outputs of BasicOutputHandler (recorder-outputs.cpp), whose own threads *)
(* report with signals that go back to the server as notices.              *)
(*                                                                         *)
(* A signal of a libobs thread is posted to the context thread's queue     *)
(* (invokeMethod) and from there to the main thread's; one that fires on   *)
(* the context thread goes straight to the main thread's queue.  The       *)
(* outputs are abstract here: what libobs and the plugins do between start *)
(* and stop is the subject of StreamOutput.                                *)
(***************************************************************************)
EXTENDS Naturals, Sequences, SequencesExt, TLC

CONSTANT MaxCommands      \* bound: commands the server sends

ASSUME RecorderAssumption == MaxCommands \in Nat

Outputs == {"recording", "streaming"}

VARIABLES
  wire,      \* commands in the socket
  ctxQ,      \* events of the context thread: commands and posted notices
  mainQ,     \* notices posted to the main thread
  pc,        \* the output the context thread is about to start, or "idle"
  handler,   \* whether output_handler_ is there
  phase,     \* [Outputs -> idle, connecting, active, stopping]
  ending,    \* [Outputs -> BOOLEAN], its end_data_capture_thread runs
  owed,      \* [Outputs -> BOOLEAN], the thread that ended it has still to signal
  code,      \* [Outputs -> stop_code]
  flag,      \* [Outputs -> streamingActive, recordingActive of the handler]
  filePath,  \* FilePath of the configuration
  file,      \* the path the recording was started with
  life,      \* of the process: running, quitting, closed
  sent,      \* history: commands sent
  heard,     \* [Outputs -> the last notice the server has of it]
  asked,     \* [Outputs -> the server waits for the answer to a start]
  races      \* history: what went past the protocol so far

queues == <<wire, ctxQ, mainQ>>
output == <<phase, ending, owed, code, flag>>
paths  == <<filePath, file>>
server == <<sent, heard, asked>>
vars   == <<queues, pc, handler, output, paths, life, server, races>>

Event(what, o, arg) == [what |-> what, out |-> o, arg |-> arg, own |-> 0]
Notices == {"started", "stopped", "error", "inited"}

Set(f, o, v) == [f EXCEPT ![o] = v]
Race(r) == races' = races \cup {r}

(* obs_output_active: until the end thread is through.                     *)
Active(o) == phase[o] \in {"active", "stopping"} \/ ending[o]

Pending(o) == \E i \in DOMAIN ctxQ : ctxQ[i].out = o /\ ctxQ[i].what \in Notices

(* OBSStopStreaming, OBSStopRecording: an error is reported instead of the *)
(* stop; a recording is reported with the path of the configuration.       *)
StopNotice(o, c) ==
  [what |-> IF c = "success" THEN "stopped" ELSE "error", out |-> o,
   arg |-> filePath, own |-> file]

Post(e) == ctxQ' = Append(ctxQ, e) /\ UNCHANGED <<wire, mainQ>>

-----------------------------------------------------------------------------
(* The server, and the main thread.                                        *)

Commands ==
  {Event("init", "none", 0), Event("exit", "none", 0)} \cup
  {Event("start", o, p) : o \in Outputs, p \in {0, sent + 1}} \cup
  {Event("stop", o, force) : o \in Outputs, force \in {0, 1}}

(* obs_output_force_stop ends a recording in the thread that calls it.     *)
StopsNow(e) == e.out = "recording" /\ e.arg = 1

(* A path, or a server and key, of 0 is empty.                             *)
Command(e) ==
  /\ sent < MaxCommands
  /\ e.what \in {"start", "stop"} => handler
  /\ wire' = Append(wire, e)
  /\ sent' = sent + 1
  /\ asked' = IF e.what = "start" THEN Set(asked, e.out, TRUE) ELSE asked
  /\ UNCHANGED <<ctxQ, mainQ, pc, handler, output, paths, life, heard, races>>

(* A turn of the loop of OnSocketReadyRead; an exit goes to the main loop. *)
(* The context thread may run between two turns, and messages that the     *)
(* call has not read are as good as not arrived.                           *)
OnSocketReadyRead ==
  /\ wire # <<>> /\ life # "closed"
  /\ wire' = Tail(wire)
  /\ IF Head(wire).what = "exit" THEN life' = "quitting" /\ UNCHANGED ctxQ
     ELSE ctxQ' = Append(ctxQ, Head(wire)) /\ UNCHANGED life
  /\ UNCHANGED <<mainQ, pc, handler, output, paths, server, races>>

(* OnOBS... and SendMessageToServer.                                       *)
SendMessageToServer ==
  /\ mainQ # <<>> /\ life # "closed"
  /\ LET e == Head(mainQ)
     IN  IF e.out \in Outputs
         THEN heard' = Set(heard, e.out, e.what) /\ asked' = Set(asked, e.out, FALSE)
         ELSE UNCHANGED <<heard, asked>>
  /\ mainQ' = Tail(mainQ)
  /\ UNCHANGED <<wire, ctxQ, pc, handler, output, paths, life, sent, races>>

(* quit() after the timer, then ~RecorderClient: it waits half a second    *)
(* for the context thread and then deletes what that thread works on; the  *)
(* destructors of the handler close the outputs.                           *)
Quit ==
  /\ life = "quitting"
  /\ life' = "closed"
  /\ phase' = [o \in Outputs |-> "idle"] /\ pc' = "idle" /\ handler' = FALSE
  /\ ending' = [o \in Outputs |-> FALSE] /\ owed' = ending'
  /\ ctxQ' = <<>> /\ mainQ' = <<>>
  /\ UNCHANGED <<wire, code, flag, paths, server, races>>

-----------------------------------------------------------------------------
(* The context thread.                                                     *)

Take(what) ==
  /\ pc = "idle" /\ life # "closed"
  /\ ctxQ # <<>> /\ Head(ctxQ).what \in what
  /\ ctxQ' = Tail(ctxQ)

(* A posted notice becomes a signal of the context.                        *)
Relay ==
  /\ Take(Notices)
  /\ mainQ' = Append(mainQ, Head(ctxQ))
  /\ UNCHANGED <<wire, pc, handler, output, paths, life, server, races>>

Emit(e) == mainQ' = Append(mainQ, e)

(* obs_reset_video refuses while an output is connected to the video.      *)
InitFails ==
  /\ Take({"init"})
  /\ Emit(Event("error", "none", 0))
  /\ UNCHANGED <<wire, pc, handler, output, paths, life, server, races>>

(* Init with ResetOutputs: the handler is replaced unless its flags say    *)
(* that it is active, and an output that is connecting goes with it.       *)
InitSucceeds ==
  /\ Take({"init"})
  /\ \A o \in Outputs : ~Active(o)
  /\ Emit(Event("inited", "none", 0))
  /\ handler' = TRUE
  /\ IF \E o \in Outputs : flag[o]
     THEN UNCHANGED <<phase, races>>
     ELSE /\ phase' = [o \in Outputs |-> "idle"]
          /\ IF \A o \in Outputs : phase[o] = "idle"
             THEN UNCHANGED races ELSE Race("replaced")
  /\ UNCHANGED <<wire, pc, ending, owed, code, flag, paths, life, server>>

\* Mutant: the path is stored before the output is looked at
StartIgnoredRenames ==
  /\ Take({"start"})
  /\ Active(Head(ctxQ).out)
  /\ filePath' = IF Head(ctxQ).out = "recording" THEN Head(ctxQ).arg ELSE filePath
  /\ Race("ignored")
  /\ UNCHANGED <<wire, mainQ, pc, handler, output, file, life, server>>

(* StartRecording, StartStreaming up to the call of the output.            *)
StartIgnored ==
  /\ Take({"start"})
  /\ Active(Head(ctxQ).out)
  /\ Race("ignored")
  /\ UNCHANGED <<wire, mainQ, pc, handler, output, paths, life, server>>

\* Mutant: an empty path returns without a word
StartInvalidSilent ==
  /\ Take({"start"})
  /\ ~Active(Head(ctxQ).out) /\ Head(ctxQ).arg = 0
  /\ UNCHANGED <<wire, mainQ, pc, handler, output, paths, life, server, races>>

StartInvalid ==
  /\ Take({"start"})
  /\ ~Active(Head(ctxQ).out) /\ Head(ctxQ).arg = 0
  /\ Emit(Event("error", Head(ctxQ).out, 0))
  /\ UNCHANGED <<wire, pc, handler, output, paths, life, server, races>>

StartChecked ==
  /\ Take({"start"})
  /\ ~Active(Head(ctxQ).out) /\ Head(ctxQ).arg # 0
  /\ pc' = Head(ctxQ).out
  /\ filePath' = IF pc' = "recording" THEN Head(ctxQ).arg ELSE filePath
  /\ IF pc' = "recording" /\ (phase[pc'] = "connecting" \/ owed[pc'])
     THEN Race("renamed") ELSE UNCHANGED races
  /\ UNCHANGED <<wire, mainQ, handler, output, file, life, server>>

(* obs_output_start: it waits for stopping_event and clears stop_code.     *)
StartOutput ==
  /\ pc \in Outputs /\ phase[pc] = "idle" /\ ~ending[pc] /\ life # "closed"
  /\ phase' = Set(phase, pc, "connecting")
  /\ code' = Set(code, pc, "success")
  /\ file' = IF pc = "recording" THEN filePath ELSE file
  /\ IF owed[pc] THEN Race("late signal") ELSE UNCHANGED races
  /\ pc' = "idle"
  /\ UNCHANGED <<queues, handler, ending, owed, flag, filePath, life, server>>

(* The plugin refuses at once (no encoder, no thread), or the ffmpeg       *)
(* output because it is connecting already.                                *)
StartRefused ==
  /\ pc \in Outputs /\ phase[pc] \in {"idle", "connecting"} /\ ~ending[pc]
  /\ pc = "streaming" => phase[pc] = "idle"
  /\ life # "closed"
  /\ Emit(Event("error", pc, 0))
  /\ code' = Set(code, pc, "success")
  /\ pc' = "idle"
  /\ UNCHANGED <<wire, ctxQ, handler, phase, ending, owed, flag, paths, life, server,
                 races>>

(* Nothing stops a second start while the stream connects, or when an      *)
(* output has become active since the check.                               *)
StartTwice ==
  /\ pc \in Outputs /\ life # "closed"
  /\ phase[pc] \in {"active", "stopping"} \cup
       (IF pc = "streaming" THEN {"connecting"} ELSE {})
  /\ Race("started twice")
  /\ pc' = "idle"
  /\ UNCHANGED <<queues, handler, output, paths, life, server>>

(* Nothing is active yet or any more, or the stop is under way.            *)
StopIgnored ==
  /\ Take({"stop"})
  /\ phase[Head(ctxQ).out] # "active"
  /\ ~(StopsNow(Head(ctxQ)) /\ phase["recording"] = "stopping")
  /\ UNCHANGED <<wire, mainQ, pc, handler, output, paths, life, server, races>>

(* A stop the output's own thread carries out.                             *)
StopLater ==
  /\ Take({"stop"})
  /\ ~StopsNow(Head(ctxQ))
  /\ LET o == Head(ctxQ).out
     IN  /\ phase[o] = "active"
         /\ phase' = Set(phase, o, "stopping")
  /\ UNCHANGED <<wire, mainQ, pc, handler, ending, owed, code, flag, paths, life,
                 server, races>>

(* A forced stop of the recording ends it in this thread, signal included. *)
StopNow ==
  /\ Take({"stop"})
  /\ StopsNow(Head(ctxQ))
  /\ phase["recording"] \in {"active", "stopping"}
  /\ phase' = Set(phase, "recording", "idle")
  /\ ending' = Set(ending, "recording", TRUE)
  /\ flag' = Set(flag, "recording", FALSE)
  /\ Emit(StopNotice("recording", "success"))
  /\ IF Pending("recording") THEN Race("overtaken") ELSE UNCHANGED races
  /\ UNCHANGED <<wire, pc, handler, owed, code, paths, life, server>>

-----------------------------------------------------------------------------
(* The threads of the outputs.                                             *)

Connected(o) ==
  /\ phase[o] = "connecting"
  /\ phase' = Set(phase, o, "active")
  /\ flag' = Set(flag, o, TRUE)
  /\ Post(Event("started", o, 0))
  /\ UNCHANGED <<pc, handler, ending, owed, code, paths, life, server, races>>

(* signal_stop of an output that is not active signals at once.            *)
ConnectFailed(o) ==
  /\ phase[o] = "connecting"
  /\ phase' = Set(phase, o, "idle")
  /\ code' = Set(code, o, "success")
  /\ flag' = Set(flag, o, FALSE)
  /\ Post(StopNotice(o, "error"))
  /\ UNCHANGED <<pc, handler, ending, owed, paths, life, server, races>>

(* obs_output_end_data_capture: the end thread first, the signal second.   *)
EndDataCapture(o, c) ==
  /\ phase[o] = "stopping" \/ (phase[o] = "active" /\ c = "error")
  /\ phase' = Set(phase, o, "idle")
  /\ ending' = Set(ending, o, TRUE)
  /\ owed' = Set(owed, o, TRUE)
  /\ code' = Set(code, o, c)
  /\ UNCHANGED <<queues, pc, handler, flag, paths, life, server, races>>

EndThread(o) ==
  /\ ending[o]
  /\ ending' = Set(ending, o, FALSE)
  /\ UNCHANGED <<queues, pc, handler, phase, owed, code, flag, paths, life, server, races>>

\* Mutant: only the stop the user asked for is reported
SignalAskedStop(o) ==
  /\ owed[o]
  /\ owed' = Set(owed, o, FALSE)
  /\ flag' = Set(flag, o, FALSE)
  /\ code' = Set(code, o, "success")
  /\ IF code[o] = "success" THEN Post(StopNotice(o, code[o])) ELSE UNCHANGED queues
  /\ UNCHANGED <<pc, handler, phase, ending, paths, life, server, races>>

SignalStop(o) ==
  /\ owed[o]
  /\ owed' = Set(owed, o, FALSE)
  /\ flag' = Set(flag, o, FALSE)
  /\ code' = Set(code, o, "success")
  /\ Post(StopNotice(o, code[o]))
  /\ UNCHANGED <<pc, handler, phase, ending, paths, life, server, races>>

-----------------------------------------------------------------------------

Init ==
  /\ wire = <<>> /\ ctxQ = <<>> /\ mainQ = <<>>
  /\ pc = "idle" /\ handler = FALSE
  /\ phase = [o \in Outputs |-> "idle"]
  /\ ending = [o \in Outputs |-> FALSE] /\ owed = ending /\ flag = ending
  /\ code = [o \in Outputs |-> "success"]
  /\ filePath = 0 /\ file = 0
  /\ life = "running" /\ sent = 0
  /\ heard = [o \in Outputs |-> "nothing"]
  /\ asked = [o \in Outputs |-> FALSE]
  /\ races = {}

MainThread == OnSocketReadyRead \/ SendMessageToServer \/ Quit

ContextThread ==
  \/ Relay \/ InitFails \/ InitSucceeds
  \/ StartIgnored \/ StartInvalid \/ StartChecked
  \/ StartOutput \/ StartRefused \/ StartTwice
  \/ StopIgnored \/ StopLater \/ StopNow

OutputThreads(o) ==
  \/ Connected(o) \/ ConnectFailed(o)
  \/ \E c \in {"success", "error"} : EndDataCapture(o, c)
  \/ EndThread(o) \/ SignalStop(o)

Next ==
  \/ \E e \in Commands : Command(e)
  \/ MainThread \/ ContextThread
  \/ \E o \in Outputs : OutputThreads(o)

(* Every thread goes on, and a connection attempt ends.                    *)
Fairness ==
  /\ WF_vars(OnSocketReadyRead) /\ WF_vars(SendMessageToServer)
  /\ WF_vars(ContextThread)
  /\ \A o \in Outputs : /\ WF_vars(Connected(o) \/ ConnectFailed(o))
                       /\ WF_vars(EndThread(o)) /\ WF_vars(SignalStop(o))

Spec == Init /\ [][Next]_vars /\ Fairness

-----------------------------------------------------------------------------

Quiet ==
  /\ wire = <<>> /\ ctxQ = <<>> /\ mainQ = <<>> /\ pc = "idle" /\ life = "running"
  /\ \A o \in Outputs : ~owed[o] /\ ~ending[o] /\ phase[o] \in {"idle", "active"}

(* When everything has come to rest, the last notice the server has of an  *)
(* output tells it whether the output runs.  Three races break it in the   *)
(* code, and only these: a forced stop whose notice goes past the start's, *)
(* a stop signalled when the next start has begun, and a second start of   *)
(* an output that is connecting or running.                                *)
ServerKnows ==
  Quiet /\ races \cap {"overtaken", "late signal", "started twice"} = {} =>
    \A o \in Outputs : heard[o] = "started" <=> phase[o] = "active"

(* The path reported with a finished recording is the one it was written   *)
(* to, unless the path was changed by a start that came while the          *)
(* recording was connecting, or by one that began before the signal.       *)
TruePath ==
  races \cap {"renamed", "late signal", "started twice"} = {} =>
    \A e \in Range(ctxQ \o mainQ) :
      e.what = "stopped" /\ e.out = "recording" => e.arg = e.own

(* Every start is answered, through three queues and two threads, unless   *)
(* it found the output active (still, when it is ending), a second Init    *)
(* threw the connecting output away, or the recorder is quitting.          *)
StartAnswered ==
  \A o \in Outputs :
    asked[o] ~> \/ ~asked[o] \/ life # "running"
                \/ races \cap {"ignored", "replaced", "started twice"} # {}
=============================================================================
