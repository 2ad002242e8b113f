--------------------------- MODULE RecorderProofs ---------------------------
(***************************************************************************)
(* Proofs about Recorder for any number of commands.  What the server will *)
(* believe of an output is the last notice of it on its way: in the        *)
(* context thread's queue, or else in the main thread's, or else what it   *)
(* has heard already.  Unless one of the races has happened, that notice   *)
(* is true from the moment the output's end has been signalled.            *)
(***************************************************************************)
EXTENDS Recorder, TLAPS

Answers == {"started", "stopped", "error"}
Phases  == {"idle", "connecting", "active", "stopping"}

Orders ==
  [what : {"init", "exit"}, out : {"none"}, arg : Nat, own : Nat] \cup
  [what : {"start", "stop"}, out : Outputs, arg : Nat, own : Nat]
Reports == [what : Answers, out : Outputs, arg : Nat, own : Nat]
General == [what : {"inited", "error"}, out : {"none"}, arg : Nat, own : Nat]
CtxEvents  == Orders \cup Reports
MainEvents == Reports \cup General

TypeOK ==
  /\ wire \in Seq(Orders) /\ ctxQ \in Seq(CtxEvents) /\ mainQ \in Seq(MainEvents)
  /\ pc \in Outputs \cup {"idle"} /\ handler \in BOOLEAN
  /\ phase \in [Outputs -> Phases]
  /\ ending \in [Outputs -> BOOLEAN] /\ owed \in [Outputs -> BOOLEAN]
  /\ code \in [Outputs -> {"success", "error"}] /\ flag \in [Outputs -> BOOLEAN]
  /\ filePath \in Nat /\ file \in Nat
  /\ life \in {"running", "quitting", "closed"} /\ sent \in Nat
  /\ heard \in [Outputs -> Answers \cup {"nothing"}]
  /\ asked \in [Outputs -> BOOLEAN]

-----------------------------------------------------------------------------
(* Queues of notices.                                                      *)

IsNotice(e, o) == e.out = o /\ e.what \in Answers

Live(ph) == ph \in {"active", "stopping"}
Says(what, ph) == what = "started" <=> Live(ph)

Silent(q, o) == \A i \in 1 .. Len(q) : ~IsNotice(q[i], o)

(* The last notice of output o in q, if there is one, is true of phase ph. *)
LastSays(q, o, ph) ==
  \A i \in 1 .. Len(q) :
    IsNotice(q[i], o) /\ (\A j \in 1 .. Len(q) : j > i => ~IsNotice(q[j], o))
      => Says(q[i].what, ph)

(* What the server will have heard of o when the queues m and c are empty. *)
Believes(m, c, h, o, ph) ==
  /\ LastSays(c, o, ph)
  /\ Silent(c, o) => LastSays(m, o, ph)
  /\ Silent(c, o) /\ Silent(m, o) => Says(h, ph)

LEMMA AppendNotice ==
  ASSUME NEW S, NEW q \in Seq(S), NEW e \in S, NEW o, NEW ph, IsNotice(e, o)
  PROVE  /\ ~Silent(Append(q, e), o)
         /\ Says(e.what, ph) => LastSays(Append(q, e), o, ph)
<1>1. Len(Append(q, e)) = Len(q) + 1 /\ Len(q) \in Nat
  OBVIOUS
<1>2. Append(q, e)[Len(q) + 1] = e
  OBVIOUS
<1>3. ~Silent(Append(q, e), o)
  BY <1>1, <1>2 DEF Silent
<1>4. ASSUME Says(e.what, ph) PROVE LastSays(Append(q, e), o, ph)
  <2> SUFFICES ASSUME NEW i \in 1 .. Len(q) + 1,
                      \A j \in 1 .. Len(q) + 1 : j > i => ~IsNotice(Append(q, e)[j], o)
               PROVE  Says(Append(q, e)[i].what, ph)
    BY <1>1 DEF LastSays
  <2>1. i = Len(q) + 1
    BY <1>1, <1>2
  <2> QED BY <1>2, <1>4, <2>1
<1> QED BY <1>3, <1>4

LEMMA AppendOther ==
  ASSUME NEW S, NEW q \in Seq(S), NEW e \in S, NEW o, NEW ph, ~IsNotice(e, o)
  PROVE  /\ Silent(Append(q, e), o) <=> Silent(q, o)
         /\ LastSays(q, o, ph) => LastSays(Append(q, e), o, ph)
<1>1. /\ Len(Append(q, e)) = Len(q) + 1 /\ Len(q) \in Nat
      /\ Append(q, e)[Len(q) + 1] = e
      /\ \A i \in 1 .. Len(q) : Append(q, e)[i] = q[i]
  OBVIOUS
<1>2. Silent(Append(q, e), o) <=> Silent(q, o)
  BY <1>1 DEF Silent
<1>3. ASSUME LastSays(q, o, ph) PROVE LastSays(Append(q, e), o, ph)
  <2> SUFFICES ASSUME NEW i \in 1 .. Len(q) + 1, IsNotice(Append(q, e)[i], o),
                      \A j \in 1 .. Len(q) + 1 : j > i => ~IsNotice(Append(q, e)[j], o)
               PROVE  Says(Append(q, e)[i].what, ph)
    BY <1>1 DEF LastSays
  <2>1. i \in 1 .. Len(q) /\ Append(q, e)[i] = q[i]
    BY <1>1
  <2>2. \A j \in 1 .. Len(q) : j > i => ~IsNotice(q[j], o)
    BY <1>1
  <2> QED BY <1>3, <2>1, <2>2 DEF LastSays
<1> QED BY <1>2, <1>3

LEMMA TailNotice ==
  ASSUME NEW S, NEW q \in Seq(S), q # <<>>, NEW o, NEW ph
  PROVE  /\ Head(q) \in S /\ Tail(q) \in Seq(S)
         /\ Silent(q, o) <=> Silent(Tail(q), o) /\ ~IsNotice(Head(q), o)
         /\ LastSays(q, o, ph) => LastSays(Tail(q), o, ph)
         /\ ~IsNotice(Head(q), o) /\ LastSays(Tail(q), o, ph)
              => LastSays(q, o, ph)
         /\ LastSays(q, o, ph) /\ Silent(Tail(q), o) /\ IsNotice(Head(q), o)
              => Says(Head(q).what, ph)
<1>1. /\ Len(q) \in Nat /\ Len(q) > 0 /\ Len(Tail(q)) = Len(q) - 1
      /\ Head(q) = q[1] /\ Head(q) \in S /\ Tail(q) \in Seq(S)
      /\ \A i \in 1 .. Len(q) - 1 : Tail(q)[i] = q[i + 1]
  OBVIOUS
<1>2. Silent(q, o) <=> Silent(Tail(q), o) /\ ~IsNotice(Head(q), o)
  <2>1. Silent(q, o) => Silent(Tail(q), o) /\ ~IsNotice(Head(q), o)
    BY <1>1 DEF Silent
  <2>2. ASSUME Silent(Tail(q), o), ~IsNotice(Head(q), o),
               NEW i \in 1 .. Len(q)
        PROVE  ~IsNotice(q[i], o)
    <3>1. CASE i = 1
      BY <1>1, <2>2, <3>1
    <3>2. CASE i > 1
      <4>1. i - 1 \in 1 .. Len(q) - 1 /\ Tail(q)[i - 1] = q[i]
        BY <1>1, <3>2
      <4> QED BY <1>1, <2>2, <4>1 DEF Silent
    <3> QED BY <3>1, <3>2
  <2> QED BY <2>1, <2>2 DEF Silent
<1>3. ASSUME LastSays(q, o, ph) PROVE LastSays(Tail(q), o, ph)
  <2> SUFFICES ASSUME NEW i \in 1 .. Len(q) - 1, IsNotice(q[i + 1], o),
                      \A j \in 1 .. Len(q) - 1 : j > i => ~IsNotice(q[j + 1], o)
               PROVE  Says(q[i + 1].what, ph)
    BY <1>1 DEF LastSays
  <2>1. ASSUME NEW j \in 1 .. Len(q), j > i + 1 PROVE ~IsNotice(q[j], o)
    <3>1. j - 1 \in 1 .. Len(q) - 1 /\ j - 1 > i /\ (j - 1) + 1 = j
      BY <1>1, <2>1
    <3> QED BY <3>1
  <2> QED BY <1>1, <1>3, <2>1 DEF LastSays
<1>4. ASSUME ~IsNotice(Head(q), o), LastSays(Tail(q), o, ph)
      PROVE  LastSays(q, o, ph)
  <2> SUFFICES ASSUME NEW i \in 1 .. Len(q), IsNotice(q[i], o),
                      \A j \in 1 .. Len(q) : j > i => ~IsNotice(q[j], o)
               PROVE  Says(q[i].what, ph)
    BY DEF LastSays
  <2>1. i - 1 \in 1 .. Len(q) - 1 /\ Tail(q)[i - 1] = q[i]
    <3>1. i # 1
      BY <1>1, <1>4
    <3> QED BY <1>1, <3>1
  <2>2. \A j \in 1 .. Len(q) - 1 : j > i - 1 => ~IsNotice(Tail(q)[j], o)
    BY <1>1
  <2> QED BY <1>1, <1>4, <2>1, <2>2 DEF LastSays
<1>5. ASSUME LastSays(q, o, ph), Silent(Tail(q), o), IsNotice(Head(q), o)
      PROVE  Says(Head(q).what, ph)
  <2>1. ASSUME NEW j \in 1 .. Len(q), j > 1 PROVE ~IsNotice(q[j], o)
    <3>1. j - 1 \in 1 .. Len(q) - 1 /\ Tail(q)[j - 1] = q[j]
      BY <1>1, <2>1
    <3> QED BY <1>1, <1>5, <3>1 DEF Silent
  <2> QED BY <1>1, <1>5, <2>1 DEF LastSays
<1> QED BY <1>1, <1>2, <1>3, <1>4, <1>5

-----------------------------------------------------------------------------
(* What becomes of the belief when the queues change.                      *)

(* A notice from a thread of an output.                                    *)
LEMMA PostNotice ==
  ASSUME NEW C, NEW c \in Seq(C), NEW e \in C, NEW m, NEW h, NEW o, NEW ph,
         IsNotice(e, o), Says(e.what, ph)
  PROVE  Believes(m, Append(c, e), h, o, ph)
  BY AppendNotice DEF Believes

(* Anything else.                                                          *)
LEMMA PostOther ==
  ASSUME NEW C, NEW c \in Seq(C), NEW e \in C, NEW m, NEW h, NEW o, NEW ph,
         ~IsNotice(e, o), Believes(m, c, h, o, ph)
  PROVE  Believes(m, Append(c, e), h, o, ph)
  BY AppendOther DEF Believes

(* The context thread takes an order.                                      *)
LEMMA TakeOther ==
  ASSUME NEW C, NEW c \in Seq(C), c # <<>>, NEW m, NEW h, NEW o, NEW ph,
         ~IsNotice(Head(c), o), Believes(m, c, h, o, ph)
  PROVE  Believes(m, Tail(c), h, o, ph)
  BY TailNotice DEF Believes

(* The context thread emits a notice of its own.                           *)
LEMMA EmitNotice ==
  ASSUME NEW M, NEW m \in Seq(M), NEW e \in M, NEW c, NEW h, NEW o, NEW ph,
         IsNotice(e, o), Says(e.what, ph), LastSays(c, o, ph)
  PROVE  Believes(Append(m, e), c, h, o, ph)
  BY AppendNotice DEF Believes

LEMMA EmitOther ==
  ASSUME NEW M, NEW m \in Seq(M), NEW e \in M, NEW c, NEW h, NEW o, NEW ph,
         ~IsNotice(e, o), Believes(m, c, h, o, ph)
  PROVE  Believes(Append(m, e), c, h, o, ph)
  BY AppendOther DEF Believes

(* It passes a notice on.                                                  *)
LEMMA PassOn ==
  ASSUME NEW C, NEW c \in Seq(C), c # <<>>, NEW M, NEW m \in Seq(M),
         Head(c) \in M, NEW h, NEW o, NEW ph, Believes(m, c, h, o, ph)
  PROVE  Believes(Append(m, Head(c)), Tail(c), h, o, ph)
<1>1. CASE IsNotice(Head(c), o)
  <2>1. LastSays(Tail(c), o, ph)
    BY TailNotice DEF Believes
  <2>2. Silent(Tail(c), o) => LastSays(Append(m, Head(c)), o, ph)
    BY <1>1, TailNotice, AppendNotice DEF Believes
  <2>3. ~Silent(Append(m, Head(c)), o)
    BY <1>1, AppendNotice
  <2> QED BY <2>1, <2>2, <2>3 DEF Believes
<1>2. CASE ~IsNotice(Head(c), o)
  BY <1>2, TakeOther, EmitOther
<1> QED BY <1>1, <1>2

(* The server hears a notice.                                              *)
LEMMA Hear ==
  ASSUME NEW M, NEW m \in Seq(M), m # <<>>, NEW c, NEW o, NEW h, NEW g, NEW ph,
         Believes(m, c, h, o, ph),
         IsNotice(Head(m), o) => g = Head(m).what,
         ~IsNotice(Head(m), o) => g = h
  PROVE  Believes(Tail(m), c, g, o, ph)
<1>1. ASSUME Silent(c, o) PROVE LastSays(Tail(m), o, ph)
  BY <1>1, TailNotice DEF Believes
<1>2. ASSUME Silent(c, o), Silent(Tail(m), o) PROVE Says(g, ph)
  <2>1. CASE IsNotice(Head(m), o)
    BY <1>2, <2>1, TailNotice DEF Believes
  <2>2. CASE ~IsNotice(Head(m), o)
    BY <1>2, <2>2, TailNotice DEF Believes
  <2> QED BY <2>1, <2>2
<1> QED BY <1>1, <1>2 DEF Believes

(* Only whether the output runs matters of its phase.                      *)
LEMMA SamePhase ==
  ASSUME NEW m, NEW c, NEW h, NEW o, NEW ph, NEW pg, Live(ph) <=> Live(pg),
         Believes(m, c, h, o, ph)
  PROVE  Believes(m, c, h, o, pg)
<1>1. \A what : Says(what, ph) <=> Says(what, pg)
  BY DEF Says
<1> QED BY <1>1 DEF Believes, LastSays

-----------------------------------------------------------------------------
(* Types.                                                                  *)

LEMMA TakeType ==
  ASSUME TypeOK, NEW W, Take(W)
  PROVE  /\ pc = "idle" /\ life # "closed" /\ ctxQ # <<>>
         /\ Head(ctxQ) \in CtxEvents /\ Head(ctxQ).what \in W
         /\ ctxQ' = Tail(ctxQ) /\ Tail(ctxQ) \in Seq(CtxEvents)
  BY DEF Take, TypeOK

LEMMA OrderType ==
  ASSUME NEW e \in CtxEvents
  PROVE  /\ e.what \in {"start", "stop"} => e.out \in Outputs
         /\ e.what \in {"init", "exit"} => e.out = "none"
         /\ e.what \in {"start", "stop", "init", "exit"} => e \in Orders
         /\ e.what \notin {"start", "stop", "init", "exit"} => e \in Reports
         /\ e.arg \in Nat /\ e.own \in Nat
  BY DEF CtxEvents, Orders, Reports, Answers

LEMMA StopNoticeType ==
  ASSUME TypeOK, NEW o \in Outputs, NEW c
  PROVE  /\ StopNotice(o, c) \in Reports
         /\ IsNotice(StopNotice(o, c), o)
         /\ StopNotice(o, c).what = IF c = "success" THEN "stopped" ELSE "error"
         /\ StopNotice(o, c).out = o
         /\ StopNotice(o, c).arg = filePath /\ StopNotice(o, c).own = file
  BY DEF StopNotice, Reports, Answers, TypeOK, IsNotice

LEMMA EventType ==
  /\ \A o \in Outputs : /\ Event("started", o, 0) \in Reports
                        /\ Event("error", o, 0) \in Reports
  /\ Event("error", "none", 0) \in General /\ Event("inited", "none", 0) \in General
  /\ \A w, o, a : /\ Event(w, o, a).what = w /\ Event(w, o, a).out = o
                  /\ Event(w, o, a).arg = a
  BY DEF Event, Reports, Answers, General

LEMMA SetType ==
  ASSUME NEW V, NEW f \in [Outputs -> V], NEW o \in Outputs, NEW v \in V
  PROVE  /\ Set(f, o, v) \in [Outputs -> V] /\ Set(f, o, v)[o] = v
         /\ \A p \in Outputs \ {o} : Set(f, o, v)[p] = f[p]
  BY DEF Set

LEMMA InitType == Init => TypeOK
<1> SUFFICES ASSUME Init PROVE TypeOK
  OBVIOUS
<1>1. /\ phase \in [Outputs -> Phases] /\ code \in [Outputs -> {"success", "error"}]
      /\ heard \in [Outputs -> Answers \cup {"nothing"}]
  BY DEF Init, Phases
<1>2. /\ ending \in [Outputs -> BOOLEAN] /\ owed \in [Outputs -> BOOLEAN]
      /\ flag \in [Outputs -> BOOLEAN] /\ asked \in [Outputs -> BOOLEAN]
  BY DEF Init
<1>3. /\ wire \in Seq(Orders) /\ ctxQ \in Seq(CtxEvents)
      /\ mainQ \in Seq(MainEvents)
  BY DEF Init
<1> QED BY <1>1, <1>2, <1>3 DEF Init, TypeOK

LEMMA CommandType ==
  ASSUME TypeOK, NEW e \in Commands
  PROVE  e \in Orders /\ (e.what \in {"start", "stop"} => e.out \in Outputs)
  BY DEF Commands, Event, Orders, TypeOK

LEMMA GeneralMain ==
  ASSUME TypeOK, NEW e \in General \cup Reports
  PROVE  Append(mainQ, e) \in Seq(MainEvents)
<1>1. e \in MainEvents
  BY DEF MainEvents
<1> QED BY <1>1 DEF TypeOK

LEMMA ReportCtx ==
  ASSUME TypeOK, NEW e \in Orders \cup Reports
  PROVE  Append(ctxQ, e) \in Seq(CtxEvents)
<1>1. e \in CtxEvents
  BY DEF CtxEvents
<1> QED BY <1>1 DEF TypeOK

LEMMA TypeStep == TypeOK /\ [Next]_vars => TypeOK'
<1> SUFFICES ASSUME TypeOK, [Next]_vars PROVE TypeOK'
  OBVIOUS
<1> USE DEF TypeOK
<1>1. ASSUME NEW e \in Commands, Command(e) PROVE TypeOK'
  <2>1. asked' \in [Outputs -> BOOLEAN]
    BY <1>1, CommandType, SetType DEF Command
  <2>2. wire' \in Seq(Orders) /\ sent' \in Nat
    BY <1>1, CommandType DEF Command
  <2> QED BY <1>1, <2>1, <2>2 DEF Command, output, paths
<1>2. CASE OnSocketReadyRead
  <2>1. Head(wire) \in Orders /\ Tail(wire) \in Seq(Orders)
    BY <1>2 DEF OnSocketReadyRead
  <2>2. ctxQ' \in Seq(CtxEvents)
    <3>1. Head(wire) \in Orders \cup Reports
      BY <2>1, Zenon
    <3>2. ctxQ' = ctxQ \/ ctxQ' = Append(ctxQ, Head(wire))
      BY <1>2, Zenon DEF OnSocketReadyRead
    <3>3. ctxQ \in Seq(CtxEvents)
      OBVIOUS
    <3> QED BY <3>1, <3>2, <3>3, ReportCtx
  <2>3. life' \in {"running", "quitting", "closed"} /\ wire' \in Seq(Orders)
    BY <1>2, <2>1 DEF OnSocketReadyRead
  <2> QED BY <1>2, <2>2, <2>3 DEF OnSocketReadyRead, output, paths, server
<1>3. CASE SendMessageToServer
  <2>1. Head(mainQ) \in MainEvents /\ Tail(mainQ) \in Seq(MainEvents)
    BY <1>3 DEF SendMessageToServer
  <2>2. /\ heard' \in [Outputs -> Answers \cup {"nothing"}]
        /\ asked' \in [Outputs -> BOOLEAN]
    <3>1. CASE Head(mainQ).out \in Outputs
      <4>1. Head(mainQ).what \in Answers
        BY <2>1, <3>1 DEF MainEvents, Reports, General, Outputs
      <4> QED BY <1>3, <3>1, <4>1 DEF SendMessageToServer, Set
    <3>2. CASE Head(mainQ).out \notin Outputs
      BY <1>3, <3>2 DEF SendMessageToServer
    <3> QED BY <3>1, <3>2
  <2> QED BY <1>3, <2>1, <2>2 DEF SendMessageToServer, output, paths
<1>4. CASE Quit
  <2>1. /\ phase' \in [Outputs -> Phases] /\ ending' \in [Outputs -> BOOLEAN]
        /\ owed' \in [Outputs -> BOOLEAN]
    BY <1>4 DEF Quit, Phases
  <2>2. /\ ctxQ' \in Seq(CtxEvents) /\ mainQ' \in Seq(MainEvents)
        /\ pc' = "idle" /\ handler' = FALSE /\ life' = "closed"
    BY <1>4 DEF Quit
  <2> QED BY <1>4, <2>1, <2>2 DEF Quit, paths, server
<1>5. CASE Relay
  <2>1. Head(ctxQ) \in Reports /\ Tail(ctxQ) \in Seq(CtxEvents)
    <3>1. Take(Notices)
      BY <1>5, Zenon DEF Relay
    <3>2. /\ Head(ctxQ) \in CtxEvents /\ Head(ctxQ).what \in Notices
          /\ Tail(ctxQ) \in Seq(CtxEvents)
      BY <3>1, TakeType
    <3> QED BY <3>2, OrderType DEF Notices
  <2>2. mainQ' \in Seq(MainEvents)
    BY <1>5, <2>1 DEF Relay, MainEvents
  <2> QED BY <1>5, <2>1, <2>2, TakeType DEF Relay, output, paths, server
<1>6. CASE InitFails \/ InitSucceeds \/ StartIgnored \/ StartInvalid \/ StartChecked
           \/ StopIgnored \/ StopLater \/ StopNow
  <2>0. \E W : Take(W) /\ W \subseteq {"init", "start", "stop"}
    BY <1>6
       DEF InitFails, InitSucceeds, StartIgnored, StartInvalid, StartChecked,
                StopIgnored, StopLater, StopNow
  <2>1. /\ Head(ctxQ).what \in {"init", "start", "stop"}
        /\ Head(ctxQ) \in CtxEvents /\ Head(ctxQ).arg \in Nat
        /\ ctxQ' \in Seq(CtxEvents) /\ pc = "idle"
        /\ Head(ctxQ).what # "init" => Head(ctxQ).out \in Outputs
    BY <2>0, TakeType, OrderType
  <2>2. CASE InitFails \/ InitSucceeds
    <3>1. mainQ' \in Seq(MainEvents)
      <4>1. \E e \in General : mainQ' = Append(mainQ, e)
        BY <2>2, EventType DEF InitFails, InitSucceeds, Emit
      <4> QED BY <4>1, GeneralMain
    <3>2. phase' \in [Outputs -> Phases] /\ handler' \in BOOLEAN
      BY <2>2 DEF InitFails, InitSucceeds, Phases, output
    <3> QED BY <2>1, <2>2, <3>1, <3>2
            DEF InitFails, InitSucceeds, output, paths, server
  <2>3. CASE StartIgnored \/ StopIgnored
    BY <2>1, <2>3 DEF StartIgnored, StopIgnored, output, paths, server
  <2>4. CASE StartInvalid
    <3>1. mainQ' \in Seq(MainEvents)
      <4>1. /\ Head(ctxQ).out \in Outputs
            /\ mainQ' = Append(mainQ, Event("error", Head(ctxQ).out, 0))
        BY <2>1, <2>4 DEF StartInvalid, Emit, Take
      <4> QED BY <4>1, EventType, GeneralMain
    <3> QED BY <2>1, <2>4, <3>1 DEF StartInvalid, output, paths, server
  <2>5. CASE StartChecked
    <3>1. pc' \in Outputs /\ filePath' \in Nat
      BY <2>1, <2>5 DEF StartChecked, Take
    <3> QED BY <2>1, <2>5, <3>1 DEF StartChecked, output, server
  <2>6. CASE StopLater
    <3>1. phase' \in [Outputs -> Phases]
      BY <2>1, <2>6 DEF StopLater, Set, Phases
    <3> QED BY <2>1, <2>6, <3>1 DEF StopLater, paths, server
  <2>7. CASE StopNow
    <3>1. mainQ' \in Seq(MainEvents)
      BY <2>7, StopNoticeType, GeneralMain DEF StopNow, Emit, Outputs
    <3>2. /\ phase' \in [Outputs -> Phases] /\ ending' \in [Outputs -> BOOLEAN]
          /\ flag' \in [Outputs -> BOOLEAN]
      BY <2>7 DEF StopNow, Set, Phases, Outputs
    <3> QED BY <2>1, <2>7, <3>1, <3>2 DEF StopNow, paths, server
  <2> QED BY <1>6, <2>2, <2>3, <2>4, <2>5, <2>6, <2>7
<1>7. CASE StartOutput \/ StartRefused \/ StartTwice
  <2>1. pc \in Outputs /\ pc' = "idle"
    BY <1>7 DEF StartOutput, StartRefused, StartTwice
  <2>2. CASE StartOutput
    <3>1. /\ phase' \in [Outputs -> Phases]
          /\ code' \in [Outputs -> {"success", "error"}] /\ file' \in Nat
      BY <2>1, <2>2 DEF StartOutput, Set, Phases
    <3> QED BY <2>1, <2>2, <3>1 DEF StartOutput, queues, server
  <2>3. CASE StartRefused
    <3>1. mainQ' \in Seq(MainEvents)
      BY <2>1, <2>3, EventType, GeneralMain DEF StartRefused, Emit
    <3>2. code' \in [Outputs -> {"success", "error"}]
      BY <2>1, <2>3 DEF StartRefused, Set
    <3> QED BY <2>1, <2>3, <3>1, <3>2 DEF StartRefused, paths, server
  <2>4. CASE StartTwice
    BY <2>1, <2>4 DEF StartTwice, queues, output, paths, server
  <2> QED BY <1>7, <2>2, <2>3, <2>4
<1>8. ASSUME NEW o \in Outputs, OutputThreads(o) PROVE TypeOK'
  <2>1. CASE Connected(o)
    <3>1. ctxQ' \in Seq(CtxEvents)
      BY <2>1, EventType, ReportCtx DEF Connected, Post
    <3>2. phase' \in [Outputs -> Phases] /\ flag' \in [Outputs -> BOOLEAN]
      BY <2>1 DEF Connected, Set, Phases
    <3> QED BY <2>1, <3>1, <3>2 DEF Connected, Post, paths, server
  <2>2. CASE ConnectFailed(o)
    <3>1. ctxQ' \in Seq(CtxEvents)
      BY <2>2, StopNoticeType, ReportCtx DEF ConnectFailed, Post
    <3>2. /\ phase' \in [Outputs -> Phases] /\ flag' \in [Outputs -> BOOLEAN]
          /\ code' \in [Outputs -> {"success", "error"}]
      BY <2>2 DEF ConnectFailed, Set, Phases
    <3> QED BY <2>2, <3>1, <3>2 DEF ConnectFailed, Post, paths, server
  <2>3. ASSUME NEW c \in {"success", "error"}, EndDataCapture(o, c) PROVE TypeOK'
    <3>1. /\ phase' \in [Outputs -> Phases] /\ ending' \in [Outputs -> BOOLEAN]
          /\ owed' \in [Outputs -> BOOLEAN]
          /\ code' \in [Outputs -> {"success", "error"}]
      BY <2>3 DEF EndDataCapture, Set, Phases
    <3> QED BY <2>3, <3>1 DEF EndDataCapture, queues, paths, server
  <2>4. CASE EndThread(o)
    <3>1. ending' \in [Outputs -> BOOLEAN]
      BY <2>4 DEF EndThread, Set
    <3> QED BY <2>4, <3>1 DEF EndThread, queues, paths, server
  <2>5. CASE SignalStop(o)
    <3>1. ctxQ' \in Seq(CtxEvents)
      BY <2>5, StopNoticeType, ReportCtx DEF SignalStop, Post
    <3>2. /\ owed' \in [Outputs -> BOOLEAN] /\ flag' \in [Outputs -> BOOLEAN]
          /\ code' \in [Outputs -> {"success", "error"}]
      BY <2>5 DEF SignalStop, Set
    <3> QED BY <2>5, <3>1, <3>2 DEF SignalStop, Post, paths, server
  <2> QED BY <1>8, <2>1, <2>2, <2>3, <2>4, <2>5 DEF OutputThreads
<1>9. CASE UNCHANGED vars
  BY <1>9 DEF vars, queues, output, paths, server
<1> QED BY <1>1, <1>2, <1>3, <1>4, <1>5, <1>6, <1>7, <1>8, <1>9
        DEF Next, MainThread, ContextThread

-----------------------------------------------------------------------------
(* The server's knowledge.                                                 *)

LEMMA RacesGrow == [Next]_vars => races \subseteq races'
<1> SUFFICES ASSUME [Next]_vars PROVE races \subseteq races'
  OBVIOUS
<1>1. ASSUME NEW e \in Commands, Command(e) PROVE races \subseteq races'
  BY <1>1 DEF Command
<1>2. CASE MainThread
  BY <1>2 DEF MainThread, OnSocketReadyRead, SendMessageToServer, Quit
<1>3. CASE ContextThread
  BY <1>3 DEF ContextThread, Relay, InitFails, InitSucceeds, StartIgnored,
     StartInvalid, StartChecked, StartOutput, StartRefused, StartTwice,
     StopIgnored, StopLater, StopNow, Race
<1>4. ASSUME NEW o \in Outputs, OutputThreads(o) PROVE races \subseteq races'
  BY <1>4 DEF OutputThreads, Connected, ConnectFailed, EndDataCapture,
     EndThread, SignalStop
<1>5. CASE UNCHANGED vars
  BY <1>5 DEF vars
<1> QED BY <1>1, <1>2, <1>3, <1>4, <1>5 DEF Next

Clean == races \cap {"overtaken", "late signal", "started twice"} = {}

(* Of an output whose end has been signalled the last notice is true.      *)
Agreement ==
  Clean =>
    /\ \A o \in Outputs : owed[o] => phase[o] = "idle"
    /\ life # "closed" => \A o \in Outputs :
         ~owed[o] => Believes(mainQ, ctxQ, heard[o], o, phase[o])

LEMMA AgreementInit == Init => Agreement
<1> SUFFICES ASSUME Init, NEW o \in Outputs
             PROVE  /\ owed[o] => phase[o] = "idle"
                    /\ Believes(mainQ, ctxQ, heard[o], o, phase[o])
  BY DEF Agreement
<1>1. /\ mainQ = <<>> /\ ctxQ = <<>> /\ heard[o] = "nothing"
      /\ phase[o] = "idle" /\ owed[o] = FALSE
  BY DEF Init
<1> QED BY <1>1 DEF Believes, Silent, LastSays, Says, Live

(* The context thread takes an order and leaves the outputs alone.         *)
LEMMA OrderTaken ==
  ASSUME TypeOK, NEW W, W \subseteq {"init", "start", "stop"}, Take(W),
         NEW h, NEW o, NEW ph, Believes(mainQ, ctxQ, h, o, ph)
  PROVE  Believes(mainQ, ctxQ', h, o, ph) /\ LastSays(ctxQ', o, ph)
<1>1. ~IsNotice(Head(ctxQ), o) /\ ctxQ # <<>> /\ ctxQ' = Tail(ctxQ)
  BY TakeType DEF IsNotice, Answers
<1>2. ctxQ \in Seq(CtxEvents)
  BY DEF TypeOK
<1>3. Believes(mainQ, ctxQ', h, o, ph)
  BY <1>1, <1>2, TakeOther
<1> QED BY <1>3 DEF Believes

LEMMA AgreementStep == TypeOK /\ Agreement /\ [Next]_vars => Agreement'
<1> SUFFICES ASSUME TypeOK, Agreement, [Next]_vars, Clean'
             PROVE  /\ \A o \in Outputs : owed'[o] => phase'[o] = "idle"
                    /\ life' # "closed" => \A o \in Outputs : ~owed'[o] =>
                         Believes(mainQ', ctxQ', heard'[o], o, phase'[o])
  BY DEF Agreement
<1>0. /\ \A o \in Outputs : owed[o] => phase[o] = "idle"
      /\ life # "closed" => \A o \in Outputs : ~owed[o] =>
           Believes(mainQ, ctxQ, heard[o], o, phase[o])
  BY RacesGrow DEF Agreement, Clean
<1>t. /\ ctxQ \in Seq(CtxEvents) /\ mainQ \in Seq(MainEvents)
      /\ wire \in Seq(Orders)
      /\ phase \in [Outputs -> Phases] /\ owed \in [Outputs -> BOOLEAN]
      /\ heard \in [Outputs -> Answers \cup {"nothing"}]
  BY DEF TypeOK
<1>q. ASSUME NEW e \in Commands, Command(e)
      PROVE  UNCHANGED <<mainQ, ctxQ, phase, owed, heard, life>>
  BY <1>q DEF Command, output
<1>1. CASE \/ UNCHANGED vars
           \/ \E e \in Commands : Command(e)
           \/ \E o \in Outputs : EndThread(o)
  <2>1. UNCHANGED <<mainQ, ctxQ, phase, owed, heard, life>>
    BY <1>1, <1>q DEF vars, queues, output, server, EndThread
  <2> QED BY <1>0, <2>1
<1>2. CASE OnSocketReadyRead
  <2>1. /\ UNCHANGED <<mainQ, phase, owed, heard>> /\ life # "closed"
        /\ wire # <<>>
    BY <1>2 DEF OnSocketReadyRead, output, server
  <2>2. ctxQ' = ctxQ \/ ctxQ' = Append(ctxQ, Head(wire))
    BY <1>2, Zenon DEF OnSocketReadyRead
  <2>3. Head(wire) \in Orders
    BY <1>t, <2>1
  <2>4. Head(wire) \in CtxEvents /\ \A o : ~IsNotice(Head(wire), o)
    BY <2>3 DEF CtxEvents, Orders, IsNotice, Answers
  <2> QED BY <1>0, <1>t, <2>1, <2>2, <2>4, PostOther
<1>3. CASE SendMessageToServer
  <2>1. /\ UNCHANGED <<ctxQ, phase, owed>> /\ life # "closed"
        /\ mainQ # <<>> /\ mainQ' = Tail(mainQ)
    BY <1>3 DEF SendMessageToServer, output
  <2>2. ASSUME NEW o \in Outputs
        PROVE  /\ IsNotice(Head(mainQ), o) => heard'[o] = Head(mainQ).what
               /\ ~IsNotice(Head(mainQ), o) => heard'[o] = heard[o]
    <3>1. Head(mainQ) \in MainEvents
      BY <1>t, <2>1
    <3>2. IsNotice(Head(mainQ), o) <=> Head(mainQ).out = o
      BY <3>1 DEF IsNotice, MainEvents, Reports, General, Outputs
    <3> QED BY <1>3, <1>t, <3>2 DEF SendMessageToServer, Set
  <2> QED BY <1>0, <1>t, <2>1, <2>2, Hear
<1>4. CASE Quit
  BY <1>0, <1>4 DEF Quit
<1>5. CASE Relay
  <2>1. /\ UNCHANGED <<phase, owed, heard>> /\ life # "closed"
        /\ ctxQ # <<>> /\ ctxQ' = Tail(ctxQ)
        /\ mainQ' = Append(mainQ, Head(ctxQ))
    BY <1>5 DEF Relay, Take, output, server
  <2>2. Head(ctxQ) \in MainEvents
    <3>1. Head(ctxQ) \in CtxEvents /\ Head(ctxQ).what \in Notices
      BY <1>5, TakeType DEF Relay
    <3> QED BY <3>1, OrderType DEF Notices, MainEvents
  <2> QED BY <1>0, <1>t, <2>1, <2>2, PassOn
<1>6. CASE StartIgnored \/ StartChecked \/ StopIgnored
  <2>1. PICK W : W \subseteq {"init", "start", "stop"} /\ Take(W)
    BY <1>6 DEF StartIgnored, StartChecked, StopIgnored
  <2>2. UNCHANGED <<mainQ, phase, owed, heard, life>>
    BY <1>6 DEF StartIgnored, StartChecked, StopIgnored, output, server
  <2> QED BY <1>0, <2>1, <2>2, OrderTaken
<1>7. CASE InitFails \/ InitSucceeds
  <2>1. Take({"init"}) /\ UNCHANGED <<owed, heard, life>>
    BY <1>7 DEF InitFails, InitSucceeds, output, server
  <2>2. PICK e \in General : mainQ' = Append(mainQ, e)
    BY <1>7, EventType DEF InitFails, InitSucceeds, Emit
  <2>3. e \in MainEvents /\ \A o \in Outputs : ~IsNotice(e, o)
    BY DEF MainEvents, General, IsNotice, Outputs
  <2>4. \A o \in Outputs : /\ Live(phase[o]) <=> Live(phase'[o])
                           /\ phase[o] = "idle" => phase'[o] = "idle"
    BY <1>7, <1>t DEF InitFails, InitSucceeds, output, Active, Live
  <2>5. ASSUME NEW o \in Outputs, life # "closed", ~owed[o]
        PROVE  Believes(mainQ', ctxQ', heard'[o], o, phase'[o])
    <3>1. Believes(mainQ, ctxQ', heard[o], o, phase[o])
      BY <1>0, <2>1, <2>5, OrderTaken
    <3>2. Believes(mainQ', ctxQ', heard[o], o, phase[o])
      BY <1>t, <2>2, <2>3, <3>1, EmitOther
    <3> QED BY <2>1, <2>4, <3>2, SamePhase
  <2> QED BY <1>0, <2>1, <2>4, <2>5
<1>8. CASE StartInvalid
  <2>1. /\ Take({"start"}) /\ UNCHANGED <<phase, owed, heard, life>>
        /\ ~Active(Head(ctxQ).out)
        /\ mainQ' = Append(mainQ, Event("error", Head(ctxQ).out, 0))
    BY <1>8 DEF StartInvalid, output, server, Emit
  <2>2. Head(ctxQ).out \in Outputs
    BY <2>1, TakeType, OrderType
  <2> DEFINE e == Event("error", Head(ctxQ).out, 0)
  <2>3. /\ e \in MainEvents /\ e.what = "error" /\ e.out = Head(ctxQ).out
        /\ e.what \in Answers
    BY <2>2, EventType DEF MainEvents, Answers
  <2> HIDE DEF e
  <2>4. ASSUME NEW o \in Outputs, life # "closed", ~owed[o]
        PROVE  Believes(mainQ', ctxQ', heard'[o], o, phase'[o])
    <3>1. /\ Believes(mainQ, ctxQ', heard[o], o, phase[o])
          /\ LastSays(ctxQ', o, phase[o])
      BY <1>0, <2>1, <2>4, OrderTaken
    <3>2. mainQ' = Append(mainQ, e)
      BY <2>1 DEF e
    <3>3. CASE o = Head(ctxQ).out
      <4>1. IsNotice(e, o) /\ Says(e.what, phase[o])
        BY <2>1, <2>3, <3>3 DEF IsNotice, Says, Live, Active
      <4>2. Believes(mainQ', ctxQ', heard[o], o, phase[o])
        BY <1>t, <2>3, <3>1, <3>2, <4>1, EmitNotice
      <4> QED BY <2>1, <4>2
    <3>4. CASE o # Head(ctxQ).out
      <4>1. ~IsNotice(e, o)
        BY <2>3, <3>4 DEF IsNotice
      <4>2. Believes(mainQ', ctxQ', heard[o], o, phase[o])
        BY <1>t, <2>3, <3>1, <3>2, <4>1, EmitOther
      <4> QED BY <2>1, <4>2
    <3> QED BY <3>3, <3>4
  <2> QED BY <1>0, <2>1, <2>4
<1>9. CASE StartOutput
  <2>1. /\ pc \in Outputs /\ phase[pc] = "idle"
        /\ phase' = [phase EXCEPT ![pc] = "connecting"]
        /\ UNCHANGED <<mainQ, ctxQ, owed, heard, life>>
    BY <1>9 DEF StartOutput, Set, queues, server
  <2>2. ~owed[pc]
    BY <1>9 DEF StartOutput, Race, Clean
  <2>3. \A o \in Outputs : Live(phase[o]) <=> Live(phase'[o])
    BY <1>t, <2>1 DEF Live
  <2>4. \A o \in Outputs : owed[o] => phase'[o] = phase[o]
    BY <1>t, <2>1, <2>2
  <2> QED BY <1>0, <2>1, <2>3, <2>4, SamePhase
<1>10. CASE StartRefused
  <2> DEFINE e == Event("error", pc, 0)
  <2>1. /\ pc \in Outputs /\ phase[pc] \in {"idle", "connecting"}
        /\ UNCHANGED <<ctxQ, phase, owed, heard, life>>
        /\ mainQ' = Append(mainQ, e)
    BY <1>10 DEF StartRefused, Emit, server
  <2>2. /\ e \in MainEvents /\ e.what = "error" /\ e.out = pc
        /\ e.what \in Answers
    BY <2>1, EventType DEF MainEvents, Answers
  <2> HIDE DEF e
  <2>3. ASSUME NEW o \in Outputs, Believes(mainQ, ctxQ, heard[o], o, phase[o])
        PROVE  Believes(mainQ', ctxQ', heard[o], o, phase[o])
    <3>1. CASE o = pc
      <4>1. IsNotice(e, o) /\ Says(e.what, phase[o]) /\ LastSays(ctxQ, o, phase[o])
        BY <2>1, <2>2, <2>3, <3>1 DEF IsNotice, Says, Live, Believes
      <4> QED BY <1>t, <2>1, <2>2, <4>1, EmitNotice
    <3>2. CASE o # pc
      <4>1. ~IsNotice(e, o)
        BY <2>2, <3>2 DEF IsNotice
      <4> QED BY <1>t, <2>1, <2>2, <2>3, <4>1, EmitOther
    <3> QED BY <3>1, <3>2
  <2> QED BY <1>0, <2>1, <2>3
<1>11. CASE StartTwice
  BY <1>11 DEF StartTwice, Race, Clean
<1>12. CASE StopLater
  <2>1. /\ Take({"stop"}) /\ UNCHANGED <<mainQ, owed, heard, life>>
        /\ phase[Head(ctxQ).out] = "active"
        /\ phase' = [phase EXCEPT ![Head(ctxQ).out] = "stopping"]
    BY <1>12 DEF StopLater, Set, server
  <2>2. \A o \in Outputs : /\ Live(phase[o]) <=> Live(phase'[o])
                           /\ phase[o] = "idle" => phase'[o] = "idle"
    BY <1>t, <2>1 DEF Live
  <2>3. ASSUME NEW o \in Outputs, life # "closed", ~owed[o]
        PROVE  Believes(mainQ', ctxQ', heard'[o], o, phase'[o])
    <3>1. Believes(mainQ', ctxQ', heard'[o], o, phase[o])
      BY <1>0, <2>1, <2>3, OrderTaken
    <3> QED BY <2>2, <3>1, SamePhase
  <2> QED BY <1>0, <2>1, <2>2, <2>3
<1>13. CASE StopNow
  <2> DEFINE e == StopNotice("recording", "success")
  <2>1. /\ Take({"stop"}) /\ UNCHANGED <<owed, heard, life>>
        /\ phase["recording"] \in {"active", "stopping"}
        /\ phase' = [phase EXCEPT !["recording"] = "idle"]
        /\ mainQ' = Append(mainQ, e)
        /\ ~Pending("recording")
    BY <1>13 DEF StopNow, Set, Emit, server, Race, Clean
  <2>2. /\ e \in MainEvents /\ e.what = "stopped" /\ e.out = "recording"
        /\ e.what \in Answers
    BY StopNoticeType DEF MainEvents, Outputs, Answers
  <2> HIDE DEF e
  <2>3. ASSUME life # "closed", ~owed["recording"]
        PROVE  Believes(mainQ', ctxQ', heard'["recording"], "recording", "idle")
    <3>1. Silent(ctxQ, "recording")
      BY <1>t, <2>1 DEF Pending, Silent, IsNotice, Notices, Answers
    <3>2. Silent(ctxQ', "recording")
      BY <1>t, <2>1, <3>1, TailNotice DEF Take
    <3>3. LastSays(ctxQ', "recording", "idle")
      BY <3>2 DEF Silent, LastSays
    <3>4. IsNotice(e, "recording") /\ Says(e.what, "idle")
      BY <2>2 DEF IsNotice, Says, Live
    <3> QED BY <1>t, <2>1, <2>2, <3>3, <3>4, EmitNotice
  <2>4. ASSUME NEW o \in Outputs, o # "recording", life # "closed", ~owed[o]
        PROVE  Believes(mainQ', ctxQ', heard'[o], o, phase'[o])
    <3>1. Believes(mainQ, ctxQ', heard[o], o, phase[o])
      BY <1>0, <2>1, <2>4, OrderTaken
    <3>2. ~IsNotice(e, o) /\ phase'[o] = phase[o]
      BY <1>t, <2>1, <2>2, <2>4 DEF IsNotice
    <3>3. Believes(mainQ', ctxQ', heard[o], o, phase[o])
      BY <1>t, <2>1, <2>2, <3>1, <3>2, EmitOther
    <3> QED BY <2>1, <3>2, <3>3
  <2>5. phase'["recording"] = "idle" /\ \A o \in Outputs : owed[o] => phase'[o] = "idle"
    BY <1>0, <1>t, <2>1 DEF Outputs
  <2> QED BY <2>1, <2>3, <2>4, <2>5
<1>14. ASSUME NEW o \in Outputs, Connected(o) \/ ConnectFailed(o) \/ SignalStop(o)
       PROVE  /\ \A p \in Outputs : owed'[p] => phase'[p] = "idle"
              /\ life' # "closed" => \A p \in Outputs : ~owed'[p] =>
                   Believes(mainQ', ctxQ', heard'[p], p, phase'[p])
  <2>1. PICK e \in Reports :
          /\ ctxQ' = Append(ctxQ, e) /\ e.out = o /\ e.what \in Answers
          /\ e.what = "started" <=> Connected(o)
    <3>1. CASE Connected(o)
      <4>1. ctxQ' = Append(ctxQ, Event("started", o, 0))
        BY <3>1 DEF Connected, Post
      <4> QED BY <3>1, <4>1, EventType DEF Answers
    <3>2. CASE ConnectFailed(o) \/ SignalStop(o)
      <4>1. ~Connected(o)
        BY <1>0, <1>t, <3>2 DEF Connected, ConnectFailed, SignalStop, Set
      <4>2. PICK c : ctxQ' = Append(ctxQ, StopNotice(o, c))
        BY <3>2 DEF ConnectFailed, SignalStop, Post
      <4>3. /\ StopNotice(o, c) \in Reports /\ StopNotice(o, c).out = o
            /\ StopNotice(o, c).what \in {"stopped", "error"}
        BY StopNoticeType
      <4> QED BY <4>1, <4>2, <4>3 DEF Answers
    <3> QED BY <1>14, <3>1, <3>2
  <2>2. UNCHANGED <<mainQ, heard, life>> /\ e \in CtxEvents
    BY <1>14 DEF Connected, ConnectFailed, SignalStop, Post, server, CtxEvents
  <2>3. /\ Says(e.what, phase'[o]) /\ (owed'[o] => phase'[o] = "idle")
    BY <1>0, <1>14, <1>t, <2>1
       DEF Connected, ConnectFailed, SignalStop, Set, Says, Live
  <2>4. \A p \in Outputs \ {o} : phase'[p] = phase[p] /\ owed'[p] = owed[p]
    BY <1>14, <1>t DEF Connected, ConnectFailed, SignalStop, Set
  <2>5. ASSUME NEW p \in Outputs, life # "closed", ~owed'[p]
        PROVE  Believes(mainQ', ctxQ', heard'[p], p, phase'[p])
    <3>1. CASE p = o
      BY <1>t, <2>1, <2>2, <2>3, <3>1, PostNotice DEF IsNotice
    <3>2. CASE p # o
      <4>1. ~IsNotice(e, p) /\ Believes(mainQ, ctxQ, heard[p], p, phase'[p])
        BY <1>0, <2>1, <2>4, <2>5, <3>2 DEF IsNotice
      <4> QED BY <1>t, <2>1, <2>2, <4>1, PostOther
    <3> QED BY <3>1, <3>2
  <2> QED BY <1>0, <2>2, <2>3, <2>4, <2>5
<1>15. ASSUME NEW o \in Outputs, NEW c \in {"success", "error"},
              EndDataCapture(o, c)
       PROVE  /\ \A p \in Outputs : owed'[p] => phase'[p] = "idle"
              /\ life' # "closed" => \A p \in Outputs : ~owed'[p] =>
                   Believes(mainQ', ctxQ', heard'[p], p, phase'[p])
  <2>1. /\ phase' = [phase EXCEPT ![o] = "idle"]
        /\ owed' = [owed EXCEPT ![o] = TRUE]
        /\ UNCHANGED <<mainQ, ctxQ, heard, life>>
    BY <1>15 DEF EndDataCapture, Set, queues, server
  <2> QED BY <1>0, <1>t, <2>1
<1> QED BY <1>1, <1>2, <1>3, <1>4, <1>5, <1>6, <1>7, <1>8, <1>9, <1>10, <1>11,
           <1>12, <1>13, <1>14, <1>15
        DEF Next, MainThread, ContextThread, OutputThreads

-----------------------------------------------------------------------------
(* The path of a recording.                                                *)

PathClean == races \cap {"renamed", "late signal", "started twice"} = {}

Names(e) == e.what = "stopped" /\ e.out = "recording" => e.arg = e.own
AllName(q) == \A i \in 1 .. Len(q) : Names(q[i])

(* While a recording is on, or its end is still to be signalled, the path  *)
(* of the configuration is that of the recording.                          *)
Paths ==
  PathClean =>
    /\ phase["recording"] # "idle" \/ owed["recording"] => filePath = file
    /\ AllName(ctxQ) /\ AllName(mainQ)

LEMMA PathsInit == Init => Paths
<1> SUFFICES ASSUME Init PROVE Paths
  OBVIOUS
<1>1. /\ phase["recording"] = "idle" /\ owed["recording"] = FALSE
      /\ ctxQ = <<>> /\ mainQ = <<>>
  BY DEF Init, Outputs
<1> QED BY <1>1 DEF Paths, AllName

LEMMA NameQueues ==
  ASSUME NEW S, NEW q \in Seq(S), AllName(q)
  PROVE  /\ \A e \in S : Names(e) => AllName(Append(q, e))
         /\ q # <<>> => Names(Head(q)) /\ AllName(Tail(q))
<1>1. ASSUME NEW e \in S, Names(e) PROVE AllName(Append(q, e))
  <2> SUFFICES ASSUME NEW i \in 1 .. Len(q) + 1 PROVE Names(Append(q, e)[i])
    BY DEF AllName
  <2>1. CASE i \in 1 .. Len(q)
    BY <2>1 DEF AllName
  <2>2. CASE i = Len(q) + 1
    BY <1>1, <2>2
  <2> QED BY <2>1, <2>2
<1>2. ASSUME q # <<>> PROVE Names(Head(q)) /\ AllName(Tail(q))
  BY <1>2 DEF AllName
<1> QED BY <1>1, <1>2

LEMMA PathsStep == TypeOK /\ Paths /\ [Next]_vars => Paths'
<1> SUFFICES ASSUME TypeOK, Paths, [Next]_vars, PathClean'
             PROVE  /\ phase'["recording"] # "idle" \/ owed'["recording"]
                         => filePath' = file'
                    /\ AllName(ctxQ') /\ AllName(mainQ')
  BY DEF Paths
<1>0. /\ phase["recording"] # "idle" \/ owed["recording"] => filePath = file
      /\ AllName(ctxQ) /\ AllName(mainQ)
  BY RacesGrow DEF Paths, PathClean
<1>t. /\ ctxQ \in Seq(CtxEvents) /\ mainQ \in Seq(MainEvents)
      /\ wire \in Seq(Orders) /\ "recording" \in Outputs
      /\ phase \in [Outputs -> Phases] /\ owed \in [Outputs -> BOOLEAN]
  BY DEF TypeOK, Outputs
(* The queues.                                                             *)
<1>1. ASSUME NEW e \in CtxEvents, Names(e) PROVE AllName(Append(ctxQ, e))
  BY <1>0, <1>1, <1>t, NameQueues
<1>2. ASSUME NEW e \in MainEvents, Names(e) PROVE AllName(Append(mainQ, e))
  BY <1>0, <1>2, <1>t, NameQueues
<1>3. ASSUME NEW W, Take(W) PROVE AllName(ctxQ') /\ Names(Head(ctxQ))
  BY <1>0, <1>3, <1>t, NameQueues DEF Take
<1>4. \A o \in Outputs : /\ Event("error", o, 0) \in MainEvents
                         /\ Names(Event("error", o, 0))
                         /\ Event("started", o, 0) \in CtxEvents
                         /\ Names(Event("started", o, 0))
  BY EventType DEF MainEvents, CtxEvents, Names
<1>5. ASSUME NEW o \in Outputs, NEW c,
             o = "recording" /\ c = "success" => filePath = file
      PROVE  /\ StopNotice(o, c) \in CtxEvents /\ StopNotice(o, c) \in MainEvents
             /\ Names(StopNotice(o, c))
  <2>1. Names(StopNotice(o, c))
    BY <1>5, StopNoticeType DEF Names
  <2> QED BY <2>1, StopNoticeType DEF CtxEvents, MainEvents
(* The steps.                                                              *)
<1>6. CASE \/ UNCHANGED vars
           \/ \E e \in Commands : Command(e)
           \/ \E o \in Outputs : EndThread(o)
  <2>1. UNCHANGED <<mainQ, ctxQ, phase, owed, paths>>
    BY <1>6 DEF vars, queues, output, paths, EndThread, Command
  <2> QED BY <1>0, <2>1 DEF paths
<1>7. CASE OnSocketReadyRead
  <2>1. /\ UNCHANGED <<mainQ, phase, owed, filePath, file>>
        /\ wire # <<>>
    BY <1>7 DEF OnSocketReadyRead, output, paths
  <2>2. ctxQ' = ctxQ \/ ctxQ' = Append(ctxQ, Head(wire))
    BY <1>7, Zenon DEF OnSocketReadyRead
  <2>3. Head(wire) \in Orders
    BY <1>t, <2>1
  <2>4. Head(wire) \in CtxEvents /\ Names(Head(wire))
    BY <2>3 DEF CtxEvents, Orders, Names
  <2> QED BY <1>0, <1>1, <2>1, <2>2, <2>4
<1>8. CASE SendMessageToServer
  <2>1. /\ UNCHANGED <<ctxQ, phase, owed, filePath, file>>
        /\ mainQ # <<>> /\ mainQ' = Tail(mainQ)
    BY <1>8 DEF SendMessageToServer, output, paths
  <2> QED BY <1>0, <1>t, <2>1, NameQueues
<1>9. CASE Quit
  <2>1. /\ phase'["recording"] = "idle" /\ owed'["recording"] = FALSE
        /\ ctxQ' = <<>> /\ mainQ' = <<>>
    BY <1>9, <1>t DEF Quit
  <2> QED BY <2>1 DEF AllName
<1>10. CASE Relay
  <2>1. /\ Take(Notices) /\ UNCHANGED <<phase, owed, filePath, file>>
        /\ mainQ' = Append(mainQ, Head(ctxQ))
    BY <1>10 DEF Relay, output, paths
  <2>2. Head(ctxQ) \in MainEvents
    <3>1. Head(ctxQ) \in CtxEvents /\ Head(ctxQ).what \in Notices
      BY <2>1, TakeType
    <3> QED BY <3>1, OrderType DEF Notices, MainEvents
  <2> QED BY <1>0, <1>2, <1>3, <2>1, <2>2
<1>11. CASE InitFails \/ InitSucceeds
  <2>1. Take({"init"}) /\ UNCHANGED <<owed, filePath, file>>
    BY <1>11 DEF InitFails, InitSucceeds, output, paths
  <2>2. PICK e \in General : mainQ' = Append(mainQ, e)
    BY <1>11, EventType DEF InitFails, InitSucceeds, Emit
  <2>3. e \in MainEvents /\ Names(e)
    BY DEF MainEvents, General, Names
  <2>4. phase["recording"] = "idle" => phase'["recording"] = "idle"
    BY <1>11, <1>t DEF InitFails, InitSucceeds, output
  <2> QED BY <1>0, <1>2, <1>3, <2>1, <2>2, <2>3, <2>4
<1>12. CASE StartIgnored \/ StopIgnored
  <2>1. (\E W : Take(W)) /\ UNCHANGED <<mainQ, phase, owed, filePath, file>>
    BY <1>12 DEF StartIgnored, StopIgnored, output, paths
  <2> QED BY <1>0, <1>3, <2>1
<1>13. CASE StartInvalid
  <2>1. /\ Take({"start"}) /\ UNCHANGED <<phase, owed, filePath, file>>
        /\ mainQ' = Append(mainQ, Event("error", Head(ctxQ).out, 0))
    BY <1>13 DEF StartInvalid, output, paths, Emit
  <2>2. Head(ctxQ).out \in Outputs
    BY <2>1, TakeType, OrderType
  <2> QED BY <1>0, <1>2, <1>3, <1>4, <2>1, <2>2
<1>14. CASE StartChecked
  <2>1. /\ Take({"start"}) /\ UNCHANGED <<mainQ, phase, owed, file>>
        /\ pc' = Head(ctxQ).out /\ ~Active(pc')
    BY <1>14 DEF StartChecked, output
  <2>2. CASE pc' = "recording"
    <3>1. phase["recording"] # "connecting" /\ ~owed["recording"]
      BY <1>14, <2>2 DEF StartChecked, Race, PathClean
    <3>2. phase["recording"] = "idle"
      BY <1>t, <2>1, <2>2, <3>1 DEF Active, Phases
    <3> QED BY <1>0, <1>3, <2>1, <3>1, <3>2
  <2>3. CASE pc' # "recording"
    <3>1. filePath' = filePath
      BY <1>14, <2>3 DEF StartChecked
    <3> QED BY <1>0, <1>3, <2>1, <3>1
  <2> QED BY <2>2, <2>3
<1>15. CASE StartOutput
  <2>1. /\ UNCHANGED <<mainQ, ctxQ, owed, filePath>> /\ pc \in Outputs
        /\ phase' = [phase EXCEPT ![pc] = "connecting"]
        /\ file' = IF pc = "recording" THEN filePath ELSE file
    BY <1>15 DEF StartOutput, Set, queues
  <2> QED BY <1>0, <1>t, <2>1
<1>16. CASE StartRefused
  <2>1. /\ UNCHANGED <<ctxQ, phase, owed, filePath, file>> /\ pc \in Outputs
        /\ mainQ' = Append(mainQ, Event("error", pc, 0))
    BY <1>16 DEF StartRefused, Emit, paths
  <2> QED BY <1>0, <1>2, <1>4, <2>1
<1>17. CASE StartTwice
  BY <1>17 DEF StartTwice, Race, PathClean
<1>18. CASE StopLater
  <2>1. /\ Take({"stop"}) /\ UNCHANGED <<mainQ, owed, filePath, file>>
        /\ phase[Head(ctxQ).out] = "active"
        /\ phase' = [phase EXCEPT ![Head(ctxQ).out] = "stopping"]
    BY <1>18 DEF StopLater, Set, paths
  <2>2. phase["recording"] = "idle" => phase'["recording"] = "idle"
    BY <1>t, <2>1
  <2> QED BY <1>0, <1>3, <2>1, <2>2
<1>19. CASE StopNow
  <2>1. /\ Take({"stop"}) /\ UNCHANGED <<owed, filePath, file>>
        /\ phase["recording"] \in {"active", "stopping"}
        /\ mainQ' = Append(mainQ, StopNotice("recording", "success"))
    BY <1>19 DEF StopNow, Emit, paths
  <2>2. filePath = file
    BY <1>0, <2>1
  <2> QED BY <1>2, <1>3, <1>5, <1>t, <2>1, <2>2
<1>20. ASSUME NEW o \in Outputs, Connected(o)
       PROVE  /\ phase'["recording"] # "idle" \/ owed'["recording"]
                   => filePath' = file'
              /\ AllName(ctxQ') /\ AllName(mainQ')
  <2>1. /\ ctxQ' = Append(ctxQ, Event("started", o, 0))
        /\ UNCHANGED <<mainQ, owed, filePath, file>>
        /\ phase[o] = "connecting" /\ phase' = [phase EXCEPT ![o] = "active"]
    BY <1>20 DEF Connected, Post, Set, paths
  <2>2. phase["recording"] = "idle" => phase'["recording"] = "idle"
    BY <1>t, <2>1
  <2> QED BY <1>0, <1>1, <1>4, <2>1, <2>2
<1>21. ASSUME NEW o \in Outputs, ConnectFailed(o) \/ SignalStop(o)
       PROVE  /\ phase'["recording"] # "idle" \/ owed'["recording"]
                   => filePath' = file'
              /\ AllName(ctxQ') /\ AllName(mainQ')
  <2>1. /\ UNCHANGED <<mainQ, filePath, file>>
        /\ phase["recording"] = "idle" => phase'["recording"] = "idle"
        /\ owed'["recording"] => owed["recording"]
    BY <1>21, <1>t DEF ConnectFailed, SignalStop, Post, Set, paths
  <2>2. PICK c : /\ ctxQ' = Append(ctxQ, StopNotice(o, c))
                 /\ o = "recording" /\ c = "success" => filePath = file
    <3>1. CASE ConnectFailed(o)
      BY <3>1 DEF ConnectFailed, Post
    <3>2. CASE SignalStop(o)
      BY <1>0, <3>2 DEF SignalStop, Post
    <3> QED BY <1>21, <3>1, <3>2
  <2> QED BY <1>0, <1>1, <1>5, <2>1, <2>2
<1>22. ASSUME NEW o \in Outputs, NEW c \in {"success", "error"},
              EndDataCapture(o, c)
       PROVE  /\ phase'["recording"] # "idle" \/ owed'["recording"]
                   => filePath' = file'
              /\ AllName(ctxQ') /\ AllName(mainQ')
  <2>1. /\ phase[o] # "idle" /\ owed' = [owed EXCEPT ![o] = TRUE]
        /\ phase' = [phase EXCEPT ![o] = "idle"]
        /\ UNCHANGED <<mainQ, ctxQ, filePath, file>>
    BY <1>22 DEF EndDataCapture, Set, queues, paths
  <2> QED BY <1>0, <1>t, <2>1
<1> QED BY <1>6, <1>7, <1>8, <1>9, <1>10, <1>11, <1>12, <1>13, <1>14, <1>15,
           <1>16, <1>17, <1>18, <1>19, <1>20, <1>21, <1>22
        DEF Next, MainThread, ContextThread, OutputThreads

-----------------------------------------------------------------------------
IInv == TypeOK /\ Agreement /\ Paths

LEMMA Invariant == Spec => []IInv
<1>1. Init => IInv
  BY InitType, AgreementInit, PathsInit DEF IInv
<1>2. IInv /\ [Next]_vars => IInv'
  BY TypeStep, AgreementStep, PathsStep DEF IInv
<1> QED BY <1>1, <1>2, PTL DEF Spec

(* The queues hold what their receivers expect, and the records of the     *)
(* outputs stay in their types, for any number of commands.                *)
THEOREM TypeCorrect == Spec => []TypeOK
<1>1. IInv => TypeOK
  BY DEF IInv
<1> QED BY <1>1, Invariant, PTL

(* When the recorder is at rest, the last notice that SendMessageToServer  *)
(* has written about an output tells whether the output runs, unless one   *)
(* of the three races has happened.                                        *)
THEOREM ServerKnowsCorrect == Spec => []ServerKnows
<1>1. IInv => ServerKnows
  <2> SUFFICES ASSUME IInv, Quiet, Clean, NEW o \in Outputs
               PROVE  heard[o] = "started" <=> phase[o] = "active"
    BY DEF ServerKnows, Clean
  <2>1. Believes(<<>>, <<>>, heard[o], o, phase[o])
    BY DEF IInv, Agreement, Quiet
  <2>2. Says(heard[o], phase[o])
    BY <2>1 DEF Believes, Silent
  <2> QED BY <2>2 DEF Says, Live, Quiet
<1> QED BY <1>1, Invariant, PTL

(* OBSStopRecording reports the path the recording was started with, unless *)
(* a later start has changed it in the configuration.                      *)
THEOREM TruePathCorrect == Spec => []TruePath
<1>1. IInv => TruePath
  <2> SUFFICES ASSUME IInv, PathClean, NEW e \in Range(ctxQ \o mainQ)
               PROVE  Names(e)
    BY DEF TruePath, PathClean, Names
  <2>1. /\ AllName(ctxQ) /\ AllName(mainQ)
        /\ ctxQ \in Seq(CtxEvents) /\ mainQ \in Seq(MainEvents)
    BY DEF IInv, Paths, TypeOK
  <2>2. PICK i \in DOMAIN (ctxQ \o mainQ) : e = (ctxQ \o mainQ)[i]
    BY DEF Range
  <2>3. /\ Len(ctxQ) \in Nat /\ Len(mainQ) \in Nat
        /\ i \in 1 .. Len(ctxQ) + Len(mainQ)
        /\ e = IF i =< Len(ctxQ) THEN ctxQ[i] ELSE mainQ[i - Len(ctxQ)]
    BY <2>1, <2>2
  <2> QED BY <2>1, <2>3 DEF AllName
<1> QED BY <1>1, Invariant, PTL

-----------------------------------------------------------------------------
(* The streaming output behaves as OutputLife says, which StreamOutput     *)
(* implements; an Init or the end of the program may throw it away.        *)
Life == INSTANCE OutputLife WITH
          phase <- phase["streaming"], ending <- ending["streaming"],
          owed  <- owed["streaming"]

StreamingLife ==
  Life!Init /\ [][InitSucceeds \/ Quit \/ [Life!Next]_(Life!vars)]_vars

(* The stream after output o has been set to v.                            *)
Stream(f, o, v) == IF o = "streaming" THEN v ELSE f["streaming"]

LEMMA SetStream ==
  ASSUME TypeOK, NEW o, NEW v
  PROVE  /\ Set(phase, o, v)["streaming"] = Stream(phase, o, v)
         /\ Set(ending, o, v)["streaming"] = Stream(ending, o, v)
         /\ Set(owed, o, v)["streaming"] = Stream(owed, o, v)
BY DEF TypeOK, Set, Stream, Outputs

Unmoved ==
  UNCHANGED <<phase["streaming"], ending["streaming"], owed["streaming"]>>

(* What obs_output_start, the output's threads and a stop do to the stream *)
(* is a step of OutputLife, whatever the server orders and whenever.       *)
THEOREM StreamingLifeCorrect == Spec => StreamingLife
<1>1. Init => Life!Init
  BY DEF Init, Life!Init, Outputs
<1>2. TypeOK /\ [Next]_vars
        => InitSucceeds \/ Quit \/ [Life!Next]_(Life!vars)
  <2> SUFFICES ASSUME TypeOK, [Next]_vars, ~InitSucceeds, ~Quit
               PROVE  Life!Next \/ Unmoved
    BY DEF Life!vars, Unmoved
  <2>1. CASE UNCHANGED vars
    BY <2>1 DEF vars, output, Unmoved
  <2>2. ASSUME NEW e \in Commands, Command(e)
        PROVE  Unmoved
    BY <2>2 DEF Command, output, Unmoved
  <2>3. CASE OnSocketReadyRead \/ SendMessageToServer
    BY <2>3 DEF OnSocketReadyRead, SendMessageToServer, output, Unmoved
  <2>4. CASE Relay \/ InitFails \/ StartIgnored \/ StartInvalid \/ StartChecked
    BY <2>4 DEF Relay, InitFails, StartIgnored, StartInvalid, StartChecked,
       output, Unmoved
  <2>5. CASE StartRefused \/ StopIgnored
    BY <2>5 DEF StartRefused, StopIgnored, output, Unmoved
  <2>a. CASE StartTwice
    <3>1. UNCHANGED <<phase, ending, owed>>
      BY <2>a DEF StartTwice, queues, output, paths, server
    <3> QED BY <3>1 DEF Unmoved
  <2>6. CASE StartOutput
    <3>1. /\ phase[pc] = "idle" /\ ~ending[pc]
          /\ phase' = Set(phase, pc, "connecting")
          /\ UNCHANGED <<ending, owed>>
      BY <2>6 DEF StartOutput, queues, server
    <3>2. phase'["streaming"] = Stream(phase, pc, "connecting")
      BY <3>1, SetStream
    <3> QED BY <3>1, <3>2 DEF Stream, Unmoved, Life!Next, Life!Begin
  <2>7. CASE StopLater
    <3>1. PICK o : /\ phase[o] = "active" /\ phase' = Set(phase, o, "stopping")
                   /\ UNCHANGED <<ending, owed>>
      BY <2>7 DEF StopLater
    <3>2. phase'["streaming"] = Stream(phase, o, "stopping")
      BY <3>1, SetStream
    <3> QED BY <3>1, <3>2 DEF Stream, Unmoved, Life!Next, Life!StopLater
  <2>8. CASE StopNow
    <3>1. /\ phase' = Set(phase, "recording", "idle")
          /\ ending' = Set(ending, "recording", TRUE) /\ UNCHANGED owed
      BY <2>8 DEF StopNow
    <3>2. /\ phase'["streaming"] = Stream(phase, "recording", "idle")
          /\ ending'["streaming"] = Stream(ending, "recording", TRUE)
      BY <3>1, SetStream
    <3> QED BY <3>1, <3>2 DEF Stream, Unmoved
  <2>9. ASSUME NEW o \in Outputs, OutputThreads(o)
        PROVE  Life!Next \/ Unmoved
    <3>1. CASE Connected(o)
      <4>1. /\ phase[o] = "connecting" /\ phase' = Set(phase, o, "active")
            /\ UNCHANGED <<ending, owed>>
        BY <3>1 DEF Connected
      <4>2. phase'["streaming"] = Stream(phase, o, "active")
        BY <4>1, SetStream
      <4> QED BY <4>1, <4>2 DEF Stream, Unmoved, Life!Next, Life!Connected
    <3>2. CASE ConnectFailed(o)
      <4>1. /\ phase[o] = "connecting" /\ phase' = Set(phase, o, "idle")
            /\ UNCHANGED <<ending, owed>>
        BY <3>2 DEF ConnectFailed
      <4>2. phase'["streaming"] = Stream(phase, o, "idle")
        BY <4>1, SetStream
      <4> QED BY <4>1, <4>2 DEF Stream, Unmoved, Life!Next, Life!ConnectFailed
    <3>3. ASSUME NEW c \in {"success", "error"}, EndDataCapture(o, c)
          PROVE  Life!Next \/ Unmoved
      <4>1. /\ phase[o] \in {"active", "stopping"}
            /\ phase' = Set(phase, o, "idle")
            /\ ending' = Set(ending, o, TRUE) /\ owed' = Set(owed, o, TRUE)
        BY <3>3 DEF EndDataCapture
      <4>2. /\ phase'["streaming"] = Stream(phase, o, "idle")
            /\ ending'["streaming"] = Stream(ending, o, TRUE)
            /\ owed'["streaming"] = Stream(owed, o, TRUE)
        BY <4>1, SetStream
      <4> QED BY <4>1, <4>2 DEF Stream, Unmoved, Life!Next, Life!EndDataCapture
    <3>4. CASE EndThread(o)
      <4>1. /\ ending[o] /\ ending' = Set(ending, o, FALSE)
            /\ UNCHANGED <<phase, owed>>
        BY <3>4 DEF EndThread
      <4>2. ending'["streaming"] = Stream(ending, o, FALSE)
        BY <4>1, SetStream
      <4> QED BY <4>1, <4>2 DEF Stream, Unmoved, Life!Next, Life!EndThread
    <3>5. CASE SignalStop(o)
      <4>1. /\ owed[o] /\ owed' = Set(owed, o, FALSE)
            /\ UNCHANGED <<phase, ending>>
        BY <3>5 DEF SignalStop
      <4>2. owed'["streaming"] = Stream(owed, o, FALSE)
        BY <4>1, SetStream
      <4> QED BY <4>1, <4>2 DEF Stream, Unmoved, Life!Next, Life!SignalStop
    <3> QED BY <2>9, <3>1, <3>2, <3>3, <3>4, <3>5 DEF OutputThreads
  <2> QED BY <2>1, <2>2, <2>3, <2>4, <2>5, <2>6, <2>7, <2>8, <2>9, <2>a
          DEF Next, MainThread, ContextThread
<1>3. IInv => TypeOK
  BY DEF IInv
<1> QED BY <1>1, <1>2, <1>3, Invariant, PTL DEF Spec, StreamingLife
=============================================================================
