----------------------------- MODULE OutputLife -----------------------------
(***************************************************************************)
(* What the recorder relies on of an output: it connects, is active and    *)
(* perhaps told to stop, and ends.  The end leaves two things behind, in   *)
(* either order: the end thread, until which obs_output_active is true,    *)
(* and the stop signal, which is owed once for every capture that ended.   *)
(* The next start waits for the end thread.                                *)
(***************************************************************************)
VARIABLES phase, ending, owed

vars == <<phase, ending, owed>>

Init == phase = "idle" /\ ending = FALSE /\ owed = FALSE

Begin ==
  /\ phase = "idle" /\ ~ending
  /\ phase' = "connecting"
  /\ UNCHANGED <<ending, owed>>

Connected ==
  /\ phase = "connecting"
  /\ phase' = "active"
  /\ UNCHANGED <<ending, owed>>

ConnectFailed ==
  /\ phase = "connecting"
  /\ phase' = "idle"
  /\ UNCHANGED <<ending, owed>>

StopLater ==
  /\ phase = "active"
  /\ phase' = "stopping"
  /\ UNCHANGED <<ending, owed>>

EndDataCapture ==
  /\ phase \in {"active", "stopping"}
  /\ phase' = "idle" /\ ending' = TRUE /\ owed' = TRUE

EndThread ==
  /\ ending
  /\ ending' = FALSE
  /\ UNCHANGED <<phase, owed>>

SignalStop ==
  /\ owed
  /\ owed' = FALSE
  /\ UNCHANGED <<phase, ending>>

Next ==
  \/ Begin \/ Connected \/ ConnectFailed \/ StopLater
  \/ EndDataCapture \/ EndThread \/ SignalStop

Spec == Init /\ [][Next]_vars
=============================================================================
