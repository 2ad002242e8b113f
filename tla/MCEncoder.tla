----------------------------- MODULE MCEncoder -----------------------------
(* Model values and clock origins for Encoder. *)
EXTENDS Encoder

CONSTANTS stream, record

McOutputs  == {stream, record}
McConnects == {stream}
McOrigins  == {1, 4}
=============================================================================
