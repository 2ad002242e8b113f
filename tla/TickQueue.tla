------------------------------ MODULE TickQueue ------------------------------
(***************************************************************************)
(* What the raw video queue of libobs promises (video-io.h): a clock hands *)
(* over whole ticks and the consumer gets each of them once, in order.     *)
(* `handed' and `delivered' count the ticks, so the next tick delivered    *)
(* always has number `delivered'.                                          *)
(***************************************************************************)
EXTENDS Naturals

VARIABLES handed, delivered

Init == handed = 0 /\ delivered = 0

Hand ==
  /\ handed' \in Nat /\ handed' > handed
  /\ UNCHANGED delivered

Deliver ==
  /\ delivered < handed
  /\ delivered' = delivered + 1
  /\ UNCHANGED handed

Next == Hand \/ Deliver

Spec == Init /\ [][Next]_<<handed, delivered>>
=============================================================================
