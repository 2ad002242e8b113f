---------------------------- MODULE MCInterleave ----------------------------
(* The audio clock starts before, with and well after the video clock.     *)
EXTENDS Interleave

McSkews == {-3, 0, 5, 8}
=============================================================================
