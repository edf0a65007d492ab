----------------------------- MODULE MCStabilizer -----------------------------
(* Stabilizer on a small instance: the first message is ignored, and two   *)
(* packets fill the capacity.                                              *)
EXTENDS Stabilizer

MCSenders == 1..ClientCount
=============================================================================
