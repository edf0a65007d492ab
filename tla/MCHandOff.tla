------------------------------ MODULE MCHandOff ------------------------------
(* HandOff on a small instance.  Capacity is scaled down from 50000 but,   *)
(* like it, is no multiple of the packet size: two packets fill it to 48   *)
(* of 50 bytes and a third one is still let in.                            *)
EXTENDS HandOff

MCIgnoreValues == {-1, 1, 3}
=============================================================================
