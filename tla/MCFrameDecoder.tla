--------------------------- MODULE MCFrameDecoder ---------------------------
(* Two clients, frames of two different lengths.                           *)
EXTENDS FrameDecoder

MCMessages == {[pid |-> 1, hb |-> 7, labels |-> <<3>>],
               [pid |-> 2, hb |-> 8, labels |-> <<4, 5>>]}
=============================================================================
