--------------------------- MODULE MCSocketManager ---------------------------
(* Connections are interchangeable (used for the safety run only).         *)
EXTENDS SocketManager, TLC

MCSymmetry == Permutations(Conns)
=============================================================================
