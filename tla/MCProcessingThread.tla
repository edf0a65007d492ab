------------------------- MODULE MCProcessingThread -------------------------
(* ProcessingThread on small instances.                                    *)
EXTENDS ProcessingThread

(* Partition 2 is registered by SetClientCount; both partitions send.      *)
MCSenders == 1..ClientCount
=============================================================================
