--------------------------- MODULE MCCaptureProxy ---------------------------
(* CaptureProxy with two connections, the second of which gets an id that no *)
(* record has room for.                                                      *)
EXTENDS CaptureProxy
CONSTANTS k1, k2
OneEach == [c \in Conns |-> 1]
=============================================================================
