----------------------------- MODULE MCEventBus -----------------------------
(* EventBus on small instances for TLC.                                    *)
EXTENDS EventBus

CONSTANTS c1, c2, c3, ip1, ip2, p1

\* The first two sessions are of one machine, the third of another.
MachineOf == [c \in Clients |-> IF c = c3 THEN ip2 ELSE ip1]
=============================================================================
