---------------------------- MODULE MCPCU20Server ----------------------------
(* PCU20Server on small instances for TLC.                                 *)
EXTENDS PCU20Server, TLC

CONSTANTS c1, c2, c3, i1, i2

\* Two connections of one machine and, where there is a third, one of another
\* machine, which arrives on a port of its own.
TwoMachines == [c \in Conns |-> IF c = c3 THEN i2 ELSE i1]
TwoPorts == [c \in Conns |-> IF c = c3 THEN 2 ELSE 1]

\* One port is enough when the order of closing ports is not the question.
OnePort == [c \in Conns |-> 1]

\* The connections of the first machine are interchangeable.
Symmetric == Permutations({c1, c2})
=============================================================================
