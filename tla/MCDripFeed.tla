------------------------------ MODULE MCDripFeed ------------------------------
(* DripFeed on small instances for TLC.                                    *)
EXTENDS DripFeed

CONSTANTS s1, s2, t1, p1

OnePort == [s \in Serial |-> p1]

\* A program of two lines, the others of one.
FewLines == [s \in Sessions |-> IF s = s1 THEN 2 ELSE 1]
=============================================================================
