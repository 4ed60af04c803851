--------------------------- MODULE MCVersionStore ---------------------------
(* VersionStore on small instances for TLC.                                *)
EXTENDS VersionStore, TLC

CONSTANTS s1, s2, f1, f2

\* Two programs with unrelated names.
OwnNames == [f \in Files |-> f]
OnlyItself == [n \in Names |-> {n}]

Symmetry == Permutations(Sessions) \cup Permutations(Files)
=============================================================================
