--------------------------- MODULE MCSetupConfig ---------------------------
(* SetupConfig on a small instance for TLC.                                *)
EXTENDS SetupConfig

CONSTANTS a, b, h

On(id) == [id |-> id, host |-> h, enabled |-> TRUE]
Off(id) == [id |-> id, host |-> h, enabled |-> FALSE]

\* No file, one machine, two of which one is disabled, and FOCAS disabled.
Configs ==
    {Default,
     [machines |-> <<On(a)>>, enabled |-> TRUE],
     [machines |-> <<Off(a), On(b)>>, enabled |-> TRUE],
     [machines |-> <<On(a), On(b)>>, enabled |-> FALSE]}
=============================================================================
