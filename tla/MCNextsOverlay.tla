--------------------------- MODULE MCNextsOverlay ---------------------------
(* Files of up to MaxRecords distinct records, for TLC.                    *)
EXTENDS NextsOverlay

CONSTANT MaxRecords

MCFiles == {[i \in 1 .. n |-> <<"next", i>>] : n \in 0 .. MaxRecords}
MCOutputs == {<<"out", 1>>, <<"out", 2>>}
MCRecords == MCOutputs \cup {<<"next", i>> : i \in 1 .. MaxRecords}
=============================================================================
