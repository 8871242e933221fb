--------------------------- MODULE MCReplication ---------------------------
(* A sheet of two keys with one or two writers and a replica that connects *)
(* at any time and may lose its connection.                                *)
EXTENDS Replication

CONSTANTS w1, w2, k1, k2, empty, v1, v2

OneWriter == {w1}
TwoWriters == {w1, w2}
MCKeys == {k1, k2}
WithEmptyKey == {k1, empty}
MCValues == {v1, v2}
MCFamilies == {{k1, k2}}
Everything == {{k1, empty}}
=============================================================================
