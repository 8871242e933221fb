--------------------------- MODULE MCSheetManager ---------------------------
(* Small instances of SheetManager: a few clients that open, leave and come *)
(* back with two passwords, on a leader or on a replica.                    *)
EXTENDS SheetManager, TLC

CONSTANTS c1, c2, c3, p1, p2

MCClients == {c1, c2, c3}
TwoClients == {c1, c2}
MCPasswords == {p1, p2}
OnePassword == {p1}

\* Clients and passwords are interchangeable, and only safety is checked.
Symmetry == Permutations(MCClients) \cup Permutations(MCPasswords)
=============================================================================
