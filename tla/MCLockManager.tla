--------------------------- MODULE MCLockManager ---------------------------
(* Two connections and two locks; lifetimes long enough to be refreshed    *)
(* and short enough to expire between two steps of a call.                 *)
EXTENDS LockManager

CONSTANTS c1, c2, c3, k1, k2

MCClients == {c1, c2}
MCKeys == {k1, k2}
MCThree == {c1, c2, c3}
MCOneKey == {k1}
=============================================================================
