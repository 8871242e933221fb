----------------------------- MODULE MCLRUCache -----------------------------
(* A small instance of LRUCache for TLC: three keys, two of which share a  *)
(* prefix, and caches that hold one, two or any number of entries.         *)
EXTENDS LRUCache

CONSTANTS k1, k2, k3, v1

MCKeys == {k1, k2, k3}
MCValues == {v1, NullPlaceholder}
MCFamilies == {{k1, k2}, {k1, k2, k3}}
=============================================================================
