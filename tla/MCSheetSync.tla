---------------------------- MODULE MCSheetSync ----------------------------
(* Small instances of SheetSync: Readers on one sheet, one or two of which *)
(* write, two keys other than "" and two values.                           *)
EXTENDS SheetSync

CONSTANTS r1, r2, r3, k1, k2, empty, v1, v2

OneWriter == {r1}
TwoWriters == {r1, r2}
TwoReaders == {r1, r2}
ThreeReaders == {r1, r2, r3}
LateReader == {r2}
Nobody == {}
MCKeys == {k1, k2}
WithEmptyKey == {k1, k2, empty}
MCValues == {v1, v2}
MCOneValue == {v1}
MCFamilies == {{k1, k2}}
OnlySet == {"set"}
AllRequests == {"set", "set_null", "delete", "delete_prefix", "clear"}
=============================================================================
