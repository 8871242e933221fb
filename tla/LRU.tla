-------------------------------- MODULE LRU --------------------------------
(***************************************************************************)
(* What cache/cache.go promises, whatever list it keeps: a bounded store   *)
(* with expiry that, when a new key finds it full, gives up the key whose  *)
(* last use is the oldest.  Every operation is one atomic step.  LRUCache  *)
(* implements this specification.                                          *)
(***************************************************************************)
EXTENDS Integers, FiniteSets

CONSTANTS
    Keys,       \* the keys clients use
    Values,     \* the values they store (NullPlaceholder among them)
    TTLs,       \* the lifetimes they ask for
    Families,   \* the sets of keys that some prefix or some suffix selects
    Capacities, \* the capacities a cache may be created with (0: unlimited)
    None,       \* no entry, no key, no value
    MaxTime,    \* bound: the last instant the clock reaches
    MaxUses     \* bound: the number of uses (Get hits and Sets) in a behaviour

VARIABLES
    store,      \* Keys -> entry or None
    used,       \* Keys -> the number of the key's last use
    uses,       \* how many uses there have been
    now,        \* the clock
    capacity,   \* fixed when the cache is created
    evicted,    \* what the last call returned if it was a Set: the evicted key
    got         \* what the last call returned if it was a Get: the value

vars == <<store, used, uses, now, capacity, evicted, got>>

Stored == {k \in Keys : store[k] # None}

Expired(k) == now > store[k].expiresAt

\* The stored keys whose last use is older than that of any other stored key.
LeastRecent == {k \in Stored : \A j \in Stored : used[k] <= used[j]}

Full == capacity > 0 /\ Cardinality(Stored) >= capacity

Init ==
    /\ store = [k \in Keys |-> None]
    /\ used = [k \in Keys |-> 0]
    /\ uses = 0
    /\ now = 0
    /\ capacity \in Capacities
    /\ evicted = None
    /\ got = None

Use(k) ==
    /\ uses < MaxUses
    /\ uses' = uses + 1
    /\ used' = [used EXCEPT ![k] = uses + 1]

Returns(key, value) == evicted' = key /\ got' = value

Hit(k) ==
    /\ k \in Stored /\ ~Expired(k)
    /\ Use(k)
    /\ Returns(None, store[k].value)
    /\ UNCHANGED <<store, now, capacity>>

Set(k, v, ttl) ==
    LET entry == [value |-> v, expiresAt |-> now + ttl] IN
    /\ Use(k)
    /\ \/ /\ k \in Stored \/ ~Full
          /\ store' = [store EXCEPT ![k] = entry]
          /\ Returns(None, None)
       \/ /\ k \notin Stored /\ Full
          /\ \E old \in LeastRecent :
                /\ store' = [store EXCEPT ![old] = None, ![k] = entry]
                /\ Returns(old, None)
    /\ UNCHANGED <<now, capacity>>

\* Deletions, misses and expiries: some keys leave, nothing is returned.
Remove(S) ==
    /\ store' = [k \in Keys |-> IF k \in S THEN None ELSE store[k]]
    /\ Returns(None, None)
    /\ UNCHANGED <<used, uses, now, capacity>>

Miss(k) == k \notin Stored /\ Remove({})

Delete(k) == Remove({k})

Expire(S) == S \subseteq {k \in Stored : Expired(k)} /\ Remove(S)

Tick ==
    /\ now < MaxTime
    /\ now' = now + 1
    /\ UNCHANGED <<store, used, uses, capacity, evicted, got>>

Next ==
    \/ \E k \in Keys : Hit(k) \/ Miss(k) \/ Delete(k)
    \/ \E k \in Keys, v \in Values, ttl \in TTLs : Set(k, v, ttl)
    \/ \E F \in Families : Remove(F)
    \/ \E S \in SUBSET Keys : Expire(S)
    \/ Tick

Spec == Init /\ [][Next]_vars
=============================================================================
