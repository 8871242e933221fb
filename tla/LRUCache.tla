------------------------------ MODULE LRUCache ------------------------------
(***************************************************************************)
(* cache/cache.go: the map and the doubly linked list of one sheet's cache,*)
(* at the level of the pointer assignments.  The node of a key is the key  *)
(* itself: while a key is stored it has exactly one node, and a node whose *)
(* map entry is deleted is garbage.                                        *)
(*                                                                         *)
(* Every method runs under the cache's mutex, so a method is one step; the *)
(* three loops over the map (DeletePrefix, DeleteSuffix, cleanupExpired)   *)
(* are one step per removed key, in any order, as Go's map iteration is.   *)
(* "sweeping" holds the keys such a loop has yet to remove: while it is not*)
(* empty the loop holds the mutex.                                         *)
(***************************************************************************)
EXTENDS Integers, FiniteSets

CONSTANTS Keys, Values, TTLs, Families, Capacities, None,
          MaxTime, MaxUses,
          NullPlaceholder, \* the value SetNull stores
          HeadNode, TailNode,    \* the two sentinel nodes
          JitterPercent  \* the jitter SetWithJitter is called with

Nodes == Keys \cup {HeadNode, TailNode}

ASSUME SentinelsAssumption ==
    /\ HeadNode \notin Keys /\ TailNode \notin Keys /\ HeadNode # TailNode
    /\ None \notin Nodes

ASSUME ParametersAssumption ==
    /\ TTLs \subseteq Nat
    /\ Capacities \subseteq Nat
    /\ MaxTime \in Nat /\ MaxUses \in Nat
    /\ JitterPercent \in Nat
    /\ \A F \in Families : F \subseteq Keys

Entry == [value : Values, expiresAt : Nat]

ASSUME ValuesAssumption == NullPlaceholder \in Values /\ None \notin Entry

VARIABLES
    data,      \* the map: Keys -> entry, or None when the key has no node
    list,      \* the linked list: [next, prev, length]
    capacity,
    now,       \* time.Now()
    sweeping,  \* what the running loop over the map has yet to remove
    evicted,   \* what the last call returned, if it was a Set
    got,       \* what the last call returned, if it was a Get
    used, uses \* history, not in the code: the number of each key's last use

callVars == <<evicted, got>>
vars == <<data, list, capacity, now, sweeping, callVars, used, uses>>

Stored == {k \in Keys : data[k] # None}

Expired(k) == now > data[k].expiresAt

-----------------------------------------------------------------------------
(* The list operations. *)

EmptyList ==
    [next |-> [n \in Nodes |-> IF n = HeadNode THEN TailNode ELSE None],
     prev |-> [n \in Nodes |-> IF n = TailNode THEN HeadNode ELSE None],
     length |-> 0]

addToFront(l, k) ==
    [next |-> [l.next EXCEPT ![k] = l.next[HeadNode], ![HeadNode] = k],
     prev |-> [l.prev EXCEPT ![k] = HeadNode, ![l.next[HeadNode]] = k],
     length |-> l.length + 1]

removeNode(l, k) ==
    [next |-> [l.next EXCEPT ![l.prev[k]] = l.next[k], ![k] = None],
     prev |-> [l.prev EXCEPT ![l.next[k]] = l.prev[k], ![k] = None],
     length |-> l.length - 1]

\* Mutants of moveToFront: the node is linked in front without being unlinked,
\* or is left where it is.
moveWithoutUnlinking(l, k) == addToFront(l, k)
moveNothing(l, k) == l

\* The length is left alone: removeNode and addToFront cancel out.
moveToFront(l, k) == addToFront(removeNode(l, k), k)

\* Mutant of Oldest: the most recently used node.
Newest(l) == l.next[HeadNode]

\* The node evictOldest takes; HeadNode when the list is empty.
Oldest(l) == l.prev[TailNode]

-----------------------------------------------------------------------------
Init ==
    /\ data = [k \in Keys |-> None]
    /\ list = EmptyList
    /\ capacity \in Capacities
    /\ now = 0
    /\ sweeping = {}
    /\ evicted = None /\ got = None
    /\ used = [k \in Keys |-> 0] /\ uses = 0

\* Mutant of Idle: a method that does not take the mutex.
Unguarded == TRUE

\* The mutex is free.
Idle == sweeping = {}

Returns(key, value) == evicted' = key /\ got' = value

\* History: k is used once more (MaxUses bounds the behaviours).
Use(k) ==
    /\ uses < MaxUses
    /\ uses' = uses + 1
    /\ used' = [used EXCEPT ![k] = uses + 1]

GetHit(k) ==
    /\ Idle
    /\ k \in Stored /\ ~Expired(k)
    /\ list' = moveToFront(list, k)
    /\ Use(k)
    /\ Returns(None, data[k].value)
    /\ UNCHANGED <<data, capacity, now, sweeping>>

GetExpired(k) ==
    /\ Idle
    /\ k \in Stored /\ Expired(k)
    /\ list' = removeNode(list, k)
    /\ data' = [data EXCEPT ![k] = None]
    /\ Returns(None, None)
    /\ UNCHANGED <<capacity, now, sweeping, used, uses>>

GetMiss(k) ==
    /\ Idle
    /\ k \notin Stored
    /\ Returns(None, None)
    /\ UNCHANGED <<data, list, capacity, now, sweeping, used, uses>>

SetUpdate(k, entry) ==
    /\ k \in Stored
    /\ data' = [data EXCEPT ![k] = entry]
    /\ list' = moveToFront(list, k)
    /\ Returns(None, None)

\* Mutant of AtCapacity: one entry too many.
OverCapacity == capacity > 0 /\ list.length > capacity

AtCapacity == capacity > 0 /\ list.length >= capacity

SetNew(k, entry) ==
    LET old  == Oldest(list)
        full == AtCapacity /\ old # HeadNode IN
    /\ k \notin Stored
    /\ \/ /\ full
          /\ data' = [data EXCEPT ![old] = None, ![k] = entry]
          /\ list' = addToFront(removeNode(list, old), k)
          /\ Returns(old, None)
       \/ /\ ~full
          /\ data' = [data EXCEPT ![k] = entry]
          /\ list' = addToFront(list, k)
          /\ Returns(None, None)

Set(k, v, ttl) ==
    LET entry == [value |-> v, expiresAt |-> now + ttl] IN
    /\ Idle
    /\ Use(k)
    /\ SetUpdate(k, entry) \/ SetNew(k, entry)
    /\ UNCHANGED <<capacity, now, sweeping>>

\* What SetWithJitter may turn a lifetime into.
Jittered(ttl) == {ttl + j : j \in 0 .. ((ttl * JitterPercent) \div 100)}

SetWithJitter(k, v, ttl) == \E t \in Jittered(ttl) : Set(k, v, t)

SetNull(k, ttl) == Set(k, NullPlaceholder, ttl)

Delete(k) ==
    /\ Idle
    /\ k \in Stored
    /\ list' = removeNode(list, k)
    /\ data' = [data EXCEPT ![k] = None]
    /\ Returns(None, None)
    /\ UNCHANGED <<capacity, now, sweeping, used, uses>>

\* DeletePrefix and DeleteSuffix: the loop over the keys the pattern selects.
DeleteFamily(F) ==
    /\ Idle
    /\ sweeping' = F \cap Stored
    /\ Returns(None, None)
    /\ UNCHANGED <<data, list, capacity, now, used, uses>>

\* Mutant of cleanupExpired: the comparison the wrong way round.
cleanupUnexpired ==
    /\ Idle
    /\ sweeping' = {k \in Stored : now < data[k].expiresAt}
    /\ sweeping' # {}
    /\ Returns(None, None)
    /\ UNCHANGED <<data, list, capacity, now, used, uses>>

\* One reading of the clock serves the whole loop.
cleanupExpired ==
    /\ Idle
    /\ sweeping' = {k \in Stored : Expired(k)}
    /\ sweeping' # {}
    /\ Returns(None, None)
    /\ UNCHANGED <<data, list, capacity, now, used, uses>>

Sweep(k) ==
    /\ k \in sweeping
    /\ list' = removeNode(list, k)
    /\ data' = [data EXCEPT ![k] = None]
    /\ sweeping' = sweeping \ {k}
    /\ UNCHANGED <<capacity, now, callVars, used, uses>>

Tick ==
    /\ now < MaxTime
    /\ now' = now + 1
    /\ UNCHANGED <<data, list, capacity, sweeping, callVars, used, uses>>

Get(k) == GetHit(k) \/ GetExpired(k) \/ GetMiss(k)

Next ==
    \/ \E k \in Keys : Get(k) \/ Delete(k) \/ Sweep(k)
    \/ \E k \in Keys, ttl \in TTLs :
          \/ SetNull(k, ttl)
          \/ \E v \in Values : Set(k, v, ttl) \/ SetWithJitter(k, v, ttl)
    \/ \E F \in Families : DeleteFamily(F)
    \/ cleanupExpired
    \/ Tick

\* A loop that holds the mutex runs on, and the ticker keeps calling
\* cleanupExpired, which Go's fair mutex lets in however busy the clients are.
Fairness == WF_vars(\E k \in Keys : Sweep(k)) /\ SF_vars(cleanupExpired)

Spec == Init /\ [][Next]_vars /\ Fairness

-----------------------------------------------------------------------------
(* Properties. *)

\* Type correctness of every variable.
TypeOK ==
    /\ data \in [Keys -> Entry \cup {None}]
    /\ list \in [next : [Nodes -> Nodes \cup {None}],
                 prev : [Nodes -> Nodes \cup {None}],
                 length : Int]
    /\ capacity \in Capacities
    /\ now \in 0 .. MaxTime
    /\ sweeping \subseteq Stored
    /\ evicted \in Keys \cup {None}
    /\ got \in Values \cup {None}
    /\ used \in [Keys -> 0 .. uses] /\ uses \in 0 .. MaxUses

\* Between the sentinels, next and prev lead through nodes of S only and undo
\* each other (with Descending, which excludes cycles: S is one list).
Linked(l, S) ==
    /\ \A n \in S \cup {HeadNode} : l.next[n] \in S \cup {TailNode} /\ l.prev[l.next[n]] = n
    /\ \A n \in S \cup {TailNode} : l.prev[n] \in S \cup {HeadNode} /\ l.next[l.prev[n]] = n

\* Going forward through the list, every node was last used before the one
\* in front of it.
Descending(l, S, stamp) ==
    \A n \in S : l.next[n] \in S => stamp[l.next[n]] < stamp[n]

\* The map and the list hold the same keys, and the list is in the order of
\* last use (removeNode, addToFront and moveToFront keep both directions in step).
ListMatchesMap == Linked(list, Stored) /\ Descending(list, Stored, used)

\* The length the eviction test reads is the number of entries in the map,
\* and a limited cache never holds more entries than its capacity.
CapacityRespected ==
    /\ IsFiniteSet(Stored)
    /\ list.length = Cardinality(Stored)
    /\ capacity > 0 => list.length <= capacity

\* The node that evictOldest would take is one whose last use is the oldest
\* of all stored keys, and it is the sentinel only when nothing is stored.
OldestIsLeastRecent ==
    /\ Oldest(list) = HeadNode <=> Stored = {}
    /\ \A k \in Stored : used[Oldest(list)] <= used[k]

\* An entry that has outlived its TTL does not stay: the periodic cleaner
\* takes it unless a client reads, replaces, evicts or deletes it before.
ExpiredLeave ==
    \A k \in Keys :
        (k \in Stored /\ Expired(k)) ~> (k \notin Stored \/ ~Expired(k))

-----------------------------------------------------------------------------
\* The cache as its callers see it: a loop that removes keys has removed all
\* of them as soon as it holds the mutex.
Abstract == INSTANCE LRU WITH
    TTLs <- UNION {Jittered(ttl) : ttl \in TTLs},
    store <- [k \in Keys |-> IF k \in sweeping THEN None ELSE data[k]]

\* The linked list implements the abstract cache: every method returns what
\* the abstract one returns, and evicts a least recently used key.
ImplementsLRU == Abstract!Spec
=============================================================================
