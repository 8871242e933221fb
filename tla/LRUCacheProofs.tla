--------------------------- MODULE LRUCacheProofs ---------------------------
(***************************************************************************)
(* Proofs about LRUCache, for every set of keys, capacity and lifetime:    *)
(* the map and the list stay in step, the cache never outgrows its         *)
(* capacity, what it evicts is least recently used, and it implements LRU. *)
(***************************************************************************)
EXTENDS LRUCache, FiniteSetTheorems, WellFoundedInduction, TLAPS

Pointers == [Nodes -> Nodes \cup {None}]

ListType == [next : Pointers, prev : Pointers, length : Int]

-----------------------------------------------------------------------------
(* The list operations keep the list linked. *)

\* removeNode takes exactly the node k out of a linked list.
LEMMA RemoveLinked ==
    ASSUME NEW l \in ListType, NEW S \in SUBSET Keys, NEW k \in S,
           Linked(l, S), l.next[k] # k
    PROVE  /\ removeNode(l, k) \in ListType
           /\ Linked(removeNode(l, k), S \ {k})
           /\ removeNode(l, k).length = l.length - 1
<1> DEFINE p == l.prev[k]
           q == l.next[k]
           r == removeNode(l, k)
<1>1. /\ p \in S \cup {HeadNode} /\ q \in S \cup {TailNode}
      /\ l.next[p] = k /\ l.prev[q] = k /\ p # k /\ q # k
  BY SentinelsAssumption DEF Linked, Nodes
<1>2. l.next \in Pointers /\ l.prev \in Pointers /\ l.length \in Int
  BY DEF ListType
<1>3. /\ r.next = [l.next EXCEPT ![p] = q, ![k] = None]
      /\ r.prev = [l.prev EXCEPT ![q] = p, ![k] = None]
      /\ r.length = l.length - 1
  BY DEF removeNode
<1>4. r \in ListType
  BY <1>1, <1>2, <1>3 DEF removeNode, ListType, Pointers, Nodes
<1>5. /\ r.next[p] = q
      /\ \A n \in Nodes \ {p, k} : r.next[n] = l.next[n]
      /\ r.prev[q] = p
      /\ \A n \in Nodes \ {q, k} : r.prev[n] = l.prev[n]
  BY <1>1, <1>2, <1>3, SentinelsAssumption DEF Pointers, Nodes
<1>6. ASSUME NEW n \in (S \ {k}) \cup {HeadNode}
      PROVE  r.next[n] \in (S \ {k}) \cup {TailNode} /\ r.prev[r.next[n]] = n
  <2>1. CASE n = p
    BY <2>1, <1>1, <1>5
  <2>2. CASE n # p
    <3>1. r.next[n] = l.next[n]
      BY <2>2, <1>5, SentinelsAssumption DEF Nodes
    <3>2. l.next[n] \in S \cup {TailNode} /\ l.prev[l.next[n]] = n
      BY DEF Linked
    <3>3. l.next[n] # k /\ l.next[n] # q
      BY <3>2, <2>2, <1>1, SentinelsAssumption
    <3> QED
      BY <3>1, <3>2, <3>3, <1>5 DEF Nodes
  <2> QED
    BY <2>1, <2>2
<1>7. ASSUME NEW n \in (S \ {k}) \cup {TailNode}
      PROVE  r.prev[n] \in (S \ {k}) \cup {HeadNode} /\ r.next[r.prev[n]] = n
  <2>1. CASE n = q
    BY <2>1, <1>1, <1>5
  <2>2. CASE n # q
    <3>1. r.prev[n] = l.prev[n]
      BY <2>2, <1>5, SentinelsAssumption DEF Nodes
    <3>2. l.prev[n] \in S \cup {HeadNode} /\ l.next[l.prev[n]] = n
      BY DEF Linked
    <3>3. l.prev[n] # k /\ l.prev[n] # p
      BY <3>2, <2>2, <1>1, SentinelsAssumption
    <3> QED
      BY <3>1, <3>2, <3>3, <1>5 DEF Nodes
  <2> QED
    BY <2>1, <2>2
<1> QED
  BY <1>3, <1>4, <1>6, <1>7 DEF Linked

\* addToFront puts the node k into a linked list it was not in.
LEMMA AddLinked ==
    ASSUME NEW l \in ListType, NEW S \in SUBSET Keys, NEW k \in Keys \ S, Linked(l, S)
    PROVE  /\ addToFront(l, k) \in ListType
           /\ Linked(addToFront(l, k), S \cup {k})
           /\ addToFront(l, k).length = l.length + 1
<1> DEFINE f == l.next[HeadNode]
           r == addToFront(l, k)
<1>1. f \in S \cup {TailNode} /\ l.prev[f] = HeadNode /\ f # k /\ k # HeadNode
  BY SentinelsAssumption DEF Linked, Nodes
<1>2. l.next \in Pointers /\ l.prev \in Pointers /\ l.length \in Int
  BY DEF ListType
<1>3. /\ r.next = [l.next EXCEPT ![k] = f, ![HeadNode] = k]
      /\ r.prev = [l.prev EXCEPT ![k] = HeadNode, ![f] = k]
      /\ r.length = l.length + 1
  BY DEF addToFront
<1>4. r \in ListType
  BY <1>1, <1>2, <1>3 DEF addToFront, ListType, Pointers, Nodes
<1>5. /\ r.next[HeadNode] = k /\ r.next[k] = f
      /\ \A n \in Nodes \ {HeadNode, k} : r.next[n] = l.next[n]
      /\ r.prev[k] = HeadNode /\ r.prev[f] = k
      /\ \A n \in Nodes \ {f, k} : r.prev[n] = l.prev[n]
  BY <1>1, <1>2, <1>3, SentinelsAssumption DEF Pointers, Nodes
<1>6. ASSUME NEW n \in (S \cup {k}) \cup {HeadNode}
      PROVE  r.next[n] \in (S \cup {k}) \cup {TailNode} /\ r.prev[r.next[n]] = n
  <2>1. CASE n \in {HeadNode, k}
    BY <2>1, <1>1, <1>5
  <2>2. CASE n \notin {HeadNode, k}
    <3>1. r.next[n] = l.next[n]
      BY <2>2, <1>5 DEF Nodes
    <3>2. l.next[n] \in S \cup {TailNode} /\ l.prev[l.next[n]] = n
      BY <2>2 DEF Linked
    <3>3. l.next[n] # k /\ l.next[n] # f
      BY <3>2, <2>2, <1>1, SentinelsAssumption DEF Nodes
    <3> QED
      BY <3>1, <3>2, <3>3, <1>5 DEF Nodes
  <2> QED
    BY <2>1, <2>2
<1>7. ASSUME NEW n \in (S \cup {k}) \cup {TailNode}
      PROVE  r.prev[n] \in (S \cup {k}) \cup {HeadNode} /\ r.next[r.prev[n]] = n
  <2>1. CASE n \in {f, k}
    BY <2>1, <1>1, <1>5
  <2>2. CASE n \notin {f, k}
    <3>1. r.prev[n] = l.prev[n]
      BY <2>2, <1>5 DEF Nodes
    <3>2. l.prev[n] \in S \cup {HeadNode} /\ l.next[l.prev[n]] = n
      BY <2>2 DEF Linked
    <3>3. l.prev[n] # k /\ l.prev[n] # HeadNode
      BY <3>2, <2>2, SentinelsAssumption DEF Nodes
    <3> QED
      BY <3>1, <3>2, <3>3, <1>5 DEF Nodes
  <2> QED
    BY <2>1, <2>2
<1> QED
  BY <1>3, <1>4, <1>6, <1>7 DEF Linked

\* A list in the order of last use: what every operation preserves.
InOrder(l, S, stamp) ==
    l \in ListType /\ Linked(l, S) /\ Descending(l, S, stamp)

\* Taking a node out leaves the others in the order of last use.
LEMMA RemoveInOrder ==
    ASSUME NEW l, NEW S \in SUBSET Keys, NEW k \in S, NEW stamp \in [Keys -> Nat],
           InOrder(l, S, stamp)
    PROVE  /\ InOrder(removeNode(l, k), S \ {k}, stamp)
           /\ removeNode(l, k).length = l.length - 1
<1> DEFINE r == removeNode(l, k)
<1>1. l.next[k] # k
  BY DEF InOrder, Descending
<1>2. r \in ListType /\ Linked(r, S \ {k}) /\ r.length = l.length - 1
  BY <1>1, RemoveLinked DEF InOrder
<1>3. ASSUME NEW n \in S \ {k}, r.next[n] \in S \ {k}
      PROVE  stamp[r.next[n]] < stamp[n]
  <2>1. /\ r.next[n] = IF n = l.prev[k] THEN l.next[k] ELSE l.next[n]
        /\ l.next[l.prev[k]] = k
    BY SentinelsAssumption DEF removeNode, InOrder, ListType, Pointers, Linked, Nodes
  <2>2. CASE n = l.prev[k]
    <3>1. stamp[k] < stamp[n]
      BY <2>1, <2>2 DEF InOrder, Descending
    <3>2. stamp[l.next[k]] < stamp[k]
      BY <1>3, <2>1, <2>2 DEF InOrder, Descending
    <3> QED
      BY <1>3, <2>1, <2>2, <3>1, <3>2
  <2>3. CASE n # l.prev[k]
    BY <1>3, <2>1, <2>3 DEF InOrder, Descending
  <2> QED
    BY <2>2, <2>3
<1> QED
  BY <1>2, <1>3 DEF InOrder, Descending

\* A node used later than all others goes in front of them.
LEMMA AddInOrder ==
    ASSUME NEW l, NEW S \in SUBSET Keys, NEW k \in Keys \ S,
           NEW stamp \in [Keys -> Nat], NEW t \in Nat,
           \A j \in Keys : stamp[j] < t,
           InOrder(l, S, stamp)
    PROVE  /\ InOrder(addToFront(l, k), S \cup {k}, [stamp EXCEPT ![k] = t])
           /\ addToFront(l, k).length = l.length + 1
<1> DEFINE r == addToFront(l, k)
           st == [stamp EXCEPT ![k] = t]
<1>1. r \in ListType /\ Linked(r, S \cup {k}) /\ r.length = l.length + 1
  BY AddLinked DEF InOrder
<1>2. ASSUME NEW n \in S \cup {k}, r.next[n] \in S \cup {k}
      PROVE  st[r.next[n]] < st[n]
  <2>1. r.next[n] = IF n = k THEN l.next[HeadNode] ELSE l.next[n]
    BY SentinelsAssumption DEF addToFront, InOrder, ListType, Pointers, Nodes
  <2>2. l.next[HeadNode] \in S \cup {TailNode}
    BY DEF InOrder, Linked
  <2>3. CASE n = k
    <3>1. r.next[n] \in S
      BY <1>2, <2>1, <2>2, <2>3, SentinelsAssumption
    <3> QED
      BY <3>1, <2>3
  <2>4. CASE n # k
    <3>1. n \in S /\ r.next[n] = l.next[n] /\ l.next[n] \in S
      BY <2>1, <2>4, <1>2, SentinelsAssumption DEF InOrder, Linked, Nodes
    <3>2. stamp[l.next[n]] < stamp[n]
      BY <3>1 DEF InOrder, Descending
    <3> QED
      BY <3>1, <3>2
  <2> QED
    BY <2>3, <2>4
<1> QED
  BY <1>1, <1>2 DEF InOrder, Descending

\* A node that is used moves in front of all others; the length stays.
LEMMA MoveInOrder ==
    ASSUME NEW l, NEW S \in SUBSET Keys, NEW k \in S,
           NEW stamp \in [Keys -> Nat], NEW t \in Nat,
           \A j \in Keys : stamp[j] < t,
           InOrder(l, S, stamp)
    PROVE  /\ InOrder(moveToFront(l, k), S, [stamp EXCEPT ![k] = t])
           /\ moveToFront(l, k).length = l.length
<1> DEFINE m == removeNode(l, k)
<1>1. InOrder(m, S \ {k}, stamp) /\ m.length = l.length - 1
  BY RemoveInOrder
<1>2. /\ InOrder(addToFront(m, k), (S \ {k}) \cup {k}, [stamp EXCEPT ![k] = t])
      /\ addToFront(m, k).length = m.length + 1
  <2>1. S \ {k} \in SUBSET Keys /\ k \in Keys \ (S \ {k})
    OBVIOUS
  <2> HIDE DEF m
  <2> QED
    BY <1>1, <2>1, AddInOrder
<1>3. (S \ {k}) \cup {k} = S
  OBVIOUS
<1>4. addToFront(m, k).length = l.length
  <2>1. l.length \in Int
    BY DEF InOrder, ListType
  <2> HIDE DEF m
  <2> QED
    BY <1>1, <1>2, <2>1
<1>5. moveToFront(l, k) = addToFront(m, k)
  BY DEF moveToFront
<1> HIDE DEF m
<1> QED
  BY <1>2, <1>3, <1>4, <1>5

-----------------------------------------------------------------------------
(* The node before the tail sentinel is the least recently used one. *)

\* A set of naturals that is not empty has a least element.
LEMMA LeastNatural ==
    ASSUME NEW T \in SUBSET Nat, T # {}
    PROVE  \E x \in T : \A y \in T : x <= y
<1>1. \E x \in T : \A y \in T : <<y, x>> \notin OpToRel(<, Nat)
  BY NatLessThanWellFounded, WFMin
<1>2. \A x, y \in T : <<y, x>> \notin OpToRel(<, Nat) => x <= y
  BY DEF OpToRel
<1> QED
  BY <1>1, <1>2

\* What evictOldest takes from a list in the order of last use.
LEMMA OldestOfList ==
    ASSUME NEW l, NEW S \in SUBSET Keys, NEW stamp \in [Keys -> Nat],
           InOrder(l, S, stamp)
    PROVE  /\ Oldest(l) = HeadNode <=> S = {}
           /\ S # {} => Oldest(l) \in S
           /\ \A k \in S : stamp[Oldest(l)] <= stamp[k]
<1>1. S = {} => Oldest(l) = HeadNode
  BY DEF Oldest, InOrder, Linked
<1>2. ASSUME S # {}
      PROVE  Oldest(l) \in S /\ \A k \in S : stamp[Oldest(l)] <= stamp[k]
  <2> DEFINE T == {stamp[k] : k \in S}
  <2>1. T \in SUBSET Nat /\ T # {}
    BY <1>2
  <2>2. PICK m \in S : \A k \in S : stamp[m] <= stamp[k]
    <3>1. \E x \in T : \A y \in T : x <= y
      <4> HIDE DEF T
      <4> QED
        BY <2>1, LeastNatural
    <3> QED
      BY <3>1
  <2>3. l.next[m] \notin S
    BY <2>2 DEF InOrder, Descending
  <2>4. Oldest(l) = m
    BY <2>3 DEF Oldest, InOrder, Linked
  <2> QED
    BY <2>2, <2>4
<1> QED
  BY <1>1, <1>2, SentinelsAssumption

-----------------------------------------------------------------------------
(* The inductive invariant.  CapacityRespected needs the list to hold the   *)
(* map's keys, or removing a node would not be removing an entry; the order *)
(* of last use excludes the cycles that Linked alone allows.                *)
IInv == TypeOK /\ ListMatchesMap /\ CapacityRespected

LEMMA ListFacts ==
    ASSUME IInv
    PROVE  /\ InOrder(list, Stored, used)
           /\ Stored \in SUBSET Keys /\ IsFiniteSet(Stored)
           /\ list.length = Cardinality(Stored) /\ Cardinality(Stored) \in Nat
           /\ used \in [Keys -> Nat] /\ uses \in Nat /\ capacity \in Nat
           /\ \A k \in Keys : used[k] <= uses
<1>1. Cardinality(Stored) \in Nat
  BY FS_CardinalityType DEF IInv, CapacityRespected
<1>2. uses \in Nat /\ used \in [Keys -> 0 .. uses]
  BY ParametersAssumption DEF IInv, TypeOK
<1> QED
  BY <1>1, <1>2, ParametersAssumption
  DEF IInv, TypeOK, ListMatchesMap, CapacityRespected, InOrder, ListType,
      Pointers, Stored

\* Taking a key out of both the map and the list keeps them in step.
LEMMA DropKey ==
    ASSUME IInv, NEW k \in Stored,
           list' = removeNode(list, k), data' = [data EXCEPT ![k] = None],
           UNCHANGED <<capacity, used, uses>>
    PROVE  /\ Stored' = Stored \ {k}
           /\ data' \in [Keys -> Entry \cup {None}]
           /\ list' \in ListType
           /\ ListMatchesMap' /\ CapacityRespected'
<1>1. Stored' = Stored \ {k} /\ data' \in [Keys -> Entry \cup {None}]
  BY DEF Stored, IInv, TypeOK
<1>2. /\ InOrder(list', Stored \ {k}, used)
      /\ list'.length = list.length - 1
  BY ListFacts, RemoveInOrder
<1>3. ListMatchesMap' /\ list' \in ListType
  BY <1>1, <1>2 DEF ListMatchesMap, InOrder
<1>4. /\ IsFiniteSet(Stored \ {k})
      /\ Cardinality(Stored \ {k}) = Cardinality(Stored) - 1
  BY ListFacts, FS_RemoveElement
<1>5. CapacityRespected'
  BY <1>1, <1>2, <1>4, ListFacts DEF CapacityRespected, IInv
<1> QED
  BY <1>1, <1>3, <1>5

\* A new use of a key keeps the history well typed and is later than all others.
LEMMA UseFacts ==
    ASSUME IInv, NEW k \in Keys, Use(k)
    PROVE  /\ used' = [used EXCEPT ![k] = uses + 1]
           /\ used' \in [Keys -> 0 .. uses'] /\ uses' \in 0 .. MaxUses
           /\ uses + 1 \in Nat
           /\ \A j \in Keys : used[j] < uses + 1
BY ListFacts, ParametersAssumption DEF Use

\* A use of a stored key keeps the map and the list in step.
LEMMA TouchKey ==
    ASSUME IInv, NEW k \in Stored, Use(k), Stored' = Stored,
           list' = moveToFront(list, k), UNCHANGED capacity
    PROVE  list' \in ListType /\ ListMatchesMap' /\ CapacityRespected'
<1>1. /\ InOrder(list', Stored, used')
      /\ list'.length = list.length
  BY ListFacts, UseFacts, MoveInOrder DEF Stored
<1> QED
  BY <1>1, ListFacts DEF ListMatchesMap, CapacityRespected, InOrder, IInv

\* A new entry is within the capacity, evicting or not.
LEMMA NewKey ==
    ASSUME IInv, NEW k \in Keys, NEW entry \in Entry, Use(k), SetNew(k, entry),
           UNCHANGED capacity
    PROVE  /\ data' \in [Keys -> Entry \cup {None}]
           /\ evicted' \in Keys \cup {None} /\ got' = None
           /\ list' \in ListType /\ ListMatchesMap' /\ CapacityRespected'
<1> DEFINE old == Oldest(list)
           full == AtCapacity /\ old # HeadNode
           kept == IF full THEN Stored \ {old} ELSE Stored
           base == IF full THEN removeNode(list, old) ELSE list
<1>1. full => old \in Stored
  BY ListFacts, OldestOfList
<1>2. k \notin Stored /\ kept \in SUBSET Keys /\ k \in Keys \ kept
  BY ListFacts DEF SetNew
<1>3. /\ data' \in [Keys -> Entry \cup {None}]
      /\ Stored' = kept \cup {k}
      /\ list' = addToFront(base, k)
      /\ evicted' \in Keys \cup {None} /\ got' = None
  <2>1. data \in [Keys -> Entry \cup {None}] /\ entry # None
    BY ValuesAssumption DEF IInv, TypeOK
  <2>2. CASE full
    <3>1. /\ data' = [data EXCEPT ![old] = None, ![k] = entry]
          /\ list' = addToFront(removeNode(list, old), k)
          /\ evicted' = old /\ got' = None
      BY <2>2 DEF SetNew, Returns
    <3>2. old \in Keys /\ old # k
      BY <1>1, <1>2, <2>2, ListFacts
    <3> QED
      BY <2>1, <2>2, <3>1, <3>2 DEF Stored
  <2>3. CASE ~full
    <3>1. /\ data' = [data EXCEPT ![k] = entry]
          /\ list' = addToFront(list, k)
          /\ evicted' = None /\ got' = None
      BY <2>3 DEF SetNew, Returns
    <3> QED
      BY <2>1, <2>3, <3>1 DEF Stored
  <2> QED
    BY <2>2, <2>3
<1>4. /\ InOrder(base, kept, used)
      /\ IsFiniteSet(kept) /\ base.length = Cardinality(kept)
      /\ Cardinality(kept) \in Nat
      /\ capacity > 0 => base.length < capacity
  <2>1. CASE full
    <3>1. InOrder(removeNode(list, old), Stored \ {old}, used)
      BY <1>1, <2>1, ListFacts, RemoveInOrder
    <3>2. removeNode(list, old).length = list.length - 1
      BY <1>1, <2>1, ListFacts, RemoveInOrder
    <3>3. /\ IsFiniteSet(Stored \ {old})
          /\ Cardinality(Stored \ {old}) = Cardinality(Stored) - 1
      BY <1>1, <2>1, ListFacts, FS_RemoveElement
    <3>4. Cardinality(Stored \ {old}) \in Nat
      BY <3>3, FS_CardinalityType
    <3> QED
      BY <2>1, <3>1, <3>2, <3>3, <3>4, ListFacts DEF CapacityRespected, IInv
  <2>2. CASE ~full
    <3>1. capacity > 0 => list.length < capacity
      <4>1. CASE old = HeadNode
        BY <4>1, ListFacts, OldestOfList, FS_EmptySet
      <4>2. CASE ~AtCapacity
        BY <4>2, ListFacts DEF AtCapacity
      <4> QED
        BY <2>2, <4>1, <4>2
    <3> QED
      BY <2>2, <3>1, ListFacts
  <2> QED
    BY <2>1, <2>2
<1> HIDE DEF base, kept
<1>5. /\ InOrder(list', Stored', used')
      /\ list'.length = base.length + 1
  BY <1>2, <1>3, <1>4, UseFacts, ListFacts, AddInOrder
<1>6. /\ IsFiniteSet(Stored')
      /\ Cardinality(Stored') = Cardinality(kept) + 1
  BY <1>2, <1>3, <1>4, FS_AddElement
<1>7. CapacityRespected'
  BY <1>4, <1>5, <1>6, ListFacts DEF CapacityRespected
<1> QED
  BY <1>3, <1>5, <1>7 DEF ListMatchesMap, InOrder

-----------------------------------------------------------------------------
LEMMA InitIInv == Init => IInv
<1> SUFFICES ASSUME Init PROVE IInv
  OBVIOUS
<1>1. Stored = {}
  BY DEF Init, Stored
<1>2. TypeOK
  BY <1>1, SentinelsAssumption, ParametersAssumption
  DEF Init, TypeOK, EmptyList, Nodes
<1>3. ListMatchesMap
  BY <1>1, SentinelsAssumption
  DEF Init, ListMatchesMap, Linked, Descending, EmptyList, Nodes
<1>4. CapacityRespected
  BY <1>1, FS_EmptySet, ParametersAssumption
  DEF Init, CapacityRespected, EmptyList
<1> QED
  BY <1>2, <1>3, <1>4 DEF IInv

\* Every lifetime that a Set may be given is a natural number.
LEMMA JitteredNat ==
    ASSUME NEW ttl \in TTLs, NEW t \in Jittered(ttl)
    PROVE  t \in Nat
<1>1. ttl \in Nat /\ JitterPercent \in Nat
  BY ParametersAssumption
<1>2. PICK j \in 0 .. ((ttl * JitterPercent) \div 100) : t = ttl + j
  BY DEF Jittered
<1> QED
  BY <1>1, <1>2

LEMMA SetIInv ==
    ASSUME IInv, NEW k \in Keys, NEW v \in Values, NEW t \in Nat, Set(k, v, t)
    PROVE  IInv'
<1> DEFINE entry == [value |-> v, expiresAt |-> now + t]
<1>1. /\ Idle /\ Use(k)
      /\ SetUpdate(k, entry) \/ SetNew(k, entry)
      /\ UNCHANGED <<capacity, now, sweeping>>
  BY DEF Set
<1>2. entry \in Entry /\ entry # None
  BY ValuesAssumption, ParametersAssumption DEF Entry, IInv, TypeOK
<1> HIDE DEF entry
<1>3. /\ data' \in [Keys -> Entry \cup {None}]
      /\ evicted' \in Keys \cup {None} /\ got' = None
      /\ list' \in ListType /\ ListMatchesMap' /\ CapacityRespected'
  <2>1. CASE SetUpdate(k, entry)
    <3>1. Stored' = Stored /\ data' \in [Keys -> Entry \cup {None}]
      BY <1>2, <2>1 DEF SetUpdate, Stored, IInv, TypeOK
    <3> QED
      BY <1>1, <2>1, <3>1, TouchKey DEF SetUpdate, Returns
  <2>2. CASE SetNew(k, entry)
    BY <1>1, <1>2, <2>2, NewKey
  <2> QED
    BY <1>1, <2>1, <2>2
<1>4. TypeOK'
  BY <1>1, <1>3, UseFacts
  DEF TypeOK, IInv, Idle, ListType, Pointers
<1> QED
  BY <1>3, <1>4 DEF IInv

\* A step of an action that takes k out of the map and the list and leaves
\* the history alone.
LEMMA DropIInv ==
    ASSUME IInv, NEW k \in Stored,
           list' = removeNode(list, k), data' = [data EXCEPT ![k] = None],
           UNCHANGED <<capacity, now, used, uses>>,
           sweeping' \subseteq sweeping \ {k},
           evicted' \in {evicted, None}, got' \in {got, None}
    PROVE  IInv'
<1>1. /\ Stored' = Stored \ {k}
      /\ data' \in [Keys -> Entry \cup {None}]
      /\ list' \in ListType
      /\ ListMatchesMap' /\ CapacityRespected'
  BY DropKey
<1>2. TypeOK'
  BY <1>1 DEF TypeOK, IInv, ListType, Pointers
<1> QED
  BY <1>1, <1>2 DEF IInv

\* A step that leaves the map, the list and the history alone.
LEMMA KeepIInv ==
    ASSUME IInv, UNCHANGED <<data, list, capacity, used, uses>>,
           now' \in 0 .. MaxTime, sweeping' \subseteq Stored,
           evicted' \in {evicted, None}, got' \in {got, None}
    PROVE  IInv'
<1>1. Stored' = Stored
  BY DEF Stored
<1> QED
  BY <1>1 DEF IInv, TypeOK, ListMatchesMap, CapacityRespected

LEMMA NextIInv == IInv /\ [Next]_vars => IInv'
<1> SUFFICES ASSUME IInv, [Next]_vars PROVE IInv'
  OBVIOUS
<1>1. ASSUME NEW k \in Keys, GetHit(k) PROVE IInv'
  <2>1. data' = data /\ Stored' = Stored /\ Use(k) /\ k \in Stored
    BY <1>1 DEF GetHit, Stored
  <2>2. list' \in ListType /\ ListMatchesMap' /\ CapacityRespected'
    BY <1>1, <2>1, TouchKey DEF GetHit
  <2>3. got' \in Values /\ evicted' = None
    BY <1>1, <2>1 DEF GetHit, Returns, IInv, TypeOK, Stored, Entry
  <2>4. TypeOK'
    BY <1>1, <2>1, <2>2, <2>3, UseFacts
    DEF GetHit, TypeOK, IInv, ListType, Pointers
  <2> QED
    BY <2>2, <2>4 DEF IInv
<1>2. ASSUME NEW k \in Keys, GetExpired(k) \/ Delete(k) PROVE IInv'
  BY <1>2, DropIInv DEF GetExpired, Delete, Returns, Idle
<1>3. ASSUME NEW k \in Keys, GetMiss(k) PROVE IInv'
  BY <1>3, KeepIInv DEF GetMiss, Returns, IInv, TypeOK
<1>4. ASSUME NEW k \in Keys, Sweep(k) PROVE IInv'
  BY <1>4, DropIInv DEF Sweep, callVars, IInv, TypeOK
<1>5. ASSUME NEW k \in Keys, NEW ttl \in TTLs,
             \/ SetNull(k, ttl)
             \/ \E v \in Values : Set(k, v, ttl) \/ SetWithJitter(k, v, ttl)
      PROVE  IInv'
  <2>1. ttl \in Nat
    BY ParametersAssumption
  <2>2. PICK w \in Values, t \in Nat : Set(k, w, t)
    BY <1>5, <2>1, JitteredNat, ValuesAssumption DEF SetWithJitter, SetNull
  <2> QED
    BY <2>2, SetIInv
<1>6. ASSUME NEW F \in Families, DeleteFamily(F) PROVE IInv'
  BY <1>6, KeepIInv DEF DeleteFamily, Returns, IInv, TypeOK
<1>7. CASE cleanupExpired
  BY <1>7, KeepIInv DEF cleanupExpired, Returns, IInv, TypeOK
<1>8. CASE Tick
  BY <1>8, KeepIInv, ParametersAssumption DEF Tick, callVars, IInv, TypeOK
<1>9. CASE UNCHANGED vars
  BY <1>9, KeepIInv DEF vars, callVars, IInv, TypeOK
<1> QED
  <2>1. CASE \E k \in Keys : Get(k) \/ Delete(k) \/ Sweep(k)
    BY <2>1, <1>1, <1>2, <1>3, <1>4 DEF Get
  <2>2. CASE \E k \in Keys, ttl \in TTLs :
                \/ SetNull(k, ttl)
                \/ \E v \in Values : Set(k, v, ttl) \/ SetWithJitter(k, v, ttl)
    BY <2>2, <1>5
  <2> QED
    BY <2>1, <2>2, <1>6, <1>7, <1>8, <1>9 DEF Next

\* The inductive invariant holds in every reachable state.
THEOREM Invariance == Spec => []IInv
<1>1. Init => IInv
  BY InitIInv
<1>2. IInv /\ [Next]_vars => IInv'
  BY NextIInv
<1> QED
  BY <1>1, <1>2, PTL DEF Spec

\* Every variable keeps its type (cache.go, every method).
THEOREM TypeCorrect == Spec => []TypeOK
<1>1. IInv => TypeOK
  BY DEF IInv
<1> QED
  BY <1>1, Invariance, PTL

\* The map and the linked list hold the same keys, in the order of last use,
\* whatever calls of Get, Set, Delete and the loops came before.
THEOREM ListCorrect == Spec => []ListMatchesMap
<1>1. IInv => ListMatchesMap
  BY DEF IInv
<1> QED
  BY <1>1, Invariance, PTL

\* The length counts the entries and never exceeds a capacity above zero.
THEOREM CapacityCorrect == Spec => []CapacityRespected
<1>1. IInv => CapacityRespected
  BY DEF IInv
<1> QED
  BY <1>1, Invariance, PTL

\* The node before the tail sentinel, which evictOldest takes, is always a
\* least recently used one.
THEOREM EvictionCorrect == Spec => []OldestIsLeastRecent
<1>1. IInv => OldestIsLeastRecent
  BY ListFacts, OldestOfList DEF OldestIsLeastRecent
<1> QED
  BY <1>1, Invariance, PTL

-----------------------------------------------------------------------------
(* LRUCache implements LRU: each method is a step of the abstract cache, a  *)
(* loop over the map is the abstract removal of all its keys when it takes  *)
(* the mutex, and its further steps are stutters.                           *)

\* The value LRUCache gives to the abstract variable store.
AbstractStore == [k \in Keys |-> IF k \in sweeping THEN None ELSE data[k]]

\* While the mutex is free the abstract store is the map.
LEMMA IdleStore ==
    ASSUME IInv, Idle
    PROVE  /\ AbstractStore = data
           /\ Abstract!Stored = Stored
           /\ \A k \in Stored : Abstract!Expired(k) <=> Expired(k)
BY DEF AbstractStore, Idle, IInv, TypeOK, Abstract!Stored, Stored,
       Abstract!Expired, Expired

LEMMA SetSimulation ==
    ASSUME IInv, NEW k \in Keys, NEW v \in Values, NEW t \in Nat, Set(k, v, t)
    PROVE  Abstract!Set(k, v, t)
<1> DEFINE entry == [value |-> v, expiresAt |-> now + t]
<1>1. /\ Idle /\ Use(k)
      /\ SetUpdate(k, entry) \/ SetNew(k, entry)
      /\ UNCHANGED <<capacity, now, sweeping>>
  BY DEF Set
<1>2. AbstractStore = data /\ Abstract!Stored = Stored
  BY <1>1, IdleStore
<1>3. entry \in Entry
  BY ParametersAssumption DEF Entry, IInv, TypeOK
<1>4. IInv'
  BY SetIInv
<1>5. AbstractStore' = data'
  BY <1>1, <1>4 DEF AbstractStore, Idle, IInv, TypeOK
<1>6. Abstract!Full <=> AtCapacity
  <2>1. Abstract!Cardinality(Stored) = Cardinality(Stored)
    BY DEF Cardinality, Abstract!Cardinality
  <2>2. Abstract!Cardinality(Abstract!Stored) = list.length
    BY <1>2, <2>1, ListFacts
  <2> QED
    BY <2>2 DEF Abstract!Full, AtCapacity
<1>7. AtCapacity => Oldest(list) # HeadNode /\ Oldest(list) \in Stored
  <2>1. AtCapacity => Cardinality(Stored) # 0
    BY ListFacts DEF AtCapacity
  <2>2. AtCapacity => Stored # {}
    BY <2>1, FS_EmptySet
  <2> QED
    BY <2>2, ListFacts, OldestOfList
<1>8. Abstract!Use(k)
  BY <1>1 DEF Use, Abstract!Use
<1> HIDE DEF entry
<1>9. CASE SetUpdate(k, entry)
  BY <1>1, <1>2, <1>5, <1>8, <1>9
  DEF SetUpdate, Returns, Abstract!Set, Abstract!Returns, AbstractStore, entry
<1>10. CASE SetNew(k, entry) /\ ~AtCapacity
  <2>1. data' = [data EXCEPT ![k] = entry] /\ Returns(None, None)
    BY <1>10 DEF SetNew
  <2> QED
    BY <1>1, <1>2, <1>5, <1>6, <1>8, <1>10, <2>1
    DEF Returns, Abstract!Set, Abstract!Returns, AbstractStore, entry
<1>11. CASE SetNew(k, entry) /\ AtCapacity
  <2> DEFINE old == Oldest(list)
  <2>1. /\ data' = [data EXCEPT ![old] = None, ![k] = entry]
        /\ Returns(old, None) /\ k \notin Stored
    BY <1>7, <1>11 DEF SetNew
  <2>2. old \in Abstract!LeastRecent
    BY <1>2, <1>7, <1>11, ListFacts, OldestOfList DEF Abstract!LeastRecent
  <2> HIDE DEF old
  <2> QED
    BY <1>1, <1>2, <1>5, <1>6, <1>8, <1>11, <2>1, <2>2
    DEF Returns, Abstract!Set, Abstract!Returns, AbstractStore, entry
<1> QED
  BY <1>1, <1>9, <1>10, <1>11

LEMMA StepSimulation ==
    IInv /\ [Next]_vars => [Abstract!Next]_(Abstract!vars)
<1> SUFFICES ASSUME IInv, [Next]_vars PROVE [Abstract!Next]_(Abstract!vars)
  OBVIOUS
<1>0. data \in [Keys -> Entry \cup {None}] /\ sweeping \subseteq Stored
  BY DEF IInv, TypeOK
<1>1. ASSUME NEW k \in Keys, GetHit(k) PROVE Abstract!Hit(k)
  <2>1. AbstractStore' = AbstractStore
    BY <1>1 DEF GetHit, AbstractStore
  <2> QED
    BY <1>1, <2>1, IdleStore
    DEF GetHit, Use, Returns, Abstract!Hit, Abstract!Use, Abstract!Returns,
        AbstractStore
<1>2. ASSUME NEW k \in Keys, GetExpired(k) \/ Delete(k) PROVE Abstract!Delete(k)
  <2>1. AbstractStore' = [j \in Keys |-> IF j \in {k} THEN None ELSE AbstractStore[j]]
    BY <1>0, <1>2 DEF GetExpired, Delete, Idle, AbstractStore
  <2> QED
    BY <1>2, <2>1
    DEF GetExpired, Delete, Returns, Abstract!Delete, Abstract!Remove,
        Abstract!Returns, AbstractStore
<1>3. ASSUME NEW k \in Keys, GetMiss(k) PROVE Abstract!Miss(k)
  <2>1. AbstractStore' = [j \in Keys |-> IF j \in {} THEN None ELSE AbstractStore[j]]
    BY <1>3 DEF GetMiss, AbstractStore
  <2> QED
    BY <1>3, <2>1, IdleStore
    DEF GetMiss, Returns, Abstract!Miss, Abstract!Remove, Abstract!Returns,
        AbstractStore
<1>4. ASSUME NEW k \in Keys, Sweep(k) PROVE UNCHANGED Abstract!vars
  <2>1. AbstractStore' = AbstractStore
    BY <1>0, <1>4 DEF Sweep, AbstractStore
  <2> QED
    BY <1>4, <2>1 DEF Sweep, callVars, Abstract!vars, AbstractStore
<1>5. ASSUME NEW k \in Keys, NEW ttl \in TTLs,
             \/ SetNull(k, ttl)
             \/ \E v \in Values : Set(k, v, ttl) \/ SetWithJitter(k, v, ttl)
      PROVE  Abstract!Next
  <2>1. ttl \in Nat /\ ttl \in Jittered(ttl)
    <3>1. ttl \in Nat /\ (ttl * JitterPercent) \div 100 \in Nat
      BY ParametersAssumption
    <3> QED
      BY <3>1 DEF Jittered
  <2>2. PICK w \in Values, t \in Jittered(ttl) : Set(k, w, t)
    BY <1>5, <2>1, ValuesAssumption DEF SetWithJitter, SetNull
  <2>3. t \in UNION {Jittered(u) : u \in TTLs}
    BY <2>2
  <2>4. Abstract!Set(k, w, t)
    BY <2>2, JitteredNat, SetSimulation
  <2> QED
    BY <2>2, <2>3, <2>4 DEF Abstract!Next
<1>6. ASSUME NEW F \in Families, DeleteFamily(F) PROVE Abstract!Remove(F)
  <2>1. AbstractStore' = [j \in Keys |-> IF j \in F THEN None ELSE AbstractStore[j]]
    BY <1>6 DEF DeleteFamily, Idle, AbstractStore, Stored
  <2> QED
    BY <1>6, <2>1
    DEF DeleteFamily, Returns, Abstract!Remove, Abstract!Returns, AbstractStore
<1>7. ASSUME cleanupExpired PROVE Abstract!Next
  <2> DEFINE S == {k \in Stored : Expired(k)}
  <2>1. AbstractStore' = [j \in Keys |-> IF j \in S THEN None ELSE AbstractStore[j]]
    BY <1>7 DEF cleanupExpired, Idle, AbstractStore, Stored
  <2>2. S \in SUBSET Keys /\ S \subseteq {k \in Abstract!Stored : Abstract!Expired(k)}
    BY <1>7, IdleStore DEF cleanupExpired, Stored
  <2> HIDE DEF S
  <2>3. Abstract!Expire(S)
    BY <1>7, <2>1, <2>2
    DEF cleanupExpired, Returns, Abstract!Expire, Abstract!Remove,
        Abstract!Returns, AbstractStore
  <2>4. \E T \in SUBSET Keys : Abstract!Expire(T)
    BY <2>2, <2>3 DEF Abstract!Expire, Abstract!Remove
  <2> QED
    BY <2>4 DEF Abstract!Next
<1>8. ASSUME Tick PROVE Abstract!Tick
  <2>1. AbstractStore' = AbstractStore
    BY <1>8 DEF Tick, AbstractStore
  <2> QED
    BY <1>8, <2>1 DEF Tick, callVars, Abstract!Tick, AbstractStore
<1>9. ASSUME UNCHANGED vars PROVE UNCHANGED Abstract!vars
  <2>1. AbstractStore' = AbstractStore
    BY <1>9 DEF vars, AbstractStore
  <2> QED
    BY <1>9, <2>1 DEF vars, callVars, Abstract!vars, AbstractStore
<1> QED
  <2>1. CASE \E k \in Keys : Get(k) \/ Delete(k) \/ Sweep(k)
    BY <2>1, <1>1, <1>2, <1>3, <1>4 DEF Get, Abstract!Next
  <2>2. CASE \E k \in Keys, ttl \in TTLs :
                \/ SetNull(k, ttl)
                \/ \E v \in Values : Set(k, v, ttl) \/ SetWithJitter(k, v, ttl)
    BY <2>2, <1>5
  <2>3. CASE \E F \in Families : DeleteFamily(F)
    BY <2>3, <1>6 DEF Abstract!Next
  <2>4. CASE Tick
    BY <2>4, <1>8 DEF Abstract!Next
  <2> QED
    BY <2>1, <2>2, <2>3, <2>4, <1>7, <1>9 DEF Next

\* Every behaviour of the linked-list cache is one of the abstract LRU cache.
THEOREM Refinement == Spec => ImplementsLRU
<1>1. Init => Abstract!Init
  BY DEF Init, Abstract!Init
<1>2. IInv /\ [Next]_vars => [Abstract!Next]_(Abstract!vars)
  BY StepSimulation
<1> QED
  BY <1>1, <1>2, Invariance, PTL DEF Spec, ImplementsLRU, Abstract!Spec
=============================================================================
