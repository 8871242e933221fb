------------------------- MODULE ReplicationProofs -------------------------
(***************************************************************************)
(* Proofs about Replication, for any number of keys, values, writers and   *)
(* breaks and any capacity: a replica at rest has what its leader has, but *)
(* for the keys in doubt.                                                  *)
(***************************************************************************)
EXTENDS Replication, SequenceTheorems, FiniteSetTheorems, TLAPS

Notices == {Replicate(k, v) : k \in Keys, v \in Values} \cup {Removal(S) : S \in SUBSET Keys}
Messages == Notices \cup {FullState(data) : data \in Data}

Typed ==
    /\ sheet \in Data /\ copy \in Data /\ dumped \in Data /\ loading \in Data
    /\ todo \in [Writers -> Seq(Notices)] /\ toReplica \in Seq(Messages)
    /\ link \in {"down", "dialed", "registered", "dumped", "synced"}
    /\ writes \in 0 .. MaxWrites /\ breaks \in 0 .. MaxBreaks
    /\ doubtful \subseteq Keys

\* Neither cache outgrows its capacity.
Fits(map) ==
    /\ IsFiniteSet(Stored(map))
    /\ Capacity > 0 => Cardinality(Stored(map)) <= Capacity

Bounded == Fits(sheet) /\ Fits(copy)

\* Whether a message is about k, and what the replica has for k after it.
About(msg, k) == IF msg.type = "full_state" THEN msg.data[k] # None ELSE k \in msg.keys
Says(msg, k) == IF msg.type = "full_state" THEN msg.data[k] ELSE msg.data

Among(q, k) == \E i \in DOMAIN q : About(q[i], k)
LastWord(q, k, v) ==
    \E i \in DOMAIN q : /\ About(q[i], k) /\ Says(q[i], k) = v
                        /\ \A j \in DOMAIN q : j > i => ~About(q[j], k)

\* What the replica has for k when all that is on its way has arrived: the
\* state it is loading comes first, the one not yet written last.
Arrives(k, v) ==
    IF link = "dumped" /\ dumped[k] # None THEN dumped[k] = v
    ELSE IF Among(toReplica, k) THEN LastWord(toReplica, k, v)
    ELSE IF loading[k] # None THEN loading[k] = v
    ELSE copy[k] = v

\* Whatever handlers have yet to write of a key without doubt is what the sheet has.
PendingTrue ==
    \A k \in Keys \ doubtful, w \in Writers :
        \A i \in DOMAIN todo[w] : k \in todo[w][i].keys => todo[w][i].data = sheet[k]

\* When they have nothing to write of it, it arrives; before the next dump
\* that is so of the keys that the dump will not have.
ArrivesTrue ==
    \A k \in Keys \ doubtful :
        k \notin Pending /\ (link \in {"dumped", "synced"} \/ sheet[k] = None) => Arrives(k, sheet[k])

IInv ==
    /\ Typed
    /\ Bounded
    /\ PendingTrue
    /\ ArrivesTrue

-----------------------------------------------------------------------------
(* Messages and queues. *)

LEMMA NoticeFacts ==
    ASSUME NEW m \in Notices
    PROVE  /\ m \in Messages /\ m.type \in {"replicate", "remove"} /\ m.keys \in SUBSET Keys
           /\ m.data \in Values \cup {None}
           /\ m.type = "replicate" => m.data \in Values /\ \E k \in Keys : m.keys = {k}
           /\ m.type = "remove" => m.data = None
           /\ \A k : (About(m, k) <=> k \in m.keys) /\ Says(m, k) = m.data
BY DEF Notices, Messages, Replicate, Removal, About, Says

LEMMA MessageFacts ==
    ASSUME NEW m \in Messages
    PROVE  \/ m \in Notices
           \/ m.type = "full_state" /\ m.data \in Data
BY DEF Messages, FullState

LEMMA MessagesMade ==
    /\ \A k \in Keys, v \in Values :
          Replicate(k, v) \in Notices /\ Replicate(k, v).keys = {k} /\ Replicate(k, v).data = v
    /\ \A S \in SUBSET Keys :
          Removal(S) \in Notices /\ Removal(S).keys = S /\ Removal(S).data = None
    /\ \A data \in Data :
          /\ FullState(data) \in Messages
          /\ \A k : About(FullState(data), k) <=> data[k] # None
          /\ \A k : Says(FullState(data), k) = data[k]
<1>1. \A k \in Keys, v \in Values :
        Replicate(k, v) \in Notices /\ Replicate(k, v).keys = {k} /\ Replicate(k, v).data = v
  <2> SUFFICES ASSUME NEW k \in Keys, NEW v \in Values
               PROVE  /\ Replicate(k, v) \in Notices
                      /\ Replicate(k, v).keys = {k} /\ Replicate(k, v).data = v
    OBVIOUS
  <2>1. Replicate(k, v) \in Notices
    BY DEF Notices
  <2>2. Replicate(k, v).keys = {k} /\ Replicate(k, v).data = v
    BY DEF Replicate
  <2> QED
    BY <2>1, <2>2
<1>2. \A S \in SUBSET Keys :
        Removal(S) \in Notices /\ Removal(S).keys = S /\ Removal(S).data = None
  BY DEF Notices, Removal
<1>3. ASSUME NEW data \in Data
      PROVE  /\ FullState(data) \in Messages
             /\ \A k : About(FullState(data), k) <=> data[k] # None
             /\ \A k : Says(FullState(data), k) = data[k]
  <2>1. FullState(data).type = "full_state" /\ FullState(data).data = data
    BY DEF FullState
  <2>2. FullState(data) \in Messages
    BY DEF Messages
  <2> QED
    BY <2>1, <2>2 DEF About, Says
<1> QED
  BY <1>1, <1>2, <1>3

\* A message more, at the end, has the last word.
LEMMA SendFacts ==
    ASSUME NEW q \in Seq(Messages), NEW m \in Messages, NEW k
    PROVE  /\ Append(q, m) \in Seq(Messages)
           /\ Among(Append(q, m), k) <=> Among(q, k) \/ About(m, k)
           /\ About(m, k) => LastWord(Append(q, m), k, Says(m, k))
           /\ ~About(m, k) => \A v : LastWord(q, k, v) => LastWord(Append(q, m), k, v)
<1> DEFINE r == Append(q, m)
           n == Len(q) + 1
<1>1. /\ r \in Seq(Messages)
      /\ DOMAIN r = 1 .. n /\ r[n] = m /\ n \in DOMAIN r /\ n \notin DOMAIN q
      /\ \A i \in DOMAIN q : i \in DOMAIN r /\ r[i] = q[i]
      /\ \A i \in DOMAIN r : i = n \/ i \in DOMAIN q
      /\ \A i \in DOMAIN r : ~(i > n)
  OBVIOUS
<1> HIDE DEF r, n
<1>2. Among(r, k) <=> Among(q, k) \/ About(m, k)
  BY <1>1 DEF Among
<1>3. About(m, k) => LastWord(r, k, Says(m, k))
  BY <1>1 DEF LastWord
<1>4. ASSUME ~About(m, k), NEW v, LastWord(q, k, v)
      PROVE  LastWord(r, k, v)
  BY <1>1, <1>4 DEF LastWord
<1> QED
  BY <1>1, <1>2, <1>3, <1>4 DEF r

\* A message fewer, at the front.
LEMMA ReceiveFacts ==
    ASSUME NEW q \in Seq(Messages), q # <<>>, NEW k
    PROVE  /\ Head(q) \in Messages /\ Tail(q) \in Seq(Messages)
           /\ Among(q, k) <=> About(Head(q), k) \/ Among(Tail(q), k)
           /\ Among(Tail(q), k) => \A v : LastWord(q, k, v) => LastWord(Tail(q), k, v)
           /\ ~Among(Tail(q), k) => \A v : LastWord(q, k, v) => Says(Head(q), k) = v
<1> DEFINE r == Tail(q)
<1>1. /\ Head(q) \in Messages /\ r \in Seq(Messages)
      /\ Len(q) \in Nat /\ Len(q) > 0 /\ DOMAIN q = 1 .. Len(q) /\ DOMAIN r = 1 .. Len(q) - 1
      /\ Head(q) = q[1] /\ 1 \in DOMAIN q
      /\ \A i \in DOMAIN r : i \in Nat /\ i + 1 \in DOMAIN q /\ r[i] = q[i + 1]
  OBVIOUS
<1>2. \A i \in DOMAIN q : i = 1 \/ (i > 1 /\ i - 1 \in DOMAIN r /\ q[i] = r[i - 1])
  BY <1>1
<1> HIDE DEF r
<1>3. Among(q, k) <=> About(Head(q), k) \/ Among(r, k)
  BY <1>1, <1>2 DEF Among
<1>4. ASSUME NEW v, LastWord(q, k, v)
      PROVE  /\ Among(r, k) => LastWord(r, k, v)
             /\ ~Among(r, k) => Says(Head(q), k) = v
  <2>1. PICK i \in DOMAIN q : /\ About(q[i], k) /\ Says(q[i], k) = v
                             /\ \A j \in DOMAIN q : j > i => ~About(q[j], k)
    BY <1>4 DEF LastWord
  <2>2. CASE i = 1
    <3>1. ~Among(r, k)
      <4> SUFFICES ASSUME NEW j \in DOMAIN r
                   PROVE  ~About(r[j], k)
        BY DEF Among
      <4>1. j + 1 \in DOMAIN q /\ j + 1 > 1 /\ r[j] = q[j + 1]
        BY <1>1
      <4> QED
        BY <2>1, <2>2, <4>1
    <3> QED
      BY <1>1, <2>1, <2>2, <3>1
  <2>3. CASE i # 1
    <3>1. i - 1 \in DOMAIN r /\ q[i] = r[i - 1]
      BY <1>2, <2>3
    <3>2. \A j \in DOMAIN r : j > i - 1 => ~About(r[j], k)
      <4> SUFFICES ASSUME NEW j \in DOMAIN r, j > i - 1
                   PROVE  ~About(r[j], k)
        OBVIOUS
      <4>1. j + 1 \in DOMAIN q /\ j + 1 > i /\ r[j] = q[j + 1]
        BY <1>1
      <4> QED
        BY <2>1, <4>1
    <3> QED
      BY <2>1, <3>1, <3>2 DEF LastWord, Among
  <2> QED
    BY <2>2, <2>3
<1> QED
  BY <1>1, <1>3, <1>4 DEF r

\* What a handler writes: one message or two.
LEMMA OneMessage ==
    ASSUME NEW S, NEW a \in S
    PROVE  <<a>> \in Seq(S) /\ DOMAIN <<a>> = {1} /\ <<a>>[1] = a /\ <<a>> \o <<>> = <<a>>
OBVIOUS

Two(a, b) == <<a>> \o <<b>>

LEMMA TwoMessages ==
    ASSUME NEW S, NEW a \in S, NEW b \in S
    PROVE  /\ Two(a, b) \in Seq(S) /\ DOMAIN Two(a, b) = {1, 2}
           /\ Two(a, b)[1] = a /\ Two(a, b)[2] = b
<1> DEFINE x == <<a>>
           y == <<b>>
<1>2. x \in Seq(S) /\ y \in Seq(S) /\ Len(x) = 1 /\ Len(y) = 1 /\ x[1] = a /\ y[1] = b
  OBVIOUS
<1> HIDE DEF x, y
<1>3. x \o y \in Seq(S) /\ Len(x \o y) = 2
  BY <1>2, ConcatProperties
<1>4. DOMAIN (x \o y) = {1, 2}
  BY <1>3, LenProperties
<1>5. (x \o y)[1] = a /\ (x \o y)[2] = b
  <2>1. \A i \in 1 .. Len(x) + Len(y) : (x \o y)[i] = IF i <= Len(x) THEN x[i] ELSE y[i - Len(x)]
    BY <1>2, ConcatProperties
  <2>2. Len(x) + Len(y) = 2 /\ 2 - Len(x) = 1 /\ 1 <= Len(x) /\ ~(2 <= Len(x))
    BY <1>2
  <2>3. 1 \in 1 .. Len(x) + Len(y) /\ 2 \in 1 .. Len(x) + Len(y)
    BY <2>2
  <2>4. (x \o y)[1] = x[1]
    BY <2>1, <2>2, <2>3
  <2>5. (x \o y)[2] = y[1]
    BY <2>1, <2>2, <2>3
  <2> QED
    BY <1>2, <2>4, <2>5
<1>6. Two(a, b) = x \o y
  BY DEF Two, x, y
<1> QED
  BY <1>3, <1>4, <1>5, <1>6

LEMMA NothingAmong == \A k : ~Among(<<>>, k)
BY DEF Among

LEMMA PendingFacts ==
    ASSUME NEW k
    PROVE  k \in Pending <=> \E w \in Writers : \E i \in DOMAIN todo[w] : k \in todo[w][i].keys
BY DEF Pending

-----------------------------------------------------------------------------
(* Caches that fit. *)

LEMMA WithoutFacts ==
    ASSUME NEW map \in Data, NEW S \in SUBSET Keys
    PROVE  /\ Without(map, S) \in Data
           /\ \A k \in Keys : Without(map, S)[k] = IF k \in S THEN None ELSE map[k]
           /\ Stored(Without(map, S)) \subseteq Stored(map)
BY DEF Data, Without, Stored

LEMMA FitsSubset ==
    ASSUME NEW map, Fits(map), NEW less, Stored(less) \subseteq Stored(map)
    PROVE  Fits(less)
<1>1. /\ IsFiniteSet(Stored(less)) /\ Cardinality(Stored(less)) <= Cardinality(Stored(map))
      /\ Cardinality(Stored(less)) \in Nat /\ Cardinality(Stored(map)) \in Nat
  BY FS_Subset, FS_CardinalityType DEF Fits
<1> QED
  BY <1>1, ParametersAssumption DEF Fits

LEMMA FitsNoData == NoData \in Data /\ Stored(NoData) = {} /\ Fits(NoData)
<1>1. NoData \in Data /\ Stored(NoData) = {}
  BY DEF NoData, Data, Stored
<1> QED
  BY <1>1, FS_EmptySet, ParametersAssumption DEF Fits

\* A put that need not evict.
LEMMA FitsPut ==
    ASSUME NEW map \in Data, Fits(map), NEW k \in Keys, NEW v \in Values,
           Evictable(map, k) = {}
    PROVE  [map EXCEPT ![k] = v] \in Data /\ Fits([map EXCEPT ![k] = v])
<1> DEFINE more == [map EXCEPT ![k] = v]
<1>1. more \in Data /\ Stored(more) = Stored(map) \cup {k}
  BY ParametersAssumption DEF Data, Stored
<1> HIDE DEF more
<1>0. /\ IsFiniteSet(Stored(map)) /\ Cardinality(Stored(map)) \in Nat
      /\ IsFiniteSet(Stored(map) \cup {k})
      /\ Cardinality(Stored(map) \cup {k}) =
            IF k \in Stored(map) THEN Cardinality(Stored(map)) ELSE Cardinality(Stored(map)) + 1
  <2>1. IsFiniteSet(Stored(map))
    BY DEF Fits
  <2> QED
    BY <2>1, FS_AddElement, FS_CardinalityType
<1>2. /\ IsFiniteSet(Stored(map)) /\ IsFiniteSet(Stored(more))
      /\ Cardinality(Stored(map)) \in Nat
      /\ Cardinality(Stored(more)) =
            IF k \in Stored(map) THEN Cardinality(Stored(map)) ELSE Cardinality(Stored(map)) + 1
  BY <1>0, <1>1
<1>3. ASSUME Capacity > 0
      PROVE  Cardinality(Stored(more)) <= Capacity
  <2>1. CASE k \in Stored(map)
    BY <1>2, <1>3, <2>1 DEF Fits
  <2>2. CASE k \notin Stored(map)
    <3>1. ~(Cardinality(Stored(map)) >= Capacity)
      <4>1. Cardinality(Stored(map)) >= Capacity => Cardinality(Stored(map)) > 0
        BY <1>2, <1>3, ParametersAssumption
      <4>2. Stored(map) = {} => ~(Cardinality(Stored(map)) > 0)
        BY FS_EmptySet
      <4> QED
        BY <1>3, <2>2, <4>1, <4>2 DEF Evictable
    <3> QED
      BY <1>2, <2>2, <3>1, ParametersAssumption
  <2> QED
    BY <2>1, <2>2
<1> QED
  BY <1>1, <1>2, <1>3 DEF Fits, more

\* A put that evicts another key.
LEMMA FitsEvict ==
    ASSUME NEW map \in Data, Fits(map), NEW k \in Keys, NEW v \in Values,
           NEW old \in Evictable(map, k)
    PROVE  /\ old \in Keys /\ old # k
           /\ [map EXCEPT ![old] = None, ![k] = v] \in Data
           /\ Fits([map EXCEPT ![old] = None, ![k] = v])
<1> DEFINE new == [map EXCEPT ![old] = None, ![k] = v]
<1>1. old \in Stored(map) /\ k \notin Stored(map) /\ old \in Keys /\ old # k
  BY DEF Evictable, Stored
<1>2. new \in Data /\ Stored(new) = (Stored(map) \ {old}) \cup {k}
  BY <1>1, ParametersAssumption DEF Data, Stored
<1>3. /\ IsFiniteSet(Stored(map)) /\ Cardinality(Stored(map)) \in Nat
      /\ IsFiniteSet(Stored(map) \ {old})
      /\ Cardinality(Stored(map) \ {old}) = Cardinality(Stored(map)) - 1
  BY <1>1, FS_RemoveElement, FS_CardinalityType DEF Fits
<1>4. /\ IsFiniteSet(Stored(new))
      /\ Cardinality(Stored(new)) = Cardinality(Stored(map) \ {old}) + 1
  <2>1. k \notin Stored(map) \ {old}
    BY <1>1
  <2>2. /\ IsFiniteSet((Stored(map) \ {old}) \cup {k})
        /\ Cardinality((Stored(map) \ {old}) \cup {k}) = Cardinality(Stored(map) \ {old}) + 1
    BY <1>3, <2>1, FS_AddElement
  <2> QED
    BY <1>2, <2>2
<1>5. Cardinality(Stored(new)) = Cardinality(Stored(map))
  BY <1>3, <1>4
<1> QED
  BY <1>1, <1>2, <1>4, <1>5 DEF Fits

-----------------------------------------------------------------------------
LEMMA InitIInv == Init => IInv
<1> SUFFICES ASSUME Init PROVE IInv
  OBVIOUS
<1>1. Typed
  <2>1. todo \in [Writers -> Seq(Notices)] /\ toReplica \in Seq(Messages)
    BY DEF Init
  <2>2. writes \in 0 .. MaxWrites /\ breaks \in 0 .. MaxBreaks
    BY ParametersAssumption DEF Init
  <2> QED
    BY <2>1, <2>2, FitsNoData DEF Init, Typed
<1>2. Bounded
  BY FitsNoData DEF Init, Bounded
<1>3. PendingTrue
  BY DEF Init, PendingTrue
<1>4. ArrivesTrue
  <2> SUFFICES ASSUME NEW k \in Keys
               PROVE  Arrives(k, sheet[k])
    BY DEF ArrivesTrue
  <2>1. link = "down" /\ toReplica = <<>> /\ loading[k] = None /\ copy[k] = None /\ sheet[k] = None
    BY DEF Init, NoData
  <2> QED
    BY <2>1, NothingAmong DEF Arrives
<1> QED
  BY <1>1, <1>2, <1>3, <1>4 DEF IInv

\* A handler that announces what it changed leaves no more doubt.
LEMMA HandlesIInv ==
    ASSUME IInv, NEW w \in Writers, NEW S \in SUBSET Keys, NEW msgs \in Seq(Notices),
           NEW quiet \in SUBSET Keys, Handles(w, S, msgs, quiet),
           sheet' \in Data, Fits(sheet)', \A k \in Keys \ S : sheet'[k] = sheet[k],
           \A i \in DOMAIN msgs :
              msgs[i].keys \subseteq S /\ \A k \in msgs[i].keys : msgs[i].data = sheet'[k],
           \A k \in S \ quiet : \E i \in DOMAIN msgs : k \in msgs[i].keys
    PROVE  IInv'
<1>1. /\ todo[w] = <<>> /\ writes < MaxWrites /\ writes' = writes + 1
      /\ todo' = [todo EXCEPT ![w] = msgs]
      /\ doubtful' = (doubtful \ S) \cup (S \cap Pending) \cup quiet
      /\ UNCHANGED <<link, dumped, toReplica, copy, loading, breaks>>
  BY DEF Handles
<1>2. todo' \in [Writers -> Seq(Notices)] /\ todo'[w] = msgs
      /\ \A x \in Writers \ {w} : todo'[x] = todo[x]
  BY <1>1 DEF IInv, Typed
<1>3. Typed'
  <2>1. writes' \in 0 .. MaxWrites
    BY <1>1, ParametersAssumption DEF IInv, Typed
  <2> QED
    BY <1>1, <1>2, <2>1 DEF IInv, Typed
<1>4. Bounded'
  BY <1>1 DEF IInv, Bounded, Fits
<1>5. PendingTrue'
  <2> SUFFICES ASSUME NEW k \in Keys \ doubtful', NEW x \in Writers, NEW i \in DOMAIN todo'[x],
                      k \in todo'[x][i].keys
               PROVE  todo'[x][i].data = sheet'[k]
    BY DEF PendingTrue
  <2>1. CASE x = w
    BY <1>2, <2>1
  <2>2. CASE x # w
    <3>1. k \in Pending /\ todo'[x] = todo[x]
      BY <1>2, <2>2, PendingFacts
    <3>2. k \notin S /\ k \notin doubtful
      BY <1>1, <3>1
    <3> QED
      BY <3>1, <3>2 DEF IInv, PendingTrue
  <2> QED
    BY <2>1, <2>2
<1>6. ArrivesTrue'
  <2> SUFFICES ASSUME NEW k \in Keys \ doubtful', k \notin Pending',
                      link' \in {"dumped", "synced"} \/ sheet'[k] = None
               PROVE  Arrives(k, sheet[k])'
    BY DEF ArrivesTrue
  <2>1. \A x \in Writers : \A i \in DOMAIN todo'[x] : k \notin todo'[x][i].keys
    BY DEF Pending
  <2>2. k \notin S
    BY <1>1, <1>2, <2>1
  <2>3. k \notin Pending
    BY <1>1, <1>2, <2>1, PendingFacts
  <2>4. k \notin doubtful /\ sheet'[k] = sheet[k]
    BY <1>1, <2>2
  <2>5. Arrives(k, sheet[k])
    BY <1>1, <2>3, <2>4 DEF IInv, ArrivesTrue
  <2> QED
    BY <1>1, <2>4, <2>5 DEF Arrives
<1> QED
  BY <1>3, <1>4, <1>5, <1>6 DEF IInv

LEMMA handleSetIInv ==
    ASSUME IInv, NEW w \in Writers, NEW k \in Keys, NEW v \in Values, handleSet(w, k, v)
    PROVE  IInv'
<1>1. sheet \in Data /\ Fits(sheet)
  BY DEF IInv, Typed, Bounded
<1>2. Replicate(k, v) \in Notices /\ Replicate(k, v).keys = {k} /\ Replicate(k, v).data = v
  BY MessagesMade
<1>3. ASSUME Evictable(sheet, k) = {}, sheet' = [sheet EXCEPT ![k] = v],
             Handles(w, {k}, <<Replicate(k, v)>>, {})
      PROVE  IInv'
  <2> DEFINE msgs == <<Replicate(k, v)>>
  <2>1. sheet' \in Data /\ Fits(sheet)'
    <3>1. [sheet EXCEPT ![k] = v] \in Data /\ Fits([sheet EXCEPT ![k] = v])
      BY <1>1, <1>3, FitsPut
    <3> QED
      BY <1>3, <3>1 DEF Fits
  <2>2. sheet'[k] = v /\ \A x \in Keys \ {k} : sheet'[x] = sheet[x]
    BY <1>1, <1>3 DEF Data
  <2>3. msgs \in Seq(Notices) /\ DOMAIN msgs = {1} /\ msgs[1] = Replicate(k, v)
    BY <1>2
  <2>4. {k} \in SUBSET Keys /\ {} \in SUBSET Keys
    OBVIOUS
  <2>5. Handles(w, {k}, msgs, {})
    BY <1>3
  <2> HIDE DEF msgs
  <2>6. \A i \in DOMAIN msgs :
           msgs[i].keys \subseteq {k} /\ \A x \in msgs[i].keys : msgs[i].data = sheet'[x]
    BY <1>2, <2>2, <2>3
  <2>7. \A x \in {k} \ {} : \E i \in DOMAIN msgs : x \in msgs[i].keys
    BY <1>2, <2>3
  <2> QED
    BY <2>1, <2>2, <2>3, <2>4, <2>5, <2>6, <2>7, HandlesIInv
<1>4. ASSUME NEW old \in Evictable(sheet, k),
             sheet' = [sheet EXCEPT ![old] = None, ![k] = v],
             Handles(w, {k, old}, <<Replicate(k, v)>> \o EvictionNotice(old), {old} \cap {EmptyKey})
      PROVE  IInv'
  <2> DEFINE msgs == <<Replicate(k, v)>> \o EvictionNotice(old)
  <2>1. old \in Keys /\ old # k /\ sheet' \in Data /\ Fits(sheet)'
    <3>1. /\ old \in Keys /\ old # k
          /\ [sheet EXCEPT ![old] = None, ![k] = v] \in Data
          /\ Fits([sheet EXCEPT ![old] = None, ![k] = v])
      BY <1>1, FitsEvict
    <3> QED
      BY <1>4, <3>1 DEF Fits
  <2>2. sheet'[k] = v /\ sheet'[old] = None /\ \A x \in Keys \ {k, old} : sheet'[x] = sheet[x]
    BY <1>1, <1>4, <2>1 DEF Data
  <2>3. Removal({old}) \in Notices /\ Removal({old}).keys = {old} /\ Removal({old}).data = None
    BY <2>1, MessagesMade
  <2>4. {k, old} \in SUBSET Keys /\ {old} \cap {EmptyKey} \in SUBSET Keys
    BY <2>1
  <2>5. Handles(w, {k, old}, msgs, {old} \cap {EmptyKey})
    BY <1>4
  <2> HIDE DEF msgs
  <2>6. CASE old = EmptyKey
    <3>1. msgs = <<Replicate(k, v)>>
      BY <1>2, <2>6, OneMessage DEF EvictionNotice, msgs
    <3>2. msgs \in Seq(Notices) /\ DOMAIN msgs = {1} /\ msgs[1] = Replicate(k, v)
      BY <1>2, <3>1, OneMessage, Zenon
    <3>3. \A i \in DOMAIN msgs :
             msgs[i].keys \subseteq {k, old} /\ \A x \in msgs[i].keys : msgs[i].data = sheet'[x]
      BY <1>2, <2>2, <3>2
    <3>4. \A x \in {k, old} \ ({old} \cap {EmptyKey}) : \E i \in DOMAIN msgs : x \in msgs[i].keys
      BY <1>2, <2>6, <3>2
    <3> QED
      BY <2>1, <2>2, <2>4, <2>5, <3>2, <3>3, <3>4, HandlesIInv
  <2>7. CASE old # EmptyKey
    <3>1. msgs = <<Replicate(k, v)>> \o <<Removal({old})>>
      BY <2>7 DEF EvictionNotice, msgs
    <3>2. /\ msgs \in Seq(Notices) /\ DOMAIN msgs = {1, 2}
          /\ msgs[1] = Replicate(k, v) /\ msgs[2] = Removal({old})
      <4>1. msgs = Two(Replicate(k, v), Removal({old}))
        BY <3>1, Zenon DEF Two
      <4> QED
        BY <1>2, <2>3, <4>1, TwoMessages
    <3>3. \A i \in DOMAIN msgs :
             msgs[i].keys \subseteq {k, old} /\ \A x \in msgs[i].keys : msgs[i].data = sheet'[x]
      BY <1>2, <2>2, <2>3, <3>2
    <3>4. \A x \in {k, old} \ ({old} \cap {EmptyKey}) : \E i \in DOMAIN msgs : x \in msgs[i].keys
      BY <1>2, <2>3, <3>2
    <3> QED
      BY <2>1, <2>2, <2>4, <2>5, <3>2, <3>3, <3>4, HandlesIInv
  <2> QED
    BY <2>6, <2>7
<1> QED
  BY <1>3, <1>4 DEF handleSet

LEMMA handleDeleteIInv ==
    ASSUME IInv, NEW w \in Writers, NEW S \in SUBSET Keys, handleDelete(w, S)
    PROVE  IInv'
<1> DEFINE msgs == <<Removal(S)>>
<1>1. sheet' = Without(sheet, S) /\ Handles(w, S, msgs, {})
  BY DEF handleDelete
<1>2. sheet' \in Data /\ Fits(sheet)'
  <2>1. Without(sheet, S) \in Data /\ Fits(Without(sheet, S))
    BY WithoutFacts, FitsSubset DEF IInv, Typed, Bounded
  <2> QED
    BY <1>1, <2>1 DEF Fits
<1>3. \A k \in Keys : sheet'[k] = IF k \in S THEN None ELSE sheet[k]
  BY <1>1, WithoutFacts DEF IInv, Typed
<1>4. Removal(S) \in Notices /\ Removal(S).keys = S /\ Removal(S).data = None
  BY MessagesMade
<1>5. msgs \in Seq(Notices) /\ DOMAIN msgs = {1} /\ msgs[1] = Removal(S)
  BY <1>4
<1> HIDE DEF msgs
<1>6. \A i \in DOMAIN msgs :
         msgs[i].keys \subseteq S /\ \A x \in msgs[i].keys : msgs[i].data = sheet'[x]
  BY <1>3, <1>4, <1>5
<1>7. \A x \in S \ {} : \E i \in DOMAIN msgs : x \in msgs[i].keys
  BY <1>4, <1>5
<1> QED
  BY <1>1, <1>2, <1>3, <1>5, <1>6, <1>7, HandlesIInv

\* Doubt that only grows says nothing new of what handlers have yet to write.
LEMMA PendingKept ==
    ASSUME PendingTrue, UNCHANGED <<todo, sheet>>, doubtful \subseteq doubtful'
    PROVE  PendingTrue' /\ Pending' = Pending
BY DEF PendingTrue, Pending

LEMMA LoseSheetIInv ==
    ASSUME IInv, LoseSheet
    PROVE  IInv'
<1>1. /\ \A w \in Writers : todo[w] = <<>>
      /\ writes < MaxWrites /\ writes' = writes + 1 /\ sheet' = NoData
      /\ doubtful' = doubtful \cup Stored(sheet)
      /\ UNCHANGED <<todo, link, dumped, toReplica, copy, loading, breaks>>
  BY DEF LoseSheet
<1>2. Typed'
  <2>1. writes' \in 0 .. MaxWrites
    BY <1>1, ParametersAssumption DEF IInv, Typed
  <2>2. doubtful' \subseteq Keys
    BY <1>1 DEF IInv, Typed, Stored
  <2> QED
    BY <1>1, <2>1, <2>2, FitsNoData DEF IInv, Typed
<1>3. Bounded'
  BY <1>1, FitsNoData DEF IInv, Bounded, Fits
<1>4. PendingTrue'
  BY <1>1 DEF PendingTrue
<1>5. ArrivesTrue'
  <2> SUFFICES ASSUME NEW k \in Keys \ doubtful'
               PROVE  Arrives(k, sheet[k])'
    BY DEF ArrivesTrue
  <2>1. k \notin doubtful /\ sheet[k] = None /\ sheet'[k] = None
    BY <1>1 DEF Stored, NoData
  <2>2. k \notin Pending
    BY <1>1, PendingFacts
  <2>3. Arrives(k, sheet[k])
    BY <2>1, <2>2 DEF IInv, ArrivesTrue
  <2> QED
    BY <1>1, <2>1, <2>3 DEF Arrives
<1> QED
  BY <1>2, <1>3, <1>4, <1>5 DEF IInv

LEMMA ExpireIInv ==
    ASSUME IInv, NEW k \in Keys, Expire(k)
    PROVE  IInv'
<1>1. /\ \/ sheet' = Without(sheet, {k}) /\ copy' = copy
         \/ copy' = Without(copy, {k}) /\ sheet' = sheet
      /\ doubtful' = doubtful \cup {k}
      /\ UNCHANGED <<todo, link, dumped, toReplica, loading, writes, breaks>>
  BY DEF Expire
<1>2. /\ sheet' \in Data /\ copy' \in Data
      /\ Stored(sheet') \subseteq Stored(sheet) /\ Stored(copy') \subseteq Stored(copy)
      /\ \A x \in Keys \ {k} : sheet'[x] = sheet[x] /\ copy'[x] = copy[x]
  BY <1>1, WithoutFacts DEF IInv, Typed
<1>3. Typed'
  BY <1>1, <1>2 DEF IInv, Typed
<1>4. Bounded'
  <2>1. Fits(sheet') /\ Fits(copy')
    BY <1>2, FitsSubset DEF IInv, Bounded
  <2> QED
    BY <2>1 DEF Bounded, Fits
<1>5. PendingTrue'
  BY <1>1, <1>2 DEF IInv, PendingTrue
<1>6. ArrivesTrue'
  <2>1. Pending' = Pending
    BY <1>1 DEF Pending
  <2> SUFFICES ASSUME NEW x \in Keys \ doubtful', x \notin Pending,
                      link \in {"dumped", "synced"} \/ sheet'[x] = None
               PROVE  Arrives(x, sheet[x])'
    BY <1>1, <2>1 DEF ArrivesTrue
  <2>2. x \notin doubtful /\ sheet'[x] = sheet[x] /\ copy'[x] = copy[x]
    BY <1>1, <1>2
  <2>3. Arrives(x, sheet[x])
    BY <2>2 DEF IInv, ArrivesTrue
  <2> QED
    BY <1>1, <2>2, <2>3 DEF Arrives
<1> QED
  BY <1>3, <1>4, <1>5, <1>6 DEF IInv

LEMMA broadcastToReplicasIInv ==
    ASSUME IInv, NEW w \in Writers, broadcastToReplicas(w)
    PROVE  IInv'
<1> DEFINE msg == Head(todo[w])
<1>1. /\ todo[w] # <<>> /\ todo' = [todo EXCEPT ![w] = Tail(todo[w])]
      /\ toReplica' = IF registered THEN Append(toReplica, msg) ELSE toReplica
      /\ doubtful' = IF link = "dumped" \/ (~registered /\ msg.type = "remove")
                     THEN doubtful \cup msg.keys ELSE doubtful
      /\ UNCHANGED <<sheet, link, dumped, copy, loading, writes, breaks>>
  BY DEF broadcastToReplicas
<1>2. /\ todo[w] \in Seq(Notices) /\ msg \in Notices /\ Tail(todo[w]) \in Seq(Notices)
      /\ 1 \in DOMAIN todo[w] /\ msg = todo[w][1]
      /\ \A i \in DOMAIN Tail(todo[w]) : i + 1 \in DOMAIN todo[w] /\ Tail(todo[w])[i] = todo[w][i + 1]
      /\ \A i \in DOMAIN todo[w] :
            i = 1 \/ (i - 1 \in DOMAIN Tail(todo[w]) /\ todo[w][i] = Tail(todo[w])[i - 1])
  <2>1. todo[w] \in Seq(Notices) /\ todo[w] # <<>>
    BY <1>1 DEF IInv, Typed
  <2> QED
    BY <2>1
<1> HIDE DEF msg
<1>3. /\ msg \in Messages /\ msg.keys \in SUBSET Keys
      /\ msg.type \in {"replicate", "remove"}
      /\ msg.type = "replicate" => msg.data \in Values
      /\ \A k : (About(msg, k) <=> k \in msg.keys) /\ Says(msg, k) = msg.data
  BY <1>2, NoticeFacts
<1>4. todo' \in [Writers -> Seq(Notices)] /\ todo'[w] = Tail(todo[w])
      /\ \A x \in Writers \ {w} : todo'[x] = todo[x]
  BY <1>1, <1>2 DEF IInv, Typed
<1>5. Typed'
  <2>1. toReplica' \in Seq(Messages)
    BY <1>1, <1>3 DEF IInv, Typed
  <2>2. doubtful' \subseteq Keys
    BY <1>1, <1>3 DEF IInv, Typed
  <2> QED
    BY <1>1, <1>4, <2>1, <2>2 DEF IInv, Typed
<1>6. Bounded'
  BY <1>1 DEF IInv, Bounded, Fits
<1>7. doubtful \subseteq doubtful'
  BY <1>1
<1>8. PendingTrue'
  <2> SUFFICES ASSUME NEW k \in Keys \ doubtful', NEW x \in Writers, NEW i \in DOMAIN todo'[x],
                      k \in todo'[x][i].keys
               PROVE  todo'[x][i].data = sheet'[k]
    BY DEF PendingTrue
  <2>1. k \in Keys \ doubtful /\ sheet'[k] = sheet[k]
    BY <1>1, <1>7
  <2>2. CASE x = w
    <3>1. i \in DOMAIN Tail(todo[w]) /\ todo'[x][i] = Tail(todo[w])[i]
      BY <1>4, <2>2
    <3>2. i + 1 \in DOMAIN todo[w] /\ todo'[x][i] = todo[w][i + 1]
      BY <1>2, <3>1
    <3>3. todo[w][i + 1].data = sheet[k]
      BY <2>1, <3>2 DEF IInv, PendingTrue
    <3> QED
      BY <2>1, <3>2, <3>3
  <2>3. CASE x # w
    BY <1>4, <2>1, <2>3 DEF IInv, PendingTrue
  <2> QED
    BY <2>2, <2>3
<1>9. ArrivesTrue'
  <2> SUFFICES ASSUME NEW k \in Keys \ doubtful', k \notin Pending',
                      link \in {"dumped", "synced"} \/ sheet[k] = None
               PROVE  Arrives(k, sheet[k])'
    BY <1>1 DEF ArrivesTrue
  <2>0. toReplica \in Seq(Messages) /\ k \notin doubtful
    BY <1>7 DEF IInv, Typed
  <2>1. CASE k \in msg.keys
    <3>1. msg.data = sheet[k]
      BY <1>2, <2>0, <2>1 DEF IInv, PendingTrue
    <3>2. link # "dumped" /\ (registered \/ msg.type # "remove")
      BY <1>1, <2>0, <2>1
    <3>3. registered
      BY <1>3, <3>1, <3>2, ParametersAssumption DEF registered
    <3>4. Among(toReplica', k) /\ LastWord(toReplica', k, sheet[k])
      BY <1>1, <1>3, <2>0, <2>1, <3>1, <3>3, SendFacts
    <3> QED
      BY <1>1, <3>2, <3>4 DEF Arrives
  <2>2. CASE k \notin msg.keys
    <3>1. k \notin Pending
      <4> SUFFICES ASSUME NEW x \in Writers, NEW i \in DOMAIN todo[x], k \in todo[x][i].keys
                   PROVE  k \in Pending'
        BY PendingFacts
      <4>1. \E j \in DOMAIN todo'[x] : k \in todo'[x][j].keys
        <5>1. CASE x = w
          <6>1. i # 1
            BY <1>2, <2>2, <5>1
          <6>2. i - 1 \in DOMAIN Tail(todo[w]) /\ todo[w][i] = Tail(todo[w])[i - 1]
            BY <1>2, <5>1, <6>1
          <6> QED
            BY <1>4, <5>1, <6>2
        <5>2. CASE x # w
          BY <1>4, <5>2
        <5> QED
          BY <5>1, <5>2
      <4> QED
        BY <4>1 DEF Pending
    <3>2. Arrives(k, sheet[k])
      BY <2>0, <3>1 DEF IInv, ArrivesTrue
    <3>3. /\ Among(toReplica', k) <=> Among(toReplica, k)
          /\ LastWord(toReplica, k, sheet[k]) => LastWord(toReplica', k, sheet[k])
      BY <1>1, <1>3, <2>0, <2>2, SendFacts
    <3> QED
      BY <1>1, <3>2, <3>3 DEF Arrives
  <2> QED
    BY <2>1, <2>2
<1> QED
  BY <1>5, <1>6, <1>8, <1>9 DEF IInv

-----------------------------------------------------------------------------
(* The connection. *)

LEMMA handleRegisterReplicaIInv ==
    ASSUME IInv, handleRegisterReplica
    PROVE  IInv'
<1> USE DEF handleRegisterReplica
<1>1. Typed' /\ Bounded'
  BY DEF IInv, Typed, Bounded, Fits
<1>2. PendingTrue' /\ Pending' = Pending
  BY PendingKept DEF IInv
<1>3. ArrivesTrue'
  BY <1>2 DEF IInv, ArrivesTrue, Arrives
<1> QED
  BY <1>1, <1>2, <1>3 DEF IInv

LEMMA ConnectIInv ==
    ASSUME IInv, Connect
    PROVE  IInv'
<1> USE DEF Connect
<1>1. Typed' /\ Bounded'
  BY DEF IInv, Typed, Bounded, Fits
<1>2. PendingTrue' /\ Pending' = Pending
  BY PendingKept DEF IInv
<1>3. ArrivesTrue'
  BY <1>2 DEF IInv, ArrivesTrue, Arrives
<1> QED
  BY <1>1, <1>2, <1>3 DEF IInv

\* The dump has every key of the sheet, and of the others it says nothing.
LEMMA DumpIInv ==
    ASSUME IInv, Dump
    PROVE  IInv'
<1>1. /\ link = "registered" /\ link' = "dumped" /\ dumped' = sheet
      /\ doubtful' = doubtful \ (Stored(sheet) \ Pending)
      /\ UNCHANGED <<sheet, todo, toReplica, copy, loading, writes, breaks>>
  BY DEF Dump
<1>2. Typed' /\ Bounded'
  BY <1>1 DEF IInv, Typed, Bounded, Fits
<1>3. Pending' = Pending
  BY <1>1 DEF Pending
<1>4. PendingTrue'
  <2> SUFFICES ASSUME NEW k \in Keys \ doubtful', NEW w \in Writers, NEW i \in DOMAIN todo[w],
                      k \in todo[w][i].keys
               PROVE  todo[w][i].data = sheet[k]
    BY <1>1 DEF PendingTrue
  <2>1. k \notin doubtful
    BY <1>1, PendingFacts
  <2> QED
    BY <2>1 DEF IInv, PendingTrue
<1>5. ArrivesTrue'
  <2> SUFFICES ASSUME NEW k \in Keys \ doubtful', k \notin Pending
               PROVE  Arrives(k, sheet[k])'
    BY <1>3 DEF ArrivesTrue
  <2>1. CASE sheet[k] # None
    BY <1>1, <2>1 DEF Arrives
  <2>2. CASE sheet[k] = None
    <3>1. k \notin doubtful
      BY <1>1, <2>2 DEF Stored
    <3>2. Arrives(k, sheet[k])
      BY <2>2, <3>1 DEF IInv, ArrivesTrue
    <3> QED
      BY <1>1, <2>2, <3>2 DEF Arrives
  <2> QED
    BY <2>1, <2>2
<1> QED
  BY <1>2, <1>4, <1>5 DEF IInv

LEMMA sendFullStateIInv ==
    ASSUME IInv, sendFullState
    PROVE  IInv'
<1>1. /\ link = "dumped" /\ link' = "synced" /\ toReplica' = Append(toReplica, FullState(dumped))
      /\ dumped' = NoData
      /\ UNCHANGED <<sheet, todo, copy, loading, writes, breaks, doubtful>>
  BY DEF sendFullState
<1>2. /\ dumped \in Data /\ toReplica \in Seq(Messages) /\ FullState(dumped) \in Messages
      /\ \A k : About(FullState(dumped), k) <=> dumped[k] # None
      /\ \A k : Says(FullState(dumped), k) = dumped[k]
  BY MessagesMade DEF IInv, Typed
<1>3. Typed' /\ Bounded'
  <2>1. toReplica' \in Seq(Messages)
    BY <1>1, <1>2
  <2> QED
    BY <1>1, <2>1, FitsNoData DEF IInv, Typed, Bounded, Fits
<1>4. PendingTrue' /\ Pending' = Pending
  BY <1>1, PendingKept DEF IInv
<1>5. ArrivesTrue'
  <2> SUFFICES ASSUME NEW k \in Keys \ doubtful, k \notin Pending
               PROVE  Arrives(k, sheet[k])'
    BY <1>1, <1>4 DEF ArrivesTrue
  <2>1. Arrives(k, sheet[k])
    BY <1>1 DEF IInv, ArrivesTrue
  <2>2. CASE dumped[k] # None
    <3>1. dumped[k] = sheet[k]
      BY <1>1, <2>1, <2>2 DEF Arrives
    <3>2. About(FullState(dumped), k) /\ Says(FullState(dumped), k) = dumped[k]
      BY <1>2, <2>2
    <3>3. /\ Among(Append(toReplica, FullState(dumped)), k)
          /\ LastWord(Append(toReplica, FullState(dumped)), k, Says(FullState(dumped), k))
      BY <1>2, <3>2, SendFacts
    <3>4. Among(toReplica', k) /\ LastWord(toReplica', k, dumped[k])
      BY <1>1, <3>2, <3>3
    <3> QED
      BY <1>1, <3>1, <3>4 DEF Arrives
  <2>3. CASE dumped[k] = None
    <3>1. /\ Among(toReplica', k) <=> Among(toReplica, k)
          /\ LastWord(toReplica, k, sheet[k]) => LastWord(toReplica', k, sheet[k])
      BY <1>1, <1>2, <2>3, SendFacts
    <3> QED
      BY <1>1, <2>1, <2>3, <3>1 DEF Arrives
  <2> QED
    BY <2>2, <2>3
<1> QED
  BY <1>3, <1>4, <1>5 DEF IInv

\* Of a key that the sheet has not, only a removal that is lost can leave the
\* replica with a value.
LEMMA BreakIInv ==
    ASSUME IInv, Break
    PROVE  IInv'
<1>1. /\ breaks < MaxBreaks /\ breaks' = breaks + 1 /\ link' = "down" /\ dumped' = NoData
      /\ toReplica' = <<>>
      /\ UNCHANGED <<sheet, todo, copy, loading, writes>>
  BY DEF Break
<1>2. doubtful' = doubtful \cup
        UNION {toReplica[i].keys : i \in {j \in DOMAIN toReplica : toReplica[j].type = "remove"}}
  BY DEF Break
<1>3. toReplica \in Seq(Messages) /\ \A i \in DOMAIN toReplica : toReplica[i] \in Messages
  BY DEF IInv, Typed
<1>4. /\ doubtful \subseteq doubtful'
      /\ \A i \in DOMAIN toReplica : toReplica[i].type = "remove" => toReplica[i].keys \subseteq doubtful'
  BY <1>2
<1>5. doubtful' \subseteq Keys
  <2>1. \A i \in DOMAIN toReplica : toReplica[i].type = "remove" => toReplica[i].keys \subseteq Keys
    BY <1>3, MessageFacts, NoticeFacts
  <2> QED
    BY <1>2, <2>1 DEF IInv, Typed
<1>6. Typed' /\ Bounded'
  <2>1. breaks' \in 0 .. MaxBreaks
    BY <1>1, ParametersAssumption DEF IInv, Typed
  <2>2. toReplica' \in Seq(Messages)
    BY <1>1
  <2>3. Typed'
    BY <1>1, <1>5, <2>1, <2>2, FitsNoData DEF IInv, Typed
  <2>4. Bounded'
    BY <1>1 DEF IInv, Bounded, Fits
  <2> QED
    BY <2>3, <2>4
<1>7. PendingTrue' /\ Pending' = Pending
  BY <1>1, <1>4, PendingKept DEF IInv
<1>8. ArrivesTrue'
  <2> SUFFICES ASSUME NEW k \in Keys \ doubtful', k \notin Pending, sheet[k] = None
               PROVE  Arrives(k, sheet[k])'
    BY <1>1, <1>7 DEF ArrivesTrue
  <2>1. k \notin doubtful /\ Arrives(k, None)
    BY <1>4 DEF IInv, ArrivesTrue
  <2>2. ~LastWord(toReplica, k, None)
    <3> SUFFICES ASSUME NEW i \in DOMAIN toReplica, About(toReplica[i], k),
                        Says(toReplica[i], k) = None
                 PROVE  FALSE
      BY DEF LastWord
    <3>1. toReplica[i] \in Notices
      BY <1>3, MessageFacts DEF About, Says
    <3>2. k \in toReplica[i].keys /\ toReplica[i].type = "remove"
      BY <3>1, NoticeFacts, ParametersAssumption
    <3> QED
      BY <1>4, <3>2
  <2>3. loading[k] = None /\ copy[k] = None
    BY <2>1, <2>2 DEF Arrives
  <2> QED
    BY <1>1, <2>3, NothingAmong DEF Arrives
<1> QED
  BY <1>6, <1>7, <1>8 DEF IInv

-----------------------------------------------------------------------------
(* The replica. *)

\* A value that the replica sets is there; what its cache evicts is in doubt.
LEMMA applySetFacts ==
    ASSUME IInv, NEW k \in Keys, NEW v \in Values, applySet(k, v)
    PROVE  /\ copy' \in Data /\ Fits(copy)'
           /\ doubtful \subseteq doubtful' /\ doubtful' \subseteq Keys
           /\ \A x \in Keys \ doubtful' : copy'[x] = IF x = k THEN v ELSE copy[x]
<1>0. copy \in Data /\ Fits(copy) /\ doubtful \subseteq Keys /\ copy \in [Keys -> Values \cup {None}]
  BY DEF IInv, Typed, Bounded, Data
<1>1. ASSUME Evictable(copy, k) = {}, copy' = [copy EXCEPT ![k] = v], UNCHANGED doubtful
      PROVE  /\ copy' \in Data /\ Fits(copy')
             /\ doubtful \subseteq doubtful' /\ doubtful' \subseteq Keys
             /\ \A x \in Keys \ doubtful' : copy'[x] = IF x = k THEN v ELSE copy[x]
  <2>1. copy' \in Data /\ Fits(copy')
    BY <1>0, <1>1, FitsPut
  <2>2. \A x \in Keys : copy'[x] = IF x = k THEN v ELSE copy[x]
    BY <1>0, <1>1
  <2> QED
    BY <1>0, <1>1, <2>1, <2>2
<1>2. ASSUME NEW old \in Evictable(copy, k), copy' = [copy EXCEPT ![old] = None, ![k] = v],
             doubtful' = doubtful \cup {old}
      PROVE  /\ copy' \in Data /\ Fits(copy')
             /\ doubtful \subseteq doubtful' /\ doubtful' \subseteq Keys
             /\ \A x \in Keys \ doubtful' : copy'[x] = IF x = k THEN v ELSE copy[x]
  <2>1. copy' \in Data /\ Fits(copy') /\ old \in Keys
    BY <1>0, <1>2, FitsEvict
  <2>2. \A x \in Keys \ {old} : copy'[x] = IF x = k THEN v ELSE copy[x]
    BY <1>0, <1>2
  <2> QED
    BY <1>0, <1>2, <2>1, <2>2
<1> QED
  BY <1>1, <1>2 DEF applySet, Fits

LEMMA ReceiveIInv ==
    ASSUME IInv, Receive
    PROVE  IInv'
<1> DEFINE msg == Head(toReplica)
<1>1. /\ toReplica # <<>> /\ loading = NoData /\ toReplica' = Tail(toReplica)
      /\ UNCHANGED <<sheet, todo, link, dumped, writes, breaks>>
  BY DEF Receive
<1>2. \/ /\ msg.type = "replicate" /\ loading' = loading
         /\ \E k \in msg.keys : applySet(k, msg.data)
      \/ /\ msg.type = "remove" /\ UNCHANGED <<loading, doubtful>>
         /\ copy' = Without(copy, msg.keys)
      \/ /\ msg.type = "full_state" /\ UNCHANGED <<copy, doubtful>>
         /\ loading' = msg.data
  BY DEF Receive
<1>3. /\ toReplica \in Seq(Messages) /\ msg \in Messages /\ toReplica' \in Seq(Messages)
      /\ \A k : /\ Among(toReplica, k) <=> About(msg, k) \/ Among(toReplica', k)
                /\ Among(toReplica', k) => \A v : LastWord(toReplica, k, v) => LastWord(toReplica', k, v)
                /\ ~Among(toReplica', k) => \A v : LastWord(toReplica, k, v) => Says(msg, k) = v
  <2>1. toReplica \in Seq(Messages)
    BY DEF IInv, Typed
  <2> QED
    BY <1>1, <2>1, ReceiveFacts
<1> HIDE DEF msg
<1>4. \A k \in Keys : loading[k] = None
  BY <1>1 DEF NoData
\* What each message does to a key that is not in doubt.
<1>5. /\ copy' \in Data /\ Fits(copy') /\ loading' \in Data
      /\ doubtful \subseteq doubtful' /\ doubtful' \subseteq Keys
      /\ \A k \in Keys \ doubtful' :
            IF loading'[k] # None THEN About(msg, k) /\ loading'[k] = Says(msg, k)
            ELSE copy'[k] = IF About(msg, k) THEN Says(msg, k) ELSE copy[k]
  <2>0. /\ copy \in Data /\ loading \in Data /\ doubtful \subseteq Keys /\ Fits(copy)
    BY DEF IInv, Typed, Bounded
  <2>1. CASE msg.type = "replicate"
    <3>1. msg \in Notices
      BY <1>3, <2>1, MessageFacts
    <3>2. PICK k \in Keys : msg.keys = {k}
      BY <2>1, <3>1, NoticeFacts
    <3>3. msg.data \in Values /\ \A x : (About(msg, x) <=> x = k) /\ Says(msg, x) = msg.data
      BY <2>1, <3>1, <3>2, NoticeFacts
    <3>4. applySet(k, msg.data) /\ loading' = loading
      BY <1>2, <2>1, <3>2
    <3>5. /\ copy' \in Data /\ Fits(copy)'
          /\ doubtful \subseteq doubtful' /\ doubtful' \subseteq Keys
          /\ \A x \in Keys \ doubtful' : copy'[x] = IF x = k THEN msg.data ELSE copy[x]
      BY <3>3, <3>4, applySetFacts
    <3>6. Fits(copy')
      BY <3>5 DEF Fits
    <3> QED
      BY <1>4, <2>0, <3>3, <3>4, <3>5, <3>6
  <2>2. CASE msg.type = "remove"
    <3>1. msg \in Notices
      BY <1>3, <2>2, MessageFacts
    <3>2. /\ msg.keys \in SUBSET Keys
          /\ \A x : (About(msg, x) <=> x \in msg.keys) /\ Says(msg, x) = None
      BY <2>2, <3>1, NoticeFacts
    <3>3. copy' = Without(copy, msg.keys) /\ UNCHANGED <<loading, doubtful>>
      BY <1>2, <2>2
    <3>4. /\ copy' \in Data /\ Stored(copy') \subseteq Stored(copy)
          /\ \A x \in Keys : copy'[x] = IF x \in msg.keys THEN None ELSE copy[x]
      BY <2>0, <3>2, <3>3, WithoutFacts
    <3>5. Fits(copy')
      BY <2>0, <3>4, FitsSubset
    <3> QED
      BY <1>4, <2>0, <3>2, <3>3, <3>4, <3>5
  <2>3. CASE msg.type = "full_state"
    <3>1. msg.data \in Data
      BY <1>3, <2>3, MessageFacts, NoticeFacts
    <3>2. loading' = msg.data /\ UNCHANGED <<copy, doubtful>>
      BY <1>2, <2>3
    <3>3. \A x : (About(msg, x) <=> msg.data[x] # None) /\ Says(msg, x) = msg.data[x]
      BY <2>3 DEF About, Says
    <3> QED
      BY <2>0, <3>1, <3>2, <3>3
  <2> QED
    BY <1>2, <2>1, <2>2, <2>3
<1>6. Typed'
  BY <1>1, <1>3, <1>5 DEF IInv, Typed
<1>7. Bounded'
  BY <1>1, <1>5 DEF IInv, Bounded, Fits
<1>8. PendingTrue' /\ Pending' = Pending
  BY <1>1, <1>5, PendingKept DEF IInv
<1>9. ArrivesTrue'
  <2> SUFFICES ASSUME NEW k \in Keys \ doubtful', k \notin Pending,
                      link \in {"dumped", "synced"} \/ sheet[k] = None
               PROVE  Arrives(k, sheet[k])'
    BY <1>1, <1>8 DEF ArrivesTrue
  <2>1. Arrives(k, sheet[k])
    BY <1>5 DEF IInv, ArrivesTrue
  <2>2. CASE Among(toReplica', k)
    <3>1. Among(toReplica, k)
      BY <1>3, <2>2
    <3>2. LastWord(toReplica, k, sheet[k]) => LastWord(toReplica', k, sheet[k])
      BY <1>3, <2>2
    <3> QED
      BY <1>1, <2>1, <2>2, <3>1, <3>2 DEF Arrives
  <2>3. CASE ~Among(toReplica', k)
    <3>1. LastWord(toReplica, k, sheet[k]) => Says(msg, k) = sheet[k]
      BY <1>3, <2>3
    <3>2. Among(toReplica, k) <=> About(msg, k)
      BY <1>3, <2>3
    <3>3. IF loading'[k] # None THEN About(msg, k) /\ loading'[k] = Says(msg, k)
          ELSE copy'[k] = IF About(msg, k) THEN Says(msg, k) ELSE copy[k]
      BY <1>5
    <3> QED
      BY <1>1, <1>4, <2>1, <2>3, <3>1, <3>2, <3>3 DEF Arrives
  <2> QED
    BY <2>2, <2>3
<1> QED
  BY <1>6, <1>7, <1>8, <1>9 DEF IInv

LEMMA applyFullStateIInv ==
    ASSUME IInv, NEW k \in Keys, applyFullState(k)
    PROVE  IInv'
<1>1. /\ k \in Stored(loading) /\ applySet(k, loading[k]) /\ loading' = Without(loading, {k})
      /\ UNCHANGED <<sheet, todo, link, dumped, toReplica, writes, breaks>>
  BY DEF applyFullState
<1>2. loading[k] \in Values /\ loading[k] # None /\ loading \in Data
  BY <1>1 DEF IInv, Typed, Data, Stored
<1>3. /\ copy' \in Data /\ Fits(copy)'
      /\ doubtful \subseteq doubtful' /\ doubtful' \subseteq Keys
      /\ \A x \in Keys \ doubtful' : copy'[x] = IF x = k THEN loading[k] ELSE copy[x]
  BY <1>1, <1>2, applySetFacts
<1>4. /\ loading' \in Data
      /\ \A x \in Keys : loading'[x] = IF x = k THEN None ELSE loading[x]
  BY <1>1, <1>2, WithoutFacts
<1>5. Typed'
  BY <1>1, <1>3, <1>4 DEF IInv, Typed
<1>6. Bounded'
  BY <1>1, <1>3 DEF IInv, Bounded, Fits
<1>7. PendingTrue' /\ Pending' = Pending
  BY <1>1, <1>3, PendingKept DEF IInv
<1>8. ArrivesTrue'
  <2> SUFFICES ASSUME NEW x \in Keys \ doubtful', x \notin Pending,
                      link \in {"dumped", "synced"} \/ sheet[x] = None
               PROVE  Arrives(x, sheet[x])'
    BY <1>1, <1>7 DEF ArrivesTrue
  <2>1. Arrives(x, sheet[x])
    BY <1>3 DEF IInv, ArrivesTrue
  <2>2. loading'[x] = (IF x = k THEN None ELSE loading[x])
        /\ copy'[x] = (IF x = k THEN loading[k] ELSE copy[x])
    BY <1>3, <1>4
  <2> QED
    BY <1>1, <1>2, <2>1, <2>2 DEF Arrives
<1> QED
  BY <1>5, <1>6, <1>7, <1>8 DEF IInv

-----------------------------------------------------------------------------
LEMMA StutterIInv ==
    ASSUME IInv, UNCHANGED vars
    PROVE  IInv'
<1> USE DEF vars
<1>1. Typed' /\ Bounded'
  BY DEF IInv, Typed, Bounded, Fits
<1>2. PendingTrue' /\ Pending' = Pending
  BY PendingKept DEF IInv
<1>3. ArrivesTrue'
  BY <1>2 DEF IInv, ArrivesTrue, Arrives
<1> QED
  BY <1>1, <1>2, <1>3 DEF IInv

LEMMA NextIInv ==
    ASSUME IInv, [Next]_vars
    PROVE  IInv'
<1>1. ASSUME NEW w \in Writers, broadcastToReplicas(w)
      PROVE  IInv'
  BY <1>1, broadcastToReplicasIInv
<1>2. CASE handleRegisterReplica
  BY <1>2, handleRegisterReplicaIInv
<1>3. CASE Dump
  BY <1>3, DumpIInv
<1>4. CASE sendFullState
  BY <1>4, sendFullStateIInv
<1>5. CASE Receive
  BY <1>5, ReceiveIInv
<1>6. ASSUME NEW k \in Keys, applyFullState(k)
      PROVE  IInv'
  BY <1>6, applyFullStateIInv
<1>7. ASSUME NEW w \in Writers, NEW k \in Keys, NEW v \in Values, handleSet(w, k, v)
      PROVE  IInv'
  BY <1>7, handleSetIInv
<1>8. ASSUME NEW w \in Writers, NEW S \in Families \cup {{k} : k \in Keys}, handleDelete(w, S)
      PROVE  IInv'
  <2>1. S \in SUBSET Keys
    BY ParametersAssumption
  <2> QED
    BY <1>8, <2>1, handleDeleteIInv
<1>9. CASE LoseSheet
  BY <1>9, LoseSheetIInv
<1>10. CASE Break
  BY <1>10, BreakIInv
<1>11. CASE Connect
  BY <1>11, ConnectIInv
<1>12. ASSUME NEW k \in Keys, Expire(k)
       PROVE  IInv'
  BY <1>12, ExpireIInv
<1>13. CASE UNCHANGED vars
  BY <1>13, StutterIInv
<1> QED
  BY <1>1, <1>2, <1>3, <1>4, <1>5, <1>6, <1>7, <1>8, <1>9, <1>10, <1>11, <1>12, <1>13
  DEF Next, Proceed

\* What handlers have yet to write of a key that is not in doubt is what the
\* sheet has, and when they have nothing to write of it, what has arrived and
\* what is on its way to the replica leave it with what the sheet has.
THEOREM Invariance == Spec => []IInv
<1>1. IInv /\ [Next]_vars => IInv'
  BY NextIInv
<1> QED
  BY InitIInv, <1>1, PTL DEF Spec

\* Every variable of the leader and of the replica keeps its type, and neither
\* cache ever holds more than its capacity.
THEOREM TypeCorrect == Spec => []TypeOK
<1>1. IInv => TypeOK
  BY DEF IInv, Typed, Bounded, Fits, TypeOK
<1> QED
  BY Invariance, <1>1, PTL

\* When nothing is on its way, the replica that sendFullState and
\* broadcastToReplicas have told has for every key what the leader has, but for
\* the keys of which it was not told, or not in order.
THEOREM ReplicaAgrees == Spec => []ReplicaDiffersOnlyInDoubt
<1>1. IInv => ReplicaDiffersOnlyInDoubt
  <2> SUFFICES ASSUME IInv, Settled, NEW k \in Keys \ doubtful
               PROVE  copy[k] = sheet[k]
    BY DEF ReplicaDiffersOnlyInDoubt
  <2>1. k \notin Pending
    BY PendingFacts DEF Settled
  <2>2. Arrives(k, sheet[k]) /\ link = "synced" /\ toReplica = <<>> /\ loading[k] = None
    BY <2>1 DEF IInv, ArrivesTrue, Settled, NoData
  <2> QED
    BY <2>2, NothingAmong DEF Arrives
<1> QED
  BY Invariance, <1>1, PTL
=============================================================================
