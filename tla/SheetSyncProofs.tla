--------------------------- MODULE SheetSyncProofs ---------------------------
(***************************************************************************)
(* Proofs about SheetSync, for any number of Readers, keys, values and     *)
(* requests, any capacity and any buffers: with one writer, a Reader at    *)
(* rest has what the sheet has, but for the keys changed silently.         *)
(***************************************************************************)
EXTENDS SheetSync, SequenceTheorems, TLAPS

SoleWriter == \A a, b \in Writers : a = b

Notices == {Replicate(k, v) : k \in Keys, v \in Values} \cup {Invalidate(S) : S \in SUBSET Keys}
Messages == Notices \cup {Success} \cup {SheetState(data) : data \in Data}

TypedServer ==
    /\ sheet \in Data
    /\ collaborators \subseteq Readers
    /\ serving \in [Readers -> {"waiting", "dialed", "joined", "answered", "dumped", "open"}]
    /\ dumped \in [Readers -> Data]
    /\ todo \in [Readers -> Seq(Notices \cup {Success})]
    /\ targets \in [Readers -> SUBSET Readers]
    /\ silent \in [Readers -> SUBSET Keys]

TypedReaders ==
    /\ phase \in [Readers -> {"new", "unauthenticated", "authenticated", "connected"}]
    /\ cache \in [Readers -> Data]
    /\ sending \in [Readers -> AnyRequest \cup {None}]
    /\ toServer \in [Readers -> Seq(AnyRequest)]
    /\ toReader \in [Readers -> Seq(Messages)]
    /\ writes \in 0 .. MaxWrites

\* A broadcast under way is one of the message at the head, to collaborators
\* other than the sender.
Broadcasting ==
    \A r \in Readers :
        /\ targets[r] \subseteq collaborators \ {r}
        /\ targets[r] # {} => todo[r] # <<>> /\ Head(todo[r]) # Success

Typed == TypedServer /\ TypedReaders /\ Broadcasting

-----------------------------------------------------------------------------
(* Queues: none of the elements in T; the last of them is in G; at most one; *)
(* one in A and a later one in B.                                            *)

Nothing(q, T) == \A i \in DOMAIN q : q[i] \notin T
Last(q, T, G) ==
    \A i \in DOMAIN q : q[i] \in T /\ (\A j \in DOMAIN q : j > i => q[j] \notin T) => q[i] \in G
AtMostOnce(q, T) == \A i, j \in DOMAIN q : q[i] \in T /\ q[j] \in T => i = j
Before(q, A, B) == \E i, j \in DOMAIN q : i < j /\ q[i] \in A /\ q[j] \in B

States == {SheetState(data) : data \in Data}

\* The messages that tell a Reader what it has to have for k, and those that
\* tell it v.
Telling(k) == {m \in Messages : m \in States \/ k \in m.keys}
Tells(m, k) == IF m \in States THEN m.value[k] ELSE m.value
Saying(k, v) == {m \in Messages : Tells(m, k) = v}

\* What a Reader has sent or is about to send.
Outgoing(r) == IF sending[r] = None THEN toServer[r] ELSE Append(toServer[r], sending[r])

Asking(k) == {req \in AnyRequest : k \in req.keys}
Granting(v) == {req \in AnyRequest : req.kind = "set_null" \/ req.value = v}

\* What handler r has yet to write to Reader t.
Rest(r, t) == IF targets[r] = {} \/ t \in targets[r] THEN todo[r] ELSE Tail(todo[r])
Unwritten(t) ==
    UNION {UNION {m.keys : m \in Range(Rest(r, t))} : r \in Readers \ {t}}

\* What Reader t has for k when all that is on its way has arrived.
Arrives(t, k, v) ==
    IF serving[t] = "dumped" THEN dumped[t][k] = v
    ELSE /\ Last(toReader[t], Telling(k), Saying(k, v))
         /\ Nothing(toReader[t], Telling(k)) => cache[t][k] = v

\* Who does not write has nothing to be handled, and who is not connected has
\* nothing sent.
Idle ==
    /\ \A r \in Readers \ Writers : todo[r] = <<>>
    /\ \A r \in Readers : r \notin Writers \/ phase[r] # "connected" =>
          sending[r] = None /\ toServer[r] = <<>>

\* No broadcast comes to the only one who writes.
Unaddressed == \A r \in Writers : Nothing(toReader[r], Notices)

\* connectTo waits for nothing in vain: the state of its open is on its way,
\* after the response, and comes once.
Opens(t) ==
    LET q == toReader[t] IN
    /\ phase[t] = "new" => serving[t] = "waiting"
    /\ phase[t] = "connected" => serving[t] = "open"
    /\ serving[t] \in {"joined", "answered", "dumped", "open"} => t \in collaborators
    /\ AtMostOnce(q, States)
    /\ serving[t] # "open" \/ phase[t] = "connected" => Nothing(q, States)
    /\ phase[t] = "unauthenticated" =>
          /\ serving[t] \in {"answered", "dumped"} => ~Nothing(q, {Success})
          /\ serving[t] = "open" => Before(q, {Success}, States)
    /\ phase[t] = "authenticated" /\ serving[t] = "open" => ~Nothing(q, States)

Opening == \A t \in Readers : Opens(t)

\* What handlers have yet to write is what the sheet has.
PendingTrue ==
    \A r, t \in Readers : \A k \in Keys \ silent[t], m \in Range(todo[r]) :
        k \in m.keys => m.value = sheet[k]

\* The last request of a key, but for a set_null, asks for what its Reader has.
RequestsTrue ==
    \A r \in Readers, k \in Keys : Last(Outgoing(r), Asking(k), Granting(cache[r][k]))

\* When nothing is to be written or handled of a key, what the sheet has arrives.
ArrivesTrue ==
    \A t \in Readers : \A k \in Keys \ silent[t] :
        serving[t] \in {"dumped", "open"} /\ k \notin Unwritten(t) /\ Nothing(Outgoing(t), Asking(k))
            => Arrives(t, k, sheet[k])

IInv ==
    /\ Typed
    /\ Idle
    /\ Unaddressed
    /\ Opening
    /\ PendingTrue
    /\ RequestsTrue
    /\ ArrivesTrue

-----------------------------------------------------------------------------
(* Messages and requests. *)

LEMMA MessagesMade ==
    /\ \A k \in Keys, v \in Values :
          /\ Replicate(k, v).type = "replicate"
          /\ Replicate(k, v).keys = {k} /\ Replicate(k, v).value = v
    /\ \A S \in SUBSET Keys :
          /\ Invalidate(S).type = "invalidate"
          /\ Invalidate(S).keys = S /\ Invalidate(S).value = None
    /\ \A data \in Data :
          /\ SheetState(data).type = "sheet_state"
          /\ SheetState(data).keys = {} /\ SheetState(data).value = data
    /\ Success.type = "response" /\ Success.keys = {}
<1>1. ASSUME NEW k \in Keys, NEW v \in Values
      PROVE  /\ Replicate(k, v).type = "replicate"
             /\ Replicate(k, v).keys = {k} /\ Replicate(k, v).value = v
  BY DEF Replicate
<1>2. ASSUME NEW S \in SUBSET Keys
      PROVE  /\ Invalidate(S).type = "invalidate"
             /\ Invalidate(S).keys = S /\ Invalidate(S).value = None
  BY DEF Invalidate
<1>3. ASSUME NEW data \in Data
      PROVE  /\ SheetState(data).type = "sheet_state"
             /\ SheetState(data).keys = {} /\ SheetState(data).value = data
  BY DEF SheetState
<1>4. Success.type = "response" /\ Success.keys = {}
  BY DEF Success
<1> QED
  BY <1>1, <1>2, <1>3, <1>4

LEMMA NoticesMade ==
    /\ \A k \in Keys, v \in Values : Replicate(k, v) \in Notices
    /\ \A S \in SUBSET Keys : Invalidate(S) \in Notices
    /\ \A data \in Data : SheetState(data) \in States
    /\ Notices \subseteq Messages /\ States \subseteq Messages /\ Success \in Messages
BY DEF Notices, States, Messages

LEMMA NoticeFacts ==
    ASSUME NEW m \in Notices
    PROVE  /\ m.type \in {"replicate", "invalidate"} /\ m.keys \in SUBSET Keys
           /\ m.type = "replicate" => m.value \in Values /\ \E k \in Keys : m.keys = {k}
           /\ m.type = "invalidate" => m.value = None
<1>1. CASE \E k \in Keys, v \in Values : m = Replicate(k, v)
  BY <1>1, MessagesMade
<1>2. CASE \E S \in SUBSET Keys : m = Invalidate(S)
  BY <1>2, MessagesMade
<1> QED
  BY <1>1, <1>2 DEF Notices

LEMMA StateFacts ==
    ASSUME NEW m \in States
    PROVE  m.type = "sheet_state" /\ m.keys = {} /\ m.value \in Data
BY MessagesMade DEF States

LEMMA MessageFacts ==
    ASSUME NEW m \in Messages
    PROVE  /\ m \in Notices \/ m = Success \/ m \in States
           /\ m \in States <=> m.type = "sheet_state"
           /\ m = Success <=> m.type = "response"
           /\ m \in Notices <=> m.type \in {"replicate", "invalidate"}
           /\ m \in States => m.value \in Data /\ m.keys = {}
           /\ m.keys \in SUBSET Keys
<1>1. m \in Notices \/ m = Success \/ m \in States
  BY DEF Messages, States
<1>2. Success.type = "response" /\ Success.keys = {}
  BY MessagesMade
<1>3. CASE m \in Notices
  BY <1>2, <1>3, NoticeFacts, StateFacts
<1>4. CASE m = Success
  BY <1>2, <1>4, NoticeFacts, StateFacts
<1>5. CASE m \in States
  BY <1>2, <1>5, NoticeFacts, StateFacts
<1> QED
  BY <1>1, <1>3, <1>4, <1>5

LEMMA TellingFacts ==
    ASSUME NEW m \in Messages, NEW k, NEW v
    PROVE  /\ m \in Telling(k) <=> m \in States \/ k \in m.keys
           /\ m \in Saying(k, v) <=> Tells(m, k) = v
BY DEF Telling, Saying

LEMMA RequestFacts ==
    ASSUME NEW req \in AnyRequest
    PROVE  /\ req.kind \in {"set", "set_null", "delete", "delete_prefix", "clear"}
           /\ req.keys \in SUBSET Keys
           /\ req.kind = "set" => req.value \in Values
           /\ req.kind # "set" => req.value = None
           /\ req.kind \in {"set", "set_null"} => \E k \in Keys : req.keys = {k}
BY ParametersAssumption DEF AnyRequest, Request

-----------------------------------------------------------------------------
(* Queues. *)

\* An element more at the end.
LEMMA SendFacts ==
    ASSUME NEW M, NEW q \in Seq(M), NEW m \in M, NEW T
    PROVE  /\ Append(q, m) \in Seq(M) /\ Append(q, m) # <<>>
           /\ Range(Append(q, m)) = Range(q) \cup {m}
           /\ Nothing(Append(q, m), T) <=> Nothing(q, T) /\ m \notin T
           /\ m \in T => \A G : m \in G => Last(Append(q, m), T, G)
           /\ m \notin T => \A G : Last(q, T, G) => Last(Append(q, m), T, G)
<1> DEFINE r == Append(q, m)
           n == Len(q) + 1
<1>1. /\ r \in Seq(M) /\ r # <<>>
      /\ DOMAIN r = 1 .. n /\ r[n] = m /\ n \in DOMAIN r /\ n \notin DOMAIN q
      /\ \A i \in DOMAIN q : i \in DOMAIN r /\ r[i] = q[i] /\ n > i
      /\ \A i \in DOMAIN r : i = n \/ i \in DOMAIN q
      /\ \A i \in DOMAIN r : ~(i > n)
  OBVIOUS
<1> HIDE DEF r, n
<1>2. Nothing(r, T) <=> Nothing(q, T) /\ m \notin T
  BY <1>1 DEF Nothing
<1>3. ASSUME m \in T, NEW G, m \in G
      PROVE  Last(r, T, G)
  BY <1>1, <1>3 DEF Last
<1>4. ASSUME m \notin T, NEW G, Last(q, T, G)
      PROVE  Last(r, T, G)
  BY <1>1, <1>4 DEF Last
<1>5. Range(r) = Range(q) \cup {m}
  BY <1>1 DEF Range
<1> QED
  BY <1>1, <1>2, <1>3, <1>4, <1>5 DEF r

\* An element fewer at the front.
LEMMA ReceiveFacts ==
    ASSUME NEW M, NEW q \in Seq(M), q # <<>>, NEW T
    PROVE  /\ Head(q) \in M /\ Tail(q) \in Seq(M)
           /\ Range(q) = {Head(q)} \cup Range(Tail(q))
           /\ Nothing(q, T) <=> Head(q) \notin T /\ Nothing(Tail(q), T)
           /\ \A G : Last(q, T, G) => Last(Tail(q), T, G)
           /\ Nothing(Tail(q), T) /\ Head(q) \in T => \A G : Last(q, T, G) => Head(q) \in G
<1> DEFINE r == Tail(q)
<1>1. /\ Head(q) \in M /\ r \in Seq(M)
      /\ Len(q) \in Nat /\ Len(q) > 0 /\ DOMAIN q = 1 .. Len(q) /\ DOMAIN r = 1 .. Len(q) - 1
      /\ Head(q) = q[1] /\ 1 \in DOMAIN q
      /\ \A i \in DOMAIN r : i \in Nat /\ i + 1 \in DOMAIN q /\ r[i] = q[i + 1]
  OBVIOUS
<1>2. \A i \in DOMAIN q : i = 1 \/ (i > 1 /\ i - 1 \in DOMAIN r /\ q[i] = r[i - 1])
  BY <1>1
<1> HIDE DEF r
<1>3. Nothing(q, T) <=> Head(q) \notin T /\ Nothing(r, T)
  BY <1>1, <1>2 DEF Nothing
<1>4. Range(q) = {Head(q)} \cup Range(r)
  BY <1>1, <1>2 DEF Range
<1>5. ASSUME NEW G, Last(q, T, G)
      PROVE  Last(r, T, G)
  <2> SUFFICES ASSUME NEW i \in DOMAIN r, r[i] \in T,
                      \A j \in DOMAIN r : j > i => r[j] \notin T
               PROVE  r[i] \in G
    BY DEF Last
  <2>1. i + 1 \in DOMAIN q /\ q[i + 1] = r[i]
    BY <1>1
  <2>2. ASSUME NEW j \in DOMAIN q, j > i + 1
        PROVE  q[j] \notin T
    <3>1. j # 1 /\ j - 1 > i
      BY <1>1, <2>2
    <3>2. j - 1 \in DOMAIN r /\ q[j] = r[j - 1]
      BY <1>2, <3>1
    <3> QED
      BY <3>1, <3>2
  <2> QED
    BY <1>5, <2>1, <2>2 DEF Last
<1>6. ASSUME Nothing(r, T), Head(q) \in T, NEW G, Last(q, T, G)
      PROVE  Head(q) \in G
  <2>1. \A j \in DOMAIN q : j > 1 => q[j] \notin T
    BY <1>2, <1>6 DEF Nothing
  <2> QED
    BY <1>1, <1>6, <2>1 DEF Last
<1> QED
  BY <1>1, <1>3, <1>4, <1>5, <1>6 DEF r

LEMMA ConcatFacts ==
    ASSUME NEW M, NEW p \in Seq(M), NEW q \in Seq(M)
    PROVE  p \o q \in Seq(M) /\ Range(p \o q) = Range(p) \cup Range(q)
<1> DEFINE r == p \o q
<1>1. /\ Len(p) \in Nat /\ DOMAIN p = 1 .. Len(p)
      /\ Len(q) \in Nat /\ DOMAIN q = 1 .. Len(q)
  OBVIOUS
<1>2. /\ r \in Seq(M) /\ Len(r) = Len(p) + Len(q)
      /\ \A i \in 1 .. Len(p) + Len(q) : r[i] = IF i <= Len(p) THEN p[i] ELSE q[i - Len(p)]
  BY ConcatProperties
<1>3. DOMAIN r = 1 .. Len(p) + Len(q)
  BY <1>2, LenProperties
<1> HIDE DEF r
<1>4. \A i \in DOMAIN r : (i \in DOMAIN p /\ r[i] = p[i])
                          \/ (i - Len(p) \in DOMAIN q /\ r[i] = q[i - Len(p)])
  BY <1>1, <1>2, <1>3
<1>5. \A i \in DOMAIN p : i \in DOMAIN r /\ r[i] = p[i]
  BY <1>1, <1>2, <1>3
<1>6. \A i \in DOMAIN q : i + Len(p) \in DOMAIN r /\ r[i + Len(p)] = q[i]
  BY <1>1, <1>2, <1>3
<1>7. Range(r) = Range(p) \cup Range(q)
  BY <1>4, <1>5, <1>6 DEF Range
<1> QED
  BY <1>2, <1>7 DEF r

LEMMA SingleFacts ==
    ASSUME NEW M, NEW m \in M
    PROVE  <<m>> \in Seq(M) /\ Range(<<m>>) = {m} /\ <<>> \in Seq(M) /\ Range(<<>>) = {}
BY DEF Range

\* An element more at the front.
LEMMA ConsFacts ==
    ASSUME NEW M, NEW m \in M, NEW q \in Seq(M)
    PROVE  /\ <<m>> \o q \in Seq(M) /\ <<m>> \o q # <<>>
           /\ Head(<<m>> \o q) = m
           /\ Range(<<m>> \o q) = {m} \cup Range(q)
<1> DEFINE x == <<m>>
<1>1. x \in Seq(M) /\ Len(x) = 1 /\ x[1] = m /\ Range(x) = {m}
  BY SingleFacts
<1> HIDE DEF x
<1>2. /\ x \o q \in Seq(M) /\ Range(x \o q) = {m} \cup Range(q)
      /\ Len(x \o q) = 1 + Len(q) /\ (x \o q)[1] = m
  <2>1. Range(x \o q) = Range(x) \cup Range(q)
    BY <1>1, ConcatFacts
  <2>2. x \o q \in Seq(M)
    BY <1>1, ConcatFacts
  <2>3. /\ Len(x \o q) = Len(x) + Len(q)
        /\ \A i \in 1 .. Len(x) + Len(q) : (x \o q)[i] = IF i <= Len(x) THEN x[i] ELSE q[i - Len(x)]
    BY <1>1, ConcatProperties
  <2>4. Len(q) \in Nat /\ 1 \in 1 .. 1 + Len(q)
    OBVIOUS
  <2> QED
    BY <1>1, <2>1, <2>2, <2>3, <2>4
<1>3. x \o q # <<>> /\ Head(x \o q) = (x \o q)[1]
  BY <1>2
<1> QED
  BY <1>2, <1>3 DEF x

\* The order of what is in a queue.
LEMMA SendOrder ==
    ASSUME NEW M, NEW q \in Seq(M), NEW m \in M, NEW A, NEW B
    PROVE  /\ AtMostOnce(q, B) /\ (m \notin B \/ Nothing(q, B)) => AtMostOnce(Append(q, m), B)
           /\ Before(q, A, B) => Before(Append(q, m), A, B)
           /\ ~Nothing(q, A) /\ m \in B => Before(Append(q, m), A, B)
<1> DEFINE r == Append(q, m)
           n == Len(q) + 1
<1>1. /\ r[n] = m /\ n \in DOMAIN r
      /\ \A i \in DOMAIN q : i \in DOMAIN r /\ r[i] = q[i] /\ i < n
      /\ \A i \in DOMAIN r : i = n \/ i \in DOMAIN q
  OBVIOUS
<1> HIDE DEF r, n
<1>2. AtMostOnce(q, B) /\ (m \notin B \/ Nothing(q, B)) => AtMostOnce(r, B)
  BY <1>1 DEF AtMostOnce, Nothing
<1>3. Before(q, A, B) => Before(r, A, B)
  BY <1>1 DEF Before
<1>4. ~Nothing(q, A) /\ m \in B => Before(r, A, B)
  BY <1>1 DEF Before, Nothing
<1> QED
  BY <1>2, <1>3, <1>4 DEF r

LEMMA ReceiveOrder ==
    ASSUME NEW M, NEW q \in Seq(M), q # <<>>, NEW A, NEW B
    PROVE  /\ AtMostOnce(q, B) => AtMostOnce(Tail(q), B) /\ (Head(q) \in B => Nothing(Tail(q), B))
           /\ Before(q, A, B) => /\ ~Nothing(Tail(q), B)
                                 /\ Head(q) \notin A => Before(Tail(q), A, B)
<1> DEFINE r == Tail(q)
<1>1. /\ Len(q) \in Nat /\ Len(q) > 0 /\ DOMAIN q = 1 .. Len(q) /\ DOMAIN r = 1 .. Len(q) - 1
      /\ Head(q) = q[1] /\ 1 \in DOMAIN q
      /\ \A i \in DOMAIN r : i \in Nat /\ i > 0 /\ i + 1 \in DOMAIN q /\ r[i] = q[i + 1]
  OBVIOUS
<1>2. \A i \in DOMAIN q : i = 1 \/ (i > 1 /\ i - 1 \in DOMAIN r /\ q[i] = r[i - 1])
  BY <1>1
<1>3. \A i \in DOMAIN q : i \in Nat
  BY <1>1
<1> HIDE DEF r
<1>4. ASSUME AtMostOnce(q, B)
      PROVE  AtMostOnce(r, B) /\ (Head(q) \in B => Nothing(r, B))
  <2>1. AtMostOnce(r, B)
    <3> SUFFICES ASSUME NEW i \in DOMAIN r, NEW j \in DOMAIN r, r[i] \in B, r[j] \in B
                 PROVE  i = j
      BY DEF AtMostOnce
    <3>1. i + 1 = j + 1
      BY <1>1, <1>4 DEF AtMostOnce
    <3> QED
      BY <1>1, <3>1
  <2>2. Head(q) \in B => Nothing(r, B)
    <3> SUFFICES ASSUME q[1] \in B, NEW i \in DOMAIN r, r[i] \in B
                 PROVE  FALSE
      BY <1>1 DEF Nothing
    <3>1. i + 1 = 1
      BY <1>1, <1>4 DEF AtMostOnce
    <3> QED
      BY <1>1, <3>1
  <2> QED
    BY <2>1, <2>2
<1>5. ASSUME Before(q, A, B)
      PROVE  ~Nothing(r, B) /\ (Head(q) \notin A => Before(r, A, B))
  <2>1. PICK i \in DOMAIN q, j \in DOMAIN q : i < j /\ q[i] \in A /\ q[j] \in B
    BY <1>5 DEF Before
  <2>2. j - 1 \in DOMAIN r /\ r[j - 1] \in B
    <3>1. j # 1
      BY <1>2, <1>3, <2>1
    <3> QED
      BY <1>2, <2>1, <3>1
  <2>3. ASSUME Head(q) \notin A
        PROVE  i - 1 \in DOMAIN r /\ r[i - 1] \in A /\ i - 1 < j - 1
    <3>1. i # 1
      BY <1>1, <2>1, <2>3
    <3> QED
      BY <1>2, <1>3, <2>1, <3>1
  <2> QED
    BY <2>2, <2>3 DEF Nothing, Before
<1> QED
  BY <1>4, <1>5 DEF r

LEMMA EmptyFacts ==
    ASSUME NEW T, NEW G
    PROVE  Nothing(<<>>, T) /\ Last(<<>>, T, G) /\ AtMostOnce(<<>>, T) /\ Range(<<>>) = {}
BY DEF Nothing, Last, AtMostOnce, Range

-----------------------------------------------------------------------------
(* What a request does: the keys in S change, the others are told of those   *)
(* that are not quiet, and the writer itself knows what it asked for.        *)

Effect(r, req, S, msgs, quiet) ==
    /\ S \in SUBSET Keys /\ msgs \in Seq(Notices) /\ quiet \in [Readers -> SUBSET Keys]
    /\ Changed(r, S, msgs, quiet)
    /\ sheet' \in Data /\ \A k \in Keys \ S : sheet'[k] = sheet[k]
    /\ req.keys \subseteq S
    /\ \A m \in Range(msgs) : m.keys \subseteq S /\ \A k \in m.keys : m.value = sheet'[k]
    /\ \A t \in Readers \ {r} : \A k \in S \ quiet[t] : \E m \in Range(msgs) : k \in m.keys
    /\ \A k \in S \ quiet[r] : k \in req.keys /\ req.kind # "set_null" /\ sheet'[k] = req.value

LEMMA PutEffect ==
    ASSUME TypedServer, NEW r \in Readers, NEW req \in AnyRequest, NEW k \in Keys, req.keys = {k},
           NEW v \in Values \cup {NullPlaceholder}, NEW msgs \in Seq(Notices), NEW quiet \in SUBSET Keys,
           \/ req.kind = "set" /\ req.value = v /\ v \in Values /\ Range(msgs) = {Replicate(k, v)} /\ quiet = {}
           \/ req.kind = "set_null" /\ Range(msgs) = {} /\ quiet = {k},
           Put(r, k, v, msgs, quiet)
    PROVE  \E S, all, silence : Effect(r, req, S, all, silence)
<1>0. sheet \in [Keys -> Values \cup {NullPlaceholder, None}]
  BY DEF TypedServer, Data
<1>1. ASSUME Evictable(k) = {}, sheet' = [sheet EXCEPT ![k] = v],
             Changed(r, {k}, msgs, [t \in Readers |-> quiet])
      PROVE  Effect(r, req, {k}, msgs, [t \in Readers |-> quiet])
  <2>1. sheet' \in Data /\ sheet'[k] = v /\ \A x \in Keys \ {k} : sheet'[x] = sheet[x]
    BY <1>0, <1>1 DEF Data
  <2>2. \A m \in Range(msgs) : m.keys = {k} /\ m.value = v
    BY MessagesMade
  <2>3. req.kind = "set" => \E m \in Range(msgs) : k \in m.keys
    BY MessagesMade
  <2> QED
    BY <1>1, <2>1, <2>2, <2>3 DEF Effect
<1>2. ASSUME NEW old \in Evictable(k), sheet' = [sheet EXCEPT ![old] = None, ![k] = v],
             Changed(r, {k, old}, msgs \o EvictionNotice(old),
                     [t \in Readers |->
                         quiet \cup (IF t = r \/ old = EmptyKey THEN {old} ELSE {})])
      PROVE  \E S, all, silence : Effect(r, req, S, all, silence)
  <2> DEFINE all == msgs \o EvictionNotice(old)
             silence == [t \in Readers |->
                            quiet \cup (IF t = r \/ old = EmptyKey THEN {old} ELSE {})]
  <2>1. old \in Keys /\ old # k
    BY DEF Evictable, Stored
  <2>2. /\ sheet' \in Data /\ sheet'[k] = v /\ sheet'[old] = None
        /\ \A x \in Keys \ {k, old} : sheet'[x] = sheet[x]
    BY <1>0, <1>2, <2>1 DEF Data
  <2>3. /\ Invalidate({old}) \in Notices
        /\ Invalidate({old}).keys = {old} /\ Invalidate({old}).value = None
    BY <2>1, MessagesMade, NoticesMade
  <2>4. /\ EvictionNotice(old) \in Seq(Notices)
        /\ Range(EvictionNotice(old)) = IF old = EmptyKey THEN {} ELSE {Invalidate({old})}
    BY <2>3, SingleFacts DEF EvictionNotice
  <2>5. all \in Seq(Notices) /\ Range(all) = Range(msgs) \cup Range(EvictionNotice(old))
    <3> DEFINE notice == EvictionNotice(old)
    <3>1. notice \in Seq(Notices)
      BY <2>4
    <3> HIDE DEF notice
    <3>2. msgs \o notice \in Seq(Notices)
      BY <3>1
    <3>3. Range(msgs \o notice) = Range(msgs) \cup Range(notice)
      BY <3>1, ConcatFacts
    <3> QED
      BY <3>2, <3>3 DEF notice
  <2>6. /\ silence \in [Readers -> SUBSET Keys]
        /\ \A t \in Readers : silence[t] = quiet \cup (IF t = r \/ old = EmptyKey THEN {old} ELSE {})
    BY <2>1
  <2> HIDE DEF all, silence
  <2>7. \A m \in Range(msgs) : m.keys = {k} /\ m.value = v
    BY MessagesMade
  <2>8. req.kind = "set" => \E m \in Range(msgs) : k \in m.keys
    BY MessagesMade
  <2>9. \A m \in Range(all) : m.keys \subseteq {k, old} /\ \A x \in m.keys : m.value = sheet'[x]
    BY <2>2, <2>3, <2>4, <2>5, <2>7
  <2>10. ASSUME NEW t \in Readers \ {r}, NEW x \in {k, old} \ silence[t]
         PROVE  \E m \in Range(all) : x \in m.keys
    <3>1. CASE x = k
      BY <2>5, <2>6, <2>8, <3>1
    <3>2. CASE x = old
      BY <2>3, <2>4, <2>5, <2>6, <3>2
    <3> QED
      BY <3>1, <3>2
  <2>11. \A x \in {k, old} \ silence[r] :
            x \in req.keys /\ req.kind # "set_null" /\ sheet'[x] = req.value
    BY <2>1, <2>2, <2>6
  <2>12. Changed(r, {k, old}, all, silence)
    BY <1>2 DEF all, silence
  <2>13. Effect(r, req, {k, old}, all, silence)
    BY <2>1, <2>2, <2>5, <2>6, <2>9, <2>10, <2>11, <2>12 DEF Effect
  <2> QED
    BY <2>13
<1>3. \/ Evictable(k) = {} /\ sheet' = [sheet EXCEPT ![k] = v]
         /\ Changed(r, {k}, msgs, [t \in Readers |-> quiet])
      \/ \E old \in Evictable(k) :
            /\ sheet' = [sheet EXCEPT ![old] = None, ![k] = v]
            /\ Changed(r, {k, old}, msgs \o EvictionNotice(old),
                       [t \in Readers |->
                           quiet \cup (IF t = r \/ old = EmptyKey THEN {old} ELSE {})])
  BY DEF Put
<1> QED
  BY <1>1, <1>2, <1>3

LEMMA DeleteEffect ==
    ASSUME TypedServer, NEW r \in Readers, NEW req \in AnyRequest, handleDelete(r, req)
    PROVE  \E S, all, silence : Effect(r, req, S, all, silence)
<1> DEFINE told == Announced(req)
           msgs == <<Invalidate(told)>>
           silence == [t \in Readers |-> IF t = r THEN {} ELSE req.keys \ told]
<1>1. /\ req.kind \in {"delete", "delete_prefix", "clear"}
      /\ sheet' = Without(sheet, req.keys)
      /\ Changed(r, req.keys, msgs, silence)
  BY DEF handleDelete
<1>2. req.keys \in SUBSET Keys /\ req.value = None /\ told \subseteq req.keys
  BY <1>1, RequestFacts DEF Announced
<1>3. sheet' \in Data /\ \A k \in Keys : sheet'[k] = IF k \in req.keys THEN None ELSE sheet[k]
  BY <1>1 DEF Without, Data, TypedServer
<1>4. /\ Invalidate(told) \in Notices
      /\ Invalidate(told).keys = told /\ Invalidate(told).value = None
  <2>1. told \in SUBSET Keys
    BY <1>2
  <2> HIDE DEF told
  <2> QED
    BY <2>1, MessagesMade, NoticesMade
<1>5. msgs \in Seq(Notices) /\ Range(msgs) = {Invalidate(told)}
  BY <1>4, SingleFacts
<1>6. /\ silence \in [Readers -> SUBSET Keys]
      /\ \A t \in Readers : silence[t] = IF t = r THEN {} ELSE req.keys \ told
  BY <1>2
<1> HIDE DEF told, msgs, silence
<1>7. \A m \in Range(msgs) : m.keys \subseteq req.keys /\ \A x \in m.keys : m.value = sheet'[x]
  BY <1>2, <1>3, <1>4, <1>5
<1>8. \A t \in Readers \ {r} : \A k \in req.keys \ silence[t] : \E m \in Range(msgs) : k \in m.keys
  BY <1>4, <1>5, <1>6
<1>9. \A k \in req.keys : req.kind # "set_null" /\ sheet'[k] = req.value
  BY <1>1, <1>2, <1>3
<1>10. Effect(r, req, req.keys, msgs, silence)
  BY <1>1, <1>2, <1>3, <1>5, <1>6, <1>7, <1>8, <1>9 DEF Effect
<1> QED
  BY <1>10

LEMMA RequestEffect ==
    ASSUME TypedServer, TypedReaders, NEW r \in Readers, HandleRequest(r)
    PROVE  /\ Head(toServer[r]) \in AnyRequest
           /\ \E S, all, silence : Effect(r, Head(toServer[r]), S, all, silence)
<1> DEFINE req == Head(toServer[r])
<1>1. toServer[r] \in Seq(AnyRequest) /\ toServer[r] # <<>>
  BY DEF TypedReaders, HandleRequest
<1>2. req \in AnyRequest
  BY <1>1
<1>3. handleSet(r, req) \/ handleSetNull(r, req) \/ handleDelete(r, req)
  BY DEF HandleRequest
<1> HIDE DEF req
<1>4. CASE handleSet(r, req)
  <2>1. req.kind = "set" /\ \E k \in req.keys : Put(r, k, req.value, <<Replicate(k, req.value)>>, {})
    BY <1>4 DEF handleSet
  <2>2. PICK k \in req.keys : Put(r, k, req.value, <<Replicate(k, req.value)>>, {})
    BY <2>1
  <2>3. k \in Keys /\ req.keys = {k} /\ req.value \in Values
    BY <1>2, <2>1, RequestFacts
  <2>4. Replicate(k, req.value) \in Notices
    BY <2>3, NoticesMade
  <2> DEFINE msgs == <<Replicate(k, req.value)>>
  <2>5. msgs \in Seq(Notices) /\ Range(msgs) = {Replicate(k, req.value)}
    BY <2>4, SingleFacts
  <2> HIDE DEF msgs
  <2>6. Put(r, k, req.value, msgs, {})
    BY <2>2 DEF msgs
  <2> QED
    BY <1>2, <2>1, <2>3, <2>5, <2>6, PutEffect DEF req
<1>5. CASE handleSetNull(r, req)
  <2>1. req.kind = "set_null" /\ \E k \in req.keys : Put(r, k, NullPlaceholder, <<>>, {k})
    BY <1>5 DEF handleSetNull
  <2>2. PICK k \in req.keys : Put(r, k, NullPlaceholder, <<>>, {k})
    BY <2>1
  <2>3. k \in Keys /\ req.keys = {k}
    BY <1>2, <2>1, RequestFacts
  <2>4. <<>> \in Seq(Notices) /\ Range(<<>>) = {}
    BY DEF Range
  <2> QED
    BY <1>2, <2>1, <2>2, <2>3, <2>4, PutEffect DEF req
<1>6. CASE handleDelete(r, req)
  BY <1>2, <1>6, DeleteEffect DEF req
<1> QED
  BY <1>2, <1>3, <1>4, <1>5, <1>6 DEF req

-----------------------------------------------------------------------------
(* Types. *)

LEMMA TypesKept ==
    /\ TypedServer /\ UNCHANGED <<serverVars, silent>> => TypedServer'
    /\ TypedReaders /\ UNCHANGED <<readerVars, toServer, toReader>> => TypedReaders'
    /\ Broadcasting /\ UNCHANGED <<collaborators, todo, targets>> => Broadcasting'
BY DEF TypedServer, TypedReaders, Broadcasting, serverVars, readerVars

LEMMA WriteFacts ==
    ASSUME TypedReaders, NEW r \in Readers, NEW m \in Messages, Write(r, m)
    PROVE  /\ toReader' \in [Readers -> Seq(Messages)]
           /\ toReader'[r] = Append(toReader[r], m)
           /\ \A t \in Readers \ {r} : toReader'[t] = toReader[t]
BY DEF Write, TypedReaders

\* The head of what a handler has yet to write.
LEMMA HeadFacts ==
    ASSUME TypedServer, NEW r \in Readers, todo[r] # <<>>
    PROVE  /\ Head(todo[r]) \in Notices \cup {Success} /\ Head(todo[r]) \in Messages
           /\ Tail(todo[r]) \in Seq(Notices \cup {Success})
           /\ Range(todo[r]) = {Head(todo[r])} \cup Range(Tail(todo[r]))
<1>1. todo[r] \in Seq(Notices \cup {Success})
  BY DEF TypedServer
<1>2. /\ Head(todo[r]) \in Notices \cup {Success}
      /\ Tail(todo[r]) \in Seq(Notices \cup {Success})
      /\ Range(todo[r]) = {Head(todo[r])} \cup Range(Tail(todo[r]))
  BY <1>1, ReceiveFacts
<1> QED
  BY <1>2, NoticesMade

LEMMA NoDataTyped == NoData \in Data /\ \A k \in Keys : NoData[k] = None
BY DEF NoData, Data

LEMMA InitTyped == Init => Typed
<1> SUFFICES ASSUME Init PROVE Typed
  OBVIOUS
<1>1. TypedServer
  <2>1. sheet \in Data /\ dumped \in [Readers -> Data]
    BY NoDataTyped DEF Init
  <2>2. /\ collaborators \subseteq Readers /\ targets \in [Readers -> SUBSET Readers]
        /\ silent \in [Readers -> SUBSET Keys]
    BY DEF Init
  <2>3. serving \in [Readers -> {"waiting", "dialed", "joined", "answered", "dumped", "open"}]
    BY DEF Init
  <2>4. todo \in [Readers -> Seq(Notices \cup {Success})]
    BY DEF Init
  <2> QED
    BY <2>1, <2>2, <2>3, <2>4 DEF TypedServer
<1>2. TypedReaders
  <2>1. phase \in [Readers -> {"new", "unauthenticated", "authenticated", "connected"}]
    BY DEF Init
  <2>2. cache \in [Readers -> Data] /\ sending \in [Readers -> AnyRequest \cup {None}]
    BY NoDataTyped DEF Init
  <2>3. toServer \in [Readers -> Seq(AnyRequest)] /\ toReader \in [Readers -> Seq(Messages)]
    BY DEF Init
  <2>4. writes \in 0 .. MaxWrites
    BY ParametersAssumption DEF Init
  <2> QED
    BY <2>1, <2>2, <2>3, <2>4 DEF TypedReaders
<1>3. Broadcasting
  BY DEF Init, Broadcasting
<1> QED
  BY <1>1, <1>2, <1>3 DEF Typed

LEMMA OpenTyped ==
    ASSUME Typed, NEW r \in Readers,
           \/ AddCollaborator(r) \/ OpenResponse(r) \/ Dump(r) \/ sendSheetState(r) \/ Dial(r)
    PROVE  Typed'
<1> USE DEF Typed
<1>1. CASE AddCollaborator(r)
  <2>1. /\ collaborators' = collaborators \cup {r} /\ serving' = [serving EXCEPT ![r] = "joined"]
        /\ UNCHANGED <<sheet, dumped, todo, targets, readerVars, toServer, toReader, silent>>
    BY <1>1 DEF AddCollaborator
  <2>2. TypedServer'
    BY <2>1 DEF TypedServer
  <2>3. Broadcasting'
    BY <2>1 DEF Broadcasting
  <2> QED
    BY <2>1, <2>2, <2>3, TypesKept
<1>2. CASE OpenResponse(r)
  <2>1. /\ Write(r, Success) /\ serving' = [serving EXCEPT ![r] = "answered"]
        /\ UNCHANGED <<sheet, collaborators, dumped, todo, targets, readerVars, toServer, silent>>
    BY <1>2 DEF OpenResponse
  <2>2. TypedServer'
    BY <2>1 DEF TypedServer
  <2>3. toReader' \in [Readers -> Seq(Messages)]
    BY <2>1, WriteFacts, NoticesMade
  <2>4. TypedReaders'
    BY <2>1, <2>3 DEF TypedReaders, readerVars
  <2> QED
    BY <2>1, <2>2, <2>4, TypesKept
<1>3. CASE Dump(r)
  <2>1. /\ dumped' = [dumped EXCEPT ![r] = sheet] /\ serving' = [serving EXCEPT ![r] = "dumped"]
        /\ UNCHANGED <<sheet, collaborators, todo, targets, readerVars, toServer, toReader, silent>>
    BY <1>3 DEF Dump
  <2>2. TypedServer'
    BY <2>1 DEF TypedServer
  <2> QED
    BY <2>1, <2>2, TypesKept
<1>4. CASE sendSheetState(r)
  <2>1. /\ Write(r, SheetState(dumped[r])) /\ serving' = [serving EXCEPT ![r] = "open"]
        /\ dumped' = [dumped EXCEPT ![r] = NoData]
        /\ UNCHANGED <<sheet, collaborators, todo, targets, readerVars, toServer, silent>>
    BY <1>4 DEF sendSheetState
  <2>2. TypedServer'
    BY <2>1, NoDataTyped DEF TypedServer
  <2>3. SheetState(dumped[r]) \in Messages
    BY NoticesMade DEF TypedServer
  <2>4. toReader' \in [Readers -> Seq(Messages)]
    BY <2>1, <2>3, WriteFacts
  <2>5. TypedReaders'
    BY <2>1, <2>4 DEF TypedReaders, readerVars
  <2> QED
    BY <2>1, <2>2, <2>5, TypesKept
<1>5. CASE Dial(r)
  <2>1. /\ phase' = [phase EXCEPT ![r] = "unauthenticated"]
        /\ serving' = [serving EXCEPT ![r] = "dialed"]
        /\ UNCHANGED <<sheet, collaborators, dumped, todo, targets, cache, sending,
                       writes, toServer, toReader, silent>>
    BY <1>5 DEF Dial
  <2>2. TypedServer'
    BY <2>1 DEF TypedServer
  <2>3. TypedReaders'
    BY <2>1 DEF TypedReaders
  <2> QED
    BY <2>1, <2>2, <2>3, TypesKept
<1> QED
  BY <1>1, <1>2, <1>3, <1>4, <1>5

LEMMA HandleTyped ==
    ASSUME Typed, NEW r \in Readers, HandleRequest(r)
    PROVE  Typed'
<1> USE DEF Typed
<1>1. /\ todo[r] = <<>> /\ toServer[r] # <<>>
      /\ toServer' = [toServer EXCEPT ![r] = Tail(toServer[r])]
      /\ UNCHANGED <<collaborators, serving, dumped, targets, readerVars, toReader>>
  BY DEF HandleRequest
<1>2. PICK S, msgs, quiet : Effect(r, Head(toServer[r]), S, msgs, quiet)
  BY RequestEffect
<1>3. /\ msgs \in Seq(Notices) /\ quiet \in [Readers -> SUBSET Keys] /\ sheet' \in Data
      /\ todo' = [todo EXCEPT ![r] = <<Success>> \o msgs]
      /\ silent' = [t \in Readers |-> (silent[t] \ S) \cup quiet[t]]
  BY <1>2 DEF Effect, Changed
<1>4. todo' \in [Readers -> Seq(Notices \cup {Success})]
  <2>1. Success \in Notices \cup {Success} /\ msgs \in Seq(Notices \cup {Success})
    BY <1>3
  <2>2. <<Success>> \o msgs \in Seq(Notices \cup {Success})
    BY <2>1, ConsFacts
  <2> QED
    BY <1>3, <2>2 DEF TypedServer
<1>5. silent' \in [Readers -> SUBSET Keys]
  BY <1>3 DEF TypedServer
<1>6. TypedServer'
  BY <1>1, <1>3, <1>4, <1>5 DEF TypedServer
<1>7. TypedReaders'
  <2>1. toServer' \in [Readers -> Seq(AnyRequest)]
    BY <1>1 DEF TypedReaders
  <2> QED
    BY <1>1, <2>1 DEF TypedReaders, readerVars
<1>8. Broadcasting'
  BY <1>1, <1>3 DEF Broadcasting, TypedServer
<1> QED
  BY <1>6, <1>7, <1>8

LEMMA BroadcastTyped ==
    ASSUME Typed, NEW r \in Readers,
           sendResponse(r) \/ BroadcastStart(r) \/ \E t \in Readers : BroadcastWrite(r, t)
    PROVE  Typed'
<1> USE DEF Typed
<1>1. CASE sendResponse(r)
  <2>1. /\ todo[r] # <<>> /\ Head(todo[r]) = Success /\ Write(r, Success)
        /\ todo' = [todo EXCEPT ![r] = Tail(todo[r])]
        /\ UNCHANGED <<sheet, collaborators, serving, dumped, targets, readerVars, toServer, silent>>
    BY <1>1 DEF sendResponse
  <2>2. TypedServer'
    BY <2>1, HeadFacts DEF TypedServer
  <2>3. toReader' \in [Readers -> Seq(Messages)]
    BY <2>1, WriteFacts, NoticesMade
  <2>4. TypedReaders'
    BY <2>1, <2>3 DEF TypedReaders, readerVars
  <2>5. Broadcasting'
    BY <2>1 DEF Broadcasting, TypedServer
  <2> QED
    BY <2>2, <2>4, <2>5
<1>2. CASE BroadcastStart(r)
  <2>1. /\ todo[r] # <<>> /\ Head(todo[r]) # Success /\ targets[r] = {}
        /\ targets' = [targets EXCEPT ![r] = collaborators \ {r}]
        /\ todo' = IF collaborators \ {r} = {} THEN [todo EXCEPT ![r] = Tail(todo[r])] ELSE todo
        /\ UNCHANGED <<sheet, collaborators, serving, dumped, readerVars, toServer, toReader, silent>>
    BY <1>2 DEF BroadcastStart, Broadcasts
  <2>2. TypedServer'
    BY <2>1, HeadFacts DEF TypedServer
  <2>3. Broadcasting'
    BY <2>1 DEF Broadcasting, TypedServer
  <2> QED
    BY <2>1, <2>2, <2>3, TypesKept
<1>3. ASSUME NEW t \in Readers, BroadcastWrite(r, t)
      PROVE  Typed'
  <2>1. /\ t \in targets[r] /\ Write(t, Head(todo[r]))
        /\ targets' = [targets EXCEPT ![r] = targets[r] \ {t}]
        /\ todo' = IF targets[r] = {t} THEN [todo EXCEPT ![r] = Tail(todo[r])] ELSE todo
        /\ silent' = IF serving[t] = "dumped"
                     THEN [silent EXCEPT ![t] = silent[t] \cup Head(todo[r]).keys] ELSE silent
        /\ UNCHANGED <<sheet, collaborators, serving, dumped, readerVars, toServer>>
    BY <1>3 DEF BroadcastWrite
  <2>2. todo[r] # <<>>
    BY <2>1 DEF Broadcasting
  <2>3. Head(todo[r]) \in Messages /\ Head(todo[r]).keys \in SUBSET Keys
    BY <2>2, HeadFacts, MessageFacts
  <2>4. TypedServer'
    <3>1. todo' \in [Readers -> Seq(Notices \cup {Success})]
      BY <2>1, <2>2, HeadFacts DEF TypedServer
    <3>2. targets' \in [Readers -> SUBSET Readers] /\ silent' \in [Readers -> SUBSET Keys]
      BY <2>1, <2>3 DEF TypedServer
    <3> QED
      BY <2>1, <3>1, <3>2 DEF TypedServer
  <2>5. toReader' \in [Readers -> Seq(Messages)]
    BY <2>1, <2>3, WriteFacts
  <2>6. TypedReaders'
    BY <2>1, <2>5 DEF TypedReaders, readerVars
  <2>7. Broadcasting'
    BY <2>1 DEF Broadcasting, TypedServer
  <2> QED
    BY <2>4, <2>6, <2>7
<1> QED
  BY <1>1, <1>2, <1>3

LEMMA ExpireTyped ==
    ASSUME Typed, NEW k \in Keys, Expire(k)
    PROVE  Typed'
<1>1. /\ sheet' = Without(sheet, {k}) /\ silent' = [r \in Readers |-> silent[r] \cup {k}]
      /\ UNCHANGED <<collaborators, serving, dumped, todo, targets, readerVars, toServer, toReader>>
  BY DEF Expire
<1>2. sheet' \in Data /\ silent' \in [Readers -> SUBSET Keys]
  BY <1>1 DEF Without, Data, Typed, TypedServer
<1>3. TypedServer'
  BY <1>1, <1>2 DEF Typed, TypedServer
<1> QED
  BY <1>1, <1>3, TypesKept DEF Typed

\* The Reader handles one message.
LEMMA ReceiveTyped ==
    ASSUME Typed, NEW r \in Readers, Receive(r)
    PROVE  /\ Typed'
           /\ toReader[r] \in Seq(Messages) /\ toReader[r] # <<>> /\ Head(toReader[r]) \in Messages
           /\ toReader'[r] = Tail(toReader[r])
           /\ \A t \in Readers \ {r} :
                 toReader'[t] = toReader[t] /\ phase'[t] = phase[t] /\ cache'[t] = cache[t]
<1> DEFINE msg == Head(toReader[r])
<1>1. /\ toReader[r] # <<>> /\ toReader' = [toReader EXCEPT ![r] = Tail(toReader[r])]
      /\ Authenticate(r, msg) \/ LoadState(r, msg) \/ handleMessage(r, msg)
      /\ UNCHANGED <<serverVars, sending, writes, toServer, silent>>
  BY DEF Receive
<1>2. /\ toReader \in [Readers -> Seq(Messages)] /\ cache \in [Readers -> Data]
      /\ phase \in [Readers -> {"new", "unauthenticated", "authenticated", "connected"}]
  BY DEF Typed, TypedReaders
<1>3. msg \in Messages /\ Tail(toReader[r]) \in Seq(Messages)
  BY <1>1, <1>2
<1> HIDE DEF msg
<1>4. /\ phase' \in [Readers -> {"new", "unauthenticated", "authenticated", "connected"}]
      /\ cache' \in [Readers -> Data]
      /\ \A t \in Readers \ {r} : phase'[t] = phase[t] /\ cache'[t] = cache[t]
  <2>1. CASE Authenticate(r, msg)
    BY <1>2, <2>1 DEF Authenticate
  <2>2. CASE LoadState(r, msg)
    BY <1>2, <1>3, <2>2, MessageFacts DEF LoadState
  <2>3. CASE handleMessage(r, msg)
    <3>1. CASE msg.type = "sheet_state"
      BY <1>2, <1>3, <2>3, <3>1, MessageFacts DEF handleMessage
    <3>2. CASE msg.type = "replicate"
      <4>1. msg.value \in Values
        BY <1>3, <3>2, MessageFacts, NoticeFacts
      <4>2. [k \in Keys |-> IF k \in msg.keys THEN msg.value ELSE cache[r][k]] \in Data
        BY <1>2, <4>1 DEF Data
      <4> QED
        BY <1>2, <2>3, <3>2, <4>2 DEF handleMessage
    <3>3. CASE msg.type = "invalidate"
      <4>1. Without(cache[r], msg.keys) \in Data
        BY <1>2 DEF Data, Without
      <4> QED
        BY <1>2, <2>3, <3>3, <4>1 DEF handleMessage
    <3>4. CASE msg.type \notin {"sheet_state", "replicate", "invalidate"}
      BY <1>2, <2>3, <3>4 DEF handleMessage
    <3> QED
      BY <3>1, <3>2, <3>3, <3>4
  <2> QED
    BY <1>1, <2>1, <2>2, <2>3
<1>5. TypedReaders'
  BY <1>1, <1>2, <1>3, <1>4 DEF Typed, TypedReaders
<1>6. Typed'
  BY <1>1, <1>5, TypesKept DEF Typed, serverVars
<1> QED
  BY <1>1, <1>2, <1>3, <1>4, <1>6 DEF msg

LEMMA LocalWriteTyped ==
    ASSUME Typed, NEW r \in Readers, NEW req \in AnyRequest, LocalWrite(r, req)
    PROVE  /\ Typed'
           /\ sending'[r] = req /\ \A t \in Readers \ {r} : sending'[t] = sending[t] /\ cache'[t] = cache[t]
           /\ \A k \in Keys : cache'[r][k] = IF k \in req.keys /\ req.kind # "set_null"
                                             THEN req.value ELSE cache[r][k]
<1>1. /\ writes < MaxWrites /\ writes' = writes + 1 /\ sending' = [sending EXCEPT ![r] = req]
      /\ cache' = CASE req.kind = "set" ->
                        [cache EXCEPT ![r] = [k \in Keys |->
                            IF k \in req.keys THEN req.value ELSE cache[r][k]]]
                  [] req.kind = "set_null" -> cache
                  [] OTHER -> [cache EXCEPT ![r] = Without(cache[r], req.keys)]
      /\ UNCHANGED <<serverVars, phase, toServer, toReader, silent>>
  BY DEF LocalWrite
<1>2. cache \in [Readers -> Data] /\ sending \in [Readers -> AnyRequest \cup {None}]
  BY DEF Typed, TypedReaders
<1>3. /\ cache' \in [Readers -> Data]
      /\ \A t \in Readers \ {r} : cache'[t] = cache[t]
      /\ \A k \in Keys : cache'[r][k] = IF k \in req.keys /\ req.kind # "set_null"
                                        THEN req.value ELSE cache[r][k]
  <2>1. CASE req.kind = "set"
    <3>1. [k \in Keys |-> IF k \in req.keys THEN req.value ELSE cache[r][k]] \in Data
      BY <1>2, <2>1, RequestFacts DEF Data
    <3> QED
      BY <1>1, <1>2, <2>1, <3>1
  <2>2. CASE req.kind = "set_null"
    BY <1>1, <1>2, <2>2
  <2>3. CASE req.kind \notin {"set", "set_null"}
    <3>1. Without(cache[r], req.keys) \in Data
      BY <1>2 DEF Data, Without
    <3>2. \A k \in Keys : Without(cache[r], req.keys)[k] = IF k \in req.keys THEN req.value ELSE cache[r][k]
      BY <2>3, RequestFacts DEF Without
    <3> QED
      BY <1>1, <1>2, <2>3, <3>1, <3>2
  <2> QED
    BY <2>1, <2>2, <2>3
<1>4. TypedReaders'
  <2>1. writes' \in 0 .. MaxWrites
    BY <1>1, ParametersAssumption DEF Typed, TypedReaders
  <2> QED
    BY <1>1, <1>2, <1>3, <2>1 DEF Typed, TypedReaders
<1>5. Typed'
  BY <1>1, <1>4, TypesKept DEF Typed, serverVars
<1> QED
  BY <1>1, <1>2, <1>3, <1>5

LEMMA SendTyped ==
    ASSUME Typed, NEW r \in Readers, Send(r)
    PROVE  Typed'
<1>1. /\ sending[r] # None /\ toServer' = [toServer EXCEPT ![r] = Append(toServer[r], sending[r])]
      /\ sending' = [sending EXCEPT ![r] = None]
      /\ UNCHANGED <<serverVars, phase, cache, writes, toReader, silent>>
  BY DEF Send
<1>2. sending[r] \in AnyRequest /\ toServer[r] \in Seq(AnyRequest)
  BY <1>1 DEF Typed, TypedReaders
<1>3. TypedReaders'
  BY <1>1, <1>2 DEF Typed, TypedReaders
<1> QED
  BY <1>1, <1>3, TypesKept DEF Typed, serverVars

LEMMA NextTyped ==
    ASSUME Typed, [Next]_vars
    PROVE  Typed'
<1>1. ASSUME NEW r \in Readers, Proceed(r)
      PROVE  Typed'
  BY <1>1, OpenTyped, HandleTyped, BroadcastTyped, ReceiveTyped, SendTyped DEF Proceed
<1>2. ASSUME NEW r \in Readers, Dial(r)
      PROVE  Typed'
  BY <1>2, OpenTyped
<1>3. ASSUME NEW r \in Writers, NEW req \in AnyRequest, LocalWrite(r, req)
      PROVE  Typed'
  BY <1>3, LocalWriteTyped, ParametersAssumption
<1>4. ASSUME NEW k \in Keys, Expire(k)
      PROVE  Typed'
  BY <1>4, ExpireTyped
<1>5. CASE UNCHANGED vars
  BY <1>5, TypesKept DEF vars, Typed, serverVars, readerVars
<1> QED
  BY <1>1, <1>2, <1>3, <1>4, <1>5 DEF Next

-----------------------------------------------------------------------------
(* Agreement, with one writer. *)

LEMMA PartsKept ==
    /\ Idle /\ UNCHANGED <<todo, sending, toServer, phase>> => Idle'
    /\ Unaddressed /\ UNCHANGED toReader => Unaddressed'
    /\ Opening /\ UNCHANGED <<phase, serving, collaborators, toReader>> => Opening'
    /\ PendingTrue /\ UNCHANGED <<silent, todo, sheet>> => PendingTrue'
    /\ RequestsTrue /\ UNCHANGED <<sending, toServer, cache>> => RequestsTrue'
<1>1. Idle /\ UNCHANGED <<todo, sending, toServer, phase>> => Idle'
  BY DEF Idle
<1>2. Unaddressed /\ UNCHANGED toReader => Unaddressed'
  BY DEF Unaddressed
<1>3. Opening /\ UNCHANGED <<phase, serving, collaborators, toReader>> => Opening'
  BY DEF Opening, Opens
<1>4. PendingTrue /\ UNCHANGED <<silent, todo, sheet>> => PendingTrue'
  BY DEF PendingTrue
<1>5. RequestsTrue /\ UNCHANGED <<sending, toServer, cache>> => RequestsTrue'
  BY DEF RequestsTrue, Outgoing
<1> QED
  BY <1>1, <1>2, <1>3, <1>4, <1>5

LEMMA UnwrittenFacts ==
    ASSUME NEW t, NEW k
    PROVE  k \in Unwritten(t) <=> \E r \in Readers \ {t} : \E m \in Range(Rest(r, t)) : k \in m.keys
BY DEF Unwritten

LEMMA UnwrittenKept ==
    ASSUME UNCHANGED <<todo, targets>>, NEW t
    PROVE  Unwritten(t)' = Unwritten(t)
BY DEF Unwritten, Rest

LEMMA OutgoingFacts ==
    ASSUME Typed, NEW r \in Readers
    PROVE  /\ Outgoing(r) \in Seq(AnyRequest)
           /\ sending[r] = None => Outgoing(r) = toServer[r]
           /\ sending[r] # None => Outgoing(r) = Append(toServer[r], sending[r])
BY DEF Outgoing, Typed, TypedReaders

LEMMA OutgoingKept ==
    ASSUME NEW r, sending'[r] = sending[r], toServer'[r] = toServer[r]
    PROVE  Outgoing(r)' = Outgoing(r)
BY DEF Outgoing

\* Only the writer's handler is at work.
LEMMA OnlyOneWorks ==
    ASSUME SoleWriter, Idle, NEW r \in Readers,
           r \in Writers \/ todo[r] # <<>> \/ toServer[r] # <<>> \/ sending[r] # None
    PROVE  /\ r \in Writers
           /\ \A t \in Readers \ {r} :
                 t \notin Writers /\ todo[t] = <<>> /\ toServer[t] = <<>> /\ sending[t] = None
BY DEF SoleWriter, Idle

\* What the writer is sent once it is connected says nothing of its keys.
LEMMA WriterHears ==
    ASSUME Typed, Unaddressed, Opening, NEW r \in Readers, r \in Writers, phase[r] = "connected",
           NEW k \in Keys, NEW v
    PROVE  /\ Nothing(toReader[r], Telling(k)) /\ Last(toReader[r], Telling(k), Saying(k, v))
           /\ Arrives(r, k, v) <=> cache[r][k] = v
           /\ serving[r] = "open"
<1>1. /\ toReader[r] \in Seq(Messages)
      /\ Nothing(toReader[r], Notices) /\ Nothing(toReader[r], States) /\ serving[r] = "open"
  BY DEF Typed, TypedReaders, Unaddressed, Opening, Opens
<1>2. ASSUME NEW i \in DOMAIN toReader[r]
      PROVE  toReader[r][i] \notin Telling(k)
  <2>1. toReader[r][i] \in Messages
    BY <1>1
  <2>2. toReader[r][i] = Success
    BY <1>1, <2>1, MessageFacts DEF Nothing
  <2> QED
    BY <1>1, <2>1, <2>2, TellingFacts, MessagesMade DEF Nothing
<1> QED
  BY <1>1, <1>2 DEF Nothing, Last, Arrives

\* A message more to a Reader whose open has been answered with its sheet.
LEMMA WriteArrives ==
    ASSUME Typed, NEW t \in Readers, NEW m \in Messages, NEW k \in Keys, NEW v,
           toReader'[t] = Append(toReader[t], m), serving[t] # "dumped", serving'[t] # "dumped",
           UNCHANGED cache,
           \/ m \in Telling(k) /\ m \in Saying(k, v)
           \/ m \notin Telling(k) /\ Arrives(t, k, v)
    PROVE  Arrives(t, k, v)'
<1>1. toReader[t] \in Seq(Messages)
  BY DEF Typed, TypedReaders
<1>2. CASE m \in Telling(k) /\ m \in Saying(k, v)
  <2>1. Last(toReader'[t], Telling(k), Saying(k, v)) /\ ~Nothing(toReader'[t], Telling(k))
    BY <1>1, <1>2, SendFacts
  <2> QED
    BY <2>1 DEF Arrives
<1>3. CASE m \notin Telling(k) /\ Arrives(t, k, v)
  <2>1. Last(toReader[t], Telling(k), Saying(k, v)) => Last(toReader'[t], Telling(k), Saying(k, v))
    BY <1>1, <1>3, SendFacts
  <2>2. Nothing(toReader'[t], Telling(k)) => Nothing(toReader[t], Telling(k))
    BY <1>1, SendFacts
  <2> QED
    BY <1>3, <2>1, <2>2 DEF Arrives
<1> QED
  BY <1>2, <1>3

\* Writing a message that is no state disturbs no open.
LEMMA WriteOpens ==
    ASSUME Typed, Opening, NEW r \in Readers, NEW m \in Messages, m \notin States, Write(r, m),
           UNCHANGED <<phase, serving, collaborators>>
    PROVE  Opening'
<1>1. /\ toReader'[r] = Append(toReader[r], m) /\ toReader[r] \in Seq(Messages)
      /\ \A t \in Readers \ {r} : toReader'[t] = toReader[t]
  BY WriteFacts DEF Typed, TypedReaders
<1> SUFFICES ASSUME NEW t \in Readers PROVE Opens(t)'
  BY DEF Opening
<1>2. Opens(t)
  BY DEF Opening
<1>3. CASE t # r
  BY <1>1, <1>2, <1>3 DEF Opens
<1>4. CASE t = r
  <2>1. /\ AtMostOnce(toReader[r], States) => AtMostOnce(toReader'[r], States)
        /\ Before(toReader[r], {Success}, States) => Before(toReader'[r], {Success}, States)
    BY <1>1, SendOrder
  <2>2. /\ Nothing(toReader[r], States) <=> Nothing(toReader'[r], States)
        /\ Nothing(toReader'[r], {Success}) => Nothing(toReader[r], {Success})
    BY <1>1, SendFacts
  <2> QED
    BY <1>2, <1>4, <2>1, <2>2 DEF Opens
<1> QED
  BY <1>3, <1>4

\* A message more on a connection, which is a broadcast only for those who do
\* not write.
LEMMA WriteUnaddressed ==
    ASSUME Typed, Unaddressed, NEW r \in Readers, NEW m \in Messages,
           m \notin Notices \/ r \notin Writers, Write(r, m)
    PROVE  Unaddressed'
<1>1. /\ toReader'[r] = Append(toReader[r], m) /\ toReader[r] \in Seq(Messages)
      /\ \A t \in Readers \ {r} : toReader'[t] = toReader[t]
  BY WriteFacts DEF Typed, TypedReaders
<1>2. m \notin Notices => (Nothing(toReader'[r], Notices) <=> Nothing(toReader[r], Notices))
  BY <1>1, SendFacts
<1> QED
  BY <1>1, <1>2, ParametersAssumption DEF Unaddressed

LEMMA InitIInv == Init => IInv
<1> SUFFICES ASSUME Init PROVE IInv
  OBVIOUS
<1>1. \A r \in Readers : /\ sending[r] = None /\ toServer[r] = <<>> /\ todo[r] = <<>>
                         /\ toReader[r] = <<>> /\ cache[r] = NoData /\ Outgoing(r) = <<>>
  BY DEF Init, Outgoing
<1>2. Idle /\ Unaddressed
  BY <1>1, EmptyFacts, ParametersAssumption DEF Idle, Unaddressed
<1>3. Opening
  <2> SUFFICES ASSUME NEW t \in Readers PROVE Opens(t)
    BY DEF Opening
  <2>1. \/ serving[t] = "waiting" /\ phase[t] = "new"
        \/ serving[t] = "open" /\ phase[t] = "connected" /\ t \in collaborators
    BY DEF Init
  <2> QED
    BY <1>1, <2>1, EmptyFacts DEF Opens
<1>4. PendingTrue
  BY <1>1, EmptyFacts DEF PendingTrue
<1>5. RequestsTrue
  BY <1>1, EmptyFacts DEF RequestsTrue
<1>6. ArrivesTrue
  <2> SUFFICES ASSUME NEW t \in Readers, NEW k \in Keys, serving[t] \in {"dumped", "open"}
               PROVE  Arrives(t, k, sheet[k])
    BY DEF ArrivesTrue
  <2>1. serving[t] = "open" /\ sheet = NoData
    BY DEF Init
  <2> QED
    BY <1>1, <2>1, EmptyFacts DEF Arrives
<1> QED
  BY <1>2, <1>3, <1>4, <1>5, <1>6, InitTyped DEF IInv

-----------------------------------------------------------------------------
(* The opens. *)

LEMMA AddCollaboratorIInv ==
    ASSUME IInv, NEW r \in Readers, AddCollaborator(r)
    PROVE  IInv'
<1>1. /\ serving[r] = "dialed" /\ serving' = [serving EXCEPT ![r] = "joined"]
      /\ collaborators' = collaborators \cup {r}
      /\ UNCHANGED <<sheet, dumped, todo, targets, toServer, toReader, silent>>
      /\ UNCHANGED <<phase, cache, sending, writes>>
  BY DEF AddCollaborator, readerVars
<1>2. /\ serving'[r] = "joined"
      /\ \A t \in Readers \ {r} : serving'[t] = serving[t]
  BY <1>1 DEF IInv, Typed, TypedServer
<1>3. Opening'
  <2> SUFFICES ASSUME NEW t \in Readers PROVE Opens(t)'
    BY DEF Opening
  <2>1. Opens(t)
    BY DEF IInv, Opening
  <2> QED
    BY <1>1, <1>2, <2>1 DEF Opens
<1>4. ArrivesTrue'
  <2> SUFFICES ASSUME NEW t \in Readers, NEW k \in Keys \ silent[t],
                      serving'[t] \in {"dumped", "open"}, k \notin Unwritten(t),
                      Nothing(Outgoing(t), Asking(k))
               PROVE  Arrives(t, k, sheet[k])'
    BY <1>1, UnwrittenKept, OutgoingKept DEF ArrivesTrue
  <2>1. serving'[t] = serving[t]
    BY <1>2
  <2>2. Arrives(t, k, sheet[k])
    BY <2>1 DEF IInv, ArrivesTrue
  <2> QED
    BY <1>1, <2>1, <2>2 DEF Arrives
<1>5. Typed'
  BY OpenTyped DEF IInv
<1> QED
  BY <1>1, <1>3, <1>4, <1>5, PartsKept DEF IInv

LEMMA OpenResponseIInv ==
    ASSUME IInv, NEW r \in Readers, OpenResponse(r)
    PROVE  IInv'
<1>1. /\ serving[r] = "joined" /\ Write(r, Success) /\ serving' = [serving EXCEPT ![r] = "answered"]
      /\ UNCHANGED <<sheet, collaborators, dumped, todo, targets, toServer, silent>>
      /\ UNCHANGED <<phase, cache, sending, writes>>
  BY DEF OpenResponse, readerVars
<1>2. /\ serving'[r] = "answered"
      /\ \A t \in Readers \ {r} : serving'[t] = serving[t]
  BY <1>1 DEF IInv, Typed, TypedServer
<1>3. Success \in Messages /\ Success \notin States /\ Success \notin Notices
  BY NoticesMade, MessagesMade, MessageFacts
<1>4. /\ toReader'[r] = Append(toReader[r], Success) /\ toReader[r] \in Seq(Messages)
      /\ \A t \in Readers \ {r} : toReader'[t] = toReader[t]
  BY <1>1, <1>3, WriteFacts DEF IInv, Typed, TypedReaders
<1>5. Opening'
  <2> SUFFICES ASSUME NEW t \in Readers PROVE Opens(t)'
    BY DEF Opening
  <2>1. Opens(t)
    BY DEF IInv, Opening
  <2>2. CASE t # r
    BY <1>1, <1>2, <1>4, <2>1, <2>2 DEF Opens
  <2>3. CASE t = r
    <3>1. Nothing(toReader'[r], States) <=> Nothing(toReader[r], States)
      BY <1>3, <1>4, SendFacts
    <3>2. ~Nothing(toReader'[r], {Success})
      BY <1>3, <1>4, SendFacts
    <3>3. AtMostOnce(toReader[r], States) => AtMostOnce(toReader'[r], States)
      BY <1>3, <1>4, SendOrder
    <3> QED
      BY <1>1, <1>2, <2>1, <2>3, <3>1, <3>2, <3>3 DEF Opens
  <2> QED
    BY <2>2, <2>3
<1>6. ArrivesTrue'
  <2> SUFFICES ASSUME NEW t \in Readers, NEW k \in Keys \ silent[t],
                      serving'[t] \in {"dumped", "open"}, k \notin Unwritten(t),
                      Nothing(Outgoing(t), Asking(k))
               PROVE  Arrives(t, k, sheet[k])'
    BY <1>1, UnwrittenKept, OutgoingKept DEF ArrivesTrue
  <2>1. serving'[t] = serving[t] /\ toReader'[t] = toReader[t]
    BY <1>2, <1>4
  <2>2. Arrives(t, k, sheet[k])
    BY <2>1 DEF IInv, ArrivesTrue
  <2> QED
    BY <1>1, <2>1, <2>2 DEF Arrives
<1>7. Unaddressed'
  BY <1>1, <1>3, WriteUnaddressed DEF IInv
<1>8. Typed'
  BY OpenTyped DEF IInv
<1> QED
  BY <1>1, <1>5, <1>6, <1>7, <1>8, PartsKept DEF IInv

LEMMA DumpIInv ==
    ASSUME IInv, NEW r \in Readers, Dump(r)
    PROVE  IInv'
<1>1. /\ serving[r] = "answered" /\ serving' = [serving EXCEPT ![r] = "dumped"]
      /\ dumped' = [dumped EXCEPT ![r] = sheet]
      /\ UNCHANGED <<sheet, collaborators, todo, targets, toServer, toReader, silent>>
      /\ UNCHANGED <<phase, cache, sending, writes>>
  BY DEF Dump, readerVars
<1>2. /\ serving'[r] = "dumped" /\ dumped'[r] = sheet
      /\ \A t \in Readers \ {r} : serving'[t] = serving[t] /\ dumped'[t] = dumped[t]
  BY <1>1 DEF IInv, Typed, TypedServer
<1>3. Opening'
  <2> SUFFICES ASSUME NEW t \in Readers PROVE Opens(t)'
    BY DEF Opening
  <2>1. Opens(t)
    BY DEF IInv, Opening
  <2> QED
    BY <1>1, <1>2, <2>1 DEF Opens
<1>4. ArrivesTrue'
  <2> SUFFICES ASSUME NEW t \in Readers, NEW k \in Keys \ silent[t],
                      serving'[t] \in {"dumped", "open"}, k \notin Unwritten(t),
                      Nothing(Outgoing(t), Asking(k))
               PROVE  Arrives(t, k, sheet[k])'
    BY <1>1, UnwrittenKept, OutgoingKept DEF ArrivesTrue
  <2>1. CASE t = r
    BY <1>1, <1>2, <2>1 DEF Arrives
  <2>2. CASE t # r
    <3>1. Arrives(t, k, sheet[k])
      BY <1>2, <2>2 DEF IInv, ArrivesTrue
    <3> QED
      BY <1>1, <1>2, <2>2, <3>1 DEF Arrives
  <2> QED
    BY <2>1, <2>2
<1>5. Typed'
  BY OpenTyped DEF IInv
<1> QED
  BY <1>1, <1>3, <1>4, <1>5, PartsKept DEF IInv

LEMMA sendSheetStateIInv ==
    ASSUME IInv, NEW r \in Readers, sendSheetState(r)
    PROVE  IInv'
<1> DEFINE state == SheetState(dumped[r])
<1>1. /\ serving[r] = "dumped" /\ Write(r, state) /\ serving' = [serving EXCEPT ![r] = "open"]
      /\ dumped' = [dumped EXCEPT ![r] = NoData]
      /\ UNCHANGED <<sheet, collaborators, todo, targets, toServer, silent>>
      /\ UNCHANGED <<phase, cache, sending, writes>>
  BY DEF sendSheetState, readerVars
<1>2. /\ serving'[r] = "open"
      /\ \A t \in Readers \ {r} : serving'[t] = serving[t] /\ dumped'[t] = dumped[t]
  BY <1>1 DEF IInv, Typed, TypedServer
<1>3. state \in Messages /\ state \in States /\ state \notin Notices /\ state.value = dumped[r]
  <2>1. dumped[r] \in Data
    BY DEF IInv, Typed, TypedServer
  <2>2. state \in States /\ state \in Messages /\ state.value = dumped[r]
    BY <2>1, NoticesMade, MessagesMade
  <2> QED
    BY <2>2, MessageFacts
<1> HIDE DEF state
<1>4. /\ toReader'[r] = Append(toReader[r], state) /\ toReader[r] \in Seq(Messages)
      /\ \A t \in Readers \ {r} : toReader'[t] = toReader[t]
  BY <1>1, <1>3, WriteFacts DEF IInv, Typed, TypedReaders
<1>5. Opening'
  <2> SUFFICES ASSUME NEW t \in Readers PROVE Opens(t)'
    BY DEF Opening
  <2>1. Opens(t)
    BY DEF IInv, Opening
  <2>2. CASE t # r
    BY <1>1, <1>2, <1>4, <2>1, <2>2 DEF Opens
  <2>3. CASE t = r
    <3>1. ~Nothing(toReader'[r], States)
      BY <1>3, <1>4, SendFacts
    <3>2. Nothing(toReader[r], States) => AtMostOnce(toReader'[r], States)
      <4>1. Nothing(toReader[r], States) => AtMostOnce(toReader[r], States)
        BY DEF Nothing, AtMostOnce
      <4> QED
        BY <1>3, <1>4, <4>1, SendOrder
    <3>3. ~Nothing(toReader[r], {Success}) => Before(toReader'[r], {Success}, States)
      BY <1>3, <1>4, SendOrder
    <3> QED
      BY <1>1, <1>2, <2>1, <2>3, <3>1, <3>2, <3>3 DEF Opens
  <2> QED
    BY <2>2, <2>3
<1>6. ArrivesTrue'
  <2> SUFFICES ASSUME NEW t \in Readers, NEW k \in Keys \ silent[t],
                      serving'[t] \in {"dumped", "open"}, k \notin Unwritten(t),
                      Nothing(Outgoing(t), Asking(k))
               PROVE  Arrives(t, k, sheet[k])'
    BY <1>1, UnwrittenKept, OutgoingKept DEF ArrivesTrue
  <2>1. Arrives(t, k, sheet[k])
    BY <1>1, <1>2 DEF IInv, ArrivesTrue
  <2>2. CASE t # r
    BY <1>1, <1>2, <1>4, <2>1, <2>2 DEF Arrives
  <2>3. CASE t = r
    <3>1. dumped[r][k] = sheet[k]
      BY <1>1, <2>1, <2>3 DEF Arrives
    <3>2. state \in Telling(k) /\ state \in Saying(k, sheet[k])
      BY <1>3, <3>1, TellingFacts DEF Tells
    <3>3. /\ Last(toReader'[r], Telling(k), Saying(k, sheet[k]))
          /\ ~Nothing(toReader'[r], Telling(k))
      BY <1>3, <1>4, <3>2, SendFacts
    <3> QED
      BY <1>1, <1>2, <2>3, <3>3 DEF Arrives
  <2> QED
    BY <2>2, <2>3
<1>7. Unaddressed'
  BY <1>1, <1>3, WriteUnaddressed DEF IInv
<1>8. Typed'
  BY OpenTyped DEF IInv
<1> QED
  BY <1>1, <1>5, <1>6, <1>7, <1>8, PartsKept DEF IInv

LEMMA DialIInv ==
    ASSUME IInv, NEW r \in Readers, Dial(r)
    PROVE  IInv'
<1>1. /\ phase[r] = "new" /\ phase' = [phase EXCEPT ![r] = "unauthenticated"]
      /\ serving' = [serving EXCEPT ![r] = "dialed"]
      /\ UNCHANGED <<sheet, collaborators, dumped, todo, targets, cache, sending,
                     writes, toServer, toReader, silent>>
  BY DEF Dial
<1>2. /\ phase'[r] = "unauthenticated" /\ serving'[r] = "dialed"
      /\ \A t \in Readers \ {r} : serving'[t] = serving[t] /\ phase'[t] = phase[t]
  BY <1>1 DEF IInv, Typed, TypedServer, TypedReaders
<1>3. Opening'
  <2> SUFFICES ASSUME NEW t \in Readers PROVE Opens(t)'
    BY DEF Opening
  <2>1. Opens(t)
    BY DEF IInv, Opening
  <2> QED
    BY <1>1, <1>2, <2>1 DEF Opens
<1>4. ArrivesTrue'
  <2> SUFFICES ASSUME NEW t \in Readers, NEW k \in Keys \ silent[t],
                      serving'[t] \in {"dumped", "open"}, k \notin Unwritten(t),
                      Nothing(Outgoing(t), Asking(k))
               PROVE  Arrives(t, k, sheet[k])'
    BY <1>1, UnwrittenKept, OutgoingKept DEF ArrivesTrue
  <2>1. serving'[t] = serving[t]
    BY <1>2
  <2>2. Arrives(t, k, sheet[k])
    BY <2>1 DEF IInv, ArrivesTrue
  <2> QED
    BY <1>1, <2>1, <2>2 DEF Arrives
<1>5. Typed'
  BY OpenTyped DEF IInv
<1>6. Idle'
  BY <1>1, <1>2 DEF IInv, Idle
<1> QED
  BY <1>1, <1>3, <1>4, <1>5, <1>6, PartsKept DEF IInv

-----------------------------------------------------------------------------
(* The handlers. *)

LEMMA NothingUnwritten ==
    ASSUME Typed, NEW t \in Readers, \A r \in Readers \ {t} : todo[r] = <<>>
    PROVE  Unwritten(t) = {}
<1>1. \A r \in Readers \ {t} : Rest(r, t) = <<>>
  BY DEF Typed, Broadcasting, Rest
<1>2. Range(<<>>) = {}
  BY DEF Range
<1> QED
  BY <1>1, <1>2 DEF Unwritten

\* A handled request leaves those that came later.
LEMMA OutgoingHandled ==
    ASSUME Typed, NEW r \in Readers, toServer[r] # <<>>,
           toServer'[r] = Tail(toServer[r]), sending'[r] = sending[r]
    PROVE  /\ Outgoing(r) # <<>> /\ Head(Outgoing(r)) = Head(toServer[r])
           /\ Outgoing(r)' = Tail(Outgoing(r))
<1>1. /\ toServer[r] \in Seq(AnyRequest)
      /\ sending[r] # None => sending[r] \in AnyRequest
  BY DEF Typed, TypedReaders
<1>2. ASSUME NEW q \in Seq(AnyRequest), NEW req \in AnyRequest, q # <<>>
      PROVE  /\ Append(q, req) # <<>> /\ Head(Append(q, req)) = Head(q)
             /\ Tail(Append(q, req)) = Append(Tail(q), req)
  BY <1>2
<1>3. CASE sending[r] = None
  BY <1>3 DEF Outgoing
<1>4. CASE sending[r] # None
  BY <1>1, <1>2, <1>4 DEF Outgoing
<1> QED
  BY <1>3, <1>4

LEMMA HandleRequestIInv ==
    ASSUME SoleWriter, IInv, NEW r \in Readers, HandleRequest(r)
    PROVE  IInv'
<1> DEFINE req == Head(toServer[r])
<1>1. /\ serving[r] = "open" /\ todo[r] = <<>> /\ toServer[r] # <<>>
      /\ toServer' = [toServer EXCEPT ![r] = Tail(toServer[r])]
      /\ UNCHANGED <<collaborators, serving, dumped, targets, toReader>>
      /\ UNCHANGED <<phase, cache, sending, writes>>
  BY DEF HandleRequest, readerVars
<1>2. /\ r \in Writers /\ phase[r] = "connected"
      /\ \A t \in Readers \ {r} : todo[t] = <<>> /\ toServer[t] = <<>> /\ sending[t] = None
  BY <1>1, OnlyOneWorks DEF IInv, Idle
<1>3. /\ toServer'[r] = Tail(toServer[r]) /\ \A t \in Readers \ {r} : toServer'[t] = toServer[t]
  BY <1>1 DEF IInv, Typed, TypedReaders
<1>4. req \in AnyRequest /\ \E S, msgs, quiet : Effect(r, req, S, msgs, quiet)
  BY RequestEffect DEF IInv, Typed
<1> HIDE DEF req
<1>5. PICK S, msgs, quiet : Effect(r, req, S, msgs, quiet)
  BY <1>4
<1>6. /\ msgs \in Seq(Notices)
      /\ todo' = [todo EXCEPT ![r] = <<Success>> \o msgs]
      /\ \A t \in Readers : silent'[t] = (silent[t] \ S) \cup quiet[t]
      /\ \A k \in Keys \ S : sheet'[k] = sheet[k]
      /\ \A m \in Range(msgs) : \A k \in m.keys : m.value = sheet'[k]
      /\ \A t \in Readers \ {r} : \A k \in S \ quiet[t] : \E m \in Range(msgs) : k \in m.keys
      /\ \A k \in S \ quiet[r] : k \in req.keys /\ req.kind # "set_null" /\ sheet'[k] = req.value
      /\ req.keys \subseteq S
  BY <1>5 DEF Effect, Changed
<1>7. /\ \A t \in Readers \ {r} : todo'[t] = <<>>
      /\ todo'[r] = <<Success>> \o msgs /\ Range(todo'[r]) = {Success} \cup Range(msgs)
  <2>1. todo'[r] = <<Success>> \o msgs /\ \A t \in Readers \ {r} : todo'[t] = <<>>
    BY <1>2, <1>6 DEF IInv, Typed, TypedServer
  <2>2. Success \in Notices \cup {Success} /\ msgs \in Seq(Notices \cup {Success})
    BY <1>6
  <2>3. Range(<<Success>> \o msgs) = {Success} \cup Range(msgs)
    BY <2>2, ConsFacts
  <2> QED
    BY <2>1, <2>3
<1>8. Typed'
  BY HandleTyped DEF IInv
<1>9. Idle'
  BY <1>1, <1>2, <1>3, <1>7 DEF IInv, Idle
<1>10. PendingTrue'
  <2> SUFFICES ASSUME NEW h \in Readers, NEW t \in Readers, NEW k \in Keys,
                      NEW m \in Range(todo'[h]), k \in m.keys
               PROVE  m.value = sheet'[k]
    BY DEF PendingTrue
  <2>1. h = r
    BY <1>7, EmptyFacts
  <2>2. m \in Range(msgs)
    BY <1>7, <2>1, MessagesMade
  <2> QED
    BY <1>6, <2>2
<1>11. /\ Outgoing(r) \in Seq(AnyRequest) /\ Outgoing(r) # <<>>
       /\ Head(Outgoing(r)) = req /\ Outgoing(r)' = Tail(Outgoing(r))
       /\ \A t \in Readers \ {r} : Outgoing(t) = <<>> /\ Outgoing(t)' = <<>>
  <2>1. \A t \in Readers \ {r} : Outgoing(t) = <<>> /\ Outgoing(t)' = <<>>
    BY <1>1, <1>2, <1>3 DEF Outgoing
  <2>2. Outgoing(r) # <<>> /\ Head(Outgoing(r)) = req /\ Outgoing(r)' = Tail(Outgoing(r))
    BY <1>1, <1>3, OutgoingHandled DEF IInv, req
  <2> QED
    BY <2>1, <2>2, OutgoingFacts DEF IInv
<1>12. RequestsTrue'
  <2> SUFFICES ASSUME NEW t \in Readers, NEW k \in Keys
               PROVE  Last(Outgoing(t)', Asking(k), Granting(cache[t][k]))
    BY <1>1 DEF RequestsTrue
  <2>1. CASE t # r
    BY <1>11, <2>1, EmptyFacts
  <2>2. CASE t = r
    <3>1. Last(Outgoing(r), Asking(k), Granting(cache[r][k]))
      BY DEF IInv, RequestsTrue
    <3>2. Last(Tail(Outgoing(r)), Asking(k), Granting(cache[r][k]))
      BY <1>11, <3>1, ReceiveFacts
    <3> QED
      BY <1>11, <2>2, <3>2
  <2> QED
    BY <2>1, <2>2
<1>13. ArrivesTrue'
  <2> SUFFICES ASSUME NEW t \in Readers, NEW k \in Keys \ silent'[t],
                      serving[t] \in {"dumped", "open"}, k \notin Unwritten(t)',
                      Nothing(Outgoing(t)', Asking(k))
               PROVE  Arrives(t, k, sheet[k])'
    BY <1>1 DEF ArrivesTrue
  <2>1. k \notin quiet[t] /\ (k \notin S => k \notin silent[t] /\ sheet'[k] = sheet[k])
    BY <1>6
  <2>2. CASE t # r
    <3>1. k \notin S
      <4> SUFFICES ASSUME k \in S PROVE FALSE
        OBVIOUS
      <4>1. PICK m \in Range(msgs) : k \in m.keys
        BY <1>6, <2>1, <2>2
      <4>2. Rest(r, t)' = todo'[r]
        BY <1>1 DEF IInv, Typed, Broadcasting, Rest
      <4>3. m \in Range(Rest(r, t)')
        BY <1>7, <4>1, <4>2
      <4> QED
        BY <2>2, <4>1, <4>3 DEF Unwritten
    <3>2. Unwritten(t) = {}
      BY <1>1, <1>2, NothingUnwritten DEF IInv
    <3>3. Nothing(Outgoing(t), Asking(k))
      BY <1>11, <2>2, EmptyFacts
    <3>4. Arrives(t, k, sheet[k])
      BY <2>1, <3>1, <3>2, <3>3 DEF IInv, ArrivesTrue
    <3> QED
      BY <1>1, <2>1, <3>1, <3>4 DEF Arrives
  <2>3. CASE t = r
    <3>1. cache[r][k] = sheet'[k]
      <4>1. CASE k \in S
        <5>1. k \in req.keys /\ req.kind # "set_null" /\ sheet'[k] = req.value
          BY <1>6, <2>1, <2>3, <4>1
        <5>2. req \in Asking(k)
          BY <1>4, <5>1 DEF Asking
        <5>3. Last(Outgoing(r), Asking(k), Granting(cache[r][k]))
          BY DEF IInv, RequestsTrue
        <5>4. req \in Granting(cache[r][k])
          <6>1. Nothing(Tail(Outgoing(r)), Asking(k)) /\ Head(Outgoing(r)) \in Asking(k)
            BY <1>11, <2>3, <5>2
          <6>2. Head(Outgoing(r)) \in Granting(cache[r][k])
            BY <1>11, <5>3, <6>1, ReceiveFacts
          <6> QED
            BY <1>11, <6>2
        <5> QED
          BY <5>1, <5>4 DEF Granting
      <4>2. CASE k \notin S
        <5>1. Unwritten(r) = {}
          BY <1>2, NothingUnwritten DEF IInv
        <5>2. req \notin Asking(k)
          BY <1>6, <4>2 DEF Asking
        <5>3. Nothing(Outgoing(r), Asking(k))
          BY <1>11, <2>3, <5>2, ReceiveFacts
        <5>4. Arrives(r, k, sheet[k])
          BY <2>1, <2>3, <4>2, <5>1, <5>3 DEF IInv, ArrivesTrue
        <5> QED
          BY <1>2, <2>1, <4>2, <5>4, WriterHears DEF IInv
      <4> QED
        BY <4>1, <4>2
    <3>2. Arrives(r, k, sheet'[k])
      BY <1>2, <3>1, WriterHears DEF IInv
    <3> QED
      BY <1>1, <2>3, <3>2 DEF Arrives
  <2> QED
    BY <2>2, <2>3
<1> QED
  BY <1>1, <1>8, <1>9, <1>10, <1>12, <1>13, PartsKept DEF IInv

LEMMA sendResponseIInv ==
    ASSUME IInv, NEW r \in Readers, sendResponse(r)
    PROVE  IInv'
<1>1. /\ todo[r] # <<>> /\ Head(todo[r]) = Success /\ Write(r, Success)
      /\ todo' = [todo EXCEPT ![r] = Tail(todo[r])]
      /\ UNCHANGED <<sheet, collaborators, serving, dumped, targets, toServer, silent>>
      /\ UNCHANGED <<phase, cache, sending, writes>>
  BY DEF sendResponse, readerVars
<1>2. Success \in Messages /\ Success \notin States /\ Success \notin Notices /\ Success.keys = {}
  BY NoticesMade, MessagesMade, MessageFacts
<1>3. /\ todo'[r] = Tail(todo[r]) /\ \A t \in Readers \ {r} : todo'[t] = todo[t]
      /\ Range(todo[r]) = {Success} \cup Range(todo'[r])
  <2>1. todo'[r] = Tail(todo[r]) /\ \A t \in Readers \ {r} : todo'[t] = todo[t]
    BY <1>1 DEF IInv, Typed, TypedServer
  <2> QED
    BY <1>1, <2>1, HeadFacts DEF IInv, Typed
<1>4. /\ toReader'[r] = Append(toReader[r], Success)
      /\ \A t \in Readers \ {r} : toReader'[t] = toReader[t]
  BY <1>1, <1>2, WriteFacts DEF IInv, Typed
<1>5. Typed'
  BY BroadcastTyped DEF IInv
<1>6. Idle'
  BY <1>1, <1>3 DEF IInv, Idle
<1>7. Unaddressed' /\ Opening'
  BY <1>1, <1>2, WriteUnaddressed, WriteOpens DEF IInv
<1>8. PendingTrue'
  <2>1. \A h \in Readers : Range(todo'[h]) \subseteq Range(todo[h])
    BY <1>3
  <2> QED
    BY <1>1, <2>1 DEF IInv, PendingTrue
<1>9. ArrivesTrue'
  <2> SUFFICES ASSUME NEW t \in Readers, NEW k \in Keys \ silent[t],
                      serving[t] \in {"dumped", "open"}, k \notin Unwritten(t)',
                      Nothing(Outgoing(t), Asking(k))
               PROVE  Arrives(t, k, sheet[k])'
    BY <1>1, OutgoingKept DEF ArrivesTrue
  <2>1. k \notin Unwritten(t)
    <3> SUFFICES ASSUME NEW h \in Readers \ {t}, NEW m \in Range(Rest(h, t)), k \in m.keys
                 PROVE  k \in Unwritten(t)'
      BY UnwrittenFacts
    <3>1. m \in Range(Rest(h, t)')
      <4>1. CASE h = r
        <5>1. targets[r] = {} /\ targets' = targets
          BY <1>1 DEF IInv, Typed, Broadcasting
        <5>2. Rest(r, t) = todo[r] /\ Rest(r, t)' = todo'[r]
          BY <5>1 DEF Rest
        <5> QED
          BY <1>2, <1>3, <4>1, <5>2
      <4>2. CASE h # r
        BY <1>1, <1>3, <4>2 DEF Rest
      <4> QED
        BY <4>1, <4>2
    <3> QED
      BY <3>1 DEF Unwritten
  <2>2. Arrives(t, k, sheet[k])
    BY <2>1 DEF IInv, ArrivesTrue
  <2>3. CASE t # r \/ serving[t] = "dumped"
    BY <1>1, <1>4, <2>2, <2>3 DEF Arrives
  <2>4. CASE t = r /\ serving[t] # "dumped"
    <3>1. Success \notin Telling(k)
      BY <1>2, TellingFacts
    <3> QED
      BY <1>1, <1>2, <1>4, <2>2, <2>4, <3>1, WriteArrives DEF IInv
  <2> QED
    BY <2>3, <2>4
<1> QED
  BY <1>1, <1>5, <1>6, <1>7, <1>8, <1>9, PartsKept DEF IInv

\* Everybody whose sheet_state is on its way is among the targets.
LEMMA BroadcastStartIInv ==
    ASSUME IInv, NEW r \in Readers, BroadcastStart(r)
    PROVE  IInv'
<1>1. /\ todo[r] # <<>> /\ targets[r] = {}
      /\ targets' = [targets EXCEPT ![r] = collaborators \ {r}]
      /\ todo' = IF collaborators \ {r} = {} THEN [todo EXCEPT ![r] = Tail(todo[r])] ELSE todo
      /\ UNCHANGED <<sheet, collaborators, serving, dumped, toServer, toReader, silent>>
      /\ UNCHANGED <<phase, cache, sending, writes>>
  BY DEF BroadcastStart, Broadcasts, readerVars
<1>2. /\ targets'[r] = collaborators \ {r}
      /\ \A t \in Readers \ {r} : targets'[t] = targets[t] /\ todo'[t] = todo[t]
      /\ collaborators \ {r} # {} => todo' = todo
      /\ Range(todo'[r]) \subseteq Range(todo[r])
  <2>1. todo'[r] = todo[r] \/ todo'[r] = Tail(todo[r])
    BY <1>1 DEF IInv, Typed, TypedServer
  <2>2. Range(Tail(todo[r])) \subseteq Range(todo[r])
    BY <1>1, HeadFacts DEF IInv, Typed
  <2>3. Range(todo'[r]) \subseteq Range(todo[r])
    BY <2>1, <2>2
  <2> QED
    BY <1>1, <2>3 DEF IInv, Typed, TypedServer
<1>3. Typed'
  BY BroadcastTyped DEF IInv
<1>4. Idle'
  BY <1>1, <1>2 DEF IInv, Idle
<1>5. PendingTrue'
  <2>1. \A h \in Readers : Range(todo'[h]) \subseteq Range(todo[h])
    BY <1>2
  <2> QED
    BY <1>1, <2>1 DEF IInv, PendingTrue
<1>6. ArrivesTrue'
  <2> SUFFICES ASSUME NEW t \in Readers, NEW k \in Keys \ silent[t],
                      serving[t] \in {"dumped", "open"}, k \notin Unwritten(t)',
                      Nothing(Outgoing(t), Asking(k))
               PROVE  Arrives(t, k, sheet[k])'
    BY <1>1, OutgoingKept DEF ArrivesTrue
  <2>1. t \in collaborators
    BY DEF IInv, Opening, Opens
  <2>2. \A h \in Readers \ {t} : Rest(h, t)' = Rest(h, t)
    <3> SUFFICES ASSUME NEW h \in Readers \ {t} PROVE Rest(h, t)' = Rest(h, t)
      OBVIOUS
    <3>1. CASE h = r
      <4>1. t \in targets'[r] /\ todo' = todo
        BY <1>2, <2>1, <3>1
      <4> QED
        BY <1>1, <3>1, <4>1 DEF Rest
    <3>2. CASE h # r
      BY <1>2, <3>2 DEF Rest
    <3> QED
      BY <3>1, <3>2
  <2>3. k \notin Unwritten(t)
    BY <2>2 DEF Unwritten
  <2>4. Arrives(t, k, sheet[k])
    BY <2>3 DEF IInv, ArrivesTrue
  <2> QED
    BY <1>1, <2>4 DEF Arrives
<1> QED
  BY <1>1, <1>3, <1>4, <1>5, <1>6, PartsKept DEF IInv

\* What a handler has written to one Reader is as it was for all the others.
LEMMA RestWritten ==
    ASSUME Typed, NEW r \in Readers, NEW t \in targets[r],
           targets' = [targets EXCEPT ![r] = targets[r] \ {t}],
           todo' = IF targets[r] = {t} THEN [todo EXCEPT ![r] = Tail(todo[r])] ELSE todo
    PROVE  /\ Rest(r, t) = todo[r] /\ Rest(r, t)' = Tail(todo[r])
           /\ \A u \in Readers : u # t => Rest(r, u)' = Rest(r, u)
           /\ \A h \in Readers \ {r} : \A u : Rest(h, u)' = Rest(h, u)
<1>1. /\ targets'[r] = targets[r] \ {t}
      /\ todo'[r] = IF targets[r] = {t} THEN Tail(todo[r]) ELSE todo[r]
      /\ \A h \in Readers \ {r} : targets'[h] = targets[h] /\ todo'[h] = todo[h]
  BY DEF Typed, TypedServer
<1>2. CASE targets[r] = {t}
  BY <1>1, <1>2 DEF Rest
<1>3. CASE targets[r] # {t}
  <2>1. targets'[r] # {}
    BY <1>1, <1>3
  <2> QED
    BY <1>1, <1>3, <2>1 DEF Rest
<1> QED
  BY <1>2, <1>3

LEMMA BroadcastWriteIInv ==
    ASSUME SoleWriter, IInv, NEW r \in Readers, NEW t \in Readers, BroadcastWrite(r, t)
    PROVE  IInv'
<1> DEFINE msg == Head(todo[r])
<1>1. /\ t \in targets[r] /\ Write(t, msg)
      /\ targets' = [targets EXCEPT ![r] = targets[r] \ {t}]
      /\ todo' = IF targets[r] = {t} THEN [todo EXCEPT ![r] = Tail(todo[r])] ELSE todo
      /\ silent' = IF serving[t] = "dumped"
                   THEN [silent EXCEPT ![t] = silent[t] \cup msg.keys] ELSE silent
      /\ UNCHANGED <<sheet, collaborators, serving, dumped, toServer>>
      /\ UNCHANGED <<phase, cache, sending, writes>>
  BY DEF BroadcastWrite, readerVars
<1>2. /\ todo[r] # <<>> /\ msg # Success /\ t # r
      /\ r \in Writers /\ t \notin Writers
  <2>1. todo[r] # <<>> /\ msg # Success /\ t # r
    BY <1>1 DEF IInv, Typed, Broadcasting
  <2> QED
    BY <2>1, OnlyOneWorks DEF IInv
<1>3. /\ msg \in Notices /\ msg \in Messages /\ msg \notin States
      /\ msg \in Range(todo[r]) /\ Range(todo[r]) = {msg} \cup Range(Tail(todo[r]))
  <2>1. /\ msg \in Notices \cup {Success} /\ msg \in Messages
        /\ Range(todo[r]) = {msg} \cup Range(Tail(todo[r]))
    BY <1>2, HeadFacts DEF IInv, Typed
  <2> QED
    BY <1>2, <2>1, MessageFacts
<1> HIDE DEF msg
<1>4. /\ toReader'[t] = Append(toReader[t], msg)
      /\ \A u \in Readers \ {t} : toReader'[u] = toReader[u]
  BY <1>1, <1>3, WriteFacts DEF IInv, Typed
<1>5. /\ silent'[t] = IF serving[t] = "dumped" THEN silent[t] \cup msg.keys ELSE silent[t]
      /\ \A u \in Readers \ {t} : silent'[u] = silent[u]
  BY <1>1 DEF IInv, Typed, TypedServer
<1>6. /\ \A h \in Readers \ {r} : todo'[h] = todo[h]
      /\ Range(todo'[r]) \subseteq Range(todo[r])
  <2>1. todo'[r] = todo[r] \/ todo'[r] = Tail(todo[r])
    BY <1>1 DEF IInv, Typed, TypedServer
  <2>2. Range(todo'[r]) \subseteq Range(todo[r])
    BY <1>3, <2>1
  <2> QED
    BY <1>1, <2>2 DEF IInv, Typed, TypedServer
<1>7. Typed'
  BY BroadcastTyped DEF IInv
<1>8. Idle'
  BY <1>1, <1>2, <1>6 DEF IInv, Idle
<1>9. Unaddressed' /\ Opening'
  BY <1>1, <1>2, <1>3, WriteUnaddressed, WriteOpens DEF IInv
<1>10. PendingTrue'
  <2>1. /\ \A h \in Readers : Range(todo'[h]) \subseteq Range(todo[h])
        /\ \A u \in Readers : silent[u] \subseteq silent'[u]
    BY <1>5, <1>6
  <2> QED
    BY <1>1, <2>1 DEF IInv, PendingTrue
<1>11. ArrivesTrue'
  <2> SUFFICES ASSUME NEW u \in Readers, NEW k \in Keys \ silent'[u],
                      serving[u] \in {"dumped", "open"}, k \notin Unwritten(u)',
                      Nothing(Outgoing(u), Asking(k))
               PROVE  Arrives(u, k, sheet[k])'
    BY <1>1, OutgoingKept DEF ArrivesTrue
  <2>1. /\ Rest(r, t) = todo[r] /\ Rest(r, t)' = Tail(todo[r])
        /\ \A x \in Readers : x # t => Rest(r, x)' = Rest(r, x)
        /\ \A h \in Readers \ {r} : \A x : Rest(h, x)' = Rest(h, x)
    BY <1>1, RestWritten DEF IInv
  <2>2. k \notin silent[u]
    BY <1>5
  <2>3. CASE u # t
    <3>1. \A h \in Readers : Rest(h, u)' = Rest(h, u)
      BY <2>1, <2>3
    <3>2. k \notin Unwritten(u)
      BY <3>1 DEF Unwritten
    <3>3. Arrives(u, k, sheet[k])
      BY <2>2, <3>2 DEF IInv, ArrivesTrue
    <3> QED
      BY <1>1, <1>4, <2>3, <3>3 DEF Arrives
  <2>4. CASE u = t /\ k \in msg.keys
    <3>1. serving[t] = "open"
      BY <1>5, <2>4
    <3>2. msg.value = sheet[k]
      BY <1>3, <2>2, <2>4 DEF IInv, PendingTrue
    <3>3. msg \in Telling(k) /\ msg \in Saying(k, sheet[k])
      BY <1>3, <2>4, <3>2, TellingFacts DEF Tells
    <3> QED
      BY <1>1, <1>3, <1>4, <2>4, <3>1, <3>3, WriteArrives DEF IInv
  <2>5. CASE u = t /\ k \notin msg.keys
    <3>1. k \notin Unwritten(t)
      <4> SUFFICES ASSUME NEW h \in Readers \ {t}, NEW m \in Range(Rest(h, t)), k \in m.keys
                   PROVE  k \in Unwritten(t)'
        BY <2>5, UnwrittenFacts
      <4>1. m \in Range(Rest(h, t)')
        BY <1>3, <2>1, <2>5
      <4> QED
        BY <4>1 DEF Unwritten
    <3>2. Arrives(t, k, sheet[k])
      BY <2>2, <2>5, <3>1 DEF IInv, ArrivesTrue
    <3>3. msg \notin Telling(k)
      BY <1>3, <2>5, TellingFacts
    <3>4. CASE serving[t] = "dumped"
      BY <1>1, <2>5, <3>2, <3>4 DEF Arrives
    <3>5. CASE serving[t] # "dumped"
      BY <1>1, <1>3, <1>4, <2>5, <3>2, <3>3, <3>5, WriteArrives DEF IInv
    <3> QED
      BY <3>4, <3>5
  <2> QED
    BY <2>3, <2>4, <2>5
<1> QED
  BY <1>1, <1>7, <1>8, <1>9, <1>10, <1>11, PartsKept DEF IInv

LEMMA ExpireIInv ==
    ASSUME IInv, NEW k \in Keys, Expire(k)
    PROVE  IInv'
<1>1. /\ sheet' = Without(sheet, {k}) /\ silent' = [t \in Readers |-> silent[t] \cup {k}]
      /\ UNCHANGED <<collaborators, serving, dumped, todo, targets, toServer, toReader>>
      /\ UNCHANGED <<phase, cache, sending, writes>>
  BY DEF Expire, readerVars
<1>2. /\ \A x \in Keys \ {k} : sheet'[x] = sheet[x]
      /\ \A t \in Readers : silent'[t] = silent[t] \cup {k}
  BY <1>1 DEF Without
<1>3. Typed'
  BY ExpireTyped DEF IInv
<1>4. PendingTrue'
  BY <1>1, <1>2 DEF IInv, PendingTrue
<1>5. ArrivesTrue'
  <2> SUFFICES ASSUME NEW t \in Readers, NEW x \in Keys \ silent'[t],
                      serving[t] \in {"dumped", "open"}, x \notin Unwritten(t),
                      Nothing(Outgoing(t), Asking(x))
               PROVE  Arrives(t, x, sheet[x])'
    BY <1>1, UnwrittenKept, OutgoingKept DEF ArrivesTrue
  <2>1. x \notin silent[t] /\ sheet'[x] = sheet[x]
    BY <1>2
  <2>2. Arrives(t, x, sheet[x])
    BY <2>1 DEF IInv, ArrivesTrue
  <2> QED
    BY <1>1, <2>1, <2>2 DEF Arrives
<1> QED
  BY <1>1, <1>3, <1>4, <1>5, PartsKept DEF IInv

-----------------------------------------------------------------------------
(* The Readers. *)

\* What a message does to the Reader that is where the message finds it.
LEMMA ReceiveEffect ==
    ASSUME Typed, Opening, NEW r \in Readers, Receive(r)
    PROVE  LET m == Head(toReader[r]) IN
           /\ m \in Messages
           /\ phase[r] \in {"unauthenticated", "authenticated", "connected"}
           /\ phase[r] = "unauthenticated" =>
                 /\ phase'[r] = IF m = Success THEN "authenticated" ELSE "unauthenticated"
                 /\ cache'[r] = cache[r]
           /\ phase[r] = "authenticated" /\ m \in States =>
                 phase'[r] = "connected" /\ cache'[r] = m.value
           /\ phase[r] = "authenticated" /\ m \notin States =>
                 phase'[r] = "authenticated" /\ cache'[r] = cache[r]
           /\ phase[r] = "connected" =>
                 /\ phase'[r] = "connected"
                 /\ \A k \in Keys : cache'[r][k] = IF m \in Telling(k) THEN Tells(m, k) ELSE cache[r][k]
<1> DEFINE m == Head(toReader[r])
<1>1. Authenticate(r, m) \/ LoadState(r, m) \/ handleMessage(r, m)
  BY DEF Receive
<1>2. /\ m \in Messages
      /\ m \in States <=> m.type = "sheet_state"
      /\ m = Success <=> m.type = "response"
      /\ m \in Notices <=> m.type \in {"replicate", "invalidate"}
      /\ m \in States => m.value \in Data
  BY ReceiveTyped, MessageFacts
<1> HIDE DEF m
<1>3. /\ cache \in [Readers -> Data]
      /\ phase \in [Readers -> {"new", "unauthenticated", "authenticated", "connected"}]
  BY DEF Typed, TypedReaders
<1>4. CASE Authenticate(r, m)
  BY <1>2, <1>3, <1>4 DEF Authenticate, m
<1>5. CASE LoadState(r, m)
  BY <1>2, <1>3, <1>5 DEF LoadState, m
<1>6. CASE handleMessage(r, m)
  <2>1. phase[r] = "connected" /\ phase' = phase
    BY <1>6 DEF handleMessage
  <2>2. \A k \in Keys : cache'[r][k] = IF m \in Telling(k) THEN Tells(m, k) ELSE cache[r][k]
    <3> SUFFICES ASSUME NEW k \in Keys
                 PROVE  cache'[r][k] = IF m \in Telling(k) THEN Tells(m, k) ELSE cache[r][k]
      OBVIOUS
    <3>0. m \in Telling(k) <=> m \in States \/ k \in m.keys
      BY <1>2, TellingFacts
    <3>1. CASE m \in States
      BY <1>2, <1>3, <1>6, <3>0, <3>1 DEF handleMessage, Tells
    <3>2. CASE m.type = "replicate"
      BY <1>2, <1>3, <1>6, <3>0, <3>2 DEF handleMessage, Tells
    <3>3. CASE m.type = "invalidate"
      <4>1. m.value = None
        BY <1>2, <3>3, NoticeFacts
      <4>2. cache'[r] = Without(cache[r], m.keys)
        BY <1>3, <1>6, <3>3 DEF handleMessage
      <4> QED
        BY <1>2, <3>0, <3>3, <4>1, <4>2 DEF Without, Tells
    <3>4. CASE m = Success
      BY <1>2, <1>3, <1>6, <3>0, <3>4, MessagesMade DEF handleMessage
    <3> QED
      BY <1>2, <3>1, <3>2, <3>3, <3>4, MessageFacts
  <2> QED
    BY <1>2, <2>1, <2>2 DEF m
<1> QED
  BY <1>1, <1>4, <1>5, <1>6

LEMMA ReceiveIInv ==
    ASSUME IInv, NEW r \in Readers, Receive(r)
    PROVE  IInv'
<1> DEFINE m == Head(toReader[r])
           q == Tail(toReader[r])
<1>1. /\ UNCHANGED <<sheet, collaborators, serving, dumped, todo, targets>>
      /\ UNCHANGED <<sending, writes, toServer, silent>>
  BY DEF Receive, serverVars
<1>2. /\ Typed'
      /\ toReader[r] \in Seq(Messages) /\ toReader[r] # <<>> /\ toReader'[r] = q
      /\ \A t \in Readers \ {r} :
            toReader'[t] = toReader[t] /\ phase'[t] = phase[t] /\ cache'[t] = cache[t]
  BY ReceiveTyped DEF IInv
<1>3. /\ m \in Messages
      /\ phase[r] \in {"unauthenticated", "authenticated", "connected"}
      /\ phase[r] = "unauthenticated" =>
            /\ phase'[r] = IF m = Success THEN "authenticated" ELSE "unauthenticated"
            /\ cache'[r] = cache[r]
      /\ phase[r] = "authenticated" /\ m \in States =>
            phase'[r] = "connected" /\ cache'[r] = m.value
      /\ phase[r] = "authenticated" /\ m \notin States =>
            phase'[r] = "authenticated" /\ cache'[r] = cache[r]
      /\ phase[r] = "connected" =>
            /\ phase'[r] = "connected"
            /\ \A k \in Keys : cache'[r][k] = IF m \in Telling(k) THEN Tells(m, k) ELSE cache[r][k]
  BY ReceiveEffect DEF IInv
<1>4. /\ AtMostOnce(toReader[r], States) =>
            AtMostOnce(q, States) /\ (m \in States => Nothing(q, States))
      /\ Before(toReader[r], {Success}, States) =>
            ~Nothing(q, States) /\ (m # Success => Before(q, {Success}, States))
  BY <1>2, ReceiveOrder
<1>5. \A T : Nothing(toReader[r], T) <=> m \notin T /\ Nothing(q, T)
  BY <1>2, ReceiveFacts
<1> HIDE DEF m, q
<1>6. Idle'
  BY <1>1, <1>2, <1>3 DEF IInv, Idle
<1>7. Unaddressed'
  <2>1. \A t \in Readers : Nothing(toReader[t], Notices) => Nothing(toReader'[t], Notices)
    BY <1>2, <1>5
  <2> QED
    BY <2>1, ParametersAssumption DEF IInv, Unaddressed
<1>8. Opening'
  <2> SUFFICES ASSUME NEW t \in Readers PROVE Opens(t)'
    BY DEF Opening
  <2>1. Opens(t)
    BY DEF IInv, Opening
  <2>2. CASE t # r
    BY <1>1, <1>2, <2>1, <2>2 DEF Opens
  <2>3. CASE t = r
    <3>1. Nothing(toReader[r], States) => Nothing(q, States)
      BY <1>5
    <3>2. CASE phase[r] = "unauthenticated"
      <4>1. m # Success /\ ~Nothing(toReader[r], {Success}) => ~Nothing(q, {Success})
        BY <1>5
      <4> QED
        BY <1>1, <1>2, <1>3, <1>4, <2>1, <2>3, <3>1, <3>2, <4>1 DEF Opens
    <3>3. CASE phase[r] = "authenticated" /\ m \in States
      <4>1. serving[r] = "open"
        BY <1>5, <2>1, <2>3, <3>3 DEF Opens
      <4> QED
        BY <1>1, <1>2, <1>3, <1>4, <2>1, <2>3, <3>3, <4>1 DEF Opens
    <3>4. CASE phase[r] = "authenticated" /\ m \notin States
      <4>1. ~Nothing(toReader[r], States) => ~Nothing(q, States)
        BY <1>5, <3>4
      <4> QED
        BY <1>1, <1>2, <1>3, <1>4, <2>1, <2>3, <3>1, <3>4, <4>1 DEF Opens
    <3>5. CASE phase[r] = "connected"
      BY <1>1, <1>2, <1>3, <1>4, <2>1, <2>3, <3>1, <3>5 DEF Opens
    <3> QED
      BY <1>3, <3>2, <3>3, <3>4, <3>5
  <2> QED
    BY <2>2, <2>3
<1>9. RequestsTrue'
  <2> SUFFICES ASSUME NEW t \in Readers, NEW k \in Keys
               PROVE  Last(Outgoing(t), Asking(k), Granting(cache'[t][k]))
    BY <1>1, OutgoingKept DEF RequestsTrue
  <2>1. Last(Outgoing(t), Asking(k), Granting(cache[t][k]))
    BY DEF IInv, RequestsTrue
  <2>2. CASE t \in Writers /\ phase[t] = "connected"
    <3>1. cache'[t][k] = cache[t][k]
      <4>1. Nothing(toReader[t], Telling(k))
        BY <2>2, WriterHears DEF IInv
      <4> QED
        BY <1>2, <1>3, <1>5, <2>2, <4>1
    <3> QED
      BY <2>1, <3>1
  <2>3. CASE ~(t \in Writers /\ phase[t] = "connected")
    <3>1. Outgoing(t) = <<>>
      BY <2>3 DEF IInv, Idle, Outgoing
    <3> QED
      BY <3>1, EmptyFacts
  <2> QED
    BY <2>2, <2>3
<1>10. ArrivesTrue'
  <2> SUFFICES ASSUME NEW t \in Readers, NEW k \in Keys \ silent[t],
                      serving[t] \in {"dumped", "open"}, k \notin Unwritten(t),
                      Nothing(Outgoing(t), Asking(k))
               PROVE  Arrives(t, k, sheet[k])'
    BY <1>1, UnwrittenKept, OutgoingKept DEF ArrivesTrue
  <2>1. Arrives(t, k, sheet[k])
    BY DEF IInv, ArrivesTrue
  <2>2. CASE t # r \/ serving[t] = "dumped"
    BY <1>1, <1>2, <2>1, <2>2 DEF Arrives
  <2>3. CASE t = r /\ serving[t] = "open"
    <3>1. /\ Last(toReader[r], Telling(k), Saying(k, sheet[k]))
          /\ Nothing(toReader[r], Telling(k)) => cache[r][k] = sheet[k]
      BY <2>1, <2>3 DEF Arrives
    <3>2. /\ Last(q, Telling(k), Saying(k, sheet[k]))
          /\ Nothing(q, Telling(k)) /\ m \in Telling(k) => m \in Saying(k, sheet[k])
      BY <1>2, <3>1, ReceiveFacts DEF m, q
    <3>3. ASSUME Nothing(q, Telling(k))
          PROVE  cache'[r][k] = sheet[k]
      <4>1. Nothing(q, States)
        <5>1. States \subseteq Telling(k)
          BY NoticesMade DEF Telling
        <5> QED
          BY <3>3, <5>1 DEF Nothing
      <4>2. \/ phase[r] = "authenticated" /\ m \in States
            \/ phase[r] = "connected"
        <5>1. Opens(r)
          BY DEF IInv, Opening
        <5>2. phase[r] # "unauthenticated"
          BY <1>4, <2>3, <4>1, <5>1 DEF Opens
        <5>3. phase[r] = "authenticated" => m \in States
          BY <1>5, <2>3, <4>1, <5>1 DEF Opens
        <5> QED
          BY <1>3, <5>2, <5>3
      <4>3. m \in Telling(k) <=> m \in States \/ k \in m.keys
        BY <1>3, TellingFacts
      <4>4. CASE m \in Telling(k)
        <5>1. Tells(m, k) = sheet[k]
          BY <3>2, <3>3, <4>4 DEF Saying
        <5>2. CASE phase[r] = "connected"
          BY <1>3, <4>4, <5>1, <5>2
        <5>3. CASE phase[r] = "authenticated" /\ m \in States
          BY <1>3, <5>1, <5>3 DEF Tells
        <5> QED
          BY <4>2, <5>2, <5>3
      <4>5. CASE m \notin Telling(k)
        <5>1. phase[r] = "connected"
          BY <4>2, <4>3, <4>5
        <5>2. cache[r][k] = sheet[k]
          BY <1>5, <3>1, <3>3, <4>5
        <5> QED
          BY <1>3, <4>5, <5>1, <5>2
      <4> QED
        BY <4>4, <4>5
    <3> QED
      BY <1>1, <1>2, <2>3, <3>2, <3>3 DEF Arrives
  <2> QED
    BY <2>2, <2>3
<1> QED
  BY <1>1, <1>2, <1>6, <1>7, <1>8, <1>9, <1>10, PartsKept DEF IInv

LEMMA LocalWriteIInv ==
    ASSUME IInv, NEW r \in Writers, NEW req \in AnyRequest, LocalWrite(r, req)
    PROVE  IInv'
<1>0. r \in Readers
  BY ParametersAssumption
<1>1. /\ phase[r] = "connected" /\ sending[r] = None
      /\ UNCHANGED <<sheet, collaborators, serving, dumped, todo, targets>>
      /\ UNCHANGED <<phase, toServer, toReader, silent>>
  BY DEF LocalWrite, serverVars
<1>2. /\ Typed'
      /\ sending'[r] = req
      /\ \A t \in Readers \ {r} : sending'[t] = sending[t] /\ cache'[t] = cache[t]
      /\ \A k \in Keys : cache'[r][k] = IF k \in req.keys /\ req.kind # "set_null"
                                        THEN req.value ELSE cache[r][k]
  BY <1>0, LocalWriteTyped DEF IInv
<1>3. /\ Outgoing(r)' = Append(Outgoing(r), req) /\ Outgoing(r) \in Seq(AnyRequest)
      /\ \A t \in Readers \ {r} : Outgoing(t)' = Outgoing(t)
  <2>1. \A t \in Readers \ {r} : Outgoing(t)' = Outgoing(t)
    BY <1>1, <1>2, OutgoingKept
  <2>2. Outgoing(r)' = Append(Outgoing(r), req)
    BY <1>1, <1>2, NoneAssumption DEF Outgoing
  <2> QED
    BY <1>0, <2>1, <2>2, OutgoingFacts DEF IInv
<1>4. Idle'
  BY <1>1, <1>2 DEF IInv, Idle
<1>5. RequestsTrue'
  <2> SUFFICES ASSUME NEW t \in Readers, NEW k \in Keys
               PROVE  Last(Outgoing(t)', Asking(k), Granting(cache'[t][k]))
    BY DEF RequestsTrue
  <2>1. Last(Outgoing(t), Asking(k), Granting(cache[t][k]))
    BY DEF IInv, RequestsTrue
  <2>2. CASE t # r
    BY <1>2, <1>3, <2>1, <2>2
  <2>3. CASE t = r /\ req \in Asking(k)
    <3>1. req \in Granting(cache'[r][k])
      BY <1>2, <2>3 DEF Asking, Granting
    <3>2. Last(Append(Outgoing(r), req), Asking(k), Granting(cache'[r][k]))
      BY <1>3, <2>3, <3>1, SendFacts
    <3> QED
      BY <1>3, <2>3, <3>2
  <2>4. CASE t = r /\ req \notin Asking(k)
    <3>1. cache'[r][k] = cache[r][k]
      BY <1>2, <2>4 DEF Asking
    <3>2. Last(Append(Outgoing(r), req), Asking(k), Granting(cache[r][k]))
      BY <1>3, <2>1, <2>4, SendFacts
    <3> QED
      BY <1>3, <2>4, <3>1, <3>2
  <2> QED
    BY <2>2, <2>3, <2>4
<1>6. ArrivesTrue'
  <2> SUFFICES ASSUME NEW t \in Readers, NEW k \in Keys \ silent[t],
                      serving[t] \in {"dumped", "open"}, k \notin Unwritten(t),
                      Nothing(Outgoing(t)', Asking(k))
               PROVE  Arrives(t, k, sheet[k])'
    BY <1>1, UnwrittenKept DEF ArrivesTrue
  <2>1. Nothing(Outgoing(t), Asking(k)) /\ cache'[t][k] = cache[t][k]
    <3>1. CASE t # r
      BY <1>2, <1>3, <3>1
    <3>2. CASE t = r
      <4>1. Nothing(Append(Outgoing(r), req), Asking(k))
        BY <1>3, <3>2
      <4>2. Nothing(Outgoing(r), Asking(k)) /\ req \notin Asking(k)
        BY <1>3, <4>1, SendFacts
      <4> QED
        BY <1>2, <3>2, <4>2 DEF Asking
    <3> QED
      BY <3>1, <3>2
  <2>2. Arrives(t, k, sheet[k])
    BY <2>1 DEF IInv, ArrivesTrue
  <2> QED
    BY <1>1, <2>1, <2>2 DEF Arrives
<1> QED
  BY <1>1, <1>2, <1>4, <1>5, <1>6, PartsKept DEF IInv

LEMMA SendIInv ==
    ASSUME IInv, NEW r \in Readers, Send(r)
    PROVE  IInv'
<1>1. /\ sending[r] # None /\ toServer' = [toServer EXCEPT ![r] = Append(toServer[r], sending[r])]
      /\ sending' = [sending EXCEPT ![r] = None]
      /\ UNCHANGED <<sheet, collaborators, serving, dumped, todo, targets>>
      /\ UNCHANGED <<phase, cache, writes, toReader, silent>>
  BY DEF Send, serverVars
<1>2. /\ sending'[r] = None /\ toServer'[r] = Append(toServer[r], sending[r])
      /\ \A t \in Readers \ {r} : sending'[t] = sending[t] /\ toServer'[t] = toServer[t]
  BY <1>1 DEF IInv, Typed, TypedReaders
<1>3. \A t \in Readers : Outgoing(t)' = Outgoing(t)
  BY <1>1, <1>2 DEF Outgoing
<1>4. Typed'
  BY SendTyped DEF IInv
<1>5. Idle'
  BY <1>1, <1>2 DEF IInv, Idle
<1>6. RequestsTrue'
  BY <1>1, <1>3 DEF IInv, RequestsTrue
<1>7. ArrivesTrue'
  <2> SUFFICES ASSUME NEW t \in Readers, NEW k \in Keys \ silent[t],
                      serving[t] \in {"dumped", "open"}, k \notin Unwritten(t),
                      Nothing(Outgoing(t), Asking(k))
               PROVE  Arrives(t, k, sheet[k])'
    BY <1>1, <1>3, UnwrittenKept DEF ArrivesTrue
  <2>1. Arrives(t, k, sheet[k])
    BY DEF IInv, ArrivesTrue
  <2> QED
    BY <1>1, <2>1 DEF Arrives
<1> QED
  BY <1>1, <1>4, <1>5, <1>6, <1>7, PartsKept DEF IInv

LEMMA StutterIInv ==
    ASSUME IInv, UNCHANGED vars
    PROVE  IInv'
<1> USE DEF vars, serverVars, readerVars
<1>1. Typed'
  BY NextTyped DEF IInv
<1>2. ArrivesTrue'
  BY UnwrittenKept, OutgoingKept DEF IInv, ArrivesTrue, Arrives
<1> QED
  BY <1>1, <1>2, PartsKept DEF IInv

LEMMA NextIInv ==
    ASSUME SoleWriter, IInv, [Next]_vars
    PROVE  IInv'
<1>1. ASSUME NEW r \in Readers, Proceed(r)
      PROVE  IInv'
  BY <1>1, AddCollaboratorIInv, OpenResponseIInv, DumpIInv, sendSheetStateIInv, HandleRequestIInv,
     sendResponseIInv, BroadcastStartIInv, BroadcastWriteIInv, ReceiveIInv, SendIInv DEF Proceed
<1>2. ASSUME NEW r \in Readers, Dial(r)
      PROVE  IInv'
  BY <1>2, DialIInv
<1>3. ASSUME NEW r \in Writers, NEW req \in AnyRequest, LocalWrite(r, req)
      PROVE  IInv'
  BY <1>3, LocalWriteIInv
<1>4. ASSUME NEW k \in Keys, Expire(k)
      PROVE  IInv'
  BY <1>4, ExpireIInv
<1>5. CASE UNCHANGED vars
  BY <1>5, StutterIInv
<1> QED
  BY <1>1, <1>2, <1>3, <1>4, <1>5 DEF Next

-----------------------------------------------------------------------------
\* Whoever writes, and however many: every variable keeps its type, and a
\* broadcast under way is one to collaborators other than its sender.
THEOREM TypeCorrect == Spec => []TypeOK
<1>1. Typed /\ [Next]_vars => Typed'
  BY NextTyped
<1>2. Typed => TypeOK
  BY DEF Typed, TypedServer, TypedReaders, Broadcasting, TypeOK
<1> QED
  BY InitTyped, <1>1, <1>2, PTL DEF Spec

\* With one writer: what its handler has yet to write is what the sheet has,
\* what it has asked for last is what it has itself, and every Reader whose
\* open has come to the dump will have what the sheet has, when all that is on
\* its way has arrived, but for the keys changed silently.
THEOREM Invariance ==
    ASSUME SoleWriter
    PROVE  Spec => []IInv
<1>1. IInv /\ [Next]_vars => IInv'
  BY NextIInv
<1> QED
  BY InitIInv, <1>1, PTL DEF Spec

\* With one writer, a connected Reader with nothing on its way holds for every
\* key what the sheet holds, unless the key's last change was one that
\* handleSet, handleSetNull, handleDelete or the cache tells nobody.
THEOREM ReadersInSync ==
    ASSUME SoleWriter
    PROVE  Spec => []DiffersOnlySilently
<1>1. IInv => DiffersOnlySilently
  <2> SUFFICES ASSUME IInv, NEW r \in Readers, NEW k \in Keys \ silent[r], Settled(r)
               PROVE  cache[r][k] = sheet[k]
    BY DEF DiffersOnlySilently
  <2>1. /\ phase[r] = "connected" /\ toReader[r] = <<>> /\ Outgoing(r) = <<>>
        /\ \A w \in Readers : todo[w] = <<>>
    BY DEF Settled, Outgoing
  <2>2. serving[r] = "open"
    BY <2>1 DEF IInv, Opening, Opens
  <2>3. Unwritten(r) = {}
    BY <2>1, NothingUnwritten DEF IInv
  <2>4. Arrives(r, k, sheet[k])
    BY <2>1, <2>2, <2>3, EmptyFacts DEF IInv, ArrivesTrue
  <2> QED
    BY <2>1, <2>2, <2>4, EmptyFacts DEF Arrives
<1> QED
  BY Invariance, <1>1, PTL
=============================================================================
