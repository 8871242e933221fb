---------------------------- MODULE Replication ----------------------------
(***************************************************************************)
(* One sheet of a leader and its copy on a replica: ws/handler.go          *)
(* (register_replica, sendFullState, broadcastToReplicas and the handlers  *)
(* that call it) and replica/client.go (the messages it applies).          *)
(*                                                                         *)
(* A handler changes the sheet in one step (the cache's mutex) and writes  *)
(* the replicate messages afterwards without any lock.  Replicas share     *)
(* nothing, so one is enough, and the Range over the replicas is one look  *)
(* at whether it is registered.  Its channel is FIFO and may break.        *)
(*                                                                         *)
(* Both caches are the abstract one of module LRU with the order of last   *)
(* use left open: Gets are not replicated, so the two orders differ.       *)
(***************************************************************************)
EXTENDS Integers, Sequences, FiniteSets

CONSTANTS
    Writers,       \* the leader's clients
    Keys, Values, None,
    EmptyKey,      \* the key ""
    Families,      \* the sets of keys that a prefix or a suffix selects
    Capacity,      \* of the sheet's cache, on both sides (0: unlimited)
    Expiring,      \* whether entries outlive their TTL
    MaxWrites,     \* bound: the number of requests
    MaxBreaks      \* bound: how often the connection breaks

ASSUME ParametersAssumption ==
    /\ Capacity \in Nat /\ MaxWrites \in Nat /\ MaxBreaks \in Nat
    /\ Expiring \in BOOLEAN
    /\ None \notin Values
    /\ \A F \in Families : F \subseteq Keys

VARIABLES
    sheet,     \* the leader's sheet: Keys -> value or None
    todo,      \* the messages each handler has yet to write to the replica
    link,      \* what the handler of the replica's connection has done
    dumped,    \* the state that sendFullState has read and not yet written
    toReplica, \* the channel
    copy,      \* the replica's sheet
    loading,   \* what applyFullState has yet to load
    writes, breaks,
    doubtful   \* history: keys of which the replica was not told in order

vars == <<sheet, todo, link, dumped, toReplica, copy, loading, writes, breaks, doubtful>>

NoData == [k \in Keys |-> None]

\* A map without the entries for the keys in S.
Without(map, S) == [k \in Keys |-> IF k \in S THEN None ELSE map[k]]

Stored(map) == {k \in Keys : map[k] # None}

\* The keys that storing k may evict.
Evictable(map, k) ==
    IF Capacity > 0 /\ k \notin Stored(map) /\ Cardinality(Stored(map)) >= Capacity
    THEN Stored(map) ELSE {}

-----------------------------------------------------------------------------
Replicate(k, v) == [type |-> "replicate", keys |-> {k}, data |-> v]
Removal(S) == [type |-> "remove", keys |-> S, data |-> None]
FullState(data) == [type |-> "full_state", keys |-> {}, data |-> data]

\* The evictedKey "" says that nothing was evicted.
EvictionNotice(old) == IF old = EmptyKey THEN <<>> ELSE <<Removal({old})>>

Init ==
    /\ sheet = NoData
    /\ todo = [w \in Writers |-> <<>>]
    /\ link = "down"
    /\ dumped = NoData
    /\ toReplica = <<>>
    /\ copy = NoData
    /\ loading = NoData
    /\ writes = 0 /\ breaks = 0
    /\ doubtful = {}

-----------------------------------------------------------------------------
(* The leader. *)

\* The keys of which handlers have yet to write something.
Pending == UNION {UNION {todo[w][i].keys : i \in DOMAIN todo[w]} : w \in Writers}

\* Handler w has changed the keys in S and goes on to write msgs, which may
\* overtake what another handler has to write of the same keys; of the keys
\* in quiet it writes nothing.
Handles(w, S, msgs, quiet) ==
    /\ todo[w] = <<>>
    /\ writes < MaxWrites
    /\ writes' = writes + 1
    /\ todo' = [todo EXCEPT ![w] = msgs]
    /\ doubtful' = (doubtful \ S) \cup (S \cap Pending) \cup quiet
    /\ UNCHANGED <<link, dumped, toReplica, copy, loading, breaks>>

\* handleSet and handleSetNull.
handleSet(w, k, v) ==
    \/ /\ Evictable(sheet, k) = {}
       /\ sheet' = [sheet EXCEPT ![k] = v]
       /\ Handles(w, {k}, <<Replicate(k, v)>>, {})
    \/ \E old \in Evictable(sheet, k) :
          /\ sheet' = [sheet EXCEPT ![old] = None, ![k] = v]
          /\ Handles(w, {k, old}, <<Replicate(k, v)>> \o EvictionNotice(old),
                     {old} \cap {EmptyKey})

\* handleDelete, handleDeletePrefix and handleDeleteSuffix.
handleDelete(w, S) ==
    /\ sheet' = Without(sheet, S)
    /\ Handles(w, S, <<Removal(S)>>, {})

\* The last collaborator leaves and the sheet is deleted: the next one with
\* that ID is empty, and no message says so.
LoseSheet ==
    /\ \A w \in Writers : todo[w] = <<>>
    /\ Stored(sheet) # {}
    /\ writes < MaxWrites
    /\ writes' = writes + 1
    /\ sheet' = NoData
    /\ doubtful' = doubtful \cup Stored(sheet)
    /\ UNCHANGED <<todo, link, dumped, toReplica, copy, loading, breaks>>

\* Get's lazy expiration or the TTL cleaner, on either side.
Expire(k) ==
    /\ Expiring
    /\ \/ /\ k \in Stored(sheet)
          /\ sheet' = Without(sheet, {k})
          /\ UNCHANGED copy
       \/ /\ k \in Stored(copy)
          /\ copy' = Without(copy, {k})
          /\ UNCHANGED sheet
    /\ doubtful' = doubtful \cup {k}
    /\ UNCHANGED <<todo, link, dumped, toReplica, loading, writes, breaks>>

\* The replica's connection is in the handler's replicas map.
registered == link \in {"registered", "dumped", "synced"}

\* broadcastToReplicas.  What is written after the dump is overtaken by it;
\* a removal that finds no replica will not be repeated by a full state.
broadcastToReplicas(w) ==
    LET msg == Head(todo[w]) IN
    /\ todo[w] # <<>>
    /\ todo' = [todo EXCEPT ![w] = Tail(@)]
    /\ toReplica' = IF registered THEN Append(toReplica, msg) ELSE toReplica
    /\ doubtful' = IF link = "dumped" \/ (~registered /\ msg.type = "remove")
                   THEN doubtful \cup msg.keys ELSE doubtful
    /\ UNCHANGED <<sheet, link, dumped, copy, loading, writes, breaks>>

\* handleRegisterReplica stores the replica first ...
handleRegisterReplica ==
    /\ link = "dialed"
    /\ link' = "registered"
    /\ UNCHANGED <<sheet, todo, dumped, toReplica, copy, loading, writes, breaks, doubtful>>

\* ... then dumps the sheets; what handlers have yet to write may be older ...
Dump ==
    /\ link = "registered"
    /\ link' = "dumped"
    /\ dumped' = sheet
    /\ doubtful' = doubtful \ (Stored(sheet) \ Pending)
    /\ UNCHANGED <<sheet, todo, toReplica, copy, loading, writes, breaks>>

\* ... and writes them.
sendFullState ==
    /\ link = "dumped"
    /\ link' = "synced"
    /\ toReplica' = Append(toReplica, FullState(dumped))
    /\ dumped' = NoData
    /\ UNCHANGED <<sheet, todo, copy, loading, writes, breaks, doubtful>>

\* The connection breaks.  What was on its way is lost, and what removals
\* among it said, no full state will say again.
Break ==
    /\ link # "down"
    /\ breaks < MaxBreaks
    /\ breaks' = breaks + 1
    /\ link' = "down"
    /\ dumped' = NoData
    /\ toReplica' = <<>>
    /\ doubtful' = doubtful \cup
          UNION {toReplica[i].keys : i \in {j \in DOMAIN toReplica : toReplica[j].type = "remove"}}
    /\ UNCHANGED <<sheet, todo, copy, loading, writes>>

-----------------------------------------------------------------------------
(* The replica. *)

\* Connect: dial and send register_replica, at first and after a break.
Connect ==
    /\ link = "down"
    /\ loading = NoData
    /\ link' = "dialed"
    /\ UNCHANGED <<sheet, todo, dumped, toReplica, copy, loading, writes, breaks, doubtful>>

\* Mutants of applySet: a cache that does not evict; a set for a sheet that
\* the replica does not have is ignored, as applyDelete does.
applySetUnbounded(k, v) ==
    /\ copy' = [copy EXCEPT ![k] = v]
    /\ UNCHANGED doubtful

applySetToKnown(k, v) ==
    /\ copy' = IF copy = NoData THEN copy ELSE [copy EXCEPT ![k] = v]
    /\ UNCHANGED doubtful

\* Set on the copy, which may evict another key than the leader's did; what
\* it evicts is told to nobody.
applySet(k, v) ==
    \/ /\ Evictable(copy, k) = {}
       /\ copy' = [copy EXCEPT ![k] = v]
       /\ UNCHANGED doubtful
    \/ \E old \in Evictable(copy, k) :
          /\ copy' = [copy EXCEPT ![old] = None, ![k] = v]
          /\ doubtful' = doubtful \cup {old}

\* The listener takes the next message when it is done with the last.
Receive ==
    LET msg == Head(toReplica) IN
    /\ toReplica # <<>> /\ loading = NoData
    /\ \/ /\ msg.type = "replicate"
          /\ \E k \in msg.keys : applySet(k, msg.data)
          /\ UNCHANGED loading
       \/ /\ msg.type = "remove"
          /\ copy' = Without(copy, msg.keys)
          /\ UNCHANGED <<loading, doubtful>>
       \/ /\ msg.type = "full_state"
          /\ loading' = msg.data
          /\ UNCHANGED <<copy, doubtful>>
    /\ toReplica' = Tail(toReplica)
    /\ UNCHANGED <<sheet, todo, link, dumped, writes, breaks>>

\* Mutant of applyFullState: keys that the replica has already are left alone.
applyMissing(k) ==
    /\ k \in Stored(loading)
    /\ IF copy[k] = None THEN applySet(k, loading[k]) ELSE UNCHANGED <<copy, doubtful>>
    /\ loading' = Without(loading, {k})
    /\ UNCHANGED <<sheet, todo, link, dumped, toReplica, writes, breaks>>

\* applyFullState sets key by key; it clears nothing.
applyFullState(k) ==
    /\ k \in Stored(loading)
    /\ applySet(k, loading[k])
    /\ loading' = Without(loading, {k})
    /\ UNCHANGED <<sheet, todo, link, dumped, toReplica, writes, breaks>>

\* The steps the scheduler owes.
Proceed ==
    \/ \E w \in Writers : broadcastToReplicas(w)
    \/ handleRegisterReplica \/ Dump \/ sendFullState
    \/ Receive \/ \E k \in Keys : applyFullState(k)

Next ==
    \/ Proceed
    \/ \E w \in Writers :
          \/ \E k \in Keys, v \in Values : handleSet(w, k, v)
          \/ \E S \in Families \cup {{k} : k \in Keys} : handleDelete(w, S)
    \/ LoseSheet \/ Break \/ Connect
    \/ \E k \in Keys : Expire(k)

Spec == Init /\ [][Next]_vars /\ WF_vars(Proceed)

-----------------------------------------------------------------------------
Data == [Keys -> Values \cup {None}]

\* Type correctness of every variable; neither cache outgrows its capacity.
TypeOK ==
    /\ \A map \in {sheet, copy} :
          /\ map \in Data
          /\ Capacity > 0 => Cardinality(Stored(map)) <= Capacity
    /\ link \in {"down", "dialed", "registered", "dumped", "synced"}
    /\ dumped \in Data /\ loading \in Data
    /\ writes \in 0 .. MaxWrites /\ breaks \in 0 .. MaxBreaks
    /\ doubtful \subseteq Keys

\* The replica is connected and nothing is on its way to it.
Settled ==
    /\ link = "synced" /\ toReplica = <<>> /\ loading = NoData
    /\ \A w \in Writers : todo[w] = <<>>

\* The replica "Receives all sheets + data on connect" and "Gets all subsequent
\* changes" (CACHING_SYSTEM_REPORT.md:480): when nothing is on its way, it has
\* whatever the leader has.
ReplicaHasAll == Settled => \A k \in Stored(sheet) : copy[k] = sheet[k]

\* A settled replica differs from the leader only in keys that were lost with
\* the sheet, expired, were evicted by the replica's own cache, were removed
\* while it was away, changed during its registration, were written by two
\* handlers at once, or in the key "" when the leader evicted it.
ReplicaDiffersOnlyInDoubt ==
    Settled => \A k \in Keys : copy[k] = sheet[k] \/ k \in doubtful

\* A replica that stays connected catches up, in all other keys.
EventuallyReplicated ==
    \A k \in Keys :
        <>[](\/ link = "down"
             \/ link = "synced" /\ (copy[k] = sheet[k] \/ k \in doubtful))
=============================================================================
