----------------------------- MODULE SheetSync -----------------------------
(***************************************************************************)
(* One sheet on one server and the Readers that share it: ws/handler.go    *)
(* (open, set, set_null, delete, delete_prefix), sheet/sheet.go (Broadcast)*)
(* and reader/reader.go (connectTo, listen, Set, Delete, DeletePrefix).    *)
(*                                                                         *)
(* Every connection has a handler goroutine on the server and one FIFO     *)
(* channel each way, on which it blocks when it is full.  A handler changes*)
(* the sheet's cache in one step (its mutex), answers, and then writes to  *)
(* the other collaborators one by one, holding only a read lock: handlers  *)
(* interleave at every write.                                              *)
(*                                                                         *)
(* The cache is the abstract one of module LRU with the order of last use  *)
(* left open (anybody's Get changes it) and without clock: "expire" may    *)
(* take a key at any time.                                                 *)
(***************************************************************************)
EXTENDS Integers, Sequences, FiniteSets

CONSTANTS
    Readers,         \* the connections, each with the Reader behind it
    Writers,         \* those that write
    Late,            \* those that connect while others write
    Keys, Values,
    EmptyKey,        \* the key ""
    Families,        \* the sets of keys that a prefix other than "" selects
    Capacity,        \* of the sheet's cache (0: unlimited)
    NullPlaceholder, None,
    Requests,        \* the kinds of request the writers use
    Expiring,        \* whether entries outlive their TTL
    Buffer,          \* the messages a connection takes each way until it is full
    MaxWrites        \* bound: the number of requests in a behaviour

ASSUME ParametersAssumption ==
    /\ Writers \subseteq Readers /\ Late \subseteq Readers
    /\ Requests \subseteq {"set", "set_null", "delete", "delete_prefix", "clear"}
    /\ Capacity \in Nat /\ MaxWrites \in Nat /\ Expiring \in BOOLEAN
    /\ Buffer \in Nat \ {0}
    /\ \A F \in Families : F \subseteq Keys \ {EmptyKey}

VARIABLES
    sheet,         \* the sheet's cache: Keys -> value or None
    collaborators, \* its Collaborators map
    serving,       \* what each handler has done for its connection's open
    dumped,        \* the state that handleOpen has read and not yet written
    todo,          \* the messages each handler has yet to write, its response first
    targets,       \* whom the broadcast under way has yet to write to
    phase,         \* where each Reader is in connectTo
    cache,         \* each Reader's local cache
    sending,       \* the request whose local half a Reader has done
    toServer, toReader, \* the channels
    writes,        \* how many requests there have been
    silent         \* history: keys changed at the server without telling a Reader

serverVars == <<sheet, collaborators, serving, dumped, todo, targets>>
readerVars == <<phase, cache, sending, writes>>
vars == <<serverVars, readerVars, toServer, toReader, silent>>

NoData == [k \in Keys |-> None]

\* A map without the entries for the keys in S.
Without(map, S) == [k \in Keys |-> IF k \in S THEN None ELSE map[k]]

Stored == {k \in Keys : sheet[k] # None}

-----------------------------------------------------------------------------
(* Messages.  An invalidate names what the reader has to delete; a key or a *)
(* prefix of "" is left out of the JSON: the reader finds nothing to delete. *)

Replicate(k, v) == [type |-> "replicate", keys |-> {k}, value |-> v]
Invalidate(S) == [type |-> "invalidate", keys |-> S, value |-> None]
Success == [type |-> "response", keys |-> {}, value |-> None]
SheetState(data) == [type |-> "sheet_state", keys |-> {}, value |-> data]

Request(kind, S, v) == [kind |-> kind, keys |-> S, value |-> v]

\* What a request deletes, and what the others are told to delete.
Announced(req) == IF req.kind = "clear" THEN {} ELSE req.keys \ {EmptyKey}

-----------------------------------------------------------------------------
Init ==
    /\ sheet = NoData
    /\ collaborators = Readers \ Late
    /\ serving = [r \in Readers |-> IF r \in Late THEN "waiting" ELSE "open"]
    /\ dumped = [r \in Readers |-> NoData]
    /\ todo = [r \in Readers |-> <<>>]
    /\ targets = [r \in Readers |-> {}]
    /\ phase = [r \in Readers |-> IF r \in Late THEN "new" ELSE "connected"]
    /\ cache = [r \in Readers |-> NoData]
    /\ sending = [r \in Readers |-> None]
    /\ toServer = [r \in Readers |-> <<>>]
    /\ toReader = [r \in Readers |-> <<>>]
    /\ writes = 0
    /\ silent = [r \in Readers |-> {}]

\* WriteMessage, without a deadline.
Write(r, msg) ==
    /\ Len(toReader[r]) < Buffer
    /\ toReader' = [toReader EXCEPT ![r] = Append(@, msg)]

\* RWMutex: collaborators come and go only when nobody is broadcasting.
Unlocked == \A r \in Readers : targets[r] = {}

-----------------------------------------------------------------------------
(* The server: handleOpen in its four steps. *)

AddCollaborator(r) ==
    /\ serving[r] = "dialed"
    /\ Unlocked
    /\ collaborators' = collaborators \cup {r}
    /\ serving' = [serving EXCEPT ![r] = "joined"]
    /\ UNCHANGED <<sheet, dumped, todo, targets, readerVars, toServer, toReader, silent>>

OpenResponse(r) ==
    /\ serving[r] = "joined"
    /\ Write(r, Success)
    /\ serving' = [serving EXCEPT ![r] = "answered"]
    /\ UNCHANGED <<sheet, collaborators, dumped, todo, targets, readerVars, toServer, silent>>

Dump(r) ==
    /\ serving[r] = "answered"
    /\ dumped' = [dumped EXCEPT ![r] = sheet]
    /\ serving' = [serving EXCEPT ![r] = "dumped"]
    /\ UNCHANGED <<sheet, collaborators, todo, targets, readerVars, toServer, toReader, silent>>

\* Mutant of sendSheetState: nothing is written for an empty sheet.
sendNonEmptyState(r) ==
    /\ serving[r] = "dumped"
    /\ IF dumped[r] = NoData THEN UNCHANGED toReader ELSE Write(r, SheetState(dumped[r]))
    /\ dumped' = [dumped EXCEPT ![r] = NoData]
    /\ serving' = [serving EXCEPT ![r] = "open"]
    /\ UNCHANGED <<sheet, collaborators, todo, targets, readerVars, toServer, silent>>

sendSheetState(r) ==
    /\ serving[r] = "dumped"
    /\ Write(r, SheetState(dumped[r]))
    /\ dumped' = [dumped EXCEPT ![r] = NoData]
    /\ serving' = [serving EXCEPT ![r] = "open"]
    /\ UNCHANGED <<sheet, collaborators, todo, targets, readerVars, toServer, silent>>

-----------------------------------------------------------------------------
(* The server: the handlers that change the cache. *)

\* Handler r has changed the keys in S and goes on to answer and to broadcast
\* msgs; of the keys in quiet[t] nobody will tell Reader t.
Changed(r, S, msgs, quiet) ==
    /\ todo' = [todo EXCEPT ![r] = <<Success>> \o msgs]
    /\ silent' = [t \in Readers |-> (silent[t] \ S) \cup quiet[t]]

\* The keys that storing k may evict.
Evictable(k) ==
    IF Capacity > 0 /\ k \notin Stored /\ Cardinality(Stored) >= Capacity
    THEN Stored ELSE {}

\* Mutant of Put: what a Set evicts is not announced.
PutWithoutInvalidate(r, k, v, msgs, quiet) ==
    \/ /\ Evictable(k) = {}
       /\ sheet' = [sheet EXCEPT ![k] = v]
       /\ Changed(r, {k}, msgs, [t \in Readers |-> quiet])
    \/ \E old \in Evictable(k) :
          /\ sheet' = [sheet EXCEPT ![old] = None, ![k] = v]
          /\ Changed(r, {k, old}, msgs,
                     [t \in Readers |-> quiet \cup (IF t = r THEN {old} ELSE {})])

\* The evictedKey "" says that nothing was evicted.
EvictionNotice(old) == IF old = EmptyKey THEN <<>> ELSE <<Invalidate({old})>>

\* Set or SetNull on the cache, then the invalidation of what it evicted: for
\* all collaborators but the one whose Set it was.
Put(r, k, v, msgs, quiet) ==
    \/ /\ Evictable(k) = {}
       /\ sheet' = [sheet EXCEPT ![k] = v]
       /\ Changed(r, {k}, msgs, [t \in Readers |-> quiet])
    \/ \E old \in Evictable(k) :
          /\ sheet' = [sheet EXCEPT ![old] = None, ![k] = v]
          /\ Changed(r, {k, old}, msgs \o EvictionNotice(old),
                     [t \in Readers |->
                         quiet \cup (IF t = r \/ old = EmptyKey THEN {old} ELSE {})])

handleSet(r, req) ==
    /\ req.kind = "set"
    /\ \E k \in req.keys : Put(r, k, req.value, <<Replicate(k, req.value)>>, {})

\* Replicated to followers, broadcast to nobody.
handleSetNull(r, req) ==
    /\ req.kind = "set_null"
    /\ \E k \in req.keys : Put(r, k, NullPlaceholder, <<>>, {k})

\* handleDelete, handleDeletePrefix and handleDeleteSuffix.
handleDelete(r, req) ==
    /\ req.kind \in {"delete", "delete_prefix", "clear"}
    /\ sheet' = Without(sheet, req.keys)
    /\ Changed(r, req.keys, <<Invalidate(Announced(req))>>,
               [t \in Readers |-> IF t = r THEN {} ELSE req.keys \ Announced(req)])

\* The read loop takes the next request when the handler of the last returned.
HandleRequest(r) ==
    /\ serving[r] = "open" /\ todo[r] = <<>> /\ toServer[r] # <<>>
    /\ LET req == Head(toServer[r]) IN
          handleSet(r, req) \/ handleSetNull(r, req) \/ handleDelete(r, req)
    /\ toServer' = [toServer EXCEPT ![r] = Tail(@)]
    /\ UNCHANGED <<collaborators, serving, dumped, targets, readerVars, toReader>>

sendResponse(r) ==
    /\ todo[r] # <<>> /\ Head(todo[r]) = Success
    /\ Write(r, Success)
    /\ todo' = [todo EXCEPT ![r] = Tail(@)]
    /\ UNCHANGED <<sheet, collaborators, serving, dumped, targets, readerVars, toServer, silent>>

\* A handler that has answered and is about to broadcast.
Broadcasts(r) == todo[r] # <<>> /\ Head(todo[r]) # Success /\ targets[r] = {}

\* Mutant of BroadcastStart: the sender is not skipped.
BroadcastToAll(r) ==
    /\ Broadcasts(r)
    /\ targets' = [targets EXCEPT ![r] = collaborators]
    /\ UNCHANGED <<sheet, collaborators, serving, dumped, todo, readerVars, toServer,
                   toReader, silent>>

\* Broadcast and BroadcastSetMsg take the read lock ...
BroadcastStart(r) ==
    LET others == collaborators \ {r} IN
    /\ Broadcasts(r)
    /\ targets' = [targets EXCEPT ![r] = others]
    /\ todo' = IF others = {} THEN [todo EXCEPT ![r] = Tail(@)] ELSE todo
    /\ UNCHANGED <<sheet, collaborators, serving, dumped, readerVars, toServer, toReader, silent>>

\* ... and write to one collaborator after the other, in any order.  What is
\* written between the Dump and the sheet_state of an open will be dropped.
BroadcastWrite(r, t) ==
    LET msg == Head(todo[r]) IN
    /\ t \in targets[r]
    /\ Write(t, msg)
    /\ targets' = [targets EXCEPT ![r] = @ \ {t}]
    /\ todo' = IF targets[r] = {t} THEN [todo EXCEPT ![r] = Tail(@)] ELSE todo
    /\ silent' = IF serving[t] = "dumped"
                 THEN [silent EXCEPT ![t] = @ \cup msg.keys] ELSE silent
    /\ UNCHANGED <<sheet, collaborators, serving, dumped, readerVars, toServer>>

\* Get's lazy expiration or the TTL cleaner: nobody is told.
Expire(k) ==
    /\ Expiring
    /\ k \in Stored
    /\ sheet' = Without(sheet, {k})
    /\ silent' = [r \in Readers |-> silent[r] \cup {k}]
    /\ UNCHANGED <<collaborators, serving, dumped, todo, targets, readerVars, toServer, toReader>>

-----------------------------------------------------------------------------
(* The Reader. *)

\* connectTo: dial and send the open request.
Dial(r) ==
    /\ phase[r] = "new"
    /\ phase' = [phase EXCEPT ![r] = "unauthenticated"]
    /\ serving' = [serving EXCEPT ![r] = "dialed"]
    /\ UNCHANGED <<sheet, collaborators, dumped, todo, targets, cache, sending,
                   writes, toServer, toReader, silent>>

\* connectTo's loop skips everything but the response it waits for ...
Authenticate(r, msg) ==
    /\ phase[r] = "unauthenticated"
    /\ phase' = IF msg.type = "response"
                THEN [phase EXCEPT ![r] = "authenticated"] ELSE phase
    /\ UNCHANGED cache

\* ... and then everything but the sheet_state.
LoadState(r, msg) ==
    /\ phase[r] = "authenticated"
    /\ IF msg.type = "sheet_state"
       THEN /\ phase' = [phase EXCEPT ![r] = "connected"]
            /\ cache' = [cache EXCEPT ![r] = msg.value]
       ELSE UNCHANGED <<phase, cache>>

handleMessage(r, msg) ==
    /\ phase[r] = "connected"
    /\ cache' = [cache EXCEPT ![r] =
          CASE msg.type = "sheet_state" -> msg.value
            [] msg.type = "replicate" ->
                  [k \in Keys |-> IF k \in msg.keys THEN msg.value ELSE @[k]]
            [] msg.type = "invalidate" -> Without(@, msg.keys)
            [] OTHER -> @]
    /\ UNCHANGED phase

Receive(r) ==
    /\ toReader[r] # <<>>
    /\ LET msg == Head(toReader[r]) IN
          Authenticate(r, msg) \/ LoadState(r, msg) \/ handleMessage(r, msg)
    /\ toReader' = [toReader EXCEPT ![r] = Tail(@)]
    /\ UNCHANGED <<serverVars, sending, writes, toServer, silent>>

\* The first half of Set, Delete, DeletePrefix: the local cache.  set_null is
\* no method of Reader; whoever sends it has no local copy to change.
LocalWrite(r, req) ==
    /\ phase[r] = "connected" /\ sending[r] = None
    /\ writes < MaxWrites
    /\ writes' = writes + 1
    /\ req.kind \in Requests
    /\ cache' = CASE req.kind = "set" ->
                        [cache EXCEPT ![r] = [k \in Keys |->
                            IF k \in req.keys THEN req.value ELSE @[k]]]
                  [] req.kind = "set_null" -> cache
                  [] OTHER -> [cache EXCEPT ![r] = Without(@, req.keys)]
    /\ sending' = [sending EXCEPT ![r] = req]
    /\ UNCHANGED <<serverVars, phase, toServer, toReader, silent>>

\* The second half: send, in program order.
Send(r) ==
    /\ sending[r] # None /\ Len(toServer[r]) < Buffer
    /\ toServer' = [toServer EXCEPT ![r] = Append(@, sending[r])]
    /\ sending' = [sending EXCEPT ![r] = None]
    /\ UNCHANGED <<serverVars, phase, cache, writes, toReader, silent>>

AnyRequest ==
    {Request("set", {k}, v) : k \in Keys, v \in Values}
    \cup {Request(kind, {k}, None) : kind \in {"set_null", "delete"}, k \in Keys}
    \cup {Request("delete_prefix", F, None) : F \in Families}
    \cup {Request("clear", Keys, None)}

ASSUME NoneAssumption == None \notin AnyRequest

\* The steps the scheduler owes: goroutines that can run, messages that can
\* be read.
Proceed(r) ==
    \/ AddCollaborator(r) \/ OpenResponse(r) \/ Dump(r) \/ sendSheetState(r)
    \/ HandleRequest(r) \/ sendResponse(r) \/ BroadcastStart(r)
    \/ \E t \in Readers : BroadcastWrite(r, t)
    \/ Receive(r) \/ Send(r)

Next ==
    \/ \E r \in Readers : Proceed(r) \/ Dial(r)
    \/ \E r \in Writers, req \in AnyRequest : LocalWrite(r, req)
    \/ \E k \in Keys : Expire(k)

Spec == Init /\ [][Next]_vars /\ \A r \in Readers : WF_vars(Proceed(r))

-----------------------------------------------------------------------------
Data == [Keys -> Values \cup {NullPlaceholder, None}]

\* Type correctness of every variable.
TypeOK ==
    /\ sheet \in Data
    /\ collaborators \subseteq Readers
    /\ serving \in [Readers -> {"waiting", "dialed", "joined", "answered", "dumped", "open"}]
    /\ dumped \in [Readers -> Data]
    /\ \A r \in Readers : targets[r] \subseteq collaborators \ {r}
    /\ phase \in [Readers -> {"new", "unauthenticated", "authenticated", "connected"}]
    /\ cache \in [Readers -> Data]
    /\ \A r \in Readers : sending[r] \in AnyRequest \cup {None}
    /\ writes \in 0 .. MaxWrites
    /\ silent \in [Readers -> SUBSET Keys]

\* Nothing is on its way from a writer to the sheet or from the sheet to r.
Settled(r) ==
    /\ phase[r] = "connected" /\ toReader[r] = <<>>
    /\ \A w \in Readers : sending[w] = None /\ toServer[w] = <<>> /\ todo[w] = <<>>

\* "All Readers stay synchronized automatically" (README.md:350): when nothing
\* is on its way, a connected Reader holds what the sheet holds.
Converged == \A r \in Readers : Settled(r) => cache[r] = sheet

\* With one writer, a settled Reader differs from the sheet only in keys of
\* whose last change nobody told it: an expiry, a set_null, a delete_prefix of
\* "", an eviction by its own Set, the eviction or the delete of the key "", or
\* a write during its open.
DiffersOnlySilently ==
    \A r \in Readers, k \in Keys :
        Settled(r) => cache[r][k] = sheet[k] \/ k \in silent[r]

\* Every Reader that dials gets its sheet and ends up in step with it, in all
\* keys that did not change silently: no open, answer, broadcast or request
\* that waits for a lock or for room on a connection blocks another for good.
EventuallyInSync ==
    \A r \in Readers, k \in Keys :
        <>[](\/ phase[r] = "new"
             \/ phase[r] = "connected" /\ (cache[r][k] = sheet[k] \/ k \in silent[r]))
=============================================================================
