# advo_cache in TLA+

A verification project for [advo_cache](../src), a multi-tenant cache service: a Go server
that keeps LRU caches ("sheets") behind websocket connections, an embeddable client with a
local copy (the Reader), named locks, and replicas that follow a leader. The modules are
translated from the Go code; `PROJECT.json` maps every definition to the lines it stands
for.

## 1. The system

| part | state | operations | talks to |
|---|---|---|---|
| LRU cache, `cache/cache.go` | map, doubly linked list with sentinels, length, capacity; one mutex | Get, Set, SetNull, SetWithJitter, Delete, DeletePrefix, DeleteSuffix, Dump, periodic cleanupExpired | embedded in a sheet |
| lock manager, `lock/lock.go` | a `sync.Map` from "sheet:key" to owner and expiry | TryAcquire, Release, ReleaseAllByOwner, CleanupExpired | handler, cleaner in `main.go` |
| sheets, `sheet/*.go` | a `sync.Map` of sheets; each with cache, password hash, collaborators under an RWMutex | GetOrCreateSheet, ValidatePassword, Add/RemoveCollaborator, Broadcast, DeleteSheet, AddSheet | handler, replica client |
| handler, `ws/handler.go` | clients, replicas (`sync.Map`s) | one read loop per connection, one request at a time; onDisconnect; replicate messages, heartbeat | all of the above, websocket connections |
| Reader, `reader/reader.go` | local `sync.Map`, connection, connected/closed flags | connectTo, Set, Delete, DeletePrefix, DeleteSuffix, the listener, reconnect and failover, Close | a handler, over a connection |
| replica client, `replica/client.go` | connection, last heartbeat, isPromoted | Connect, apply messages, monitorHeartbeat, reconnect, promoteToLeader | the leader's handler, its own sheets |
| config, logger, main | - | start-up | - |

What is hard in it is what happens *between* the critical sections. Each map and each cache
is safe by itself, but most operations take two or three calls on them: load a lock and then
delete it, count the collaborators and then delete the sheet, change the cache and then
broadcast, dump the cache and then write it. `PROJECT.json` lists these places under
`hazards`, each with the property that covers it or the reason why none does yet.

What would make each part correct:

- *cache*: map and list agree, the capacity is kept, what is evicted is a least recently
  used key, expired entries leave;
- *locks*: one holder at a time; only the owner unlocks; nothing survives its connection for
  good;
- *sheets*: who opens one ID shares one sheet; nobody is let in without the password; a
  sheet lives exactly as long as it has collaborators;
- *synchronisation*: once everything is delivered, each Reader holds what the sheet holds;
- *replication and failover*: a replica holds what the leader holds, and there is one
  leader.

## 2. Modules

| module | what it is |
|---|---|
| `LRU` | abstract specification: a bounded store with expiry that evicts a least recently used key |
| `LRUCache` | `cache/cache.go` pointer by pointer; implements `LRU` (`ImplementsLRU`) |
| `LockManager` | `lock/lock.go` with lock, unlock, register_replica and disconnect of the handler and the cleaner of `main.go` |
| `SheetManager` | the life of the sheets of one ID: open, password, collaborators, deletion, and the replica client's AddSheet |
| `SheetSync` | one sheet with its handler goroutines, the broadcasts and the Readers behind them |
| `Replication` | one sheet of a leader and its copy on a replica: registration, full state, replicate messages |
| `ReplicaClient` | a replica's connection to its leader in time: heartbeats, monitors, attempts to reconnect, promotion |
| `ReaderConn` | the life of one Reader: connect, reconnect, failover, Set and Close, against a leader and a backup that fail |
| `LRUCacheProofs`, `LockManagerProofs`, `SheetManagerProofs`, `SheetSyncProofs`, `ReplicationProofs`, `ReplicaClientProofs`, `ReaderConnProofs` | theorems and proofs, one module per component |
| `MC*` | the instances that TLC checks |

Beside an operator there may be its *mutant*: the same operator with a mistake a programmer
could make. No specification uses them; they are there to show that each property notices
such a mistake (`mutants` in `PROJECT.json`).

### LRUCache

The node of a key is the key: while a key is stored it has one node, and a node without map
entry is garbage. `data` is the map, `list` the pointers and the length. Methods hold the
mutex, so each is one step. The loops of DeletePrefix, DeleteSuffix and cleanupExpired are a
step that fixes the keys (`sweeping`) and a step `Sweep` per removed key, in any order;
meanwhile no other method runs (`Idle`). A prefix or suffix is the set of keys it selects
(`Families`). `used` and `uses` are history: they number the uses of keys, so that "least
recently used" can be stated without the list. The refinement to `LRU` hides the list and
takes the keys of a running loop out at once, where the loop takes the mutex.

### LockManager

Each call on the `sync.Map` is a step: Load and the tests on it (`TryAcquire`, `Release`),
LoadOrStore, the Store after it (`Overwrite`), the write of ExpiresAt (`Refresh`), Delete,
and the Range and the Deletes of ReleaseAllByOwner and of CleanupExpired. In between others
run and locks expire. An owner is a connection (`%p`); `Connect` may give a new connection
the address of an old one. Time is what is left of each lifetime, one tick less for all of
them at a time, so no clock grows without bound. `grant` is what the clients were told;
`sawExpired` remembers the keys for which IsExpired() was ever true.

### SheetManager

One ID, because sheets of different IDs share nothing but the map they are in. Steps are the
uses of the table and of a sheet: first Load, bcrypt and LoadOrStore, ValidatePassword (and
SetPassword, where the sheet has no hash), AddCollaborator, RemoveCollaborator with its
count, DeleteSheet, and the replica client's GetSheet and AddSheet. A password is its own
hash: bcrypt is taken to tell passwords apart.

### SheetSync

Each connection has a handler goroutine and a FIFO channel each way (a websocket over TCP),
which takes `Buffer` messages and then makes its writer wait; a connection does not fail
here. A handler changes the cache in one step, writes its response, and then writes to the
collaborators one at a time, under the read lock that keeps AddCollaborator out. handleOpen
is four steps (add, respond, dump, write the state); connectTo skips everything before the
response, then everything before the sheet_state. A Reader's Set or Delete is a local step
and a send; one goroutine of the application uses a Reader. The cache is the abstract one,
with the order of use left open (Gets of anybody change it): any stored key may be evicted.
Expiry may happen any time. `silent` is history: per Reader, the keys whose last change at
the server it was not told.

### Replication

The leader's handlers again (`handleSet`, `handleDelete`), here with what they write to a
replica: the change of the cache is one step, each replicate message another. A handler of
its own serves the replica's connection (`link`): it stores the replica, dumps the sheets,
writes the dump. On the replica one listener takes one message after the other;
`applyFullState` sets key by key. Both caches evict, each by its own order of use, which is
left open; both expire. The connection may break at any time with all that is on it, and
`Connect` starts again with the copy as it is. The Readers, a promotion and the replica's
own clients (who read) are not here, nor the lock messages, which a replica ignores.
`doubtful` is history: the keys of which the replica was not told in order.

### ReplicaClient

What `Replication` leaves to `Connect` and `Break`: when they happen, and when the replica
stops following. One goroutine dials, registers and listens (`pc`): main's loop until the
first success, then the listener, which reconnects (`Disconnected`, `WakeUp`, `Dial`,
`Attach`, `SendRegister`) and gives up after three attempts (`GiveUp`). Every successful
Connect starts one more monitor (`monitors`), which reads `isPromoted` and the last
heartbeat under the mutex (`CheckHeartbeat`) and promotes afterwards (`MonitorPromotes`).
`conn` tells whether promoteToLeader, which closes `c.conn`, closes the connection of the
attempt under way or not. The leader's side is the registration and its ticker. Heartbeats
take up to `Delay` seconds, and several may be on their way at once (`transit`, the set of
what each has left). The leader may stop, hang (one replica that does not read stops the
heartbeats of all) and come back; a connection may break with both ends noticing or with the
replica's end silent.

Time is counted in seconds and passes (`Second`) only when no goroutine has anything to do
at once: scheduling is taken to be quick against a second, while dialing, sleeping and
waiting for messages take time. `Client.Close` has no caller and is left out.

### ReaderConn

Three goroutines: the one that connects and listens (`task`), one that Sets (`setting`), one
that Closes (`closer`). connectTo is dial, response, state and `Install`; `plan` is what New
or handleDisconnect has yet to try. Set is its three parts: the test, the local half, the
send through whatever `r.conn` is by then. The server's side is an open as in `SheetSync`
and the Sets. Requests that a broken connection had delivered are read later by the handler
of that connection (`stray`), for which the reconnected Reader is somebody else. Servers
stop with all they have and start empty, connections break, as often as they like; a sheet
goes with its last collaborator while the Reader is away; and the backup applies what the
leader has. What other Readers write is left to `SheetSync`. The password is right on every
server. An open that finds a sheet just before its deletion is `SheetManager`'s subject.

`caught` and `doubtful` are history. `caught`: Close was called while connectTo was running.
`doubtful`: the local value may differ from the server's, because

- a Set had done one half when loadState ran, or its send found no `r.conn`;
- a stray Set was broadcast over a newer value, or fell between the Dump and the sheet_state
  of an open (as in `SheetSync`);
- the backup applied a change, of which applySet tells its collaborators nothing.

The next open starts without doubt, and a Set or a broadcast that is known to be last
settles it.

## 3. What TLC checks

All bounds are constants in the `.cfg` files.

| run | shows |
|---|---|
| `lru` (`MCLRUCache.cfg`) | `TypeOK`, `ListMatchesMap`, `CapacityRespected`, `OldestIsLeastRecent`, `ImplementsLRU`, `ExpiredLeave` |
| `locks` (`MCLockManager.cfg`) | `TypeOK`, `ExclusiveUntilExpiry`, `DisconnectReleases`, `OrphansExpire`, `OnlyOwnerUnlocks` |
| `lock_expiry` (`MCLockExpiry.cfg`) | `MutualExclusion` is *violated* |
| `sheets` (`MCSheetManager.cfg`) | `TypeOK`, `OneSheetUntilReplaced`, `PasswordKept`, `NothingLeftBehind` |
| `sheet_orphan` (`MCOrphan.cfg`) | `CollaboratorsKeepSheet` is *violated* |
| `sync` (`MCSheetSync.cfg`) | `TypeOK`, `DiffersOnlySilently`, `EventuallyInSync` |
| `sync_two_writers` (`MCTwoWriters.cfg`) | `Converged` is *violated* |
| `replication` (`MCReplication.cfg`) | `TypeOK`, `ReplicaDiffersOnlyInDoubt`, `EventuallyReplicated` |
| `replication_register` (`MCRegistration.cfg`) | `ReplicaHasAll` is *violated* |
| `replica_client` (`MCReplicaClient.cfg`) | `TypeOK`, `NoFalsePromotion`, `SilenceIsNoticed`, `PromotedStaysAlone`, `EventuallyPromoted`, `EventuallyDecided` |
| `replica_promoted` (`MCPromoted.cfg`) | `PromotedFollowsNobody` is *violated* |
| `reader_conn` (`MCReaderConn.cfg`) | `TypeOK`, `LocalMatchesServer`, `ClosedStaysClosed`, `CloseEnds`, `KeepsComingBack` |

Why the bounds are enough:

- `lru`: three keys give a list with a middle node, four uses let one key be used twice
  after the others, capacities 0 (unlimited), 1 and 2 are below the number of keys, two
  instants and lifetimes 1 and 2 (a jitter of 100%) give expired and unexpired entries side
  by side. The theorems lift the bounds for everything but `ExpiredLeave`.
- `locks`: two connections are both sides of every race in this code. Keys do not interact
  except that a disconnect releases several: two. Lifetime 0 means "expires at the next
  tick", which can fall between any two steps. `lock_expiry` uses one key and lifetimes 0
  and 1, where a lifetime can also outlast a step.
- `sheets`: three clients, because two may race while a third comes later; two passwords;
  four opens, three sheets, which lets a sheet be replaced twice. Clients and passwords are
  symmetric and only safety is checked.
- `sync`: one writer, one Reader there from the start and one that opens meanwhile. Three
  are needed for AddCollaborator to wait for a broadcast to somebody. Capacity 1 makes each
  Set of a second key evict; two requests give any pair of kinds, on one value, two keys and
  the key "". Two messages fill a connection, one less than an open and a broadcast write.
  Without the key "", three requests and connections of one message hold too (890,000
  states).
- `replication`: three requests let a key be set, removed and set again around a
  registration, or two handlers race for a key and one of them write it again; two values
  tell an old value from a new one; one break gives a first and a second registration. One
  of the two keys is "". With capacity 1 each set of the other key evicts, on both sides.
  Two keys other than "" hold too (1.7 million states), and so do, with one writer, three
  keys and capacity 2, where the two sides evict different keys (1.7 million states).

- `replica_client`: the program's defaults, an interval of 5 and a timeout of 10 seconds,
  and a delay of up to 5. `NoFalsePromotion` needs interval and delay to stay within the
  timeout, which the assumption says: this is the longest delay there is. It lets a
  heartbeat leave before the last has arrived. Two faults give a fault during the recovery
  from another, in every order and at every second; a leader that stops or stalls may
  recover any time or never. Ages beyond the timeout plus one interval are alike.
- `reader_conn`: a leader and a backup, both of which may fail any number of times. Two Sets
  of two values let an old Set overtake a new one. One attempt per target; with two attempts
  it holds too (640,000 states).

CHECK_DEADLOCK is off where the program comes to rest: when nobody writes (`SheetSync`,
`Replication`), when the Reader is closed or has given up (`ReaderConn`) and when the bound
on the opens is used up (`SheetManager`).

### What the violations say

- `lock_expiry`: `LoadOrStore` loads an expired lock, and each of two clients overwrites it
  with `Store` (`lock.go:92`). Both were told they have it, whereas the comment says "race
  safe" (`lock.go:83`). `ExclusiveUntilExpiry` shows where the line is: until a call finds a
  lock expired, all is well.
- `sheet_orphan`: an open finds the sheet, the last collaborator leaves, the opener joins,
  DeleteSheet deletes. The opener writes to a sheet nobody else will ever find.
- `sync_two_writers`: A and B set one key; each changes its own copy, then the sheet, and
  gets the other's broadcast afterwards, so each ends with the other's value, and one of
  them with a value that is not the sheet's.
- `replication_register`: the replica is registered, then the sheets are dumped, then the
  dump is written. A set in between is replicated before the dump that does not know it, and
  the older value wins.
- `replica_promoted`: a monitor finds the timeout while handleLeaderDisconnect is dialing.
  The promotion cannot close a connection that is not in `c.conn` yet; the dial succeeds,
  and the promoted replica registers and follows the leader again. `PromotedStaysAlone` is
  what holds: one that was promoted while it listened does not come back.

`DiffersOnlySilently` is the positive counterpart of the two on Readers: with one writer,
everything that goes wrong goes wrong on a key that changed silently: expiry, set_null
(never broadcast), a delete_prefix of "" (left out of the JSON), the eviction or the delete
of the key "" (an evictedKey of "" means none, and an invalidate of "" is left out of the
JSON), an eviction by the Reader's own Set, or a broadcast between the Dump and the
sheet_state of an open. Any other lost, late or reordered message would violate it.

`ReplicaDiffersOnlyInDoubt` does the same for the replica. In doubt are the keys that left
with their sheet, expired on either side, were evicted by the replica's own cache, were
removed while no replica was registered (or in a message that was lost), or changed between
the dump and the full_state, the key "" when the leader evicted it, and keys that a handler
changed while another had yet to write about them: their messages may be in another order
than the changes, as in `sync_two_writers`. A later write of a key, or a dump that has it
while nothing of it is pending, ends the doubt.

Three more disagreements are stated as the edge of what holds instead of runs of their own:

- README.md:571 says "Only the lock owner can unlock". `OnlyOwnerUnlocks` holds for a key
  until a call finds a lock of it expired. Without that condition it fails: the lock expires
  between Release's Load and its Delete (`lock.go:112`), somebody else takes it, and the
  Delete takes it away from them.
- README.md:665 says that invalidate messages ensure "Reader clients remove stale keys". The
  Reader whose own Set evicted a key is left out (`handler.go:306`) and keeps it: one of the
  silent changes of `DiffersOnlySilently`. Without that exception the property fails with
  one writer, capacity 1 and two keys.
- "Close disconnects from the server and releases resources" (`reader.go:316`).
  `ClosedStaysClosed` leaves out a Close that comes while connectTo runs: it does not look
  at `closed`, so it ends with `connected` true and an open connection nobody reads.

### Fairness

- `LRUCache`: a loop that holds the mutex goes on (weak). cleanupExpired runs again and
  again (strong): its ticker never stops, and a Go mutex that is waited for longer than a
  millisecond is handed over in order, so clients cannot keep it out.
- `LockManager`: time passes, a goroutine that can take its next step takes it, the
  cleaner's ticker fires. No client has to call anything.
- `SheetSync`: goroutines that can run, run, and what was written is read. Nobody has to
  dial or write.
- `Replication`: the handlers go on and the listener takes what has arrived. Nobody has to
  connect, and connections may break.
- `ReplicaClient`: goroutines go on, a dial comes to an end, seconds pass. Neither the
  leader nor the connection has to recover, and a silent connection need never be noticed:
  that is what the monitors are for.
- `ReaderConn`: the handler of a connection answers an open, the Reader's goroutine goes on
  (it reads what has come, and a broken connection ends its read), and so does Close.
  Nothing is assumed of Sets, stray requests or of servers coming back. This is more than
  the code sees to by itself: it sets no deadlines, so behind it are servers that answer and
  TCP's keepalive. With a server that accepts a connection and hangs, connectTo waits for
  ever, and Close with it.
- `SheetManager` checks safety only and assumes none.

## 4. What is proved

TLAPS proves these for all values of the constants that satisfy the named assumptions, for
any number of keys and clients and bounds of any size.

| theorem | says |
|---|---|
| `LRUCacheProofs!TypeCorrect`, `ListCorrect`, `CapacityCorrect`, `EvictionCorrect` | `Spec => []TypeOK`, `[]ListMatchesMap`, `[]CapacityRespected`, `[]OldestIsLeastRecent` |
| `LRUCacheProofs!Refinement` | `Spec => ImplementsLRU` |
| `LockManagerProofs!TypeCorrect`, `MutualExclusionUntilExpiry`, `DisconnectCorrect`, `UnlockCorrect` | `Spec => []TypeOK`, `[]ExclusiveUntilExpiry`, `[]DisconnectReleases`, `OnlyOwnerUnlocks` |
| `SheetManagerProofs!TypeCorrect`, `OneSheet`, `PasswordCorrect`, `SheetsDeleted` | `Spec => []TypeOK`, `[]OneSheetUntilReplaced`, `[]PasswordKept`, `[]NothingLeftBehind` |
| `SheetSyncProofs!TypeCorrect` | `Spec => []TypeOK` |
| `SheetSyncProofs!ReadersInSync` | `Spec => []DiffersOnlySilently`, if there is at most one writer (`SoleWriter`) |
| `ReplicationProofs!TypeCorrect`, `ReplicaAgrees` | `Spec => []TypeOK`, `[]ReplicaDiffersOnlyInDoubt` |
| `ReplicaClientProofs!TypeCorrect`, `SoundLeaderKept`, `SilenceBounded`, `PromotedAlone` | `Spec => []TypeOK`, `[]NoFalsePromotion`, `[]SilenceIsNoticed`, `[]PromotedStaysAlone` |
| `ReaderConnProofs!TypeCorrect`, `ReaderAgrees`, `CloseIsFinal` | `Spec => []TypeOK`, `[]LocalMatchesServer`, `[]ClosedStaysClosed` |

Each proof module defines its inductive invariant `IInv`, which TLC also checked as an
invariant of the run's configuration, has a lemma for each action, and ends with `Invariance`,
`Spec => []IInv`, from which the other theorems follow. The assumptions on constants are
named in the component's module, and TLC evaluates them on each run. Beyond types they say:
sentinels are not keys, nil is no password, value or request, and the interval and the delay
of a heartbeat stay within the timeout.

*The list.* The assumptions: the sentinels are not keys, and the parameters are naturals.
"The list holds exactly the stored keys" speaks of paths, which a prover without induction
over data cannot follow. The invariant is local instead: next and prev lead from node to
node of `Stored` and the sentinels and undo each other (`Linked`), and stamps descend along
next (`Descending`). Stamps that descend exclude a detached cycle, which `Linked` alone
would allow; they are the last uses that `Set` and `Get` hand out, so the same conjunct says
that the list is in the order of use. Lemmas show that removeNode keeps the rest linked and
that addToFront of the newest key does. That the last node is the oldest follows because
among finitely many keys a least recently used one exists, and a node before it would be
older: this needs the set of stored keys to be finite, which the invariant carries with the
length. For the refinement each method's step is mapped to an abstract one; a Sweep is a
stutter.

*The locks.* The invariant says what a goroutine between two steps may count on: for a key
not in `sawExpired`, whoever is about to refresh or delete a lock is still its owner, nobody
is about to overwrite it, and the cleaner has not collected it; and a goroutine in
onDisconnect has yet to delete all locks its connection has in the table.
`ExclusiveUntilExpiry` alone is not inductive: it does not know what the calls under way
will write.

*The life of a sheet.* `OneSheetUntilReplaced` and `PasswordKept` speak of clients that were
let in; what makes them inductive is what the others carry: until a sheet has left the
table, whatever a client found, also before its password was looked at, is the sheet of the
table (`Together`), and a client that is about to set a password holds a sheet from the
leader, so no hash that a client gave is ever replaced (`Protected`). `NothingLeftBehind`
speaks of the end only. On the way there the sheet of the table always has an attendant:
somebody admitted to it who will leave it, or a disconnect that has counted nobody and is
about to delete (`Attended`). That the last RemoveCollaborator does count nobody needs
`Listed`: the collaborators are the clients that are in the sheet, and replicas that have
left. That sheets yet to be created are empty and in nobody's hands is `Numbered`.

*A sheet and its Readers.* The messages on their way to a Reader, applied to its copy, give
what the sheet has: `Arrives` says so of one key, without a fold over the queue, by its last
message that tells of the key, or the copy if there is none, or the dump if the sheet_state
is yet to be written. It holds of the keys that are not silent, that no handler has yet to
write to that Reader about, and that are in none of its own requests (`ArrivesTrue`). Two
conjuncts take care of the keys it leaves out: what handlers have yet to write is what the
sheet has (`PendingTrue`), and the last request of a key asks for what its Reader has
(`RequestsTrue`). `Opening` is the protocol of connectTo: the response is on its way before
the state, either comes once, and who has joined is a collaborator. With two writers
`Unaddressed` is false, and `sync_two_writers` shows that `DiffersOnlySilently`'s ideal,
`Converged`, fails: hence the hypothesis, which is that of the run. Types need none.

*A leader and its replica.* The same idea with one receiver and any number of writers: what
handlers have yet to write of a key without doubt is what the leader has, and once nothing
is to be written the key arrives. Before the next dump this is claimed only of keys that the
sheet has not, since of the others the dump will tell. What is true of the loading of a full
state is true key by key: the keys it has yet to set come from it, the others from the copy.
Neither cache outgrows its capacity (`Bounded`, part of the types), also over infinitely
many keys.

*Heartbeats.* `SilenceIsNoticed` holds because of each monitor by itself: the seconds until
its ticker fires and the age of the last heartbeat make at most the timeout and one
interval, and one that has decided to promote does so before a second passes (`Watched`).
`NoFalsePromotion` follows from when the next heartbeat comes: one on its way arrives, or
the ticker fires and its heartbeat arrives, before the last is older than the timeout
(`InTime`). `PromotedStaysAlone` needs that c.conn is the connection in use whenever the
listener listens (`Fresh`), so that the promotion closes it, and that the listener then has
nothing left but to end (`Alone`). All three hold for any number of monitors and of
heartbeats on their way.

*The Reader's connection.* `LocalMatchesServer` is about rest. On the way, the last message
to the Reader or else its copy, and the Set being sent, the last one sent, or else the
server's sheet, are the same value (`Agreement`), while nothing is in doubt and no
connection left behind has stored what it has not told. `Protocol` and `Lifeline` say which
messages can be where: the response once and before the state, the state once, both only
while connectTo waits for them, no request before connectTo has returned. For
`ClosedStaysClosed`, a Close that met no connectTo has `connected` false and the goroutine
outside connectTo from then on, and its connection cut once `Close` has passed it
(`Closing`).

What stays with TLC: liveness (`ExpiredLeave`, `OrphansExpire`, `EventuallyInSync`,
`EventuallyReplicated`, `EventuallyPromoted`, `EventuallyDecided`, `CloseEnds`,
`KeepsComingBack`), for tlapm has no ENABLED, and the runs that find a violation. Every
invariant and every action property of a passing run is a theorem.

## 5. What is not modelled

- Two goroutines that write to one websocket connection at once: gorilla/websocket forbids
  it and may panic. The channels here take each write whole.
- The data race on a lock's ExpiresAt (`lock.go:66`): the write is one step.
- `SetLock`, `GetAllBySheet`, `SheetCount` and other functions without effect or without
  caller; config, logger and the texts of messages.
- The numbers of the configuration: TTLs, intervals and capacities are constants of the
  models. (Of the configuration, the cache's capacity and the interval of the TTL cleaner
  are read and not used: sheets take the defaults.)
- The goroutine of the TTL cleaner of a deleted sheet, which never stops.
- `compositeKey`, which joins sheet and key with ":" (sheet "a:b" key "c" and sheet "a" key
  "b:c" share a lock): locks are modelled per composite key.
- A replica with an address that never answers: a dial that hangs.
- `ErrAuthFailed`: a Reader's password is right. Reader.DeletePrefix and its like are in
  `SheetSync`, not again in `ReaderConn`, where they would do as Set does.
- Leader, replica and Readers together, each with its failures (two leaders that both take
  writes, Readers spread over them): the code has nothing that would bring two leaders
  together again, so there is no promise to check beyond those of the parts.
- A replica's sheet without password (sent by the leader), which takes the first one it is
  given.

## 6. Plan

Order of work, the most important behaviour first; 1 to 9 are done.

1. `LRU`, `LRUCache`: the cache and its refinement.
2. `LockManager`: locks under clients, expiry and disconnects.
3. `SheetSync`: broadcasts and Readers, over connections that fill up.
4. `SheetManager`: the life of a sheet.
5. Proofs for 1 and 2.
6. `Replication`: registration, full state and replicate messages against writes and breaks.
7. `ReplicaClient`: heartbeats, monitors, attempts and promotion in time.
8. `ReaderConn`: connect, reconnect, failover, Set and Close under failures.
9. Proofs for 3, 4 and 6 to 8: an inductive invariant for each, and from it every invariant
   that a run checks.
10. Proofs yet to be tried: what holds in `SheetSync` with several writers (a Reader may
    differ only in keys that changed silently or that two writers wrote at once, with
    history that says which), as `doubtful` does in `Replication`; and that each step of
    `SheetSync`'s cache is one that `LRU` allows.
