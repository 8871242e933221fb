---------------------------- MODULE LockManager ----------------------------
(***************************************************************************)
(* lock/lock.go with its callers in ws/handler.go and main.go: the table   *)
(* of locks (a sync.Map) under connections that lock, unlock, register as  *)
(* replicas and disconnect, and under the cleaner goroutine.               *)
(*                                                                         *)
(* Each call on the sync.Map is a step of its own, so calls interleave     *)
(* between a Load and the Store or Delete it leads to.  A connection runs  *)
(* one request at a time, in its own goroutine.                            *)
(*                                                                         *)
(* Time is kept as what is left of each lifetime: a tick takes one from    *)
(* every lifetime, and a lock with less than nothing left has expired.     *)
(***************************************************************************)
EXTENDS Integers

CONSTANTS
    Clients, \* connections; the owner of a lock is its connection (%p)
    Keys,    \* composite keys, a sheet and a key in it
    TTLs,    \* the lifetimes that clients ask for
    MaxTTL,  \* the longest of them
    None

ASSUME TTLAssumption ==
    /\ MaxTTL \in Nat
    /\ TTLs \subseteq 0 .. MaxTTL

Gone == -1                    \* nothing is left of an expired lifetime
Lifetimes == Gone .. MaxTTL

Lock == [owner : Clients, left : Lifetimes]

ASSUME NoneAssumption == None \notin Lock

VARIABLES
    locks,     \* Keys -> [owner, left], or None
    pc,        \* what each connection's goroutine does next
    arg,       \* the key its call is about
    fresh,     \* what is left of the lifetime its call gives to the lock
    toDelete,  \* the keys its ReleaseAllByOwner has collected
    isReplica, \* the connections that have registered as replicas
    expired,   \* the keys that the cleaner has collected
    grant,     \* history: for how long each client may rely on each lock
    sawExpired \* history: the keys for which IsExpired() has ever returned true

callVars == <<pc, arg, fresh, toDelete>>
vars == <<locks, pc, arg, fresh, toDelete, isReplica, expired, grant, sawExpired>>

IsExpired(lock) == lock.left = Gone

OwnedBy(c) == {k \in Keys : locks[k] # None /\ locks[k].owner = c}

-----------------------------------------------------------------------------
Init ==
    /\ locks = [k \in Keys |-> None]
    /\ pc = [c \in Clients |-> "idle"]
    /\ arg = [c \in Clients |-> None]
    /\ fresh = [c \in Clients |-> Gone]
    /\ toDelete = [c \in Clients |-> {}]
    /\ isReplica = {}
    /\ expired = {}
    /\ grant = [c \in Clients |-> [k \in Keys |-> Gone]]
    /\ sawExpired = {}

Calls(c, label, k, left) ==
    /\ pc' = [pc EXCEPT ![c] = label]
    /\ arg' = [arg EXCEPT ![c] = k]
    /\ fresh' = [fresh EXCEPT ![c] = left]

Returns(c) == Calls(c, "idle", None, Gone)

\* The client is told that the lock is its own for the lifetime left, or that
\* it is not (Gone).
Told(c, k, left) == grant' = [grant EXCEPT ![c][k] = left]

See(k) ==
    sawExpired' =
        IF locks[k] # None /\ IsExpired(locks[k]) THEN sawExpired \cup {k} ELSE sawExpired

HeldByOther(c, k) ==
    locks[k] # None /\ locks[k].owner # c /\ ~IsExpired(locks[k])

\* TryAcquire up to the first Load and the tests on what it returns.
TryAcquire(c, k, ttl) ==
    /\ pc[c] = "idle"
    /\ See(k)
    /\ \/ /\ HeldByOther(c, k)
          /\ Told(c, k, Gone)
          /\ UNCHANGED <<pc, arg, fresh>>
       \/ /\ ~HeldByOther(c, k)
          /\ Calls(c, IF k \in OwnedBy(c) /\ ~IsExpired(locks[k])
                      THEN "refresh" ELSE "create", k, ttl)
          /\ UNCHANGED grant
    /\ UNCHANGED <<locks, toDelete, isReplica, expired>>

\* Mutant of Refresh: the lifetime is added to what is left of the old one.
RefreshExtends(c) ==
    LET k == arg[c] IN
    /\ pc[c] = "refresh"
    /\ locks' = IF k \in OwnedBy(c) THEN [locks EXCEPT ![k].left = @ + fresh[c]] ELSE locks
    /\ Told(c, k, fresh[c])
    /\ Returns(c)
    /\ UNCHANGED <<toDelete, isReplica, expired, sawExpired>>

\* existingLock.ExpiresAt = now.Add(ttl), on the lock the Load returned,
\* whether or not it is in the table still.
Refresh(c) ==
    LET k == arg[c] IN
    /\ pc[c] = "refresh"
    /\ locks' = IF k \in OwnedBy(c) THEN [locks EXCEPT ![k].left = fresh[c]] ELSE locks
    /\ Told(c, k, fresh[c])
    /\ Returns(c)
    /\ UNCHANGED <<toDelete, isReplica, expired, sawExpired>>

NewLock(c) == [owner |-> c, left |-> fresh[c]]

\* Mutant of LoadOrStore: a Store that trusts the earlier Load.
StoreUnchecked(c) ==
    /\ pc[c] = "create"
    /\ See(arg[c])
    /\ locks' = [locks EXCEPT ![arg[c]] = NewLock(c)]
    /\ Told(c, arg[c], fresh[c])
    /\ Returns(c)
    /\ UNCHANGED <<toDelete, isReplica, expired>>

LoadOrStore(c) ==
    LET k == arg[c] IN
    /\ pc[c] = "create"
    /\ See(k)
    /\ \/ /\ locks[k] = None
          /\ locks' = [locks EXCEPT ![k] = NewLock(c)]
          /\ Told(c, k, fresh[c])
          /\ Returns(c)
       \/ /\ HeldByOther(c, k)
          /\ Told(c, k, Gone)
          /\ Returns(c)
          /\ UNCHANGED locks
       \/ /\ locks[k] # None /\ ~HeldByOther(c, k)
          /\ Calls(c, "overwrite", k, fresh[c])
          /\ UNCHANGED <<locks, grant>>
    /\ UNCHANGED <<toDelete, isReplica, expired>>

\* m.locks.Store(ck, lock), whatever the table holds by now.
Overwrite(c) ==
    /\ pc[c] = "overwrite"
    /\ locks' = [locks EXCEPT ![arg[c]] = NewLock(c)]
    /\ Told(c, arg[c], fresh[c])
    /\ Returns(c)
    /\ UNCHANGED <<toDelete, isReplica, expired, sawExpired>>

\* Mutant of Release: the test on the owner is left out.
ReleaseUnchecked(c, k) ==
    /\ pc[c] = "idle"
    /\ IF locks[k] # None
       THEN Calls(c, "delete", k, Gone)
       ELSE UNCHANGED <<pc, arg, fresh>>
    /\ Told(c, k, Gone)
    /\ UNCHANGED <<locks, toDelete, isReplica, expired, sawExpired>>

\* Release up to the test on the owner; a client that unlocks no longer
\* relies on the lock.
Release(c, k) ==
    /\ pc[c] = "idle"
    /\ IF k \in OwnedBy(c)
       THEN Calls(c, "delete", k, Gone)
       ELSE UNCHANGED <<pc, arg, fresh>>
    /\ Told(c, k, Gone)
    /\ UNCHANGED <<locks, toDelete, isReplica, expired, sawExpired>>

ReleaseDelete(c) ==
    /\ pc[c] = "delete"
    /\ locks' = [locks EXCEPT ![arg[c]] = None]
    /\ Returns(c)
    /\ UNCHANGED <<toDelete, isReplica, expired, grant, sawExpired>>

\* handleRegisterReplica: any connection may ask to be a replica.
RegisterReplica(c) ==
    /\ pc[c] = "idle"
    /\ isReplica' = isReplica \cup {c}
    /\ UNCHANGED <<locks, callVars, expired, grant, sawExpired>>

\* Mutant of Disconnect: ReleaseAllByOwner is left out.
DisconnectKeepsLocks(c) ==
    /\ pc[c] = "idle"
    /\ pc' = [pc EXCEPT ![c] = "gone"]
    /\ grant' = [grant EXCEPT ![c] = [k \in Keys |-> Gone]]
    /\ UNCHANGED <<locks, arg, fresh, toDelete, isReplica, expired, sawExpired>>

\* onDisconnect: a replica is only forgotten; for a client ReleaseAllByOwner
\* collects its locks.  Nobody relies on the locks of a closed connection.
Disconnect(c) ==
    /\ pc[c] = "idle"
    /\ pc' = [pc EXCEPT ![c] = IF c \in isReplica THEN "gone" ELSE "drop"]
    /\ toDelete' = [toDelete EXCEPT ![c] = IF c \in isReplica THEN {} ELSE OwnedBy(c)]
    /\ grant' = [grant EXCEPT ![c] = [k \in Keys |-> Gone]]
    /\ UNCHANGED <<locks, arg, fresh, isReplica, expired, sawExpired>>

DropLock(c, k) ==
    /\ pc[c] = "drop"
    /\ k \in toDelete[c]
    /\ locks' = [locks EXCEPT ![k] = None]
    /\ toDelete' = [toDelete EXCEPT ![c] = @ \ {k}]
    /\ UNCHANGED <<pc, arg, fresh, isReplica, expired, grant, sawExpired>>

DisconnectDone(c) ==
    /\ pc[c] = "drop"
    /\ toDelete[c] = {}
    /\ pc' = [pc EXCEPT ![c] = "gone"]
    /\ UNCHANGED <<locks, arg, fresh, toDelete, isReplica, expired, grant, sawExpired>>

\* A new connection, which may get the address of the old one and with it
\* the old one's owner ID.
Connect(c) ==
    /\ pc[c] = "gone"
    /\ pc' = [pc EXCEPT ![c] = "idle"]
    /\ isReplica' = isReplica \ {c}
    /\ UNCHANGED <<locks, arg, fresh, toDelete, expired, grant, sawExpired>>

\* CleanupExpired collects in one Range (keys do not interact, so one look at
\* all of them is as good as one look at each) and deletes afterwards.
CleanupExpired ==
    /\ expired = {}
    /\ expired' = {k \in Keys : locks[k] # None /\ IsExpired(locks[k])}
    /\ expired' # {}
    /\ sawExpired' = sawExpired \cup expired'
    /\ UNCHANGED <<locks, callVars, isReplica, grant>>

\* Mutant of CleanupDelete: the collected key stays in the table.
CleanupForgets(k) ==
    /\ k \in expired
    /\ expired' = expired \ {k}
    /\ UNCHANGED <<locks, callVars, isReplica, grant, sawExpired>>

CleanupDelete(k) ==
    /\ k \in expired
    /\ locks' = [locks EXCEPT ![k] = None]
    /\ expired' = expired \ {k}
    /\ UNCHANGED <<callVars, isReplica, grant, sawExpired>>

Older(left) == IF left = Gone THEN Gone ELSE left - 1

Tick ==
    /\ locks' = [k \in Keys |->
                    IF locks[k] = None THEN None
                    ELSE [locks[k] EXCEPT !.left = Older(locks[k].left)]]
    /\ fresh' = [c \in Clients |-> Older(fresh[c])]
    /\ grant' = [c \in Clients |-> [k \in Keys |-> Older(grant[c][k])]]
    /\ UNCHANGED <<pc, arg, toDelete, isReplica, expired, sawExpired>>

\* The steps of calls that are under way.
Continue(c) ==
    \/ Refresh(c) \/ LoadOrStore(c) \/ Overwrite(c) \/ ReleaseDelete(c)
    \/ \E k \in Keys : DropLock(c, k)
    \/ DisconnectDone(c)

Next ==
    \/ \E c \in Clients :
          \/ Continue(c)
          \/ \E k \in Keys : Release(c, k) \/ \E ttl \in TTLs : TryAcquire(c, k, ttl)
          \/ RegisterReplica(c) \/ Disconnect(c) \/ Connect(c)
    \/ CleanupExpired \/ \E k \in Keys : CleanupDelete(k)
    \/ Tick

\* Time passes, a call that is under way goes on, and the cleaner's ticker
\* keeps firing.  No client has to make a call.
Fairness ==
    /\ WF_vars(Tick)
    /\ WF_vars(CleanupExpired) /\ WF_vars(\E k \in Keys : CleanupDelete(k))
    /\ \A c \in Clients : WF_vars(Continue(c))

Spec == Init /\ [][Next]_vars /\ Fairness

-----------------------------------------------------------------------------
Labels == {"idle", "refresh", "create", "overwrite", "delete", "drop", "gone"}

\* Type correctness of every variable.
TypeOK ==
    /\ locks \in [Keys -> Lock \cup {None}]
    /\ pc \in [Clients -> Labels]
    /\ arg \in [Clients -> Keys \cup {None}]
    /\ \A c \in Clients :
          pc[c] \in {"refresh", "create", "overwrite", "delete"} => arg[c] \in Keys
    /\ fresh \in [Clients -> Lifetimes]
    /\ toDelete \in [Clients -> SUBSET Keys]
    /\ isReplica \subseteq Clients
    /\ expired \subseteq Keys
    /\ grant \in [Clients -> [Keys -> Lifetimes]]
    /\ sawExpired \subseteq Keys

\* A client that was told it has the lock, has not unlocked and is within the
\* lifetime it was told.
Holds(c, k) == grant[c][k] # Gone

\* Two clients never hold one lock at a time ("Atomic store - race safe",
\* lock.go:83).
MutualExclusion ==
    \A c, d \in Clients, k \in Keys : Holds(c, k) /\ Holds(d, k) => c = d

\* As long as no call has yet found the lock of a key expired, two clients
\* never hold it at a time, and its holder is the owner in the table: acquire,
\* refresh, release and disconnect do not race with each other.
ExclusiveUntilExpiry ==
    \A k \in Keys \ sawExpired :
        /\ \A c, d \in Clients : Holds(c, k) /\ Holds(d, k) => c = d
        /\ \A c \in Clients : Holds(c, k) => k \in OwnedBy(c)

\* Once onDisconnect has returned for a client, no lock of its connection is
\* left, so the next connection with that owner ID starts without any.
DisconnectReleases ==
    \A c \in Clients \ isReplica : pc[c] = "gone" => OwnedBy(c) = {}

\* Locks of a closed connection go away: when nobody releases them (a replica's),
\* their lifetime ends and the cleaner takes them.
OrphansExpire ==
    \A c \in Clients, k \in Keys :
        (pc[c] = "gone" /\ k \in OwnedBy(c)) ~> (pc[c] # "gone" \/ k \notin OwnedBy(c))

\* What a Release deletes is its caller's lock, or nothing, as long as no call
\* has found a lock of that key expired ("Only the lock owner can unlock",
\* README.md:571): no refresh, disconnect or other client gets in between its
\* test on the owner and its Delete.  Afterwards the code does not keep to it.
OnlyOwnerUnlocks ==
    [][\A c \in Clients :
          ReleaseDelete(c) /\ arg[c] \notin sawExpired => arg[c] \in OwnedBy(c)]_vars
=============================================================================
