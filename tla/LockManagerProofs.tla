------------------------- MODULE LockManagerProofs -------------------------
(***************************************************************************)
(* Proofs about LockManager, for any number of connections, keys and any   *)
(* lifetimes: locks exclude each other until some lock is found expired,   *)
(* and a disconnected client leaves no lock.                               *)
(***************************************************************************)
EXTENDS LockManager, TLAPS

\* Why the table and the clients agree on a key that no call has yet found
\* expired: every call that is past its Load knows the owner still.
Agreed(k) ==
    /\ k \notin expired
    /\ \A c \in Clients :
          /\ Holds(c, k) => k \in OwnedBy(c)
          /\ k \in toDelete[c] => k \in OwnedBy(c) /\ ~Holds(c, k)
          /\ arg[c] = k =>
                /\ pc[c] = "refresh" => k \in OwnedBy(c)
                /\ pc[c] = "create" => k \notin OwnedBy(c)
                /\ pc[c] # "overwrite"
                /\ pc[c] = "delete" => k \in OwnedBy(c) /\ ~Holds(c, k)

\* What onDisconnect has yet to delete is all that the connection owns.
Dropping ==
    \A c \in Clients :
        /\ toDelete[c] # {} => pc[c] = "drop"
        /\ pc[c] = "drop" => OwnedBy(c) \subseteq toDelete[c]
        /\ pc[c] = "gone" /\ c \notin isReplica => OwnedBy(c) = {}

IInv ==
    /\ TypeOK
    /\ \A k \in Keys \ sawExpired : Agreed(k)
    /\ Dropping

-----------------------------------------------------------------------------
LEMMA OlderType == \A left \in Lifetimes : Older(left) \in Lifetimes
BY TTLAssumption DEF Lifetimes, Older, Gone

LEMMA LockFacts ==
    ASSUME TypeOK, NEW k \in Keys, locks[k] # None
    PROVE  locks[k] \in Lock /\ locks[k].owner \in Clients /\ locks[k].left \in Lifetimes
BY DEF TypeOK, Lock

LEMMA InitIInv == Init => IInv
BY TTLAssumption
DEF Init, IInv, TypeOK, Agreed, Dropping, Holds, OwnedBy, Labels, Lifetimes, Gone

Busy == {"refresh", "create", "overwrite", "delete"}

\* What Calls does to the types of the variables it assigns.
LEMMA CallsType ==
    ASSUME TypeOK, NEW c \in Clients, NEW label \in Labels,
           NEW k \in Keys \cup {None}, label \in Busy => k \in Keys,
           NEW left \in Lifetimes, Calls(c, label, k, left)
    PROVE  /\ pc' \in [Clients -> Labels]
           /\ arg' \in [Clients -> Keys \cup {None}]
           /\ \A d \in Clients : pc'[d] \in Busy => arg'[d] \in Keys
           /\ fresh' \in [Clients -> Lifetimes]
BY DEF TypeOK, Calls, Busy

LEMMA ToldType ==
    ASSUME TypeOK, NEW c \in Clients, NEW k \in Keys, NEW left \in Lifetimes,
           Told(c, k, left)
    PROVE  grant' \in [Clients -> [Keys -> Lifetimes]]
BY DEF TypeOK, Told

LEMMA ConstantTypes ==
    /\ Gone \in Lifetimes /\ TTLs \subseteq Lifetimes
    /\ \A label \in Busy \cup {"idle", "drop", "gone"} : label \in Labels
BY TTLAssumption DEF Gone, Lifetimes, Labels, Busy

\* A step of a call of c that stores nothing and expires nothing: c's own
\* position, what c may rely on, and what IsExpired() has returned.
LEMMA TryAcquireIInv ==
    ASSUME IInv, NEW c \in Clients, NEW k \in Keys, NEW ttl \in TTLs,
           TryAcquire(c, k, ttl)
    PROVE  IInv'
<1>1. \A d \in Clients : OwnedBy(d)' = OwnedBy(d)
  BY DEF TryAcquire, OwnedBy
<1>2. TypeOK'
  <2>1. /\ pc' \in [Clients -> Labels]
        /\ arg' \in [Clients -> Keys \cup {None}]
        /\ \A d \in Clients : pc'[d] \in Busy => arg'[d] \in Keys
        /\ fresh' \in [Clients -> Lifetimes]
    <3>1. CASE HeldByOther(c, k)
      BY <3>1 DEF TryAcquire, IInv, TypeOK, Busy
    <3>2. CASE ~HeldByOther(c, k)
      BY <3>2, ConstantTypes, CallsType DEF TryAcquire, IInv, Busy
    <3> QED
      BY <3>1, <3>2
  <2>2. grant' \in [Clients -> [Keys -> Lifetimes]] /\ sawExpired' \subseteq Keys
    BY ConstantTypes, ToldType DEF TryAcquire, See, IInv, TypeOK
  <2> QED
    BY <2>1, <2>2 DEF IInv, TypeOK, TryAcquire, Busy
<1>3. ASSUME NEW j \in Keys \ sawExpired' PROVE Agreed(j)'
  <2>1. Agreed(j) /\ j \notin sawExpired
    BY <1>3 DEF IInv, TryAcquire, See
  <2>2. CASE HeldByOther(c, k)
    BY <1>1, <2>1, <2>2
    DEF TryAcquire, Agreed, Holds, Told, IInv, TypeOK
  <2>3. CASE ~HeldByOther(c, k)
    <3>1. j = k => IF k \in OwnedBy(c)
                   THEN pc'[c] = "refresh" ELSE pc'[c] = "create"
      BY <1>3, <2>3 DEF TryAcquire, Calls, See, OwnedBy, IInv, TypeOK
    <3>2. /\ grant' = grant /\ toDelete' = toDelete /\ expired' = expired
          /\ arg' = [arg EXCEPT ![c] = k]
          /\ \A d \in Clients \ {c} : pc'[d] = pc[d]
          /\ pc[c] = "idle"
      BY <2>3 DEF TryAcquire, Calls, IInv, TypeOK
    <3>3. ASSUME NEW d \in Clients, arg'[d] = j, d = c
          PROVE  /\ pc'[d] = "refresh" => j \in OwnedBy(d)'
                 /\ pc'[d] = "create" => j \notin OwnedBy(d)'
                 /\ pc'[d] \in {"refresh", "create"}
      BY <1>1, <3>1, <3>2, <3>3 DEF IInv, TypeOK
    <3> QED
      BY <1>1, <2>1, <3>2, <3>3 DEF Agreed, Holds, IInv, TypeOK
  <2> QED
    BY <2>2, <2>3
<1>4. Dropping'
  BY <1>1 DEF IInv, Dropping, TryAcquire, Calls, TypeOK
<1> QED
  BY <1>2, <1>3, <1>4 DEF IInv

\* A lock given to c under k leaves everything else as it was.
LEMMA StoreFacts ==
    ASSUME TypeOK, NEW c \in Clients, NEW k \in Keys, NEW left \in Lifetimes,
           locks' = [locks EXCEPT ![k] = [owner |-> c, left |-> left]]
    PROVE  /\ locks' \in [Keys -> Lock \cup {None}]
           /\ OwnedBy(c)' = OwnedBy(c) \cup {k}
           /\ \A d \in Clients \ {c} : OwnedBy(d)' = OwnedBy(d) \ {k}
<1>1. [owner |-> c, left |-> left] \in Lock
  BY DEF Lock
<1> QED
  BY <1>1, NoneAssumption DEF TypeOK, OwnedBy

\* A lock taken out of the table under k leaves everything else as it was.
LEMMA RemoveFacts ==
    ASSUME TypeOK, NEW k \in Keys, locks' = [locks EXCEPT ![k] = None]
    PROVE  /\ locks' \in [Keys -> Lock \cup {None}]
           /\ \A d \in Clients : OwnedBy(d)' = OwnedBy(d) \ {k}
BY DEF TypeOK, OwnedBy

\* A key has one owner.
LEMMA OneOwner ==
    ASSUME NEW c \in Clients, NEW d \in Clients, NEW k \in OwnedBy(c), k \in OwnedBy(d)
    PROVE  c = d
BY DEF OwnedBy

LEMMA RefreshIInv ==
    ASSUME IInv, NEW c \in Clients, Refresh(c)
    PROVE  IInv'
<1> DEFINE k == arg[c]
<1>1. k \in Keys /\ fresh[c] \in Lifetimes
  BY DEF Refresh, IInv, TypeOK
<1>2. locks' \in [Keys -> Lock \cup {None}] /\ \A d \in Clients : OwnedBy(d)' = OwnedBy(d)
  <2>1. CASE k \in OwnedBy(c)
    <3>1. /\ locks[k] \in Lock /\ locks[k].owner = c
          /\ locks' = [locks EXCEPT ![k] = [owner |-> c, left |-> fresh[c]]]
      <4>1. locks[k] \in Lock /\ locks[k].owner = c
        BY <1>1, <2>1, LockFacts DEF OwnedBy, IInv
      <4>2. [locks[k] EXCEPT !.left = fresh[c]] = [owner |-> c, left |-> fresh[c]]
        BY <4>1 DEF Lock
      <4>3. locks' = [locks EXCEPT ![k] = [locks[k] EXCEPT !.left = fresh[c]]]
        BY <2>1 DEF Refresh
      <4> QED
        BY <4>1, <4>2, <4>3
    <3>2. \A d \in Clients \ {c} : k \notin OwnedBy(d)
      BY <2>1, OneOwner
    <3>3. /\ locks' \in [Keys -> Lock \cup {None}]
          /\ OwnedBy(c)' = OwnedBy(c) \cup {k}
          /\ \A d \in Clients \ {c} : OwnedBy(d)' = OwnedBy(d) \ {k}
      BY <1>1, <3>1, StoreFacts DEF IInv
    <3> QED
      BY <2>1, <3>2, <3>3
  <2>2. CASE k \notin OwnedBy(c)
    BY <2>2 DEF Refresh, OwnedBy, IInv, TypeOK
  <2> QED
    BY <2>1, <2>2
<1>3. /\ Told(c, k, fresh[c]) /\ Returns(c) /\ pc[c] = "refresh"
      /\ UNCHANGED <<toDelete, isReplica, expired, sawExpired>>
  BY DEF Refresh
<1>4. TypeOK'
  BY <1>1, <1>2, <1>3, ConstantTypes, CallsType, ToldType
  DEF IInv, TypeOK, Returns, Busy
<1>5. ASSUME NEW j \in Keys \ sawExpired' PROVE Agreed(j)'
  <2>1. Agreed(j)
    BY <1>3, <1>5 DEF IInv
  <2>2. j = k => j \in OwnedBy(c)
    BY <1>3, <2>1 DEF Agreed
  <2> QED
    BY <1>1, <1>2, <1>3, <2>1, <2>2
    DEF Agreed, Holds, Told, Returns, Calls, IInv, TypeOK, Dropping
<1>6. Dropping'
  BY <1>2, <1>3 DEF IInv, Dropping, Returns, Calls, TypeOK
<1> QED
  BY <1>4, <1>5, <1>6 DEF IInv

LEMMA StoreIInv ==
    ASSUME IInv, NEW c \in Clients, LoadOrStore(c) \/ Overwrite(c), locks' # locks
    PROVE  IInv'
<1> DEFINE k == arg[c]
<1>1. /\ k \in Keys /\ fresh[c] \in Lifetimes
      /\ pc[c] \in {"create", "overwrite"}
  BY DEF LoadOrStore, Overwrite, IInv, TypeOK
<1>2. /\ locks' = [locks EXCEPT ![k] = [owner |-> c, left |-> fresh[c]]]
      /\ Told(c, k, fresh[c]) /\ Returns(c)
      /\ UNCHANGED <<toDelete, isReplica, expired>>
      /\ sawExpired \subseteq sawExpired' /\ sawExpired' \subseteq Keys
      /\ k \notin sawExpired => locks[k] = None
  <2>1. CASE LoadOrStore(c)
    BY <1>1, <2>1 DEF LoadOrStore, NewLock, See, IInv, TypeOK
  <2>2. CASE Overwrite(c)
    <3>1. k \in sawExpired
      BY <1>1, <2>2 DEF Overwrite, IInv, Agreed
    <3> QED
      BY <2>2, <3>1 DEF Overwrite, NewLock, IInv, TypeOK
  <2> QED
    BY <2>1, <2>2
<1>3. /\ locks' \in [Keys -> Lock \cup {None}]
      /\ OwnedBy(c)' = OwnedBy(c) \cup {k}
      /\ \A d \in Clients \ {c} : OwnedBy(d)' = OwnedBy(d) \ {k}
  BY <1>1, <1>2, StoreFacts DEF IInv
<1>4. TypeOK'
  BY <1>1, <1>2, <1>3, ConstantTypes, CallsType, ToldType
  DEF IInv, TypeOK, Returns, Busy
<1>5. ASSUME NEW j \in Keys \ sawExpired' PROVE Agreed(j)'
  <2>1. Agreed(j) /\ j \notin sawExpired
    BY <1>2, <1>5 DEF IInv
  <2>2. j = k => \A d \in Clients : j \notin OwnedBy(d)
    BY <1>2, <2>1 DEF OwnedBy
  <2> QED
    BY <1>1, <1>2, <1>3, <2>1, <2>2
    DEF Agreed, Holds, Told, Returns, Calls, IInv, TypeOK, Dropping
<1>6. Dropping'
  BY <1>1, <1>2, <1>3 DEF IInv, Dropping, Returns, Calls, TypeOK
<1> QED
  BY <1>4, <1>5, <1>6 DEF IInv

\* LoadOrStore finds a lock: c is refused, or goes on to overwrite it.
LEMMA LoadedIInv ==
    ASSUME IInv, NEW c \in Clients, LoadOrStore(c), locks' = locks
    PROVE  IInv'
<1> DEFINE k == arg[c]
<1>1. /\ k \in Keys /\ fresh[c] \in Lifetimes /\ pc[c] = "create"
      /\ UNCHANGED <<toDelete, isReplica, expired>>
      /\ sawExpired \subseteq sawExpired' /\ sawExpired' \subseteq Keys
      /\ \A d \in Clients : OwnedBy(d)' = OwnedBy(d)
  BY DEF LoadOrStore, See, OwnedBy, IInv, TypeOK
<1>2. CASE Told(c, k, Gone) /\ Returns(c)
  <2>1. TypeOK'
    BY <1>1, <1>2, ConstantTypes, CallsType, ToldType
    DEF IInv, TypeOK, Returns, Busy
  <2>2. ASSUME NEW j \in Keys \ sawExpired' PROVE Agreed(j)'
    BY <1>1, <1>2, <2>2
    DEF Agreed, Holds, Told, Returns, Calls, IInv, TypeOK
  <2>3. Dropping'
    BY <1>1, <1>2 DEF IInv, Dropping, Returns, Calls, TypeOK
  <2> QED
    BY <2>1, <2>2, <2>3 DEF IInv
<1>3. CASE /\ locks[k] # None /\ ~HeldByOther(c, k)
           /\ Calls(c, "overwrite", k, fresh[c]) /\ UNCHANGED grant
  <2>1. TypeOK'
    BY <1>1, <1>3, ConstantTypes, CallsType DEF IInv, TypeOK, Busy
  <2>2. k \in sawExpired'
    <3>1. k \notin sawExpired => locks[k].owner # c
      BY <1>1, <1>3 DEF IInv, Agreed, OwnedBy
    <3> QED
      BY <1>1, <1>3, <3>1 DEF HeldByOther, LoadOrStore, See
  <2>3. ASSUME NEW j \in Keys \ sawExpired' PROVE Agreed(j)'
    BY <1>1, <1>3, <2>2, <2>3 DEF Agreed, Holds, Calls, IInv, TypeOK
  <2>4. Dropping'
    BY <1>1, <1>3 DEF IInv, Dropping, Calls, TypeOK
  <2> QED
    BY <2>1, <2>3, <2>4 DEF IInv
<1>4. \/ locks' = [locks EXCEPT ![k] = NewLock(c)] /\ locks[k] = None
      \/ Told(c, k, Gone) /\ Returns(c)
      \/ /\ locks[k] # None /\ ~HeldByOther(c, k)
         /\ Calls(c, "overwrite", k, fresh[c]) /\ UNCHANGED grant
  BY DEF LoadOrStore
<1>5. ~(locks' = [locks EXCEPT ![k] = NewLock(c)] /\ locks[k] = None)
  BY <1>1, NoneAssumption DEF NewLock, Lock, IInv, TypeOK
<1> QED
  BY <1>2, <1>3, <1>4, <1>5

\* Overwriting an equal lock: only for a key whose lock was found expired.
LEMMA OverwriteIInv ==
    ASSUME IInv, NEW c \in Clients, Overwrite(c), locks' = locks
    PROVE  IInv'
<1> DEFINE k == arg[c]
<1>1. /\ k \in Keys /\ fresh[c] \in Lifetimes /\ pc[c] = "overwrite"
      /\ UNCHANGED <<toDelete, isReplica, expired, sawExpired>>
      /\ Told(c, k, fresh[c]) /\ Returns(c)
      /\ \A d \in Clients : OwnedBy(d)' = OwnedBy(d)
  BY DEF Overwrite, OwnedBy, IInv, TypeOK
<1>2. TypeOK'
  BY <1>1, ConstantTypes, CallsType, ToldType DEF IInv, TypeOK, Returns, Busy
<1>3. ASSUME NEW j \in Keys \ sawExpired' PROVE Agreed(j)'
  BY <1>1, <1>3 DEF Agreed, Holds, Told, Returns, Calls, IInv, TypeOK
<1>4. Dropping'
  BY <1>1 DEF IInv, Dropping, Returns, Calls, TypeOK
<1> QED
  BY <1>2, <1>3, <1>4 DEF IInv

LEMMA ReleaseIInv ==
    ASSUME IInv, NEW c \in Clients, NEW k \in Keys, Release(c, k)
    PROVE  IInv'
<1>1. /\ pc[c] = "idle" /\ Told(c, k, Gone)
      /\ UNCHANGED <<locks, toDelete, isReplica, expired, sawExpired>>
      /\ \A d \in Clients : OwnedBy(d)' = OwnedBy(d)
  BY DEF Release, OwnedBy
<1>2. grant' \in [Clients -> [Keys -> Lifetimes]]
  BY <1>1, ConstantTypes, ToldType DEF IInv
<1>3. CASE k \in OwnedBy(c) /\ Calls(c, "delete", k, Gone)
  <2>1. TypeOK'
    BY <1>1, <1>2, <1>3, ConstantTypes, CallsType DEF IInv, TypeOK, Busy
  <2>2. ASSUME NEW j \in Keys \ sawExpired' PROVE Agreed(j)'
    BY <1>1, <1>3, <2>2 DEF Agreed, Holds, Told, Calls, IInv, TypeOK, Dropping
  <2>3. Dropping'
    BY <1>1, <1>3 DEF IInv, Dropping, Calls, TypeOK
  <2> QED
    BY <2>1, <2>2, <2>3 DEF IInv
<1>4. CASE UNCHANGED <<pc, arg, fresh>>
  <2>1. TypeOK'
    BY <1>1, <1>2, <1>4 DEF IInv, TypeOK
  <2>2. ASSUME NEW j \in Keys \ sawExpired' PROVE Agreed(j)'
    BY <1>1, <1>4, <2>2 DEF Agreed, Holds, Told, IInv, TypeOK
  <2>3. Dropping'
    BY <1>1, <1>4 DEF IInv, Dropping
  <2> QED
    BY <2>1, <2>2, <2>3 DEF IInv
<1> QED
  BY <1>3, <1>4 DEF Release

LEMMA ReleaseDeleteIInv ==
    ASSUME IInv, NEW c \in Clients, ReleaseDelete(c)
    PROVE  IInv'
<1> DEFINE k == arg[c]
<1>1. /\ k \in Keys /\ pc[c] = "delete" /\ Returns(c)
      /\ locks' = [locks EXCEPT ![k] = None]
      /\ UNCHANGED <<toDelete, isReplica, expired, grant, sawExpired>>
  BY DEF ReleaseDelete, IInv, TypeOK
<1>2. /\ locks' \in [Keys -> Lock \cup {None}]
      /\ \A d \in Clients : OwnedBy(d)' = OwnedBy(d) \ {k}
  BY <1>1, RemoveFacts DEF IInv
<1>3. TypeOK'
  BY <1>1, <1>2, ConstantTypes, CallsType DEF IInv, TypeOK, Returns, Busy
<1>4. ASSUME NEW j \in Keys \ sawExpired' PROVE Agreed(j)'
  <2>1. Agreed(j)
    BY <1>1, <1>4 DEF IInv
  <2>2. CASE j = k
    <3>1. \A d \in Clients : j \in OwnedBy(d) => d = c
      BY <1>1, <2>1, <2>2, OneOwner DEF Agreed
    <3>2. \A d \in Clients : ~Holds(d, j) /\ j \notin toDelete[d]
      BY <1>1, <2>1, <2>2, <3>1 DEF Agreed, IInv, Dropping
    <3>3. \A d \in Clients \ {c} : arg[d] = j => pc[d] \notin {"refresh", "delete"}
      BY <2>1, <3>1 DEF Agreed
    <3> QED
      BY <1>1, <1>2, <2>1, <3>2, <3>3
      DEF Agreed, Holds, Returns, Calls, IInv, TypeOK
  <2>3. CASE j # k
    BY <1>1, <1>2, <2>1, <2>3 DEF Agreed, Holds, Returns, Calls, IInv, TypeOK
  <2> QED
    BY <2>2, <2>3
<1>5. Dropping'
  BY <1>1, <1>2 DEF IInv, Dropping, Returns, Calls, TypeOK
<1> QED
  BY <1>3, <1>4, <1>5 DEF IInv

LEMMA DropLockIInv ==
    ASSUME IInv, NEW c \in Clients, NEW k \in Keys, DropLock(c, k)
    PROVE  IInv'
<1>1. /\ pc[c] = "drop" /\ k \in toDelete[c]
      /\ locks' = [locks EXCEPT ![k] = None]
      /\ toDelete' = [toDelete EXCEPT ![c] = @ \ {k}]
      /\ UNCHANGED <<pc, arg, fresh, isReplica, expired, grant, sawExpired>>
  BY DEF DropLock
<1>2. /\ locks' \in [Keys -> Lock \cup {None}]
      /\ \A d \in Clients : OwnedBy(d)' = OwnedBy(d) \ {k}
  BY <1>1, RemoveFacts DEF IInv
<1>3. TypeOK'
  BY <1>1, <1>2 DEF IInv, TypeOK
<1>4. ASSUME NEW j \in Keys \ sawExpired' PROVE Agreed(j)'
  <2>1. Agreed(j)
    BY <1>1, <1>4 DEF IInv
  <2>2. CASE j = k
    <3>1. \A d \in Clients : j \in OwnedBy(d) => d = c
      BY <1>1, <2>1, <2>2, OneOwner DEF Agreed
    <3>2. \A d \in Clients : ~Holds(d, j) /\ j \notin toDelete'[d]
      BY <1>1, <2>1, <2>2, <3>1 DEF Agreed, IInv, TypeOK
    <3>3. \A d \in Clients : arg[d] = j => pc[d] \notin {"refresh", "delete"}
      BY <1>1, <2>1, <3>1 DEF Agreed
    <3> QED
      BY <1>1, <1>2, <2>1, <3>2, <3>3 DEF Agreed, Holds
  <2>3. CASE j # k
    BY <1>1, <1>2, <2>1, <2>3 DEF Agreed, Holds, IInv, TypeOK
  <2> QED
    BY <2>2, <2>3
<1>5. Dropping'
  BY <1>1, <1>2 DEF IInv, Dropping, TypeOK
<1> QED
  BY <1>3, <1>4, <1>5 DEF IInv

LEMMA DisconnectIInv ==
    ASSUME IInv, NEW c \in Clients, Disconnect(c)
    PROVE  IInv'
<1>1. /\ pc[c] = "idle"
      /\ UNCHANGED <<locks, arg, fresh, isReplica, expired, sawExpired>>
      /\ \A d \in Clients : OwnedBy(d)' = OwnedBy(d)
      /\ grant' = [grant EXCEPT ![c] = [k \in Keys |-> Gone]]
  BY DEF Disconnect, OwnedBy
<1>2. /\ pc' = [pc EXCEPT ![c] = IF c \in isReplica THEN "gone" ELSE "drop"]
      /\ toDelete' = [toDelete EXCEPT ![c] = IF c \in isReplica THEN {} ELSE OwnedBy(c)]
  BY DEF Disconnect
<1>3. OwnedBy(c) \in SUBSET Keys
  BY DEF OwnedBy
<1>4. TypeOK'
  <2>1. grant' \in [Clients -> [Keys -> Lifetimes]]
    BY <1>1, ConstantTypes DEF IInv, TypeOK
  <2>2. pc' \in [Clients -> Labels] /\ toDelete' \in [Clients -> SUBSET Keys]
    BY <1>2, <1>3, ConstantTypes DEF IInv, TypeOK
  <2> QED
    BY <1>1, <1>2, <2>1, <2>2 DEF IInv, TypeOK
<1>5. ASSUME NEW j \in Keys \ sawExpired' PROVE Agreed(j)'
  <2>1. Agreed(j)
    BY <1>1, <1>5 DEF IInv
  <2>2. j \in toDelete'[c] => j \in OwnedBy(c)
    BY <1>2 DEF IInv, TypeOK
  <2> QED
    BY <1>1, <1>2, <2>1, <2>2 DEF Agreed, Holds, IInv, TypeOK
<1>6. Dropping'
  BY <1>1, <1>2 DEF IInv, Dropping, TypeOK
<1> QED
  BY <1>4, <1>5, <1>6 DEF IInv

\* Steps that only open, close or convert a connection.
LEMMA ConnectionIInv ==
    ASSUME IInv, NEW c \in Clients,
           RegisterReplica(c) \/ Connect(c) \/ DisconnectDone(c)
    PROVE  IInv'
<1>1. /\ UNCHANGED <<locks, arg, fresh, toDelete, expired, grant, sawExpired>>
      /\ \A d \in Clients : OwnedBy(d)' = OwnedBy(d)
      /\ isReplica' \subseteq Clients
      /\ \/ pc' = pc
         \/ pc' = [pc EXCEPT ![c] = "idle"]
         \/ pc' = [pc EXCEPT ![c] = "gone"]
  BY DEF RegisterReplica, Connect, DisconnectDone, callVars, OwnedBy, IInv, TypeOK
<1>2. TypeOK'
  <2>1. pc' \in [Clients -> Labels]
    BY <1>1, ConstantTypes DEF IInv, TypeOK
  <2> QED
    BY <1>1, <2>1 DEF IInv, TypeOK
<1>3. ASSUME NEW j \in Keys \ sawExpired' PROVE Agreed(j)'
  BY <1>1, <1>3 DEF Agreed, Holds, IInv, TypeOK
<1>4. Dropping'
  BY <1>1 DEF IInv, Dropping, TypeOK, RegisterReplica, Connect, DisconnectDone, callVars
<1> QED
  BY <1>2, <1>3, <1>4 DEF IInv

LEMMA CleanerIInv ==
    ASSUME IInv, CleanupExpired \/ \E k \in Keys : CleanupDelete(k)
    PROVE  IInv'
<1>1. CASE CleanupExpired
  <2>1. /\ UNCHANGED <<locks, pc, arg, fresh, toDelete, isReplica, grant>>
        /\ expired' \subseteq Keys
        /\ sawExpired' = sawExpired \cup expired'
        /\ \A d \in Clients : OwnedBy(d)' = OwnedBy(d)
    BY <1>1 DEF CleanupExpired, callVars, OwnedBy
  <2>2. TypeOK'
    BY <2>1 DEF IInv, TypeOK
  <2>3. ASSUME NEW j \in Keys \ sawExpired' PROVE Agreed(j)'
    BY <2>1, <2>3 DEF Agreed, Holds, IInv
  <2>4. Dropping'
    BY <2>1 DEF IInv, Dropping
  <2> QED
    BY <2>2, <2>3, <2>4 DEF IInv
<1>2. ASSUME NEW k \in Keys, CleanupDelete(k) PROVE IInv'
  <2>1. /\ UNCHANGED <<pc, arg, fresh, toDelete, isReplica, grant, sawExpired>>
        /\ expired' = expired \ {k} /\ k \in expired
        /\ locks' = [locks EXCEPT ![k] = None]
    BY <1>2 DEF CleanupDelete, callVars
  <2>2. /\ locks' \in [Keys -> Lock \cup {None}]
        /\ \A d \in Clients : OwnedBy(d)' = OwnedBy(d) \ {k}
    BY <2>1, RemoveFacts DEF IInv
  <2>3. TypeOK'
    BY <2>1, <2>2 DEF IInv, TypeOK
  <2>4. ASSUME NEW j \in Keys \ sawExpired' PROVE Agreed(j)'
    <3>1. Agreed(j) /\ j # k
      BY <2>1, <2>4 DEF IInv, Agreed
    <3> QED
      BY <2>1, <2>2, <3>1 DEF Agreed, Holds
  <2>5. Dropping'
    BY <2>1, <2>2 DEF IInv, Dropping
  <2> QED
    BY <2>3, <2>4, <2>5 DEF IInv
<1> QED
  BY <1>1, <1>2

LEMMA TickIInv == IInv /\ Tick => IInv'
<1> SUFFICES ASSUME IInv, Tick PROVE IInv'
  OBVIOUS
<1>1. /\ UNCHANGED <<pc, arg, toDelete, isReplica, expired, sawExpired>>
      /\ fresh' = [c \in Clients |-> Older(fresh[c])]
      /\ grant' = [c \in Clients |-> [k \in Keys |-> Older(grant[c][k])]]
  BY DEF Tick
<1>2. ASSUME NEW k \in Keys
      PROVE  /\ locks'[k] \in Lock \cup {None}
             /\ locks[k] = None => locks'[k] = None
             /\ locks[k] # None => locks'[k] # None /\ locks'[k].owner = locks[k].owner
  <2>1. CASE locks[k] = None
    BY <2>1 DEF Tick
  <2>2. CASE locks[k] # None
    <3>1. locks'[k] = [locks[k] EXCEPT !.left = Older(locks[k].left)]
      BY <2>2 DEF Tick
    <3>2. locks'[k] \in Lock /\ locks'[k].owner = locks[k].owner
      BY <2>2, <3>1, LockFacts, OlderType DEF IInv, Lock
    <3> QED
      BY <2>2, <3>2, NoneAssumption
  <2> QED
    BY <2>1, <2>2
<1>3. \A d \in Clients : OwnedBy(d)' = OwnedBy(d)
  BY <1>2 DEF OwnedBy
<1>4. TypeOK'
  <2>1. locks' \in [Keys -> Lock \cup {None}]
    <3>1. locks' = [k \in Keys |-> locks'[k]]
      BY DEF Tick
    <3> QED
      BY <1>2, <3>1
  <2>2. fresh' \in [Clients -> Lifetimes] /\ grant' \in [Clients -> [Keys -> Lifetimes]]
    BY <1>1, OlderType DEF IInv, TypeOK
  <2> QED
    BY <1>1, <2>1, <2>2 DEF IInv, TypeOK
<1>5. \A d \in Clients, k \in Keys : Holds(d, k)' => Holds(d, k)
  BY <1>1 DEF Holds, Older
<1>6. ASSUME NEW j \in Keys \ sawExpired' PROVE Agreed(j)'
  BY <1>1, <1>3, <1>5, <1>6 DEF Agreed, IInv
<1>7. Dropping'
  BY <1>1, <1>3 DEF IInv, Dropping
<1> QED
  BY <1>4, <1>6, <1>7 DEF IInv

-----------------------------------------------------------------------------
LEMMA NextIInv == IInv /\ [Next]_vars => IInv'
<1> SUFFICES ASSUME IInv, [Next]_vars PROVE IInv'
  OBVIOUS
<1>1. ASSUME NEW c \in Clients, Continue(c) PROVE IInv'
  BY <1>1, RefreshIInv, StoreIInv, LoadedIInv, OverwriteIInv, ReleaseDeleteIInv,
     DropLockIInv, ConnectionIInv
  DEF Continue
<1>2. ASSUME NEW c \in Clients, NEW k \in Keys,
             Release(c, k) \/ \E ttl \in TTLs : TryAcquire(c, k, ttl)
      PROVE  IInv'
  BY <1>2, ReleaseIInv, TryAcquireIInv
<1>3. ASSUME NEW c \in Clients, RegisterReplica(c) \/ Disconnect(c) \/ Connect(c)
      PROVE  IInv'
  BY <1>3, ConnectionIInv, DisconnectIInv
<1>4. CASE UNCHANGED vars
  <2>1. \A d \in Clients : OwnedBy(d)' = OwnedBy(d)
    BY <1>4 DEF vars, OwnedBy
  <2> QED
    BY <1>4, <2>1 DEF vars, IInv, TypeOK, Agreed, Holds, Dropping
<1> QED
  BY <1>1, <1>2, <1>3, <1>4, CleanerIInv, TickIInv DEF Next

\* The inductive invariant holds in every reachable state.
THEOREM Invariance == Spec => []IInv
<1>1. Init => IInv
  BY InitIInv
<1>2. IInv /\ [Next]_vars => IInv'
  BY NextIInv
<1> QED
  BY <1>1, <1>2, PTL DEF Spec

\* Every variable keeps its type (lock.go, every call).
THEOREM TypeCorrect == Spec => []TypeOK
<1>1. IInv => TypeOK
  BY DEF IInv
<1> QED
  BY <1>1, Invariance, PTL

\* Until the first call that finds the lock of a key expired, at most one
\* client holds it, and the table names that client as its owner, however the
\* calls of TryAcquire, Release and onDisconnect interleave.
THEOREM MutualExclusionUntilExpiry == Spec => []ExclusiveUntilExpiry
<1>1. IInv => ExclusiveUntilExpiry
  BY OneOwner DEF IInv, Agreed, ExclusiveUntilExpiry
<1> QED
  BY <1>1, Invariance, PTL

\* A client whose onDisconnect has returned owns no lock in the table, even
\* when its locks have expired, were stolen or cleaned up meanwhile.
THEOREM DisconnectCorrect == Spec => []DisconnectReleases
<1>1. IInv => DisconnectReleases
  BY DEF IInv, Dropping, DisconnectReleases
<1> QED
  BY <1>1, Invariance, PTL

\* Release: its test on the owner holds still when it deletes, for a key whose
\* lock no call has found expired, whatever the other calls did in between.
THEOREM UnlockCorrect == Spec => OnlyOwnerUnlocks
<1>1. IInv => \A c \in Clients :
                 ReleaseDelete(c) /\ arg[c] \notin sawExpired => arg[c] \in OwnedBy(c)
  BY DEF IInv, TypeOK, Agreed, ReleaseDelete
<1> QED
  BY <1>1, Invariance, PTL DEF OnlyOwnerUnlocks
=============================================================================
