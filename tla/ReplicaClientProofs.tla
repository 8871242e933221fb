------------------------ MODULE ReplicaClientProofs ------------------------
(***************************************************************************)
(* Proofs about ReplicaClient, for any interval, timeout and delay, any    *)
(* number of faults and of monitors: a sound leader is never deposed, a    *)
(* silent one is noticed in time, and a replica promoted while it listens  *)
(* stays alone.                                                            *)
(***************************************************************************)
EXTENDS ReplicaClient, TLAPS

Ticks == Gone .. Interval

Places == {"dialing", "dialed", "attached", "sleeping", "listening", "giving up", "done"}

\* TypeOK and what it leaves open, one part for each group of variables.
TypedLeader ==
    /\ leader \in {"up", "down", "stalled"} /\ beat \in 0 .. Interval
    /\ faults \in 0 .. MaxFaults

TypedLink ==
    /\ registered \in BOOLEAN /\ transit \subseteq 0 .. Delay
    /\ wire \in {"open", "cut", "silent"}
    /\ wire = "open" => leader # "down"
    /\ registered => wire = "open" /\ pc = "listening"
    /\ ~registered => transit = {}

TypedShared ==
    /\ conn \in {"nil", "old", "current"} /\ age \in 0 .. MaxAge
    /\ isPromoted \in BOOLEAN /\ promotedIn \in Places \cup {None}

TypedConnect ==
    /\ pc \in Places /\ attempt \in 0 .. Attempts /\ sleep \in 0 .. RetryDelay

TypedMonitors == monitors \in Seq(Ticks)

Typed == TypedLeader /\ TypedLink /\ TypedShared /\ TypedConnect /\ TypedMonitors

\* The connection is new while it is being attached; until the promotion it
\* is c.conn from then on.
Fresh ==
    /\ pc = "attached" => age = 0
    /\ pc \in {"attached", "listening"} /\ ~isPromoted => conn = "current"

\* No monitor ends before the promotion, and each will look at the heartbeat
\* before it is older than Timeout + Interval.
Watched ==
    ~isPromoted =>
        \A i \in DOMAIN monitors :
            /\ monitors[i] # Gone
            /\ monitors[i] = Decided => age <= Timeout + Interval
            /\ monitors[i] # Decided => age + monitors[i] <= Timeout + Interval

\* The next heartbeat arrives before the last is older than Timeout.
InTime ==
    IF transit = {} THEN age + beat + Delay <= Timeout
    ELSE \E t \in transit : age + t <= Timeout

\* Where a replica is that has seen no fault.
Sound ==
    faults = 0 =>
        /\ leader = "up" /\ ~isPromoted
        /\ pc \in {"dialing", "dialed", "attached", "listening"}
        /\ pc # "dialing" => wire = "open"
        /\ pc # "listening" => monitors = <<>>
        /\ pc = "listening" /\ ~registered => age = 0
        /\ registered => InTime
        /\ \A i \in DOMAIN monitors : monitors[i] # Decided

\* After a promotion that met the listener its connection is closed, and the
\* listener does nothing but end.
Alone ==
    isPromoted /\ promotedIn = "listening" =>
        wire = "cut" /\ ~registered /\ pc \in {"listening", "done"}

IInv ==
    /\ Typed
    /\ Fresh
    /\ Watched
    /\ Sound
    /\ Alone

-----------------------------------------------------------------------------
LEMMA ConstantFacts ==
    /\ Interval \in Nat /\ Interval > 0 /\ Timeout \in Nat /\ Delay \in Nat /\ MaxFaults \in Nat
    /\ Interval + Delay <= Timeout
    /\ MaxAge \in Nat /\ MaxAge = Timeout + Interval + 1
    /\ Gone = -2 /\ Decided = -1
    /\ Gone \in Ticks /\ Decided \in Ticks /\ Interval \in Ticks
BY TimingAssumption DEF MaxAge, Gone, Decided, Ticks

\* What a second does to a ticker that has not fired.
LEMMA LessPositive ==
    ASSUME NEW n \in 0 .. Interval, n # 0
    PROVE  n \in Nat /\ n > 0 /\ Less(n) = n - 1
BY ConstantFacts DEF Less

LEMMA InitIInv == Init => IInv
<1> SUFFICES ASSUME Init PROVE IInv
  OBVIOUS
<1>1. TypedLeader
  BY ConstantFacts DEF Init, TypedLeader
<1>2. TypedLink
  BY DEF Init, TypedLink
<1>3. TypedShared
  <2>1. age \in 0 .. MaxAge
    BY ConstantFacts DEF Init
  <2> QED
    BY <2>1 DEF Init, TypedShared
<1>4. TypedConnect
  BY DEF Init, TypedConnect, Places, Attempts, RetryDelay
<1>5. TypedMonitors
  BY DEF Init, TypedMonitors
<1>6. Fresh /\ Watched /\ Alone
  BY DEF Init, Fresh, Watched, Alone
<1>7. Sound
  BY DEF Init, Sound
<1> QED
  BY <1>1, <1>2, <1>3, <1>4, <1>5, <1>6, <1>7 DEF IInv, Typed

\* Where a failed Connect leads, from main and from handleLeaderDisconnect.
LEMMA SleepsType ==
    ASSUME NEW n \in 0 .. Attempts, NEW seconds \in 0 .. RetryDelay, Sleeps(n, seconds)
    PROVE  TypedConnect' /\ pc' = "sleeping"
BY DEF Sleeps, TypedConnect, Places

LEMMA ConnectFailsType ==
    ASSUME TypedConnect, ConnectFails
    PROVE  TypedConnect' /\ pc' \in {"sleeping", "giving up"}
<1>1. attempt \in {0, 1, 2, 3}
  BY DEF TypedConnect, Attempts
<1>2. CASE attempt = 0
  <2>1. Sleeps(0, RetryDelay)
    BY <1>2 DEF ConnectFails
  <2> QED
    BY <2>1, SleepsType DEF Attempts, RetryDelay
<1>3. CASE attempt \in {1, 2}
  <2>1. attempt \in 1 .. Attempts - 1 /\ attempt # 0
    BY <1>3 DEF Attempts
  <2>2. Sleeps(attempt + 1, attempt + 1)
    BY <2>1 DEF ConnectFails
  <2>3. attempt + 1 \in 0 .. Attempts /\ attempt + 1 \in 0 .. RetryDelay
    BY <1>3 DEF Attempts, RetryDelay
  <2> QED
    BY <2>2, <2>3, SleepsType
<1>4. CASE attempt = 3
  <2>1. attempt \notin 1 .. Attempts - 1 /\ attempt # 0
    BY <1>4 DEF Attempts
  <2>2. pc' = "giving up" /\ UNCHANGED <<attempt, sleep>>
    BY <2>1 DEF ConnectFails
  <2> QED
    BY <2>2 DEF TypedConnect, Places
<1> QED
  BY <1>1, <1>2, <1>3, <1>4

\* One monitor more, and the others as they are.
LEMMA AppendFacts ==
    ASSUME TypedMonitors, monitors' = Append(monitors, Interval)
    PROVE  /\ TypedMonitors'
           /\ \A i \in DOMAIN monitors' :
                 \/ i \in DOMAIN monitors /\ monitors'[i] = monitors[i]
                 \/ monitors'[i] = Interval
BY ConstantFacts DEF TypedMonitors

LEMMA LessFacts ==
    /\ \A n \in Ticks : Less(n) \in Ticks /\ (n # 0 => Less(n) # 0 \/ n = 1)
    /\ \A n \in Nat : Less(n) \in Nat /\ Less(n) <= n
    /\ \A n \in Nat : n > 0 => Less(n) = n - 1
    /\ \A n \in Int : n <= 0 => Less(n) = n
BY ConstantFacts DEF Less, Ticks

LEMMA WakeUpIInv ==
    ASSUME IInv, WakeUp
    PROVE  IInv'
<1> USE ConstantFacts DEF WakeUp, leaderVars, linkVars, sharedVars, connectVars
<1>1. Typed'
  <2>1. TypedLeader'
    BY DEF IInv, Typed, TypedLeader
  <2>2. TypedLink'
    BY DEF IInv, Typed, TypedLink, TypedLeader
  <2>3. TypedShared'
    BY DEF IInv, Typed, TypedShared, TypedConnect
  <2>4. TypedConnect'
    BY DEF IInv, Typed, TypedConnect, Places, Attempts, RetryDelay
  <2>5. TypedMonitors'
    BY DEF IInv, Typed, TypedMonitors
  <2> QED
    BY <2>1, <2>2, <2>3, <2>4, <2>5 DEF Typed
<1>2. Fresh'
  BY DEF IInv, Typed, TypedShared, TypedConnect, Fresh
<1>3. Watched'
  BY DEF IInv, Typed, TypedShared, TypedMonitors, Fresh, Watched, Ticks
<1>4. Sound'
  BY DEF IInv, Typed, TypedLink, TypedShared, TypedLeader, TypedConnect, TypedMonitors, Fresh, Sound, InTime, Ticks
<1>5. Alone'
  BY DEF IInv, Typed, TypedLink, TypedConnect, TypedShared, Fresh, Alone
<1> QED
  BY <1>1, <1>2, <1>3, <1>4, <1>5 DEF IInv

LEMMA DialIInv ==
    ASSUME IInv, Dial
    PROVE  IInv'
<1> USE ConstantFacts DEF Dial, leaderVars, linkVars, sharedVars, connectVars
<1>1. Typed'
  <2>1. TypedLeader'
    BY DEF IInv, Typed, TypedLeader
  <2>2. TypedLink'
    BY DEF IInv, Typed, TypedLink, TypedLeader
  <2>3. TypedShared'
    BY DEF IInv, Typed, TypedShared, TypedConnect
  <2>4. TypedConnect'
    BY DEF IInv, Typed, TypedConnect, Places, Attempts, RetryDelay
  <2>5. TypedMonitors'
    BY DEF IInv, Typed, TypedMonitors
  <2> QED
    BY <2>1, <2>2, <2>3, <2>4, <2>5 DEF Typed
<1>2. Fresh'
  BY DEF IInv, Typed, TypedShared, TypedConnect, Fresh
<1>3. Watched'
  BY DEF IInv, Typed, TypedShared, TypedMonitors, Fresh, Watched, Ticks
<1>4. Sound'
  BY DEF IInv, Typed, TypedLink, TypedShared, TypedLeader, TypedConnect, TypedMonitors, Fresh, Sound, InTime, Ticks
<1>5. Alone'
  BY DEF IInv, Typed, TypedLink, TypedConnect, TypedShared, Fresh, Alone
<1> QED
  BY <1>1, <1>2, <1>3, <1>4, <1>5 DEF IInv

LEMMA DialFailsIInv ==
    ASSUME IInv, DialFails
    PROVE  IInv'
<1> USE ConstantFacts DEF DialFails, leaderVars, linkVars, sharedVars, connectVars
<1>0. TypedConnect' /\ pc' \in {"sleeping", "giving up"}
  BY ConnectFailsType DEF IInv, Typed
<1>1. Typed'
  <2>1. TypedLeader'
    BY DEF IInv, Typed, TypedLeader
  <2>2. TypedLink'
    BY DEF IInv, Typed, TypedLink, TypedLeader
  <2>3. TypedShared'
    BY DEF IInv, Typed, TypedShared, TypedConnect
  <2>4. TypedConnect'
    BY <1>0
  <2>5. TypedMonitors'
    BY DEF IInv, Typed, TypedMonitors
  <2> QED
    BY <2>1, <2>2, <2>3, <2>4, <2>5 DEF Typed
<1>2. Fresh'
  BY <1>0, <1>1 DEF Typed, TypedLink, IInv, Fresh
<1>3. Watched'
  BY DEF IInv, Typed, TypedShared, TypedMonitors, Fresh, Watched, Ticks
<1>4. Sound'
  BY DEF IInv, Typed, TypedLink, TypedShared, TypedLeader, TypedConnect, TypedMonitors, Fresh, Sound, InTime, Ticks
<1>5. Alone'
  BY DEF IInv, Typed, TypedLink, TypedConnect, TypedShared, Fresh, Alone
<1> QED
  BY <1>1, <1>2, <1>3, <1>4, <1>5 DEF IInv

LEMMA AttachIInv ==
    ASSUME IInv, Attach
    PROVE  IInv'
<1> USE ConstantFacts DEF Attach, leaderVars, linkVars, sharedVars, connectVars
<1>1. Typed'
  <2>1. TypedLeader'
    BY DEF IInv, Typed, TypedLeader
  <2>2. TypedLink'
    BY DEF IInv, Typed, TypedLink, TypedLeader
  <2>3. TypedShared'
    BY DEF IInv, Typed, TypedShared, TypedConnect
  <2>4. TypedConnect'
    BY DEF IInv, Typed, TypedConnect, Places, Attempts, RetryDelay
  <2>5. TypedMonitors'
    BY DEF IInv, Typed, TypedMonitors
  <2> QED
    BY <2>1, <2>2, <2>3, <2>4, <2>5 DEF Typed
<1>2. Fresh'
  BY DEF IInv, Typed, TypedShared, TypedConnect, Fresh
<1>3. Watched'
  BY DEF IInv, Typed, TypedShared, TypedMonitors, Fresh, Watched, Ticks
<1>4. Sound'
  BY DEF IInv, Typed, TypedLink, TypedShared, TypedLeader, TypedConnect, TypedMonitors, Fresh, Sound, InTime, Ticks
<1>5. Alone'
  BY DEF IInv, Typed, TypedLink, TypedConnect, TypedShared, Fresh, Alone
<1> QED
  BY <1>1, <1>2, <1>3, <1>4, <1>5 DEF IInv

LEMMA SendRegisterIInv ==
    ASSUME IInv, SendRegister
    PROVE  IInv'
<1>1. /\ pc = "attached" /\ age = 0 /\ ~registered /\ transit = {}
      /\ UNCHANGED <<leaderVars, linkVars, sharedVars>>
  BY DEF SendRegister, IInv, Typed, TypedLink, Fresh
<1> USE DEF leaderVars, linkVars, sharedVars
<1>2. CASE wire = "cut"
  <2>1. ConnectFails /\ monitors' = monitors
    BY <1>2 DEF SendRegister
  <2>2. TypedConnect' /\ pc' \in {"sleeping", "giving up"}
    BY <2>1, ConnectFailsType DEF IInv, Typed
  <2>3. Typed'
    BY <1>1, <2>1, <2>2
    DEF IInv, Typed, TypedLeader, TypedLink, TypedShared, TypedMonitors
  <2>4. Fresh' /\ Watched'
    BY <1>1, <2>1, <2>2 DEF IInv, Fresh, Watched
  <2>5. Sound' /\ Alone'
    BY <1>1, <1>2, <2>1, <2>2 DEF IInv, Sound, Alone
  <2> QED
    BY <2>3, <2>4, <2>5 DEF IInv
<1>3. CASE wire # "cut"
  <2>1. /\ pc' = "listening" /\ UNCHANGED <<attempt, sleep>>
        /\ monitors' = Append(monitors, Interval)
    BY <1>3 DEF SendRegister
  <2>2. /\ TypedMonitors'
        /\ \A i \in DOMAIN monitors' :
              \/ i \in DOMAIN monitors /\ monitors'[i] = monitors[i]
              \/ monitors'[i] = Interval
    BY <2>1, AppendFacts DEF IInv, Typed
  <2>3. Typed'
    BY <1>1, <2>1, <2>2
    DEF IInv, Typed, TypedLeader, TypedLink, TypedShared, TypedConnect, Places
  <2>4. Fresh'
    BY <1>1, <2>1 DEF IInv, Fresh
  <2>5. Watched'
    BY <1>1, <2>1, <2>2, ConstantFacts DEF IInv, Watched
  <2>6. Sound'
    BY <1>1, <2>1, <2>2, ConstantFacts DEF IInv, Sound
  <2>7. Alone'
    BY <1>1, <2>1 DEF IInv, Alone
  <2> QED
    BY <2>3, <2>4, <2>5, <2>6, <2>7 DEF IInv
<1> QED
  BY <1>2, <1>3

LEMMA ReceiveHeartbeatIInv ==
    ASSUME IInv, ReceiveHeartbeat
    PROVE  IInv'
<1> USE ConstantFacts DEF ReceiveHeartbeat, leaderVars, linkVars, sharedVars, connectVars
<1>1. Typed'
  <2>1. TypedLeader'
    BY DEF IInv, Typed, TypedLeader
  <2>2. TypedLink'
    BY DEF IInv, Typed, TypedLink, TypedLeader
  <2>3. TypedShared'
    BY DEF IInv, Typed, TypedShared, TypedConnect
  <2>4. TypedConnect'
    BY DEF IInv, Typed, TypedConnect, Places, Attempts, RetryDelay
  <2>5. TypedMonitors'
    BY DEF IInv, Typed, TypedMonitors
  <2> QED
    BY <2>1, <2>2, <2>3, <2>4, <2>5 DEF Typed
<1>2. Fresh'
  BY DEF IInv, Typed, TypedShared, TypedConnect, Fresh
<1>3. Watched'
  BY DEF IInv, Typed, TypedShared, TypedMonitors, Fresh, Watched, Ticks
<1>4. Sound'
  BY DEF IInv, Typed, TypedLink, TypedShared, TypedLeader, TypedConnect, TypedMonitors, Fresh, Sound, InTime, Ticks
<1>5. Alone'
  BY DEF IInv, Typed, TypedLink, TypedConnect, TypedShared, Fresh, Alone
<1> QED
  BY <1>1, <1>2, <1>3, <1>4, <1>5 DEF IInv

LEMMA DisconnectedIInv ==
    ASSUME IInv, Disconnected
    PROVE  IInv'
<1> USE ConstantFacts DEF Disconnected, Sleeps, leaderVars, linkVars, sharedVars, connectVars
<1>1. Typed'
  <2>1. TypedLeader'
    BY DEF IInv, Typed, TypedLeader
  <2>2. TypedLink'
    BY DEF IInv, Typed, TypedLink, TypedLeader
  <2>3. TypedShared'
    BY DEF IInv, Typed, TypedShared, TypedConnect
  <2>4. TypedConnect'
    <3>1. CASE isPromoted
      BY <3>1 DEF IInv, Typed, TypedConnect, Places
    <3>2. CASE ~isPromoted
      BY <3>2, SleepsType DEF Attempts, RetryDelay
    <3> QED
      BY <3>1, <3>2
  <2>5. TypedMonitors'
    BY DEF IInv, Typed, TypedMonitors
  <2> QED
    BY <2>1, <2>2, <2>3, <2>4, <2>5 DEF Typed
<1>2. Fresh'
  BY DEF IInv, Typed, TypedShared, TypedConnect, Fresh
<1>3. Watched'
  BY DEF IInv, Typed, TypedShared, TypedMonitors, Fresh, Watched, Ticks
<1>4. Sound'
  BY DEF IInv, Typed, TypedLink, TypedShared, TypedLeader, TypedConnect, TypedMonitors, Fresh, Sound, InTime, Ticks
<1>5. Alone'
  BY DEF IInv, Typed, TypedLink, TypedConnect, TypedShared, Fresh, Alone
<1> QED
  BY <1>1, <1>2, <1>3, <1>4, <1>5 DEF IInv

LEMMA GiveUpIInv ==
    ASSUME IInv, GiveUp
    PROVE  IInv'
<1> USE ConstantFacts DEF GiveUp, promoteToLeader, Drop, leaderVars, linkVars, sharedVars, connectVars
<1>1. Typed'
  <2>1. TypedLeader'
    BY DEF IInv, Typed, TypedLeader
  <2>2. TypedLink'
    BY DEF IInv, Typed, TypedLink, TypedLeader
  <2>3. TypedShared'
    BY DEF IInv, Typed, TypedShared, TypedConnect
  <2>4. TypedConnect'
    BY DEF IInv, Typed, TypedConnect, Places, Attempts, RetryDelay
  <2>5. TypedMonitors'
    BY DEF IInv, Typed, TypedMonitors
  <2> QED
    BY <2>1, <2>2, <2>3, <2>4, <2>5 DEF Typed
<1>2. Fresh'
  BY DEF IInv, Typed, TypedShared, TypedConnect, Fresh
<1>3. Watched'
  BY DEF IInv, Typed, TypedShared, TypedMonitors, Fresh, Watched, Ticks
<1>4. Sound'
  BY DEF IInv, Typed, TypedLink, TypedShared, TypedLeader, TypedConnect, TypedMonitors, Fresh, Sound, InTime, Ticks
<1>5. Alone'
  BY DEF IInv, Typed, TypedLink, TypedConnect, TypedShared, Fresh, Alone
<1> QED
  BY <1>1, <1>2, <1>3, <1>4, <1>5 DEF IInv

LEMMA CheckHeartbeatIInv ==
    ASSUME IInv, NEW i \in DOMAIN monitors, CheckHeartbeat(i)
    PROVE  IInv'
<1> USE ConstantFacts DEF CheckHeartbeat, TimedOut, leaderVars, linkVars, sharedVars, connectVars
<1>1. Typed'
  <2>1. TypedLeader'
    BY DEF IInv, Typed, TypedLeader
  <2>2. TypedLink'
    BY DEF IInv, Typed, TypedLink, TypedLeader
  <2>3. TypedShared'
    BY DEF IInv, Typed, TypedShared, TypedConnect
  <2>4. TypedConnect'
    BY DEF IInv, Typed, TypedConnect, Places, Attempts, RetryDelay
  <2>5. TypedMonitors'
    BY DEF IInv, Typed, TypedMonitors
  <2> QED
    BY <2>1, <2>2, <2>3, <2>4, <2>5 DEF Typed
<1>2. Fresh'
  BY DEF IInv, Typed, TypedShared, TypedConnect, Fresh
<1>3. Watched'
  BY DEF IInv, Typed, TypedShared, TypedMonitors, Fresh, Watched, Ticks
<1>4. Sound'
  <2> SUFFICES ASSUME faults' = 0
               PROVE  Sound'
    BY DEF Sound
  <2>1. faults = 0 /\ pc = "listening" /\ ~isPromoted
    BY DEF IInv, Sound
  <2>2. age <= Timeout
    <3>1. CASE ~registered
      BY <2>1, <3>1 DEF IInv, Sound
    <3>2. CASE registered
      <4>1. InTime /\ age \in Nat /\ beat \in Nat /\ \A t \in transit : t \in Nat
        BY <2>1, <3>2
        DEF IInv, Sound, Typed, TypedLeader, TypedLink, TypedShared
      <4> QED
        BY <4>1 DEF InTime
    <3> QED
      BY <3>1, <3>2
  <2>3. monitors' = [monitors EXCEPT ![i] = Interval]
    <3>1. ~(age > Timeout)
      BY <2>2, ConstantFacts DEF IInv, Typed, TypedShared
    <3> QED
      BY <2>1, <3>1
  <2> QED
    BY <2>1, <2>3 DEF IInv, Typed, TypedMonitors, Sound, InTime
<1>5. Alone'
  BY DEF IInv, Typed, TypedLink, TypedConnect, TypedShared, Fresh, Alone
<1> QED
  BY <1>1, <1>2, <1>3, <1>4, <1>5 DEF IInv

LEMMA MonitorPromotesIInv ==
    ASSUME IInv, NEW i \in DOMAIN monitors, MonitorPromotes(i)
    PROVE  IInv'
<1> USE ConstantFacts DEF MonitorPromotes, promoteToLeader, Drop, leaderVars, linkVars, sharedVars, connectVars
<1>1. Typed'
  <2>1. TypedLeader'
    BY DEF IInv, Typed, TypedLeader
  <2>2. TypedLink'
    BY DEF IInv, Typed, TypedLink, TypedLeader
  <2>3. TypedShared'
    BY DEF IInv, Typed, TypedShared, TypedConnect
  <2>4. TypedConnect'
    BY DEF IInv, Typed, TypedConnect, Places, Attempts, RetryDelay
  <2>5. TypedMonitors'
    BY DEF IInv, Typed, TypedMonitors
  <2> QED
    BY <2>1, <2>2, <2>3, <2>4, <2>5 DEF Typed
<1>2. Fresh'
  BY DEF IInv, Typed, TypedShared, TypedConnect, Fresh
<1>3. Watched'
  BY DEF IInv, Typed, TypedShared, TypedMonitors, Fresh, Watched, Ticks
<1>4. Sound'
  BY DEF IInv, Typed, TypedLink, TypedShared, TypedLeader, TypedConnect, TypedMonitors, Fresh, Sound, InTime, Ticks
<1>5. Alone'
  BY DEF IInv, Typed, TypedLink, TypedConnect, TypedShared, Fresh, Alone
<1> QED
  BY <1>1, <1>2, <1>3, <1>4, <1>5 DEF IInv

LEMMA RegisterReplicaIInv ==
    ASSUME IInv, RegisterReplica
    PROVE  IInv'
<1> USE ConstantFacts DEF RegisterReplica, leaderVars, linkVars, sharedVars, connectVars
<1>1. Typed'
  <2>1. TypedLeader'
    BY DEF IInv, Typed, TypedLeader
  <2>2. TypedLink'
    BY DEF IInv, Typed, TypedLink, TypedLeader
  <2>3. TypedShared'
    BY DEF IInv, Typed, TypedShared, TypedConnect
  <2>4. TypedConnect'
    BY DEF IInv, Typed, TypedConnect, Places, Attempts, RetryDelay
  <2>5. TypedMonitors'
    BY DEF IInv, Typed, TypedMonitors
  <2> QED
    BY <2>1, <2>2, <2>3, <2>4, <2>5 DEF Typed
<1>2. Fresh'
  BY DEF IInv, Typed, TypedShared, TypedConnect, Fresh
<1>3. Watched'
  BY DEF IInv, Typed, TypedShared, TypedMonitors, Fresh, Watched, Ticks
<1>4. Sound'
  BY DEF IInv, Typed, TypedLink, TypedShared, TypedLeader, TypedConnect, TypedMonitors, Fresh, Sound, InTime, Ticks
<1>5. Alone'
  BY DEF IInv, Typed, TypedLink, TypedConnect, TypedShared, Fresh, Alone
<1> QED
  BY <1>1, <1>2, <1>3, <1>4, <1>5 DEF IInv

LEMMA broadcastHeartbeatIInv ==
    ASSUME IInv, broadcastHeartbeat
    PROVE  IInv'
<1> USE ConstantFacts DEF broadcastHeartbeat, leaderVars, linkVars, sharedVars, connectVars
<1>1. Typed'
  <2>1. TypedLeader'
    BY DEF IInv, Typed, TypedLeader
  <2>2. TypedLink'
    BY DEF IInv, Typed, TypedLink, TypedLeader
  <2>3. TypedShared'
    BY DEF IInv, Typed, TypedShared, TypedConnect
  <2>4. TypedConnect'
    BY DEF IInv, Typed, TypedConnect, Places, Attempts, RetryDelay
  <2>5. TypedMonitors'
    BY DEF IInv, Typed, TypedMonitors
  <2> QED
    BY <2>1, <2>2, <2>3, <2>4, <2>5 DEF Typed
<1>2. Fresh'
  BY DEF IInv, Typed, TypedShared, TypedConnect, Fresh
<1>3. Watched'
  BY DEF IInv, Typed, TypedShared, TypedMonitors, Fresh, Watched, Ticks
<1>4. Sound'
  BY DEF IInv, Typed, TypedLink, TypedShared, TypedLeader, TypedConnect, TypedMonitors, Fresh, Sound, InTime, Ticks
<1>5. Alone'
  BY DEF IInv, Typed, TypedLink, TypedConnect, TypedShared, Fresh, Alone
<1> QED
  BY <1>1, <1>2, <1>3, <1>4, <1>5 DEF IInv

LEMMA SecondIInv ==
    ASSUME IInv, Second
    PROVE  IInv'
<1>1. /\ age \in 0 .. MaxAge /\ age' \in 0 .. MaxAge /\ age' <= age + 1
      /\ age <= Timeout + Interval => age' = age + 1
  BY ConstantFacts DEF Second, IInv, Typed, TypedShared
<1>0. /\ pc \notin {"dialed", "attached", "giving up"}
      /\ pc = "listening" => 0 \notin transit /\ (wire = "open" => registered)
      /\ \A i \in DOMAIN monitors : monitors[i] # 0 /\ monitors[i] # Decided
      /\ leader = "up" => beat # 0
  BY DEF Second, Waiting
<1>2. /\ beat \in 0 .. Interval /\ beat' \in 0 .. Interval
      /\ leader = "up" => beat > 0 /\ beat' = beat - 1
  <2>1. beat \in 0 .. Interval /\ beat' = IF leader = "up" THEN Less(beat) ELSE beat
    BY DEF Second, IInv, Typed, TypedLeader
  <2>2. CASE leader = "up"
    <3>1. beat # 0 /\ beat' = Less(beat)
      BY <1>0, <2>1, <2>2
    <3>2. beat \in Nat /\ beat > 0 /\ Less(beat) = beat - 1
      BY <2>1, <3>1, LessPositive
    <3> QED
      BY <2>1, <3>1, <3>2, ConstantFacts
  <2>3. CASE leader # "up"
    BY <2>1, <2>3
  <2> QED
    BY <2>2, <2>3
<1>3. transit' \subseteq 0 .. Delay
  BY ConstantFacts, LessFacts DEF Second, IInv, Typed, TypedLink
<1>4. sleep' \in 0 .. RetryDelay
  BY LessFacts DEF Second, IInv, Typed, TypedConnect, RetryDelay
<1>5. /\ monitors' \in Seq(Ticks) /\ DOMAIN monitors' = DOMAIN monitors
      /\ \A i \in DOMAIN monitors : monitors'[i] = Less(monitors[i]) /\ monitors[i] \in Ticks
  <2>1. monitors \in Seq(Ticks) /\ monitors' = [i \in DOMAIN monitors |-> Less(monitors[i])]
    BY DEF Second, IInv, Typed, TypedMonitors
  <2>2. /\ Len(monitors) \in Nat /\ DOMAIN monitors = 1 .. Len(monitors)
        /\ \A i \in DOMAIN monitors : monitors[i] \in Ticks /\ Less(monitors[i]) \in Ticks
    BY <2>1, LessFacts
  <2>3. monitors' \in [1 .. Len(monitors) -> Ticks]
    BY <2>1, <2>2
  <2> QED
    BY <2>1, <2>2, <2>3
<1>6. UNCHANGED <<leader, faults, registered, wire, conn, isPromoted, promotedIn, pc, attempt>>
  BY DEF Second
<1>7. Typed'
  BY <1>1, <1>2, <1>3, <1>4, <1>5, <1>6
  DEF Second, IInv, Typed, TypedLeader, TypedLink, TypedShared, TypedConnect, TypedMonitors
<1>8. Fresh' /\ Alone'
  BY <1>0, <1>6 DEF IInv, Fresh, Alone
<1>9. Watched'
  <2> SUFFICES ASSUME ~isPromoted, NEW i \in DOMAIN monitors
               PROVE  /\ monitors'[i] # Gone
                      /\ monitors'[i] # Decided
                      /\ age' + monitors'[i] <= Timeout + Interval
    BY <1>5, <1>6 DEF Watched
  <2>1. monitors[i] \in Ticks /\ monitors[i] \notin {0, Decided, Gone}
    BY <1>0, <1>5 DEF IInv, Watched
  <2>2. monitors[i] > 0 /\ monitors'[i] = monitors[i] - 1
    <3>1. monitors[i] \in 1 .. Interval
      BY <2>1, ConstantFacts DEF Ticks
    <3> QED
      BY <1>5, <3>1, ConstantFacts DEF Less
  <2>3. age + monitors[i] <= Timeout + Interval
    BY <2>1 DEF IInv, Watched
  <2> QED
    BY <1>1, <2>1, <2>2, <2>3, ConstantFacts DEF Ticks
<1>10. Sound'
  <2> SUFFICES ASSUME faults = 0
               PROVE  Sound'
    BY <1>6 DEF Sound
  <2>1. pc \in {"dialing", "listening"} /\ (pc = "listening" => registered)
    BY <1>0 DEF IInv, Sound
  <2>2. \A i \in DOMAIN monitors : monitors'[i] # Decided
    BY <1>5, LessFacts, ConstantFacts DEF IInv, Sound, Ticks
  <2>3. registered => InTime'
    <3> SUFFICES ASSUME registered
                 PROVE  InTime'
      OBVIOUS
    <3>1. InTime /\ leader = "up" /\ pc = "listening"
      BY DEF IInv, Sound, Typed, TypedLink
    <3>2. CASE transit = {}
      <4>1. transit' = {} /\ age + beat + Delay <= Timeout
        BY <3>1, <3>2 DEF Second, InTime
      <4> QED
        <5>1. age' <= age + 1 /\ beat' = beat - 1
              /\ age \in Nat /\ age' \in Nat /\ beat \in Nat /\ beat' \in Nat
          BY <1>1, <1>2, <3>1
        <5>2. age' + beat' + Delay <= Timeout
          <6>1. Delay \in Nat /\ Timeout \in Nat
            BY TimingAssumption
          <6>2. \A a, b \in Nat : a <= age + 1 /\ b = beat - 1 => a + b + Delay <= Timeout
            BY <4>1, <5>1, <6>1
          <6> QED
            BY <5>1, <6>2, Zenon
        <5> QED
          BY <4>1, <5>2 DEF InTime
    <3>3. CASE transit # {}
      <4>1. PICK t \in transit : age + t <= Timeout
        BY <3>1, <3>3 DEF InTime
      <4>2. t \in 0 .. Delay /\ t # 0
        BY <1>0, <3>1, <4>1 DEF IInv, Typed, TypedLink
      <4>3. Less(t) = t - 1 /\ Less(t) \in transit'
        BY <4>1, <4>2, LessFacts, ConstantFacts DEF Second
      <4> QED
        BY <1>1, <4>1, <4>2, <4>3, ConstantFacts DEF InTime
    <3> QED
      BY <3>2, <3>3
  <2>4. pc # "listening" => monitors' = <<>>
    BY <1>5 DEF Second, IInv, Sound
  <2> QED
    BY <1>5, <1>6, <2>1, <2>2, <2>3, <2>4 DEF IInv, Sound
<1> QED
  BY <1>7, <1>8, <1>9, <1>10 DEF IInv

LEMMA LeaderStopsIInv ==
    ASSUME IInv, LeaderStops
    PROVE  IInv'
<1> USE ConstantFacts DEF LeaderStops, Fault, Drop, leaderVars, linkVars, sharedVars, connectVars
<1>1. Typed'
  <2>1. TypedLeader'
    BY DEF IInv, Typed, TypedLeader
  <2>2. TypedLink'
    BY DEF IInv, Typed, TypedLink, TypedLeader
  <2>3. TypedShared'
    BY DEF IInv, Typed, TypedShared, TypedConnect
  <2>4. TypedConnect'
    BY DEF IInv, Typed, TypedConnect, Places, Attempts, RetryDelay
  <2>5. TypedMonitors'
    BY DEF IInv, Typed, TypedMonitors
  <2> QED
    BY <2>1, <2>2, <2>3, <2>4, <2>5 DEF Typed
<1>2. Fresh'
  BY DEF IInv, Typed, TypedShared, TypedConnect, Fresh
<1>3. Watched'
  BY DEF IInv, Typed, TypedShared, TypedMonitors, Fresh, Watched, Ticks
<1>4. Sound'
  <2>1. faults' # 0
    BY DEF IInv, Typed, TypedLeader
  <2> QED
    BY <2>1 DEF Sound
<1>5. Alone'
  BY DEF IInv, Typed, TypedLink, TypedConnect, TypedShared, Fresh, Alone
<1> QED
  BY <1>1, <1>2, <1>3, <1>4, <1>5 DEF IInv

LEMMA LeaderStallsIInv ==
    ASSUME IInv, LeaderStalls
    PROVE  IInv'
<1> USE ConstantFacts DEF LeaderStalls, Fault, leaderVars, linkVars, sharedVars, connectVars
<1>1. Typed'
  <2>1. TypedLeader'
    BY DEF IInv, Typed, TypedLeader
  <2>2. TypedLink'
    BY DEF IInv, Typed, TypedLink, TypedLeader
  <2>3. TypedShared'
    BY DEF IInv, Typed, TypedShared, TypedConnect
  <2>4. TypedConnect'
    BY DEF IInv, Typed, TypedConnect, Places, Attempts, RetryDelay
  <2>5. TypedMonitors'
    BY DEF IInv, Typed, TypedMonitors
  <2> QED
    BY <2>1, <2>2, <2>3, <2>4, <2>5 DEF Typed
<1>2. Fresh'
  BY DEF IInv, Typed, TypedShared, TypedConnect, Fresh
<1>3. Watched'
  BY DEF IInv, Typed, TypedShared, TypedMonitors, Fresh, Watched, Ticks
<1>4. Sound'
  <2>1. faults' # 0
    BY DEF IInv, Typed, TypedLeader
  <2> QED
    BY <2>1 DEF Sound
<1>5. Alone'
  BY DEF IInv, Typed, TypedLink, TypedConnect, TypedShared, Fresh, Alone
<1> QED
  BY <1>1, <1>2, <1>3, <1>4, <1>5 DEF IInv

LEMMA LeaderRecoversIInv ==
    ASSUME IInv, LeaderRecovers
    PROVE  IInv'
<1> USE ConstantFacts DEF LeaderRecovers, leaderVars, linkVars, sharedVars, connectVars
<1>1. Typed'
  <2>1. TypedLeader'
    BY DEF IInv, Typed, TypedLeader
  <2>2. TypedLink'
    BY DEF IInv, Typed, TypedLink, TypedLeader
  <2>3. TypedShared'
    BY DEF IInv, Typed, TypedShared, TypedConnect
  <2>4. TypedConnect'
    BY DEF IInv, Typed, TypedConnect, Places, Attempts, RetryDelay
  <2>5. TypedMonitors'
    BY DEF IInv, Typed, TypedMonitors
  <2> QED
    BY <2>1, <2>2, <2>3, <2>4, <2>5 DEF Typed
<1>2. Fresh'
  BY DEF IInv, Typed, TypedShared, TypedConnect, Fresh
<1>3. Watched'
  BY DEF IInv, Typed, TypedShared, TypedMonitors, Fresh, Watched, Ticks
<1>4. Sound'
  BY DEF IInv, Typed, TypedLink, TypedShared, TypedLeader, TypedConnect, TypedMonitors, Fresh, Sound, InTime, Ticks
<1>5. Alone'
  BY DEF IInv, Typed, TypedLink, TypedConnect, TypedShared, Fresh, Alone
<1> QED
  BY <1>1, <1>2, <1>3, <1>4, <1>5 DEF IInv

LEMMA LinkBreaksIInv ==
    ASSUME IInv, LinkBreaks
    PROVE  IInv'
<1> USE ConstantFacts DEF LinkBreaks, Fault, Drop, leaderVars, linkVars, sharedVars, connectVars
<1>1. Typed'
  <2>1. TypedLeader'
    BY DEF IInv, Typed, TypedLeader
  <2>2. TypedLink'
    BY DEF IInv, Typed, TypedLink, TypedLeader
  <2>3. TypedShared'
    BY DEF IInv, Typed, TypedShared, TypedConnect
  <2>4. TypedConnect'
    BY DEF IInv, Typed, TypedConnect, Places, Attempts, RetryDelay
  <2>5. TypedMonitors'
    BY DEF IInv, Typed, TypedMonitors
  <2> QED
    BY <2>1, <2>2, <2>3, <2>4, <2>5 DEF Typed
<1>2. Fresh'
  BY DEF IInv, Typed, TypedShared, TypedConnect, Fresh
<1>3. Watched'
  BY DEF IInv, Typed, TypedShared, TypedMonitors, Fresh, Watched, Ticks
<1>4. Sound'
  <2>1. faults' # 0
    BY DEF IInv, Typed, TypedLeader
  <2> QED
    BY <2>1 DEF Sound
<1>5. Alone'
  BY DEF IInv, Typed, TypedLink, TypedConnect, TypedShared, Fresh, Alone
<1> QED
  BY <1>1, <1>2, <1>3, <1>4, <1>5 DEF IInv

LEMMA NoticeIInv ==
    ASSUME IInv, Notice
    PROVE  IInv'
<1> USE ConstantFacts DEF Notice, Drop, leaderVars, linkVars, sharedVars, connectVars
<1>1. Typed'
  <2>1. TypedLeader'
    BY DEF IInv, Typed, TypedLeader
  <2>2. TypedLink'
    BY DEF IInv, Typed, TypedLink, TypedLeader
  <2>3. TypedShared'
    BY DEF IInv, Typed, TypedShared, TypedConnect
  <2>4. TypedConnect'
    BY DEF IInv, Typed, TypedConnect, Places, Attempts, RetryDelay
  <2>5. TypedMonitors'
    BY DEF IInv, Typed, TypedMonitors
  <2> QED
    BY <2>1, <2>2, <2>3, <2>4, <2>5 DEF Typed
<1>2. Fresh'
  BY DEF IInv, Typed, TypedShared, TypedConnect, Fresh
<1>3. Watched'
  BY DEF IInv, Typed, TypedShared, TypedMonitors, Fresh, Watched, Ticks
<1>4. Sound'
  BY DEF IInv, Typed, TypedLink, TypedShared, TypedLeader, TypedConnect, TypedMonitors, Fresh, Sound, InTime, Ticks
<1>5. Alone'
  BY DEF IInv, Typed, TypedLink, TypedConnect, TypedShared, Fresh, Alone
<1> QED
  BY <1>1, <1>2, <1>3, <1>4, <1>5 DEF IInv
THEOREM Invariance == Spec => []IInv
<1>1. IInv /\ [Next]_vars => IInv'
  <2> SUFFICES ASSUME IInv, [Next]_vars
               PROVE  IInv'
    OBVIOUS
  <2>1. CASE UNCHANGED vars
    BY <2>1
    DEF vars, leaderVars, linkVars, sharedVars, connectVars, IInv, Typed, TypedLeader,
        TypedLink, TypedShared, TypedConnect, TypedMonitors, Fresh, Watched, Sound, InTime, Alone
  <2>2. CASE Next
    BY <2>2, WakeUpIInv, DialIInv, DialFailsIInv, AttachIInv, SendRegisterIInv,
       ReceiveHeartbeatIInv, DisconnectedIInv, GiveUpIInv, CheckHeartbeatIInv,
       MonitorPromotesIInv, RegisterReplicaIInv, broadcastHeartbeatIInv, SecondIInv,
       LeaderStopsIInv, LeaderStallsIInv, LeaderRecoversIInv, LinkBreaksIInv, NoticeIInv
    DEF Next, Proceed
  <2> QED
    BY <2>1, <2>2
<1> QED
  BY InitIInv, <1>1, PTL DEF Spec

\* Every variable keeps its type, and only an open connection to a leader that
\* is up is ever in the leader's map.
THEOREM TypeCorrect == Spec => []TypeOK
<1>1. IInv => TypeOK
  <2> SUFFICES ASSUME IInv PROVE TypeOK
    OBVIOUS
  <2>1. \A i \in DOMAIN monitors : monitors[i] \in Gone .. Interval
    <3>1. \A i \in DOMAIN monitors : monitors[i] \in Ticks
      BY DEF IInv, Typed, TypedMonitors
    <3> QED
      BY <3>1 DEF Ticks
  <2> QED
    BY <2>1
    DEF IInv, Typed, TypedLeader, TypedLink, TypedShared, TypedConnect, Places, TypeOK
<1> QED
  BY Invariance, <1>1, PTL

\* For every interval, timeout and delay that leave room for one heartbeat, a
\* leader that sends them and a connection that carries them are never given up.
THEOREM SoundLeaderKept == Spec => []NoFalsePromotion
<1>1. IInv => NoFalsePromotion
  BY DEF IInv, Sound, NoFalsePromotion
<1> QED
  BY Invariance, <1>1, PTL

\* A replica that has ever reached its leader is promoted before its last
\* heartbeat is older than Timeout + Interval, wherever its goroutines are.
THEOREM SilenceBounded == Spec => []SilenceIsNoticed
<1>1. IInv => SilenceIsNoticed
  <2> SUFFICES ASSUME IInv, monitors # <<>>, ~isPromoted
               PROVE  age <= Timeout + Interval
    BY DEF SilenceIsNoticed
  <2>1. 1 \in DOMAIN monitors /\ monitors[1] \in Ticks /\ age \in Nat
    BY DEF IInv, Typed, TypedMonitors, TypedShared
  <2>2. /\ monitors[1] # Gone
        /\ monitors[1] = Decided => age <= Timeout + Interval
        /\ monitors[1] # Decided => age + monitors[1] <= Timeout + Interval
    BY <2>1 DEF IInv, Watched
  <2> QED
    BY <2>1, <2>2, ConstantFacts DEF Ticks
<1> QED
  BY Invariance, <1>1, PTL

\* A replica that a monitor promotes while it listens has closed the connection
\* and never registers again.
THEOREM PromotedAlone == Spec => []PromotedStaysAlone
<1>1. IInv => PromotedStaysAlone
  BY DEF IInv, Alone, PromotedStaysAlone
<1> QED
  BY Invariance, <1>1, PTL
=============================================================================
