--------------------------- MODULE ReplicaClient ---------------------------
(***************************************************************************)
(* Whom a replica follows, and when it stops: replica/client.go (Connect,  *)
(* listen, monitorHeartbeat, handleLeaderDisconnect, promoteToLeader), the *)
(* retry loop of main.go and the leader's heartbeat in ws/handler.go.      *)
(*                                                                         *)
(* One goroutine at a time dials and listens: main's until its first       *)
(* Connect succeeds, then the listener, which reconnects and leaves to the *)
(* listener of the new connection.  Beside it runs one monitor for every   *)
(* Connect that ever succeeded.  They share what the mutex guards: conn,   *)
(* lastHeartbeat and isPromoted.                                           *)
(*                                                                         *)
(* Time is counted in seconds.  Goroutines take no time for what they can  *)
(* do at once, so a second passes only when none of them can (Waiting);    *)
(* within a second they run in any order.  Dialing takes as long as it     *)
(* takes.                                                                  *)
(***************************************************************************)
EXTENDS Integers, Sequences

CONSTANTS
    Interval,   \* HeartbeatInterval: of the leader's ticker and the monitors'
    Timeout,    \* HeartbeatTimeout
    Delay,      \* how long a heartbeat may be on its way
    MaxFaults,  \* bound: the faults of the leader and of the connection
    None

Attempts == 3    \* of handleLeaderDisconnect; the i-th waits i seconds
RetryDelay == 5  \* of main's loop

\* The defaults are 5 and 10.
ASSUME TimingAssumption ==
    /\ Interval \in Nat \ {0} /\ Timeout \in Nat /\ Delay \in Nat /\ MaxFaults \in Nat
    /\ Interval + Delay <= Timeout

MaxAge == Timeout + Interval + 1  \* bound: ages beyond are alike

\* A monitor is waiting for its ticker, or has found the timeout, or is over.
Decided == -1
Gone == -2

VARIABLES
    leader,     \* "up", "down", or "stalled": up, but its heartbeats hang
    beat,       \* seconds until its ticker fires
    registered, \* the connection is in the leader's replicas map
    transit,    \* the seconds that each heartbeat on its way has left
    wire,       \* the connection dialed last: "open", "cut", or "silent":
                \*   dead, and the replica has not noticed
    conn,       \* c.conn: "nil", an "old" connection, or the "current" one
    age,        \* seconds since lastHeartbeat
    isPromoted,
    pc,         \* where the goroutine is that dials and listens
    attempt,    \* its attempt to reconnect; 0 for main's loop
    sleep,      \* seconds it has yet to sleep
    monitors,   \* each monitor: seconds until its ticker fires, Decided or Gone
    faults,
    promotedIn  \* history: where that goroutine was at the promotion

leaderVars == <<leader, beat, faults>>
linkVars == <<registered, transit, wire>>
sharedVars == <<conn, age, isPromoted, promotedIn>>
connectVars == <<pc, attempt, sleep>>
vars == <<leaderVars, linkVars, sharedVars, connectVars, monitors>>

Init ==
    /\ leader = "up" /\ beat = Interval
    /\ registered = FALSE /\ transit = {} /\ wire = "cut"
    /\ conn = "nil" /\ age = 0 /\ isPromoted = FALSE
    /\ pc = "dialing" /\ attempt = 0 /\ sleep = 0
    /\ monitors = <<>>
    /\ faults = 0
    /\ promotedIn = None

\* Mutant of Drop: the leader's handler does not notice.
DropUnnoticed(state) ==
    /\ wire' = state
    /\ transit' = {}
    /\ UNCHANGED registered

\* The connection is no longer open; what was on its way is lost, and the
\* leader's handler, if it lives, takes the replica out of its map.
Drop(state) ==
    /\ wire' = state
    /\ registered' = FALSE
    /\ transit' = {}

-----------------------------------------------------------------------------
(* Connect, called by main and by handleLeaderDisconnect. *)

Sleeps(n, seconds) ==
    /\ pc' = "sleeping"
    /\ attempt' = n
    /\ sleep' = seconds

WakeUp ==
    /\ pc = "sleeping" /\ sleep = 0
    /\ pc' = "dialing"
    /\ UNCHANGED <<leaderVars, linkVars, sharedVars, attempt, sleep, monitors>>

\* Connect returned an error: main tries for ever, handleLeaderDisconnect
\* three times.
ConnectFails ==
    CASE attempt = 0 -> Sleeps(0, RetryDelay)
      [] attempt \in 1 .. Attempts - 1 -> Sleeps(attempt + 1, attempt + 1)
      [] OTHER -> pc' = "giving up" /\ UNCHANGED <<attempt, sleep>>

DialFails ==
    /\ pc = "dialing" /\ leader = "down"
    /\ ConnectFails
    /\ UNCHANGED <<leaderVars, linkVars, sharedVars, monitors>>

Dial ==
    /\ pc = "dialing" /\ leader # "down"
    /\ wire' = "open"
    /\ conn' = IF conn = "nil" THEN "nil" ELSE "old"
    /\ pc' = "dialed"
    /\ UNCHANGED <<leaderVars, registered, transit, age, isPromoted, promotedIn,
                   attempt, sleep, monitors>>

\* Mutant of Attach: lastHeartbeat stays what NewClient made it.
AttachKeepsAge ==
    /\ pc = "dialed"
    /\ conn' = "current"
    /\ pc' = "attached"
    /\ UNCHANGED <<leaderVars, linkVars, age, isPromoted, promotedIn, attempt, sleep, monitors>>

\* Under the mutex, whether or not the replica has been promoted meanwhile.
Attach ==
    /\ pc = "dialed"
    /\ conn' = "current"
    /\ age' = 0
    /\ pc' = "attached"
    /\ UNCHANGED <<leaderVars, linkVars, isPromoted, promotedIn, attempt, sleep, monitors>>

\* Mutant of SendRegister: the monitor ends with its connection, and only
\* main starts one.
SendRegisterRestarts ==
    /\ pc = "attached"
    /\ \/ /\ wire = "cut"
          /\ ConnectFails
          /\ UNCHANGED monitors
       \/ /\ wire # "cut"
          /\ pc' = "listening"
          /\ monitors' = IF attempt = 0 THEN <<Interval>>
                         ELSE [i \in DOMAIN monitors |-> Gone]
          /\ UNCHANGED <<attempt, sleep>>
    /\ UNCHANGED <<leaderVars, linkVars, sharedVars>>

\* Write register_replica, then start the listener and a monitor.
SendRegister ==
    /\ pc = "attached"
    /\ \/ /\ wire = "cut"
          /\ ConnectFails
          /\ UNCHANGED monitors
       \/ /\ wire # "cut"
          /\ pc' = "listening"
          /\ monitors' = Append(monitors, Interval)
          /\ UNCHANGED <<attempt, sleep>>
    /\ UNCHANGED <<leaderVars, linkVars, sharedVars>>

-----------------------------------------------------------------------------
(* The listener. *)

\* The heartbeats arrive in order.
ReceiveHeartbeat ==
    /\ pc = "listening"
    /\ \E t \in transit :
          /\ \A u \in transit : t <= u
          /\ transit' = transit \ {t}
    /\ age' = 0
    /\ UNCHANGED <<leaderVars, registered, wire, conn, isPromoted, promotedIn,
                   connectVars, monitors>>

\* Mutant of Disconnected: isPromoted is not looked at.
DisconnectedAnyway ==
    /\ pc = "listening" /\ wire = "cut"
    /\ Sleeps(1, 1)
    /\ UNCHANGED <<leaderVars, linkVars, sharedVars, monitors>>

\* ReadMessage fails: handleLeaderDisconnect, up to its first sleep.
Disconnected ==
    /\ pc = "listening" /\ wire = "cut"
    /\ IF isPromoted
       THEN pc' = "done" /\ UNCHANGED <<attempt, sleep>>
       ELSE Sleeps(1, 1)
    /\ UNCHANGED <<leaderVars, linkVars, sharedVars, monitors>>

\* promoteToLeader, under the mutex: closes c.conn, not one just dialed.
promoteToLeader ==
    /\ isPromoted' = TRUE
    /\ UNCHANGED age
    /\ IF isPromoted
       THEN UNCHANGED <<linkVars, conn, promotedIn>>
       ELSE /\ promotedIn' = pc
            /\ conn' = "nil"
            /\ IF conn = "current" THEN Drop("cut") ELSE UNCHANGED linkVars

GiveUp ==
    /\ pc = "giving up"
    /\ promoteToLeader
    /\ pc' = "done"
    /\ UNCHANGED <<leaderVars, attempt, sleep, monitors>>

-----------------------------------------------------------------------------
(* The monitors. *)

\* Mutant of TimedOut: at the timeout only, not after it.
TimedOutExactly == age = Timeout

TimedOut == age > Timeout

\* The ticker fires: look at isPromoted and lastHeartbeat under the mutex.
CheckHeartbeat(i) ==
    /\ monitors[i] = 0
    /\ monitors' = [monitors EXCEPT ![i] =
          IF isPromoted THEN Gone ELSE IF TimedOut THEN Decided ELSE Interval]
    /\ UNCHANGED <<leaderVars, linkVars, sharedVars, connectVars>>

\* What it saw may have changed by now.
MonitorPromotes(i) ==
    /\ monitors[i] = Decided
    /\ promoteToLeader
    /\ monitors' = [monitors EXCEPT ![i] = Gone]
    /\ UNCHANGED <<leaderVars, connectVars>>

-----------------------------------------------------------------------------
(* The leader. *)

\* handleRegisterReplica stores the connection in the replicas map.
RegisterReplica ==
    /\ pc = "listening" /\ wire = "open" /\ ~registered
    /\ registered' = TRUE
    /\ UNCHANGED <<leaderVars, transit, wire, sharedVars, connectVars, monitors>>

broadcastHeartbeat ==
    /\ leader = "up" /\ beat = 0
    /\ beat' = Interval
    /\ transit' = IF registered THEN transit \cup {Delay} ELSE transit
    /\ UNCHANGED <<leader, faults, registered, wire, sharedVars, connectVars, monitors>>

Fault ==
    /\ faults < MaxFaults
    /\ faults' = faults + 1
    /\ UNCHANGED <<sharedVars, connectVars, monitors>>

\* The process or its host stops; the replica may notice at once or not.
LeaderStops ==
    /\ leader # "down"
    /\ leader' = "down"
    /\ \E state \in {"cut", "silent"} : Drop(IF wire = "open" THEN state ELSE wire)
    /\ UNCHANGED beat
    /\ Fault

\* broadcastHeartbeat writes to one replica after the other, without deadline.
LeaderStalls ==
    /\ leader = "up"
    /\ leader' = "stalled"
    /\ UNCHANGED <<beat, linkVars>>
    /\ Fault

LeaderRecovers ==
    /\ leader # "up"
    /\ leader' = "up"
    /\ beat' = Interval
    /\ UNCHANGED <<linkVars, sharedVars, connectVars, monitors, faults>>

LinkBreaks ==
    /\ wire = "open"
    /\ \E state \in {"cut", "silent"} : Drop(state)
    /\ UNCHANGED <<leader, beat>>
    /\ Fault

\* A connection that died silently is reset.
Notice ==
    /\ wire = "silent"
    /\ Drop("cut")
    /\ UNCHANGED <<leaderVars, sharedVars, connectVars, monitors>>

-----------------------------------------------------------------------------
\* No goroutine and no heartbeat is due.
Waiting ==
    /\ pc \notin {"dialed", "attached", "giving up"}
    /\ ~(pc = "sleeping" /\ sleep = 0)
    /\ ~(pc = "listening" /\ (wire = "cut" \/ 0 \in transit \/ (wire = "open" /\ ~registered)))
    /\ \A i \in DOMAIN monitors : monitors[i] \notin {0, Decided}
    /\ ~(leader = "up" /\ beat = 0)

Less(n) == IF n > 0 THEN n - 1 ELSE n

Second ==
    /\ Waiting
    /\ beat' = IF leader = "up" THEN Less(beat) ELSE beat
    /\ transit' = {Less(t) : t \in transit}
    /\ age' = IF age < MaxAge THEN age + 1 ELSE age
    /\ sleep' = Less(sleep)
    /\ monitors' = [i \in DOMAIN monitors |-> Less(monitors[i])]
    /\ UNCHANGED <<leader, faults, registered, wire, conn, isPromoted, promotedIn, pc, attempt>>

\* What the goroutines and the network owe.
Proceed ==
    \/ WakeUp \/ Dial \/ DialFails \/ Attach \/ SendRegister
    \/ ReceiveHeartbeat \/ Disconnected \/ GiveUp
    \/ \E i \in DOMAIN monitors : CheckHeartbeat(i) \/ MonitorPromotes(i)
    \/ RegisterReplica \/ broadcastHeartbeat

Next ==
    \/ Proceed \/ Second
    \/ LeaderStops \/ LeaderStalls \/ LeaderRecovers \/ LinkBreaks \/ Notice

\* Goroutines run, a dial comes to an end, and time goes on.
Fairness == WF_vars(Proceed) /\ WF_vars(Dial \/ DialFails) /\ WF_vars(Second)

Spec == Init /\ [][Next]_vars /\ Fairness

-----------------------------------------------------------------------------
\* Type correctness of every variable.
TypeOK ==
    /\ leader \in {"up", "down", "stalled"} /\ beat \in 0 .. Interval
    /\ faults \in 0 .. MaxFaults
    /\ registered \in BOOLEAN /\ (registered => wire = "open" /\ leader # "down")
    /\ transit \subseteq 0 .. Delay
    /\ wire \in {"open", "cut", "silent"}
    /\ conn \in {"nil", "old", "current"}
    /\ age \in 0 .. MaxAge
    /\ isPromoted \in BOOLEAN
    /\ pc \in {"dialing", "dialed", "attached", "sleeping", "listening", "giving up", "done"}
    /\ attempt \in 0 .. Attempts /\ sleep \in 0 .. RetryDelay
    /\ \A i \in DOMAIN monitors : monitors[i] \in Gone .. Interval

\* A leader whose heartbeats arrive in time is never deposed: however its
\* ticker, the registration and the monitor's ticker fall, a replica of which
\* neither leader nor connection ever failed is not promoted.
NoFalsePromotion == faults = 0 => ~isPromoted

\* Silence is noticed in time: a replica that ever reached its leader has heard
\* from it, or reached it again, in the last Timeout + Interval seconds, or is
\* promoted - also while it reconnects.
SilenceIsNoticed == monitors # <<>> /\ ~isPromoted => age <= Timeout + Interval

\* A replica that is promoted while it listens follows the leader no more; only
\* one that was about to reconnect then may register once again.
PromotedStaysAlone == isPromoted /\ promotedIn = "listening" => ~registered

\* "Close connection to old leader" (client.go:294): a promoted replica follows
\* nobody.
PromotedFollowsNobody == isPromoted => ~registered

\* When the leader is gone for good, or hangs, a replica that ever reached it
\* takes over, whatever it is doing then ("promotes on leader failure",
\* README.md:157).
EventuallyPromoted ==
    (monitors # <<>> /\ leader # "up") ~> (isPromoted \/ leader = "up")

\* With a leader that stays up, a replica ends up following it or promoted:
\* it is never left waiting for a connection that nobody restores.
EventuallyDecided == <>[](leader # "up" \/ isPromoted \/ registered)
=============================================================================
