----------------------------- MODULE ReaderConn -----------------------------
(***************************************************************************)
(* The life of a Reader, reader/reader.go: New, connectTo, listen,         *)
(* handleDisconnect with its attempts and failover, Set and Close, against *)
(* a leader and a backup that fail and come back.                          *)
(*                                                                         *)
(* Three goroutines meet here: the one that connects and listens (each     *)
(* listener that reconnects starts the next one and returns, so there is   *)
(* one at a time), the application's, which Sets, and one that Closes.     *)
(* The servers' side is ws/handler.go's open and set, and the handler of a *)
(* connection that the Reader has left may have requests to read still.    *)
(*                                                                         *)
(* One key is enough: keys do not interact.  The sheet's other             *)
(* collaborators do nothing here but keep it or not (SheetSync has what    *)
(* they write), and every server knows the password.                       *)
(***************************************************************************)
EXTENDS Integers, SequencesExt

CONSTANTS
    Leader, Backup, \* the addresses; Backup may be None
    Failing,        \* the servers that may fail, or lose a connection
    MaxAttempts,    \* MaxReconnectAttempts
    Values, None,
    MaxSets         \* a bound: how many Sets there are

Servers == {Leader, Backup} \ {None}

ASSUME ParametersAssumption ==
    /\ Leader # None /\ Failing \subseteq Servers
    /\ None \notin Values
    /\ MaxAttempts \in Nat \ {0} /\ MaxSets \in Nat

VARIABLES
    up,        \* which servers are up
    sheet,     \* what each of them has for the key
    stray,     \* the connections that are no more and have left Sets to be read there
    wire,      \* the connection dialed last: "open" or "cut"
    peer,      \* its server
    serving,   \* what that server's handler has done for its open
    dumped,    \* the state that it has read and not yet written
    toServer, toReader,
    task,      \* where the goroutine is that connects and listens
    plan,      \* the servers it has yet to try, the present one first
    new,       \* it is New's
    installed, \* r.conn is not nil: it is that connection
    connected, closed, current, \* r.connected, r.closed, r.currentAddr
    local,     \* the key in the local cache
    setting,   \* what Set does next, and with which value
    closer,    \* where Close is
    sets,
    caught,    \* history: Close came during a connectTo
    faulty,    \* history: the servers that have failed
    doubtful   \* history: the local cache may differ (see LocalMatchesServer)

serverVars == <<up, sheet, stray, serving, dumped>>
linkVars == <<wire, peer, toServer, toReader>>
readerVars == <<installed, connected, closed, current>>
taskVars == <<task, plan, new>>
appVars == <<setting, sets>>
closeVars == <<closer, caught>>
vars == <<serverVars, linkVars, readerVars, taskVars, local, appVars, closeVars,
          faulty, doubtful>>

Response == [type |-> "response", value |-> None]
SheetState(v) == [type |-> "sheet_state", value |-> v]
Replicate(v) == [type |-> "replicate", value |-> v]

Idle == [step |-> "idle", value |-> None]

Init ==
    /\ up = [s \in Servers |-> TRUE]
    /\ sheet = [s \in Servers |-> None]
    /\ stray = [s \in Servers |-> <<>>]
    /\ wire = "cut" /\ peer = Leader
    /\ serving = "idle" /\ dumped = None
    /\ toServer = <<>> /\ toReader = <<>>
    /\ task = "dialing" /\ new = TRUE
    /\ plan = IF Backup = None THEN <<Leader>> ELSE <<Leader, Backup>>
    /\ installed = FALSE /\ connected = FALSE /\ closed = FALSE /\ current = None
    /\ local = None
    /\ setting = Idle /\ sets = 0
    /\ closer = "no" /\ caught = FALSE
    /\ faulty = {}
    /\ doubtful = FALSE

-----------------------------------------------------------------------------
(* The connection. *)

\* It ends.  What the Reader sent may get through still, or be lost.
Hangup(left) ==
    /\ wire' = "cut"
    /\ serving' = "idle" /\ dumped' = None
    /\ toServer' = <<>> /\ toReader' = <<>>
    /\ stray' = IF left = <<>> THEN stray
                ELSE [stray EXCEPT ![peer] = Append(@, [left |-> left, stored |-> FALSE])]
    /\ UNCHANGED peer

\* The Reader closes it.
CloseWire == Hangup(toServer)

Send(msg) == toReader' = Append(toReader, msg)

-----------------------------------------------------------------------------
(* The server's handlers. *)

AddCollaborator ==
    /\ serving = "opening"
    /\ serving' = "joined"
    /\ UNCHANGED <<up, sheet, stray, dumped, linkVars, readerVars, taskVars, local, appVars,
                   closeVars, faulty, doubtful>>

OpenResponse ==
    /\ serving = "joined"
    /\ serving' = "answered"
    /\ Send(Response)
    /\ UNCHANGED <<up, sheet, stray, dumped, wire, peer, toServer, readerVars, taskVars,
                   local, appVars, closeVars, faulty, doubtful>>

Dump ==
    /\ serving = "answered"
    /\ serving' = "dumped"
    /\ dumped' = sheet[peer]
    /\ UNCHANGED <<up, sheet, stray, linkVars, readerVars, taskVars, local, appVars,
                   closeVars, faulty, doubtful>>

\* A Set of after the Dump is not in it, and connectTo skips its broadcast.
sendSheetState ==
    /\ serving = "dumped"
    /\ serving' = "open"
    /\ Send(SheetState(dumped))
    /\ dumped' = None
    /\ doubtful' = (dumped # sheet[peer])
    /\ UNCHANGED <<up, sheet, stray, wire, peer, toServer, readerVars, taskVars, local,
                   appVars, closeVars, faulty>>

\* The Reader's own Set, which the server tells to others only.
handleSet ==
    /\ serving = "open" /\ toServer # <<>>
    /\ sheet' = [sheet EXCEPT ![peer] = Head(toServer)]
    /\ toServer' = Tail(toServer)
    /\ UNCHANGED <<up, stray, serving, dumped, wire, peer, toReader, readerVars, taskVars,
                   local, appVars, closeVars, faulty, doubtful>>

\* What the key may have when all that the Reader has Set is through.
Outcomes ==
    {IF toServer # <<>> THEN Last(toServer) ELSE sheet[peer]}
    \cup (IF setting.step = "sending" THEN {setting.value} ELSE {})

\* A Set from a connection that the Reader has left: its handler stores it ...
StrayStores(s, i) ==
    /\ i \in DOMAIN stray[s] /\ ~stray[s][i].stored
    /\ sheet' = [sheet EXCEPT ![s] = Head(stray[s][i].left)]
    /\ stray' = [stray EXCEPT ![s][i].stored = TRUE]
    /\ UNCHANGED <<up, serving, dumped, linkVars, readerVars, taskVars, local, appVars,
                   closeVars, faulty, doubtful>>

\* ... and broadcasts it.  On its new connection the Reader is somebody else,
\* who is told, and whose newer value that overwrites.
StrayTells(s, i) ==
    LET from == stray[s][i]
        v == Head(from.left)
    IN  /\ i \in DOMAIN stray[s] /\ from.stored
        /\ stray' = [stray EXCEPT ![s] =
                        IF Len(from.left) = 1 THEN RemoveAt(@, i)
                        ELSE [@ EXCEPT ![i] = [left |-> Tail(from.left), stored |-> FALSE]]]
        /\ IF peer = s /\ serving \in {"joined", "answered", "dumped", "open"}
           THEN Send(Replicate(v))
           ELSE UNCHANGED toReader
        /\ doubtful' = IF peer = s /\ serving = "open" THEN Outcomes # {v} ELSE doubtful
        /\ UNCHANGED <<up, sheet, serving, dumped, wire, peer, toServer, readerVars, taskVars,
                       local, appVars, closeVars, faulty>>

handleStray(s) == \E i \in DOMAIN stray[s] : StrayStores(s, i) \/ StrayTells(s, i)

\* The last other collaborator leaves a sheet the Reader is not in.
LoseSheet(s) ==
    /\ sheet[s] # None /\ stray[s] = <<>>
    /\ ~(peer = s /\ serving # "idle")
    /\ sheet' = [sheet EXCEPT ![s] = None]
    /\ UNCHANGED <<up, stray, serving, dumped, linkVars, readerVars, taskVars, local,
                   appVars, closeVars, faulty, doubtful>>

\* The backup, a replica of the leader's, applies what the leader has
\* (applySet): its own collaborators are not told.
ReplicaApplies ==
    /\ Backup # None /\ up[Leader] /\ up[Backup]
    /\ sheet[Leader] \notin {None, sheet[Backup]}
    /\ sheet' = [sheet EXCEPT ![Backup] = sheet[Leader]]
    /\ doubtful' = (doubtful \/ (peer = Backup /\ serving = "open"))
    /\ UNCHANGED <<up, stray, serving, dumped, linkVars, readerVars, taskVars, local,
                   appVars, closeVars, faulty>>

Fault(s) ==
    /\ s \in Failing
    /\ faulty' = faulty \cup {s}
    /\ UNCHANGED <<readerVars, taskVars, local, appVars, closeVars, doubtful>>

\* A server restarts empty.
ServerStops(s) ==
    /\ up[s]
    /\ up' = [up EXCEPT ![s] = FALSE]
    /\ sheet' = [sheet EXCEPT ![s] = None]
    /\ IF peer = s
       THEN /\ wire' = "cut" /\ serving' = "idle" /\ dumped' = None
            /\ toServer' = <<>> /\ toReader' = <<>>
            /\ UNCHANGED peer
       ELSE UNCHANGED <<linkVars, serving, dumped>>
    /\ stray' = [stray EXCEPT ![s] = <<>>]
    /\ Fault(s)

ServerStarts(s) ==
    /\ ~up[s]
    /\ up' = [up EXCEPT ![s] = TRUE]
    /\ UNCHANGED <<sheet, stray, serving, dumped, linkVars, readerVars, taskVars, local,
                   appVars, closeVars, faulty, doubtful>>

LinkBreaks ==
    /\ wire = "open"
    /\ \E left \in {toServer, <<>>} : Hangup(left)
    /\ Fault(peer)
    /\ UNCHANGED <<up, sheet>>

-----------------------------------------------------------------------------
(* connectTo, called by New and by handleDisconnect. *)

Goes(label) == task' = label /\ UNCHANGED <<plan, new>>

\* connectTo returned an error: the next attempt, New's at once.
AttemptFails ==
    /\ plan' = Tail(plan)
    /\ task' = CASE Len(plan) > 1 -> IF new THEN "dialing" ELSE "delaying"
                 [] OTHER -> IF new THEN "failed" ELSE "gave up"
    /\ UNCHANGED new

DialFails ==
    /\ task = "dialing" /\ ~up[Head(plan)]
    /\ AttemptFails
    /\ UNCHANGED <<serverVars, linkVars, readerVars, local, appVars, closeVars, faulty,
                   doubtful>>

\* Mutant of Dial: the connection is the Reader's before its open is done.
DialInstalls ==
    /\ task = "dialing" /\ up[Head(plan)]
    /\ wire' = "open" /\ peer' = Head(plan)
    /\ serving' = "opening"
    /\ installed' = TRUE
    /\ Goes("authenticating")
    /\ UNCHANGED <<up, sheet, stray, dumped, toServer, toReader, connected, closed, current,
                   local, appVars, closeVars, faulty, doubtful>>

\* Dial and send the open request.
Dial ==
    /\ task = "dialing" /\ up[Head(plan)]
    /\ wire' = "open" /\ peer' = Head(plan)
    /\ serving' = "opening"
    /\ Goes("authenticating")
    /\ UNCHANGED <<up, sheet, stray, dumped, toServer, toReader, readerVars, local, appVars,
                   closeVars, faulty, doubtful>>

ConnectionLost ==
    /\ task \in {"authenticating", "loading"} /\ wire = "cut"
    /\ AttemptFails
    /\ UNCHANGED <<serverVars, linkVars, readerVars, local, appVars, closeVars, faulty,
                   doubtful>>

\* connectTo skips what comes before the response, and then what comes
\* before the sheet_state.
Authenticate(msg) ==
    /\ task = "authenticating"
    /\ IF msg.type = "response" THEN Goes("loading") ELSE UNCHANGED taskVars
    /\ UNCHANGED <<local, doubtful>>

\* Mutant of LoadState: it does not clear the cache first.
LoadStateAdds(msg) ==
    /\ task = "loading"
    /\ IF msg.type = "sheet_state"
       THEN /\ local' = IF msg.value = None THEN local ELSE msg.value
            /\ doubtful' = (doubtful \/ setting.step = "sending")
            /\ Goes("loaded")
       ELSE UNCHANGED <<taskVars, local, doubtful>>

\* A Set that has stored its value and not sent it yet loses it here.
LoadState(msg) ==
    /\ task = "loading"
    /\ IF msg.type = "sheet_state"
       THEN /\ local' = msg.value
            /\ doubtful' = (doubtful \/ setting.step = "sending")
            /\ Goes("loaded")
       ELSE UNCHANGED <<taskVars, local, doubtful>>

handleMessage(msg) ==
    /\ task = "reading"
    /\ local' = IF msg.type = "replicate" THEN msg.value ELSE local
    /\ Goes("looping")
    /\ UNCHANGED doubtful

Receive ==
    /\ toReader # <<>>
    /\ LET msg == Head(toReader) IN Authenticate(msg) \/ LoadState(msg) \/ handleMessage(msg)
    /\ toReader' = Tail(toReader)
    /\ UNCHANGED <<serverVars, wire, peer, toServer, readerVars, appVars, closeVars, faulty>>

\* The connection becomes the Reader's, closed or not, and a listener starts.
Install ==
    /\ task = "loaded"
    /\ installed' = TRUE /\ connected' = TRUE /\ current' = peer
    /\ task' = "looping" /\ new' = FALSE /\ plan' = <<>>
    /\ UNCHANGED <<serverVars, linkVars, closed, local, appVars, closeVars, faulty, doubtful>>

-----------------------------------------------------------------------------
(* listen and handleDisconnect. *)

Loop ==
    /\ task = "looping"
    /\ Goes(IF closed THEN "ended" ELSE "reading")
    /\ UNCHANGED <<serverVars, linkVars, readerVars, local, appVars, closeVars, faulty,
                   doubtful>>

Times(s, n) == [i \in 1 .. n |-> s]

\* Mutant of Attempts: the backup is tried only by a Reader that is there.
AttemptsSwapped ==
    Times(current, MaxAttempts)
    \o (IF Backup # None /\ current = Backup THEN Times(Backup, MaxAttempts) ELSE <<>>)
    \o (IF current # Leader THEN Times(Leader, MaxAttempts) ELSE <<>>)

\* The server the Reader was connected to, then the backup, then the leader.
Attempts ==
    Times(current, MaxAttempts)
    \o (IF Backup # None /\ current # Backup THEN Times(Backup, MaxAttempts) ELSE <<>>)
    \o (IF current # Leader THEN Times(Leader, MaxAttempts) ELSE <<>>)

\* ReadMessage fails: the attempts begin, unless Close was the reason.
handleDisconnect ==
    /\ task = "reading" /\ wire = "cut"
    /\ IF closed
       THEN Goes("ended") /\ UNCHANGED readerVars
       ELSE /\ connected' = FALSE /\ installed' = FALSE
            /\ task' = "delaying" /\ plan' = Attempts
            /\ UNCHANGED <<closed, current, new>>
    /\ UNCHANGED <<serverVars, linkVars, local, appVars, closeVars, faulty, doubtful>>

\* Mutant of Delayed: the wait is a Sleep, which Close does not end.
DelayedAnyway ==
    /\ task = "delaying"
    /\ Goes("dialing")
    /\ UNCHANGED <<serverVars, linkVars, readerVars, local, appVars, closeVars, faulty,
                   doubtful>>

\* The select between two attempts: the timer, unless done is closed first.
Delayed ==
    /\ task = "delaying"
    /\ Goes(IF closed THEN "ended" ELSE "dialing")
    /\ UNCHANGED <<serverVars, linkVars, readerVars, local, appVars, closeVars, faulty,
                   doubtful>>

-----------------------------------------------------------------------------
(* Set and Close. *)

\* The tests on closed and connected.
Set(v) ==
    /\ ~new /\ setting = Idle /\ sets < MaxSets
    /\ ~closed /\ connected
    /\ setting' = [step |-> "storing", value |-> v]
    /\ sets' = sets + 1
    /\ UNCHANGED <<serverVars, linkVars, readerVars, taskVars, local, closeVars, faulty,
                   doubtful>>

\* The test is not repeated: the connection may be another one by now, or none.
\* A broadcast that is on its way will overwrite the value.
StoreLocal ==
    /\ setting.step = "storing"
    /\ local' = setting.value
    /\ setting' = [setting EXCEPT !.step = "sending"]
    /\ doubtful' = IF task \in {"loaded", "looping", "reading"}
                   THEN \E i \in DOMAIN toReader : toReader[i].type = "replicate"
                   ELSE doubtful
    /\ UNCHANGED <<serverVars, linkVars, readerVars, taskVars, sets, closeVars, faulty>>

\* Without r.conn it fails, after a loadState possibly.
send ==
    /\ setting.step = "sending"
    /\ toServer' = IF installed /\ wire = "open" THEN Append(toServer, setting.value) ELSE toServer
    /\ setting' = Idle
    /\ doubtful' = (doubtful \/ task = "loaded")
    /\ UNCHANGED <<serverVars, wire, peer, toReader, readerVars, taskVars, local, sets,
                   closeVars, faulty>>

\* Close, up to the Unlock.
Close ==
    /\ ~new /\ closer = "no"
    /\ closed' = TRUE /\ connected' = FALSE
    /\ caught' = (task \in {"dialing", "authenticating", "loading", "loaded"})
    /\ closer' = IF installed THEN "closing" ELSE "waiting"
    /\ UNCHANGED <<serverVars, linkVars, installed, current, taskVars, local, appVars,
                   faulty, doubtful>>

\* Mutant of CloseConn: only the done channel is closed.
CloseNothing ==
    /\ closer = "closing"
    /\ closer' = "waiting"
    /\ UNCHANGED <<serverVars, linkVars, caught, readerVars, taskVars, local, appVars, faulty,
                   doubtful>>

CloseConn ==
    /\ closer = "closing"
    /\ closer' = "waiting"
    /\ CloseWire
    /\ UNCHANGED <<up, sheet, caught, readerVars, taskVars, local, appVars, faulty, doubtful>>

\* wg.Wait.
CloseDone ==
    /\ closer = "waiting" /\ task \in {"ended", "gave up"}
    /\ closer' = "returned"
    /\ UNCHANGED <<serverVars, linkVars, caught, readerVars, taskVars, local, appVars, faulty,
                   doubtful>>

-----------------------------------------------------------------------------
Serve == AddCollaborator \/ OpenResponse \/ Dump \/ sendSheetState \/ handleSet

Run ==
    \/ DialFails \/ Dial \/ ConnectionLost \/ Receive \/ Install
    \/ Loop \/ handleDisconnect \/ Delayed

Next ==
    \/ Serve \/ Run \/ StoreLocal \/ send \/ CloseConn \/ CloseDone
    \/ \E v \in Values : Set(v)
    \/ ReplicaApplies \/ Close \/ LinkBreaks
    \/ \E s \in Servers : \/ handleStray(s) \/ LoseSheet(s)
                          \/ ServerStops(s) \/ ServerStarts(s)

\* A goroutine that can run does: a server that is up answers the open, the
\* Reader's goroutine notices a dead connection, Close goes on.
Fairness == WF_vars(Serve) /\ WF_vars(Run) /\ WF_vars(CloseConn \/ CloseDone)

Spec == Init /\ [][Next]_vars /\ Fairness

-----------------------------------------------------------------------------
Contents == Values \cup {None}
Strays == [left : Seq(Values) \ {<<>>}, stored : BOOLEAN]
Messages == {Response} \cup {SheetState(v) : v \in Contents} \cup {Replicate(v) : v \in Values}
Tasks == {"dialing", "authenticating", "loading", "loaded", "looping", "reading", "delaying",
          "ended", "gave up", "failed"}

\* Type invariant: and the connection is the Reader's only while a listener
\* has it, requests wait only where an open was completed.
TypeOK ==
    /\ up \in [Servers -> BOOLEAN] /\ sheet \in [Servers -> Contents]
    /\ \A s \in Servers : stray[s] \in Seq(Strays)
    /\ wire \in {"open", "cut"} /\ peer \in Servers
    /\ serving \in {"idle", "opening", "joined", "answered", "dumped", "open"} /\ dumped \in Contents
    /\ toServer \in Seq(Values) /\ toReader \in Seq(Messages)
    /\ task \in Tasks /\ plan \in Seq(Servers) /\ new \in BOOLEAN
    /\ installed \in BOOLEAN /\ connected \in BOOLEAN /\ closed \in BOOLEAN
    /\ current \in Servers \cup {None} /\ local \in Contents
    /\ setting \in [step : {"idle", "storing", "sending"}, value : Contents]
    /\ sets \in 0 .. MaxSets
    /\ closer \in {"no", "closing", "waiting", "returned"} /\ caught \in BOOLEAN
    /\ faulty \subseteq Failing /\ doubtful \in BOOLEAN
    /\ task \in {"looping", "reading"} => installed /\ current = peer
    /\ toServer # <<>> => serving = "open"

Settled ==
    /\ task = "reading" /\ connected /\ wire = "open"
    /\ setting = Idle /\ toServer = <<>> /\ toReader = <<>> /\ stray[current] = <<>>

\* After any number of reconnects and failovers, when all that was Set and
\* sent has arrived, a connected Reader has what its server has.  The
\* exceptions are those that the code has: a Set that is between its local
\* and its remote half while loadState runs or r.conn is nil, one that a
\* connection left behind delivers late, and a change that a backup applies.
LocalMatchesServer == Settled /\ ~doubtful => local = sheet[current]

\* When Close has returned the Reader is and stays disconnected, its
\* connection closed, unless it was connecting just when Close was called
\* (connectTo does not look at closed).
ClosedStaysClosed == closer = "returned" /\ ~caught => ~connected /\ wire = "cut"

\* Close returns: the listener ends, in whatever reconnect Close meets it.
CloseEnds == closer # "no" ~> closer = "returned"

\* A Reader that is not closed is connected again and again as long as there
\* is one server that never fails, whatever the other one does.
KeepsComingBack == \A s \in Servers : []<>(connected \/ closed \/ s \in faulty)
=============================================================================
