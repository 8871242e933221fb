-------------------------- MODULE ReaderConnProofs --------------------------
(***************************************************************************)
(* Proofs about ReaderConn, for any number of attempts, of Sets and of     *)
(* values, with a backup or without: a settled Reader has what its server  *)
(* has, and a closed one is and stays disconnected.                        *)
(***************************************************************************)
EXTENDS ReaderConn, SequenceTheorems, TLAPS

Stages == {"idle", "opening", "joined", "answered", "dumped", "open"}

\* TypeOK and what it leaves open, one part for each group of variables.
TypedServers ==
    /\ up \in [Servers -> BOOLEAN] /\ sheet \in [Servers -> Contents]
    /\ stray \in [Servers -> Seq(Strays)]
    /\ faulty \subseteq Failing

TypedLink ==
    /\ wire \in {"open", "cut"} /\ peer \in Servers
    /\ serving \in Stages /\ dumped \in Contents
    /\ toServer \in Seq(Values) /\ toReader \in Seq(Messages)

TypedReader ==
    /\ task \in Tasks /\ plan \in Seq(Servers) /\ new \in BOOLEAN
    /\ installed \in BOOLEAN /\ connected \in BOOLEAN /\ closed \in BOOLEAN
    /\ current \in Servers \cup {None}

TypedApp ==
    /\ local \in Contents
    /\ setting \in [step : {"idle", "storing", "sending"}, value : Contents]
    /\ setting.step # "idle" => setting.value \in Values
    /\ sets \in 0 .. MaxSets
    /\ closer \in {"no", "closing", "waiting", "returned"} /\ caught \in BOOLEAN
    /\ doubtful \in BOOLEAN

\* A connection lives while its goroutine uses it, and its queues no longer.
Lifeline ==
    /\ wire = "open" <=> serving # "idle"
    /\ wire = "open" => task \in {"authenticating", "loading", "loaded", "looping", "reading",
                                  "ended"}
    /\ serving # "open" => toServer = <<>>
    /\ serving = "idle" => toReader = <<>>

\* There is a server to try while connectTo runs or is to run, and r.conn is
\* a connection once it has returned.
Connection ==
    /\ task \in {"dialing", "authenticating", "loading", "loaded", "delaying"} => plan # <<>>
    /\ installed => task \in {"looping", "reading", "ended"}
    /\ task \in {"looping", "reading"} => installed /\ current = peer
    /\ ~installed => toServer = <<>>

Among(q, type) == \E i \in DOMAIN q : q[i].type = type

\* The response comes before the sheet_state, and either comes once.
Ordered(q) ==
    \A i, j \in DOMAIN q :
        i < j => /\ q[j].type = "response" => q[i].type = "replicate"
                 /\ q[j].type = "sheet_state" => q[i].type # "sheet_state"

\* connectTo finds what it waits for, and a listener only broadcasts.
Protocol ==
    /\ Ordered(toReader)
    /\ task = "authenticating" =>
          (Among(toReader, "response") <=> serving \in {"answered", "dumped", "open"})
    /\ task = "loading" => ~Among(toReader, "response") /\ serving \notin {"opening", "joined"}
    /\ task \in {"authenticating", "loading"} => (Among(toReader, "sheet_state") <=> serving = "open")
    /\ task \in {"loaded", "looping", "reading", "ended"} =>
          /\ serving \in {"idle", "open"}
          /\ ~Among(toReader, "response") /\ ~Among(toReader, "sheet_state")

\* A Close that met no connectTo ends every attempt, and its connection.
Closing ==
    /\ closed <=> closer # "no"
    /\ task = "ended" => closed
    /\ closed /\ ~caught =>
          /\ ~connected /\ task \notin {"dialing", "authenticating", "loading", "loaded"}
          /\ closer # "closing" => wire = "cut"

\* What the key will have here, and there, when all under way has arrived.
LocalToBe == IF toReader # <<>> THEN Last(toReader).value ELSE local

SheetToBe ==
    IF setting.step = "sending" /\ task \in {"loaded", "looping", "reading"} THEN setting.value
    ELSE IF toServer # <<>> THEN Last(toServer) ELSE sheet[peer]

\* No connection that the Reader has left has stored what it has not told.
Told == \A i \in DOMAIN stray[peer] : ~stray[peer][i].stored

Following ==
    serving = "open" /\ task \in {"authenticating", "loading", "loaded", "looping", "reading"}

Agreement == Following /\ ~doubtful /\ Told => LocalToBe = SheetToBe

IInv ==
    /\ TypedServers /\ TypedLink /\ TypedReader /\ TypedApp
    /\ Lifeline
    /\ Connection
    /\ Protocol
    /\ Closing
    /\ Agreement

-----------------------------------------------------------------------------
(* Messages and queues. *)

LEMMA MessageFacts ==
    ASSUME NEW m \in Messages
    PROVE  /\ m.type \in {"response", "sheet_state", "replicate"} /\ m.value \in Contents
           /\ m.type = "replicate" => m.value \in Values
BY DEF Messages, Response, SheetState, Replicate, Contents

LEMMA MessagesMade ==
    /\ Response \in Messages /\ Response.type = "response"
    /\ \A v \in Contents : /\ SheetState(v) \in Messages
                           /\ SheetState(v).type = "sheet_state" /\ SheetState(v).value = v
    /\ \A v \in Values : /\ Replicate(v) \in Messages
                         /\ Replicate(v).type = "replicate" /\ Replicate(v).value = v
BY DEF Messages, Response, SheetState, Replicate

LEMMA AppendFacts ==
    ASSUME NEW S, NEW q \in Seq(S), NEW x \in S
    PROVE  Append(q, x) \in Seq(S) /\ Append(q, x) # <<>> /\ Last(Append(q, x)) = x
BY DEF Last

LEMMA HeadFacts ==
    ASSUME NEW S, NEW q \in Seq(S), q # <<>>
    PROVE  /\ Head(q) \in S /\ Tail(q) \in Seq(S) /\ Last(q) \in S
           /\ Tail(q) # <<>> => Last(Tail(q)) = Last(q)
           /\ Tail(q) = <<>> => Last(q) = Head(q) /\ Len(q) = 1
<1>1. Len(q) \in Nat /\ Len(q) > 0
  OBVIOUS
<1>2. Head(q) \in S /\ Tail(q) \in Seq(S) /\ Last(q) \in S
  BY <1>1 DEF Last
<1>3. Tail(q) # <<>> => Last(Tail(q)) = Last(q)
  BY <1>1 DEF Last
<1>4. Tail(q) = <<>> => Last(q) = Head(q) /\ Len(q) = 1
  <2>2. ASSUME Tail(q) = <<>>
        PROVE  Last(q) = Head(q) /\ Len(q) = 1
    <3>1. Len(q) - 1 = 0
      BY <2>2, HeadTailProperties, EmptySeq, Zenon
    <3>2. \A n \in Nat : n - 1 = 0 => n = 1
      OBVIOUS
    <3>3. Len(q) = 1
      BY <1>1, <3>1, <3>2, Zenon
    <3> QED
      BY <3>3 DEF Last
  <2> QED
    BY <2>2
<1> QED
  BY <1>2, <1>3, <1>4

\* A message more, at the end.
LEMMA SendFacts ==
    ASSUME NEW q \in Seq(Messages), NEW m \in Messages
    PROVE  /\ \A type : Among(Append(q, m), type) <=> Among(q, type) \/ m.type = type
           /\ /\ Ordered(q)
              /\ m.type = "response" => ~Among(q, "response") /\ ~Among(q, "sheet_state")
              /\ m.type = "sheet_state" => ~Among(q, "sheet_state")
              => Ordered(Append(q, m))
<1> DEFINE r == Append(q, m)
<1>1. /\ Len(q) \in Nat /\ DOMAIN q = 1 .. Len(q) /\ DOMAIN r = 1 .. Len(q) + 1
      /\ r[Len(q) + 1] = m /\ \A i \in DOMAIN q : i \in DOMAIN r /\ r[i] = q[i]
  OBVIOUS
<1> HIDE DEF r
<1>2. \A type : Among(r, type) <=> Among(q, type) \/ m.type = type
  BY <1>1 DEF Among
<1>3. ASSUME Ordered(q),
             m.type = "response" => ~Among(q, "response") /\ ~Among(q, "sheet_state"),
             m.type = "sheet_state" => ~Among(q, "sheet_state")
      PROVE  Ordered(r)
  <2> SUFFICES ASSUME NEW i \in DOMAIN r, NEW j \in DOMAIN r, i < j
               PROVE  /\ r[j].type = "response" => r[i].type = "replicate"
                      /\ r[j].type = "sheet_state" => r[i].type # "sheet_state"
    BY DEF Ordered
  <2>1. i \in DOMAIN q /\ r[i] = q[i]
    BY <1>1
  <2>2. CASE j \in DOMAIN q
    BY <1>1, <1>3, <2>1, <2>2 DEF Ordered
  <2>3. CASE j \notin DOMAIN q
    <3>1. r[j] = m
      BY <1>1, <2>3
    <3>2. q[i].type \in {"response", "sheet_state", "replicate"}
      BY <2>1, MessageFacts
    <3> QED
      BY <1>3, <2>1, <3>1, <3>2 DEF Among
  <2> QED
    BY <2>2, <2>3
<1> QED
  BY <1>2, <1>3 DEF r

\* A message fewer, at the front.
LEMMA ReceiveFacts ==
    ASSUME NEW q \in Seq(Messages), q # <<>>, Ordered(q)
    PROVE  /\ \A type : Among(q, type) <=> Head(q).type = type \/ Among(Tail(q), type)
           /\ Ordered(Tail(q))
           /\ Head(q).type = "response" => ~Among(Tail(q), "response")
           /\ Head(q).type = "sheet_state" =>
                 ~Among(Tail(q), "response") /\ ~Among(Tail(q), "sheet_state")
<1> DEFINE r == Tail(q)
<1>1. /\ Len(q) \in Nat /\ Len(q) > 0 /\ DOMAIN q = 1 .. Len(q) /\ DOMAIN r = 1 .. Len(q) - 1
      /\ Head(q) = q[1] /\ 1 \in DOMAIN q
      /\ \A i \in DOMAIN r : i + 1 \in DOMAIN q /\ 1 < i + 1 /\ r[i] = q[i + 1]
  OBVIOUS
<1> HIDE DEF r
<1>2. \A type : Among(q, type) <=> Head(q).type = type \/ Among(r, type)
  <2>1. \A i \in DOMAIN q : i = 1 \/ (i - 1 \in DOMAIN r /\ q[i] = r[i - 1])
    BY <1>1
  <2> QED
    BY <1>1, <2>1 DEF Among
<1>3. Ordered(r)
  <2> SUFFICES ASSUME NEW i \in DOMAIN r, NEW j \in DOMAIN r, i < j
               PROVE  /\ r[j].type = "response" => r[i].type = "replicate"
                      /\ r[j].type = "sheet_state" => r[i].type # "sheet_state"
    BY DEF Ordered
  <2>1. i + 1 \in DOMAIN q /\ j + 1 \in DOMAIN q /\ i + 1 < j + 1
    BY <1>1
  <2> QED
    BY <1>1, <2>1 DEF Ordered
<1>4. Head(q).type = "response" => ~Among(r, "response")
  BY <1>1 DEF Ordered, Among
<1>5. Head(q).type = "sheet_state" => ~Among(r, "response") /\ ~Among(r, "sheet_state")
  BY <1>1 DEF Ordered, Among
<1> QED
  BY <1>2, <1>3, <1>4, <1>5 DEF r

\* A queue with nothing of any type is empty.
LEMMA NothingComes ==
    ASSUME NEW q \in Seq(Messages),
           ~Among(q, "response"), ~Among(q, "sheet_state"), ~Among(q, "replicate")
    PROVE  q = <<>>
<1>1. \A i \in DOMAIN q : q[i] \in Messages
  OBVIOUS
<1>2. DOMAIN q = {}
  BY <1>1, MessageFacts DEF Among
<1> QED
  BY <1>2

LEMMA NothingAmong ==
    /\ \A type : ~Among(<<>>, type)
    /\ Ordered(<<>>)
BY DEF Among, Ordered

-----------------------------------------------------------------------------
(* What an action leaves alone. *)

LEMMA Kept ==
    /\ TypedServers /\ UNCHANGED <<up, sheet, stray, faulty>> => TypedServers'
    /\ TypedLink /\ UNCHANGED <<wire, peer, serving, dumped, toServer, toReader>> => TypedLink'
    /\ TypedReader /\ UNCHANGED <<task, plan, new, installed, connected, closed, current>>
          => TypedReader'
    /\ TypedApp /\ UNCHANGED <<local, setting, sets, closer, caught, doubtful>> => TypedApp'
    /\ Lifeline /\ UNCHANGED <<wire, serving, task, toServer, toReader>> => Lifeline'
    /\ Connection /\ UNCHANGED <<task, plan, installed, current, peer, toServer>> => Connection'
    /\ Protocol /\ UNCHANGED <<toReader, task, serving>> => Protocol'
    /\ Closing /\ UNCHANGED <<closed, closer, task, caught, connected, wire>> => Closing'
    /\ Agreement /\ UNCHANGED <<serving, task, doubtful, stray, peer, toReader, local, setting,
                                toServer, sheet>>
          => Agreement'
<1>1. TypedServers /\ UNCHANGED <<up, sheet, stray, faulty>> => TypedServers'
  BY DEF TypedServers
<1>2. TypedLink /\ UNCHANGED <<wire, peer, serving, dumped, toServer, toReader>> => TypedLink'
  BY DEF TypedLink
<1>3. TypedReader /\ UNCHANGED <<task, plan, new, installed, connected, closed, current>>
        => TypedReader'
  BY DEF TypedReader
<1>4. TypedApp /\ UNCHANGED <<local, setting, sets, closer, caught, doubtful>> => TypedApp'
  BY DEF TypedApp
<1>5. Lifeline /\ UNCHANGED <<wire, serving, task, toServer, toReader>> => Lifeline'
  BY DEF Lifeline
<1>6. Connection /\ UNCHANGED <<task, plan, installed, current, peer, toServer>> => Connection'
  BY DEF Connection
<1>7. Protocol /\ UNCHANGED <<toReader, task, serving>> => Protocol'
  BY DEF Protocol
<1>8. Closing /\ UNCHANGED <<closed, closer, task, caught, connected, wire>> => Closing'
  BY DEF Closing
<1>9. Agreement /\ UNCHANGED <<serving, task, doubtful, stray, peer, toReader, local, setting,
                              toServer, sheet>>
        => Agreement'
  BY DEF Agreement, Following, Told, LocalToBe, SheetToBe
<1> QED
  BY <1>1, <1>2, <1>3, <1>4, <1>5, <1>6, <1>7, <1>8, <1>9

LEMMA InitIInv == Init => IInv
<1> SUFFICES ASSUME Init PROVE IInv
  OBVIOUS
<1>1. Leader \in Servers /\ (Backup # None => Backup \in Servers)
  BY ParametersAssumption DEF Servers
<1>2. TypedServers
  <2>1. sheet \in [Servers -> Contents] /\ stray \in [Servers -> Seq(Strays)]
    BY DEF Init, Contents
  <2> QED
    BY <2>1 DEF Init, TypedServers
<1>3. TypedLink
  BY <1>1 DEF Init, TypedLink, Stages, Contents
<1>4. TypedReader
  <2>1. plan \in Seq(Servers)
    BY <1>1 DEF Init
  <2> QED
    BY <2>1 DEF Init, TypedReader, Tasks
<1>5. TypedApp
  <2>1. setting = [step |-> "idle", value |-> None] /\ None \in Contents
    BY DEF Init, Idle, Contents
  <2>2. setting \in [step : {"idle", "storing", "sending"}, value : Contents] /\ setting.step = "idle"
    BY <2>1
  <2>3. sets \in 0 .. MaxSets
    BY ParametersAssumption DEF Init
  <2>4. local \in Contents
    BY DEF Init, Contents
  <2> QED
    BY <2>2, <2>3, <2>4 DEF Init, TypedApp
<1>6. Lifeline /\ Closing /\ Agreement
  BY DEF Init, Lifeline, Closing, Agreement, Following
<1>7. Connection
  BY DEF Init, Connection
<1>8. Protocol
  BY NothingAmong DEF Init, Protocol
<1> QED
  BY <1>2, <1>3, <1>4, <1>5, <1>6, <1>7, <1>8 DEF IInv

-----------------------------------------------------------------------------
(* The server's handlers. *)

LEMMA AddCollaboratorIInv ==
    ASSUME IInv, AddCollaborator
    PROVE  IInv'
<1> USE DEF AddCollaborator, linkVars, readerVars, taskVars, appVars, closeVars
<1>1. TypedServers' /\ TypedReader' /\ TypedApp' /\ Connection' /\ Closing'
  BY Kept DEF IInv
<1>2. TypedLink'
  BY DEF IInv, TypedLink, Stages
<1>3. Lifeline' /\ Agreement'
  BY DEF IInv, Lifeline, Agreement, Following
<1>4. Protocol'
  BY DEF IInv, Protocol
<1> QED
  BY <1>1, <1>2, <1>3, <1>4 DEF IInv

LEMMA OpenResponseIInv ==
    ASSUME IInv, OpenResponse
    PROVE  IInv'
<1> USE DEF OpenResponse, Send, readerVars, taskVars, appVars, closeVars
<1>1. TypedServers' /\ TypedReader' /\ TypedApp' /\ Connection' /\ Closing'
  BY Kept DEF IInv
<1>2. toReader \in Seq(Messages) /\ toReader' = Append(toReader, Response)
  BY DEF IInv, TypedLink
<1>3. TypedLink'
  BY <1>2, MessagesMade, AppendFacts DEF IInv, TypedLink, Stages
<1>4. Lifeline' /\ Agreement'
  BY DEF IInv, Lifeline, Agreement, Following
<1>5. task = "authenticating" /\ ~Among(toReader, "response") /\ ~Among(toReader, "sheet_state")
  BY DEF IInv, TypedLink, Lifeline, Protocol
<1>6. Protocol'
  BY <1>2, <1>5, MessagesMade, SendFacts DEF IInv, Protocol
<1> QED
  BY <1>1, <1>3, <1>4, <1>6 DEF IInv

LEMMA DumpIInv ==
    ASSUME IInv, Dump
    PROVE  IInv'
<1> USE DEF Dump, linkVars, readerVars, taskVars, appVars, closeVars
<1>1. TypedServers' /\ TypedReader' /\ TypedApp' /\ Connection' /\ Closing'
  BY Kept DEF IInv
<1>2. TypedLink'
  BY DEF IInv, TypedServers, TypedLink, Stages
<1>3. Lifeline' /\ Agreement'
  BY DEF IInv, Lifeline, Agreement, Following
<1>4. Protocol'
  BY DEF IInv, Protocol
<1> QED
  BY <1>1, <1>2, <1>3, <1>4 DEF IInv

LEMMA sendSheetStateIInv ==
    ASSUME IInv, sendSheetState
    PROVE  IInv'
<1> USE DEF sendSheetState, Send, readerVars, taskVars, appVars, closeVars
<1>1. TypedServers' /\ TypedReader' /\ Connection' /\ Closing'
  BY Kept DEF IInv
<1>2. /\ toReader \in Seq(Messages) /\ SheetState(dumped) \in Messages
      /\ toReader' = Append(toReader, SheetState(dumped))
  BY MessagesMade DEF IInv, TypedLink
<1>3. TypedLink' /\ TypedApp'
  BY <1>2, AppendFacts DEF IInv, TypedLink, TypedApp, Stages, Contents
<1>4. Lifeline'
  BY DEF IInv, Lifeline
<1>5. task \in {"authenticating", "loading"} /\ ~Among(toReader, "sheet_state")
  BY DEF IInv, TypedLink, Lifeline, Protocol
<1>6. Protocol'
  BY <1>2, <1>5, MessagesMade, SendFacts DEF IInv, TypedLink, Protocol
<1>7. Agreement'
  <2>1. LocalToBe' = dumped
    BY <1>2, AppendFacts, MessagesMade DEF IInv, TypedLink, LocalToBe
  <2>2. SheetToBe' = sheet[peer]
    BY <1>5 DEF IInv, Lifeline, SheetToBe
  <2> QED
    BY <2>1, <2>2 DEF Agreement
<1> QED
  BY <1>1, <1>3, <1>4, <1>6, <1>7 DEF IInv

LEMMA handleSetIInv ==
    ASSUME IInv, handleSet
    PROVE  IInv'
<1> USE DEF handleSet, readerVars, taskVars, appVars, closeVars
<1>1. TypedReader' /\ TypedApp' /\ Protocol' /\ Closing'
  BY Kept DEF IInv
<1>2. toServer \in Seq(Values) /\ toServer # <<>> /\ toServer' = Tail(toServer)
  BY DEF IInv, TypedLink
<1>3. TypedServers' /\ TypedLink'
  BY <1>2, HeadFacts DEF IInv, TypedServers, TypedLink, Contents
<1>4. Lifeline' /\ Connection'
  BY <1>2 DEF IInv, Lifeline, Connection
<1>5. Agreement'
  <2>1. SheetToBe' = SheetToBe
    BY <1>2, HeadFacts DEF IInv, TypedServers, TypedLink, SheetToBe
  <2>2. LocalToBe' = LocalToBe /\ (Told' <=> Told) /\ (Following' <=> Following)
    BY DEF LocalToBe, Told, Following
  <2> QED
    BY <2>1, <2>2 DEF IInv, Agreement
<1> QED
  BY <1>1, <1>3, <1>4, <1>5 DEF IInv

\* Sequences of what a connection has left.
LEMMA StrayFacts ==
    ASSUME NEW q \in Seq(Strays), NEW i \in DOMAIN q
    PROVE  /\ q[i] \in Strays /\ q[i].left \in Seq(Values) /\ q[i].left # <<>>
           /\ [q EXCEPT ![i].stored = TRUE] \in Seq(Strays)
           /\ [q EXCEPT ![i].stored = TRUE][i].stored /\ i \in DOMAIN [q EXCEPT ![i].stored = TRUE]
           /\ RemoveAt(q, i) \in Seq(Strays)
           /\ \A x \in Strays : [q EXCEPT ![i] = x] \in Seq(Strays)
<1>0. q[i] \in Strays
  OBVIOUS
<1>1. q[i] \in Strays /\ q[i].left \in Seq(Values) /\ q[i].left # <<>>
  BY <1>0 DEF Strays
<1>2. [q[i] EXCEPT !.stored = TRUE] \in Strays /\ [q[i] EXCEPT !.stored = TRUE].stored
  BY <1>0 DEF Strays
<1>3. \A x \in Strays : [q EXCEPT ![i] = x] \in Seq(Strays)
  OBVIOUS
<1>4. [q EXCEPT ![i].stored = TRUE] = [q EXCEPT ![i] = [q[i] EXCEPT !.stored = TRUE]]
  OBVIOUS
<1>5. RemoveAt(q, i) \in Seq(Strays)
  BY DEF RemoveAt
<1> QED
  BY <1>1, <1>2, <1>3, <1>4, <1>5

LEMMA StrayStoresIInv ==
    ASSUME IInv, NEW s \in Servers, NEW i, StrayStores(s, i)
    PROVE  IInv'
<1> USE DEF StrayStores, linkVars, readerVars, taskVars, appVars, closeVars
<1>1. TypedLink' /\ TypedReader' /\ TypedApp' /\ Lifeline' /\ Connection' /\ Protocol' /\ Closing'
  BY Kept DEF IInv
<1>2. stray[s] \in Seq(Strays) /\ i \in DOMAIN stray[s]
  BY DEF IInv, TypedServers
<1>3. stray' = [stray EXCEPT ![s] = [stray[s] EXCEPT ![i].stored = TRUE]]
  OBVIOUS
<1>4. TypedServers'
  <2>1. Head(stray[s][i].left) \in Contents
    BY <1>2, StrayFacts, HeadFacts DEF Contents
  <2>2. [stray[s] EXCEPT ![i].stored = TRUE] \in Seq(Strays)
    BY <1>2, StrayFacts
  <2> QED
    BY <1>3, <2>1, <2>2 DEF IInv, TypedServers
<1>5. Agreement'
  <2>1. CASE s = peer
    <3>1. stray'[peer] = [stray[s] EXCEPT ![i].stored = TRUE] /\ peer' = peer
      BY <1>3, <2>1 DEF IInv, TypedServers
    <3>2. ~Told'
      BY <1>2, <3>1, StrayFacts DEF Told
    <3> QED
      BY <3>2 DEF Agreement
  <2>2. CASE s # peer
    <3>1. stray'[peer] = stray[peer] /\ sheet'[peer] = sheet[peer]
      BY <1>3, <2>2 DEF IInv, TypedServers, TypedLink
    <3>2. LocalToBe' = LocalToBe /\ SheetToBe' = SheetToBe /\ (Told' <=> Told)
          /\ (Following' <=> Following)
      BY <3>1 DEF LocalToBe, SheetToBe, Told, Following
    <3> QED
      BY <3>2 DEF IInv, Agreement
  <2> QED
    BY <2>1, <2>2
<1> QED
  BY <1>1, <1>4, <1>5 DEF IInv

LEMMA StrayTellsIInv ==
    ASSUME IInv, NEW s \in Servers, NEW i, StrayTells(s, i)
    PROVE  IInv'
<1> DEFINE from == stray[s][i]
           v == Head(from.left)
           rest == IF Len(from.left) = 1 THEN RemoveAt(stray[s], i)
                   ELSE [stray[s] EXCEPT ![i] = [left |-> Tail(from.left), stored |-> FALSE]]
<1>1. /\ i \in DOMAIN stray[s] /\ stray[s] \in Seq(Strays)
      /\ stray' = [stray EXCEPT ![s] = rest]
      /\ IF peer = s /\ serving \in {"joined", "answered", "dumped", "open"}
         THEN toReader' = Append(toReader, Replicate(v))
         ELSE toReader' = toReader
      /\ doubtful' = IF peer = s /\ serving = "open" THEN Outcomes # {v} ELSE doubtful
      /\ UNCHANGED <<up, sheet, serving, dumped, wire, peer, toServer, readerVars, taskVars,
                     local, appVars, closeVars, faulty>>
  BY DEF IInv, TypedServers, StrayTells, Send
<1>2. from.left \in Seq(Values) /\ from.left # <<>> /\ v \in Values /\ Tail(from.left) \in Seq(Values)
  BY <1>1, StrayFacts, HeadFacts
<1>3. rest \in Seq(Strays)
  <2>1. Len(from.left) # 1 => [left |-> Tail(from.left), stored |-> FALSE] \in Strays
    <3>1. Len(from.left) # 1 => Tail(from.left) # <<>>
      BY <1>2, HeadFacts
    <3> QED
      BY <1>2, <3>1 DEF Strays
  <2> QED
    BY <1>1, <2>1, StrayFacts
<1>4. toReader \in Seq(Messages) /\ Replicate(v) \in Messages
      /\ Replicate(v).type = "replicate" /\ Replicate(v).value = v
  BY <1>2, MessagesMade DEF IInv, TypedLink
<1> HIDE DEF v, rest, from
<1>5. Closing' /\ TypedReader' /\ Connection'
  BY <1>1, Kept DEF IInv, readerVars, taskVars, closeVars
<1>6. TypedServers' /\ TypedLink' /\ TypedApp'
  <2>1. toReader' \in Seq(Messages)
    BY <1>1, <1>4, AppendFacts
  <2>2. stray' \in [Servers -> Seq(Strays)]
    BY <1>1, <1>3 DEF IInv, TypedServers
  <2> QED
    BY <1>1, <2>1, <2>2
    DEF IInv, TypedServers, TypedLink, TypedApp, appVars, closeVars
<1>7. Lifeline'
  BY <1>1 DEF IInv, Lifeline, taskVars
<1>8. Protocol'
  <2>1. CASE toReader' = toReader
    BY <1>1, <2>1 DEF IInv, Protocol, taskVars
  <2>2. CASE toReader' = Append(toReader, Replicate(v))
    <3>1. /\ Ordered(toReader')
          /\ Among(toReader', "response") <=> Among(toReader, "response")
          /\ Among(toReader', "sheet_state") <=> Among(toReader, "sheet_state")
      BY <1>4, <2>2, SendFacts DEF IInv, Protocol
    <3> QED
      BY <1>1, <3>1 DEF IInv, Protocol, taskVars
  <2> QED
    BY <1>1, <2>1, <2>2
<1>9. Agreement'
  <2>1. CASE peer = s /\ serving = "open"
    <3> SUFFICES ASSUME ~doubtful'
                 PROVE  Agreement'
      BY DEF Agreement
    <3>1. Outcomes = {v}
      BY <1>1, <2>1
    <3>2. SheetToBe' = v
      BY <1>1, <3>1 DEF Outcomes, SheetToBe, taskVars, appVars
    <3>3. LocalToBe' = v
      <4>1. toReader' = Append(toReader, Replicate(v))
        BY <1>1, <2>1
      <4>2. toReader' # <<>> /\ Last(toReader') = Replicate(v)
        BY <1>4, <4>1, AppendFacts
      <4> QED
        BY <1>4, <4>2 DEF LocalToBe
    <3> QED
      BY <3>2, <3>3 DEF Agreement
  <2>2. CASE serving # "open"
    BY <1>1, <2>2 DEF Agreement, Following
  <2>3. CASE peer # s
    <3>1. stray'[peer] = stray[peer]
      BY <1>1, <2>3 DEF IInv, TypedServers, TypedLink
    <3>2. LocalToBe' = LocalToBe /\ SheetToBe' = SheetToBe /\ (Told' <=> Told)
          /\ (Following' <=> Following) /\ doubtful' = doubtful
      BY <1>1, <2>3, <3>1 DEF LocalToBe, SheetToBe, Told, Following, taskVars, appVars
    <3> QED
      BY <3>2 DEF IInv, Agreement
  <2> QED
    BY <2>1, <2>2, <2>3
<1> QED
  BY <1>5, <1>6, <1>7, <1>8, <1>9 DEF IInv

LEMMA LoseSheetIInv ==
    ASSUME IInv, NEW s \in Servers, LoseSheet(s)
    PROVE  IInv'
<1> USE DEF LoseSheet, linkVars, readerVars, taskVars, appVars, closeVars
<1>1. TypedLink' /\ TypedReader' /\ TypedApp' /\ Lifeline' /\ Connection' /\ Protocol' /\ Closing'
  BY Kept DEF IInv
<1>2. TypedServers'
  BY DEF IInv, TypedServers, Contents
<1>3. Agreement'
  <2>1. Following => sheet'[peer] = sheet[peer]
    BY DEF IInv, TypedServers, TypedLink, Following
  <2> QED
    BY <2>1 DEF IInv, Agreement, Following, Told, LocalToBe, SheetToBe
<1> QED
  BY <1>1, <1>2, <1>3 DEF IInv

LEMMA ReplicaAppliesIInv ==
    ASSUME IInv, ReplicaApplies
    PROVE  IInv'
<1> USE DEF ReplicaApplies, linkVars, readerVars, taskVars, appVars, closeVars
<1>1. TypedLink' /\ TypedReader' /\ Lifeline' /\ Connection' /\ Protocol' /\ Closing'
  BY Kept DEF IInv
<1>2. Leader \in Servers
  BY ParametersAssumption DEF Servers
<1>3. TypedServers' /\ TypedApp'
  BY <1>2 DEF IInv, TypedServers, TypedApp
<1>4. Agreement'
  <2> SUFFICES ASSUME Following, ~doubtful'
               PROVE  Agreement'
    BY DEF Agreement, Following
  <2>1. sheet'[peer] = sheet[peer] /\ ~doubtful
    BY DEF IInv, TypedServers, TypedLink, Following
  <2> QED
    BY <2>1 DEF IInv, Agreement, Following, Told, LocalToBe, SheetToBe
<1> QED
  BY <1>1, <1>3, <1>4 DEF IInv

-----------------------------------------------------------------------------
(* Faults, and connections that end. *)

LEMMA HangupFacts ==
    ASSUME IInv, NEW left \in {toServer, <<>>}, Hangup(left)
    PROVE  /\ TypedLink' /\ stray' \in [Servers -> Seq(Strays)]
           /\ wire' = "cut" /\ serving' = "idle" /\ toServer' = <<>> /\ toReader' = <<>>
           /\ peer' = peer
<1>1. /\ wire' = "cut" /\ serving' = "idle" /\ dumped' = None
      /\ toServer' = <<>> /\ toReader' = <<>> /\ peer' = peer
      /\ left = <<>> => stray' = stray
      /\ left # <<>> => stray' = [stray EXCEPT ![peer] =
                                  Append(stray[peer], [left |-> left, stored |-> FALSE])]
  BY DEF Hangup
<1>2. TypedLink'
  BY <1>1 DEF IInv, TypedLink, Stages, Contents
<1>3. stray' \in [Servers -> Seq(Strays)]
  <2>0. toServer \in Seq(Values) /\ <<>> \in Seq(Values)
    BY DEF IInv, TypedLink
  <2>1. stray \in [Servers -> Seq(Strays)] /\ peer \in Servers /\ left \in Seq(Values)
    BY <2>0 DEF IInv, TypedServers, TypedLink
  <2>2. CASE left = <<>>
    BY <1>1, <2>1, <2>2
  <2>3. CASE left # <<>>
    <3>1. [left |-> left, stored |-> FALSE] \in Strays
      BY <2>1, <2>3 DEF Strays
    <3>2. Append(stray[peer], [left |-> left, stored |-> FALSE]) \in Seq(Strays)
      BY <2>1, <3>1
    <3> QED
      BY <1>1, <2>1, <2>3, <3>2
  <2> QED
    BY <2>2, <2>3
<1> QED
  BY <1>1, <1>2, <1>3

\* When the wire is cut, nothing is left to say of the connection.
LEMMA CutFacts ==
    ASSUME IInv, serving' = "idle", toReader' = <<>>, toServer' = <<>>, wire' = "cut",
           UNCHANGED <<task, plan, installed, current, peer>>
    PROVE  Lifeline' /\ Connection' /\ Protocol' /\ Agreement'
<1>1. Lifeline' /\ Agreement'
  BY DEF Lifeline, Agreement, Following
<1>2. Connection'
  BY DEF IInv, Connection
<1>3. Protocol'
  BY NothingAmong DEF Protocol
<1> QED
  BY <1>1, <1>2, <1>3

LEMMA ServerStopsIInv ==
    ASSUME IInv, NEW s \in Servers, ServerStops(s)
    PROVE  IInv'
<1> USE DEF ServerStops, Fault, linkVars, readerVars, taskVars, appVars, closeVars
<1>1. TypedReader' /\ TypedApp'
  BY Kept DEF IInv
<1>2. TypedServers'
  <2>1. up' \in [Servers -> BOOLEAN] /\ sheet' \in [Servers -> Contents]
        /\ stray' \in [Servers -> Seq(Strays)]
    BY DEF IInv, TypedServers, Contents
  <2> QED
    BY <2>1 DEF IInv, TypedServers
<1>3. CASE peer = s
  <2>1. TypedLink'
    BY <1>3 DEF IInv, TypedLink, Stages, Contents
  <2>2. Lifeline' /\ Connection' /\ Protocol' /\ Agreement'
    BY <1>3, CutFacts
  <2>3. Closing'
    BY <1>3 DEF IInv, Closing
  <2> QED
    BY <1>1, <1>2, <2>1, <2>2, <2>3 DEF IInv
<1>4. CASE peer # s
  <2>1. TypedLink' /\ Lifeline' /\ Connection' /\ Protocol' /\ Closing'
    BY <1>4, Kept DEF IInv
  <2>2. sheet'[peer] = sheet[peer] /\ stray'[peer] = stray[peer]
    BY <1>4 DEF IInv, TypedServers, TypedLink
  <2>3. Agreement'
    BY <1>4, <2>2 DEF IInv, Agreement, Following, Told, LocalToBe, SheetToBe
  <2> QED
    BY <1>1, <1>2, <2>1, <2>3 DEF IInv
<1> QED
  BY <1>3, <1>4

LEMMA ServerStartsIInv ==
    ASSUME IInv, NEW s \in Servers, ServerStarts(s)
    PROVE  IInv'
<1> USE DEF ServerStarts, linkVars, readerVars, taskVars, appVars, closeVars
<1>1. /\ TypedLink' /\ TypedReader' /\ TypedApp' /\ Lifeline' /\ Connection' /\ Protocol'
      /\ Closing' /\ Agreement'
  BY Kept DEF IInv
<1>2. TypedServers'
  BY DEF IInv, TypedServers
<1> QED
  BY <1>1, <1>2 DEF IInv

LEMMA LinkBreaksIInv ==
    ASSUME IInv, LinkBreaks
    PROVE  IInv'
<1>1. PICK left \in {toServer, <<>>} : Hangup(left)
  BY DEF LinkBreaks
<1>2. /\ TypedLink' /\ stray' \in [Servers -> Seq(Strays)]
      /\ wire' = "cut" /\ serving' = "idle" /\ toServer' = <<>> /\ toReader' = <<>>
      /\ peer' = peer
  BY <1>1, HangupFacts
<1>3. /\ peer \in Failing /\ faulty' = faulty \cup {peer}
      /\ UNCHANGED <<up, sheet, readerVars, taskVars, local, appVars, closeVars, doubtful>>
  BY DEF LinkBreaks, Fault
<1> USE DEF readerVars, taskVars, appVars, closeVars
<1>4. TypedReader' /\ TypedApp'
  BY <1>3, Kept DEF IInv
<1>5. TypedServers'
  BY <1>2, <1>3 DEF IInv, TypedServers
<1>6. Lifeline' /\ Connection' /\ Protocol' /\ Agreement'
  BY <1>2, <1>3, CutFacts
<1>7. Closing'
  BY <1>2, <1>3 DEF IInv, Closing
<1> QED
  BY <1>2, <1>4, <1>5, <1>6, <1>7 DEF IInv

-----------------------------------------------------------------------------
(* connectTo. *)

\* The next attempt, or the end of them.
LEMMA AttemptFailsFacts ==
    ASSUME IInv, plan # <<>>, AttemptFails
    PROVE  /\ plan' \in Seq(Servers) /\ new' = new
           /\ task' \in {"dialing", "delaying", "failed", "gave up"}
           /\ task' \in {"dialing", "delaying"} => plan' # <<>>
<1>1. plan \in Seq(Servers) /\ plan' = Tail(plan) /\ new \in BOOLEAN
  BY DEF IInv, TypedReader, AttemptFails
<1>2. plan' \in Seq(Servers) /\ (plan' = <<>> => Len(plan) = 1)
  BY <1>1, HeadFacts
<1>3. task' = IF Len(plan) > 1 THEN IF new THEN "dialing" ELSE "delaying"
              ELSE IF new THEN "failed" ELSE "gave up"
  BY DEF AttemptFails
<1>4. Len(plan) > 1 => plan' # <<>>
  <2>1. ASSUME Len(plan) = 1 PROVE ~(Len(plan) > 1)
    BY <2>1
  <2> QED
    BY <1>2, <2>1, Zenon
<1>5. new' = new
  BY DEF AttemptFails
<1> QED
  BY <1>2, <1>3, <1>4, <1>5

\* An attempt fails on no connection.
LEMMA AttemptFailsIInv ==
    ASSUME IInv, AttemptFails, wire = "cut",
           task \in {"dialing", "authenticating", "loading"},
           UNCHANGED <<serverVars, linkVars, readerVars, local, appVars, closeVars, faulty,
                       doubtful>>
    PROVE  IInv'
<1> USE DEF serverVars, linkVars, readerVars, appVars, closeVars
<1>1. TypedServers' /\ TypedLink' /\ TypedApp'
  BY Kept DEF IInv
<1>2. /\ plan' \in Seq(Servers) /\ new' = new
      /\ task' \in {"dialing", "delaying", "failed", "gave up"}
      /\ task' \in {"dialing", "delaying"} => plan' # <<>>
  BY AttemptFailsFacts DEF IInv, Connection
<1>3. serving = "idle" /\ toReader = <<>> /\ toServer = <<>>
  BY DEF IInv, Lifeline
<1>4. TypedReader'
  BY <1>2 DEF IInv, TypedReader, Tasks
<1>5. Lifeline' /\ Agreement'
  BY <1>3 DEF Lifeline, Agreement, Following
<1>6. Connection'
  BY <1>2, <1>3 DEF IInv, Connection
<1>7. Protocol'
  BY <1>2, <1>3, NothingAmong DEF Protocol
<1>8. Closing'
  BY <1>2 DEF IInv, Closing
<1> QED
  BY <1>1, <1>4, <1>5, <1>6, <1>7, <1>8 DEF IInv

LEMMA DialFailsIInv ==
    ASSUME IInv, DialFails
    PROVE  IInv'
<1>1. wire = "cut"
  BY DEF IInv, TypedLink, Lifeline, DialFails
<1> QED
  BY <1>1, AttemptFailsIInv DEF DialFails

LEMMA ConnectionLostIInv ==
    ASSUME IInv, ConnectionLost
    PROVE  IInv'
BY AttemptFailsIInv DEF ConnectionLost

LEMMA DialIInv ==
    ASSUME IInv, Dial
    PROVE  IInv'
<1> USE DEF Dial, Goes, linkVars, readerVars, appVars, closeVars
<1>1. TypedServers' /\ TypedApp'
  BY Kept DEF IInv
<1>2. wire = "cut" /\ serving = "idle" /\ toReader = <<>> /\ toServer = <<>>
  BY DEF IInv, TypedLink, Lifeline
<1>3. Head(plan) \in Servers
  BY HeadFacts DEF IInv, TypedReader, Connection
<1>4. TypedLink' /\ TypedReader'
  BY <1>3 DEF IInv, TypedLink, TypedReader, Stages, Tasks
<1>5. Lifeline' /\ Agreement'
  BY <1>2 DEF Lifeline, Agreement, Following
<1>6. Connection'
  BY <1>2 DEF IInv, Connection
<1>7. Protocol'
  BY <1>2, NothingAmong DEF Protocol
<1>8. Closing'
  BY DEF IInv, Closing
<1> QED
  BY <1>1, <1>4, <1>5, <1>6, <1>7, <1>8 DEF IInv

LEMMA InstallIInv ==
    ASSUME IInv, Install
    PROVE  IInv'
<1> USE DEF Install, serverVars, linkVars, appVars, closeVars
<1>1. TypedServers' /\ TypedLink' /\ TypedApp'
  BY Kept DEF IInv
<1>2. TypedReader'
  <2>1. plan' \in Seq(Servers)
    OBVIOUS
  <2> QED
    BY <2>1 DEF IInv, TypedLink, TypedReader, Tasks
<1>3. Lifeline' /\ Connection' /\ Protocol' /\ Closing'
  BY DEF IInv, Lifeline, Connection, Protocol, Closing
<1>4. Agreement'
  BY DEF IInv, Agreement, Following, Told, LocalToBe, SheetToBe
<1> QED
  BY <1>1, <1>2, <1>3, <1>4 DEF IInv

\* The first of the messages, for whatever goroutine reads it.
LEMMA FirstMessage ==
    ASSUME IInv, toReader # <<>>
    PROVE  /\ toReader \in Seq(Messages) /\ Tail(toReader) \in Seq(Messages)
           /\ Head(toReader) \in Messages /\ Head(toReader).value \in Contents
           /\ Head(toReader).type \in {"response", "sheet_state", "replicate"}
           /\ Tail(toReader) # <<>> => Last(Tail(toReader)) = Last(toReader)
           /\ Tail(toReader) = <<>> => Last(toReader) = Head(toReader)
           /\ Ordered(toReader) /\ serving # "idle"
BY HeadFacts, MessageFacts DEF IInv, TypedLink, Protocol, Lifeline

LEMMA AuthenticateIInv ==
    ASSUME IInv, Receive, Authenticate(Head(toReader))
    PROVE  IInv'
<1> DEFINE msg == Head(toReader)
<1>1. /\ toReader # <<>> /\ toReader' = Tail(toReader)
      /\ task = "authenticating" /\ UNCHANGED <<plan, new, local, doubtful>>
      /\ task' = IF msg.type = "response" THEN "loading" ELSE task
      /\ UNCHANGED <<up, sheet, stray, serving, dumped, wire, peer, toServer, installed, connected,
                     closed, current, setting, sets, closer, caught, faulty>>
  BY DEF Receive, Authenticate, Goes, serverVars, readerVars, taskVars, appVars, closeVars
<1>2. /\ Tail(toReader) \in Seq(Messages)
      /\ Tail(toReader) # <<>> => Last(Tail(toReader)) = Last(toReader)
  BY <1>1, FirstMessage
<1>3. TypedServers' /\ TypedApp'
  BY <1>1, Kept DEF IInv
<1>4. TypedLink' /\ TypedReader'
  BY <1>1, <1>2 DEF IInv, TypedLink, TypedReader, Tasks
<1>5. Lifeline' /\ Connection' /\ Closing'
  BY <1>1, FirstMessage DEF IInv, Lifeline, Connection, Closing
<1>6. /\ \A type : Among(toReader, type) <=> msg.type = type \/ Among(Tail(toReader), type)
      /\ Ordered(Tail(toReader))
      /\ msg.type = "response" => ~Among(Tail(toReader), "response")
      /\ msg.type = "sheet_state" => ~Among(Tail(toReader), "response")
  BY <1>1, FirstMessage, ReceiveFacts
<1>7. msg.type # "sheet_state"
  BY <1>1, <1>6 DEF IInv, Protocol
<1>8. Protocol'
  BY <1>1, <1>6, <1>7 DEF IInv, Protocol
<1>9. Agreement'
  <2> SUFFICES ASSUME serving = "open"
               PROVE  Agreement'
    BY <1>1 DEF Agreement, Following
  <2>1. toReader' # <<>>
    BY <1>1, <1>6, <1>7, NothingAmong DEF IInv, Protocol
  <2>2. LocalToBe' = LocalToBe
    BY <1>1, <1>2, <2>1 DEF LocalToBe
  <2>3. SheetToBe' = SheetToBe
    BY <1>1 DEF SheetToBe
  <2>4. Told' <=> Told
    BY <1>1 DEF Told
  <2> QED
    BY <1>1, <2>2, <2>3, <2>4 DEF IInv, Agreement, Following
<1> QED
  BY <1>3, <1>4, <1>5, <1>8, <1>9 DEF IInv

LEMMA LoadStateIInv ==
    ASSUME IInv, Receive, LoadState(Head(toReader))
    PROVE  IInv'
<1> DEFINE msg == Head(toReader)
<1>1. /\ toReader # <<>> /\ toReader' = Tail(toReader)
      /\ task = "loading" /\ UNCHANGED <<plan, new>>
      /\ IF msg.type = "sheet_state"
         THEN /\ local' = msg.value /\ task' = "loaded"
              /\ doubtful' = (doubtful \/ setting.step = "sending")
         ELSE UNCHANGED <<task, local, doubtful>>
      /\ UNCHANGED <<up, sheet, stray, serving, dumped, wire, peer, toServer, installed, connected,
                     closed, current, setting, sets, closer, caught, faulty>>
  BY DEF Receive, LoadState, Goes, serverVars, readerVars, taskVars, appVars, closeVars
<1>2. /\ Tail(toReader) \in Seq(Messages) /\ msg.value \in Contents
      /\ Tail(toReader) # <<>> => Last(Tail(toReader)) = Last(toReader)
      /\ Tail(toReader) = <<>> => Last(toReader) = msg
  BY <1>1, FirstMessage
<1>3. TypedServers' /\ TypedLink'
  BY <1>1, <1>2 DEF IInv, TypedServers, TypedLink
<1>4. TypedReader' /\ TypedApp'
  BY <1>1, <1>2 DEF IInv, TypedReader, TypedApp, Tasks
<1>5. Lifeline' /\ Connection' /\ Closing'
  BY <1>1, FirstMessage DEF IInv, Lifeline, Connection, Closing
<1>6. /\ \A type : Among(toReader, type) <=> msg.type = type \/ Among(Tail(toReader), type)
      /\ Ordered(Tail(toReader))
      /\ msg.type = "sheet_state" =>
            ~Among(Tail(toReader), "response") /\ ~Among(Tail(toReader), "sheet_state")
  BY <1>1, FirstMessage, ReceiveFacts
<1>7. Protocol'
  BY <1>1, <1>6 DEF IInv, Protocol
<1>8. Agreement'
  <2>1. CASE msg.type = "sheet_state"
    <3>1. LocalToBe' = LocalToBe
      BY <1>1, <1>2, <2>1 DEF LocalToBe
    <3>2. ~doubtful' => SheetToBe' = SheetToBe /\ ~doubtful
      BY <1>1, <2>1 DEF IInv, TypedApp, SheetToBe
    <3> QED
      BY <1>1, <2>1, <3>1, <3>2 DEF IInv, Agreement, Following, Told
  <2>2. CASE msg.type # "sheet_state"
    <3> SUFFICES ASSUME serving = "open"
                 PROVE  Agreement'
      BY <1>1 DEF Agreement, Following
    <3>1. toReader' # <<>>
      BY <1>1, <1>6, <2>2, NothingAmong DEF IInv, Protocol
    <3>2. LocalToBe' = LocalToBe /\ SheetToBe' = SheetToBe
      BY <1>1, <1>2, <2>2, <3>1 DEF LocalToBe, SheetToBe
    <3> QED
      BY <1>1, <2>2, <3>2 DEF IInv, Agreement, Following, Told
  <2> QED
    BY <2>1, <2>2
<1> QED
  BY <1>3, <1>4, <1>5, <1>7, <1>8 DEF IInv

LEMMA handleMessageIInv ==
    ASSUME IInv, Receive, handleMessage(Head(toReader))
    PROVE  IInv'
<1> DEFINE msg == Head(toReader)
<1>1. /\ toReader # <<>> /\ toReader' = Tail(toReader)
      /\ task = "reading" /\ task' = "looping" /\ UNCHANGED <<plan, new, doubtful>>
      /\ local' = IF msg.type = "replicate" THEN msg.value ELSE local
      /\ UNCHANGED <<up, sheet, stray, serving, dumped, wire, peer, toServer, installed, connected,
                     closed, current, setting, sets, closer, caught, faulty>>
  BY DEF Receive, handleMessage, Goes, serverVars, readerVars, taskVars, appVars, closeVars
<1>2. /\ Tail(toReader) \in Seq(Messages) /\ msg.value \in Contents
      /\ Tail(toReader) # <<>> => Last(Tail(toReader)) = Last(toReader)
      /\ Tail(toReader) = <<>> => Last(toReader) = msg
      /\ msg.type \in {"response", "sheet_state", "replicate"}
  BY <1>1, FirstMessage
<1>3. TypedServers' /\ TypedLink'
  BY <1>1, <1>2 DEF IInv, TypedServers, TypedLink
<1>4. TypedReader' /\ TypedApp'
  BY <1>1, <1>2 DEF IInv, TypedReader, TypedApp, Tasks
<1>5. Lifeline' /\ Connection' /\ Closing'
  BY <1>1, FirstMessage DEF IInv, Lifeline, Connection, Closing
<1>6. /\ \A type : Among(toReader, type) <=> msg.type = type \/ Among(Tail(toReader), type)
      /\ Ordered(Tail(toReader))
  BY <1>1, FirstMessage, ReceiveFacts
<1>7. Protocol'
  BY <1>1, <1>6 DEF IInv, Protocol
<1>8. Agreement'
  <2>1. msg.type = "replicate"
    BY <1>1, <1>2, <1>6 DEF IInv, Protocol
  <2>2. LocalToBe' = LocalToBe /\ SheetToBe' = SheetToBe
    BY <1>1, <1>2, <2>1 DEF LocalToBe, SheetToBe
  <2> QED
    BY <1>1, <2>2 DEF IInv, Agreement, Following, Told
<1> QED
  BY <1>3, <1>4, <1>5, <1>7, <1>8 DEF IInv

LEMMA ReceiveIInv ==
    ASSUME IInv, Receive
    PROVE  IInv'
BY AuthenticateIInv, LoadStateIInv, handleMessageIInv DEF Receive

-----------------------------------------------------------------------------
(* listen and handleDisconnect. *)

LEMMA LoopIInv ==
    ASSUME IInv, Loop
    PROVE  IInv'
<1> USE DEF Loop, Goes, serverVars, linkVars, readerVars, appVars, closeVars
<1>1. TypedServers' /\ TypedLink' /\ TypedApp'
  BY Kept DEF IInv
<1>2. TypedReader'
  BY DEF IInv, TypedReader, Tasks
<1>3. Lifeline' /\ Connection' /\ Protocol' /\ Closing'
  BY DEF IInv, Lifeline, Connection, Protocol, Closing
<1>4. Agreement'
  BY DEF IInv, Agreement, Following, Told, LocalToBe, SheetToBe
<1> QED
  BY <1>1, <1>2, <1>3, <1>4 DEF IInv

\* There is always an attempt to make.
LEMMA AttemptsFacts ==
    ASSUME current \in Servers
    PROVE  Attempts \in Seq(Servers) /\ Attempts # <<>>
<1>1. Leader \in Servers /\ (Backup # None => Backup \in Servers)
      /\ MaxAttempts \in Nat /\ MaxAttempts > 0
  BY ParametersAssumption DEF Servers
<1>2. \A s \in Servers : Times(s, MaxAttempts) \in Seq(Servers)
  BY <1>1 DEF Times
<1>3. Times(current, MaxAttempts) # <<>>
  <2>1. Len(Times(current, MaxAttempts)) = MaxAttempts
    BY <1>1 DEF Times
  <2> QED
    BY <1>1, <2>1, EmptySeq
<1> DEFINE two == IF Backup # None /\ current # Backup THEN Times(Backup, MaxAttempts) ELSE <<>>
           three == IF current # Leader THEN Times(Leader, MaxAttempts) ELSE <<>>
<1>4. two \in Seq(Servers) /\ three \in Seq(Servers)
  BY <1>1, <1>2
<1>5. Attempts = (Times(current, MaxAttempts) \o two) \o three
  BY DEF Attempts
<1> HIDE DEF two, three
<1> QED
  BY <1>2, <1>3, <1>4, <1>5, ConcatProperties, ConcatEqualIffEmpty

LEMMA handleDisconnectIInv ==
    ASSUME IInv, handleDisconnect
    PROVE  IInv'
<1>1. /\ task = "reading" /\ wire = "cut"
      /\ \/ closed /\ task' = "ended" /\ UNCHANGED <<plan, connected, installed>>
         \/ /\ ~closed /\ connected' = FALSE /\ installed' = FALSE
            /\ task' = "delaying" /\ plan' = Attempts
      /\ UNCHANGED <<serverVars, linkVars, closed, current, new, local, appVars, closeVars, faulty,
                     doubtful>>
  BY DEF handleDisconnect, Goes, readerVars
<1> USE DEF serverVars, linkVars, appVars, closeVars
<1>2. TypedServers' /\ TypedLink' /\ TypedApp'
  BY <1>1, Kept DEF IInv
<1>3. serving = "idle" /\ toReader = <<>> /\ toServer = <<>> /\ current \in Servers
  BY <1>1 DEF IInv, TypedLink, Lifeline, Connection
<1>4. plan' \in Seq(Servers) /\ (task' = "delaying" => plan' # <<>>)
  BY <1>1, <1>3, AttemptsFacts DEF IInv, TypedReader
<1>5. TypedReader'
  BY <1>1, <1>4 DEF IInv, TypedReader, Tasks
<1>6. Lifeline' /\ Agreement'
  BY <1>1, <1>3 DEF IInv, Lifeline, Agreement, Following
<1>7. Connection' /\ Closing'
  <2>1. Connection'
    BY <1>1, <1>3, <1>4 DEF Connection
  <2>2. Closing'
    BY <1>1 DEF IInv, Closing
  <2> QED
    BY <2>1, <2>2
<1>8. Protocol'
  BY <1>1, <1>3, NothingAmong DEF Protocol
<1> QED
  BY <1>2, <1>5, <1>6, <1>7, <1>8 DEF IInv

LEMMA DelayedIInv ==
    ASSUME IInv, Delayed
    PROVE  IInv'
<1> USE DEF Delayed, Goes, serverVars, linkVars, readerVars, appVars, closeVars
<1>1. TypedServers' /\ TypedLink' /\ TypedApp'
  BY Kept DEF IInv
<1>2. TypedReader'
  BY DEF IInv, TypedReader, Tasks
<1>3. wire = "cut" /\ serving = "idle" /\ toReader = <<>>
  BY DEF IInv, TypedLink, Lifeline
<1>4. Lifeline' /\ Connection' /\ Closing' /\ Agreement'
  BY <1>3 DEF IInv, Lifeline, Connection, Closing, Agreement, Following
<1>5. Protocol'
  BY <1>3, NothingAmong DEF Protocol
<1> QED
  BY <1>1, <1>2, <1>4, <1>5 DEF IInv

-----------------------------------------------------------------------------
(* Set and Close. *)

LEMMA SetIInv ==
    ASSUME IInv, NEW v \in Values, Set(v)
    PROVE  IInv'
<1> USE DEF Set, serverVars, linkVars, readerVars, taskVars, closeVars
<1>1. /\ TypedServers' /\ TypedLink' /\ TypedReader' /\ Lifeline' /\ Connection' /\ Protocol'
      /\ Closing'
  BY Kept DEF IInv
<1>2. TypedApp'
  <2>1. setting' \in [step : {"idle", "storing", "sending"}, value : Contents]
        /\ setting'.value \in Values
    BY DEF Contents
  <2>2. sets' \in 0 .. MaxSets
    BY ParametersAssumption DEF IInv, TypedApp
  <2> QED
    BY <2>1, <2>2 DEF IInv, TypedApp
<1>3. Agreement'
  <2>1. setting.step = "idle" /\ setting'.step = "storing"
    BY DEF Idle
  <2>2. SheetToBe' = SheetToBe
    BY <2>1 DEF SheetToBe
  <2> QED
    BY <2>2 DEF IInv, Agreement, Following, Told, LocalToBe
<1> QED
  BY <1>1, <1>2, <1>3 DEF IInv

LEMMA StoreLocalIInv ==
    ASSUME IInv, StoreLocal
    PROVE  IInv'
<1> USE DEF StoreLocal, serverVars, linkVars, readerVars, taskVars, closeVars
<1>1. /\ TypedServers' /\ TypedLink' /\ TypedReader' /\ Lifeline' /\ Connection' /\ Protocol'
      /\ Closing'
  BY Kept DEF IInv
<1>2. setting.value \in Values /\ setting'.value = setting.value
      /\ setting' \in [step : {"idle", "storing", "sending"}, value : Contents]
      /\ setting.step = "storing" /\ setting'.step = "sending"
  BY DEF IInv, TypedApp
<1>3. TypedApp'
  BY <1>2 DEF IInv, TypedApp, Contents
<1>4. Agreement'
  <2>1. CASE task \in {"loaded", "looping", "reading"}
    <3> SUFFICES ASSUME ~doubtful'
                 PROVE  Agreement'
      BY DEF Agreement
    <3>1. ~Among(toReader, "replicate")
      BY <2>1 DEF Among
    <3>2. toReader = <<>>
      BY <2>1, <3>1, NothingComes DEF IInv, TypedLink, Protocol
    <3>3. LocalToBe' = setting.value /\ SheetToBe' = setting.value
      BY <1>2, <2>1, <3>2 DEF LocalToBe, SheetToBe
    <3> QED
      BY <3>3 DEF Agreement
  <2>2. CASE task \in {"authenticating", "loading"}
    <3> SUFFICES ASSUME serving = "open"
                 PROVE  Agreement'
      BY DEF Agreement, Following
    <3>1. toReader # <<>>
      BY <2>2, NothingAmong DEF IInv, Protocol
    <3>2. LocalToBe' = LocalToBe /\ SheetToBe' = SheetToBe
      BY <2>2, <3>1 DEF LocalToBe, SheetToBe
    <3> QED
      BY <2>2, <3>2 DEF IInv, Agreement, Following, Told
  <2> QED
    BY <2>1, <2>2 DEF Agreement, Following
<1> QED
  BY <1>1, <1>3, <1>4 DEF IInv

LEMMA sendIInv ==
    ASSUME IInv, send
    PROVE  IInv'
<1>1. /\ setting.step = "sending" /\ setting' = Idle
      /\ toServer' = IF installed /\ wire = "open" THEN Append(toServer, setting.value)
                     ELSE toServer
      /\ doubtful' = (doubtful \/ task = "loaded")
      /\ UNCHANGED <<up, sheet, stray, serving, dumped, wire, peer, toReader, installed, connected,
                     closed, current, task, plan, new, local, sets, closer, caught, faulty>>
  BY DEF send, serverVars, readerVars, taskVars, closeVars
<1>2. TypedServers' /\ TypedReader' /\ Protocol' /\ Closing'
  BY <1>1, Kept DEF IInv
<1>3. toServer \in Seq(Values) /\ setting.value \in Values
  BY <1>1 DEF IInv, TypedLink, TypedApp
<1>4. TypedLink' /\ TypedApp'
  <2>1. toServer' \in Seq(Values)
    BY <1>1, <1>3
  <2>2. setting' \in [step : {"idle", "storing", "sending"}, value : Contents]
        /\ setting'.step = "idle"
    BY <1>1 DEF Idle, Contents
  <2> QED
    BY <1>1, <2>1, <2>2 DEF IInv, TypedLink, TypedApp
<1>5. installed /\ wire = "open" => serving = "open"
  BY DEF IInv, Connection, Lifeline, Protocol
<1>6. Lifeline' /\ Connection'
  BY <1>1, <1>5 DEF IInv, Lifeline, Connection
<1>7. Agreement'
  <2> SUFFICES ASSUME Following, ~doubtful'
               PROVE  Agreement'
    BY <1>1 DEF Agreement, Following
  <2>0. task # "loaded" /\ ~doubtful /\ setting'.step = "idle"
    BY <1>1 DEF Idle
  <2>1. SheetToBe' = SheetToBe
    <3>1. CASE task \in {"looping", "reading"}
      <4>1. installed /\ wire = "open"
        BY <3>1 DEF IInv, TypedLink, Connection, Lifeline, Following
      <4>2. toServer' # <<>> /\ Last(toServer') = setting.value
        BY <1>1, <1>3, <4>1, AppendFacts
      <4> QED
        BY <1>1, <2>0, <3>1, <4>2 DEF SheetToBe
    <3>2. CASE task \in {"authenticating", "loading"}
      <4>1. ~installed
        BY <3>2 DEF IInv, Connection
      <4> QED
        BY <1>1, <2>0, <3>2, <4>1 DEF SheetToBe
    <3> QED
      BY <2>0, <3>1, <3>2 DEF Following
  <2>2. LocalToBe' = LocalToBe
    BY <1>1 DEF LocalToBe
  <2> QED
    BY <1>1, <2>0, <2>1, <2>2 DEF IInv, Agreement, Following, Told
<1> QED
  BY <1>2, <1>4, <1>6, <1>7 DEF IInv

LEMMA CloseIInv ==
    ASSUME IInv, Close
    PROVE  IInv'
<1> USE DEF Close, serverVars, linkVars, taskVars, appVars
<1>1. TypedServers' /\ TypedLink' /\ Lifeline' /\ Connection' /\ Protocol' /\ Agreement'
  BY Kept DEF IInv
<1>2. TypedReader'
  BY DEF IInv, TypedReader
<1>3. TypedApp'
  <2>1. caught' \in BOOLEAN /\ closer' \in {"closing", "waiting"}
    OBVIOUS
  <2> QED
    BY <2>1 DEF IInv, TypedApp
<1>4. Closing'
  BY DEF IInv, TypedLink, Lifeline, Connection, Closing
<1> QED
  BY <1>1, <1>2, <1>3, <1>4 DEF IInv

LEMMA CloseConnIInv ==
    ASSUME IInv, CloseConn
    PROVE  IInv'
<1>1. Hangup(toServer)
  BY DEF CloseConn, CloseWire
<1>2. /\ TypedLink' /\ stray' \in [Servers -> Seq(Strays)]
      /\ wire' = "cut" /\ serving' = "idle" /\ toServer' = <<>> /\ toReader' = <<>>
      /\ peer' = peer
  BY <1>1, HangupFacts
<1>3. /\ closer = "closing" /\ closer' = "waiting"
      /\ UNCHANGED <<up, sheet, caught, readerVars, taskVars, local, appVars, faulty, doubtful>>
  BY DEF CloseConn
<1> USE DEF readerVars, taskVars, appVars
<1>4. TypedReader'
  BY <1>3, Kept DEF IInv
<1>5. TypedServers' /\ TypedApp'
  BY <1>2, <1>3 DEF IInv, TypedServers, TypedApp
<1>6. Lifeline' /\ Connection' /\ Protocol' /\ Agreement'
  BY <1>2, <1>3, CutFacts
<1>7. Closing'
  BY <1>2, <1>3 DEF IInv, Closing
<1> QED
  BY <1>2, <1>4, <1>5, <1>6, <1>7 DEF IInv

LEMMA CloseDoneIInv ==
    ASSUME IInv, CloseDone
    PROVE  IInv'
<1> USE DEF CloseDone, serverVars, linkVars, readerVars, taskVars, appVars
<1>1. /\ TypedServers' /\ TypedLink' /\ TypedReader' /\ Lifeline' /\ Connection' /\ Protocol'
      /\ Agreement'
  BY Kept DEF IInv
<1>2. TypedApp' /\ Closing'
  BY DEF IInv, TypedApp, Closing
<1> QED
  BY <1>1, <1>2 DEF IInv

-----------------------------------------------------------------------------
LEMMA StutterIInv ==
    ASSUME IInv, UNCHANGED vars
    PROVE  IInv'
BY Kept DEF IInv, vars, serverVars, linkVars, readerVars, taskVars, appVars, closeVars

LEMMA NextIInv ==
    ASSUME IInv, Next
    PROVE  IInv'
<1>1. CASE Serve
  BY <1>1, AddCollaboratorIInv, OpenResponseIInv, DumpIInv, sendSheetStateIInv, handleSetIInv
  DEF Serve
<1>2. CASE Run
  BY <1>2, DialFailsIInv, DialIInv, ConnectionLostIInv, ReceiveIInv, InstallIInv, LoopIInv,
     handleDisconnectIInv, DelayedIInv
  DEF Run
<1>3. CASE StoreLocal \/ send \/ CloseConn \/ CloseDone \/ Close
  BY <1>3, StoreLocalIInv, sendIInv, CloseConnIInv, CloseDoneIInv, CloseIInv
<1>4. CASE \E v \in Values : Set(v)
  BY <1>4, SetIInv
<1>5. CASE ReplicaApplies \/ LinkBreaks
  BY <1>5, ReplicaAppliesIInv, LinkBreaksIInv
<1>6. CASE \E s \in Servers : LoseSheet(s) \/ ServerStops(s) \/ ServerStarts(s)
  BY <1>6, LoseSheetIInv, ServerStopsIInv, ServerStartsIInv
<1>7. CASE \E s \in Servers : handleStray(s)
  BY <1>7, StrayStoresIInv, StrayTellsIInv DEF handleStray
<1> QED
  BY <1>1, <1>2, <1>3, <1>4, <1>5, <1>6, <1>7 DEF Next

\* The inductive invariant holds in every reachable state.
THEOREM Invariance == Spec => []IInv
<1>1. Init => IInv
  BY InitIInv
<1>2. IInv /\ [Next]_vars => IInv'
  BY NextIInv, StutterIInv
<1> QED
  BY <1>1, <1>2, PTL DEF Spec

\* Type correctness of every variable; the goroutine that listens has a
\* connection, and requests wait only where an open was completed.
THEOREM TypeCorrect == Spec => []TypeOK
<1>1. IInv => TypeOK
  BY DEF IInv, TypedServers, TypedLink, TypedReader, TypedApp, Lifeline, Connection, Stages, TypeOK
<1> QED
  BY <1>1, Invariance, PTL

\* After any number of reconnects and failovers a connected Reader at rest has
\* what its server has, but for the doubtful cases.
THEOREM ReaderAgrees == Spec => []LocalMatchesServer
<1>1. IInv => LocalMatchesServer
  <2> SUFFICES ASSUME IInv, Settled, ~doubtful
               PROVE  local = sheet[current]
    BY DEF LocalMatchesServer
  <2>1. serving = "open" /\ current = peer
    BY DEF IInv, Lifeline, Connection, Protocol, Settled
  <2>2. Following /\ Told
    BY <2>1 DEF Settled, Following, Told
  <2>3. LocalToBe = local /\ SheetToBe = sheet[peer]
    BY DEF Settled, Idle, LocalToBe, SheetToBe
  <2> QED
    BY <2>1, <2>2, <2>3 DEF IInv, Agreement
<1> QED
  BY <1>1, Invariance, PTL

\* When Close has returned and met no connectTo, the Reader is disconnected
\* and its connection closed, for good.
THEOREM CloseIsFinal == Spec => []ClosedStaysClosed
<1>1. IInv => ClosedStaysClosed
  BY DEF IInv, Closing, ClosedStaysClosed
<1> QED
  BY <1>1, Invariance, PTL
=============================================================================
