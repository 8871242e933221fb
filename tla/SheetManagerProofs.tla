------------------------- MODULE SheetManagerProofs -------------------------
(***************************************************************************)
(* Proofs about SheetManager, for any clients and passwords and any bounds:*)
(* simultaneous first opens share a sheet and its password, and the last   *)
(* client out leaves no sheet behind.                                      *)
(***************************************************************************)
EXTENDS SheetManager, TLAPS

\* Sheets that are not created yet are in nobody's hands, and as NewSheet
\* would find them.
Numbered ==
    /\ table # None => table <= created
    /\ \A c \in Clients : at[c] # None => at[c] <= created
    /\ \A s \in Sheets : s \in fromLeader => s <= created
    /\ \A s \in Sheets : s > created => members[s] = {}

\* Only sheets from the leader are ever without hash: what SetPassword
\* changes is none that a client created.
Protected ==
    /\ \A s \in Sheets : s <= created /\ s \notin fromLeader => hash[s] # None
    /\ \A c \in Clients : pc[c] = "unset" => at[c] \in fromLeader

\* Until a sheet leaves the table there is one that anybody can have found.
Together == ~replaced => \A c \in Clients : at[c] \in {None, table}

\* The collaborators of a sheet are those that are in it, and replicas that
\* have left.
Listed ==
    /\ \A c \in Clients : pc[c] = "in" => c \in members[at[c]]
    /\ \A s \in Sheets : \A c \in members[s] :
          at[c] = s /\ (pc[c] = "in" \/ (pc[c] = "gone" /\ c \in isReplica))

\* Client c will leave the sheet in the table, or is about to delete it.
Attends(c) == (pc[c] \in {"admitted", "in"} /\ at[c] = table) \/ pc[c] = "deleting"

Attended ==
    isReplica = {} /\ table # None /\ table \notin fromLeader => \E c \in Clients : Attends(c)

IInv ==
    /\ TypeOK
    /\ Numbered
    /\ Protected
    /\ PasswordKept
    /\ Together
    /\ Listed
    /\ Attended

-----------------------------------------------------------------------------
LEMMA InitIInv == Init => IInv
<1> SUFFICES ASSUME Init PROVE IInv
  OBVIOUS
<1>1. TypeOK
  <2>1. members \in [Sheets -> SUBSET Clients] /\ isReplica \subseteq Clients
    BY DEF Init
  <2>2. hash \in [Sheets -> Passwords \cup {None}]
    BY DEF Init
  <2>3. pc \in [Clients -> Labels] /\ \A c \in Clients : pc[c] = "out"
    BY DEF Init, Labels
  <2>4. at \in [Clients -> Sheets \cup {None}]
    BY DEF Init
  <2>5. password \in [Clients -> Passwords \cup {None}]
    BY DEF Init
  <2>6. table \in Sheets \cup {None} /\ fromLeader \subseteq Sheets
    BY DEF Init
  <2>7. created \in 0 .. MaxSheets /\ opens \in 0 .. MaxOpens
    BY ParametersAssumption DEF Init
  <2>8. adding \in BOOLEAN /\ replaced \in BOOLEAN
    BY DEF Init
  <2> QED
    BY <2>1, <2>2, <2>3, <2>4, <2>5, <2>6, <2>7, <2>8 DEF TypeOK
<1>2. Numbered /\ Protected /\ PasswordKept /\ Together
  BY ParametersAssumption
  DEF Init, Numbered, Protected, PasswordKept, Together, Sheets
<1>3. Listed /\ Attended
  BY DEF Init, Listed, Attended
<1> QED
  BY <1>1, <1>2, <1>3 DEF IInv

\* A new sheet has a number of its own, and the others stay as they are.
LEMMA CreateFacts ==
    ASSUME TypeOK, NEW h \in Passwords \cup {None}, Create(h)
    PROVE  /\ created + 1 \in Sheets /\ table' = created + 1
           /\ created' \in 0 .. MaxSheets /\ created' = created + 1
           /\ hash' \in [Sheets -> Passwords \cup {None}]
           /\ hash'[created + 1] = h
           /\ \A s \in Sheets : s # created + 1 => hash'[s] = hash[s]
BY ParametersAssumption DEF TypeOK, Sheets, Create

LEMMA OpenIInv ==
    ASSUME IInv, NEW c \in Clients, NEW p \in Passwords, Open(c, p)
    PROVE  IInv'
<1> USE ParametersAssumption DEF Sheets, Open, Goes, Finds, sheetVars
<1>1. TypeOK'
  BY DEF IInv, TypeOK, Labels
<1>2. Numbered'
  BY <1>1 DEF IInv, TypeOK, Numbered
<1>3. Protected'
  BY <1>1 DEF IInv, TypeOK, Protected, Numbered
<1>4. PasswordKept'
  BY <1>1 DEF IInv, TypeOK, PasswordKept, Protected, Numbered
<1>5. Together'
  BY <1>1 DEF IInv, TypeOK, Together
<1>6. Listed'
  BY <1>1 DEF IInv, TypeOK, Listed, Numbered
<1>7. Attended'
  BY <1>1 DEF IInv, TypeOK, Attended, Attends, Listed
<1> QED
  BY <1>1, <1>2, <1>3, <1>4, <1>5, <1>6, <1>7 DEF IInv

LEMMA LoadOrStoreIInv ==
    ASSUME IInv, NEW c \in Clients, LoadOrStore(c)
    PROVE  IInv'
<1> USE ParametersAssumption DEF Goes, Finds, sheetVars
<1>1. CASE table = None
  <2>1. /\ Create(password[c]) /\ pc[c] = "creating"
        /\ at' = [at EXCEPT ![c] = created + 1] /\ pc' = [pc EXCEPT ![c] = "admitted"]
        /\ UNCHANGED <<fromLeader, replaced, members, password, opens, isReplica, adding>>
    BY <1>1 DEF LoadOrStore
  <2>2. password[c] \in Passwords
    BY <2>1 DEF IInv, TypeOK
  <2>3. /\ created + 1 \in Sheets /\ table' = created + 1
        /\ created' \in 0 .. MaxSheets /\ created' = created + 1
        /\ hash' \in [Sheets -> Passwords \cup {None}]
        /\ hash'[created + 1] = password[c]
        /\ \A s \in Sheets : s # created + 1 => hash'[s] = hash[s]
    BY <2>1, <2>2, CreateFacts DEF IInv
  <2>4. TypeOK'
    BY <2>1, <2>3 DEF IInv, TypeOK, Labels
  <2>5. Numbered' /\ Protected'
    BY <2>1, <2>2, <2>3 DEF IInv, TypeOK, Sheets, Numbered, Protected
  <2>6. PasswordKept'
    BY <2>1, <2>2, <2>3 DEF IInv, TypeOK, Sheets, Numbered, PasswordKept
  <2>7. Together' /\ Attended'
    BY <1>1, <2>1, <2>3 DEF IInv, TypeOK, Together, Attended, Attends
  <2>8. Listed'
    BY <2>1, <2>3 DEF IInv, TypeOK, Sheets, Listed, Numbered
  <2> QED
    BY <2>4, <2>5, <2>6, <2>7, <2>8 DEF IInv
<1>2. CASE table # None
  <2>1. /\ at' = [at EXCEPT ![c] = table] /\ pc' = [pc EXCEPT ![c] = "found"]
        /\ pc[c] = "creating"
        /\ UNCHANGED <<sheetVars, members, password, opens, isReplica, adding>>
    BY <1>2 DEF LoadOrStore
  <2>2. TypeOK'
    BY <1>2, <2>1 DEF IInv, TypeOK, Labels
  <2>3. Numbered' /\ Protected' /\ PasswordKept'
    BY <2>1 DEF IInv, TypeOK, Numbered, Protected, PasswordKept
  <2>4. Together' /\ Listed' /\ Attended'
    BY <2>1 DEF IInv, TypeOK, Together, Listed, Attended, Attends
  <2> QED
    BY <2>2, <2>3, <2>4 DEF IInv
<1> QED
  BY <1>1, <1>2

LEMMA ValidatePasswordIInv ==
    ASSUME IInv, NEW c \in Clients, ValidatePassword(c)
    PROVE  IInv'
<1> USE ParametersAssumption DEF Sheets, ValidatePassword, Goes, Finds, sheetVars
<1>1. TypeOK'
  BY DEF IInv, TypeOK, Labels
<1>2. Numbered'
  BY <1>1 DEF IInv, TypeOK, Numbered
<1>3. Protected'
  BY <1>1 DEF IInv, TypeOK, Protected, Numbered
<1>4. PasswordKept'
  BY <1>1 DEF IInv, TypeOK, PasswordKept, Protected, Numbered
<1>5. Together'
  BY <1>1 DEF IInv, TypeOK, Together
<1>6. Listed'
  BY <1>1 DEF IInv, TypeOK, Listed, Numbered
<1>7. Attended'
  BY <1>1 DEF IInv, TypeOK, Attended, Attends, Listed
<1> QED
  BY <1>1, <1>2, <1>3, <1>4, <1>5, <1>6, <1>7 DEF IInv

LEMMA SetPasswordIInv ==
    ASSUME IInv, NEW c \in Clients, SetPassword(c)
    PROVE  IInv'
<1> USE ParametersAssumption DEF Sheets, SetPassword, Goes, Finds, sheetVars
<1>1. TypeOK'
  BY DEF IInv, TypeOK, Labels
<1>2. Numbered'
  BY <1>1 DEF IInv, TypeOK, Numbered
<1>3. Protected'
  BY <1>1 DEF IInv, TypeOK, Protected, Numbered
<1>4. PasswordKept'
  BY <1>1 DEF IInv, TypeOK, PasswordKept, Protected, Numbered
<1>5. Together'
  BY <1>1 DEF IInv, TypeOK, Together
<1>6. Listed'
  BY <1>1 DEF IInv, TypeOK, Listed, Numbered
<1>7. Attended'
  BY <1>1 DEF IInv, TypeOK, Attended, Attends, Listed
<1> QED
  BY <1>1, <1>2, <1>3, <1>4, <1>5, <1>6, <1>7 DEF IInv

LEMMA AddCollaboratorIInv ==
    ASSUME IInv, NEW c \in Clients, AddCollaborator(c)
    PROVE  IInv'
<1> USE ParametersAssumption DEF Sheets, AddCollaborator, Goes, Finds, sheetVars
<1>1. TypeOK'
  BY DEF IInv, TypeOK, Labels
<1>2. Numbered'
  BY <1>1 DEF IInv, TypeOK, Numbered
<1>3. Protected'
  BY <1>1 DEF IInv, TypeOK, Protected, Numbered
<1>4. PasswordKept'
  BY <1>1 DEF IInv, TypeOK, PasswordKept, Protected, Numbered
<1>5. Together'
  BY <1>1 DEF IInv, TypeOK, Together
<1>6. Listed'
  BY <1>1 DEF IInv, TypeOK, Listed, Numbered
<1>7. Attended'
  BY <1>1 DEF IInv, TypeOK, Attended, Attends, Listed
<1> QED
  BY <1>1, <1>2, <1>3, <1>4, <1>5, <1>6, <1>7 DEF IInv

LEMMA RegisterReplicaIInv ==
    ASSUME IInv, NEW c \in Clients, RegisterReplica(c)
    PROVE  IInv'
<1> USE ParametersAssumption DEF Sheets, RegisterReplica, Goes, Finds, sheetVars
<1>1. TypeOK'
  BY DEF IInv, TypeOK, Labels
<1>2. Numbered'
  BY <1>1 DEF IInv, TypeOK, Numbered
<1>3. Protected'
  BY <1>1 DEF IInv, TypeOK, Protected, Numbered
<1>4. PasswordKept'
  BY <1>1 DEF IInv, TypeOK, PasswordKept, Protected, Numbered
<1>5. Together'
  BY <1>1 DEF IInv, TypeOK, Together
<1>6. Listed'
  BY <1>1 DEF IInv, TypeOK, Listed, Numbered
<1>7. Attended'
  BY <1>1 DEF IInv, TypeOK, Attended, Attends, Listed
<1> QED
  BY <1>1, <1>2, <1>3, <1>4, <1>5, <1>6, <1>7 DEF IInv

LEMMA DisconnectIInv ==
    ASSUME IInv, NEW c \in Clients, Disconnect(c)
    PROVE  IInv'
<1> USE ParametersAssumption DEF Sheets, Disconnect, LastOut, Goes, Finds, sheetVars
<1>1. TypeOK'
  <2>1. CASE pc[c] = "in" /\ c \notin isReplica
    <3>1. at[c] \in Sheets /\ members[at[c]] \ {c} \in SUBSET Clients
      BY <2>1 DEF IInv, TypeOK
    <3>2. members' \in [Sheets -> SUBSET Clients]
      BY <2>1, <3>1 DEF IInv, TypeOK
    <3>3. pc' \in [Clients -> Labels]
      BY <2>1 DEF IInv, TypeOK, Labels
    <3> QED
      BY <2>1, <3>2, <3>3 DEF IInv, TypeOK
  <2>2. CASE pc[c] = "out" \/ (pc[c] = "in" /\ c \in isReplica)
    BY <2>2 DEF IInv, TypeOK, Labels
  <2> QED
    BY <2>1, <2>2
<1>2. Numbered'
  BY <1>1 DEF IInv, TypeOK, Numbered
<1>3. Protected'
  BY <1>1 DEF IInv, TypeOK, Protected, Numbered
<1>4. PasswordKept'
  BY <1>1 DEF IInv, TypeOK, PasswordKept, Protected, Numbered
<1>5. Together'
  BY <1>1 DEF IInv, TypeOK, Together
<1>6. Listed'
  BY <1>1 DEF IInv, TypeOK, Listed, Numbered
<1>7. Attended'
  BY <1>1 DEF IInv, TypeOK, Attended, Attends, Listed
<1> QED
  BY <1>1, <1>2, <1>3, <1>4, <1>5, <1>6, <1>7 DEF IInv

LEMMA DeleteSheetIInv ==
    ASSUME IInv, NEW c \in Clients, DeleteSheet(c)
    PROVE  IInv'
<1> USE ParametersAssumption DEF Sheets, DeleteSheet, Goes, Finds, sheetVars
<1>1. TypeOK'
  BY DEF IInv, TypeOK, Labels
<1>2. Numbered'
  BY <1>1 DEF IInv, TypeOK, Numbered
<1>3. Protected'
  BY <1>1 DEF IInv, TypeOK, Protected, Numbered
<1>4. PasswordKept'
  BY <1>1 DEF IInv, TypeOK, PasswordKept, Protected, Numbered
<1>5. Together'
  BY <1>1 DEF IInv, TypeOK, Together
<1>6. Listed'
  BY <1>1 DEF IInv, TypeOK, Listed, Numbered
<1>7. Attended'
  BY <1>1 DEF IInv, TypeOK, Attended, Attends, Listed
<1> QED
  BY <1>1, <1>2, <1>3, <1>4, <1>5, <1>6, <1>7 DEF IInv

LEMMA ConnectIInv ==
    ASSUME IInv, NEW c \in Clients, Connect(c)
    PROVE  IInv'
<1> USE ParametersAssumption DEF Sheets, Connect, Goes, Finds, sheetVars
<1>1. TypeOK'
  BY DEF IInv, TypeOK, Labels
<1>2. Numbered'
  BY <1>1 DEF IInv, TypeOK, Numbered
<1>3. Protected'
  BY <1>1 DEF IInv, TypeOK, Protected, Numbered
<1>4. PasswordKept'
  BY <1>1 DEF IInv, TypeOK, PasswordKept, Protected, Numbered
<1>5. Together'
  BY <1>1 DEF IInv, TypeOK, Together
<1>6. Listed'
  BY <1>1 DEF IInv, TypeOK, Listed, Numbered
<1>7. Attended'
  BY <1>1 DEF IInv, TypeOK, Attended, Attends, Listed
<1> QED
  BY <1>1, <1>2, <1>3, <1>4, <1>5, <1>6, <1>7 DEF IInv

LEMMA ReplicaGetSheetIInv ==
    ASSUME IInv, ReplicaGetSheet
    PROVE  IInv'
<1> USE ParametersAssumption DEF Sheets, ReplicaGetSheet, Goes, Finds, sheetVars
<1>1. TypeOK'
  BY DEF IInv, TypeOK, Labels
<1>2. Numbered'
  BY <1>1 DEF IInv, TypeOK, Numbered
<1>3. Protected'
  BY <1>1 DEF IInv, TypeOK, Protected, Numbered
<1>4. PasswordKept'
  BY <1>1 DEF IInv, TypeOK, PasswordKept, Protected, Numbered
<1>5. Together'
  BY <1>1 DEF IInv, TypeOK, Together
<1>6. Listed'
  BY <1>1 DEF IInv, TypeOK, Listed, Numbered
<1>7. Attended'
  BY <1>1 DEF IInv, TypeOK, Attended, Attends, Listed
<1> QED
  BY <1>1, <1>2, <1>3, <1>4, <1>5, <1>6, <1>7 DEF IInv

LEMMA AddSheetIInv ==
    ASSUME IInv, AddSheet
    PROVE  IInv'
<1> USE ParametersAssumption DEF Sheets, AddSheet, Create, Goes, Finds, sheetVars
<1>1. TypeOK'
  <2>1. /\ created' \in 0 .. MaxSheets /\ table' \in Sheets /\ created + 1 \in Sheets
        /\ hash' \in [Sheets -> Passwords \cup {None}]
    BY CreateFacts DEF IInv
  <2> QED
    BY <2>1 DEF IInv, TypeOK
<1>2. Numbered'
  BY <1>1 DEF IInv, TypeOK, Numbered
<1>3. Protected'
  BY <1>1 DEF IInv, TypeOK, Protected, Numbered
<1>4. PasswordKept'
  BY <1>1 DEF IInv, TypeOK, PasswordKept, Protected, Numbered
<1>5. Together'
  BY <1>1 DEF IInv, TypeOK, Together
<1>6. Listed'
  BY <1>1 DEF IInv, TypeOK, Listed, Numbered
<1>7. Attended'
  BY <1>1 DEF IInv, TypeOK, Attended, Attends, Listed
<1> QED
  BY <1>1, <1>2, <1>3, <1>4, <1>5, <1>6, <1>7 DEF IInv
THEOREM Invariance == Spec => []IInv
<1>1. IInv /\ [Next]_vars => IInv'
  <2> SUFFICES ASSUME IInv, [Next]_vars
               PROVE  IInv'
    OBVIOUS
  <2>1. CASE UNCHANGED vars
    BY <2>1 DEF vars, sheetVars, IInv, TypeOK, Numbered, Protected, PasswordKept, Together,
                Listed, Attended, Attends
  <2>2. CASE Next
    BY <2>2, OpenIInv, LoadOrStoreIInv, ValidatePasswordIInv, SetPasswordIInv,
       AddCollaboratorIInv, RegisterReplicaIInv, DisconnectIInv, DeleteSheetIInv,
       ConnectIInv, ReplicaGetSheetIInv, AddSheetIInv
    DEF Next
  <2> QED
    BY <2>1, <2>2
<1> QED
  BY InitIInv, <1>1, PTL DEF Spec

\* Every variable keeps its type, and whoever has found a sheet points to one.
THEOREM TypeCorrect == Spec => []TypeOK
<1>1. IInv => TypeOK
  BY DEF IInv
<1> QED
  BY Invariance, <1>1, PTL

\* However many clients open a sheet first at the same time, all that are let
\* in share the one in the table, until it is deleted or replaced.
THEOREM OneSheet == Spec => []OneSheetUntilReplaced
<1>1. IInv => OneSheetUntilReplaced
  <2> SUFFICES ASSUME IInv, ~replaced,
                      NEW c \in Clients, pc[c] \in {"admitted", "in"}
               PROVE  at[c] = table
    BY DEF OneSheetUntilReplaced
  <2>1. at[c] \in Sheets /\ at[c] \in {None, table}
    BY DEF IInv, TypeOK, Together
  <2> QED
    BY <2>1, ParametersAssumption
<1> QED
  BY Invariance, <1>1, PTL

\* Nobody is in a sheet that a client created without knowing its password.
THEOREM PasswordCorrect == Spec => []PasswordKept
<1>1. IInv => PasswordKept
  BY DEF IInv
<1> QED
  BY Invariance, <1>1, PTL

\* When all clients have left and none was a replica, the sheet they had has
\* left the table: the last one out always deletes it.
THEOREM SheetsDeleted == Spec => []NothingLeftBehind
<1>1. IInv => NothingLeftBehind
  <2> SUFFICES ASSUME IInv, \A c \in Clients : pc[c] \in {"out", "gone"}, isReplica = {},
                      table # None, table \notin fromLeader
               PROVE  FALSE
    BY DEF NothingLeftBehind
  <2>1. PICK c \in Clients : Attends(c)
    BY DEF IInv, Attended
  <2> QED
    BY <2>1 DEF Attends
<1> QED
  BY Invariance, <1>1, PTL
=============================================================================
