---------------------------- MODULE SheetManager ----------------------------
(***************************************************************************)
(* The life of the sheets of one ID: sheet/manager.go and sheet/sheet.go   *)
(* under ws/handler.go's handleOpen and onDisconnect, and under the replica*)
(* client of replica/client.go, which adds sheets it hears of.             *)
(*                                                                         *)
(* The table of sheets is a sync.Map and sheets are pointers: a client that*)
(* has found a sheet keeps it whatever becomes of the table.  Between two  *)
(* uses of the table or of a sheet there is time, bcrypt's above all, in   *)
(* which others run; each such use is a step.                              *)
(***************************************************************************)
EXTENDS Integers, FiniteSets

CONSTANTS
    Clients,
    Passwords,
    Following,  \* whether this server is the replica of a leader with that sheet
    MaxSheets,  \* bound: how many sheets are ever created under the ID
    MaxOpens,   \* bound: how many opens there are
    None

Sheets == 1 .. MaxSheets

ASSUME ParametersAssumption ==
    /\ MaxSheets \in Nat /\ MaxOpens \in Nat /\ Following \in BOOLEAN
    /\ None \notin Passwords /\ None \notin Sheets

VARIABLES
    table,     \* the sheet in the manager's map, or None
    created,   \* how many sheets there are; the next is created + 1
    hash,      \* each sheet's PasswordHash, None when it is nil
    members,   \* each sheet's Collaborators
    pc,        \* where each connection's goroutine is
    at,        \* the sheet it has found (client.Sheet once it is in)
    password,  \* the password it opens with
    opens,
    isReplica, \* the connections that registered as replicas
    adding,    \* the replica client has found no sheet and is about to add one
    fromLeader, \* history: the sheets that the replica client has added
    replaced   \* history: whether a sheet has left the table

sheetVars == <<table, created, hash, fromLeader, replaced>>
vars == <<sheetVars, members, pc, at, password, opens, isReplica, adding>>

-----------------------------------------------------------------------------
Init ==
    /\ table = None
    /\ created = 0
    /\ hash = [s \in Sheets |-> None]
    /\ members = [s \in Sheets |-> {}]
    /\ pc = [c \in Clients |-> "out"]
    /\ at = [c \in Clients |-> None]
    /\ password = [c \in Clients |-> None]
    /\ opens = 0
    /\ isReplica = {}
    /\ adding = FALSE
    /\ fromLeader = {}
    /\ replaced = FALSE

Goes(c, label) == pc' = [pc EXCEPT ![c] = label]

Finds(c, s) == at' = [at EXCEPT ![c] = s]

\* A new sheet with PasswordHash h takes the ID's place in the table.
Create(h) ==
    /\ created < MaxSheets
    /\ created' = created + 1
    /\ hash' = [hash EXCEPT ![created + 1] = h]
    /\ table' = created + 1

\* handleOpen calls GetOrCreateSheet: the first Load.
Open(c, p) ==
    /\ pc[c] = "out" /\ opens < MaxOpens
    /\ opens' = opens + 1
    /\ password' = [password EXCEPT ![c] = p]
    /\ Finds(c, table)
    /\ Goes(c, IF table = None THEN "creating" ELSE "found")
    /\ UNCHANGED <<sheetVars, members, isReplica, adding>>

\* Mutants of LoadOrStore: a plain Store; the sheet that is there already is
\* not taken; it is taken without asking for its password.
StoreNew(c) ==
    /\ pc[c] = "creating"
    /\ Create(password[c])
    /\ Finds(c, created + 1)
    /\ Goes(c, "admitted")
    /\ UNCHANGED <<fromLeader, replaced, members, password, opens, isReplica, adding>>

LoadedIgnored(c) ==
    /\ pc[c] = "creating"
    /\ \/ /\ table = None
          /\ Create(password[c])
          /\ Finds(c, created + 1)
          /\ Goes(c, "admitted")
       \/ /\ table # None
          /\ Goes(c, "found")
          /\ UNCHANGED <<table, created, hash, at>>
    /\ UNCHANGED <<fromLeader, replaced, members, password, opens, isReplica, adding>>

LoadedAdmitted(c) ==
    /\ pc[c] = "creating"
    /\ Goes(c, "admitted")
    /\ \/ /\ table = None
          /\ Create(password[c])
          /\ Finds(c, created + 1)
       \/ /\ table # None
          /\ Finds(c, table)
          /\ UNCHANGED <<table, created, hash>>
    /\ UNCHANGED <<fromLeader, replaced, members, password, opens, isReplica, adding>>

\* The new sheet is hashed and ready: LoadOrStore.
LoadOrStore(c) ==
    /\ pc[c] = "creating"
    /\ \/ /\ table = None
          /\ Create(password[c])
          /\ Finds(c, created + 1)
          /\ Goes(c, "admitted")
       \/ /\ table # None
          /\ Finds(c, table)
          /\ Goes(c, "found")
          /\ UNCHANGED <<table, created, hash>>
    /\ UNCHANGED <<fromLeader, replaced, members, password, opens, isReplica, adding>>

\* ValidatePassword; on a wrong password the connection is closed.
ValidatePassword(c) ==
    /\ pc[c] = "found"
    /\ Goes(c, IF hash[at[c]] = None THEN "unset"
               ELSE IF hash[at[c]] = password[c] THEN "admitted" ELSE "gone")
    /\ UNCHANGED <<sheetVars, members, at, password, opens, isReplica, adding>>

\* ... on a sheet that had no hash: the opener's password becomes the sheet's.
SetPassword(c) ==
    /\ pc[c] = "unset"
    /\ hash' = [hash EXCEPT ![at[c]] = password[c]]
    /\ Goes(c, "admitted")
    /\ UNCHANGED <<table, created, fromLeader, replaced, members, at, password,
                   opens, isReplica, adding>>

AddCollaborator(c) ==
    /\ pc[c] = "admitted"
    /\ members' = [members EXCEPT ![at[c]] = @ \cup {c}]
    /\ Goes(c, "in")
    /\ UNCHANGED <<sheetVars, at, password, opens, isReplica, adding>>

\* handleRegisterReplica, before or after the connection opened a sheet.
RegisterReplica(c) ==
    /\ pc[c] \in {"out", "in"}
    /\ isReplica' = isReplica \cup {c}
    /\ UNCHANGED <<sheetVars, members, pc, at, password, opens, adding>>

\* Mutant of LastOut: the count is taken before c is removed.
EmptyBefore(c, s) == members[s] = {}

\* Whether nobody is left in sheet s once c is removed from it.
LastOut(c, s) == members[s] \ {c} = {}

\* onDisconnect: a replica's sheet is left as it is.
Disconnect(c) ==
    \/ /\ pc[c] = "in" /\ c \notin isReplica
       /\ members' = [members EXCEPT ![at[c]] = @ \ {c}]
       /\ Goes(c, IF LastOut(c, at[c]) THEN "deleting" ELSE "gone")
       /\ UNCHANGED <<sheetVars, at, password, opens, isReplica, adding>>
    \/ /\ pc[c] = "out" \/ (pc[c] = "in" /\ c \in isReplica)
       /\ Goes(c, "gone")
       /\ UNCHANGED <<sheetVars, members, at, password, opens, isReplica, adding>>

\* DeleteSheet, by ID.
DeleteSheet(c) ==
    /\ pc[c] = "deleting"
    /\ table' = None
    /\ replaced' = TRUE
    /\ Goes(c, "gone")
    /\ UNCHANGED <<created, hash, fromLeader, members, at, password, opens, isReplica, adding>>

\* A client comes back on a new connection; one that registered as a replica
\* does not, so that isReplica also says whether any ever did.
Connect(c) ==
    /\ pc[c] = "gone" /\ c \notin isReplica
    /\ Goes(c, "out")
    /\ Finds(c, None)
    /\ UNCHANGED <<sheetVars, members, password, opens, isReplica, adding>>

\* applyFullState and applySet: GetSheet finds nothing ...
ReplicaGetSheet ==
    /\ Following /\ ~adding /\ table = None
    /\ created < MaxSheets
    /\ adding' = TRUE
    /\ UNCHANGED <<sheetVars, members, pc, at, password, opens, isReplica>>

\* ... and AddSheet stores a sheet without password, whatever is there by now.
AddSheet ==
    /\ adding
    /\ Create(None)
    /\ fromLeader' = fromLeader \cup {created + 1}
    /\ replaced' = (replaced \/ table # None)
    /\ adding' = FALSE
    /\ UNCHANGED <<members, pc, at, password, opens, isReplica>>

Next ==
    \/ \E c \in Clients :
          \/ \E p \in Passwords : Open(c, p)
          \/ LoadOrStore(c) \/ ValidatePassword(c) \/ SetPassword(c) \/ AddCollaborator(c)
          \/ RegisterReplica(c) \/ Disconnect(c) \/ DeleteSheet(c) \/ Connect(c)
    \/ ReplicaGetSheet \/ AddSheet

Spec == Init /\ [][Next]_vars

-----------------------------------------------------------------------------
Labels == {"out", "creating", "found", "unset", "admitted", "in", "deleting", "gone"}

\* Type correctness of every variable; whoever has found a sheet points to it.
TypeOK ==
    /\ table \in Sheets \cup {None}
    /\ created \in 0 .. MaxSheets
    /\ hash \in [Sheets -> Passwords \cup {None}]
    /\ members \in [Sheets -> SUBSET Clients]
    /\ pc \in [Clients -> Labels]
    /\ at \in [Clients -> Sheets \cup {None}]
    /\ password \in [Clients -> Passwords \cup {None}]
    /\ opens \in 0 .. MaxOpens
    /\ isReplica \subseteq Clients
    /\ adding \in BOOLEAN /\ replaced \in BOOLEAN
    /\ fromLeader \subseteq Sheets
    /\ \A c \in Clients :
          /\ pc[c] \in {"found", "unset", "admitted", "in", "deleting"} => at[c] \in Sheets
          /\ pc[c] \notin {"out", "gone"} => password[c] \in Passwords

\* As long as no sheet has left the table, everybody who was let in shares
\* the sheet in the table, however many opened it first at the same time
\* ("prevents race conditions", manager.go:26).
OneSheetUntilReplaced ==
    ~replaced => \A c \in Clients : pc[c] \in {"admitted", "in"} => at[c] = table

\* Whoever is let into a sheet that a client created knows its password, also
\* when several create it at the same time with different passwords.
PasswordKept ==
    \A c \in Clients :
        pc[c] \in {"admitted", "in"} /\ at[c] \notin fromLeader => password[c] = hash[at[c]]

\* When all clients have left, so has the sheet: however opens and disconnects
\* interleave, the last one out finds nobody and deletes it ("Sheet
\* auto-deletes", README.md:549).  Not so after a collaborator registered as
\* a replica, nor for a sheet that the leader sent.
NothingLeftBehind ==
    (\A c \in Clients : pc[c] \in {"out", "gone"}) /\ isReplica = {}
        => table = None \/ table \in fromLeader

\* A sheet is deleted when its last collaborator disconnects (README.md:549),
\* not while it has one: who is in a sheet is in the sheet of the table.
CollaboratorsKeepSheet == \A c \in Clients : pc[c] = "in" => at[c] = table
=============================================================================
