------------------------------ MODULE Registry ------------------------------
(***************************************************************************)
(* The JS host's registrations (ahirudb.js) over the engine's catalog.     *)
(* The host keeps one record per table index and queues what is registered *)
(* while a run holds the engine.  A wasm trap loses the engine, catalog    *)
(* and all; the next run starts a fresh one and declares every record      *)
(* again, unless SQL had created tables or views that would be lost.       *)
(*                                                                         *)
(* The session lock lets one run in at a time.  A run replaces a trapped   *)
(* engine, declares what is queued, runs one statement and ends.           *)
(***************************************************************************)
EXTENDS Catalog, FiniteSets, TLC

CONSTANTS MaxPending     \* bound: registrations queued at a time

ASSUME RegistryAssumption == MaxPending \in Nat

VARIABLES byIndex,       \* #byIndex: the record of each table index
          pending,       \* #pending: records to declare when a run starts
          phase,         \* where the run is, "idle" when there is none
          trapped,       \* #trapped
          dead,          \* #dead: the database refuses every call
          ddlObjects,    \* #ddlObjects: the count when the last run ended
          newest,        \* per folded name, the last register() not rejected
          created,       \* names of the tables and views that finished
                         \* statements left behind
          before         \* what each name read when the engine was replaced

catalog == vars
registry == <<catalog, byIndex, pending, phase, trapped, dead, ddlObjects, newest,
              created, before>>

Record == [name : Names, path : BOOLEAN, id : Objects]
Nothing == [n \in {} |-> {}]

RegistryInit ==
        /\ Init
        /\ byIndex = Nothing /\ pending = <<>>
        /\ phase = "idle" /\ trapped = FALSE /\ dead = FALSE /\ ddlObjects = 0
        /\ newest = {} /\ created = {} /\ before = Nothing
----------------------------------------------------------------------------
Known == {byIndex[i] : i \in DOMAIN byIndex}
Queued == {pending[i] : i \in DOMAIN pending}
Unused == Objects \ (Live \cup {r.id : r \in Known \cup Queued})

DdlNames == {Fold[v.name] : v \in views}
              \cup {Fold[mem[i].name] : i \in {j \in DOMAIN mem : mem[j] # Free}}

\* What FROM n and FROM 'n' read, files only.
FileRead(n) == [ident |-> IF IndexOf(n) # 0 THEN Resolved(n) ELSE {},
                path |-> PathResolved(n)]

Namesakes(n) == {i \in DOMAIN pending : Fold[pending[i].name] = Fold[n]}
Last(n) == CHOOSE i \in Namesakes(n) : \A j \in Namesakes(n) : j <= i

\* What names are to read once the queue is declared: the file they read now,
\* or the one registered last since.  A name is left out if a record has it in
\* another spelling: which of the two a declaration replaces depends on the order.
Expected ==
    [n \in {n \in Names : \A r \in Known \cup Queued : Fold[r.name] = Fold[n] => r.name = n} |->
        IF Namesakes(n) = {} THEN FileRead(n)
        ELSE [ident |-> {pending[Last(n)].id}, path |-> {pending[Last(n)].id}]]

Newer(r) == {q \in newest : Fold[q.name] # Fold[r.name]} \cup {r}

\* #byIndex.set
RecordAt(i, r) ==
    [k \in {i} \cup DOMAIN byIndex |-> IF k = i THEN r ELSE byIndex[k]]

Declare_KeepsRecord(r) ==
    /\ IF r.path THEN RegisterPath(r.name) ELSE Register(r.name)
    /\ \E i \in DOMAIN tables' :
          tables'[i].id = r.id /\ byIndex' = byIndex @@ (i :> r)

\* The engine answers with the table's index; a re-registration reuses its
\* predecessor's, whose record it drops.
Declare(r) ==
    /\ IF r.path THEN RegisterPath(r.name) ELSE Register(r.name)
    /\ \E i \in DOMAIN tables' :
          tables'[i].id = r.id /\ byIndex' = RecordAt(i, r)

\* The engine rejects a name that SQL created.
Rejected(r) == MemIndexOf(r.name) # 0 \/ ViewsNamed(r.name) # {}
----------------------------------------------------------------------------
\* register(): declared at once while idle, queued while a run is active or
\* the engine is lost.  Not while the run holds the JS thread ("flushing").
DbRegister(n) ==
    \E o \in Unused :
        LET r == [name |-> n, path |-> FALSE, id |-> o]
        IN  /\ ~dead /\ phase # "flushing"
            /\ IF phase = "idle" /\ ~trapped
               THEN Declare(r) /\ UNCHANGED pending
               ELSE /\ Len(pending) < MaxPending
                    /\ pending' = Append(pending, r)
                    /\ UNCHANGED <<catalog, byIndex>>
            /\ newest' = Newer(r)
            /\ UNCHANGED <<phase, trapped, dead, ddlObjects, created, before>>

\* A run takes the lock; one that finds the engine lost awaits a fresh one.
Begin ==
    /\ phase = "idle" /\ ~dead
    /\ phase' = IF trapped THEN "replacing" ELSE "flushing"
    /\ UNCHANGED <<catalog, byIndex, pending, trapped, dead, ddlObjects, newest, created,
                   before>>

ByTableIndex == [k \in 1 .. Len(tables) |-> byIndex[k]]

ReplaceInstance_PendingFirst ==
    /\ phase = "replacing"
    /\ tables' = <<>> /\ mem' = <<>> /\ views' = {}
    /\ ddlObjects' = 0 /\ trapped' = FALSE
    /\ byIndex' = Nothing
    /\ pending' = pending \o ByTableIndex
    /\ before' = Expected
    /\ phase' = "flushing"
    /\ UNCHANGED <<dead, newest, created>>

\* Every record, in the order of the table indexes, goes before what was
\* registered since.
ReplaceInstance ==
    /\ phase = "replacing"
    /\ tables' = <<>> /\ mem' = <<>> /\ views' = {}
    /\ ddlObjects' = 0 /\ trapped' = FALSE
    /\ byIndex' = Nothing
    /\ pending' = ByTableIndex \o pending
    /\ before' = Expected
    /\ phase' = "flushing"
    /\ UNCHANGED <<dead, newest, created>>

\* #flushPending: declared, or rejected, which drops the record and ends the
\* run with an error.
FlushOne ==
    /\ phase = "flushing" /\ pending # <<>>
    /\ pending' = Tail(pending)
    /\ IF Rejected(Head(pending))
       THEN /\ phase' = "idle"
            /\ newest' = newest \ {Head(pending)}
            /\ UNCHANGED <<catalog, byIndex>>
       ELSE /\ Declare(Head(pending))
            /\ UNCHANGED <<phase, newest>>
    /\ UNCHANGED <<trapped, dead, ddlObjects, created, before>>

Flushed ==
    /\ phase = "flushing" /\ pending = <<>>
    /\ phase' = "started"
    /\ UNCHANGED <<catalog, byIndex, pending, trapped, dead, ddlObjects, newest, created,
                   before>>

\* #registerSqlPaths: the statement names a path the catalog does not have.
OpenSqlPath(n) ==
    /\ phase = "started" /\ PathIndexOf(n) = 0
    /\ \E o \in Unused : LET r == [name |-> n, path |-> TRUE, id |-> o]
                         IN  Declare(r)
    /\ before' = Nothing
    /\ UNCHANGED <<pending, phase, trapped, dead, ddlObjects, newest, created>>

\* A statement that changes what SQL created: one of the catalog's.
Ddl(n) ==
    /\ phase = "started"
    /\ \/ \E r \in BOOLEAN : MemCreate(n, r) \/ ViewCreate(n, r)
       \/ MemDrop(n) \/ MemWrite(n) \/ ViewDrop(n)
       \/ \E new \in Names : MemRename(n, new)
    /\ Live' \cap {r.id : r \in Queued} = {}
    /\ phase' = "done" /\ before' = Nothing
    /\ UNCHANGED <<byIndex, pending, trapped, dead, ddlObjects, newest, created>>

End_NoCount ==
    /\ phase \in {"started", "done"}
    /\ phase' = "idle"
    /\ created' = DdlNames /\ before' = Nothing
    /\ UNCHANGED <<catalog, byIndex, pending, trapped, dead, ddlObjects, newest>>

\* The run ends and counts what SQL has created so far.
End ==
    /\ phase \in {"started", "done"}
    /\ phase' = "idle"
    /\ ddlObjects' = Cardinality(DdlNames)
    /\ created' = DdlNames /\ before' = Nothing
    /\ UNCHANGED <<catalog, byIndex, pending, trapped, dead, newest>>

\* A wasm call traps, in a run or in register(); a record that was being
\* declared goes with it.
Trap ==
    /\ ~trapped /\ ~dead
    /\ trapped' = TRUE
    /\ dead' = (ddlObjects > 0)
    /\ phase' = "idle" /\ before' = Nothing
    /\ IF phase = "flushing" /\ pending # <<>>
       THEN /\ pending' = Tail(pending)
            /\ newest' = newest \ {Head(pending)}
       ELSE UNCHANGED <<pending, newest>>
    /\ UNCHANGED <<catalog, byIndex, ddlObjects, created>>

RegistryNext ==
        \/ \E n \in Names : DbRegister(n) \/ OpenSqlPath(n) \/ Ddl(n)
        \/ Begin \/ ReplaceInstance \/ FlushOne \/ Flushed \/ End \/ Trap

RegistrySpec == RegistryInit /\ [][RegistryNext]_registry
----------------------------------------------------------------------------
(* The record the host serves a table index from is the registration the    *)
(* engine's catalog holds at that index: bytes never come from another      *)
(* table's source, after any number of re-registrations and replacements    *)
(* (#declare, #replaceInstance, decodeIoRequests' table numbers).           *)
ByIndexAgrees ==
    ~trapped => /\ DOMAIN byIndex = DOMAIN tables
                /\ \A i \in DOMAIN tables : tables[i].id = byIndex[i].id

(* A table or view whose CREATE was reported to the caller is there as long *)
(* as the database accepts calls: a trap either leaves nothing to lose or   *)
(* makes the database dead (#dead, #ddlObjects).                            *)
NoSilentLoss ==
    ~dead => IF trapped THEN created = {}
             ELSE phase = "idle" => created \subseteq DdlNames

(* "Registering 'Trips' later replaces it": when a statement starts, a name *)
(* reads what was registered last under it, though registrations made       *)
(* during a run are declared later (#register, #flushPending).              *)
NewestServes ==
    phase = "started" => \A r \in newest \ Queued : Resolved(r.name) = {r.id}

(* "Swaps a trapped instance for a fresh one ... Every registration is      *)
(* declared again" (#replaceInstance): when the next statement starts, a    *)
(* name reads the file it read before, as an identifier and as a path, or   *)
(* the one registered last since, through path and identifier records,      *)
(* rejections and registrations made meanwhile.  Only for names that no     *)
(* record has in another spelling (Expected).                               *)
ReplacementTransparent ==
    phase = "started" => \A n \in DOMAIN before : FileRead(n) = before[n]
=============================================================================
