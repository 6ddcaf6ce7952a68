------------------------------- MODULE Catalog -------------------------------
(***************************************************************************)
(* The name space of a session (catalog.rs): file tables, in-memory tables *)
(* and views, and the rules that keep one name to one owner.  Identifiers  *)
(* match ASCII-case-insensitively; paths written as SQL string literals    *)
(* match only as they are spelled.                                         *)
(*                                                                         *)
(* A table's contents are one object of Objects: a statement that rewrites *)
(* the contents gives the table a fresh one.  The order of the views shows *)
(* in SHOW TABLES only, so they are a set.  A statement that is rejected   *)
(* changes nothing and is not an action.                                   *)
(***************************************************************************)
EXTENDS Integers, Sequences

CONSTANTS Names,         \* the spellings of identifiers and paths
          Fold,          \* Fold[n]: n in lower case (eq_ascii_ci)
          Objects        \* the contents of tables, the bodies of views

ASSUME CatalogAssumption == Fold \in [Names -> Names]

VARIABLES tables,        \* Catalog::tables, by table index
          mem,           \* Catalog::mem, slots that may be free
          views          \* Catalog::views

vars == <<tables, mem, views>>

Free == <<>>             \* a slot of mem that holds no table

FileTable == [name : Names, path : BOOLEAN, id : Objects]
Named == [name : Names, id : Objects]

Init == tables = <<>> /\ mem = <<>> /\ views = {}
----------------------------------------------------------------------------
\* Iterator::position: the least index in S, 0 for None.
First(S) == IF S = {} THEN 0 ELSE CHOOSE i \in S : \A j \in S : i <= j

Exactly(n) == {i \in DOMAIN tables : tables[i].name = n}

Alike(n, ciPaths) ==
    {i \in DOMAIN tables : /\ ciPaths \/ ~tables[i].path
                           /\ Fold[tables[i].name] = Fold[n]}

Lookup_FoldsPaths(n, ciPaths) ==
    IF Exactly(n) # {} THEN First(Exactly(n)) ELSE First(Alike(n, TRUE))

\* An exact spelling wins; paths match in another case only if ciPaths.
Lookup(n, ciPaths) ==
    IF Exactly(n) # {} THEN First(Exactly(n)) ELSE First(Alike(n, ciPaths))

IndexOf(n) == Lookup(n, TRUE)
PathIndexOf(n) == Lookup(n, FALSE)

MemIndexOf(n) ==
    First({i \in DOMAIN mem : mem[i] # Free /\ Fold[mem[i].name] = Fold[n]})

ViewsNamed(n) == {v \in views : Fold[v.name] = Fold[n]}

NameTakenByOther_FilesOnly(n) == IndexOf(n) # 0

NameTakenByOther(n) == IndexOf(n) # 0 \/ ViewsNamed(n) # {}

\* What FROM n reads: a file table, else an in-memory one, else a view.
Resolved(n) ==
    IF IndexOf(n) # 0 THEN {tables[IndexOf(n)].id}
    ELSE IF MemIndexOf(n) # 0 THEN {mem[MemIndexOf(n)].id}
    ELSE {v.id : v \in ViewsNamed(n)}

\* What FROM 'n' reads.
PathResolved(n) ==
    IF PathIndexOf(n) # 0 THEN {tables[PathIndexOf(n)].id} ELSE {}

Live == {tables[i].id : i \in DOMAIN tables} \cup {v.id : v \in views}
           \cup {mem[i].id : i \in {j \in DOMAIN mem : mem[j] # Free}}
Fresh == Objects \ Live
----------------------------------------------------------------------------
Placed(seq, i, x) == IF i = 0 THEN Append(seq, x) ELSE [seq EXCEPT ![i] = x]

PutTable_Unchecked(n, slot, path) ==
    \E o \in Fresh :
        /\ tables' = Placed(tables, slot, [name |-> n, path |-> path, id |-> o])
        /\ UNCHANGED <<mem, views>>

PutTable_Reindexes(n, slot, path) ==
    /\ MemIndexOf(n) = 0 /\ ViewsNamed(n) = {}
    /\ \E o \in Fresh :
        LET kept == SelectSeq(tables, LAMBDA t : slot = 0 \/ t # tables[slot])
        IN  tables' = Append(kept, [name |-> n, path |-> path, id |-> o])
    /\ UNCHANGED <<mem, views>>

\* A file table never shadows an in-memory table or a view.
PutTable(n, slot, path) ==
    /\ MemIndexOf(n) = 0 /\ ViewsNamed(n) = {}
    /\ \E o \in Fresh :
        tables' = Placed(tables, slot, [name |-> n, path |-> path, id |-> o])
    /\ UNCHANGED <<mem, views>>

\* register, register_multi: n is an identifier.
Register(n) == PutTable(n, Lookup(n, FALSE), FALSE)

\* register_path: only an exact namesake is replaced.
RegisterPath(n) == PutTable(n, First(Exactly(n)), TRUE)

MemCreate_FirstSlot(n, orReplace) ==
    /\ ~NameTakenByOther(n)
    /\ MemIndexOf(n) # 0 => orReplace
    /\ \E o \in Fresh :
        mem' = Placed(mem, IF mem = <<>> THEN 0 ELSE 1, [name |-> n, id |-> o])
    /\ UNCHANGED <<tables, views>>

\* CREATE [OR REPLACE] TABLE: in the slot of the table it replaces, else in
\* the first free one, else in a new one.
MemCreate(n, orReplace) ==
    /\ ~NameTakenByOther(n)
    /\ MemIndexOf(n) # 0 => orReplace
    /\ LET slot == IF MemIndexOf(n) # 0 THEN MemIndexOf(n)
                   ELSE First({i \in DOMAIN mem : mem[i] = Free})
       IN  \E o \in Fresh : mem' = Placed(mem, slot, [name |-> n, id |-> o])
    /\ UNCHANGED <<tables, views>>

\* DROP TABLE, of a writable table only.
MemDrop(n) ==
    /\ MemIndexOf(n) # 0
    /\ mem' = [mem EXCEPT ![MemIndexOf(n)] = Free]
    /\ UNCHANGED <<tables, views>>

\* INSERT, UPDATE, DELETE and ALTER TABLE of a column go to the table that
\* mem_index_writable finds.
MemWrite(n) ==
    /\ MemIndexOf(n) # 0
    /\ \E o \in Fresh : mem' = [mem EXCEPT ![MemIndexOf(n)].id = o]
    /\ UNCHANGED <<tables, views>>

\* ALTER TABLE n RENAME TO new; the case of its own name may change.
MemRename(n, new) ==
    /\ MemIndexOf(n) # 0
    /\ MemIndexOf(new) \in {0, MemIndexOf(n)}
    /\ ~NameTakenByOther(new)
    /\ mem' = [mem EXCEPT ![MemIndexOf(n)].name = new]
    /\ UNCHANGED <<tables, views>>

\* CREATE [OR REPLACE] VIEW.
ViewCreate(n, orReplace) ==
    /\ IndexOf(n) = 0 /\ MemIndexOf(n) = 0
    /\ ViewsNamed(n) # {} => orReplace
    /\ \E o \in Fresh : views' = (views \ ViewsNamed(n)) \cup {[name |-> n, id |-> o]}
    /\ UNCHANGED <<tables, mem>>

ViewDrop(n) == /\ ViewsNamed(n) # {}
               /\ views' = views \ ViewsNamed(n)
               /\ UNCHANGED <<tables, mem>>

\* Every statement and call but a rename names one table.
Statement(n) == \/ Register(n)
                \/ RegisterPath(n)
                \/ \E r \in BOOLEAN : MemCreate(n, r)
                \/ MemDrop(n)
                \/ MemWrite(n)
                \/ \E r \in BOOLEAN : ViewCreate(n, r)
                \/ ViewDrop(n)

Next == \/ \E n \in Names : Statement(n)
        \/ \E n, new \in Names : MemRename(n, new)

Spec == Init /\ [][Next]_vars
----------------------------------------------------------------------------
TypeOK == /\ tables \in Seq(FileTable)
          /\ mem \in Seq(Named \cup {Free})
          /\ views \subseteq Named

FileNamesUnique ==
    \A i, j \in DOMAIN tables : tables[i].name = tables[j].name => i = j

MemNamesUnique ==
    \A i, j \in DOMAIN mem :
        /\ mem[i] # Free /\ mem[j] # Free
        /\ Fold[mem[i].name] = Fold[mem[j].name]
        => i = j

ViewNamesUnique == \A v, w \in views : Fold[v.name] = Fold[w.name] => v = w

KindsDisjoint ==
    /\ \A i \in DOMAIN tables, j \in DOMAIN mem :
          mem[j] # Free => Fold[tables[i].name] # Fold[mem[j].name]
    /\ \A i \in DOMAIN tables, v \in views : Fold[tables[i].name] # Fold[v.name]
    /\ \A j \in DOMAIN mem, v \in views :
          mem[j] # Free => Fold[mem[j].name] # Fold[v.name]

(* Whatever sequence of registrations, creations, renames and drops ran,    *)
(* a name has one owner: no two tables or views share one in any case, but  *)
(* for files spelled differently.  Each operation checks some of the three  *)
(* lists and has to check enough of them (name_taken_by_other, put_table,   *)
(* mem_rename_table, view_create).                                          *)
OneOwnerPerName ==
    FileNamesUnique /\ MemNamesUnique /\ ViewNamesUnique /\ KindsDisjoint

(* A SELECT reads the table an INSERT of the same name writes: the binder   *)
(* looks at files first and mem_index_writable at in-memory tables first,   *)
(* the shadowing that put_table's comment says used to happen.              *)
ReadsWhatIsWritten ==
    \A n \in Names : MemIndexOf(n) # 0 => Resolved(n) = {mem[MemIndexOf(n)].id}

(* A statement on one name leaves every name that is not its namesake with  *)
(* the contents it had, though slots are reused and lookups fold case.      *)
OthersUndisturbed ==
    [][\A n \in Names : Statement(n) =>
          \A o \in Names : Fold[o] # Fold[n] =>
             /\ Resolved(o)' = Resolved(o)
             /\ PathResolved(o)' = PathResolved(o)]_vars

(* A path reads the same file until that very spelling is registered again: *)
(* Data.parquet and data.parquet are two files (register_path).  A fresh    *)
(* engine has no tables.                                                    *)
PathsKeepTheirFile ==
    [][\A p \in Names :
          (\E i \in Exactly(p) : tables[i].path) /\ PathResolved(p)' # PathResolved(p)
             => tables' = <<>> \/ Register(p) \/ RegisterPath(p)]_vars

(* A table index, which planned queries, I/O requests and the JS host keep, *)
(* stays with its name until a fresh engine takes the session's place.      *)
IndexesStable ==
    [][tables' = <<>> \/ \A i \in DOMAIN tables :
          i \in DOMAIN tables' /\ Fold[tables'[i].name] = Fold[tables[i].name]]_vars
=============================================================================
