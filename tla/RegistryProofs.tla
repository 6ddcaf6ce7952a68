---------------------------- MODULE RegistryProofs ----------------------------
(***************************************************************************)
(* First the name space of a session, for every set of names, every        *)
(* folding of them and every sequence of statements.  Then the host's      *)
(* records over it: they and the engine's catalog stay in step, a trap     *)
(* loses nothing SQL created, and a replaced engine reads as the lost one  *)
(* did, for any sequence of registrations, statements and traps.           *)
(***************************************************************************)
EXTENDS Registry, SequenceTheorems, FiniteSetTheorems, WellFoundedInduction, TLAPS

\* The catalog.
IInv == TypeOK /\ OneOwnerPerName

(* A non-empty set of indices has a least one: position finds an element    *)
(* whenever there is one to find.                                           *)
LEMMA FirstFinds ==
    ASSUME NEW S \in SUBSET Nat, 0 \notin S
    PROVE  /\ S = {} => First(S) = 0
           /\ S # {} => First(S) \in S /\ First(S) # 0
  <1>1. CASE S = {}
    BY <1>1 DEF First
  <1>2. CASE S # {}
    <2>1. PICK i \in S : \A j \in S : ~ (<<j, i>> \in OpToRel(<, Nat))
      BY <1>2, WFMin, NatLessThanWellFounded, Zenon
    <2>2. \A j \in S : ~(j < i)
      BY <2>1 DEF OpToRel
    <2>3. \E k \in S : \A j \in S : k <= j
      BY <2>2
    <2> QED BY <1>2, <2>3 DEF First
  <1> QED BY <1>1, <1>2

(* Appending at slot 0, or replacing a slot that exists, changes that       *)
(* position and no other.                                                   *)
LEMMA PlacedAt ==
    ASSUME NEW T, NEW seq \in Seq(T), NEW i \in {0} \cup DOMAIN seq, NEW x \in T
    PROVE  /\ Placed(seq, i, x) \in Seq(T)
           /\ DOMAIN seq \subseteq DOMAIN Placed(seq, i, x)
           /\ \E k \in DOMAIN Placed(seq, i, x) :
                /\ Placed(seq, i, x)[k] = x
                /\ i # 0 => k = i
                /\ i = 0 => k \notin DOMAIN seq
                /\ \A j \in DOMAIN Placed(seq, i, x) :
                      j # k => j \in DOMAIN seq /\ Placed(seq, i, x)[j] = seq[j]
  <1>1. CASE i = 0
    <2>1. Placed(seq, i, x) = Append(seq, x)
      BY <1>1 DEF Placed
    <2>2. /\ DOMAIN seq = 1 .. Len(seq) /\ Len(seq) \in Nat
          /\ DOMAIN Append(seq, x) = 1 .. Len(seq) + 1
          /\ Append(seq, x) \in Seq(T)
          /\ Append(seq, x)[Len(seq) + 1] = x
          /\ \A j \in DOMAIN seq : Append(seq, x)[j] = seq[j]
      OBVIOUS
    <2>3. \A j \in DOMAIN Append(seq, x) : j # Len(seq) + 1 => j \in DOMAIN seq
      BY <2>2
    <2>4. /\ Len(seq) + 1 \in DOMAIN Append(seq, x)
          /\ Len(seq) + 1 \notin DOMAIN seq
          /\ DOMAIN seq \subseteq DOMAIN Append(seq, x)
      BY <2>2
    <2> QED BY <1>1, <2>1, <2>2, <2>3, <2>4
  <1>2. CASE i # 0
    <2>1. Placed(seq, i, x) = [seq EXCEPT ![i] = x] /\ i \in DOMAIN seq
      BY <1>2 DEF Placed
    <2>2. DOMAIN [seq EXCEPT ![i] = x] = DOMAIN seq /\ [seq EXCEPT ![i] = x] \in Seq(T)
      BY <2>1
    <2> QED BY <1>2, <2>1, <2>2
  <1> QED BY <1>1, <1>2

(* What the four lookups find, and that they miss only what is not there.   *)
LEMMA LookupFinds ==
    ASSUME TypeOK, NEW n \in Names, NEW ciPaths \in BOOLEAN
    PROVE  /\ Lookup(n, ciPaths) \in {0} \cup DOMAIN tables
           /\ Exactly(n) # {} => Lookup(n, ciPaths) \in Exactly(n)
           /\ Lookup(n, ciPaths) # 0 =>
                 Fold[tables[Lookup(n, ciPaths)].name] = Fold[n]
  <1>1. /\ DOMAIN tables \subseteq Nat /\ 0 \notin DOMAIN tables
    BY DEF TypeOK
  <1>2. /\ Exactly(n) \in SUBSET Nat /\ 0 \notin Exactly(n)
        /\ Alike(n, ciPaths) \in SUBSET Nat /\ 0 \notin Alike(n, ciPaths)
    BY <1>1 DEF Exactly, Alike
  <1>3. CASE Exactly(n) # {}
    <2>1. First(Exactly(n)) \in Exactly(n)
      BY <1>2, <1>3, FirstFinds
    <2>2. Lookup(n, ciPaths) = First(Exactly(n))
      BY <1>3 DEF Lookup
    <2> QED BY <2>1, <2>2 DEF Exactly
  <1>4. CASE Exactly(n) = {} /\ Alike(n, ciPaths) # {}
    <2>1. First(Alike(n, ciPaths)) \in Alike(n, ciPaths)
      BY <1>2, <1>4, FirstFinds
    <2>2. Lookup(n, ciPaths) = First(Alike(n, ciPaths))
      BY <1>4 DEF Lookup
    <2> QED BY <1>4, <2>1, <2>2 DEF Alike
  <1>5. CASE Exactly(n) = {} /\ Alike(n, ciPaths) = {}
    <2>1. Lookup(n, ciPaths) = 0
      BY <1>2, <1>5, FirstFinds DEF Lookup
    <2> QED BY <1>5, <2>1
  <1> QED BY <1>3, <1>4, <1>5

LEMMA IndexOfMisses ==
    ASSUME TypeOK, NEW n \in Names, IndexOf(n) = 0
    PROVE  \A i \in DOMAIN tables : Fold[tables[i].name] # Fold[n]
  <1>1. /\ DOMAIN tables \subseteq Nat /\ 0 \notin DOMAIN tables
    BY DEF TypeOK
  <1>2. Alike(n, TRUE) \in SUBSET Nat /\ 0 \notin Alike(n, TRUE)
    BY <1>1 DEF Alike
  <1>3. Exactly(n) = {}
    BY LookupFinds, <1>1 DEF IndexOf, Exactly
  <1>4. Alike(n, TRUE) = {}
    BY <1>2, <1>3, FirstFinds DEF IndexOf, Lookup
  <1> QED BY <1>4 DEF Alike

LEMMA MemIndexOfFinds ==
    ASSUME TypeOK, NEW n \in Names
    PROVE  /\ MemIndexOf(n) = 0 =>
                 \A j \in DOMAIN mem : mem[j] # Free => Fold[mem[j].name] # Fold[n]
           /\ MemIndexOf(n) # 0 => /\ MemIndexOf(n) \in DOMAIN mem
                                   /\ mem[MemIndexOf(n)] # Free
                                   /\ mem[MemIndexOf(n)] \in Named
                                   /\ Fold[mem[MemIndexOf(n)].name] = Fold[n]
  <1> DEFINE S == {i \in DOMAIN mem : mem[i] # Free /\ Fold[mem[i].name] = Fold[n]}
  <1>1. S \in SUBSET Nat /\ 0 \notin S
    BY DEF TypeOK
  <1>2. MemIndexOf(n) = First(S)
    BY DEF MemIndexOf
  <1>3. /\ S = {} => MemIndexOf(n) = 0
        /\ S # {} => MemIndexOf(n) \in S /\ MemIndexOf(n) # 0
    BY <1>1, <1>2, FirstFinds
  <1>4. \A j \in DOMAIN mem : mem[j] # Free => mem[j] \in Named
    BY DEF TypeOK
  <1> QED BY <1>3, <1>4

(* Registering a file: the slot is free of other spellings' files, and the  *)
(* guard keeps the name away from in-memory tables and views.               *)
LEMMA PutTableStep ==
    ASSUME IInv, NEW n \in Names, NEW slot \in {0} \cup DOMAIN tables,
           NEW path \in BOOLEAN, PutTable(n, slot, path),
           Exactly(n) # {} => slot \in Exactly(n)
    PROVE  IInv'
  <1> USE DEF IInv
  <1>1. PICK o \in Objects :
            tables' = Placed(tables, slot, [name |-> n, path |-> path, id |-> o])
    BY DEF PutTable, Fresh
  <1> DEFINE x == [name |-> n, path |-> path, id |-> o]
  <1>2. x \in FileTable /\ x.name = n
    BY DEF FileTable
  <1>3. UNCHANGED <<mem, views>> /\ MemIndexOf(n) = 0 /\ ViewsNamed(n) = {}
    BY DEF PutTable
  <1>4. /\ tables' \in Seq(FileTable)
        /\ \E k \in DOMAIN tables' :
              /\ tables'[k] = x
              /\ slot # 0 => k = slot
              /\ slot = 0 => k \notin DOMAIN tables
              /\ \A j \in DOMAIN tables' :
                    j # k => j \in DOMAIN tables /\ tables'[j] = tables[j]
    BY <1>1, <1>2, PlacedAt DEF TypeOK
  <1>5. PICK k \in DOMAIN tables' :
              /\ tables'[k] = x
              /\ slot # 0 => k = slot
              /\ slot = 0 => k \notin DOMAIN tables
              /\ \A j \in DOMAIN tables' :
                    j # k => j \in DOMAIN tables /\ tables'[j] = tables[j]
    BY <1>4
  <1>6. TypeOK'
    BY <1>3, <1>4 DEF TypeOK
  <1>7. \A j \in DOMAIN tables' : j # k => tables'[j].name # n
    <2> SUFFICES ASSUME NEW j \in DOMAIN tables', j # k, tables[j].name = n PROVE FALSE
      BY <1>5
    <2>1. j \in DOMAIN tables /\ j \in Exactly(n)
      BY <1>5 DEF Exactly
    <2>2. slot \in Exactly(n) /\ slot # 0 /\ slot \in DOMAIN tables /\ tables[slot].name = n
      BY <2>1 DEF Exactly, TypeOK
    <2>3. j = slot
      BY <2>1, <2>2 DEF OneOwnerPerName, FileNamesUnique
    <2> QED BY <1>5, <2>2, <2>3
  <1>8. FileNamesUnique'
    BY <1>2, <1>5, <1>7 DEF OneOwnerPerName, FileNamesUnique
  <1>9. /\ \A j \in DOMAIN mem : mem[j] # Free => Fold[mem[j].name] # Fold[n]
        /\ \A v \in views : Fold[v.name] # Fold[n]
    BY <1>3, MemIndexOfFinds DEF ViewsNamed
  <1>10. KindsDisjoint'
    BY <1>2, <1>3, <1>5, <1>9 DEF OneOwnerPerName, KindsDisjoint
  <1>11. MemNamesUnique' /\ ViewNamesUnique'
    BY <1>3 DEF OneOwnerPerName, MemNamesUnique, ViewNamesUnique
  <1> QED BY <1>6, <1>8, <1>10, <1>11 DEF OneOwnerPerName

(* A name that no file and no view owns.                                    *)
LEMMA NotTaken ==
    ASSUME IInv, NEW n \in Names, ~NameTakenByOther(n)
    PROVE  /\ \A i \in DOMAIN tables : Fold[tables[i].name] # Fold[n]
           /\ \A v \in views : Fold[v.name] # Fold[n]
  BY IndexOfMisses DEF IInv, NameTakenByOther, ViewsNamed

(* One slot of mem is filled or replaced: enough that the name is no file's *)
(* and no view's, and no other slot's.                                      *)
LEMMA MemSlotStep ==
    ASSUME IInv, NEW n \in Names, NEW x \in Named \cup {Free}, x # Free => x.name = n,
           ~NameTakenByOther(n) \/ x = Free, UNCHANGED <<tables, views>>,
           mem' \in Seq(Named \cup {Free}), NEW k \in DOMAIN mem', mem'[k] = x,
           \A j \in DOMAIN mem' : j # k => j \in DOMAIN mem /\ mem'[j] = mem[j],
           x # Free => \A j \in DOMAIN mem' :
                j # k /\ mem'[j] # Free => Fold[mem'[j].name] # Fold[n]
    PROVE  IInv'
  <1> USE DEF IInv
  <1>1. TypeOK'
    BY DEF TypeOK
  <1>2. FileNamesUnique' /\ ViewNamesUnique'
    BY DEF OneOwnerPerName, FileNamesUnique, ViewNamesUnique
  <1>3. MemNamesUnique'
    <2> SUFFICES ASSUME NEW i \in DOMAIN mem', NEW j \in DOMAIN mem',
                        mem'[i] # Free, mem'[j] # Free,
                        Fold[mem'[i].name] = Fold[mem'[j].name]
                 PROVE  i = j
      BY DEF MemNamesUnique
    <2>1. CASE i # k /\ j # k
      BY <2>1 DEF OneOwnerPerName, MemNamesUnique
    <2>2. CASE i = k \/ j = k
      BY <2>2
    <2> QED BY <2>1, <2>2
  <1>4. KindsDisjoint'
    <2>1. x # Free => /\ \A i \in DOMAIN tables : Fold[tables[i].name] # Fold[n]
                      /\ \A v \in views : Fold[v.name] # Fold[n]
      BY NotTaken
    <2> QED BY <2>1 DEF OneOwnerPerName, KindsDisjoint
  <1> QED BY <1>1, <1>2, <1>3, <1>4 DEF OneOwnerPerName

LEMMA MemCreateStep ==
    ASSUME IInv, NEW n \in Names, NEW orReplace \in BOOLEAN, MemCreate(n, orReplace)
    PROVE  IInv'
  <1> USE DEF IInv
  <1> DEFINE free == {i \in DOMAIN mem : mem[i] = Free}
             slot == IF MemIndexOf(n) # 0 THEN MemIndexOf(n) ELSE First(free)
  <1>1. PICK o \in Objects : mem' = Placed(mem, slot, [name |-> n, id |-> o])
    BY DEF MemCreate, Fresh
  <1> DEFINE x == [name |-> n, id |-> o]
  <1>2. x \in Named /\ x.name = n
    BY DEF Named
  <1>3. free \in SUBSET Nat /\ 0 \notin free /\ DOMAIN mem \subseteq Nat /\ 0 \notin DOMAIN mem
    BY DEF TypeOK
  <1>4. /\ slot \in {0} \cup DOMAIN mem
        /\ MemIndexOf(n) # 0 => slot = MemIndexOf(n)
    BY <1>3, FirstFinds, MemIndexOfFinds
  <1>5. mem' = Placed(mem, slot, x) /\ mem \in Seq(Named \cup {Free}) /\ x \in Named \cup {Free}
    BY <1>1, <1>2 DEF TypeOK
  <1> HIDE DEF slot, x
  <1>6. /\ mem' \in Seq(Named \cup {Free})
        /\ \E k \in DOMAIN mem' :
              /\ mem'[k] = x
              /\ slot # 0 => k = slot
              /\ slot = 0 => k \notin DOMAIN mem
              /\ \A j \in DOMAIN mem' : j # k => j \in DOMAIN mem /\ mem'[j] = mem[j]
    <2>1. ASSUME NEW T, mem \in Seq(T), x \in T
          PROVE  /\ Placed(mem, slot, x) \in Seq(T)
                 /\ \E k \in DOMAIN Placed(mem, slot, x) :
                      /\ Placed(mem, slot, x)[k] = x
                      /\ slot # 0 => k = slot
                      /\ slot = 0 => k \notin DOMAIN mem
                      /\ \A j \in DOMAIN Placed(mem, slot, x) :
                            j # k => /\ j \in DOMAIN mem
                                     /\ Placed(mem, slot, x)[j] = mem[j]
      BY <1>4, <2>1, PlacedAt
    <2> QED BY <1>5, <2>1
  <1>7. PICK k \in DOMAIN mem' :
              /\ mem'[k] = x
              /\ slot # 0 => k = slot
              /\ \A j \in DOMAIN mem' : j # k => j \in DOMAIN mem /\ mem'[j] = mem[j]
    BY <1>6
  <1>8. \A j \in DOMAIN mem' : j # k /\ mem'[j] # Free => Fold[mem'[j].name] # Fold[n]
    <2>1. CASE MemIndexOf(n) = 0
      BY <1>7, <2>1, MemIndexOfFinds
    <2>2. CASE MemIndexOf(n) # 0
      <3>1. k = MemIndexOf(n) /\ k \in DOMAIN mem /\ mem[k] # Free
            /\ Fold[mem[k].name] = Fold[n]
        BY <1>4, <1>7, <2>2, MemIndexOfFinds
      <3> QED BY <1>7, <3>1 DEF OneOwnerPerName, MemNamesUnique
    <2> QED BY <2>1, <2>2
  <1>9. ~NameTakenByOther(n) /\ UNCHANGED <<tables, views>>
    BY DEF MemCreate
  <1> QED BY <1>2, <1>5, <1>6, <1>7, <1>8, <1>9, MemSlotStep

LEMMA MemDropStep ==
    ASSUME IInv, NEW n \in Names, MemDrop(n)
    PROVE  IInv'
  <1> DEFINE k == MemIndexOf(n)
  <1>1. k \in DOMAIN mem /\ mem' = [mem EXCEPT ![k] = Free] /\ UNCHANGED <<tables, views>>
    BY MemIndexOfFinds DEF IInv, MemDrop
  <1> HIDE DEF k
  <1>2. /\ mem' \in Seq(Named \cup {Free}) /\ DOMAIN mem' = DOMAIN mem /\ mem'[k] = Free
        /\ \A j \in DOMAIN mem' : j # k => mem'[j] = mem[j]
    BY <1>1 DEF IInv, TypeOK
  <1> QED BY <1>1, <1>2, MemSlotStep

LEMMA MemWriteStep ==
    ASSUME IInv, NEW n \in Names, MemWrite(n)
    PROVE  IInv'
  <1> USE DEF IInv
  <1> DEFINE k == MemIndexOf(n)
  <1>1. PICK o \in Objects : mem' = [mem EXCEPT ![k].id = o]
    BY DEF MemWrite, Fresh
  <1>2. k \in DOMAIN mem /\ mem[k] # Free /\ mem[k] \in Named /\ UNCHANGED <<tables, views>>
    BY MemIndexOfFinds DEF MemWrite
  <1> HIDE DEF k
  <1> DEFINE x == [mem[k] EXCEPT !.id = o]
  <1>3. x \in Named /\ x.name = mem[k].name /\ mem[k].name \in Names
    BY <1>2 DEF Named
  <1>4. mem' = [mem EXCEPT ![k] = x]
    BY <1>1
  <1> HIDE DEF x
  <1>5. /\ mem' \in Seq(Named \cup {Free}) /\ DOMAIN mem' = DOMAIN mem /\ mem'[k] = x
        /\ \A j \in DOMAIN mem' : j # k => mem'[j] = mem[j]
    BY <1>2, <1>3, <1>4 DEF TypeOK
  <1>6. \A i \in DOMAIN tables : Fold[tables[i].name] # Fold[mem[k].name]
    BY <1>2 DEF OneOwnerPerName, KindsDisjoint
  <1>7. \A v \in views : Fold[v.name] # Fold[mem[k].name]
    BY <1>2 DEF OneOwnerPerName, KindsDisjoint
  <1>8. ~NameTakenByOther(mem[k].name)
    BY <1>3, <1>6, <1>7, LookupFinds DEF NameTakenByOther, IndexOf, ViewsNamed
  <1>9. \A j \in DOMAIN mem' :
            j # k /\ mem'[j] # Free => Fold[mem'[j].name] # Fold[mem[k].name]
    BY <1>2, <1>5 DEF OneOwnerPerName, MemNamesUnique
  <1> QED BY <1>2, <1>3, <1>5, <1>8, <1>9, MemSlotStep

LEMMA MemRenameStep ==
    ASSUME IInv, NEW n \in Names, NEW new \in Names, MemRename(n, new)
    PROVE  IInv'
  <1> USE DEF IInv
  <1> DEFINE k == MemIndexOf(n)
             x == [mem[k] EXCEPT !.name = new]
  <1>1. k \in DOMAIN mem /\ mem[k] # Free /\ mem[k] \in Named /\ UNCHANGED <<tables, views>>
        /\ ~NameTakenByOther(new) /\ MemIndexOf(new) \in {0, k}
    BY MemIndexOfFinds DEF MemRename
  <1>2. mem' = [mem EXCEPT ![k] = x]
    BY DEF MemRename
  <1> HIDE DEF k
  <1>3. x \in Named /\ x.name = new
    BY <1>1 DEF Named
  <1> HIDE DEF x
  <1>4. /\ mem' \in Seq(Named \cup {Free}) /\ DOMAIN mem' = DOMAIN mem /\ mem'[k] = x
        /\ \A j \in DOMAIN mem' : j # k => mem'[j] = mem[j]
    BY <1>1, <1>2, <1>3 DEF TypeOK
  <1>5. \A j \in DOMAIN mem' : j # k /\ mem'[j] # Free => Fold[mem'[j].name] # Fold[new]
    <2>1. CASE MemIndexOf(new) = 0
      BY <1>4, <2>1, MemIndexOfFinds
    <2>2. CASE MemIndexOf(new) = k /\ MemIndexOf(new) # 0
      <3>1. Fold[mem[k].name] = Fold[new]
        BY <2>2, MemIndexOfFinds
      <3> QED BY <1>1, <1>4, <3>1 DEF OneOwnerPerName, MemNamesUnique
    <2> QED BY <1>1, <2>1, <2>2
  <1> QED BY <1>1, <1>3, <1>4, <1>5, MemSlotStep

LEMMA ViewCreateStep ==
    ASSUME IInv, NEW n \in Names, NEW orReplace \in BOOLEAN, ViewCreate(n, orReplace)
    PROVE  IInv'
  <1> USE DEF IInv
  <1>1. PICK o \in Objects : views' = (views \ ViewsNamed(n)) \cup {[name |-> n, id |-> o]}
    BY DEF ViewCreate, Fresh
  <1> DEFINE x == [name |-> n, id |-> o]
  <1>2. UNCHANGED <<tables, mem>> /\ IndexOf(n) = 0 /\ MemIndexOf(n) = 0
    BY DEF ViewCreate
  <1>3. x \in Named /\ x.name = n
    BY DEF Named
  <1>4. \A v \in views' : v = x \/ (v \in views /\ Fold[v.name] # Fold[n])
    BY <1>1 DEF ViewsNamed
  <1>5. TypeOK'
    BY <1>2, <1>3, <1>4 DEF TypeOK
  <1>6. FileNamesUnique' /\ MemNamesUnique'
    BY <1>2 DEF OneOwnerPerName, FileNamesUnique, MemNamesUnique
  <1>7. ViewNamesUnique'
    BY <1>3, <1>4 DEF OneOwnerPerName, ViewNamesUnique
  <1>8. /\ \A i \in DOMAIN tables : Fold[tables[i].name] # Fold[n]
        /\ \A j \in DOMAIN mem : mem[j] # Free => Fold[mem[j].name] # Fold[n]
    BY <1>2, IndexOfMisses, MemIndexOfFinds
  <1>9. KindsDisjoint'
    BY <1>2, <1>3, <1>4, <1>8 DEF OneOwnerPerName, KindsDisjoint
  <1> QED BY <1>5, <1>6, <1>7, <1>9 DEF OneOwnerPerName

LEMMA ViewDropStep ==
    ASSUME IInv, NEW n \in Names, ViewDrop(n)
    PROVE  IInv'
  <1>1. views' \subseteq views /\ UNCHANGED <<tables, mem>>
    BY DEF ViewDrop
  <1> QED BY <1>1 DEF IInv, TypeOK, OneOwnerPerName, FileNamesUnique, MemNamesUnique,
                      ViewNamesUnique, KindsDisjoint

(* A registration goes to a slot that lookups agree on.                     *)
LEMMA RegisterSlot ==
    ASSUME TypeOK, NEW n \in Names
    PROVE  /\ Register(n) => \E slot \in {0} \cup DOMAIN tables :
                 /\ PutTable(n, slot, FALSE)
                 /\ Exactly(n) # {} => slot \in Exactly(n)
                 /\ slot # 0 => Fold[tables[slot].name] = Fold[n]
           /\ RegisterPath(n) => \E slot \in {0} \cup DOMAIN tables :
                 /\ PutTable(n, slot, TRUE)
                 /\ Exactly(n) # {} => slot \in Exactly(n)
                 /\ slot # 0 => Fold[tables[slot].name] = Fold[n]
  <1>1. Exactly(n) \in SUBSET Nat /\ 0 \notin Exactly(n) /\ Exactly(n) \subseteq DOMAIN tables
    BY DEF TypeOK, Exactly
  <1>2. First(Exactly(n)) \in {0} \cup DOMAIN tables
        /\ (Exactly(n) # {} => First(Exactly(n)) \in Exactly(n))
        /\ (First(Exactly(n)) # 0 => Fold[tables[First(Exactly(n))].name] = Fold[n])
    BY <1>1, FirstFinds DEF Exactly
  <1> QED BY <1>2, LookupFinds DEF Register, RegisterPath

LEMMA StepInvariant == IInv /\ [Next]_vars => IInv'
  <1> SUFFICES ASSUME IInv, [Next]_vars PROVE IInv'
    OBVIOUS
  <1>1. ASSUME NEW n \in Names, Register(n) PROVE IInv'
    BY <1>1, RegisterSlot, PutTableStep DEF IInv
  <1>2. ASSUME NEW n \in Names, RegisterPath(n) PROVE IInv'
    BY <1>2, RegisterSlot, PutTableStep DEF IInv
  <1>3. ASSUME NEW n \in Names, NEW r \in BOOLEAN, MemCreate(n, r) PROVE IInv'
    BY <1>3, MemCreateStep
  <1>4. ASSUME NEW n \in Names, MemDrop(n) PROVE IInv'
    BY <1>4, MemDropStep
  <1>5. ASSUME NEW n \in Names, MemWrite(n) PROVE IInv'
    BY <1>5, MemWriteStep
  <1>6. ASSUME NEW n \in Names, NEW r \in BOOLEAN, ViewCreate(n, r) PROVE IInv'
    BY <1>6, ViewCreateStep
  <1>7. ASSUME NEW n \in Names, ViewDrop(n) PROVE IInv'
    BY <1>7, ViewDropStep
  <1>8. ASSUME NEW n \in Names, NEW new \in Names, MemRename(n, new) PROVE IInv'
    BY <1>8, MemRenameStep
  <1>9. CASE UNCHANGED vars
    BY <1>9 DEF vars, IInv, TypeOK, OneOwnerPerName, FileNamesUnique, MemNamesUnique,
                ViewNamesUnique, KindsDisjoint
  <1> QED BY <1>1, <1>2, <1>3, <1>4, <1>5, <1>6, <1>7, <1>8, <1>9 DEF Next, Statement

THEOREM CatalogInvariant == Spec => []IInv
  <1>1. Init => IInv
    BY DEF Init, IInv, TypeOK, OneOwnerPerName, FileNamesUnique, MemNamesUnique,
           ViewNamesUnique, KindsDisjoint
  <1> QED BY <1>1, StepInvariant, PTL DEF Spec

(* However names are spelled and whatever ran, a name has one owner.        *)
THEOREM OneOwner == Spec => []OneOwnerPerName
  <1>1. IInv => OneOwnerPerName
    BY DEF IInv
  <1> QED BY <1>1, CatalogInvariant, PTL

(* No file shadows the in-memory table that a write finds.                  *)
LEMMA ReadsWritesStep == IInv => ReadsWhatIsWritten
  <1>1. IInv => ReadsWhatIsWritten
    <2> SUFFICES ASSUME IInv, NEW n \in Names, MemIndexOf(n) # 0
                 PROVE  Resolved(n) = {mem[MemIndexOf(n)].id}
      BY DEF ReadsWhatIsWritten
    <2>1. IndexOf(n) = 0
      <3> SUFFICES ASSUME IndexOf(n) # 0 PROVE FALSE
        OBVIOUS
      <3>1. IndexOf(n) \in DOMAIN tables /\ Fold[tables[IndexOf(n)].name] = Fold[n]
        BY LookupFinds DEF IInv, IndexOf
      <3>2. /\ MemIndexOf(n) \in DOMAIN mem /\ mem[MemIndexOf(n)] # Free
            /\ Fold[mem[MemIndexOf(n)].name] = Fold[n]
        BY MemIndexOfFinds DEF IInv
      <3> QED BY <3>1, <3>2 DEF IInv, OneOwnerPerName, KindsDisjoint
    <2> QED BY <2>1 DEF Resolved
  <1> QED BY <1>1

(* The table an INSERT writes is the one a SELECT of the name reads.        *)
THEOREM ReadsWrites == Spec => []ReadsWhatIsWritten
  BY ReadsWritesStep, CatalogInvariant, PTL

(* Where a registration puts its record, and that it moves no other.        *)
LEMMA PutTableIs ==
    ASSUME IInv, NEW n \in Names, NEW slot \in {0} \cup DOMAIN tables,
           NEW path \in BOOLEAN, PutTable(n, slot, path)
    PROVE  /\ UNCHANGED <<mem, views>> /\ DOMAIN tables \subseteq DOMAIN tables'
           /\ \E k \in DOMAIN tables' :
                /\ tables'[k].name = n
                /\ slot # 0 => k = slot
                /\ slot = 0 => k \notin DOMAIN tables
                /\ \A j \in DOMAIN tables' :
                      j # k => j \in DOMAIN tables /\ tables'[j] = tables[j]
  <1>1. PICK o \in Objects :
            tables' = Placed(tables, slot, [name |-> n, path |-> path, id |-> o])
    BY DEF PutTable, Fresh
  <1> DEFINE x == [name |-> n, path |-> path, id |-> o]
  <1>2. x \in FileTable /\ x.name = n
    BY DEF FileTable
  <1>3. tables \in Seq(FileTable) /\ tables' = Placed(tables, slot, x)
    BY <1>1 DEF IInv, TypeOK
  <1> HIDE DEF x
  <1>4. /\ DOMAIN tables \subseteq DOMAIN Placed(tables, slot, x)
        /\ \E k \in DOMAIN Placed(tables, slot, x) :
              /\ Placed(tables, slot, x)[k] = x
              /\ slot # 0 => k = slot
              /\ slot = 0 => k \notin DOMAIN tables
              /\ \A j \in DOMAIN Placed(tables, slot, x) :
                    j # k => /\ j \in DOMAIN tables
                             /\ Placed(tables, slot, x)[j] = tables[j]
    <2>1. slot \in {0} \cup DOMAIN tables /\ x \in FileTable
      BY <1>2
    <2> QED BY <1>3, <2>1, PlacedAt
  <1>5. UNCHANGED <<mem, views>>
    BY DEF PutTable
  <1> QED BY <1>2, <1>3, <1>4, <1>5

Stable ==
    \A i \in DOMAIN tables :
        i \in DOMAIN tables' /\ Fold[tables'[i].name] = Fold[tables[i].name]

(* The slot of a registration is its namesake's or new.                     *)
LEMMA StableStep == IInv /\ Next => Stable
  <1>1. ASSUME IInv, NEW n \in Names, NEW slot \in {0} \cup DOMAIN tables,
               NEW path \in BOOLEAN, PutTable(n, slot, path),
               slot # 0 => Fold[tables[slot].name] = Fold[n]
        PROVE  Stable
    <2>1. /\ DOMAIN tables \subseteq DOMAIN tables'
          /\ \E k \in DOMAIN tables' :
                /\ tables'[k].name = n
                /\ slot # 0 => k = slot
                /\ slot = 0 => k \notin DOMAIN tables
                /\ \A j \in DOMAIN tables' :
                      j # k => j \in DOMAIN tables /\ tables'[j] = tables[j]
      <3>1. IInv /\ PutTable(n, slot, path)
        BY <1>1
      <3> QED BY <3>1, PutTableIs
    <2>2. PICK k \in DOMAIN tables' :
                /\ tables'[k].name = n
                /\ k \in DOMAIN tables => Fold[tables[k].name] = Fold[n]
                /\ \A j \in DOMAIN tables' : j # k => tables'[j] = tables[j]
      BY <1>1, <2>1
    <2> QED BY <2>1, <2>2 DEF Stable
  <1>2. IInv /\ Next => Stable
    <2> SUFFICES ASSUME IInv, Next PROVE Stable
      OBVIOUS
    <2>1. ASSUME NEW n \in Names, Register(n) \/ RegisterPath(n) PROVE Stable
      BY <1>1, <2>1, RegisterSlot DEF IInv
    <2>2. CASE UNCHANGED tables
      BY <2>2 DEF Stable
    <2> QED BY <2>1, <2>2 DEF Next, Statement, MemCreate, MemDrop, MemWrite,
                              MemRename, ViewCreate, ViewDrop
  <1> QED BY <1>2

(* A table index is never taken over by another name.                       *)
THEOREM StableIndexes == Spec => IndexesStable
  <1>1. IInv /\ [Next]_vars => [tables' = <<>> \/ Stable]_vars
    BY StableStep
  <1> QED BY <1>1, CatalogInvariant, PTL DEF Spec, IndexesStable, Stable
-----------------------------------------------------------------------------
(* A statement on n and a name o that is not its namesake: what each of the *)
(* three lists has under o before and after.                                *)

LEMMA FilesApart ==
    ASSUME IInv, NEW n \in Names, NEW o \in Names, Fold[o] # Fold[n],
           Register(n) \/ RegisterPath(n)
    PROVE  /\ UNCHANGED <<mem, views>>
           /\ \A c \in BOOLEAN :
                /\ Lookup(o, c)' = Lookup(o, c)
                /\ Lookup(o, c) # 0 => tables'[Lookup(o, c)] = tables[Lookup(o, c)]
  <1>1. PICK slot \in {0} \cup DOMAIN tables :
            /\ \E path \in BOOLEAN : PutTable(n, slot, path)
            /\ slot # 0 => Fold[tables[slot].name] = Fold[n]
    BY RegisterSlot DEF IInv
  <1>2. /\ UNCHANGED <<mem, views>> /\ DOMAIN tables \subseteq DOMAIN tables'
        /\ \E k \in DOMAIN tables' :
              /\ tables'[k].name = n
              /\ slot # 0 => k = slot
              /\ slot = 0 => k \notin DOMAIN tables
              /\ \A j \in DOMAIN tables' :
                    j # k => j \in DOMAIN tables /\ tables'[j] = tables[j]
    BY <1>1, PutTableIs
  <1>3. PICK k \in DOMAIN tables' :
              /\ tables'[k].name = n
              /\ k \in DOMAIN tables => Fold[tables[k].name] = Fold[n]
              /\ \A j \in DOMAIN tables' :
                    j # k => j \in DOMAIN tables /\ tables'[j] = tables[j]
    BY <1>1, <1>2
  <1>4. \A j \in DOMAIN tables : Fold[tables[j].name] = Fold[o] =>
              j \in DOMAIN tables' /\ tables'[j] = tables[j]
    BY <1>2, <1>3
  <1>5. \A j \in DOMAIN tables' : Fold[tables'[j].name] = Fold[o] =>
              j \in DOMAIN tables /\ tables'[j] = tables[j]
    BY <1>3
  <1>6. Exactly(o)' = Exactly(o)
    BY <1>4, <1>5 DEF Exactly
  <1>7. \A c \in BOOLEAN : Alike(o, c)' = Alike(o, c)
    BY <1>4, <1>5 DEF Alike
  <1>8. \A c \in BOOLEAN : Lookup(o, c)' = Lookup(o, c)
    BY <1>6, <1>7 DEF Lookup
  <1>9. \A c \in BOOLEAN : Lookup(o, c) # 0 => tables'[Lookup(o, c)] = tables[Lookup(o, c)]
    BY <1>4, LookupFinds DEF IInv
  <1> QED BY <1>2, <1>8, <1>9

LEMMA MemApart ==
    ASSUME IInv, NEW n \in Names, NEW o \in Names, Fold[o] # Fold[n],
           (\E r \in BOOLEAN : MemCreate(n, r)) \/ MemDrop(n) \/ MemWrite(n)
    PROVE  /\ UNCHANGED <<tables, views>>
           /\ MemIndexOf(o)' = MemIndexOf(o)
           /\ MemIndexOf(o) # 0 => mem'[MemIndexOf(o)] = mem[MemIndexOf(o)]
  <1>1. UNCHANGED <<tables, views>>
    BY DEF MemCreate, MemDrop, MemWrite
  <1> DEFINE Changes ==
        /\ DOMAIN mem \subseteq DOMAIN mem'
        /\ \E k \in DOMAIN mem' :
              /\ mem'[k] = Free \/ Fold[mem'[k].name] = Fold[n]
              /\ k \in DOMAIN mem => mem[k] = Free \/ Fold[mem[k].name] = Fold[n]
              /\ \A j \in DOMAIN mem' : j # k => j \in DOMAIN mem /\ mem'[j] = mem[j]
  <1>2. Changes
    <2>1. ASSUME NEW r \in BOOLEAN, MemCreate(n, r)
          PROVE  Changes
      <3> DEFINE free == {i \in DOMAIN mem : mem[i] = Free}
                 slot == IF MemIndexOf(n) # 0 THEN MemIndexOf(n) ELSE First(free)
      <3>1. PICK id \in Objects : mem' = Placed(mem, slot, [name |-> n, id |-> id])
        BY <2>1 DEF MemCreate, Fresh
      <3> DEFINE x == [name |-> n, id |-> id]
      <3>2. x \in Named \cup {Free} /\ x.name = n
        BY DEF Named
      <3>3. free \in SUBSET Nat /\ 0 \notin free /\ DOMAIN mem \subseteq Nat /\ 0 \notin DOMAIN mem
        BY DEF IInv, TypeOK
      <3>4. /\ slot \in {0} \cup DOMAIN mem
            /\ slot # 0 => mem[slot] = Free \/ Fold[mem[slot].name] = Fold[n]
        BY <3>3, FirstFinds, MemIndexOfFinds DEF IInv
      <3>5. mem \in Seq(Named \cup {Free}) /\ mem' = Placed(mem, slot, x)
        BY <3>1 DEF IInv, TypeOK
      <3> HIDE DEF slot, x, free
      <3>6. ASSUME NEW T, mem \in Seq(T), x \in T
            PROVE  /\ DOMAIN mem \subseteq DOMAIN mem'
                   /\ \E k \in DOMAIN mem' :
                        /\ mem'[k] = x
                        /\ slot # 0 => k = slot
                        /\ slot = 0 => k \notin DOMAIN mem
                        /\ \A j \in DOMAIN mem' : j # k => j \in DOMAIN mem /\ mem'[j] = mem[j]
        <4>1. /\ DOMAIN mem \subseteq DOMAIN Placed(mem, slot, x)
              /\ \E k \in DOMAIN Placed(mem, slot, x) :
                   /\ Placed(mem, slot, x)[k] = x
                   /\ slot # 0 => k = slot
                   /\ slot = 0 => k \notin DOMAIN mem
                   /\ \A j \in DOMAIN Placed(mem, slot, x) :
                         j # k => j \in DOMAIN mem /\ Placed(mem, slot, x)[j] = mem[j]
          BY <3>4, <3>6, PlacedAt
        <4> QED BY <3>5, <4>1
      <3>7. /\ DOMAIN mem \subseteq DOMAIN mem'
            /\ \E k \in DOMAIN mem' :
                 /\ mem'[k] = x
                 /\ slot # 0 => k = slot
                 /\ slot = 0 => k \notin DOMAIN mem
                 /\ \A j \in DOMAIN mem' : j # k => j \in DOMAIN mem /\ mem'[j] = mem[j]
        BY <3>2, <3>5, <3>6
      <3> QED BY <3>2, <3>4, <3>7
    <2>2. ASSUME NEW y, NEW k, k = MemIndexOf(n), k # 0, mem' = [mem EXCEPT ![k] = y],
                 y = Free \/ Fold[y.name] = Fold[n]
          PROVE  Changes
      <3>1. k \in DOMAIN mem /\ Fold[mem[k].name] = Fold[n]
        BY <2>2, MemIndexOfFinds DEF IInv
      <3>2. /\ DOMAIN mem' = DOMAIN mem /\ mem'[k] = y
            /\ \A j \in DOMAIN mem' : j # k => mem'[j] = mem[j]
        BY <2>2, <3>1 DEF IInv, TypeOK
      <3> QED BY <2>2, <3>1, <3>2
    <2> HIDE DEF Changes
    <2>3. CASE MemDrop(n)
      BY <2>2, <2>3 DEF MemDrop
    <2>4. CASE MemWrite(n)
      <3> DEFINE k == MemIndexOf(n)
      <3>1. PICK id : k # 0 /\ mem' = [mem EXCEPT ![k].id = id]
        BY <2>4 DEF MemWrite
      <3>2. mem[k] \in Named /\ Fold[mem[k].name] = Fold[n]
        BY <3>1, MemIndexOfFinds DEF IInv
      <3> DEFINE y == [mem[k] EXCEPT !.id = id]
      <3>3. mem' = [mem EXCEPT ![k] = y]
        BY <3>1
      <3>4. y.name = mem[k].name
        BY <3>2 DEF Named
      <3>5. Fold[y.name] = Fold[n] /\ k = MemIndexOf(n)
        BY <3>2, <3>4
      <3> HIDE DEF y, k
      <3> QED BY <2>2, <3>1, <3>3, <3>5
    <2> QED BY <2>1, <2>3, <2>4
  <1>3. PICK k \in DOMAIN mem' :
              /\ mem'[k] = Free \/ Fold[mem'[k].name] = Fold[n]
              /\ k \in DOMAIN mem => mem[k] = Free \/ Fold[mem[k].name] = Fold[n]
              /\ \A j \in DOMAIN mem' : j # k => j \in DOMAIN mem /\ mem'[j] = mem[j]
    BY <1>2
  <1>4. {i \in DOMAIN mem : mem[i] # Free /\ Fold[mem[i].name] = Fold[o]}'
            = {i \in DOMAIN mem : mem[i] # Free /\ Fold[mem[i].name] = Fold[o]}
    BY <1>2, <1>3
  <1>5. MemIndexOf(o)' = MemIndexOf(o)
    BY <1>4 DEF MemIndexOf
  <1>6. MemIndexOf(o) # 0 => mem'[MemIndexOf(o)] = mem[MemIndexOf(o)]
    BY <1>2, <1>3, MemIndexOfFinds DEF IInv
  <1> QED BY <1>1, <1>5, <1>6

LEMMA ViewsApart ==
    ASSUME NEW n \in Names, NEW o \in Names, Fold[o] # Fold[n],
           (\E r \in BOOLEAN : ViewCreate(n, r)) \/ ViewDrop(n)
    PROVE  UNCHANGED <<tables, mem>> /\ ViewsNamed(o)' = ViewsNamed(o)
  <1>1. UNCHANGED <<tables, mem>>
    BY DEF ViewCreate, ViewDrop
  <1>2. \E new : /\ \A v \in new : v.name = n
                 /\ views' = (views \ ViewsNamed(n)) \cup new
    <2>1. CASE ViewDrop(n)
      <3>1. views' = (views \ ViewsNamed(n)) \cup {}
        BY <2>1 DEF ViewDrop
      <3> QED BY <3>1
    <2>2. ASSUME NEW r \in BOOLEAN, ViewCreate(n, r)
          PROVE  \E new : /\ \A v \in new : v.name = n
                          /\ views' = (views \ ViewsNamed(n)) \cup new
      <3>1. PICK id : views' = (views \ ViewsNamed(n)) \cup {[name |-> n, id |-> id]}
        BY <2>2 DEF ViewCreate
      <3>2. \A v \in {[name |-> n, id |-> id]} : v.name = n
        OBVIOUS
      <3> QED BY <3>1, <3>2
    <2> QED BY <2>1, <2>2
  <1>3. ViewsNamed(o)' = ViewsNamed(o)
    BY <1>2 DEF ViewsNamed
  <1> QED BY <1>1, <1>3

Undisturbed ==
    \A n \in Names : Statement(n) =>
        \A o \in Names : Fold[o] # Fold[n] =>
            /\ Resolved(o)' = Resolved(o)
            /\ PathResolved(o)' = PathResolved(o)

(* Each of the three lists has what it had under the other name.            *)
LEMMA UndisturbedStep == IInv => Undisturbed
  <1>1. IInv => Undisturbed
    <2> SUFFICES ASSUME IInv, NEW n \in Names, Statement(n), NEW o \in Names, Fold[o] # Fold[n]
                 PROVE  /\ Resolved(o)' = Resolved(o)
                        /\ PathResolved(o)' = PathResolved(o)
      BY DEF Undisturbed
    <2> USE DEF IndexOf, PathIndexOf
    <2>1. CASE Register(n) \/ RegisterPath(n)
      <3>1. /\ UNCHANGED <<mem, views>>
            /\ Lookup(o, TRUE)' = Lookup(o, TRUE) /\ Lookup(o, FALSE)' = Lookup(o, FALSE)
            /\ Lookup(o, TRUE) # 0 => tables'[Lookup(o, TRUE)] = tables[Lookup(o, TRUE)]
            /\ Lookup(o, FALSE) # 0 => tables'[Lookup(o, FALSE)] = tables[Lookup(o, FALSE)]
        BY <2>1, FilesApart
      <3>2. MemIndexOf(o)' = MemIndexOf(o) /\ ViewsNamed(o)' = ViewsNamed(o)
        BY <3>1 DEF MemIndexOf, ViewsNamed
      <3> QED BY <3>1, <3>2 DEF Resolved, PathResolved
    <2>2. CASE (\E r \in BOOLEAN : MemCreate(n, r)) \/ MemDrop(n) \/ MemWrite(n)
      <3>1. /\ UNCHANGED <<tables, views>> /\ MemIndexOf(o)' = MemIndexOf(o)
            /\ MemIndexOf(o) # 0 => mem'[MemIndexOf(o)] = mem[MemIndexOf(o)]
        BY <2>2, MemApart
      <3>2. /\ Lookup(o, TRUE)' = Lookup(o, TRUE) /\ Lookup(o, FALSE)' = Lookup(o, FALSE)
            /\ ViewsNamed(o)' = ViewsNamed(o)
        BY <3>1 DEF Lookup, Exactly, Alike, ViewsNamed
      <3> QED BY <3>1, <3>2 DEF Resolved, PathResolved
    <2>3. CASE (\E r \in BOOLEAN : ViewCreate(n, r)) \/ ViewDrop(n)
      <3>1. UNCHANGED <<tables, mem>> /\ ViewsNamed(o)' = ViewsNamed(o)
        BY <2>3, ViewsApart
      <3>2. /\ Lookup(o, TRUE)' = Lookup(o, TRUE) /\ Lookup(o, FALSE)' = Lookup(o, FALSE)
            /\ MemIndexOf(o)' = MemIndexOf(o)
        BY <3>1 DEF Lookup, Exactly, Alike, MemIndexOf
      <3> QED BY <3>1, <3>2 DEF Resolved, PathResolved
    <2> QED BY <2>1, <2>2, <2>3 DEF Statement
  <1> QED BY <1>1

(* No statement changes what another name reads: slots that are reused and  *)
(* lookups that fold case stay within the namesakes of the statement.       *)
THEOREM OthersKept == Spec => OthersUndisturbed
  <1>1. IInv /\ [Next]_vars => [Undisturbed]_vars
    BY UndisturbedStep
  <1> QED BY <1>1, CatalogInvariant, PTL DEF Spec, OthersUndisturbed, Undisturbed

PathsStay ==
    \A p \in Names :
        (\E i \in Exactly(p) : tables[i].path) /\ PathResolved(p)' # PathResolved(p)
            => Register(p) \/ RegisterPath(p)

(* A registration under another spelling takes another slot.                *)
LEMMA PathsStayStep == IInv /\ Next => PathsStay
  <1>1. IInv /\ Next => PathsStay
    <2> SUFFICES ASSUME IInv, Next, NEW p \in Names, NEW i \in Exactly(p), tables[i].path,
                        ~(Register(p) \/ RegisterPath(p))
                 PROVE  PathResolved(p)' = PathResolved(p)
      BY DEF PathsStay
    <2>1. i \in DOMAIN tables /\ tables[i].name = p
      BY DEF Exactly
    <2>2. CASE UNCHANGED tables
      <3>1. PathIndexOf(p)' = PathIndexOf(p)
        BY <2>2 DEF PathIndexOf, Lookup, Exactly, Alike
      <3> QED BY <2>2, <3>1 DEF PathResolved
    <2>3. ASSUME NEW n \in Names, n # p, NEW slot \in {0} \cup DOMAIN tables,
                 NEW path \in BOOLEAN, PutTable(n, slot, path), slot # i
          PROVE  PathResolved(p)' = PathResolved(p)
      <3>1. /\ DOMAIN tables \subseteq DOMAIN tables'
            /\ \E k \in DOMAIN tables' :
                  /\ tables'[k].name = n
                  /\ slot # 0 => k = slot
                  /\ slot = 0 => k \notin DOMAIN tables
                  /\ \A j \in DOMAIN tables' :
                        j # k => j \in DOMAIN tables /\ tables'[j] = tables[j]
        BY <2>3, PutTableIs
      <3>2. i \in DOMAIN tables' /\ tables'[i] = tables[i]
        BY <2>1, <2>3, <3>1
      <3>3. Exactly(p) = {i}
        BY <2>1 DEF Exactly, IInv, OneOwnerPerName, FileNamesUnique
      <3>4. Exactly(p)' = {i}
        <4>1. \A j \in DOMAIN tables' : tables'[j].name = p => j \in DOMAIN tables /\ tables[j].name = p
          BY <2>3, <3>1
        <4>2. \A j \in DOMAIN tables' : tables'[j].name = p => j \in Exactly(p)
          BY <4>1 DEF Exactly
        <4> QED BY <2>1, <3>2, <3>3, <4>2 DEF Exactly
      <3>5. First(Exactly(p)) = i /\ First(Exactly(p)') = i
        <4>1. i \in Nat /\ i # 0
          BY <2>1 DEF IInv, TypeOK
        <4> QED BY <3>3, <3>4, <4>1, FirstFinds
      <3>6. PathIndexOf(p) = i /\ PathIndexOf(p)' = i /\ i # 0
        <4>1. i # 0
          BY <2>1 DEF IInv, TypeOK
        <4> QED BY <3>3, <3>4, <3>5, <4>1 DEF PathIndexOf, Lookup
      <3> QED BY <3>2, <3>6 DEF PathResolved
    <2>4. ASSUME NEW n \in Names, Register(n) PROVE PathResolved(p)' = PathResolved(p)
      <3>1. n # p
        BY <2>4
      <3>2. Lookup(n, FALSE) \in {0} \cup DOMAIN tables
        BY LookupFinds DEF IInv
      <3>3. Lookup(n, FALSE) # i
        <4>1. CASE Exactly(n) # {}
          <5>1. Lookup(n, FALSE) \in Exactly(n)
            BY <4>1, LookupFinds DEF IInv
          <5> QED BY <2>1, <3>1, <5>1 DEF Exactly
        <4>2. CASE Exactly(n) = {}
          <5>1. Lookup(n, FALSE) = First(Alike(n, FALSE))
            BY <4>2 DEF Lookup
          <5>2. Alike(n, FALSE) \in SUBSET Nat /\ 0 \notin Alike(n, FALSE)
            BY DEF Alike, IInv, TypeOK
          <5>3. First(Alike(n, FALSE)) = 0 \/ First(Alike(n, FALSE)) \in Alike(n, FALSE)
            BY <5>2, FirstFinds
          <5>4. i \notin Alike(n, FALSE) /\ i # 0
            BY <2>1 DEF Alike, IInv, TypeOK
          <5> QED BY <5>1, <5>3, <5>4
        <4> QED BY <4>1, <4>2
      <3>4. PutTable(n, Lookup(n, FALSE), FALSE)
        BY <2>4 DEF Register
      <3> QED BY <2>3, <3>1, <3>2, <3>3, <3>4
    <2>5. ASSUME NEW n \in Names, RegisterPath(n) PROVE PathResolved(p)' = PathResolved(p)
      <3>1. n # p /\ PutTable(n, First(Exactly(n)), TRUE)
        BY <2>5 DEF RegisterPath
      <3>2. Exactly(n) \in SUBSET Nat /\ 0 \notin Exactly(n) /\ Exactly(n) \subseteq DOMAIN tables
        BY DEF Exactly, IInv, TypeOK
      <3>3. First(Exactly(n)) \in {0} \cup DOMAIN tables
        BY <3>2, FirstFinds
      <3>4. First(Exactly(n)) # i
        <4>1. First(Exactly(n)) = 0 \/ First(Exactly(n)) \in Exactly(n)
          BY <3>2, FirstFinds
        <4>2. i # 0 /\ i \notin Exactly(n)
          BY <2>1, <3>1 DEF Exactly, IInv, TypeOK
        <4> QED BY <4>1, <4>2
      <3> QED BY <2>3, <3>1, <3>3, <3>4
    <2> QED BY <2>2, <2>4, <2>5 DEF Next, Statement, MemCreate, MemDrop, MemWrite, MemRename,
                                    ViewCreate, ViewDrop
  <1> QED BY <1>1

(* A path reads the file that was registered under that very spelling until *)
(* the spelling is registered again.                                        *)
THEOREM PathsKept == Spec => PathsKeepTheirFile
  <1> DEFINE Kept == \A p \in Names :
                (\E i \in Exactly(p) : tables[i].path) /\ PathResolved(p)' # PathResolved(p)
                   => tables' = <<>> \/ Register(p) \/ RegisterPath(p)
  <1>1. IInv /\ [Next]_vars => [Kept]_vars
    BY PathsStayStep DEF PathsStay
  <1> QED BY <1>1, CatalogInvariant, PTL DEF Spec, PathsKeepTheirFile
----------------------------------------------------------------------------
Phases == {"idle", "replacing", "flushing", "started", "done"}

RegistryTypeOK ==
    /\ IInv /\ IsFiniteSet(views)
    /\ pending \in Seq(Record)
    /\ phase \in Phases /\ trapped \in BOOLEAN /\ dead \in BOOLEAN
    /\ ddlObjects \in Nat

\* The record of a table index is what the catalog holds there, a lost catalog included.
InStep ==
    /\ DOMAIN byIndex = DOMAIN tables
    /\ \A i \in DOMAIN tables : byIndex[i] = tables[i]

\* No two tables have one source, and what is queued is not in the engine yet.
SourcesApart ==
    /\ \A i, j \in DOMAIN tables : tables[i].id = tables[j].id => i = j
    /\ \A i, j \in DOMAIN pending : pending[i].id = pending[j].id => i = j
    /\ \A i \in DOMAIN pending : pending[i].id \notin Live

\* A run that awaits a new engine is one of a database that lives on; any other has
\* an engine.
RunHasEngine ==
    /\ phase # "idle" => ~dead
    /\ phase # "idle" => (trapped <=> phase = "replacing")

\* What was created is what the engine holds, but for the statement that runs; a
\* count of nothing is the word of the host that a trap loses nothing.
CreatedCounted ==
    /\ (ddlObjects = 0) <=> (created = {})
    /\ ~dead /\ trapped => created = {}
    /\ ~dead /\ ~trapped /\ phase # "done" => created = DdlNames

RegistryInv == RegistryTypeOK /\ InStep /\ SourcesApart /\ RunHasEngine /\ CreatedCounted
----------------------------------------------------------------------------
\* Declaring a record whose source is not in the engine puts it, and nothing else, at
\* one index of both tables.
LEMMA DeclareKeeps ==
    ASSUME IInv, InStep, NEW r \in Record, r.id \notin Live, Declare(r),
           \A i, j \in DOMAIN tables : tables[i].id = tables[j].id => i = j
    PROVE  /\ IInv' /\ InStep' /\ UNCHANGED <<mem, views>>
           /\ \A i, j \in DOMAIN tables' : tables'[i].id = tables'[j].id => i = j
           /\ Live' \subseteq Live \cup {r.id}
           /\ DOMAIN tables \subseteq DOMAIN tables'
           /\ \E k \in DOMAIN tables' :
                 /\ tables'[k] = r
                 /\ k \in DOMAIN tables => Fold[tables[k].name] = Fold[r.name]
                 /\ \A j \in DOMAIN tables' : j # k => j \in DOMAIN tables /\ tables'[j] = tables[j]
<1>1. r.name \in Names /\ r.path \in BOOLEAN /\ r.id \in Objects
  BY DEF Record
<1>2. PICK slot \in {0} \cup DOMAIN tables :
          PutTable(r.name, slot, r.path) /\ (slot # 0 => Fold[tables[slot].name] = Fold[r.name])
  <2>0. TypeOK
    BY DEF IInv
  <2>1. CASE r.path = TRUE
    <3>1. RegisterPath(r.name)
      BY <2>1 DEF Declare
    <3>2. \E slot \in {0} \cup DOMAIN tables :
            PutTable(r.name, slot, TRUE) /\ (slot # 0 => Fold[tables[slot].name] = Fold[r.name])
      BY <1>1, <2>0, <3>1, CatalogAssumption, RegisterSlot
    <3>. QED  BY <2>1, <3>2
  <2>2. CASE r.path = FALSE
    <3>1. Register(r.name)
      BY <2>2 DEF Declare
    <3>2. \E slot \in {0} \cup DOMAIN tables :
            PutTable(r.name, slot, FALSE) /\ (slot # 0 => Fold[tables[slot].name] = Fold[r.name])
      BY <1>1, <2>0, <3>1, CatalogAssumption, RegisterSlot
    <3>. QED  BY <2>2, <3>2
  <2>. QED  BY <1>1, <2>1, <2>2
<1>3. PICK o \in Fresh :
          tables' = Placed(tables, slot, [name |-> r.name, path |-> r.path, id |-> o])
  BY <1>2 DEF PutTable
<1>4. UNCHANGED <<mem, views>>
  BY <1>2 DEF PutTable
<1>. DEFINE x == [name |-> r.name, path |-> r.path, id |-> o]
<1>5. x \in FileTable /\ o \in Objects /\ x.id = o /\ o \notin Live
  BY <1>1, <1>3 DEF FileTable, Fresh, Fresh
<1>6. tables \in Seq(FileTable) /\ tables' = Placed(tables, slot, x)
  BY <1>3 DEF IInv, TypeOK
<1>. HIDE DEF x
<1>7. /\ DOMAIN tables \subseteq DOMAIN tables'
      /\ \E k \in DOMAIN tables' :
            /\ tables'[k] = x
            /\ slot # 0 => k = slot
            /\ slot = 0 => k \notin DOMAIN tables
            /\ \A j \in DOMAIN tables' : j # k => j \in DOMAIN tables /\ tables'[j] = tables[j]
  <2>1. ASSUME NEW T, tables \in Seq(T), x \in T
        PROVE  /\ DOMAIN tables \subseteq DOMAIN Placed(tables, slot, x)
               /\ \E k \in DOMAIN Placed(tables, slot, x) :
                     /\ Placed(tables, slot, x)[k] = x
                     /\ slot # 0 => k = slot
                     /\ slot = 0 => k \notin DOMAIN tables
                     /\ \A j \in DOMAIN Placed(tables, slot, x) :
                           j # k => /\ j \in DOMAIN tables
                                    /\ Placed(tables, slot, x)[j] = tables[j]
    <3>1. Fold \in [Names -> Names]
      BY CatalogAssumption
    <3>. QED  BY <2>1, <3>1, PlacedAt, Zenon
  <2>. QED  BY <1>5, <1>6, <2>1
<1>8. PICK k \in DOMAIN tables' :
            /\ tables'[k] = x
            /\ k \in DOMAIN tables => Fold[tables[k].name] = Fold[r.name]
            /\ \A j \in DOMAIN tables' : j # k => j \in DOMAIN tables /\ tables'[j] = tables[j]
  BY <1>2, <1>7
<1>9. PICK i \in DOMAIN tables' : tables'[i].id = r.id /\ byIndex' = RecordAt(i, r)
  BY DEF Declare
<1>10. \A j \in DOMAIN tables : tables[j].id \in Live
  BY DEF Live
<1>11. i = k /\ o = r.id
  BY <1>5, <1>8, <1>9, <1>10
<1>12. x = r
  BY <1>11 DEF x, Record
<1>13. InStep'
  <2>1. /\ DOMAIN byIndex' = {k} \cup DOMAIN byIndex /\ byIndex'[k] = r
        /\ \A j \in DOMAIN byIndex : j # k => byIndex'[j] = byIndex[j]
    BY <1>9, <1>11 DEF RecordAt
  <2>2. DOMAIN tables' = {k} \cup DOMAIN tables
    BY <1>7, <1>8
  <2>. QED  BY <1>8, <1>12, <2>1, <2>2 DEF InStep
<1>14. \A a, b \in DOMAIN tables' : tables'[a].id = tables'[b].id => a = b
  BY <1>5, <1>8, <1>10
<1>15. Live' \subseteq Live \cup {r.id}
  <2>1. \A j \in DOMAIN tables' : tables'[j].id \in Live \cup {r.id}
    BY <1>8, <1>10, <1>12
  <2>. QED  BY <1>4, <2>1 DEF Live
<1>16. IInv'
  <2>1. Register(r.name) \/ RegisterPath(r.name)
    BY DEF Declare
  <2>. QED  BY <1>1, <2>1, StepInvariant DEF Next, Statement
<1>. QED  BY <1>4, <1>7, <1>8, <1>12, <1>13, <1>14, <1>15, <1>16
----------------------------------------------------------------------------
\* A function's range over a finite set is finite, and empty only over the empty set.
LEMMA ImageFinite ==
    ASSUME NEW S, IsFiniteSet(S), NEW f, DOMAIN f = S
    PROVE  IsFiniteSet({f[x] : x \in S})
<1>. DEFINE T == {f[x] : x \in S}
            g == [x \in S |-> f[x]]
<1>1. g \in Surjection(S, T)
  BY DEF Surjection
<1>. QED  BY <1>1, FS_Surjection

LEMMA DdlFinite ==
    ASSUME RegistryTypeOK
    PROVE  IsFiniteSet(DdlNames)
<1>1. IsFiniteSet({Fold[v.name] : v \in views})
  <2>. DEFINE f == [v \in views |-> Fold[v.name]]
  <2>1. IsFiniteSet({f[v] : v \in views})
    BY ImageFinite DEF RegistryTypeOK
  <2>2. {f[v] : v \in views} = {Fold[v.name] : v \in views}
    OBVIOUS
  <2>. QED  BY <2>1, <2>2
<1>2. IsFiniteSet({Fold[mem[i].name] : i \in {j \in DOMAIN mem : mem[j] # Free}})
  <2>. DEFINE S == {j \in DOMAIN mem : mem[j] # Free}
              f == [i \in S |-> Fold[mem[i].name]]
  <2>1. S \subseteq 1..Len(mem) /\ Len(mem) \in Nat
    BY DEF RegistryTypeOK, IInv, TypeOK
  <2>2. IsFiniteSet(S)
    BY <2>1, FS_Interval, FS_Subset
  <2>. HIDE DEF S
  <2>3. IsFiniteSet({f[i] : i \in S})
    BY <2>2, ImageFinite
  <2>4. {f[i] : i \in S} = {Fold[mem[i].name] : i \in S}
    OBVIOUS
  <2>. QED  BY <2>3, <2>4 DEF S
<1>. QED  BY <1>1, <1>2, FS_Union DEF DdlNames

\* An unused source is in no table and on no record.
LEMMA UnusedApart ==
    ASSUME NEW o \in Unused
    PROVE  o \in Objects /\ o \notin Live /\ \A i \in DOMAIN pending : pending[i].id # o
BY DEF Unused, Queued

\* Steps that leave the catalog and what was created alone.
LEMMA RunKeeps ==
    ASSUME RegistryInv, UNCHANGED <<catalog, byIndex, pending, ddlObjects, created, dead, trapped>>,
           phase' \in Phases, phase' # "idle" => ~dead /\ (trapped <=> phase' = "replacing"),
           phase = "done" => phase' = "done"
    PROVE  RegistryInv'
<1>1. UNCHANGED vars /\ UNCHANGED <<tables, mem, views>>
  BY DEF catalog, vars
<1>2. IInv'
  BY <1>1, CatalogAssumption, StepInvariant DEF RegistryInv, RegistryTypeOK
<1>3. Live' = Live /\ DdlNames' = DdlNames
  BY <1>1 DEF Live, DdlNames
<1>4. RegistryTypeOK' /\ InStep' /\ SourcesApart'
  BY <1>1, <1>2, <1>3 DEF RegistryInv, RegistryTypeOK, InStep, SourcesApart
<1>5. RunHasEngine' /\ CreatedCounted'
  BY <1>3 DEF RegistryInv, RunHasEngine, CreatedCounted
<1>. QED  BY <1>4, <1>5 DEF RegistryInv

\* A record is declared that is not queued any more, or never was.
LEMMA DeclaredKeeps ==
    ASSUME RegistryInv, NEW r \in Record, r.id \notin Live, Declare(r),
           pending' \in Seq(Record),
           \A i, j \in DOMAIN pending' : pending'[i].id = pending'[j].id => i = j,
           \A i \in DOMAIN pending' : /\ pending'[i].id # r.id
                                      /\ pending'[i].id \notin Live,
           UNCHANGED <<phase, trapped, dead, ddlObjects, created>>
    PROVE  RegistryInv'
<1>1. /\ IInv' /\ InStep' /\ UNCHANGED <<mem, views>>
      /\ \A i, j \in DOMAIN tables' : tables'[i].id = tables'[j].id => i = j
      /\ Live' \subseteq Live \cup {r.id}
  BY DeclareKeeps DEF RegistryInv, RegistryTypeOK, SourcesApart
<1>2. DdlNames' = DdlNames
  BY <1>1 DEF DdlNames
<1>3. RegistryTypeOK' /\ SourcesApart'
  BY <1>1 DEF RegistryInv, RegistryTypeOK, SourcesApart
<1>4. RunHasEngine' /\ CreatedCounted'
  BY <1>2 DEF RegistryInv, RunHasEngine, CreatedCounted
<1>. QED  BY <1>1, <1>3, <1>4 DEF RegistryInv

LEMMA DbRegisterKeeps ==
    ASSUME RegistryInv, NEW n \in Names, DbRegister(n)
    PROVE  RegistryInv'
<1>1. PICK o \in Unused :
        LET r == [name |-> n, path |-> FALSE, id |-> o]
        IN  /\ ~dead /\ phase # "flushing"
            /\ IF phase = "idle" /\ ~trapped
               THEN Declare(r) /\ UNCHANGED pending
               ELSE /\ Len(pending) < MaxPending
                    /\ pending' = Append(pending, r)
                    /\ UNCHANGED <<catalog, byIndex>>
            /\ UNCHANGED <<phase, trapped, dead, ddlObjects, created>>
  BY DEF DbRegister
<1>. DEFINE r == [name |-> n, path |-> FALSE, id |-> o]
<1>2. r \in Record /\ r.id = o
  BY UnusedApart DEF Record
<1>3. r.id \notin Live /\ \A i \in DOMAIN pending : pending[i].id # r.id
  BY UnusedApart
<1>4. UNCHANGED <<phase, trapped, dead, ddlObjects, created>>
  BY <1>1
<1>5. CASE Declare(r) /\ UNCHANGED pending
  <2>. HIDE DEF r
  <2>. QED  BY <1>2, <1>3, <1>4, <1>5, DeclaredKeeps DEF RegistryInv, RegistryTypeOK, SourcesApart
<1>6. CASE pending' = Append(pending, r) /\ UNCHANGED <<catalog, byIndex>>
  <2>. HIDE DEF r
  <2>1. pending \in Seq(Record)
    BY DEF RegistryInv, RegistryTypeOK
  <2>2. /\ pending' \in Seq(Record)
        /\ \A i \in DOMAIN pending' : IF i \in DOMAIN pending THEN pending'[i] = pending[i]
                                      ELSE pending'[i] = r /\ i = Len(pending) + 1
    BY <1>2, <1>6, <2>1, AppendProperties, LenProperties
  <2>3. UNCHANGED vars /\ UNCHANGED <<tables, mem, views>>
    BY <1>6 DEF catalog, vars
  <2>4. IInv'
    BY <2>3, CatalogAssumption, StepInvariant DEF RegistryInv, RegistryTypeOK
  <2>5. Live' = Live /\ DdlNames' = DdlNames
    BY <2>3 DEF Live, DdlNames
  <2>6. SourcesApart'
    BY <1>3, <2>2, <2>3, <2>5 DEF RegistryInv, SourcesApart
  <2>7. RegistryTypeOK' /\ InStep'
    BY <1>4, <1>6, <2>2, <2>3, <2>4 DEF RegistryInv, RegistryTypeOK, InStep
  <2>8. RunHasEngine' /\ CreatedCounted'
    BY <1>4, <2>5 DEF RegistryInv, RunHasEngine, CreatedCounted
  <2>. QED  BY <2>6, <2>7, <2>8 DEF RegistryInv
<1>. QED  BY <1>1, <1>5, <1>6

\* What is queued goes with its head, whether that was declared, rejected or lost.
LEMMA TailKeeps ==
    ASSUME RegistryInv, pending # <<>>
    PROVE  /\ Head(pending) \in Record /\ Head(pending).id \notin Live
           /\ Tail(pending) \in Seq(Record)
           /\ \A i, j \in DOMAIN Tail(pending) : Tail(pending)[i].id = Tail(pending)[j].id => i = j
           /\ \A i \in DOMAIN Tail(pending) : /\ Tail(pending)[i].id # Head(pending).id
                                              /\ Tail(pending)[i].id \notin Live
<1>1. pending \in Seq(Record) /\ Len(pending) \in Nat \ {0}
  BY EmptySeq DEF RegistryInv, RegistryTypeOK
<1>2. /\ Head(pending) = pending[1] /\ 1 \in DOMAIN pending /\ pending[1] \in Record
      /\ Tail(pending) \in Seq(Record)
      /\ \A i \in DOMAIN Tail(pending) : /\ i + 1 \in DOMAIN pending /\ i \in Nat \ {0}
                                         /\ Tail(pending)[i] = pending[i + 1]
  BY <1>1, HeadTailProperties, LenProperties
<1>. QED  BY <1>2 DEF RegistryInv, SourcesApart

\* Head of the queue dropped without being declared.
LEMMA DropKeeps ==
    ASSUME RegistryInv, pending # <<>>, pending' = Tail(pending), UNCHANGED <<catalog, byIndex>>
    PROVE  IInv' /\ InStep' /\ SourcesApart' /\ pending' \in Seq(Record)
           /\ UNCHANGED <<tables, mem, views, DdlNames>>
<1>1. UNCHANGED vars /\ UNCHANGED <<tables, mem, views>>
  BY DEF catalog, vars
<1>2. IInv'
  BY <1>1, CatalogAssumption, StepInvariant DEF RegistryInv, RegistryTypeOK
<1>3. Live' = Live /\ DdlNames' = DdlNames
  BY <1>1 DEF Live, DdlNames
<1>. QED  BY <1>1, <1>2, <1>3, TailKeeps DEF RegistryInv, InStep, SourcesApart

LEMMA FlushOneKeeps ==
    ASSUME RegistryInv, FlushOne
    PROVE  RegistryInv'
<1>1. /\ pending # <<>> /\ pending' = Tail(pending) /\ phase = "flushing"
      /\ UNCHANGED <<trapped, dead, ddlObjects, created>>
  BY DEF FlushOne
<1>2. CASE Declare(Head(pending)) /\ UNCHANGED phase
  BY <1>1, <1>2, TailKeeps, DeclaredKeeps
<1>3. CASE phase' = "idle" /\ UNCHANGED <<catalog, byIndex>>
  <2>1. IInv' /\ InStep' /\ SourcesApart' /\ pending' \in Seq(Record)
        /\ UNCHANGED <<tables, mem, views, DdlNames>>
    BY <1>1, <1>3, DropKeeps
  <2>2. RegistryTypeOK'
    BY <1>1, <1>3, <2>1 DEF RegistryInv, RegistryTypeOK, Phases
  <2>3. RunHasEngine' /\ CreatedCounted'
    BY <1>1, <1>3, <2>1 DEF RegistryInv, RunHasEngine, CreatedCounted
  <2>. QED  BY <2>1, <2>2, <2>3 DEF RegistryInv
<1>. QED  BY <1>2, <1>3 DEF FlushOne

LEMMA OpenSqlPathKeeps ==
    ASSUME RegistryInv, NEW n \in Names, OpenSqlPath(n)
    PROVE  RegistryInv'
<1>1. PICK o \in Unused : Declare([name |-> n, path |-> TRUE, id |-> o])
  BY DEF OpenSqlPath
<1>. DEFINE r == [name |-> n, path |-> TRUE, id |-> o]
<1>2. r \in Record /\ r.id \notin Live /\ \A i \in DOMAIN pending : pending[i].id # r.id
  BY UnusedApart DEF Record
<1>3. Declare(r)
  BY <1>1
<1>4. UNCHANGED <<pending, phase, trapped, dead, ddlObjects, created>>
  BY DEF OpenSqlPath
<1>. HIDE DEF r
<1>. QED  BY <1>2, <1>3, <1>4, DeclaredKeeps DEF RegistryInv, RegistryTypeOK, SourcesApart

LEMMA DdlKeeps ==
    ASSUME RegistryInv, NEW n \in Names, Ddl(n)
    PROVE  RegistryInv'
<1>1. /\ \/ \E r \in BOOLEAN : MemCreate(n, r) \/ ViewCreate(n, r)
         \/ MemDrop(n) \/ MemWrite(n) \/ ViewDrop(n)
         \/ \E new \in Names : MemRename(n, new)
      /\ phase = "started" /\ phase' = "done"
      /\ Live' \cap {r.id : r \in Queued} = {}
      /\ UNCHANGED <<byIndex, pending, trapped, dead, ddlObjects, created>>
  BY DEF Ddl
<1>2. IInv'
  BY <1>1, StepInvariant DEF RegistryInv, RegistryTypeOK, Next, Statement
<1>3. UNCHANGED tables
  BY <1>1 DEF MemCreate, MemDrop, MemWrite, MemRename, ViewCreate, ViewDrop
<1>4. IsFiniteSet(views')
  <2>1. CASE UNCHANGED views
    BY <2>1 DEF RegistryInv, RegistryTypeOK
  <2>2. ASSUME NEW r \in BOOLEAN, ViewCreate(n, r) PROVE IsFiniteSet(views')
    <3>1. PICK v : views' = (views \ ViewsNamed(n)) \cup {v}
      BY <2>2 DEF ViewCreate
    <3>2. IsFiniteSet(views \ ViewsNamed(n))
      BY FS_Difference DEF RegistryInv, RegistryTypeOK
    <3>. QED  BY <3>1, <3>2, FS_AddElement
  <2>3. CASE ViewDrop(n)
    <3>1. views' = views \ ViewsNamed(n)
      BY <2>3 DEF ViewDrop
    <3>. QED  BY <3>1, FS_Difference DEF RegistryInv, RegistryTypeOK
  <2>. QED  BY <1>1, <2>1, <2>2, <2>3 DEF MemCreate, MemDrop, MemWrite, MemRename
<1>5. RegistryTypeOK' /\ InStep'
  BY <1>1, <1>2, <1>3, <1>4 DEF RegistryInv, RegistryTypeOK, InStep, Phases
<1>6. SourcesApart'
  <2>1. \A i \in DOMAIN pending : pending[i].id \notin Live'
    BY <1>1 DEF Queued
  <2>. QED  BY <1>1, <1>3, <2>1 DEF RegistryInv, SourcesApart
<1>7. RunHasEngine' /\ CreatedCounted'
  BY <1>1 DEF RegistryInv, RunHasEngine, CreatedCounted
<1>. QED  BY <1>5, <1>6, <1>7 DEF RegistryInv

LEMMA EndKeeps ==
    ASSUME RegistryInv, End
    PROVE  RegistryInv'
<1>1. /\ phase \in {"started", "done"} /\ phase' = "idle"
      /\ ddlObjects' = Cardinality(DdlNames) /\ created' = DdlNames
      /\ UNCHANGED <<catalog, byIndex, pending, trapped, dead>>
  BY DEF End
<1>2. UNCHANGED vars /\ UNCHANGED <<tables, mem, views>>
  BY <1>1 DEF catalog, vars
<1>3. IInv'
  BY <1>2, CatalogAssumption, StepInvariant DEF RegistryInv, RegistryTypeOK
<1>4. Live' = Live /\ DdlNames' = DdlNames
  BY <1>2 DEF Live, DdlNames
<1>5. Cardinality(DdlNames) \in Nat /\ (Cardinality(DdlNames) = 0 <=> DdlNames = {})
  BY DdlFinite, FS_EmptySet, FS_CardinalityType DEF RegistryInv
<1>6. RegistryTypeOK' /\ InStep' /\ SourcesApart'
  BY <1>1, <1>2, <1>3, <1>4, <1>5 DEF RegistryInv, RegistryTypeOK, InStep, SourcesApart, Phases
<1>7. RunHasEngine' /\ CreatedCounted'
  BY <1>1, <1>4, <1>5 DEF RegistryInv, RunHasEngine, CreatedCounted
<1>. QED  BY <1>6, <1>7 DEF RegistryInv

LEMMA TrapKeeps ==
    ASSUME RegistryInv, Trap
    PROVE  RegistryInv'
<1>1. /\ ~trapped /\ ~dead /\ trapped' = TRUE /\ dead' = (ddlObjects > 0) /\ phase' = "idle"
      /\ UNCHANGED <<catalog, byIndex, ddlObjects, created>>
      /\ UNCHANGED pending \/ (pending # <<>> /\ pending' = Tail(pending))
  BY DEF Trap
<1>2. /\ IInv' /\ InStep' /\ SourcesApart' /\ pending' \in Seq(Record)
      /\ UNCHANGED <<tables, mem, views, DdlNames>>
  <2>1. CASE pending # <<>> /\ pending' = Tail(pending)
    BY <1>1, <2>1, DropKeeps
  <2>2. CASE UNCHANGED pending
    <3>1. UNCHANGED vars /\ UNCHANGED <<tables, mem, views>>
      BY <1>1 DEF catalog, vars
    <3>2. IInv'
      BY <3>1, CatalogAssumption, StepInvariant DEF RegistryInv, RegistryTypeOK
    <3>3. Live' = Live /\ DdlNames' = DdlNames
      BY <3>1 DEF Live, DdlNames
    <3>. QED  BY <1>1, <2>2, <3>1, <3>2, <3>3 DEF RegistryInv, RegistryTypeOK, InStep, SourcesApart
  <2>. QED  BY <1>1, <2>1, <2>2
<1>3. RegistryTypeOK'
  BY <1>1, <1>2 DEF RegistryInv, RegistryTypeOK, Phases
<1>4. ddlObjects \in Nat /\ (~dead' => created' = {})
  <2>1. ddlObjects \in Nat /\ (ddlObjects = 0 => created' = {})
    BY <1>1 DEF RegistryInv, RegistryTypeOK, CreatedCounted
  <2>2. ASSUME ddlObjects # 0 PROVE dead'
    <3>1. ddlObjects > 0
      BY <2>1, <2>2
    <3>2. dead' = (ddlObjects > 0)
      BY Zenon DEF Trap
    <3>. QED  BY <3>1, <3>2, Zenon
  <2>. QED  BY <2>1, <2>2
<1>5. RunHasEngine' /\ CreatedCounted'
  BY <1>1, <1>2, <1>4 DEF RegistryInv, RunHasEngine, CreatedCounted
<1>. QED  BY <1>2, <1>3, <1>5 DEF RegistryInv

LEMMA ReplaceInstanceKeeps ==
    ASSUME RegistryInv, ReplaceInstance
    PROVE  RegistryInv'
<1>1. /\ phase = "replacing" /\ phase' = "flushing" /\ ddlObjects' = 0 /\ trapped' = FALSE
      /\ tables' = <<>> /\ mem' = <<>> /\ views' = {} /\ byIndex' = Nothing
      /\ pending' = ByTableIndex \o pending /\ UNCHANGED <<dead, created>>
  BY DEF ReplaceInstance
<1>2. tables \in Seq(Record) /\ pending \in Seq(Record)
  BY DEF RegistryInv, RegistryTypeOK, IInv, TypeOK, FileTable, Record
<1>3. ByTableIndex = tables
  BY <1>2, LenProperties DEF ByTableIndex, RegistryInv, InStep
<1>4. /\ pending' \in Seq(Record)
      /\ \A i \in DOMAIN pending' :
            IF i \in DOMAIN tables THEN pending'[i] = tables[i]
            ELSE i - Len(tables) \in DOMAIN pending /\ pending'[i] = pending[i - Len(tables)]
  BY <1>1, <1>2, <1>3, ConcatProperties, LenProperties
<1>5. IInv' /\ IsFiniteSet(views')
  BY <1>1, FS_EmptySet, EmptySeq DEF IInv, TypeOK, OneOwnerPerName, FileNamesUnique, MemNamesUnique,
                           ViewNamesUnique, KindsDisjoint
<1>6. RegistryTypeOK' /\ InStep'
  <2>1. InStep'
    BY <1>1 DEF InStep, Nothing
  <2>2. "flushing" \in Phases /\ dead \in BOOLEAN
    BY DEF Phases, RegistryInv, RegistryTypeOK
  <2>. QED  BY <1>1, <1>4, <1>5, <2>1, <2>2 DEF RegistryTypeOK
<1>7. SourcesApart'
  <2>1. Live' = {}
    BY <1>1 DEF Live
  <2>2. \A i \in DOMAIN tables : tables[i].id \in Live
    BY DEF Live
  <2>3. ASSUME NEW i \in DOMAIN pending', NEW j \in DOMAIN pending', pending'[i].id = pending'[j].id
        PROVE  i = j
    <3>1. i \in Int /\ j \in Int /\ Len(tables) \in Int
      BY <1>2, <1>4, LenProperties
    <3>2. CASE i \in DOMAIN tables /\ j \in DOMAIN tables
      BY <1>4, <2>3, <3>2 DEF RegistryInv, SourcesApart
    <3>3. CASE i \notin DOMAIN tables /\ j \notin DOMAIN tables
      <4>1. i - Len(tables) = j - Len(tables)
        BY <1>4, <2>3, <3>3 DEF RegistryInv, SourcesApart
      <4>. QED  BY <3>1, <4>1
    <3>4. CASE (i \in DOMAIN tables) # (j \in DOMAIN tables)
      BY <1>4, <2>2, <2>3, <3>4 DEF RegistryInv, SourcesApart
    <3>. QED  BY <3>2, <3>3, <3>4
  <2>. QED  BY <1>1, <2>1, <2>3 DEF SourcesApart
<1>8. created = {} /\ ~dead
  BY <1>1 DEF RegistryInv, RunHasEngine, CreatedCounted
<1>9. DdlNames' = {}
  BY <1>1 DEF DdlNames
<1>10. RunHasEngine' /\ CreatedCounted'
  BY <1>1, <1>8, <1>9 DEF RunHasEngine, CreatedCounted
<1>. QED  BY <1>6, <1>7, <1>10 DEF RegistryInv

LEMMA InitOK == RegistryInit => RegistryInv
<1>. SUFFICES ASSUME RegistryInit PROVE RegistryInv
  OBVIOUS
<1>1. /\ tables = <<>> /\ mem = <<>> /\ views = {} /\ byIndex = Nothing /\ pending = <<>>
      /\ phase = "idle" /\ trapped = FALSE /\ dead = FALSE /\ ddlObjects = 0 /\ created = {}
  BY DEF RegistryInit, Init
<1>2. IInv /\ IsFiniteSet(views) /\ pending \in Seq(Record)
  BY <1>1, FS_EmptySet, EmptySeq DEF IInv, TypeOK, OneOwnerPerName, FileNamesUnique,
                                     MemNamesUnique, ViewNamesUnique, KindsDisjoint
<1>3. DdlNames = {}
  BY <1>1 DEF DdlNames
<1>4. InStep
  BY <1>1 DEF InStep, Nothing
<1>5. SourcesApart
  BY <1>1 DEF SourcesApart
<1>6. RegistryTypeOK
  BY <1>1, <1>2 DEF RegistryTypeOK, Phases
<1>7. RunHasEngine /\ CreatedCounted
  BY <1>1, <1>3 DEF RunHasEngine, CreatedCounted
<1>. QED  BY <1>4, <1>5, <1>6, <1>7 DEF RegistryInv

LEMMA Inductive == RegistrySpec => []RegistryInv
<1>1. RegistryInv /\ [RegistryNext]_registry => RegistryInv'
  <2>. SUFFICES ASSUME RegistryInv, [RegistryNext]_registry PROVE RegistryInv'
    OBVIOUS
  <2>1. CASE Begin
    BY <2>1, RunKeeps DEF Begin, RegistryInv, RunHasEngine, Phases
  <2>2. CASE Flushed
    BY <2>2, RunKeeps DEF Flushed, RegistryInv, RunHasEngine, Phases
  <2>3. CASE UNCHANGED registry
    <3>1. UNCHANGED <<catalog, byIndex, pending, ddlObjects, created, dead, trapped, phase>>
      BY <2>3 DEF registry, catalog, vars
    <3>2. phase \in Phases /\ (phase # "idle" => ~dead /\ (trapped <=> phase = "replacing"))
      BY DEF RegistryInv, RegistryTypeOK, RunHasEngine
    <3>. QED  BY <3>1, <3>2, RunKeeps
  <2>. QED  BY <2>1, <2>2, <2>3, DbRegisterKeeps, OpenSqlPathKeeps, DdlKeeps, ReplaceInstanceKeeps,
               FlushOneKeeps, EndKeeps, TrapKeeps DEF RegistryNext
<1>. QED  BY <1>1, InitOK, PTL DEF RegistrySpec

(* The host serves every table index from the record that was registered    *)
(* for it, for any names, any folding and any sequence of re-registrations, *)
(* traps and replacements.                                                  *)
THEOREM RecordsAgree == RegistrySpec => []ByIndexAgrees
<1>1. RegistryInv => ByIndexAgrees
  BY DEF RegistryInv, InStep, ByIndexAgrees
<1>. QED  BY <1>1, Inductive, PTL

(* A table or view whose CREATE was reported is there until the database    *)
(* refuses every call: the count that register() and a trap go by is zero   *)
(* only when there is nothing to lose.                                      *)
THEOREM NothingCreatedIsLost == RegistrySpec => []NoSilentLoss
<1>1. RegistryInv => NoSilentLoss
  BY DEF RegistryInv, CreatedCounted, NoSilentLoss
<1>. QED  BY <1>1, Inductive, PTL

(* The names of the engine keep one owner each, under the host's calls too. *)
THEOREM OneOwnerUnderHost == RegistrySpec => []OneOwnerPerName
<1>1. RegistryInv => OneOwnerPerName
  BY DEF RegistryInv, RegistryTypeOK, IInv
<1>. QED  BY <1>1, Inductive, PTL

\* What a step of the host does to the engine's names: one of the catalog's own
\* steps, or a fresh engine.
LEMMA HostActs ==
    ASSUME RegistryInv, [RegistryNext]_registry
    PROVE  tables' = <<>> \/ [Next]_vars
<1>1. ASSUME NEW r \in Record, Declare(r) PROVE Next
  <2>1. r.name \in Names /\ (Register(r.name) \/ RegisterPath(r.name))
    BY <1>1 DEF Declare, Record
  <2>. QED  BY <2>1 DEF Next, Statement
<1>2. ASSUME NEW n \in Names, DbRegister(n) \/ OpenSqlPath(n) PROVE [Next]_vars
  <2>2. UNCHANGED catalog \/ \E r \in Record : Declare(r)
    BY <1>2, UnusedApart DEF DbRegister, OpenSqlPath, Record
  <2>. QED  BY <1>1, <2>2 DEF catalog
<1>3. ASSUME FlushOne PROVE [Next]_vars
  <2>1. UNCHANGED catalog \/ \E r \in Record : Declare(r)
    BY <1>3, TailKeeps DEF FlushOne
  <2>. QED  BY <1>1, <2>1 DEF catalog
<1>4. ASSUME NEW n \in Names, Ddl(n) PROVE Next
  BY <1>4 DEF Ddl, Next, Statement
<1>5. ASSUME Begin \/ Flushed \/ End \/ Trap \/ UNCHANGED registry PROVE [Next]_vars
  BY <1>5 DEF Begin, Flushed, End, Trap, registry, catalog
<1>6. ASSUME ReplaceInstance PROVE tables' = <<>>
  BY <1>6 DEF ReplaceInstance
<1>. QED  BY <1>2, <1>3, <1>4, <1>5, <1>6 DEF RegistryNext

(* What a statement writes and what it reads under a name are one table,    *)
(* whatever the host registered, queued and declared again.                 *)
THEOREM ReadsWritesUnderHost == RegistrySpec => []ReadsWhatIsWritten
<1>1. RegistryInv => ReadsWhatIsWritten
  BY ReadsWritesStep DEF RegistryInv, RegistryTypeOK
<1>. QED  BY <1>1, Inductive, PTL

(* A statement leaves names that are not its namesakes alone, a declaration *)
(* of the host included.                                                    *)
THEOREM OthersKeptUnderHost == RegistrySpec => OthersUndisturbed
<1>1. RegistryInv /\ [RegistryNext]_registry => [Undisturbed]_vars
  BY UndisturbedStep DEF RegistryInv, RegistryTypeOK
<1>. QED  BY <1>1, Inductive, PTL DEF RegistrySpec, OthersUndisturbed, Undisturbed

(* Under the host a path keeps its file until that spelling is registered   *)
(* again or the engine is lost.                                             *)
THEOREM PathsKeptUnderHost == RegistrySpec => PathsKeepTheirFile
<1>. DEFINE Kept == \A p \in Names :
                (\E i \in Exactly(p) : tables[i].path) /\ PathResolved(p)' # PathResolved(p)
                   => tables' = <<>> \/ Register(p) \/ RegisterPath(p)
<1>1. RegistryInv /\ [RegistryNext]_registry => [Kept]_vars
  BY HostActs, PathsStayStep DEF RegistryInv, RegistryTypeOK, PathsStay
<1>. QED  BY <1>1, Inductive, PTL DEF RegistrySpec, PathsKeepTheirFile

(* The table numbers of the host's records are good as long as the engine.  *)
THEOREM StableIndexesUnderHost == RegistrySpec => IndexesStable
<1>1. RegistryInv /\ [RegistryNext]_registry => [tables' = <<>> \/ Stable]_vars
  BY HostActs, StableStep DEF RegistryInv, RegistryTypeOK
<1>. QED  BY <1>1, Inductive, PTL DEF RegistrySpec, IndexesStable, Stable
----------------------------------------------------------------------------
(***************************************************************************)
(* What names read across a replacement.  A name is followed as long as no *)
(* record has it in another spelling: of two spellings one may lose to the *)
(* other, since a file keeps its index when it is registered again and     *)
(* files are declared again by index.                                      *)
(***************************************************************************)
Files == {tables[i] : i \in DOMAIN tables}
Of(q) == {q[i] : i \in DOMAIN q}

\* No record of S has the name n in another spelling.
Spelled(S, n) == \A r \in S : Fold[r.name] = Fold[n] => r.name = n

\* In a queue of records: the last namesake of n, and that there is none.
LastOf(q, n, i) ==
    /\ i \in DOMAIN q /\ Fold[q[i].name] = Fold[n]
    /\ \A j \in DOMAIN q : Fold[q[j].name] = Fold[n] => j <= i
NoneOf(q, n) == \A j \in DOMAIN q : Fold[q[j].name] # Fold[n]

\* The record t is what n reads once q is declared to an engine with the files F.
Due(q, F, n, t) ==
    \/ \E i \in DOMAIN q : LastOf(q, n, i) /\ t = q[i]
    \/ NoneOf(q, n) /\ t \in F /\ t.name = n

DueIds(q, F, n) == {t.id : t \in {r \in Record : Due(q, F, n, r)}}

\* From a replacement to the first statement after it, what a name read before is due,
\* and nothing created by SQL is in the way.
Undeclared == IF phase = "flushing" THEN pending ELSE <<>>

BeforeDue ==
    /\ DOMAIN before \subseteq Names
    /\ DOMAIN before # {} => phase \in {"flushing", "started"} /\ mem = <<>> /\ views = {}
    /\ \A n \in DOMAIN before :
         /\ Spelled(Files \cup Of(Undeclared), n)
         /\ before[n] = [ident |-> DueIds(Undeclared, Files, n), path |-> DueIds(Undeclared, Files, n)]

\* Files after a declaration.
After(F, h) == {f \in F : f.name # h.name} \cup {h}

LEMMA TailAt ==
    ASSUME NEW q \in Seq(Record), q # <<>>
    PROVE  /\ Len(q) \in Nat \ {0} /\ Head(q) = q[1] /\ DOMAIN q = 1 .. Len(q)
           /\ Head(q) \in Record /\ Tail(q) \in Seq(Record)
           /\ DOMAIN Tail(q) = 1 .. (Len(q) - 1)
           /\ \A i \in 1 .. (Len(q) - 1) : Tail(q)[i] = q[i + 1]
<1>1. Len(q) \in Nat \ {0} /\ q \in Seq(Record)
  BY EmptySeq, LenProperties
<1>. QED  BY <1>1, HeadTailProperties, LenProperties

LEMMA TailLast ==
    ASSUME NEW q \in Seq(Record), q # <<>>, NEW n \in Names
    PROVE  /\ NoneOf(q, n) <=> Fold[Head(q).name] # Fold[n] /\ NoneOf(Tail(q), n)
           /\ \A i \in 1 .. (Len(q) - 1) : LastOf(q, n, i + 1) <=> LastOf(Tail(q), n, i)
           /\ LastOf(q, n, 1) <=> Fold[Head(q).name] = Fold[n] /\ NoneOf(Tail(q), n)
<1>. DEFINE L == Len(q)  u == Tail(q)  Same(x) == Fold[x.name] = Fold[n]
<1>1. /\ L \in Nat \ {0} /\ Head(q) = q[1] /\ DOMAIN q = 1 .. L /\ DOMAIN u = 1 .. (L - 1)
      /\ \A i \in 1 .. (L - 1) : u[i] = q[i + 1]
  BY TailAt
<1>. HIDE DEF L, u
<1>2. \A j \in 1 .. L : j = 1 \/ (j - 1 \in 1 .. (L - 1) /\ u[j - 1] = q[j])
  <2>. TAKE j \in 1 .. L
  <2>1. j # 1 => j - 1 \in 1 .. (L - 1) /\ (j - 1) + 1 = j
    BY <1>1
  <2>. QED  BY <1>1, <2>1
<1>3. \A i \in 1 .. (L - 1) : i + 1 \in 1 .. L /\ i + 1 # 1 /\ u[i] = q[i + 1]
  BY <1>1
<1>4. 1 \in 1 .. L
  BY <1>1
<1>. HIDE DEF Same
<1>5. (\A j \in 1 .. L : ~Same(q[j])) <=> ~Same(q[1]) /\ \A i \in 1 .. (L - 1) : ~Same(u[i])
  BY <1>2, <1>3, <1>4
<1>6. ASSUME NEW i \in 1 .. (L - 1)
      PROVE  (\A j \in 1 .. L : Same(q[j]) => j <= i + 1) <=> (\A k \in 1 .. (L - 1) : Same(u[k]) => k <= i)
  <2>1. ASSUME \A j \in 1 .. L : Same(q[j]) => j <= i + 1, NEW k \in 1 .. (L - 1), Same(u[k])
        PROVE  k <= i
    <3>1. k + 1 \in 1 .. L /\ Same(q[k + 1])
      BY <1>3, <2>1
    <3>2. k + 1 <= i + 1
      BY <2>1, <3>1
    <3>. QED  BY <1>1, <3>2
  <2>2. ASSUME \A k \in 1 .. (L - 1) : Same(u[k]) => k <= i, NEW j \in 1 .. L, Same(q[j])
        PROVE  j <= i + 1
    <3>1. CASE j = 1
      BY <1>1, <3>1
    <3>2. CASE j # 1
      <4>1. j - 1 \in 1 .. (L - 1) /\ Same(u[j - 1])
        BY <1>2, <2>2, <3>2
      <4>2. j - 1 <= i
        BY <2>2, <4>1
      <4>. QED  BY <1>1, <4>2
    <3>. QED  BY <3>1, <3>2
  <2>. QED  BY <2>1, <2>2
<1>7. (\A j \in 1 .. L : Same(q[j]) => j <= 1) <=> (\A i \in 1 .. (L - 1) : ~Same(u[i]))
  <2>1. ASSUME \A j \in 1 .. L : Same(q[j]) => j <= 1, NEW i \in 1 .. (L - 1), Same(u[i]) PROVE FALSE
    <3>1. i + 1 \in 1 .. L /\ Same(q[i + 1])
      BY <1>3, <2>1
    <3>2. i + 1 <= 1
      BY <2>1, <3>1
    <3>. QED  BY <1>1, <3>2
  <2>2. ASSUME \A i \in 1 .. (L - 1) : ~Same(u[i]), NEW j \in 1 .. L, Same(q[j]) PROVE j <= 1
    <3>1. j = 1
      BY <1>2, <2>2
    <3>. QED  BY <3>1
  <2>. QED  BY <2>1, <2>2
<1>8. /\ NoneOf(q, n) <=> \A j \in 1 .. L : ~Same(q[j])
      /\ NoneOf(u, n) <=> \A i \in 1 .. (L - 1) : ~Same(u[i])
  BY <1>1 DEF NoneOf, Same
<1>9. /\ \A i : LastOf(q, n, i) <=> i \in 1 .. L /\ Same(q[i]) /\ \A j \in 1 .. L : Same(q[j]) => j <= i
      /\ \A i : LastOf(u, n, i) <=> /\ i \in 1 .. (L - 1) /\ Same(u[i])
                                    /\ \A j \in 1 .. (L - 1) : Same(u[j]) => j <= i
  BY <1>1 DEF LastOf, Same
<1>10. Same(q[1]) <=> Fold[Head(q).name] = Fold[n]
  BY <1>1 DEF Same
<1>11. \A i \in 1 .. (L - 1) : LastOf(q, n, i + 1) <=> LastOf(u, n, i)
  BY <1>3, <1>6, <1>9
<1>12. NoneOf(q, n) <=> Fold[Head(q).name] # Fold[n] /\ NoneOf(u, n)
  BY <1>5, <1>8, <1>10
<1>13. LastOf(q, n, 1) <=> Fold[Head(q).name] = Fold[n] /\ NoneOf(u, n)
  BY <1>4, <1>7, <1>8, <1>9, <1>10
<1>. QED  BY <1>11, <1>12, <1>13 DEF L, u

\* A declaration changes nothing that is due.
LEMMA DueDeclared ==
    ASSUME NEW q \in Seq(Record), q # <<>>, NEW F, NEW G, NEW n \in Names, NEW t,
           Spelled({Head(q)}, n), t.name = n => (t \in G <=> t \in After(F, Head(q)))
    PROVE  Due(q, F, n, t) <=> Due(Tail(q), G, n, t)
<1>. DEFINE u == Tail(q)  h == Head(q)  L == Len(q)
<1>1. /\ L \in Nat \ {0} /\ h = q[1] /\ DOMAIN q = 1 .. L /\ h \in Record
      /\ DOMAIN u = 1 .. (L - 1) /\ \A i \in 1 .. (L - 1) : u[i] = q[i + 1]
  BY TailAt
<1>2. /\ NoneOf(q, n) <=> Fold[h.name] # Fold[n] /\ NoneOf(u, n)
      /\ \A i \in 1 .. (L - 1) : LastOf(q, n, i + 1) <=> LastOf(u, n, i)
      /\ LastOf(q, n, 1) <=> Fold[h.name] = Fold[n] /\ NoneOf(u, n)
  BY TailLast
<1>0. Spelled({h}, n) /\ (t.name = n => (t \in G <=> t \in After(F, h)))
  OBVIOUS
<1>. HIDE DEF u, h, L
<1>3. (\E i \in DOMAIN q : LastOf(q, n, i) /\ t = q[i])
        <=> \/ Fold[h.name] = Fold[n] /\ NoneOf(u, n) /\ t = h
            \/ \E i \in DOMAIN u : LastOf(u, n, i) /\ t = u[i]
  <2>1. ASSUME NEW i \in DOMAIN q, LastOf(q, n, i), t = q[i]
        PROVE  \/ Fold[h.name] = Fold[n] /\ NoneOf(u, n) /\ t = h
               \/ \E k \in DOMAIN u : LastOf(u, n, k) /\ t = u[k]
    <3>1. CASE i = 1
      BY <1>1, <1>2, <2>1, <3>1
    <3>2. CASE i # 1
      <4>1. PICK k \in 1 .. (L - 1) : i = k + 1
        <5>1. i - 1 \in 1 .. (L - 1) /\ i = (i - 1) + 1
          BY <1>1, <3>2
        <5>. QED  BY <5>1
      <4>. QED  BY <1>1, <1>2, <2>1, <4>1
    <3>. QED  BY <3>1, <3>2
  <2>2. ASSUME Fold[h.name] = Fold[n], NoneOf(u, n), t = h
        PROVE  \E i \in DOMAIN q : LastOf(q, n, i) /\ t = q[i]
    BY <1>1, <1>2, <2>2
  <2>3. ASSUME NEW k \in DOMAIN u, LastOf(u, n, k), t = u[k]
        PROVE  \E i \in DOMAIN q : LastOf(q, n, i) /\ t = q[i]
    <3>1. k + 1 \in DOMAIN q /\ k \in 1 .. (L - 1)
      BY <1>1, <2>3
    <3>. QED  BY <1>1, <1>2, <2>3, <3>1
  <2>. QED  BY <2>1, <2>2, <2>3
<1>4. t \in G /\ t.name = n <=> \/ h.name = n /\ t = h
                                \/ h.name # n /\ t \in F /\ t.name = n
  BY <1>0 DEF After
<1>5. Fold[h.name] = Fold[n] <=> h.name = n
  BY <1>0 DEF Spelled
<1>6. Due(u, G, n, t)
        <=> \/ \E i \in DOMAIN u : LastOf(u, n, i) /\ t = u[i]
            \/ NoneOf(u, n) /\ t \in G /\ t.name = n
  BY DEF Due
<1>7. Due(q, F, n, t)
        <=> \/ \E i \in DOMAIN q : LastOf(q, n, i) /\ t = q[i]
            \/ NoneOf(q, n) /\ t \in F /\ t.name = n
  BY DEF Due
<1>8. Due(q, F, n, t) <=> Due(u, G, n, t)
  BY <1>2, <1>3, <1>4, <1>5, <1>6, <1>7
<1>. QED  BY <1>8 DEF u, h

\* What is declared again goes before the queue.
LEMMA DueReplaced ==
    ASSUME NEW T \in Seq(Record), NEW q \in Seq(Record), NEW n \in Names, NEW t,
           \A i, j \in DOMAIN T : T[i].name = T[j].name => i = j,
           Spelled(Of(T), n)
    PROVE  Due(q, {T[i] : i \in DOMAIN T}, n, t) <=> Due(T \o q, {}, n, t)
<1>. DEFINE u == T \o q  L == Len(T)  M == Len(q)  F == {T[i] : i \in DOMAIN T}
<1>1. /\ L \in Nat /\ M \in Nat /\ DOMAIN T = 1 .. L /\ DOMAIN q = 1 .. M /\ DOMAIN u = 1 .. (L + M)
      /\ \A i \in 1 .. L : u[i] = T[i]
      /\ \A i \in 1 .. (L + M) : i > L => u[i] = q[i - L]
  BY ConcatProperties, LenProperties
<1>. HIDE DEF u, L, M
<1>2. \A i \in 1 .. M : i + L \in DOMAIN u /\ u[i + L] = q[i]
  <2>. TAKE i \in 1 .. M
  <2>1. i + L \in 1 .. (L + M) /\ i + L > L /\ (i + L) - L = i
    BY <1>1
  <2>. QED  BY <1>1, <2>1
<1>3. \A i \in DOMAIN u : i \in 1 .. L \/ \E k \in 1 .. M : i = k + L
  <2>. TAKE i \in DOMAIN u
  <2>1. i \in 1 .. L \/ (i - L \in 1 .. M /\ i = (i - L) + L)
    BY <1>1
  <2>. QED  BY <2>1
<1>4. \A i \in 1 .. L : /\ i \in DOMAIN u /\ T[i] \in Record /\ T[i] \in F
                        /\ Fold[T[i].name] = Fold[n] <=> T[i].name = n
  <2>. TAKE i \in 1 .. L
  <2>1. i \in DOMAIN u /\ i \in DOMAIN T
    BY <1>1
  <2>2. T[i] \in Record
    BY <2>1, ElementOfSeq, <1>1
  <2>4. Fold[T[i].name] = Fold[n] <=> T[i].name = n
    BY <2>1 DEF Spelled, Of
  <2>. QED  BY <2>1, <2>2, <2>4
<1>5. \A i \in 1 .. L, k \in 1 .. M : i <= k + L /\ ~(k + L <= i)
  BY <1>1
<1>6. \A k, m \in 1 .. M : k + L <= m + L <=> k <= m
  BY <1>1
<1>7. ASSUME NEW j \in DOMAIN u, j \notin 1 .. L PROVE \E k \in 1 .. M : j = k + L /\ u[j] = q[k]
  <2>1. PICK k \in 1 .. M : j = k + L
    BY <1>3, <1>7
  <2>2. u[k + L] = q[k]
    BY <1>2
  <2>. QED  BY <2>1, <2>2
<1>8. ASSUME NoneOf(q, n), NEW j \in DOMAIN u, Fold[u[j].name] = Fold[n] PROVE j \in 1 .. L
  <2>1. SUFFICES ASSUME j \notin 1 .. L PROVE FALSE
    OBVIOUS
  <2>2. PICK k \in 1 .. M : u[j] = q[k]
    BY <1>7, <2>1
  <2>3. Fold[q[k].name] = Fold[n]
    BY <1>8, <2>2, Zenon
  <2>. QED  BY <1>1, <1>8, <2>3 DEF NoneOf
<1>9. CASE NoneOf(q, n)
  <2>1. \A i : LastOf(u, n, i) <=> i \in 1 .. L /\ T[i].name = n
    <3>1. ASSUME NEW i, LastOf(u, n, i) PROVE i \in 1 .. L /\ T[i].name = n
      <4>1. i \in DOMAIN u /\ Fold[u[i].name] = Fold[n]
        BY <3>1 DEF LastOf
      <4>2. i \in 1 .. L
        BY <1>9, <1>8, <4>1
      <4>3. u[i] = T[i]
        BY <1>1, <4>2
      <4>4. Fold[T[i].name] = Fold[n]
        BY <4>1, <4>3, Zenon
      <4>. QED  BY <1>4, <4>2, <4>4
    <3>2. ASSUME NEW i \in 1 .. L, T[i].name = n PROVE LastOf(u, n, i)
      <4>1. ASSUME NEW j \in DOMAIN u, Fold[u[j].name] = Fold[n] PROVE j <= i
        <5>1. j \in 1 .. L
          BY <1>9, <1>8, <4>1
        <5>2. T[j].name = n
          <6>1. u[j] = T[j]
            BY <1>1, <5>1
          <6>2. Fold[T[j].name] = Fold[n]
            BY <4>1, <6>1, Zenon
          <6>. QED  BY <1>4, <5>1, <6>2
        <5>3. j = i
          BY <1>1, <3>2, <5>1, <5>2
        <5>. QED  BY <1>1, <5>3
      <4>. QED  BY <1>1, <1>4, <3>2, <4>1 DEF LastOf
    <3>. QED  BY <3>1, <3>2
  <2>2. Due(u, {}, n, t) <=> \E i \in 1 .. L : T[i].name = n /\ t = T[i]
    BY <1>1, <1>4, <2>1 DEF Due
  <2>3. Due(q, F, n, t) <=> \E i \in 1 .. L : T[i].name = n /\ t = T[i]
    BY <1>1, <1>9 DEF Due, LastOf, NoneOf
  <2>. QED  BY <2>2, <2>3 DEF u
<1>10. CASE ~NoneOf(q, n)
  <2>1. PICK m \in 1 .. M : Fold[q[m].name] = Fold[n]
    BY <1>1, <1>10 DEF NoneOf
  <2>2. \A i \in 1 .. L : ~LastOf(u, n, i)
    BY <1>2, <1>5, <2>1 DEF LastOf
  <2>3. ASSUME NEW k \in 1 .. M PROVE LastOf(u, n, k + L) <=> LastOf(q, n, k)
    <3>1. ASSUME LastOf(u, n, k + L) PROVE LastOf(q, n, k)
      BY <1>1, <1>2, <1>6, <3>1 DEF LastOf
    <3>2. ASSUME LastOf(q, n, k) PROVE LastOf(u, n, k + L)
      <4>1. ASSUME NEW j \in DOMAIN u, Fold[u[j].name] = Fold[n] PROVE j <= k + L
        <5>1. CASE j \in 1 .. L
          BY <1>5, <5>1
        <5>2. CASE j \notin 1 .. L
          BY <1>1, <1>2, <1>3, <1>6, <3>2, <4>1, <5>2 DEF LastOf
        <5>. QED  BY <5>1, <5>2
      <4>. QED  BY <1>1, <1>2, <3>2, <4>1 DEF LastOf
    <3>. QED  BY <3>1, <3>2
  <2>4. ~NoneOf(u, n)
    BY <1>2, <2>1 DEF NoneOf
  <2>5. Due(u, {}, n, t) <=> \E k \in 1 .. M : LastOf(u, n, k + L) /\ t = u[k + L]
    <3>1. ASSUME NEW i \in DOMAIN u, LastOf(u, n, i), t = u[i]
          PROVE  \E k \in 1 .. M : LastOf(u, n, k + L) /\ t = u[k + L]
      BY <1>3, <2>2, <3>1
    <3>. QED  BY <1>2, <2>4, <3>1 DEF Due
  <2>6. Due(q, F, n, t) <=> \E k \in 1 .. M : LastOf(q, n, k) /\ t = q[k]
    BY <1>1, <1>10 DEF Due
  <2>7. Due(u, {}, n, t) <=> Due(q, F, n, t)
    BY <1>2, <2>3, <2>5, <2>6
  <2>. QED  BY <2>7 DEF u
<1>. QED  BY <1>9, <1>10

\* One of the namesakes is the last.
LEMMA LastFinds ==
    ASSUME NEW q \in Seq(Record), NEW n, ~NoneOf(q, n)
    PROVE  \E i : LastOf(q, n, i)
<1>. DEFINE I == {i \in DOMAIN q : Fold[q[i].name] = Fold[n]}
            S == {Len(q) - i : i \in I}
<1>1. Len(q) \in Nat /\ DOMAIN q = 1 .. Len(q) /\ I # {}
  BY LenProperties DEF NoneOf
<1>2. S \subseteq Nat /\ S # {}
  BY <1>1
<1>3. PICK m \in S : \A j \in S : ~ (<<j, m>> \in OpToRel(<, Nat))
  BY <1>2, WFMin, NatLessThanWellFounded, Zenon
<1>4. \A j \in S : ~(j < m)
  BY <1>2, <1>3 DEF OpToRel
<1>5. PICK i \in I : m = Len(q) - i
  BY <1>3
<1>6. ASSUME NEW j \in I PROVE j <= i
  <2>1. ~(Len(q) - j < Len(q) - i)
    BY <1>4, <1>5
  <2>. QED  BY <1>1, <2>1
<1>. QED  BY <1>6 DEF LastOf

LEMMA LastUnique ==
    ASSUME NEW q \in Seq(Record), NEW n, NEW i, NEW j, LastOf(q, n, i), LastOf(q, n, j)
    PROVE  i = j
<1>1. DOMAIN q = 1 .. Len(q) /\ Len(q) \in Nat
  BY LenProperties
<1>2. i \in Nat /\ j \in Nat /\ i <= j /\ j <= i
  BY <1>1 DEF LastOf
<1>. QED  BY <1>2

\* What FROM n and FROM 'n' read are the files of that name, one at most.
LEMMA FileReadIs ==
    ASSUME RegistryInv, NEW n \in Names, Spelled(Files, n)
    PROVE  FileRead(n) = [ident |-> {t.id : t \in {f \in Files : f.name = n}},
                          path |-> {t.id : t \in {f \in Files : f.name = n}}]
<1>. DEFINE E == Exactly(n)  ids == {t.id : t \in {f \in Files : f.name = n}}
<1>1. /\ tables \in Seq(Record) /\ \A i, j \in DOMAIN tables : tables[i].name = tables[j].name => i = j
      /\ \A i \in DOMAIN tables : tables[i].name \in Names
  <2>1. tables \in Seq(Record)
    BY DEF RegistryInv, RegistryTypeOK, IInv, TypeOK, FileTable, Record
  <2>2. \A i \in DOMAIN tables : tables[i] \in Record
    BY <2>1, ElementOfSeq, LenProperties
  <2>3. \A i \in DOMAIN tables : tables[i].name \in Names
    BY <2>2 DEF Record
  <2>. QED  BY <2>1, <2>3 DEF RegistryInv, RegistryTypeOK, IInv, OneOwnerPerName, FileNamesUnique
<1>2. E \in SUBSET Nat /\ 0 \notin E
  BY <1>1, LenProperties DEF Exactly
<1>3. (E = {} => First(E) = 0) /\ (E # {} => First(E) \in E /\ First(E) # 0)
  BY <1>2, FirstFinds, CatalogAssumption
<1>4. CASE E # {}
  <2>. DEFINE k == First(E)
  <2>1. k \in DOMAIN tables /\ tables[k].name = n /\ k # 0
    BY <1>3, <1>4 DEF Exactly
  <2>2. IndexOf(n) = k /\ PathIndexOf(n) = k
    BY <1>4, Zenon DEF IndexOf, PathIndexOf, Lookup
  <2>. HIDE DEF k
  <2>3. Resolved(n) = {tables[k].id} /\ PathResolved(n) = {tables[k].id}
    BY <2>1, <2>2, Zenon DEF Resolved, PathResolved
  <2>4. {f \in Files : f.name = n} = {tables[k]}
    BY <1>1, <2>1 DEF Files
  <2>5. ids = {tables[k].id}
    BY <2>4
  <2>. HIDE DEF ids
  <2>6. FileRead(n) = [ident |-> ids, path |-> ids]
    BY <2>1, <2>2, <2>3, <2>5, Zenon DEF FileRead
  <2>. QED  BY <2>6 DEF ids
<1>5. CASE E = {}
  <2>1. \A i \in DOMAIN tables : tables[i].name # n
    BY <1>5 DEF Exactly
  <2>2. \A c : Alike(n, c) = {}
    BY <2>1 DEF Alike, Spelled, Files
  <2>3. First({}) = 0
    BY Zenon DEF First
  <2>4. \A c : Lookup(n, c) = 0
    BY <1>5, <2>2, <2>3, Zenon DEF Lookup
  <2>5. IndexOf(n) = 0 /\ PathIndexOf(n) = 0
    BY <2>4, Zenon DEF IndexOf, PathIndexOf
  <2>6. FileRead(n) = [ident |-> {}, path |-> {}]
    BY <2>5, Zenon DEF FileRead, PathResolved
  <2>7. ids = {}
    BY <2>1 DEF Files
  <2>. QED  BY <2>6, <2>7
<1>. QED  BY <1>4, <1>5

LEMMA DeclareFiles ==
    ASSUME RegistryInv, NEW r \in Record, r.id \notin Live, Declare(r),
           NEW n \in Names, Spelled(Files \cup {r}, n)
    PROVE  /\ Files' \subseteq Files \cup {r}
           /\ \A t : t.name = n => (t \in Files' <=> t \in After(Files, r))
<1>1. /\ IInv' /\ DOMAIN tables \subseteq DOMAIN tables'
      /\ \E k \in DOMAIN tables' :
            /\ tables'[k] = r
            /\ k \in DOMAIN tables => Fold[tables[k].name] = Fold[r.name]
            /\ \A j \in DOMAIN tables' : j # k => j \in DOMAIN tables /\ tables'[j] = tables[j]
  BY DeclareKeeps DEF RegistryInv, RegistryTypeOK, SourcesApart
<1>2. PICK k \in DOMAIN tables' :
            /\ tables'[k] = r
            /\ k \in DOMAIN tables => Fold[tables[k].name] = Fold[r.name]
            /\ \A j \in DOMAIN tables' : j # k => j \in DOMAIN tables /\ tables'[j] = tables[j]
  BY <1>1
<1>3. \A i, j \in DOMAIN tables' : tables'[i].name = tables'[j].name => i = j
  BY <1>1 DEF IInv, OneOwnerPerName, FileNamesUnique
<1>4. Files' \subseteq Files \cup {r}
  BY <1>2 DEF Files
<1>5. ASSUME NEW t \in Files' PROVE t \in After(Files, r)
  <2>1. PICK j \in DOMAIN tables' : t = tables'[j]
    BY <1>5 DEF Files
  <2>2. CASE j = k
    BY <1>2, <2>1, <2>2 DEF After
  <2>3. CASE j # k
    BY <1>2, <1>3, <2>1, <2>3 DEF Files, After
  <2>. QED  BY <2>2, <2>3
<1>6. ASSUME NEW t \in After(Files, r), t.name = n PROVE t \in Files'
  <2>1. CASE t = r
    BY <1>2, <2>1 DEF Files
  <2>2. CASE t # r
    <3>1. PICK j \in DOMAIN tables : t = tables[j] /\ t.name # r.name
      BY <1>6, <2>2 DEF Files, After
    <3>2. j # k
      BY <1>2, <1>6, <3>1 DEF Spelled
    <3>. QED  BY <1>1, <1>2, <3>1, <3>2 DEF Files
  <2>. QED  BY <2>1, <2>2
<1>. QED  BY <1>4, <1>5, <1>6

\* What the host expects of a replacement is what is due before it.
LEMMA ExpectedIsDue ==
    ASSUME RegistryInv, NEW n \in DOMAIN Expected
    PROVE  /\ n \in Names /\ Spelled(Files \cup Of(pending), n)
           /\ Expected[n] = [ident |-> DueIds(pending, Files, n), path |-> DueIds(pending, Files, n)]
<1>. DEFINE D == {r \in Record : Due(pending, Files, n, r)}
            ids == DueIds(pending, Files, n)
<1>0. Known = Files /\ Queued = Of(pending)
  BY DEF Known, Queued, Files, Of, RegistryInv, InStep
<1>1. /\ n \in Names /\ Spelled(Files \cup Of(pending), n)
      /\ Expected[n] = IF Namesakes(n) = {} THEN FileRead(n)
                       ELSE [ident |-> {pending[Last(n)].id}, path |-> {pending[Last(n)].id}]
  BY <1>0 DEF Expected, Spelled
<1>2. /\ tables \in Seq(Record) /\ pending \in Seq(Record)
  BY DEF RegistryInv, RegistryTypeOK, IInv, TypeOK, FileTable, Record
<1>3. NoneOf(pending, n) <=> Namesakes(n) = {}
  BY DEF NoneOf, Namesakes
<1>4. CASE Namesakes(n) = {}
  <2>1. \A i : ~LastOf(pending, n, i)
    BY <1>4 DEF LastOf, Namesakes
  <2>2. Files \subseteq Record
    BY <1>2, ElementOfSeq DEF Files
  <2>3. D = {f \in Files : f.name = n}
    BY <1>3, <1>4, <2>1, <2>2 DEF Due
  <2>4. Spelled(Files, n)
    BY <1>1 DEF Spelled
  <2>. QED  BY <1>1, <1>4, <2>3, <2>4, FileReadIs DEF DueIds
<1>5. CASE Namesakes(n) # {}
  <2>1. PICK i : LastOf(pending, n, i)
    BY <1>2, <1>3, <1>5, LastFinds
  <2>2. i \in Namesakes(n) /\ \A j \in Namesakes(n) : j <= i
    BY <2>1 DEF LastOf, Namesakes
  <2>3. Last(n) \in Namesakes(n) /\ \A j \in Namesakes(n) : j <= Last(n)
    BY <2>2, Zenon DEF Last
  <2>4. LastOf(pending, n, Last(n))
    BY <2>3 DEF LastOf, Namesakes
  <2>. DEFINE k == Last(n)
  <2>. HIDE DEF k
  <2>5. \A m : LastOf(pending, n, m) <=> m = k
    BY <1>2, <2>4, LastUnique, Zenon DEF k
  <2>6. k \in DOMAIN pending /\ pending[k] \in Record
    BY <1>2, <2>5, ElementOfSeq DEF LastOf
  <2>7. \A r : Due(pending, Files, n, r) <=> r = pending[k]
    BY <1>3, <1>5, <2>5, <2>6 DEF Due
  <2>8. D = {pending[k]}
    BY <2>6, <2>7
  <2>9. ids = {pending[k].id}
    BY <2>8 DEF DueIds
  <2>. HIDE DEF ids
  <2>10. Expected[n] = [ident |-> ids, path |-> ids]
    BY <1>1, <1>5, <2>9, Zenon DEF k
  <2>. QED  BY <1>1, <2>10 DEF ids
<1>. QED  BY <1>4, <1>5
----------------------------------------------------------------------------
DueOK == RegistryInv /\ BeforeDue

LEMMA FilesAreRecords == ASSUME RegistryInv PROVE Files \subseteq Record
<1>1. tables \in Seq(Record)
  BY DEF RegistryInv, RegistryTypeOK, IInv, TypeOK, FileTable, Record
<1>. QED  BY <1>1, ElementOfSeq, LenProperties DEF Files

LEMMA ReplaceInstanceDue ==
    ASSUME DueOK, ReplaceInstance
    PROVE  BeforeDue'
<1>1. /\ phase' = "flushing" /\ tables' = <<>> /\ mem' = <<>> /\ views' = {}
      /\ pending' = ByTableIndex \o pending /\ before' = Expected
  BY DEF ReplaceInstance
<1>2. tables \in Seq(Record) /\ pending \in Seq(Record)
  BY DEF DueOK, RegistryInv, RegistryTypeOK, IInv, TypeOK, FileTable, Record
<1>3. ByTableIndex = tables
  BY <1>2, LenProperties DEF ByTableIndex, DueOK, RegistryInv, InStep
<1>4. \A i, j \in DOMAIN tables : tables[i].name = tables[j].name => i = j
  BY DEF DueOK, RegistryInv, RegistryTypeOK, IInv, OneOwnerPerName, FileNamesUnique
<1>5. Files' = {} /\ pending' = tables \o pending /\ Undeclared' = pending'
  BY <1>1, <1>3 DEF Files, Undeclared
<1>6. Of(pending') \subseteq Files \cup Of(pending)
  <2>1. \A i \in DOMAIN pending' : IF i \in DOMAIN tables THEN pending'[i] = tables[i]
            ELSE i - Len(tables) \in DOMAIN pending /\ pending'[i] = pending[i - Len(tables)]
    BY <1>2, <1>5, ConcatProperties, LenProperties
  <2>. QED  BY <2>1 DEF Of, Files
<1>7. ASSUME NEW n \in DOMAIN Expected
      PROVE  /\ n \in Names /\ Spelled(Files' \cup Of(pending'), n)
             /\ Expected[n] = [ident |-> DueIds(pending', Files', n), path |-> DueIds(pending', Files', n)]
  <2>1. /\ n \in Names /\ Spelled(Files \cup Of(pending), n)
        /\ Expected[n] = [ident |-> DueIds(pending, Files, n), path |-> DueIds(pending, Files, n)]
    BY <1>7, ExpectedIsDue DEF DueOK
  <2>2. Of(tables) = Files /\ Spelled(Of(tables), n)
    BY <2>1 DEF Of, Files, Spelled
  <2>3. \A t : Due(pending, Files, n, t) <=> Due(pending', Files', n, t)
    <3>. TAKE t
    <3>1. Due(pending, {tables[i] : i \in DOMAIN tables}, n, t) <=> Due(tables \o pending, {}, n, t)
      BY <1>2, <1>4, <2>1, <2>2, DueReplaced
    <3>. QED  BY <1>5, <3>1, Zenon DEF Files
  <2>4. DueIds(pending, Files, n) = DueIds(pending', Files', n)
    <3>1. {r \in Record : Due(pending, Files, n, r)} = {r \in Record : Due(pending', Files', n, r)}
      BY <2>3
    <3>. QED  BY <3>1, Zenon DEF DueIds
  <2>5. Spelled(Files' \cup Of(pending'), n)
    BY <1>5, <1>6, <2>1 DEF Spelled
  <2>. QED  BY <2>1, <2>4, <2>5, Zenon
<1>. QED  BY <1>1, <1>5, <1>7 DEF BeforeDue

LEMMA FlushOneDue ==
    ASSUME DueOK, FlushOne
    PROVE  BeforeDue'
<1>. DEFINE h == Head(pending)
<1>1. phase = "flushing" /\ pending # <<>> /\ pending' = Tail(pending) /\ UNCHANGED before
  BY DEF FlushOne
<1>2. /\ pending \in Seq(Record) /\ h \in Record /\ h.id \notin Live
  BY <1>1, TailKeeps DEF DueOK, RegistryInv, RegistryTypeOK
<1>3. h \in Of(pending) /\ Of(pending') \subseteq Of(pending)
  <2>1. /\ Len(pending) \in Nat \ {0} /\ h = pending[1] /\ DOMAIN pending = 1 .. Len(pending)
        /\ DOMAIN pending' = 1 .. (Len(pending) - 1)
        /\ \A i \in 1 .. (Len(pending) - 1) : pending'[i] = pending[i + 1]
    BY <1>1, <1>2, TailAt
  <2>. QED  BY <2>1 DEF Of
<1>4. CASE Rejected(h)
  <2>1. DOMAIN before = {}
    <3>1. SUFFICES ASSUME mem = <<>>, views = {} PROVE ~Rejected(h)
      BY <1>4 DEF DueOK, BeforeDue
    <3>2. MemIndexOf(h.name) = 0
      <4>1. {i \in DOMAIN mem : mem[i] # Free /\ Fold[mem[i].name] = Fold[h.name]} = {}
        BY <3>1
      <4>2. First({}) = 0
        BY Zenon DEF First
      <4>. QED  BY <4>1, <4>2, Zenon DEF MemIndexOf
    <3>3. ViewsNamed(h.name) = {}
      BY <3>1 DEF ViewsNamed
    <3>. QED  BY <3>2, <3>3 DEF Rejected
  <2>. QED  BY <1>1, <2>1 DEF BeforeDue
<1>5. CASE ~Rejected(h)
  <2>1. Declare(h) /\ UNCHANGED phase
    BY <1>5 DEF FlushOne
  <2>2. UNCHANGED <<mem, views>> /\ Undeclared = pending /\ Undeclared' = pending'
    BY <1>1, <1>2, <2>1, DeclareKeeps DEF DueOK, RegistryInv, RegistryTypeOK, SourcesApart, Undeclared
  <2>. HIDE DEF h
  <2>3. ASSUME NEW n \in DOMAIN before
        PROVE  /\ Spelled(Files' \cup Of(pending'), n)
               /\ before[n] = [ident |-> DueIds(pending', Files', n), path |-> DueIds(pending', Files', n)]
    <3>1. /\ n \in Names /\ Spelled(Files \cup Of(pending), n)
          /\ before[n] = [ident |-> DueIds(pending, Files, n), path |-> DueIds(pending, Files, n)]
      BY <2>2, <2>3 DEF DueOK, BeforeDue
    <3>2. Spelled(Files \cup {h}, n) /\ Spelled({h}, n)
      BY <1>3, <3>1 DEF Spelled
    <3>3. /\ Files' \subseteq Files \cup {h}
          /\ \A t : t.name = n => (t \in Files' <=> t \in After(Files, h))
      BY <1>2, <2>1, <3>1, <3>2, DeclareFiles DEF DueOK
    <3>4. \A t : Due(pending, Files, n, t) <=> Due(pending', Files', n, t)
      BY <1>1, <1>2, <3>1, <3>2, <3>3, DueDeclared DEF h
    <3>5. DueIds(pending, Files, n) = DueIds(pending', Files', n)
      <4>1. {r \in Record : Due(pending, Files, n, r)} = {r \in Record : Due(pending', Files', n, r)}
        BY <3>4
      <4>. QED  BY <4>1, Zenon DEF DueIds
    <3>6. Spelled(Files' \cup Of(pending'), n)
      BY <1>3, <3>1, <3>3 DEF Spelled
    <3>. QED  BY <3>1, <3>5, <3>6, Zenon
  <2>4. DOMAIN before \subseteq Names /\ (DOMAIN before # {} => mem = <<>> /\ views = {})
    BY DEF DueOK, BeforeDue
  <2>. QED  BY <1>1, <2>1, <2>2, <2>3, <2>4 DEF BeforeDue
<1>. QED  BY <1>4, <1>5

LEMMA DueInductive == RegistrySpec => []DueOK
<1>1. RegistryInit => BeforeDue
  BY DEF RegistryInit, BeforeDue, Nothing
<1>2. DueOK /\ [RegistryNext]_registry => BeforeDue'
  <2>. SUFFICES ASSUME DueOK, [RegistryNext]_registry PROVE BeforeDue'
    OBVIOUS
  <2>1. ASSUME before' = Nothing \/ (UNCHANGED before /\ DOMAIN before = {}) PROVE BeforeDue'
    BY <2>1 DEF BeforeDue, Nothing
  <2>2. ASSUME UNCHANGED <<tables, mem, views, before>>,
               DOMAIN before # {} => Undeclared' = Undeclared /\ phase' \in {"flushing", "started"}
        PROVE  BeforeDue'
    <3>1. Files' = Files
      BY <2>2 DEF Files
    <3>2. CASE DOMAIN before = {}
      BY <2>1, <2>2, <3>2
    <3>3. CASE DOMAIN before # {}
      BY <2>2, <3>1, <3>3 DEF DueOK, BeforeDue
    <3>. QED  BY <3>2, <3>3
  <2>3. CASE Begin
    <3>1. DOMAIN before = {} /\ UNCHANGED before
      BY <2>3 DEF Begin, DueOK, BeforeDue
    <3>. QED  BY <2>1, <3>1
  <2>4. CASE Flushed
    BY <2>2, <2>4 DEF Flushed, catalog, vars, Undeclared
  <2>5. CASE End \/ Trap
    BY <2>1, <2>5 DEF End, Trap
  <2>6. ASSUME NEW n \in Names, Ddl(n) \/ OpenSqlPath(n) PROVE BeforeDue'
    BY <2>1, <2>6 DEF Ddl, OpenSqlPath
  <2>7. ASSUME NEW n \in Names, DbRegister(n) PROVE BeforeDue'
    <3>1. phase # "flushing" /\ UNCHANGED <<phase, before>>
      BY <2>7 DEF DbRegister
    <3>2. CASE phase = "idle"
      BY <2>1, <3>1, <3>2 DEF DueOK, BeforeDue
    <3>3. CASE phase # "idle"
      <4>1. UNCHANGED <<tables, mem, views>>
        BY <2>7, <3>3 DEF DbRegister, catalog, vars
      <4>2. DOMAIN before # {} => phase \in {"flushing", "started"}
        BY DEF DueOK, BeforeDue
      <4>. QED  BY <2>2, <3>1, <4>1, <4>2 DEF Undeclared
    <3>. QED  BY <3>2, <3>3
  <2>8. CASE UNCHANGED registry
    <3>1. DOMAIN before # {} => phase \in {"flushing", "started"}
      BY DEF DueOK, BeforeDue
    <3>. QED  BY <2>2, <2>8, <3>1 DEF registry, catalog, vars, Undeclared
  <2>. QED  BY <2>3, <2>4, <2>5, <2>6, <2>7, <2>8, ReplaceInstanceDue, FlushOneDue DEF RegistryNext
<1>. QED  BY <1>1, <1>2, Inductive, PTL DEF RegistrySpec, DueOK

(* After a replacement a name reads what it read before, or what was        *)
(* registered since, when the next statement starts: for every set of names *)
(* and every folding, of the names that no record has in another spelling,  *)
(* through any queue of path and identifier records.                        *)
THEOREM ReplacementKeepsNames == RegistrySpec => []ReplacementTransparent
<1>1. DueOK => ReplacementTransparent
  <2>. SUFFICES ASSUME DueOK, phase = "started", NEW n \in DOMAIN before PROVE FileRead(n) = before[n]
    BY DEF ReplacementTransparent
  <2>1. /\ n \in Names /\ Spelled(Files \cup Of(<<>>), n)
        /\ before[n] = [ident |-> DueIds(<<>>, Files, n), path |-> DueIds(<<>>, Files, n)]
    BY DEF DueOK, BeforeDue, Undeclared
  <2>2. {r \in Record : Due(<<>>, Files, n, r)} = {f \in Files : f.name = n}
    <3>1. \A r : Due(<<>>, Files, n, r) <=> r \in Files /\ r.name = n
      BY DEF Due, LastOf, NoneOf
    <3>. QED  BY <3>1, FilesAreRecords DEF DueOK
  <2>3. FileRead(n) = [ident |-> {t.id : t \in {f \in Files : f.name = n}},
                       path |-> {t.id : t \in {f \in Files : f.name = n}}]
    <3>1. Spelled(Files, n)
      BY <2>1 DEF Spelled
    <3>. QED  BY <2>1, <3>1, FileReadIs DEF DueOK
  <2>. QED  BY <2>1, <2>2, <2>3 DEF DueIds
<1>. QED  BY <1>1, DueInductive, PTL
=============================================================================
