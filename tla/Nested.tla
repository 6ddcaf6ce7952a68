------------------------------- MODULE Nested -------------------------------
(***************************************************************************)
(* The columns of a Parquet file.  A schema is a list of elements in the   *)
(* order of a walk, each saying only how many children follow              *)
(* (parquet/schema.rs).  A subtree without a repeated element is a column  *)
(* for each leaf; one with a repeated element is one column of JSON        *)
(* documents, put together from the repetition and definition levels of    *)
(* its leaves (parquet/nested.rs).                                         *)
(***************************************************************************)
EXTENDS Pages

MaxSchemaDepth == 32
Dot == <<46>>
ArrayName == <<97, 114, 114, 97, 121>>         \* "array"
TupleSuffix == <<95, 116, 117, 112, 108, 101>> \* "_tuple"
KeyName == <<107, 101, 121>>                   \* "key"
ValueName == <<118, 97, 108, 117, 101>>        \* "value"

Required == 0
Optional == 1
Repeated == 2
Unstated == 3

\* The fields of a schema element.
TypeOf(e) == e[1]
HasType(e) == 1 \in DOMAIN e
LengthOf(e) == LET n == Field(e, 2, 0) IN IF n < 0 THEN 0 ELSE n
RepetitionOf(e) == Field(e, 3, Unstated)
NameOf(e) == Field(e, 4, <<>>)
ChildrenOf(e) == Field(e, 5, 0)
Converted(e) == Field(e, 6, -1)
Logical(e) == Field(e, 10, Nothing)

ConvertedTypes ==
    <<"Utf8", "Map", "MapKeyValue", "List", "Enum", "Decimal", "Date", "TimeMillis", "TimeMicros", "TimestampMillis",
      "TimestampMicros", "UTinyInt", "USmallInt", "UInt", "UBigInt", "TinyInt", "SmallInt", "Int", "BigInt", "Json",
      "Bson", "Interval">>
ConvertedName(e) == IF Converted(e) = -1 THEN "none" ELSE ConvertedTypes[Converted(e) + 1]

IsList(e) == ConvertedName(e) = "List" \/ 3 \in DOMAIN Logical(e)
ListOrMap(e) == IsList(e) \/ ConvertedName(e) \in {"Map", "MapKeyValue"} \/ 2 \in DOMAIN Logical(e)

-----------------------------------------------------------------------------
(* map_type: the logical type, else the converted one, else the physical   *)

Typed(ty, unit) == Got(1, [ty |-> ty, unit |-> unit])
Untyped == [Broken EXCEPT !.val = [ty |-> Ty("Null"), unit |-> "none"]]
DecimalOf(p, s) == IF p \in 1..MostDigits /\ s \in 0..p THEN Typed(DecimalTy(p, s), "none") ELSE Untyped

UnitOf(time) ==
    LET unit == DOMAIN Field(time, 2, Nothing)
    IN  IF 2 \in unit THEN "Micros" ELSE IF 3 \in unit THEN "Nanos" ELSE "Millis"
IntTypes == (<<8, TRUE>> :> "TinyInt" @@ <<16, TRUE>> :> "SmallInt" @@ <<32, TRUE>> :> "Int" @@ <<64, TRUE>> :> "BigInt"
             @@ <<8, FALSE>> :> "UTinyInt" @@ <<16, FALSE>> :> "USmallInt" @@ <<32, FALSE>> :> "UInt"
             @@ <<64, FALSE>> :> "UBigInt")

MapLogical(l) ==
    CASE DOMAIN l \cap {1, 4} # {} -> Typed(Ty("Varchar"), "none")
      [] 5 \in DOMAIN l -> DecimalOf(Field(l[5], 2, 0), Field(l[5], 1, 0))
      [] 6 \in DOMAIN l -> Typed(Ty("Date"), "none")
      [] 7 \in DOMAIN l -> Typed(Ty("Time"), UnitOf(l[7]))
      [] 8 \in DOMAIN l -> Typed(Ty(IF Field(l[8], 1, FALSE) THEN "Timestamptz" ELSE "Timestamp"), UnitOf(l[8]))
      [] 10 \in DOMAIN l ->
             LET key == <<Field(l[10], 1, 0), Field(l[10], 2, FALSE)>>
             IN  IF key \in DOMAIN IntTypes THEN Typed(Ty(IntTypes[key]), "none") ELSE Untyped
      [] 11 \in DOMAIN l -> Typed(Ty("Null"), "none")
      [] 12 \in DOMAIN l -> Typed(Ty("Json"), "none")
      [] 13 \in DOMAIN l -> Typed(Ty("Blob"), "none")
      [] 14 \in DOMAIN l -> Typed(Ty("Uuid"), "none")
      [] 15 \in DOMAIN l -> Typed(Ty("Float"), "none")
      [] OTHER -> Untyped

MapConverted(e) ==
    LET c == ConvertedName(e)
    IN  CASE c \in {"Utf8", "Enum"} -> Typed(Ty("Varchar"), "none")
          [] c = "Bson" -> Typed(Ty("Blob"), "none")
          [] c = "Decimal" -> DecimalOf(Field(e, 8, NarrowDigits), Field(e, 7, 0))
          [] c = "TimeMillis" -> Typed(Ty("Time"), "Millis")
          [] c = "TimeMicros" -> Typed(Ty("Time"), "Micros")
          [] c = "TimestampMillis" -> Typed(Ty("Timestamp"), "Millis")
          [] c = "TimestampMicros" -> Typed(Ty("Timestamp"), "Micros")
          [] c \in {"List", "Map", "MapKeyValue"} -> Untyped
          [] OTHER -> Typed(Ty(c), "none")

PhysicalTypes == <<"Boolean", "Int", "BigInt", "Timestamp", "Float", "Double", "Blob", "Blob">>
MapType(e) ==
    IF Logical(e) # Nothing THEN MapLogical(Logical(e))
    ELSE IF Converted(e) # -1 THEN MapConverted(e)
    ELSE Typed(Ty(PhysicalTypes[TypeOf(e) + 1]), "none")

-----------------------------------------------------------------------------
(* Columns of a schema *)

Node(name, repetition, def, deep, leaf, kids, first, unwrap) ==
    [name |-> name, repetition |-> repetition, def |-> def, deep |-> deep, leaf |-> leaf, kids |-> kids,
     first |-> first, unwrap |-> unwrap]
NoNode == Node(<<>>, Required, 0, 0, 0, <<>>, 0, FALSE)
Column(name, ty, nullable, phys, leaves, node) ==
    [name |-> name, ty |-> ty, nullable |-> nullable, phys |-> phys, leaves |-> leaves, node |-> node]

\* scan_repeated: whether the subtree has a repeated element, and where it ends.
RECURSIVE ScanRepeated(_, _, _), ScanChildren(_, _, _, _, _)
ScanChildren(schema, at, n, depth, found) ==
    IF n = 0 \/ at = 0 THEN Got(at, found)
    ELSE LET child == ScanRepeated(schema, at, depth)
         IN  ScanChildren(schema, child.at, n - 1, depth, found \/ child.val)
ScanRepeated(schema, at, depth) ==
    IF depth >= MaxSchemaDepth \/ at \notin DOMAIN schema THEN Got(0, FALSE)
    ELSE LET e == schema[at]
         IN  IF ChildrenOf(e) < 0 THEN Got(0, FALSE)
             ELSE ScanChildren(schema, at + 1, ChildrenOf(e), depth + 1, RepetitionOf(e) = Repeated)

\* build_nested_node.  first + the leaves so far is the number of the next column chunk.
\* Whether a group shows its only child in its own place is settled by the annotation of
\* the group above it.
ElementItself(list, r) == Len(r.kids) # 1 \/ r.name = ArrayName \/ r.name = NameOf(list) \o TupleSuffix
RECURSIVE BuildNode(_, _, _, _, _, _, _, _), BuildChildren(_, _, _, _, _, _, _, _, _)
BuildChildren(schema, at, n, def, deep, depth, first, leaves, kids) ==
    IF n = 0 \/ at = 0 THEN [at |-> at, kids |-> kids, leaves |-> leaves]
    ELSE LET name == IF at \in DOMAIN schema THEN NameOf(schema[at]) ELSE <<>>
             child == BuildNode(schema, at, name, def, deep, depth, first, leaves)
         IN  BuildChildren(schema, child.at, n - 1, def, deep, depth, first, child.leaves, Append(kids, child.node))
BuildNode(schema, at, name, parentDef, parentDeep, depth, first, leaves) ==
    LET e == schema[at]
        repetition == IF RepetitionOf(e) = Unstated THEN Required ELSE RepetitionOf(e)
        def == parentDef + (IF repetition # Required THEN 1 ELSE 0)
        deep == parentDeep + (IF repetition = Repeated THEN 1 ELSE 0)
        type == MapType(e)
        below == BuildChildren(schema, at + 1, ChildrenOf(e), def, deep, depth + 1, first, leaves, <<>>)
        unwrap == ListOrMap(e) /\ Len(below.kids) = 1 /\ below.kids[1].repetition = Repeated
        kids == IF unwrap /\ IsList(e) THEN <<[below.kids[1] EXCEPT !.unwrap = ~ElementItself(e, below.kids[1])]>>
                ELSE below.kids
        failed == [at |-> 0, node |-> NoNode, leaves |-> leaves]
    IN  IF depth >= MaxSchemaDepth \/ at \notin DOMAIN schema THEN failed
        ELSE IF ChildrenOf(e) < 0 THEN failed
        ELSE IF ChildrenOf(e) > 0
        THEN IF below.at = 0 THEN failed
             ELSE [at |-> below.at, leaves |-> below.leaves,
                   node |-> Node(name, repetition, def, deep, 0, kids, kids[1].first, unwrap)]
        ELSE IF ~HasType(e) THEN failed
        ELSE IF type.at = 0 THEN failed
        ELSE LET index == Len(leaves) + 1
             IN  [at |-> at + 1,
                  node |-> Node(name, repetition, def, deep, index, <<>>, index, FALSE),
                  leaves |-> Append(leaves, Leaf(TypeOf(e), type.val.ty, def, deep, LengthOf(e), type.val.unit, TRUE))]

\* resolve_node: the columns of the subtree at at; phys column chunks come before them.
NestedColumn(schema, at, name, def, depth, phys) ==
    LET built == BuildNode(schema, at, name, def, 0, depth, phys, <<>>)
    IN  IF built.at = 0 THEN Broken
        ELSE Got(built.at, <<Column(name, Ty("Json"), built.node.repetition = Optional,
                                    [i \in DOMAIN built.leaves |-> phys + i], built.leaves, built.node)>>)
FlatColumn(schema, at, name, def, phys) ==
    LET e == schema[at]
        type == MapType(e)
    IN  IF ~HasType(e) THEN Broken
        ELSE IF type.at = 0 THEN Broken
        ELSE Got(at + 1, <<Column(name, type.val.ty, RepetitionOf(e) # Required, <<phys + 1>>,
                                  <<Leaf(TypeOf(e), type.val.ty, def, 0, LengthOf(e), type.val.unit, FALSE)>>,
                                  NoNode)>>)

Chunks(columns) == FoldLeft(LAMBDA n, c : n + Len(c.phys), 0, columns)
RECURSIVE ResolveNode(_, _, _, _, _, _), ResolveChildren(_, _, _, _, _, _, _, _)
ResolveChildren(schema, at, n, prefix, def, depth, phys, columns) ==
    IF n = 0 \/ at = 0 THEN Got(at, columns)
    ELSE LET child == ResolveNode(schema, at, prefix, def, depth, phys + Chunks(columns))
         IN  ResolveChildren(schema, child.at, n - 1, prefix, def, depth, phys, columns \o child.val)
ResolveNode(schema, at, prefix, parentDef, depth, phys) ==
    LET e == schema[at]
        name == IF prefix = <<>> THEN NameOf(e) ELSE prefix \o Dot \o NameOf(e)
        scan == ScanRepeated(schema, at, depth)
        def == parentDef + (IF RepetitionOf(e) # Required THEN 1 ELSE 0)
    IN  IF scan.at = 0 THEN Broken
        ELSE IF scan.val THEN NestedColumn(schema, at, name, parentDef, depth, phys)
        ELSE IF ChildrenOf(e) > 0
        THEN ResolveChildren(schema, at + 1, ChildrenOf(e), name, def, depth + 1, phys, <<>>)
        ELSE FlatColumn(schema, at, name, def, phys)

ResolveSchema(schema) ==
    LET n == ChildrenOf(schema[1])
        columns == ResolveChildren(schema, 2, n, <<>>, 0, 0, 0, <<>>)
    IN  IF schema = <<>> THEN Broken
        ELSE IF n < 0 THEN Broken
        ELSE Needs(columns.at = Len(schema) + 1, columns)

\* shape(): what the elements of a nested column are, for the functions on lists and maps.
Shape(column) ==
    LET root == column.node
        leafTy(n) == IF n.leaf # 0 /\ n.repetition # Repeated THEN column.leaves[n.leaf].ty ELSE Ty("none")
        array == IF root.repetition = Repeated THEN root ELSE root.kids[1]
        orJson(ty) == IF ty = Ty("none") THEN Ty("Json") ELSE ty
        list(ty) == [is |-> "list", of |-> <<ty>>]
    IN  CASE root = NoNode -> [is |-> "any", of |-> <<>>]
          [] root.repetition # Repeated /\ (root.leaf # 0 \/ ~root.unwrap) -> [is |-> "any", of |-> <<>>]
          [] array.leaf # 0 -> list(column.leaves[array.leaf].ty)
          [] array.unwrap -> list(orJson(leafTy(array.kids[1])))
          [] Len(array.kids) = 2 /\ array.kids[1].name = KeyName /\ array.kids[2].name = ValueName
             /\ leafTy(array.kids[1]) # Ty("none") ->
                 [is |-> "map", of |-> <<leafTy(array.kids[1]), orJson(leafTy(array.kids[2]))>>]
          [] OTHER -> list(Ty("Json"))

-----------------------------------------------------------------------------
(* Putting documents together.  A cursor goes over the entries of a leaf,  *)
(* and over its values apart.                                              *)

Cursor(leaf, contents) ==
    [ty |-> leaf.ty, reps |-> contents.reps, defs |-> contents.defs, values |-> contents.values, pos |-> 1, used |-> 0]
AtEnd(cursor) == cursor.pos > Len(cursor.defs)

\* A document: null, a leaf of a kind of JSON value, a list or an object.
JsonNull == [j |-> "null", v |-> <<>>, of |-> <<>>]
JsonArray(items) == [j |-> "array", v |-> <<>>, of |-> items]
JsonObject(names, items) == [j |-> "object", v |-> names, of |-> items]
JsonKind(ty) ==
    CASE ty.is = "Boolean" -> "bool"
      [] ty.is = "Json" -> "document"
      [] ty.is \in {"Varchar", "Blob", "Uuid", "Date", "Time", "Timestamp", "Timestamptz", "Interval"} -> "string"
      [] OTHER -> "number"
JsonLeaf(ty, v) == [j |-> JsonKind(ty), v |-> <<v>>, of |-> <<>>]

Assembled(ok, doc, cursors) == [at |-> IF ok THEN 1 ELSE 0, val |-> doc, cursors |-> cursors]
RECURSIVE ConsumeBoundary(_, _)
ConsumeBoundary(node, cursors) ==
    IF node.leaf # 0 THEN [cursors EXCEPT ![node.leaf].pos = @ + 1]
    ELSE FoldLeft(LAMBDA c, kid : ConsumeBoundary(kid, c), cursors, node.kids)

TakeLeafValue(leaf, cursors) ==
    LET c == cursors[leaf]
    IN  IF c.used >= Len(c.values) THEN Assembled(FALSE, JsonNull, cursors)
        ELSE Assembled(TRUE, JsonLeaf(c.ty, c.values[c.used + 1]),
                       [cursors EXCEPT ![leaf].pos = @ + 1, ![leaf].used = @ + 1])

RECURSIVE Assemble(_, _), AssembleItems(_, _, _), Render(_, _), RenderFields(_, _, _, _)
Assemble(node, cursors) ==
    LET c == cursors[node.first]
    IN  IF AtEnd(c) THEN Assembled(FALSE, JsonNull, cursors)
        ELSE IF node.repetition = Repeated THEN AssembleItems(node, cursors, <<>>)
        ELSE IF c.defs[c.pos] < node.def THEN Assembled(TRUE, JsonNull, ConsumeBoundary(node, cursors))
        ELSE Render(node, cursors)
AssembleItems(node, cursors, items) ==
    LET c == cursors[node.first]
    IN  IF AtEnd(c) THEN Assembled(FALSE, JsonNull, cursors)
        ELSE IF c.defs[c.pos] < node.def THEN Assembled(TRUE, JsonArray(items), ConsumeBoundary(node, cursors))
        ELSE LET item == Render(node, cursors)
                 next == item.cursors[node.first]
             IN  IF item.at = 0 THEN item
                 ELSE IF ~AtEnd(next) /\ next.reps[next.pos] >= node.deep
                 THEN AssembleItems(node, item.cursors, Append(items, item.val))
                 ELSE Assembled(TRUE, JsonArray(Append(items, item.val)), item.cursors)
Render(node, cursors) ==
    IF node.leaf # 0 THEN TakeLeafValue(node.leaf, cursors)
    ELSE IF node.unwrap THEN Assemble(node.kids[1], cursors)
    ELSE RenderFields(node, node.kids, cursors, <<>>)
RenderFields(node, kids, cursors, items) ==
    IF kids = <<>>
    THEN Assembled(TRUE, JsonObject([i \in DOMAIN node.kids |-> node.kids[i].name], items), cursors)
    ELSE LET item == Assemble(Head(kids), cursors)
         IN  IF item.at = 0 THEN item
             ELSE RenderFields(node, Tail(kids), item.cursors, Append(items, item.val))

RECURSIVE AssembleRows(_, _, _, _)
AssembleRows(node, cursors, n, done) ==
    IF n = 0 THEN Needs(\A i \in DOMAIN cursors : AtEnd(cursors[i]), Got(1, done))
    ELSE LET row == Assemble(node, cursors)
         IN  IF row.at = 0 THEN Broken
             ELSE AssembleRows(node, row.cursors, n - 1,
                               Append(done, IF row.val = JsonNull THEN <<>> ELSE <<row.val>>))

\* read_nested_column; chunks are those of the column's leaves: [codec, buf, start].
ReadNestedColumn(column, chunks, rows, cache) ==
    LET contents == [i \in DOMAIN chunks |->
                        ReadLeafChunk(column.leaves[i], chunks[i].codec, chunks[i].buf, chunks[i].start, rows, cache)]
                    \o <<>>
    IN  IF \E i \in DOMAIN chunks : contents[i].at = 0 THEN Broken
        ELSE AssembleRows(column.node, [i \in DOMAIN chunks |-> Cursor(column.leaves[i], contents[i].val)] \o <<>>, rows, <<>>)
=============================================================================
