------------------------------ MODULE Shredding ------------------------------
(***************************************************************************)
(* What the bytes of a Parquet file mean, by the definition of the format: *)
(* records are shredded into levels and values, and a writer is free in    *)
(* how it lays them out: in pages of either version, cut anywhere, in any  *)
(* encoding and codec, with fields a reader does not know.  However it     *)
(* does, the rows read are the rows written.                               *)
(***************************************************************************)
EXTENDS Pruning

-----------------------------------------------------------------------------
(* What a leaf can be: how it is stored, what its schema element says, the *)
(* type it has here, and some of its values as they are stored and as they *)
(* are meant.  A value of a row is the number of one of them.              *)

Storage(ptype, len, says, ty, json, samples) ==
    [ptype |-> ptype, len |-> len, says |-> says, ty |-> ty, json |-> json, samples |-> samples]
Signs == <<<<<<253>>, -3>>, <<<<5>>, 5>>, <<<<127>>, 127>>>>
Wide(a, b) == <<<<<<254, 255>>, a>>, <<<<44, 1>>, b>>>>
Text(letter) == <<<<<<letter, 98>>, <<letter, 98>>>>, <<<<>>, <<>>>>, <<<<letter, 99, 99>>, <<letter, 99, 99>>>>>>
OfText(says, ty, json) == Storage(Physical.BYTE_ARRAY, 0, says, Ty(ty), json, Text(97))
Conv(n) == <<FieldI32(6, n)>>
Logic(fields) == <<FieldStruct(10, fields)>>
Unit(id, utc, unit) == Logic(<<FieldStruct(id, <<FieldBool(1, utc), FieldStruct(2, <<FieldStruct(unit, <<>>)>>)>>)>>)
Kinds ==
    [bool |-> Storage(0, 0, <<>>, Ty("Boolean"), "bool", <<<<<<1>>, TRUE>>, <<<<0>>, FALSE>>>>),
     int |-> Storage(1, 0, <<>>, Ty("Int"), "number", Signs),
     tiny |-> Storage(1, 0, Conv(15), Ty("TinyInt"), "number", <<<<<<248>>, -8>>, <<<<7>>, 7>>>>),
     utiny |-> Storage(1, 0, Logic(IntMember(8, FALSE)), Ty("UTinyInt"), "number", <<<<<<15>>, 15>>, <<<<0>>, 0>>>>),
     small |-> Storage(1, 0, Conv(16), Ty("SmallInt"), "number", <<<<<<224>>, -32>>, <<<<31>>, 31>>>>),
     uint |-> Storage(1, 0, Conv(13), Ty("UInt"), "number", <<<<<<253>>, 253>>, <<<<5>>, 5>>>>),
     ubig |-> Storage(2, 0, Logic(IntMember(64, FALSE)), Ty("UBigInt"), "number", Wide(65534, 300)),
     big |-> Storage(2, 0, <<>>, Ty("BigInt"), "number", Wide(-2, 300)),
     date |-> Storage(1, 0, Logic(<<FieldStruct(6, <<>>)>>), Ty("Date"), "string", Signs),
     timeMillis |-> Storage(1, 0, Conv(7), Ty("Time"), "string", <<<<<<5>>, 50>>, <<<<7>>, 70>>>>),
     millis |-> Storage(2, 0, Conv(9), Ty("Timestamp"), "string", Wide(-20, 3000)),
     nanos |-> Storage(2, 0, Unit(8, TRUE, 3), Ty("Timestamptz"), "string", Wide(0, 30)),
     micros |-> Storage(2, 0, Unit(8, FALSE, 2), Ty("Timestamp"), "string", Wide(-2, 300)),
     int96 |-> Storage(3, 0, <<>>, Ty("Timestamp"), "string", <<<<<<25, 0, 101>>, 52>>, <<<<0, 1, 99>>, -25>>>>),
     float |-> Storage(4, 0, <<>>, Ty("Float"), "number", <<<<<<3>>, 768>>, <<<<0>>, 0>>>>),
     double |-> Storage(5, 0, <<>>, Ty("Double"), "number", <<<<<<1, 2>>, 513>>, <<<<0, 0>>, 0>>, <<<<255, 255>>, NaN>>>>),
     decimal |-> Storage(1, 0, <<FieldI32(7, 1), FieldI32(8, 3)>> \o Conv(5), DecimalTy(3, 1), "number", Signs),
     fixed |-> Storage(7, 2, Logic(DecimalMember(4, 2)), DecimalTy(4, 2), "number", <<<<<<255, 254>>, -2>>, <<<<1, 44>>, 300>>>>),
     wide |-> Storage(7, 3, Logic(DecimalMember(6, 0)), DecimalTy(6, 0), "number", <<<<<<255, 0, 0>>, -65536>>, <<<<1, 0, 1>>, 65537>>>>),
     bytes |-> Storage(6, 0, Logic(DecimalMember(4, 0)), DecimalTy(4, 0), "number", <<<<<<>>, 0>>, <<<<255>>, -1>>, <<<<1, 44>>, 300>>>>),
     varchar |-> OfText(Conv(0), "Varchar", "string"),
     enum |-> OfText(Logic(<<FieldStruct(4, <<>>)>>), "Varchar", "string"),
     blob |-> OfText(<<>>, "Blob", "string"),
     json |-> OfText(Conv(19), "Json", "document"),
     uuid |-> Storage(7, 3, Logic(EmptyMember(14)), Ty("Uuid"), "string", <<<<<<1, 2, 3>>, <<1, 2, 3>>>>>>),
     interval |-> Storage(7, 3, Conv(21), Ty("Interval"), "string", <<<<<<255, 2, 3>>, <<-1, 2, 30>>>>>>)]
Says(kind, sample) == Kinds[kind].samples[sample][2]
Stored(kind, sample) == Kinds[kind].samples[sample][1]

-----------------------------------------------------------------------------
(* Schemas.  pass: a group that is not seen in a document, its only child  *)
(* is shown in its place.  A slot is the value of a required node, of an   *)
(* optional one <<>> or <<value>>, of a repeated one the sequence of its   *)
(* values; the value of a group is the slots of its children.              *)

Of(name, rep, kind) == [name |-> name, rep |-> rep, kind |-> kind, says |-> <<>>, pass |-> FALSE, kids |-> <<>>]
Group(name, rep, says, pass, kids) ==
    [name |-> name, rep |-> rep, kind |-> "", says |-> says, pass |-> pass, kids |-> kids]

ElementOf(node) ==
    LET storage == Kinds[node.kind]
        type == IF node.kids # <<>> THEN <<>>
                ELSE <<FieldI32(1, storage.ptype)>> \o (IF storage.len > 0 THEN <<FieldI32(2, storage.len)>> ELSE <<>>)
    IN  PutStruct(type \o <<FieldI32(3, node.rep), FieldBinary(4, node.name)>>
                  \o (IF node.kids # <<>> THEN <<FieldI32(5, Len(node.kids))>> \o node.says ELSE storage.says))
RECURSIVE ElementsOf(_)
ElementsOf(node) == <<ElementOf(node)>> \o FlattenSeq([i \in DOMAIN node.kids |-> ElementsOf(node.kids[i])])

RECURSIVE LeavesOf(_), Repeats(_)
LeavesOf(node) == IF node.kids = <<>> THEN <<node>> ELSE FlattenSeq([i \in DOMAIN node.kids |-> LeavesOf(node.kids[i])])
Repeats(node) == node.rep = Repeated \/ \E i \in DOMAIN node.kids : Repeats(node.kids[i])

\* The levels and values of each leaf below node.
Entry(r, d, v) == [r |-> r, d |-> d, v |-> v]
RECURSIVE Shred(_, _, _, _, _)
Contained(node, value, r, d, deep) ==
    IF node.kids = <<>> THEN <<<<Entry(r, d, <<value>>)>>>>
    ELSE FlattenSeq([i \in DOMAIN node.kids |-> Shred(node.kids[i], value[i], r, d, deep)])
Shred(node, slot, r, d, deep) ==
    IF node.rep = Required THEN Contained(node, slot, r, d, deep)
    ELSE IF slot = <<>> THEN [l \in DOMAIN LeavesOf(node) |-> <<Entry(r, d, <<>>)>>] \o <<>>
    ELSE IF node.rep = Optional THEN Contained(node, slot[1], r, d + 1, deep)
    ELSE LET items == [k \in DOMAIN slot |-> Contained(node, slot[k], IF k = 1 THEN r ELSE deep + 1, d + 1, deep + 1)] \o <<>>
         IN  [l \in DOMAIN LeavesOf(node) |-> FlattenSeq([k \in DOMAIN items |-> items[k][l]])] \o <<>>

RECURSIVE FullLevel(_, _), DeepLevel(_, _)
FullLevel(node, d) ==
    LET here == d + (IF node.rep = Required THEN 0 ELSE 1)
    IN  IF node.kids = <<>> THEN <<here>> ELSE FlattenSeq([i \in DOMAIN node.kids |-> FullLevel(node.kids[i], here)])
DeepLevel(node, r) ==
    LET here == r + (IF node.rep = Repeated THEN 1 ELSE 0)
    IN  IF node.kids = <<>> THEN <<here>> ELSE FlattenSeq([i \in DOMAIN node.kids |-> DeepLevel(node.kids[i], here)])

\* The document a slot is shown as, and the columns of a row.
RECURSIVE Shown(_, _), Spread(_, _, _)
Document(node, value) ==
    IF node.kids = <<>> THEN [j |-> Kinds[node.kind].json, v |-> <<Says(node.kind, value)>>, of |-> <<>>]
    ELSE IF node.pass THEN Shown(node.kids[1], value[1])
    ELSE JsonObject([i \in DOMAIN node.kids |-> node.kids[i].name],
                    [i \in DOMAIN node.kids |-> Shown(node.kids[i], value[i])])
Shown(node, slot) ==
    IF node.rep = Required THEN Document(node, slot)
    ELSE IF node.rep = Repeated THEN JsonArray([k \in DOMAIN slot |-> Document(node, slot[k])])
    ELSE IF slot = <<>> THEN JsonNull ELSE Document(node, slot[1])

\* What the elements of a column of documents are, if one is a list or a map.
AnyShape == [is |-> "any", of |-> <<>>]
ListOfTypes(ty) == [is |-> "list", of |-> <<ty>>]
TypeAt(node) == IF node.kids = <<>> /\ node.rep # Repeated THEN Kinds[node.kind].ty ELSE Ty("Json")
ShapeOf(node) ==
    LET r == IF node.rep = Repeated THEN node ELSE node.kids[1]
    IN  CASE node.rep # Repeated /\ ~node.pass -> AnyShape
          [] r.kids = <<>> -> ListOfTypes(Kinds[r.kind].ty)
          [] r.pass -> ListOfTypes(TypeAt(r.kids[1]))
          [] ~r.pass /\ [i \in DOMAIN r.kids |-> r.kids[i].name] = <<KeyName, ValueName>> /\ r.kids[1].kids = <<>> ->
                 [is |-> "map", of |-> <<TypeAt(r.kids[1]), TypeAt(r.kids[2])>>]
          [] OTHER -> ListOfTypes(Ty("Json"))

\* The columns of a node without a repeated one below it, given a slot or that there is none.
Spread(node, prefix, there) ==
    LET name == IF prefix = <<>> THEN node.name ELSE prefix \o Dot \o node.name
        value == IF there = <<>> \/ node.rep = Required THEN there ELSE there[1]
    IN  IF node.kids = <<>>
        THEN <<[name |-> name, ty |-> Kinds[node.kind].ty, shape |-> AnyShape,
                v |-> [k \in DOMAIN value |-> Says(node.kind, value[k])]]>>
        ELSE FlattenSeq([i \in DOMAIN node.kids |->
                 Spread(node.kids[i], name, IF value = <<>> THEN <<>> ELSE <<value[1][i]>>)])
ColumnsOf(node, slot) ==
    IF Repeats(node)
    THEN <<[name |-> node.name, ty |-> Ty("Json"), shape |-> ShapeOf(node),
            v |-> IF Shown(node, slot) = JsonNull THEN <<>> ELSE <<Shown(node, slot)>>]>>
    ELSE Spread(node, <<>>, <<slot>>)
RowOf(nodes, row) == FlattenSeq([i \in DOMAIN nodes |-> ColumnsOf(nodes[i], row[i])])

-----------------------------------------------------------------------------
(* A writer.  how: the version of the pages, the codec, the encoding, how  *)
(* many entries to a page, how levels are written, what the metadata says  *)
(* of where the chunk begins; what is wrong with the file, if anything;    *)
(* and what helps a reader to leave parts of it out.                       *)

Plainly == [v2 |-> FALSE, codec |-> Codecs.NONE, enc |-> Encodings.PLAIN, cut |-> 3, levels |-> "runs",
            index |-> FALSE, squeeze |-> TRUE, bare |-> FALSE, start |-> "apart", harm |-> "none", step |-> 0,
            stats |-> "none", bloom |-> "none", guide |-> FALSE]

LowBits(n, width) == [k \in 1..width |-> (n \div 2^(k - 1)) % 2]
Filled(bits) ==
    [b \in 1..DivCeil(Len(bits), 8) |->
        FoldLeft(LAMBDA sum, k : sum + (IF 8 * (b - 1) + k \in DOMAIN bits THEN bits[8 * (b - 1) + k] * 2^(k - 1) ELSE 0),
                 0, [k \in 1..8 |-> k])]
BitsOf(levels, width) == FlattenSeq([i \in DOMAIN levels |-> LowBits(levels[i], width)])
Grouped(levels, width) ==
    IF levels = <<>> THEN <<>>
    ELSE PutUvarint(2 * DivCeil(Len(levels), 8) + 1)
         \o Filled(BitsOf(levels \o Repeat(8 * DivCeil(Len(levels), 8) - Len(levels), 0), width))
RECURSIVE Runs(_, _)
Runs(levels, width) ==
    IF levels = <<>> THEN <<>>
    ELSE LET n == CHOOSE n \in DOMAIN levels : /\ \A k \in 1..n : levels[k] = levels[1]
                                               /\ n = Len(levels) \/ levels[n + 1] # levels[1]
         IN  PutUvarint(2 * n) \o LowBytes(levels[1], DivCeil(width, 8)) \o Runs(From(levels, n + 1), width)
Hybrid(style, levels, width) ==
    LET half == Len(levels) \div 2
    IN  CASE style = "runs" -> Runs(levels, width)
          [] style = "groups" -> Grouped(levels, width)
          [] style = "both" -> Runs(SubSeq(levels, 1, half), width) \o Grouped(From(levels, half + 1), width)

\* Differences, less the smallest of a block, in as many bits as the largest of a miniblock takes.
RECURSIVE DeltaBlocksOf(_, _)
DeltaBlocksOf(ds, minis) ==
    IF ds = <<>> THEN <<>>
    ELSE LET block == SubSeq(ds, 1, Least(32 * minis, Len(ds)))
             low == CHOOSE d \in Range(block) : \A e \in Range(block) : d <= e
             mini(m) == [i \in 1..Least(32, Len(block) - 32 * (m - 1)) |-> block[32 * (m - 1) + i] - low] \o <<>>
             width(m) == BitWidth(CHOOSE d \in Range(mini(m)) : \A e \in Range(mini(m)) : d >= e)
             used == DivCeil(Len(block), 32)
         IN  PutZigzag(low) \o [m \in 1..minis |-> IF m <= used THEN width(m) ELSE 7]
             \o FlattenSeq([m \in 1..used |-> Filled(BitsOf(mini(m) \o Repeat(32 - Len(mini(m)), 0), width(m)))])
             \o DeltaBlocksOf(From(ds, Len(block) + 1), minis)
DeltaOf(ints, bits, minis) ==
    PutUvarint(32 * minis) \o PutUvarint(minis) \o PutUvarint(Len(ints)) \o PutZigzag(IF ints = <<>> THEN 0 ELSE ints[1])
    \o DeltaBlocksOf([i \in 1..(Len(ints) - 1) |-> Wrapped(ints[i + 1] - ints[i], bits)], minis)
Lengths(items) == [i \in DOMAIN items |-> Len(items[i])]
Shared(a, b) == CHOOSE n \in 0..Least(Len(a), Len(b)) :
                   /\ SubSeq(a, 1, n) = SubSeq(b, 1, n)
                   /\ n = Least(Len(a), Len(b)) \/ a[n + 1] # b[n + 1]

Distinct(items) == FoldLeft(LAMBDA seen, b : IF b \in Range(seen) THEN seen ELSE Append(seen, b), <<>>, items)
PlainOf(ptype, items) ==
    CASE ptype = Physical.BOOLEAN -> Filled([i \in DOMAIN items |-> items[i][1]])
      [] ptype = Physical.BYTE_ARRAY -> FlattenSeq([i \in DOMAIN items |-> FourBytes(Len(items[i])) \o items[i]])
      [] OTHER -> FlattenSeq(items)
Encoded(ptype, how, items, dictionary) ==
    LET bits == IF ptype = Physical.INT32 THEN IntBits ELSE 2 * IntBits
        place(b) == (CHOOSE i \in DOMAIN dictionary : dictionary[i] = b) - 1
        prefix == [i \in DOMAIN items |-> IF i = 1 THEN 0 ELSE Shared(items[i - 1], items[i])] \o <<>>
        suffixes == [i \in DOMAIN items |-> From(items[i], prefix[i] + 1)] \o <<>>
        width == BitWidth(Len(dictionary))
    IN  CASE how.enc = Encodings.PLAIN -> PlainOf(ptype, items)
          [] how.enc \in {Encodings.RLE_DICTIONARY, Encodings.PLAIN_DICTIONARY} ->
                 <<width>> \o Hybrid(how.levels, [i \in DOMAIN items |-> place(items[i])] \o <<>>, width)
          [] how.enc = Encodings.DELTA ->
                 DeltaOf([i \in DOMAIN items |-> Wrapped(LittleEndian(items[i]), bits)] \o <<>>, bits, 2)
          [] how.enc = Encodings.DELTA_LENGTH -> DeltaOf(Lengths(items), IntBits, 1) \o FlattenSeq(items)
          [] how.enc = Encodings.DELTA_STRINGS ->
                 DeltaOf(prefix, IntBits, 2) \o DeltaOf(Lengths(suffixes), IntBits, 1) \o FlattenSeq(suffixes)
          [] how.enc = Encodings.RLE ->
                 LET bytes == Hybrid(how.levels, [i \in DOMAIN items |-> items[i][1]], 1)
                 IN  IF how.v2 THEN bytes ELSE FourBytes(Len(bytes)) \o bytes

Squeezed(codec, bytes) == IF codec = Codecs.NONE THEN bytes ELSE Deflated(bytes)
PutPage(type, id, size, raw, fields) ==
    PutStruct(<<FieldI32(1, type), FieldI32(2, size), FieldI32(3, Len(raw)), FieldStruct(id, fields)>>) \o raw
Prefixed4(bytes) == FourBytes(Len(bytes)) \o bytes

\* A page of entries of a leaf whose path has full definition and deep repetition levels.
PageOf(ptype, full, deep, entries, how, dictionary) ==
    LET present == SelectSeq(entries, LAMBDA e : e.v # <<>>)
        data == Encoded(ptype, how, [i \in DOMAIN present |-> present[i].v[1]] \o <<>>, dictionary)
        levels(f(_), max) == IF max = 0 THEN <<>>
                             ELSE Hybrid(how.levels, [i \in DOMAIN entries |-> f(entries[i])] \o <<>>, BitWidth(max))
        reps == levels(LAMBDA e : e.r, deep)
        defs == IF how.bare /\ how.v2 /\ Len(present) = Len(entries) THEN <<>> ELSE levels(LAMBDA e : e.d, full)
        v1 == (IF deep = 0 THEN <<>> ELSE Prefixed4(reps)) \o (IF full = 0 THEN <<>> ELSE Prefixed4(defs)) \o data
        codec == IF how.squeeze THEN how.codec ELSE Codecs.NONE
        n == FieldI32(1, Len(entries))
        levelEncoding(max) == IF max = 0 \/ how.harm = "levels" THEN Encodings.BIT_PACKED ELSE Encodings.RLE
        over == IF how.harm = "size" THEN 1 ELSE 0
    IN  IF how.v2
        THEN PutPage(PageTypes.dataV2, 8, Len(reps) + Len(defs) + Len(data) + over, reps \o defs \o Squeezed(codec, data),
                     <<n, FieldI32(2, Len(entries) - Len(present)), FieldI32(3, 1), FieldI32(4, how.enc),
                       FieldI32(5, Len(defs)), FieldI32(6, Len(reps))>>
                     \o (IF how.squeeze THEN <<>> ELSE <<FieldBool(7, FALSE)>>))
        ELSE PutPage(PageTypes.data, 5, Len(v1) + over, Squeezed(how.codec, v1),
                     <<n, FieldI32(2, how.enc), FieldI32(3, levelEncoding(full)), FieldI32(4, levelEncoding(deep))>>)

\* The pages of a chunk: of the dictionary, if there is one, and of how.cut entries each; in
\* version 2 a record is never cut.
Cutting(entries, how) ==
    SelectSeq([i \in DOMAIN entries |-> i],
              LAMBDA i : i = 1 \/ ((i - 1) % how.cut = 0 /\ (~how.v2 \/ entries[i].r = 0)))
WrittenChunk(kind, full, deep, entries, how) ==
    LET ptype == Kinds[kind].ptype
        dictionary == Distinct(FlattenSeq([i \in DOMAIN entries |-> entries[i].v]))
        kept == IF how.harm = "index" THEN Front(dictionary) ELSE dictionary
        plain == PlainOf(ptype, kept)
        indexed == how.enc \in {Encodings.RLE_DICTIONARY, Encodings.PLAIN_DICTIONARY} /\ how.harm # "dictionary"
        starts == Cutting(entries, how)
        piece(k) == SubSeq(entries, starts[k], IF k = Len(starts) THEN Len(entries) ELSE starts[k + 1] - 1)
    IN  [kind |-> kind,
         dict |-> IF indexed THEN PutPage(PageTypes.dictionary, 7, Len(plain), Squeezed(how.codec, plain),
                                          <<FieldI32(1, Len(kept)), FieldI32(2, Encodings.PLAIN)>>) ELSE <<>>,
         index |-> IF how.index THEN PutPage(PageTypes.index, 6, 2, <<1, 2>>, <<>>) ELSE <<>>,
         pages |-> [k \in DOMAIN starts |-> PageOf(ptype, full, deep, piece(k), how, dictionary)] \o <<>>,
         pieces |-> [k \in DOMAIN starts |-> piece(k)] \o <<>>,
         rows |-> [k \in DOMAIN starts |-> Cardinality({i \in 1..(starts[k] - 1) : entries[i].r = 0})] \o <<>>,
         whole |-> \A k \in DOMAIN starts : entries[starts[k]].r = 0]

\* What there is in a piece of a column, and the least and the greatest of it, as they are
\* stored: a NaN is neither, and of what has no order nothing is said.
ItemsOf(entries) == {entries[i].v[1] : i \in {k \in DOMAIN entries : entries[k].v # <<>>}}
SaysOf(kind, bytes) == Says(kind, CHOOSE s \in DOMAIN Kinds[kind].samples : Stored(kind, s) = bytes)
Ordered(kind) == IsNumeric(Kinds[kind].ty) \/ IsTemporal(Kinds[kind].ty)
BoundsOf(kind, items) ==
    LET says(b) == SaysOf(kind, b)
        counted == {b \in items : says(b) # NaN \/ Kinds[kind].ty.is # "Double"}
    IN  IF ~Ordered(kind) \/ counted = {} THEN <<>>
        ELSE <<CHOOSE b \in counted : \A c \in counted : says(b) <= says(c),
               CHOOSE b \in counted : \A c \in counted : says(b) >= says(c)>>

\* The older fields hold what is no bound at all, as some writers put in; others mix up the
\* two.
StatisticsOf(chunk, how) ==
    LET bounds == BoundsOf(chunk.kind, ItemsOf(FlattenSeq(chunk.pieces)))
        old == <<FieldBinary(1, bounds[1]), FieldBinary(2, bounds[1])>>
    IN  IF bounds = <<>> \/ how.stats = "none" THEN <<>>
        ELSE <<FieldStruct(12, CASE how.stats = "old" -> old
                                 [] how.stats = "half" -> old \o <<FieldBinary(6, bounds[1])>>
                                 [] how.stats = "turned" -> <<FieldBinary(5, bounds[1]), FieldBinary(6, bounds[2])>>
                                 [] how.stats = "both" -> old \o <<FieldBinary(5, bounds[2]), FieldBinary(6, bounds[1])>>)>>

\* A zero may be put in as the other zero.
KeyOf(ptype, bytes) ==
    IF ptype \in {Physical.FLOAT, Physical.DOUBLE} /\ LittleEndian(bytes) = 0 THEN <<128>> ELSE bytes
BloomOf(chunk, how) ==
    LET keys == {KeyOf(Kinds[chunk.kind].ptype, b) : b \in ItemsOf(FlattenSeq(chunk.pieces))}
        blocks == IF how.bloom = "short" THEN 1 ELSE 2
        set == {256 * BlockIndex(key, blocks) + 32 * (i - 1) + BitOf(key, i) : key \in keys, i \in DOMAIN Salt}
        only(id) == FieldStruct(id, <<FieldStruct(1, <<>>)>>)
    IN  IF how.bloom = "none" THEN <<>>
        ELSE PutStruct(<<FieldI32(1, BlockBytes * blocks), only(2), only(3), only(4)>>)
             \o Filled([i \in 1..(8 * BlockBytes * blocks) |-> IF i - 1 \in set THEN 1 ELSE 0])

\* The bounds of each page, unless one has values and none; and where it is.
ColumnIndexOf(chunk, how) ==
    LET bounds == [k \in DOMAIN chunk.pieces |-> BoundsOf(chunk.kind, ItemsOf(chunk.pieces[k]))] \o <<>>
        empty == [k \in DOMAIN chunk.pieces |-> ItemsOf(chunk.pieces[k]) = {}] \o <<>>
        said(k, i) == FieldBinary(0, IF empty[k] THEN <<>> ELSE bounds[k][i]).payload
        of(i) == [k \in DOMAIN bounds |-> said(k, i)]
    IN  IF ~how.guide \/ ~chunk.whole \/ ~Ordered(chunk.kind) \/ \E k \in DOMAIN bounds : bounds[k] = <<>> /\ ~empty[k] THEN <<>>
        ELSE PutStruct(<<FieldList(1, Types.true, [k \in DOMAIN empty |-> IF empty[k] THEN <<1>> ELSE <<2>>]),
                         FieldList(2, Types.binary, of(1)), FieldList(3, Types.binary, of(2)), FieldI32(4, 0)>>)
OffsetIndexOf(chunk, at, how) ==
    LET start(k) == at + Len(FlattenSeq(SubSeq(chunk.pages, 1, k - 1)))
        place(k) == PutStruct(<<FieldI64(1, start(k)), FieldI32(2, Len(chunk.pages[k])), FieldI64(3, chunk.rows[k])>>)
    IN  IF ~how.guide \/ ~chunk.whole THEN <<>>
        ELSE PutStruct(<<FieldList(1, Types.struct, [k \in DOMAIN chunk.pages |-> place(k)])>>)

ChunkMeta(leaf, chunk, at, n, how) ==
    LET size == Len(chunk.dict) + Len(chunk.index) + Len(FlattenSeq(chunk.pages))
        data == IF chunk.dict = <<>> \/ how.start = "equal" THEN at
                ELSE IF how.start = "zero" THEN 0 ELSE at + Len(chunk.dict)
        stated == IF how.harm = "short" THEN size - 1 ELSE size
    IN  <<FieldI32(1, Kinds[leaf.kind].ptype), FieldList(2, Types.i32, <<PutZigzag(how.enc)>>),
          FieldList(3, Types.binary, <<FieldBinary(0, leaf.name).payload>>), FieldI32(4, how.codec),
          FieldI64(5, n), FieldI64(6, size), FieldI64(7, stated), FieldI64(9, data)>>
        \o (IF chunk.dict = <<>> THEN <<>> ELSE <<FieldI64(11, at)>>) \o StatisticsOf(chunk, how)
        \o (IF how.bloom = "none" THEN <<>>
            ELSE <<FieldI64(14, at + size)>> \o (IF how.bloom = "sized" THEN <<FieldI32(15, Len(BloomOf(chunk, how)))>> ELSE <<>>))

\* The leaves' entries over the rows of a group.
GroupEntries(nodes, rows) ==
    LET shredded == [i \in DOMAIN rows |->
                        FlattenSeq([c \in DOMAIN nodes |-> Shred(nodes[c], rows[i][c], 0, 0, 0)])] \o <<>>
        raw(leaf, e) == [e EXCEPT !.v = [k \in DOMAIN @ |-> Stored(leaf.kind, @[k])]]
        leaves == FlattenSeq([c \in DOMAIN nodes |-> LeavesOf(nodes[c])])
    IN  [l \in DOMAIN leaves |->
            FlattenSeq([i \in DOMAIN rows |-> [k \in DOMAIN shredded[i][l] |-> raw(leaves[l], shredded[i][l][k])] \o <<>>])] \o <<>>

FileOf(nodes, groups, how) ==
    LET leaves == FlattenSeq([c \in DOMAIN nodes |-> LeavesOf(nodes[c])])
        full == FlattenSeq([c \in DOMAIN nodes |-> FullLevel(nodes[c], 0)])
        deep == FlattenSeq([c \in DOMAIN nodes |-> DeepLevel(nodes[c], 0)])
        chunked(entries, l) ==
            WrittenChunk(leaves[l].kind, full[l], deep[l], entries[l], [how EXCEPT !.cut = @ + how.step * (l - 1)])
        put(file, entries, l) ==
            LET chunk == chunked(entries, l)
                meta == ChunkMeta(leaves[l], chunk, Len(file.out), Len(entries[l]), how)
                first == Len(file.out) + Len(chunk.dict) + Len(chunk.index)
                bloom == BloomOf(chunk, how)
                columnIndex == ColumnIndexOf(chunk, how)
                offsetIndex == OffsetIndexOf(chunk, first, how)
                after == first + Len(FlattenSeq(chunk.pages)) + Len(bloom)
                at(id, off, bytes) == IF bytes = <<>> THEN <<>> ELSE <<FieldI64(id, off), FieldI32(id + 1, Len(bytes))>>
            IN  [file EXCEPT !.out = @ \o chunk.dict \o chunk.index \o FlattenSeq(chunk.pages) \o bloom \o columnIndex \o offsetIndex,
                             !.chunks = Append(@, PutStruct(<<FieldI64(2, Len(file.out))>>
                                 \o (IF how.harm = "meta" THEN <<>> ELSE <<FieldStruct(3, meta)>>)
                                 \o at(4, after + Len(columnIndex), offsetIndex) \o at(6, after, columnIndex)))]
        group(file, rows) ==
            LET entries == GroupEntries(nodes, rows)
                with == FoldLeft(LAMBDA f, l : put(f, entries, l), [file EXCEPT !.chunks = <<>>],
                                 [l \in DOMAIN leaves |-> l])
                n == Len(rows) + (IF how.harm = "rows" THEN 1 ELSE 0)
            IN  [with EXCEPT !.groups = Append(@, PutStruct(<<FieldList(1, Types.struct, with.chunks),
                                                              FieldI64(2, 0), FieldI64(3, n)>>))]
        written == FoldLeft(group, [out |-> Magic, chunks |-> <<>>, groups |-> <<>>], groups)
        root == PutStruct(<<FieldBinary(4, RootName),
                            FieldI32(5, Len(nodes) + (IF how.harm = "schema" THEN 1 ELSE 0))>>)
        footer == PutStruct(<<FieldI32(1, 2),
                              FieldList(2, Types.struct, <<root>> \o FlattenSeq([c \in DOMAIN nodes |-> ElementsOf(nodes[c])])),
                              FieldI64(3, 0), FieldList(4, Types.struct, written.groups)>>
                            \o (IF how.harm = "crypto" THEN <<FieldStruct(8, <<>>)>> ELSE <<>>))
        claimed == IF how.harm = "tail" THEN Append(written.out \o footer, 0) ELSE footer
    IN  written.out \o footer \o Trailer(claimed, IF how.harm = "encrypted" THEN MagicEncrypted ELSE Magic)

\* What the file says: for each column its name, its type and its values.
FileMeans(nodes, groups) ==
    LET rows == FlattenSeq(groups)
        columns == [i \in DOMAIN rows |-> RowOf(nodes, rows[i])] \o <<>>
    IN  [c \in DOMAIN columns[1] |->
            [name |-> columns[1][c].name, ty |-> columns[1][c].ty, shape |-> columns[1][c].shape,
             values |-> [i \in DOMAIN columns |-> columns[i][c].v]]]

=============================================================================
