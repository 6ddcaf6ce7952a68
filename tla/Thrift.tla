------------------------------- MODULE Thrift -------------------------------
(***************************************************************************)
(* The Thrift Compact Protocol as the engine reads it (parquet/thrift.rs)  *)
(* and writes it (write/parquet/thrift.rs), and the structures of a        *)
(* Parquet file decoded with it (parquet/meta.rs).                         *)
(*                                                                         *)
(* A buffer is a sequence of bytes.  A reader takes a buffer and the       *)
(* position of the next byte and gives what it read and the position after *)
(* it; position 0 stands for an error, so whatever is read from there      *)
(* fails as well.  A structure is read into the function from the ids of   *)
(* the fields seen to their values.                                        *)
(***************************************************************************)
EXTENDS Integers, Sequences, SequencesExt, TLC

MaxDepth == 32  \* MAX_DEPTH: levels of structures within structures

Types == [stop |-> 0, true |-> 1, false |-> 2, i8 |-> 3, i16 |-> 4, i32 |-> 5, i64 |-> 6,
          double |-> 7, binary |-> 8, list |-> 9, set |-> 10, map |-> 11, struct |-> 12]

Got(at, val) == [at |-> at, val |-> val]
Failed == Got(0, 0)
Require(condition, got) == IF condition THEN got ELSE Failed

-----------------------------------------------------------------------------
(* Primitives *)

Byte(buf, at) == IF at \in 1..Len(buf) THEN Got(at + 1, buf[at]) ELSE Failed

Take(buf, at, n) ==
    Require(at > 0 /\ at + n - 1 <= Len(buf), Got(at + n, SubSeq(buf, at, at + n - 1)))

RECURSIVE UvarintFrom(_, _, _, _)
UvarintFrom(buf, at, shift, sum) ==
    IF shift >= 64 \/ at \notin 1..Len(buf) THEN Failed
    ELSE LET low == buf[at] % 128
             val == IF low = 0 THEN sum ELSE sum + low * 2^shift
         IN  IF buf[at] < 128 THEN Got(at + 1, val) ELSE UvarintFrom(buf, at + 1, shift + 7, val)
Uvarint(buf, at) == UvarintFrom(buf, at, 0, 0)

Unzigzag(u) == IF u % 2 = 0 THEN u \div 2 ELSE -((u + 1) \div 2)
Zigzag(buf, at) ==
    LET u == Uvarint(buf, at) IN IF u.at = 0 THEN Failed ELSE Got(u.at, Unzigzag(u.val))

ReadBinary(buf, at) ==
    LET n == Uvarint(buf, at) IN IF n.at = 0 THEN Failed ELSE Take(buf, n.at, n.val)

\* A list's header: the type of its elements and their number.  Every element takes a byte.
ListBegin(buf, at) ==
    LET b == Byte(buf, at)
        n == IF b.at # 0 /\ b.val \div 16 = 15 THEN Uvarint(buf, b.at) ELSE Got(b.at, b.val \div 16)
    IN  IF n.at = 0 \/ n.val > Len(buf) - n.at + 1
        THEN [Failed EXCEPT !.val = [etype |-> 0, n |-> 0]]
        ELSE Got(n.at, [etype |-> b.val % 16, n |-> n.val])

\* The next field's header: a delta from the id before it, or the id itself in full.
FieldBegin(buf, at, last) ==
    LET b == Byte(buf, at)
        id == IF b.val \div 16 = 0 THEN Zigzag(buf, b.at) ELSE Got(b.at, last + b.val \div 16)
    IN  IF b.at # 0 /\ b.val = Types.stop THEN Got(b.at, [ftype |-> Types.stop, id |-> 0])
        ELSE IF b.at = 0 \/ id.at = 0 THEN [Failed EXCEPT !.val = [ftype |-> Types.stop, id |-> 0]]
        ELSE Got(id.at, [ftype |-> b.val % 16, id |-> id.val])

-----------------------------------------------------------------------------
(* Skipping a field the engine does not know.  A bool that is an element   *)
(* takes a byte; a bool that is a field is in the field's header.          *)

RECURSIVE Skip(_, _, _, _), SkipElements(_, _, _, _, _), SkipFields(_, _, _, _)
SkipElements(buf, at, types, n, depth) ==
    IF n = 0 \/ at = 0 THEN at
    ELSE LET type == Head(types)
             next == IF type \in {Types.true, Types.false} THEN Byte(buf, at).at
                     ELSE Skip(buf, at, type, depth)
         IN  SkipElements(buf, next, Tail(types) \o <<type>>, n - 1, depth)
SkipFields(buf, at, last, depth) ==
    LET f == FieldBegin(buf, at, last)
    IN  IF f.at = 0 \/ f.val.ftype = Types.stop THEN f.at
        ELSE SkipFields(buf, Skip(buf, f.at, f.val.ftype, depth), f.val.id, depth)
Skip(buf, at, ftype, depth) ==
    CASE depth >= MaxDepth -> 0
      [] ftype \in {Types.true, Types.false} -> at
      [] ftype = Types.i8 -> Byte(buf, at).at
      [] ftype \in {Types.i16, Types.i32, Types.i64} -> Zigzag(buf, at).at
      [] ftype = Types.double -> Take(buf, at, 8).at
      [] ftype = Types.binary -> ReadBinary(buf, at).at
      [] ftype \in {Types.list, Types.set} ->
             LET l == ListBegin(buf, at)
             IN  SkipElements(buf, l.at, <<l.val.etype>>, l.val.n, depth + 1)
      [] ftype = Types.map ->
             LET n == Uvarint(buf, at)
                 kv == Byte(buf, n.at)
             IN  IF n.at = 0 \/ n.val = 0 THEN n.at
                 ELSE SkipElements(buf, kv.at, <<kv.val \div 16, kv.val % 16>>, 2 * n.val, depth + 1)
      [] ftype = Types.struct -> SkipFields(buf, at, 0, depth + 1)
      [] OTHER -> 0

-----------------------------------------------------------------------------
(* The structures of a Parquet file: for each the fields read, by id.  A   *)
(* field of any other id is skipped.  "mark" is a field whose presence is  *)
(* all that is read; an "enum" has its values, an unknown one is an error; *)
(* an unknown "option" is as if the field were absent; "refuse" is an error*)
(* and "flag" is noted and skipped.                                        *)

Num == [k |-> "int"]
Bool == [k |-> "bool"]
Tiny == [k |-> "i8"]
Bin == [k |-> "binary"]
Mark == [k |-> "mark"]
Refuse == [k |-> "refuse"]
Enum(values) == [k |-> "enum", values |-> values]
Option(values) == [k |-> "option", values |-> values]
Struct(name) == [k |-> "struct", of |-> name]
Elements(kind) == [k |-> "list", of |-> kind]
BoolElement == [k |-> "bool element"]

PType == Enum(0..7)
Repetition == Enum(0..2)
Encoding == Enum({0} \cup 2..9)
Compression == Enum(0..7)
PageType == Enum(0..3)
ConvertedType == Option(0..21)

FileMetaData == (1 :> Num @@ 2 :> Elements(Struct("SchemaElement")) @@ 3 :> Num
                 @@ 4 :> Elements(Struct("RowGroup")) @@ 6 :> Bin @@ 8 :> Refuse @@ 9 :> Refuse)
SchemaElement == (1 :> PType @@ 2 :> Num @@ 3 :> Repetition @@ 4 :> Bin @@ 5 :> Num
                  @@ 6 :> ConvertedType @@ 7 :> Num @@ 8 :> Num @@ 10 :> Struct("LogicalType"))
LogicalType == [id \in {1, 2, 3, 4, 6, 11, 12, 13, 14, 15} |-> Mark]
               @@ (5 :> Struct("DecimalType") @@ 7 :> Struct("TimeType")
                   @@ 8 :> Struct("TimeType") @@ 10 :> Struct("IntType"))
DecimalType == (1 :> Num @@ 2 :> Num)
TimeType == (1 :> Bool @@ 2 :> Struct("TimeUnit"))
TimeUnit == [id \in 1..3 |-> Mark]
IntType == (1 :> Tiny @@ 2 :> Bool)
RowGroup == (1 :> Elements(Struct("ColumnChunk")) @@ 2 :> Num @@ 3 :> Num)
ColumnChunk == (1 :> Bin @@ 2 :> Num @@ 3 :> Struct("ColumnMetaData") @@ 4 :> Num @@ 5 :> Num
                @@ 6 :> Num @@ 7 :> Num @@ 8 :> Mark @@ 9 :> Mark)
ColumnMetaData == [id \in {5, 6, 7, 9, 10, 11, 14, 15} |-> Num]
                  @@ (1 :> PType @@ 2 :> Elements(Encoding) @@ 3 :> Elements(Bin)
                      @@ 4 :> Compression @@ 12 :> Struct("Statistics"))
Statistics == (1 :> Bin @@ 2 :> Bin @@ 3 :> Num @@ 4 :> Num @@ 5 :> Bin @@ 6 :> Bin
               @@ 7 :> Bool @@ 8 :> Bool)
ColumnIndex == (1 :> Elements(BoolElement) @@ 2 :> Elements(Bin) @@ 3 :> Elements(Bin)
                @@ 4 :> Num @@ 5 :> Elements(Num))
PageLocation == (1 :> Num @@ 2 :> Num @@ 3 :> Num)
OffsetIndex == (1 :> Elements(Struct("PageLocation")))
SingleVariantUnion == (1 :> Mark)
BloomFilterHeader == [id \in 2..4 |-> Struct("SingleVariantUnion")] @@ (1 :> Num)
PageHeader == (1 :> PageType @@ 2 :> Num @@ 3 :> Num @@ 4 :> Num @@ 5 :> Struct("DataPageHeader")
               @@ 7 :> Struct("DictionaryPageHeader") @@ 8 :> Struct("DataPageHeaderV2"))
DataPageHeader == [id \in 2..4 |-> Encoding] @@ (1 :> Num)
DataPageHeaderV2 == [id \in {1, 2, 3, 5, 6} |-> Num] @@ (4 :> Encoding @@ 7 :> Bool)
DictionaryPageHeader == (1 :> Num @@ 2 :> Encoding)

Structures ==
    [FileMetaData |-> FileMetaData, SchemaElement |-> SchemaElement, LogicalType |-> LogicalType,
     DecimalType |-> DecimalType, TimeType |-> TimeType, TimeUnit |-> TimeUnit, IntType |-> IntType,
     RowGroup |-> RowGroup, ColumnChunk |-> ColumnChunk, ColumnMetaData |-> ColumnMetaData,
     Statistics |-> Statistics, ColumnIndex |-> ColumnIndex, PageLocation |-> PageLocation,
     OffsetIndex |-> OffsetIndex, SingleVariantUnion |-> SingleVariantUnion,
     BloomFilterHeader |-> BloomFilterHeader, PageHeader |-> PageHeader,
     DataPageHeader |-> DataPageHeader, DataPageHeaderV2 |-> DataPageHeaderV2,
     DictionaryPageHeader |-> DictionaryPageHeader]

Nothing == <<>>
Field(value, id, default) == IF id \in DOMAIN value THEN value[id] ELSE default
Increasing(s) == \A i \in 1..(Len(s) - 1) : s[i] < s[i + 1]

\* What a decoder requires of a structure once its fields are read.
Sound(name, v) ==
    CASE name = "FileMetaData" -> Field(v, 2, <<>>) # <<>>
      [] name = "ColumnIndex" ->
             LET pages == Len(Field(v, 1, <<>>))
             IN  /\ \A id \in {2, 3} : Len(Field(v, id, <<>>)) = pages
                 /\ 5 \in DOMAIN v => Len(v[5]) = pages
      [] name = "OffsetIndex" ->
             LET of(id) == [i \in DOMAIN Field(v, 1, <<>>) |-> Field(v[1][i], id, 0)]
             IN  /\ \A id \in 1..3 : \A i \in DOMAIN of(id) : of(id)[i] >= 0
                 /\ of(3) # <<>> => of(3)[1] = 0
                 /\ Increasing(of(1)) /\ Increasing(of(3))
      [] name = "BloomFilterHeader" ->
             /\ Field(v, 1, 0) > 0 /\ v[1] % 32 = 0
             /\ \A id \in 2..4 : id \in DOMAIN v /\ 1 \in DOMAIN v[id]
      [] name = "PageHeader" -> Field(v, 2, 0) >= 0 /\ Field(v, 3, 0) >= 0
      [] OTHER -> TRUE

RECURSIVE Read(_, _, _, _, _), ReadFields(_, _, _, _, _, _), ReadElements(_, _, _, _, _, _, _)
ReadElements(buf, at, kind, etype, n, depth, done) ==
    IF n = 0 \/ at = 0 THEN Got(at, done)
    ELSE LET e == Read(buf, at, kind, etype, depth)
         IN  ReadElements(buf, e.at, kind, etype, n - 1, depth, Append(done, e.val))
ReadFields(buf, at, fields, last, depth, done) ==
    LET f == FieldBegin(buf, at, last)
        id == f.val.id
    IN  IF f.at = 0 \/ f.val.ftype = Types.stop THEN Got(f.at, done)
        ELSE IF id \notin DOMAIN fields
        THEN ReadFields(buf, Skip(buf, f.at, f.val.ftype, 0), fields, id, depth, done)
        ELSE LET e == Read(buf, f.at, fields[id], f.val.ftype, depth)
                 known == fields[id].k = "option" => e.val \in fields[id].values
             IN  ReadFields(buf, e.at, fields, id, depth,
                            IF known THEN (id :> e.val) @@ done
                            ELSE [x \in DOMAIN done \ {id} |-> done[x]])
Read(buf, at, kind, ftype, depth) ==
    CASE kind.k = "int" -> Zigzag(buf, at)
      [] kind.k = "i8" -> Byte(buf, at)
      [] kind.k = "option" -> Zigzag(buf, at)
      [] kind.k = "enum" ->
             LET v == Zigzag(buf, at) IN Require(v.at # 0 /\ v.val \in kind.values, v)
      [] kind.k = "bool" ->
             IF ftype \in {Types.true, Types.false} THEN Got(at, ftype = Types.true)
             ELSE LET b == Byte(buf, at) IN Got(b.at, b.val # 0)
      [] kind.k = "bool element" -> LET b == Byte(buf, at) IN Got(b.at, b.val = Types.true)
      [] kind.k = "binary" -> ReadBinary(buf, at)
      [] kind.k = "mark" -> Got(Skip(buf, at, ftype, 0), TRUE)
      [] kind.k = "list" ->
             LET l == ListBegin(buf, at)
             IN  ReadElements(buf, l.at, kind.of, l.val.etype, l.val.n, depth, <<>>)
      [] kind.k = "struct" ->
             IF depth + 1 >= MaxDepth THEN Failed
             ELSE ReadFields(buf, at, Structures[kind.of], 0, depth + 1, Nothing)
      [] OTHER -> Failed

\* decode_file_metadata, decode_page_header and the others: a structure and where it ends.
Decode(name, buf, at) ==
    LET v == Read(buf, at, Struct(name), Types.struct, 0) IN Require(v.at # 0 /\ Sound(name, v.val), v)

-----------------------------------------------------------------------------
(* Writing.  A field is [id, ftype, payload]; only its header depends on   *)
(* the field before it.                                                    *)

RECURSIVE PutUvarint(_)
PutUvarint(v) == IF v < 128 THEN <<v>> ELSE <<(v % 128) + 128>> \o PutUvarint(v \div 128)
PutZigzag(v) == PutUvarint(IF v >= 0 THEN 2 * v ELSE -2 * v - 1)

FieldHeader(id, last, ftype) ==
    IF id - last \in 1..15 THEN <<(id - last) * 16 + ftype>> ELSE <<ftype>> \o PutZigzag(id)

ListHeader(etype, n) == IF n < 15 THEN <<n * 16 + etype>> ELSE <<240 + etype>> \o PutUvarint(n)

Item(id, ftype, payload) == [id |-> id, ftype |-> ftype, payload |-> payload]
FieldI32(id, v) == Item(id, Types.i32, PutZigzag(v))
FieldI64(id, v) == Item(id, Types.i64, PutZigzag(v))
FieldTiny(id, v) == Item(id, Types.i8, <<v>>)
FieldBool(id, v) == Item(id, IF v THEN Types.true ELSE Types.false, <<>>)
FieldBinary(id, bytes) == Item(id, Types.binary, PutUvarint(Len(bytes)) \o bytes)

PutStruct(fields) ==
    FoldLeft(LAMBDA done, f : [out |-> done.out \o FieldHeader(f.id, done.last, f.ftype) \o f.payload,
                               last |-> f.id],
             [out |-> <<>>, last |-> 0], fields).out \o <<Types.stop>>
FieldStruct(id, fields) == Item(id, Types.struct, PutStruct(fields))
FieldList(id, etype, elements) ==
    Item(id, Types.list, ListHeader(etype, Len(elements)) \o FlattenSeq(elements))
=============================================================================
