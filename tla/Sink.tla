-------------------------------- MODULE Sink --------------------------------
(***************************************************************************)
(* The Parquet writer (write/parquet/mod.rs).  Rows gather in buffers, one *)
(* per column, until they fill a row group; a row group is one             *)
(* uncompressed page per column; what the columns are is written last, in  *)
(* the footer.  And the way into a file: its footer first                  *)
(* (parquet/file.rs).                                                      *)
(***************************************************************************)
EXTENDS Nested

Magic == <<80, 65, 82, 49>>           \* "PAR1"
MagicEncrypted == <<80, 65, 82, 69>>  \* "PARE"
FourBytes(n) == [i \in 1..4 |-> (n \div 256^(i - 1)) % 256]

\* push_uleb is PutUvarint; these are the bytes of an integer, low byte first.
LowBytes(v, n) == [i \in 1..n |-> ((v % 2^(8 * n)) \div 256^(i - 1)) % 256]
BigEndian(v, n) == Reverse(LowBytes(v, n))

-----------------------------------------------------------------------------
(* plan_column: how a type is stored and declared *)

Plan(ptype, enc, converted, logical) ==
    [ptype |-> ptype, enc |-> enc, len |-> 0, converted |-> converted, logical |-> logical, p |-> 0, s |-> 0]
NoLogical == <<>>
TheConverted(name) == CHOOSE i \in DOMAIN ConvertedTypes : ConvertedTypes[i] = name
Annotated(name) == <<FieldI32(6, TheConverted(name) - 1)>>
EmptyMember(id) == <<FieldStruct(id, <<>>)>>
IntMember(bits, signed) == <<FieldStruct(10, <<FieldTiny(1, bits), FieldBool(2, signed)>>)>>
Micros == FieldStruct(2, EmptyMember(2))
TimeMember(id, utc) == <<FieldStruct(id, <<FieldBool(1, utc), Micros>>)>>
DecimalMember(p, s) == <<FieldStruct(5, <<FieldI32(1, s), FieldI32(2, p)>>)>>

Widths == "TinyInt" :> 8 @@ "SmallInt" :> 16 @@ "UTinyInt" :> 8 @@ "USmallInt" :> 16 @@ "UInt" :> 32 @@ "UBigInt" :> 64
IntPlan(ty, ptype, enc) ==
    Plan(ptype, enc, Annotated(ty.is), IntMember(Widths[ty.is], ~IsUnsigned(ty)))
DecimalPlan(p, s) ==
    LET narrow == Plan(Physical.INT64, "I64", Annotated("Decimal"), DecimalMember(p, s))
        wide == [narrow EXCEPT !.ptype = Physical.FIXED, !.len = WideBytes, !.enc = "I128Be"]
    IN  [(IF p <= NarrowDigits THEN narrow ELSE wide) EXCEPT !.p = p, !.s = s]

PlanColumn(ty) ==
    CASE ty.is = "Boolean" -> Plan(Physical.BOOLEAN, "Bool", <<>>, NoLogical)
      [] ty.is = "Int" -> Plan(Physical.INT32, "I32", <<>>, NoLogical)
      [] ty.is = "BigInt" -> Plan(Physical.INT64, "I64", <<>>, NoLogical)
      [] ty.is \in {"TinyInt", "SmallInt", "UTinyInt", "USmallInt"} -> IntPlan(ty, Physical.INT32, "I32")
      [] ty.is = "UInt" -> IntPlan(ty, Physical.INT32, "U32")
      [] ty.is = "UBigInt" -> IntPlan(ty, Physical.INT64, "U64")
      [] ty.is = "HugeInt" -> [DecimalPlan(MostDigits, 0) EXCEPT !.enc = "I128Be"]
      [] ty.is = "Float" -> Plan(Physical.FLOAT, "F32", <<>>, NoLogical)
      [] ty.is = "Double" -> Plan(Physical.DOUBLE, "F64", <<>>, NoLogical)
      [] ty.is = "Decimal" -> DecimalPlan(ty.p, ty.s)
      [] ty.is = "Varchar" -> Plan(Physical.BYTE_ARRAY, "Bytes", Annotated("Utf8"), EmptyMember(1))
      [] ty.is = "Blob" -> Plan(Physical.BYTE_ARRAY, "Bytes", <<>>, NoLogical)
      [] ty.is = "Json" -> Plan(Physical.BYTE_ARRAY, "Bytes", Annotated("Json"), EmptyMember(12))
      [] ty.is = "Date" -> Plan(Physical.INT32, "I32", Annotated("Date"), EmptyMember(6))
      [] ty.is = "Time" -> Plan(Physical.INT64, "I64", Annotated("TimeMicros"), TimeMember(7, FALSE))
      [] ty.is \in {"Timestamp", "Timestamptz"} ->
             Plan(Physical.INT64, "I64", Annotated("TimestampMicros"), TimeMember(8, ty.is = "Timestamptz"))
      [] ty.is = "Uuid" -> [Plan(Physical.FIXED, "Uuid", <<>>, EmptyMember(14)) EXCEPT !.len = WideBytes]
      [] ty.is = "Interval" -> Plan(Physical.BYTE_ARRAY, "IntervalText", Annotated("Utf8"), EmptyMember(1))
      [] OTHER -> Plan(Physical.INT32, "I32", <<>>, EmptyMember(11))

-----------------------------------------------------------------------------
(* Values and levels *)

IsUtf8(bytes) == \A i \in DOMAIN bytes : bytes[i] < 128

\* The text of an interval, one for each interval.
IntervalText(v) == <<77>> \o LowBytes(v[1], 1) \o <<68>> \o LowBytes(v[2], 1) \o <<85>> \o LowBytes(v[3], 2)

DecimalValueFits(v, p) == p \in 1..MostDigits /\ v \in (1 - 10^p)..(10^p - 1)

EncodeValue(enc, v) ==
    CASE enc \in {"I32", "U32"} -> LowBytes(v, 1)
      [] enc \in {"I64", "U64", "F64"} -> LowBytes(v, 2)
      [] enc = "I128Be" -> BigEndian(v, WideBytes)
      [] enc = "F32" -> <<v \div 256>>
      [] enc = "Bytes" -> FourBytes(Len(v)) \o v
      [] enc = "Uuid" -> [i \in 1..WideBytes |-> IF i \in DOMAIN v THEN v[i] ELSE 0]
      [] enc = "IntervalText" -> FourBytes(Len(IntervalText(v))) \o IntervalText(v)
      [] OTHER -> <<>>

\* Bits, the first in the lowest place of the first byte.
Packed(bits) ==
    [b \in 1..DivCeil(Len(bits), 8) |->
        FoldLeft(LAMBDA sum, k : LET i == 8 * (b - 1) + k + 1
                                 IN  IF i \in DOMAIN bits /\ bits[i] THEN sum + 2^k ELSE sum,
                 0, [k \in 1..8 |-> k - 1])]

RunLen(valid, i) ==
    CHOOSE n \in 1..(Len(valid) - i + 1) :
        /\ \A k \in i..(i + n - 1) : valid[k] = valid[i]
        /\ i + n \in DOMAIN valid => valid[i + n] # valid[i]

\* encode_def_levels: runs of eight and more as runs, what is between in groups of eight.
RECURSIVE PackedEnd(_, _, _), LevelRuns(_, _)
PackedEnd(valid, start, j) ==
    IF j > Len(valid) THEN j
    ELSE IF j > start /\ RunLen(valid, j) >= 8 THEN j
    ELSE PackedEnd(valid, start, Least(j + 8, Len(valid) + 1))
LevelRuns(valid, i) ==
    IF i > Len(valid) THEN <<>>
    ELSE LET run == RunLen(valid, i)
             end == PackedEnd(valid, i, i)
             groups == DivCeil(end - i, 8)
         IN  IF run >= 8
             THEN PutUvarint(2 * run) \o <<IF valid[i] THEN 1 ELSE 0>> \o LevelRuns(valid, i + run)
             ELSE PutUvarint(2 * groups + 1) \o Packed(SubSeq(valid, i, end - 1)) \o LevelRuns(valid, end)
EncodeDefLevels(valid) == LET body == LevelRuns(valid, 1) IN FourBytes(Len(body)) \o body

-----------------------------------------------------------------------------
(* The sink *)

NewSink == [out |-> <<>>, began |-> FALSE, schema |-> <<>>, plans |-> <<>>, cols |-> <<>>, pending |-> 0,
            groups |-> <<>>, total |-> 0]
EmptyCol == [plain |-> <<>>, bools |-> <<>>, valid |-> <<>>]
Refused == [ok |-> FALSE, sink |-> NewSink]
Taken(sink) == [ok |-> TRUE, sink |-> sink]

Begin(sink, schema) ==
    IF sink.began \/ schema = <<>> THEN Refused
    ELSE Taken([NewSink EXCEPT !.out = Magic, !.began = TRUE, !.schema = schema,
                               !.plans = [c \in DOMAIN schema |-> PlanColumn(schema[c].ty)],
                               !.cols = [c \in DOMAIN schema |-> EmptyCol]])

DataPageHeader1(rows, len) ==
    PutStruct(<<FieldI32(1, PageTypes.data), FieldI32(2, len), FieldI32(3, len),
                FieldStruct(5, <<FieldI32(1, rows), FieldI32(2, Encodings.PLAIN), FieldI32(3, Encodings.RLE),
                                 FieldI32(4, Encodings.RLE)>>)>>)

FlushRowGroup(sink) ==
    LET page(c) == EncodeDefLevels(sink.cols[c].valid)
                   \o (IF sink.plans[c].enc = "Bool" THEN Packed(sink.cols[c].bools) ELSE sink.cols[c].plain)
        written == FoldLeft(LAMBDA w, c :
                       LET bytes == DataPageHeader1(sink.pending, Len(page(c))) \o page(c)
                       IN  [out |-> w.out \o bytes,
                            columns |-> Append(w.columns, [offset |-> Len(w.out), size |-> Len(bytes)])],
                       [out |-> sink.out, columns |-> <<>>], [c \in DOMAIN sink.cols |-> c])
    IN  IF sink.pending = 0 THEN sink
        ELSE [sink EXCEPT !.out = written.out, !.cols = [c \in DOMAIN sink.cols |-> EmptyCol], !.pending = 0,
                          !.groups = Append(@, [columns |-> written.columns, rows |-> sink.pending]),
                          !.total = @ + sink.pending]

\* A column of text that is not all UTF-8 is not declared to be text.
Declared(plan, column) ==
    IF plan.enc = "Bytes" /\ plan.logical = EmptyMember(1)
       /\ \E r \in DOMAIN column : column[r] # <<>> /\ ~IsUtf8(column[r][1])
    THEN [plan EXCEPT !.converted = <<>>, !.logical = NoLogical] ELSE plan

Buffered(col, enc, column) ==
    LET present == SelectSeq(column, LAMBDA v : v # <<>>)
        of == [i \in DOMAIN present |-> present[i][1]]
    IN  [plain |-> col.plain \o (IF enc = "Bool" THEN <<>>
                                 ELSE FlattenSeq([i \in DOMAIN of |-> EncodeValue(enc, of[i])])),
         bools |-> col.bools \o (IF enc = "Bool" THEN of ELSE <<>>),
         valid |-> col.valid \o [i \in DOMAIN column |-> column[i] # <<>>]]

\* A batch is a sequence of columns, each a sequence of values, of the schema given.
WriteBatch(sink, schema, batch, groupRows) ==
    LET fits == \A c \in DOMAIN batch : sink.plans[c].p > 0 /\ sink.plans[c].enc \in {"I64", "I128Be"} =>
                    \A r \in DOMAIN batch[c] : batch[c][r] # <<>> => DecimalValueFits(batch[c][r][1], sink.plans[c].p)
        with == [sink EXCEPT !.plans = [c \in DOMAIN @ |-> Declared(@[c], batch[c])],
                             !.cols = [c \in DOMAIN @ |-> Buffered(@[c], sink.plans[c].enc, batch[c])],
                             !.pending = @ + Len(batch[1])]
    IN  IF ~sink.began \/ schema # sink.schema \/ Len(batch) # Len(schema) THEN Refused
        ELSE IF (\E c \in DOMAIN batch : Len(batch[c]) # Len(batch[1])) \/ ~fits THEN Refused
        ELSE Taken(IF with.pending >= groupRows THEN FlushRowGroup(with) ELSE with)

WriteSchemaElement(name, plan) ==
    PutStruct(<<FieldI32(1, plan.ptype)>> \o (IF plan.len > 0 THEN <<FieldI32(2, plan.len)>> ELSE <<>>)
              \o <<FieldI32(3, Optional), FieldBinary(4, name)>> \o plan.converted
              \o (IF plan.p > 0 /\ plan.logical # NoLogical THEN <<FieldI32(7, plan.s), FieldI32(8, plan.p)>> ELSE <<>>)
              \o (IF plan.logical # NoLogical THEN <<FieldStruct(10, plan.logical)>> ELSE <<>>))
RootName == <<115>>
WriteRootElement(n) == PutStruct(<<FieldBinary(4, RootName), FieldI32(5, n)>>)

SumSizes(columns) == FoldLeft(LAMBDA n, c : n + c.size, 0, columns)
WriteRowGroup(sink, group) ==
    LET meta(c) == <<FieldI32(1, sink.plans[c].ptype),
                     FieldList(2, Types.i32, <<PutZigzag(Encodings.PLAIN), PutZigzag(Encodings.RLE)>>),
                     FieldList(3, Types.binary, <<FieldBinary(0, sink.schema[c].name).payload>>),
                     FieldI32(4, Codecs.NONE), FieldI64(5, group.rows), FieldI64(6, group.columns[c].size),
                     FieldI64(7, group.columns[c].size), FieldI64(9, group.columns[c].offset)>>
        chunk(c) == PutStruct(<<FieldI64(2, group.columns[c].offset), FieldStruct(3, meta(c))>>)
    IN  PutStruct(<<FieldList(1, Types.struct, [c \in DOMAIN group.columns |-> chunk(c)]),
                    FieldI64(2, SumSizes(group.columns)), FieldI64(3, group.rows)>>)

Footer(sink) ==
    PutStruct(<<FieldI32(1, 1),
                FieldList(2, Types.struct,
                          <<WriteRootElement(Len(sink.schema))>>
                          \o [c \in DOMAIN sink.schema |-> WriteSchemaElement(sink.schema[c].name, sink.plans[c])]),
                FieldI64(3, sink.total),
                FieldList(4, Types.struct, [g \in DOMAIN sink.groups |-> WriteRowGroup(sink, sink.groups[g])]),
                FieldBinary(6, RootName)>>)

Trailer(footer, magic) == FourBytes(Len(footer)) \o magic
Finish(sink) ==
    LET flushed == FlushRowGroup(sink)
        footer == Footer(flushed)
    IN  IF ~sink.began THEN Refused
        ELSE Taken([flushed EXCEPT !.out = @ \o footer \o Trailer(footer, Magic), !.began = FALSE])

-----------------------------------------------------------------------------
(* Opening a file *)

FooterProbeRange(fileLen, probe) == [off |-> fileLen - Least(probe, fileLen), len |-> Least(probe, fileLen)]

\* Read is the file, More what to fetch for it.
Outcome(kind, meta, columns, off) == [is |-> kind, meta |-> meta, columns |-> columns, off |-> off]
BadFile == Outcome("bad", Nothing, <<>>, 0)
ParseFooter(tail, tailOffset, fileLen) ==
    LET n == Len(tail)
        magic == SubSeq(tail, n - 3, n)
        metaLen == LittleEndian(SubSeq(tail, n - 7, n - 4))
        metaStart == fileLen - 8 - metaLen
        meta == Decode("FileMetaData", SubSeq(tail, metaStart - tailOffset + 1, n - 8), 1)
        columns == ResolveSchema(meta.val[2])
    IN  IF fileLen < 12 \/ n < 8 \/ tailOffset + n # fileLen \/ magic # Magic \/ metaLen > fileLen - 8 THEN BadFile
        ELSE IF metaStart < tailOffset THEN Outcome("more", Nothing, <<>>, metaStart)
        ELSE IF meta.at = 0 THEN BadFile
        ELSE IF columns.at = 0 THEN BadFile
        ELSE Outcome("read", meta.val, columns.val, 0)

OpenBytes(file, probe) ==
    LET first == FooterProbeRange(Len(file), probe).off
        once == ParseFooter(From(file, first + 1), first, Len(file))
        again == ParseFooter(From(file, once.off + 1), once.off, Len(file))
    IN  IF once.is # "more" THEN once ELSE IF again.is = "more" THEN BadFile ELSE again

-----------------------------------------------------------------------------
(* The rows of an open file *)

\* byte_range: from the dictionary page, if there is one, wherever the first page of
\* values is said to be.
AtLeast0(n) == IF n < 0 THEN 0 ELSE n
ByteRange(meta) ==
    LET dict == Field(meta, 11, 0)
        data == Field(meta, 9, 0)
        start == IF dict > 0 THEN IF data > 0 THEN Least(dict, data) ELSE dict ELSE AtLeast0(data)
    IN  [start |-> start, len |-> AtLeast0(Field(meta, 7, 0))]
ChunkOf(file, group, phys) ==
    LET meta == Field(group[1][phys], 3, Nothing)
        range == ByteRange(meta)
    IN  [codec |-> Field(meta, 4, 0), start |-> range.start,
         buf |-> SubSeq(file, range.start + 1, range.start + range.len)]

ReadColumn(file, column, group, cache) ==
    LET chunks == [i \in DOMAIN column.phys |-> ChunkOf(file, group, column.phys[i])] \o <<>>
        rows == Field(group, 3, 0)
    IN  IF column.node = NoNode
        THEN ReadColumnChunk(column.leaves[1], chunks[1].codec, chunks[1].buf, chunks[1].start, rows, cache)
        ELSE IF rows = 0 THEN Got(1, <<>>)
        ELSE ReadNestedColumn(column, chunks, rows, cache)

\* What the host is asked to decompress for a row group.
CodecPagesOf(file, columns, group) ==
    LET wanted(c, i) == LET chunk == ChunkOf(file, group, columns[c].phys[i])
                        IN  CollectCodecPages(columns[c].leaves[i], chunk.codec, chunk.buf, chunk.start, Field(group, 3, 0))
        all == [c \in DOMAIN columns |-> [i \in DOMAIN columns[c].phys |-> wanted(c, i)] \o <<>>]
    IN  FoldLeft(LAMBDA done, w : IF done.at = 0 \/ w.at = 0 THEN Broken ELSE Got(1, done.val \cup w.val),
                 Got(1, {}), FlattenSeq([c \in DOMAIN columns |-> all[c]]))

\* Every column of every row group, one after the other.
ReadGroup(file, columns, group) ==
    LET wanted == CodecPagesOf(file, columns, group)
        cache == HostCache(file, wanted.val)
        read == [c \in DOMAIN columns |-> ReadColumn(file, columns[c], group, cache)] \o <<>>
    IN  IF wanted.at = 0 THEN Broken
        ELSE IF \E c \in DOMAIN read : read[c].at = 0 THEN Broken
        ELSE Got(1, [c \in DOMAIN read |-> read[c].val])
ReadFile(file, probe) ==
    LET open == OpenBytes(file, probe)
        groups == Field(open.meta, 4, <<>>)
        parts == [g \in DOMAIN groups |-> ReadGroup(file, open.columns, groups[g])] \o <<>>
    IN  IF open.is # "read" THEN Broken
        ELSE IF \E g \in DOMAIN parts : parts[g].at = 0 THEN Broken
        ELSE Got(1, [c \in DOMAIN open.columns |->
                       [name |-> open.columns[c].name, ty |-> open.columns[c].ty,
                        shape |-> Shape(open.columns[c]),
                        values |-> FlattenSeq([g \in DOMAIN parts |-> parts[g].val[c]])]])
=============================================================================
