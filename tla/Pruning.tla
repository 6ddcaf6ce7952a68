------------------------------- MODULE Pruning -------------------------------
(***************************************************************************)
(* What a scan of a Parquet file leaves unread.  The binder takes from a   *)
(* WHERE the comparisons of a column with a constant                       *)
(* (plan/bind/pruning.rs); the statistics of a row group, its Bloom        *)
(* filters and the statistics of its pages say which rows cannot satisfy   *)
(* them (format/mod.rs, format/parquet.rs, parquet/bloom.rs).  Of what is  *)
(* left only the pages with rows to keep are fetched, of each column its   *)
(* own, and the kept rows of all columns are put side by side again.       *)
(***************************************************************************)
EXTENDS Sink

-----------------------------------------------------------------------------
(* Values, and the types they are compared in (vector/)                    *)

Value(tag, v) == [tag |-> tag, v |-> v]
NaN == 2^(2 * IntBits) - 1  \* the one number that is none, above all others

\* partial_cmp_same
Comparable(a, b) == a.tag = b.tag /\ (a.tag = "F64" => NaN \notin {a.v, b.v})
Exceeds(a, b) == Comparable(a, b) /\ a.v > b.v

Integers9 == <<"UTinyInt", "TinyInt", "USmallInt", "SmallInt", "UInt", "Int", "UBigInt", "BigInt", "HugeInt">>
IsInteger(ty) == ty.is \in Range(Integers9)
IsNumeric(ty) == IsInteger(ty) \/ ty.is \in {"Decimal", "Float", "Double"}
IsTemporal(ty) == ty.is \in {"Date", "Time", "Timestamp", "Timestamptz"}
IsExact(ty) == IsInteger(ty) \/ ty.is = "Decimal"  \* as_decimal: an integer scaled by a power of ten
Digits == ("UTinyInt" :> 2 @@ "TinyInt" :> 1 @@ "USmallInt" :> 2 @@ "SmallInt" :> 2 @@ "UInt" :> 3 @@ "Int" :> 3
           @@ "UBigInt" :> 5 @@ "BigInt" :> 5 @@ "HugeInt" :> MostDigits)
Precision(ty) == IF IsInteger(ty) THEN Digits[ty.is] ELSE ty.p
Ranks == ("UTinyInt" :> 1 @@ "TinyInt" :> 1 @@ "USmallInt" :> 2 @@ "SmallInt" :> 2 @@ "UInt" :> 3 @@ "Int" :> 3
          @@ "UBigInt" :> 4 @@ "BigInt" :> 4 @@ "Decimal" :> 5 @@ "HugeInt" :> 6 @@ "Float" :> 7 @@ "Double" :> 8
          @@ "Date" :> 9 @@ "Time" :> 10 @@ "Timestamp" :> 11 @@ "Timestamptz" :> 12)
Rank(ty) == Ranks[ty.is]
SignedCover == ("UTinyInt" :> "SmallInt" @@ "USmallInt" :> "Int" @@ "UInt" :> "BigInt" @@ "UBigInt" :> "HugeInt")
Wider(a, b) == IF Rank(a) < Rank(b) THEN b ELSE a
MixedSigns(a, b) == IsInteger(a) /\ IsInteger(b) /\ IsUnsigned(a) # IsUnsigned(b)
Largest(a, b) == IF a > b THEN a ELSE b

\* unify: <<>> if the two cannot be compared.
Unify(a, b) ==
    LET scale == Largest(a.s, b.s)
        digits == Largest(Precision(a) - a.s, Precision(b) - b.s) + scale + 1
        signed(t) == IF IsUnsigned(t) THEN Ty(SignedCover[t.is]) ELSE t
    IN  CASE a = b -> <<a>>
          [] a # b /\ IsExact(a) /\ IsExact(b) /\ "Decimal" \in {a.is, b.is} -> <<DecimalTy(Least(digits, MostDigits), scale)>>
          [] a # b /\ MixedSigns(a, b) -> <<Wider(signed(a), signed(b))>>
          [] a # b /\ IsNumeric(a) /\ IsNumeric(b) /\ ~MixedSigns(a, b) /\ ~(IsExact(a) /\ IsExact(b) /\ "Decimal" \in {a.is, b.is}) ->
                 <<Wider(a, b)>>
          [] a # b /\ {a.is, b.is} \subseteq {"Date", "Timestamp", "Timestamptz"} -> <<Wider(a, b)>>
          [] OTHER -> <<>>

-----------------------------------------------------------------------------
(* extract_pruners.  A predicate is a tree [is, args, ...] over "column"   *)
(* and "literal"; a pruner says of a column of the scan that it compares   *)
(* so with one of some values.                                             *)

Pruner(column, op, values) == [column |-> column, op |-> op, values |-> values]
Comparisons == {"=", "<>", "<", "<=", ">", ">="}
SwappedOp(op) == CASE op = "<" -> ">" [] op = "<=" -> ">=" [] op = ">" -> "<" [] op = ">=" -> "<=" [] OTHER -> op

WideningKeepsRaw(col, unified) ==
    \/ col = unified
    \/ IF IsExact(col) /\ IsExact(unified) THEN col.s = unified.s ELSE Phys(col) = Phys(unified)

\* A cast to FLOAT rounds, one to DOUBLE does not.
AsFloat(v, ty, to) ==
    LET unit == 10^ty.s
    IN  IF to.is = "Double" \/ ty.is = "Float" THEN v \div unit ELSE 256 * ((v + 128 * unit) \div (256 * unit))

\* to_column_repr: the literal as the column holds it, if it can.
ToColumnRepr(v, litTy, colTy) ==
    LET to == Unify(colTy, litTy)
        days == litTy.is = "Date" /\ to[1].is # "Date"
        scaled == IF IsTemporal(to[1]) THEN v * (IF days THEN MicrosPerDay ELSE 1) ELSE v * 10^(to[1].s - litTy.s)
        fits(bits) == scaled = Wrapped(scaled, bits)
    IN  IF to = <<>> THEN <<>>
        ELSE IF ~WideningKeepsRaw(colTy, to[1]) THEN <<>>
        ELSE IF Phys(colTy) = "F64" THEN <<Value("F64", AsFloat(v, litTy, to[1]))>>
        ELSE IF Phys(litTy) = "F64" THEN <<>>
        ELSE CASE Phys(colTy) = "I32" -> IF fits(IntBits) THEN <<Value("I32", scaled)>> ELSE <<>>
               [] Phys(colTy) = "I64" -> IF fits(2 * IntBits) THEN <<Value("I64", scaled)>> ELSE <<>>
               [] Phys(colTy) = "I128" -> <<Value("I128", scaled)>>
               [] OTHER -> <<>>

IsLiteral(e) == e.is = "literal" /\ e.v # <<>>
Prunable(e, types) == e.is = "column" /\ (IsNumeric(types[e.column]) \/ IsTemporal(types[e.column]))
ReprOf(lit, col, types) == ToColumnRepr(lit.v[1], lit.ty, types[col.column])

AsPruner(op, col, lit, types) ==
    IF ~Prunable(col, types) \/ ~IsLiteral(lit) \/ op = "<>" THEN <<>>
    ELSE LET v == ReprOf(lit, col, types) IN IF v = <<>> THEN <<>> ELSE <<Pruner(col.column, op, v)>>

\* IN: NULLs aside, all of the list or nothing.
AsInPruner(col, list, types) ==
    LET given == SelectSeq(list, LAMBDA e : e.is # "literal" \/ e.v # <<>>)
        of(e) == IF IsLiteral(e) THEN ReprOf(e, col, types) ELSE <<>>
        values == [i \in DOMAIN given |-> of(given[i])] \o <<>>
    IN  IF ~Prunable(col, types) \/ given = <<>> THEN <<>>
        ELSE IF <<>> \in Range(values) THEN <<>>
        ELSE <<Pruner(col.column, "in", FlattenSeq(values))>>

RECURSIVE ExtractPruners(_, _)
ExtractPruners(e, types) ==
    LET arg(i) == e.args[i]
        straight == AsPruner(e.is, arg(1), arg(2), types)
    IN  CASE e.is = "and" -> ExtractPruners(arg(1), types) \o ExtractPruners(arg(2), types)
          [] e.is \in Comparisons ->
                 IF straight # <<>> THEN straight ELSE AsPruner(SwappedOp(e.is), arg(2), arg(1), types)
          [] e.is = "between" -> AsPruner(">=", arg(1), arg(2), types) \o AsPruner("<=", arg(1), arg(3), types)
          [] e.is = "in" -> AsInPruner(arg(1), Tail(e.args), types)
          [] OTHER -> <<>>

\* usable_pruners: all of them, or none if a part has not the types of the table.
UsablePruners(pruners, projection, tableTypes, partTypes) ==
    IF \A i \in DOMAIN pruners : LET c == projection[pruners[i].column] IN tableTypes[c] = partTypes[c]
    THEN pruners ELSE <<>>

-----------------------------------------------------------------------------
(* Statistics *)

\* range_may_match.  A NaN is above every maximum.
RangeMayMatch(p, min, max) ==
    LET could(v) ==
            \/ ~Comparable(min, v) \/ ~Comparable(max, v)
            \/ LET open == v.tag = "F64"
               IN  CASE p.op \in {"=", "in"} -> min.v <= v.v /\ v.v <= max.v
                     [] p.op = "<" -> min.v < v.v
                     [] p.op = "<=" -> min.v <= v.v
                     [] p.op = ">" -> open \/ max.v > v.v
                     [] p.op = ">=" -> open \/ max.v >= v.v
    IN  Exceeds(min, max) \/ \E i \in DOMAIN p.values : could(p.values[i])

\* stat_value: <<>> if the bytes cannot be relied on.
StatValue(leaf, bytes) ==
    LET phys == Phys(leaf.ty)
        signed(n) == Wrapped(LittleEndian(SubSeq(bytes, 1, n)), n * IntBits)
        raw == IF Len(bytes) = 1 THEN IF IsUnsigned(leaf.ty) THEN bytes[1] ELSE signed(1) ELSE signed(2)
    IN  CASE leaf.ptype = Physical.INT96 -> <<>>
          [] leaf.ptype \in {Physical.FIXED, Physical.BYTE_ARRAY} /\ leaf.ty.is = "Decimal" -> <<>>
          [] bytes = <<>> -> <<>>
          [] phys = "I32" -> <<Value("I32", signed(1))>>
          [] phys = "I64" -> <<Value("I64", ToMicros(leaf.unit, raw))>>
          [] phys = "F64" -> <<Value("F64", IF Len(bytes) = 1 THEN 256 * bytes[1] ELSE LittleEndian(SubSeq(bytes, 1, 2)))>>
          [] OTHER -> <<>>
BytesMayMatch(p, leaf, min, max) ==
    LET least == StatValue(leaf, min)
        most == StatValue(leaf, max)
    IN  least = <<>> \/ most = <<>> \/ RangeMayMatch(p, least[1], most[1])

\* A column stands for its first leaf.
LeafOf(columns, c) == columns[c].leaves[1]
IsFlat(columns, c) == columns[c].node = NoNode
Chunk(columns, group, c) == group[1][columns[c].phys[1]]
MetaOf(columns, group, c) == Chunk(columns, group, c)[3]

\* may_match: only min_value and max_value are looked at, never the older fields.
MayMatch(columns, group, pruners, projection) ==
    \A i \in DOMAIN pruners :
        LET c == projection[pruners[i].column]
            stats == Field(MetaOf(columns, group, c), 12, Nothing)
        IN  {5, 6} \subseteq DOMAIN stats => BytesMayMatch(pruners[i], LeafOf(columns, c), stats[6], stats[5])

-----------------------------------------------------------------------------
(* Ranges of the file, [start, end), to fetch before more can be said *)

BloomFilterProbe == 60  \* BLOOM_FILTER_PROBE, 128 KiB, asked for if the length of a filter is not known
Span(start, len) == <<[start |-> start, end |-> start + len]>>
SpanFrom(value, offset, length) ==
    IF {offset, length} \subseteq DOMAIN value /\ Field(value, offset, -1) >= 0 /\ Field(value, length, -1) >= 0
    THEN Span(value[offset], value[length]) ELSE <<>>
ColumnIndexRange(chunk) == SpanFrom(chunk, 6, 7)
OffsetIndexRange(chunk) == SpanFrom(chunk, 4, 5)
BloomFilterProbeRange(meta) ==
    IF Field(meta, 14, -1) < 0 THEN <<>>
    ELSE Span(meta[14], IF Field(meta, 15, 0) > 0 THEN meta[15] ELSE BloomFilterProbe)

IndexRanges(columns, group, pruners, projection) ==
    LET ofPruner(p) ==
            LET c == projection[p.column]
            IN  ColumnIndexRange(Chunk(columns, group, c))
                \o (IF p.op \in {"=", "in"} THEN BloomFilterProbeRange(MetaOf(columns, group, c)) ELSE <<>>)
        ofColumn(c) == IF IsFlat(columns, c) THEN OffsetIndexRange(Chunk(columns, group, c)) ELSE <<>>
    IN  IF pruners = <<>> THEN <<>>
        ELSE FlattenSeq([i \in DOMAIN pruners |-> ofPruner(pruners[i])])
             \o FlattenSeq([i \in DOMAIN projection |-> ofColumn(projection[i])])

\* Source::get, once the ranges asked for are there, as far as they are in the file: <<>> or
\* <<the bytes>>.
Fetched(file, ranges) == UNION {{x \in ranges[i].start..(ranges[i].end - 1) : x < Len(file)} : i \in DOMAIN ranges}
Bytes(file, have, span) ==
    IF span.start..(span.end - 1) \subseteq have THEN <<SubSeq(file, span.start + 1, span.end)>> ELSE <<>>
BytesOf(file, have, spans) == IF spans = <<>> THEN <<>> ELSE Bytes(file, have, spans[1])

-----------------------------------------------------------------------------
(* Bloom filters: blocks of eight words of 32 bits, one bit of each set    *)
(* for a key.  The hash and the salts are smaller than those of the code.  *)

BlockBytes == 32
Salt == <<1, 3, 5, 7, 9, 11, 13, 15>>
Hash(key) == FoldLeft(LAMBDA h, b : (h * 37 + b + 3) % 4096, Len(key), key)
BlockIndex(key, blocks) == ((Hash(key) \div 32) * blocks) \div 128
BitOf(key, i) == (Salt[i] * (Hash(key) % 32)) % 32
MayHold(bits, key) ==
    LET base == BlockIndex(key, Len(bits) \div BlockBytes) * BlockBytes
    IN  \A i \in DOMAIN Salt :
            LET bit == BitOf(key, i)
                byte == bits[base + 4 * (i - 1) + (bit \div 8) + 1]
            IN  (byte \div 2^(bit % 8)) % 2 = 1

UnwindTimeUnit(v, unit) ==
    CASE unit = "Nanos" -> <<>>
      [] unit = "Millis" -> IF v % PowerOfTen = 0 THEN <<v \div PowerOfTen>> ELSE <<>>
      [] OTHER -> <<v>>

\* plain_encode_for_bloom: <<>> if it is not sure which bytes a writer put in for the value.
PlainEncodeForBloom(leaf, value) ==
    LET stored == IF value.tag = "I64" /\ ~(leaf.ptype = Physical.INT32 /\ IsUnsigned(leaf.ty))
                  THEN UnwindTimeUnit(value.v, leaf.unit) ELSE <<value.v>>
        range == IF value.tag = "I64" /\ IsUnsigned(leaf.ty) THEN 0..(2^IntBits - 1) ELSE -(2^(IntBits - 1))..(2^(IntBits - 1) - 1)
    IN  CASE leaf.ptype = Physical.INT32 /\ value.tag \in {"I32", "I64"} ->
                 IF stored = <<>> THEN <<>> ELSE IF stored[1] \in range THEN <<LowBytes(stored[1], 1)>> ELSE <<>>
          [] leaf.ptype = Physical.INT64 /\ value.tag \in {"I32", "I64"} ->
                 IF stored = <<>> THEN <<>> ELSE <<LowBytes(stored[1], 2)>>
          [] leaf.ptype = Physical.FLOAT /\ value.v \notin {0, NaN} -> <<LowBytes(AsFloat(value.v, Ty("Double"), Ty("Float")) \div 256, 1)>>
          [] leaf.ptype = Physical.DOUBLE /\ value.v \notin {0, NaN} -> <<LowBytes(value.v, 2)>>
          [] OTHER -> <<>>

\* Whether the filter of the column says that none of the values is there.
KnownAbsent(p, leaf, buf) ==
    LET header == Decode("BloomFilterHeader", buf, 1)
        bits == SubSeq(buf, header.at, header.at + header.val[1] - 1)
        keys == [i \in DOMAIN p.values |-> PlainEncodeForBloom(leaf, p.values[i])]
    IN  IF header.at = 0 THEN FALSE
        ELSE IF header.at + header.val[1] - 1 > Len(buf) THEN FALSE
        ELSE \A i \in DOMAIN keys : IF keys[i] = <<>> THEN FALSE ELSE ~MayHold(bits, keys[i][1])

BloomKeeps(file, have, columns, group, pruners, projection) ==
    \A i \in DOMAIN pruners :
        LET c == projection[pruners[i].column]
            buf == BytesOf(file, have, BloomFilterProbeRange(MetaOf(columns, group, c)))
        IN  pruners[i].op \in {"=", "in"} /\ IsFlat(columns, c) /\ buf # <<>> => ~KnownAbsent(pruners[i], LeafOf(columns, c), buf[1])

-----------------------------------------------------------------------------
(* Sets of rows, as ascending intervals [start, end) that do not touch *)

Rows2(start, end) == [start |-> start, end |-> end]
PushMerged(out, start, end) ==
    IF start >= end THEN out
    ELSE IF out # <<>> /\ Last(out).end = start THEN Front(out) \o <<Rows2(Last(out).start, end)>>
    ELSE Append(out, Rows2(start, end))

RECURSIVE IntersectFrom(_, _, _)
IntersectFrom(a, b, out) ==
    IF a = <<>> \/ b = <<>> THEN out
    ELSE LET first == Head(a)
             other == Head(b)
             with == PushMerged(out, Largest(first.start, other.start), Least(first.end, other.end))
         IN  IF first.end < other.end THEN IntersectFrom(Tail(a), b, with) ELSE IntersectFrom(a, Tail(b), with)
IntersectRanges(a, b) == IntersectFrom(a, b, <<>>)
RangesOverlap(ranges, start, end) == \E i \in DOMAIN ranges : ranges[i].start < end /\ start < ranges[i].end

\* Pages, by their places: [offset, size, first row].
PlacesOf(offsetIndex) ==
    [i \in DOMAIN Field(offsetIndex, 1, <<>>) |->
        LET place == offsetIndex[1][i] IN [off |-> Field(place, 1, 0), size |-> Field(place, 2, 0), row |-> Field(place, 3, 0)]]
EndRow(places, i, rows) == IF i = Len(places) THEN rows ELSE places[i + 1].row

PageRangesForPruner(p, leaf, index, places, rows) ==
    LET keeps(i) == index[1][i] \/ BytesMayMatch(p, leaf, index[2][i], index[3][i])
    IN  FoldLeft(LAMBDA out, i : IF keeps(i) THEN PushMerged(out, places[i].row, EndRow(places, i, rows)) ELSE out,
                 <<>>, [i \in DOMAIN places |-> i])

\* What a structure decodes to: <<>> or <<its value>>.
Decoded(name, buf) ==
    IF buf = <<>> THEN <<>> ELSE LET v == Decode(name, buf[1], 1) IN IF v.at = 0 THEN <<>> ELSE <<v.val>>
OffsetsOf(file, have, columns, group, c) ==
    LET index == Decoded("OffsetIndex", BytesOf(file, have, OffsetIndexRange(Chunk(columns, group, c))))
    IN  IF index = <<>> THEN <<>> ELSE PlacesOf(index[1])

\* The rows the pages leave, <<>> if no pruner has anything to go by.
KeptRanges(file, have, columns, group, pruners, projection, rows) ==
    LET of(p) ==
            LET c == projection[p.column]
                index == Decoded("ColumnIndex", BytesOf(file, have, ColumnIndexRange(Chunk(columns, group, c))))
                places == OffsetsOf(file, have, columns, group, c)
            IN  IF ~IsFlat(columns, c) \/ index = <<>> \/ places = <<>> THEN <<>>
                ELSE IF Len(Field(index[1], 1, <<>>)) # Len(places) THEN <<>>
                ELSE <<PageRangesForPruner(p, LeafOf(columns, c), index[1], places, rows)>>
        known == FlattenSeq([i \in DOMAIN pruners |-> of(pruners[i])])
    IN  IF known = <<>> THEN <<>> ELSE <<FoldLeft(IntersectRanges, known[1], Tail(known))>>

\* The pages of a column that hold rows to keep, and the dictionary they need: <<>> if the
\* whole chunk has to be read instead.
HasDictionary(meta) ==
    11 \in DOMAIN meta \/ {Encodings.PLAIN_DICTIONARY, Encodings.RLE_DICTIONARY} \cap Range(Field(meta, 2, <<>>)) # {}
DictionaryPageRange(meta, first) ==
    IF Field(meta, 11, 0) > 0 /\ first > meta[11] THEN Span(meta[11], first - meta[11]) ELSE <<>>
PagePlan(file, have, columns, group, c, kept, rows) ==
    LET places == OffsetsOf(file, have, columns, group, c)
        meta == MetaOf(columns, group, c)
        chosen == SelectSeq([i \in DOMAIN places |-> i], LAMBDA i : RangesOverlap(kept, places[i].row, EndRow(places, i, rows)))
        dict == DictionaryPageRange(meta, places[1].off)
        plan(d) == [dict |-> d, pages |-> [k \in DOMAIN chosen |-> places[chosen[k]]]]
    IN  IF ~IsFlat(columns, c) \/ places = <<>> THEN <<>>
        ELSE IF chosen = <<>> \/ ~HasDictionary(meta) THEN <<plan(<<>>)>>
        ELSE IF dict = <<>> THEN <<>> ELSE <<plan(dict)>>

\* refine_with_index: whether to read the row group, and then which rows of it.
Whole == [keep |-> TRUE, kept |-> <<>>, columns |-> <<>>]
Nowhere == [Whole EXCEPT !.keep = FALSE]
RefineWithIndex(file, have, columns, group, pruners, projection) ==
    LET rows == Field(group, 3, 0)
        kept == KeptRanges(file, have, columns, group, pruners, projection, rows)
    IN  IF pruners = <<>> THEN Whole
        ELSE IF ~BloomKeeps(file, have, columns, group, pruners, projection) THEN Nowhere
        ELSE IF kept = <<>> THEN Whole
        ELSE IF kept[1] = <<>> THEN Nowhere
        ELSE [keep |-> TRUE, kept |-> kept,
              columns |-> [i \in DOMAIN projection |-> PagePlan(file, have, columns, group, projection[i], kept[1], rows)]]

-----------------------------------------------------------------------------
(* The rows *)

PageSpan(place) == Span(place.off, place.size)
PlanOf(selection, i) == IF selection.kept = <<>> THEN <<>> ELSE selection.columns[i]

\* split_ranges
SplitRanges(columns, group, projection, selection) ==
    LET whole(c) == FlattenSeq([i \in DOMAIN columns[c].phys |->
                        LET range == ByteRange(group[1][columns[c].phys[i]][3]) IN Span(range.start, range.len)])
        of(i) == LET plan == PlanOf(selection, i)
                 IN  IF plan = <<>> THEN whole(projection[i])
                     ELSE plan[1].dict \o FlattenSeq([k \in DOMAIN plan[1].pages |-> PageSpan(plan[1].pages[k])])
    IN  FlattenSeq([i \in DOMAIN projection |-> of(i)])

\* get_or_internal: what was not fetched is an internal error.
PieceOf(file, have, span, row) ==
    LET bytes == Bytes(file, have, span)
    IN  [ok |-> bytes # <<>>, buf |-> IF bytes = <<>> THEN <<>> ELSE bytes[1], start |-> span.start, row |-> row]
NoPiece == [ok |-> TRUE, buf |-> <<>>, start |-> 0, row |-> 0]
PiecesOf(file, have, plan) ==
    [dict |-> IF plan.dict = <<>> THEN NoPiece ELSE PieceOf(file, have, plan.dict[1], 0),
     pages |-> [k \in DOMAIN plan.pages |-> PieceOf(file, have, PageSpan(plan.pages[k])[1], plan.pages[k].row)] \o <<>>]
AllThere(pieces) == pieces.dict.ok /\ \A k \in DOMAIN pieces.pages : pieces.pages[k].ok
ChunkThere(file, have, columns, group, c) ==
    \A i \in DOMAIN columns[c].phys :
        LET range == ByteRange(group[1][columns[c].phys[i]][3])
        IN  Bytes(file, have, Span(range.start, range.len)[1]) # <<>>

InRanges(kept, row) == \E i \in DOMAIN kept : kept[i].start <= row /\ row < kept[i].end
Gathered(values, kept) ==
    LET rows == SelectSeq([i \in DOMAIN values |-> i], LAMBDA i : kept = <<>> \/ InRanges(kept[1], i - 1))
    IN  [k \in DOMAIN rows |-> values[rows[k]]]

\* codec_tasks and then read_split, for one column.
SelectedColumn(file, have, column, meta, plan, kept) ==
    LET pieces == PiecesOf(file, have, plan)
        codec == Field(meta, 4, 0)
        wanted == CollectCodecPagesSelected(codec, (IF plan.dict = <<>> THEN <<>> ELSE <<pieces.dict>>) \o pieces.pages)
        read == ReadSelectedPages(column.leaves[1], codec, pieces.dict, pieces.pages, HostCache(file, wanted.val))
        rows == SelectSeq(read.val, LAMBDA r : InRanges(kept, r.row))
    IN  IF plan.pages = <<>> THEN Got(1, <<>>)
        ELSE IF ~AllThere(pieces) THEN Broken
        ELSE IF wanted.at = 0 THEN Broken
        ELSE IF read.at = 0 THEN Broken
        ELSE Got(1, [k \in DOMAIN rows |-> rows[k].v])
WholeColumn(file, have, columns, group, c, kept) ==
    LET wanted == CodecPagesOf(file, <<columns[c]>>, group)
        read == ReadColumn(file, columns[c], group, HostCache(file, wanted.val))
    IN  IF ~ChunkThere(file, have, columns, group, c) \/ wanted.at = 0 THEN Broken
        ELSE IF read.at = 0 THEN Broken ELSE Got(1, Gathered(read.val, kept))
ReadSplit(file, have, columns, group, projection, selection) ==
    LET of(i) == LET c == projection[i]
                     plan == PlanOf(selection, i)
                 IN  IF plan = <<>> THEN WholeColumn(file, have, columns, group, c, selection.kept)
                     ELSE SelectedColumn(file, have, columns[c], MetaOf(columns, group, c), plan[1], selection.kept[1])
        read == [i \in DOMAIN projection |-> of(i)] \o <<>>
    IN  IF \E i \in DOMAIN read : read[i].at = 0 THEN Broken
        ELSE Got(1, [i \in DOMAIN read |-> read[i].val])

\* Scan::next, one row group after the other: what of it is read, and the columns of the rows
\* that are.  A part that has other types than the table is read in full, and cast.
SelectionOf(file, columns, group, pruners, projection) ==
    LET index == Fetched(file, IndexRanges(columns, group, pruners, projection))
    IN  IF ~MayMatch(columns, group, pruners, projection) THEN Nowhere
        ELSE RefineWithIndex(file, index, columns, group, pruners, projection)
ScanSplit(file, columns, group, projection, selection) ==
    LET have == Fetched(file, SplitRanges(columns, group, projection, selection))
    IN  IF selection.keep THEN ReadSplit(file, have, columns, group, projection, selection) ELSE Got(1, <<>>)

GroupsOf(open) == Field(open.meta, 4, <<>>)
PlannedScan(file, open, projection, tableTypes, predicate) ==
    LET scanned == [i \in DOMAIN projection |-> tableTypes[projection[i]]]
        pruners == UsablePruners(ExtractPruners(predicate, scanned), projection, tableTypes,
                                 [c \in DOMAIN open.columns |-> open.columns[c].ty])
    IN  [g \in DOMAIN GroupsOf(open) |-> SelectionOf(file, open.columns, GroupsOf(open)[g], pruners, projection)] \o <<>>
=============================================================================
