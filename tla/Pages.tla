------------------------------- MODULE Pages --------------------------------
(***************************************************************************)
(* From the bytes of a column chunk to the values of a column: the page    *)
(* encodings (parquet/encoding.rs), the pages of a chunk and the pages the *)
(* host has to decompress first (parquet/reader.rs).                       *)
(*                                                                         *)
(* Widths are scaled down: an INT32 has IntBits bits, an INT64 twice as    *)
(* many, 16 bytes are three and a float is the bits of a double's first    *)
(* byte.  A value is <<v>> and NULL is <<>>.                               *)
(***************************************************************************)
EXTENDS Thrift, FiniteSets

IntBits == 8  \* the 32 bits of an INT32
PowerOfTen == 10  \* the 1000 between units of time
Broken == Got(0, <<>>)
Needs(condition, got) == IF condition THEN got ELSE Broken
Least(a, b) == IF a < b THEN a ELSE b
Repeat(n, x) == [i \in 1..n |-> x]
DivCeil(a, b) == (a + b - 1) \div b
From(s, n) == SubSeq(s, n, Len(s))

\* bit_width: the bits a level up to max takes.
RECURSIVE BitWidth(_)
BitWidth(max) == IF max = 0 THEN 0 ELSE 1 + BitWidth(max \div 2)

\* BitReader::read: want bits from bit position bit, the low bits of a byte first.
RECURSIVE ReadBits(_, _, _)
ReadBits(buf, bit, want) ==
    IF want = 0 THEN 0
    ELSE LET off == bit % 8
             take == Least(8 - off, want)
             chunk == (buf[(bit \div 8) + 1] \div 2^off) % 2^take
         IN  chunk + 2^take * ReadBits(buf, bit + take, want - take)

Signed(u, bits) == IF u >= 2^(bits - 1) THEN u - 2^bits ELSE u
Wrapped(v, bits) == Signed(v % 2^bits, bits)

-----------------------------------------------------------------------------
(* The hybrid of runs and bit-packed groups: levels and dictionary indices *)

RleNew(data, width) ==
    [data |-> data, pos |-> 1, width |-> width, value |-> 0, left |-> 0, packed |-> 0, group |-> <<>>]

LittleEndian(bytes) == FoldRight(LAMBDA b, sum : b + 256 * sum, bytes, 0)

NextRun(d) ==
    LET header == Uvarint(d.data, d.pos)
        count == header.val \div 2
        avail == Len(d.data) - header.at + 1
        run == Take(d.data, header.at, DivCeil(d.width, 8))
        value == LittleEndian(run.val)
    IN  IF header.at = 0 THEN [d EXCEPT !.pos = 0]
        ELSE IF header.val % 2 = 1
        THEN IF count * d.width > avail THEN [d EXCEPT !.pos = 0]
             ELSE [d EXCEPT !.pos = header.at, !.packed = count * 8]
        ELSE IF run.at = 0 \/ value >= 2^d.width THEN [d EXCEPT !.pos = 0]
        ELSE [d EXCEPT !.pos = run.at, !.value = value, !.left = count]

FillGroup(d) ==
    LET bytes == SubSeq(d.data, d.pos, d.pos + d.width - 1)
    IN  [d EXCEPT !.pos = @ + d.width, !.packed = @ - 8,
                  !.group = [k \in 1..8 |-> ReadBits(bytes, (k - 1) * d.width, d.width)]]

RECURSIVE EnsureAvailable(_)
EnsureAvailable(d) ==
    IF d.pos = 0 \/ d.group # <<>> \/ d.left > 0 THEN d
    ELSE EnsureAvailable(IF d.packed > 0 THEN FillGroup(d) ELSE NextRun(d))

RECURSIVE ReadRun(_, _, _)
ReadRun(decoder, need, done) ==
    IF need = 0 THEN Got(1, done)
    ELSE LET d == EnsureAvailable(decoder)
             take == Least(need, IF d.group # <<>> THEN Len(d.group) ELSE d.left)
         IN  IF d.pos = 0 THEN Broken
             ELSE IF d.group # <<>>
             THEN ReadRun([d EXCEPT !.group = From(@, take + 1)], need - take,
                          done \o SubSeq(d.group, 1, take))
             ELSE ReadRun([d EXCEPT !.left = @ - take], need - take, done \o Repeat(take, d.value))
ReadU32(data, width, n) == ReadRun(RleNew(data, width), n, <<>>)

ReadLevels(data, n, max) ==
    LET levels == ReadU32(data, BitWidth(max), n)
    IN  Needs(levels.at # 0 /\ \A i \in DOMAIN levels.val : levels.val[i] <= max, levels)

\* Levels of a v1 page: their length in four bytes, then the levels.
ReadLevelsPrefixed(page, n, max) ==
    LET length == LittleEndian(SubSeq(page, 1, 4))
    IN  IF Len(page) < 4 \/ length > Len(page) - 4 THEN Broken
        ELSE LET levels == ReadLevels(SubSeq(page, 5, 4 + length), n, max)
             IN  Needs(levels.at # 0, Got(5 + length, levels.val))

-----------------------------------------------------------------------------
(* DELTA_BINARY_PACKED and the encodings of strings built from it          *)

Miniblock(src, pos, perMini, width, minDelta, st, n, bits) ==
    LET take == Least(perMini, st.remaining)
        emit == IF Len(st.out) < n THEN Least(take, n - Len(st.out)) ELSE 0
        bytes == SubSeq(src, pos, pos + (perMini * width) \div 8 - 1)
        next == FoldLeft(LAMBDA s, k : LET v == s.last + minDelta + ReadBits(bytes, (k - 1) * width, width)
                                       IN  [last |-> v, out |-> Append(s.out, Wrapped(v, bits))],
                         [last |-> st.last, out |-> st.out], [k \in 1..emit |-> k])
    IN  [pos |-> pos + (perMini * width) \div 8, remaining |-> st.remaining - take,
         last |-> next.last, out |-> next.out]

RECURSIVE Miniblocks(_, _, _, _, _, _, _), DeltaBlocks(_, _, _, _, _, _)
Miniblocks(src, widths, perMini, minDelta, st, n, bits) ==
    IF widths = <<>> \/ st.remaining = 0 \/ st.pos = 0 THEN st
    ELSE IF Head(widths) > bits \/ (perMini * Head(widths)) \div 8 > Len(src) - st.pos + 1
    THEN [st EXCEPT !.pos = 0]
    ELSE Miniblocks(src, Tail(widths), perMini, minDelta,
                    Miniblock(src, st.pos, perMini, Head(widths), minDelta, st, n, bits), n, bits)
DeltaBlocks(src, minis, perMini, st, n, bits) ==
    IF st.remaining = 0 \/ st.pos = 0 THEN st
    ELSE LET minDelta == Zigzag(src, st.pos)
             widths == Take(src, minDelta.at, minis)
         IN  IF widths.at = 0 THEN [st EXCEPT !.pos = 0]
             ELSE DeltaBlocks(src, minis, perMini,
                              Miniblocks(src, widths.val, perMini, minDelta.val,
                                         [st EXCEPT !.pos = widths.at], n, bits), n, bits)

\* decode_delta: n values, and where the bytes after the whole stream begin.
DecodeDelta(src, n, bits) ==
    LET block == Uvarint(src, 1)
        minis == Uvarint(src, block.at)
        total == Uvarint(src, minis.at)
        first == Zigzag(src, total.at)
        well == /\ first.at # 0 /\ block.val > 0 /\ minis.val \in 1..block.val
                /\ block.val % minis.val = 0 /\ (block.val \div minis.val) % 32 = 0
                /\ n <= total.val
        start == [pos |-> first.at, remaining |-> IF total.val = 0 THEN 0 ELSE total.val - 1,
                  last |-> first.val,
                  out |-> IF total.val > 0 /\ n > 0 THEN <<Wrapped(first.val, bits)>> ELSE <<>>]
    IN  IF ~well THEN Broken
        ELSE LET end == DeltaBlocks(src, minis.val, block.val \div minis.val, start, n, bits)
             IN  Needs(end.pos # 0, Got(end.pos, end.out))

\* The strings whose lengths are given, one after the other in data.
Cut(data, lengths) ==
    FoldLeft(LAMBDA c, l : IF c.at = 0 \/ l < 0 \/ l > Len(data) - c.at + 1 THEN Broken
                           ELSE Got(c.at + l, Append(c.val, SubSeq(data, c.at, c.at + l - 1))),
             Got(1, <<>>), lengths)

DecodeDeltaLengths(src, n) ==
    LET lengths == DecodeDelta(src, n, IntBits)
    IN  IF lengths.at = 0 \/ Len(lengths.val) # n THEN Broken
        ELSE Cut(From(src, lengths.at), lengths.val)

\* The length of the prefix shared with the string before, and the rest of the string.
DecodeDeltaStrings(src, n) ==
    LET prefixes == DecodeDelta(src, n, IntBits)
        rest == From(src, prefixes.at)
        suffixes == DecodeDelta(rest, n, IntBits)
    IN  IF prefixes.at = 0 \/ suffixes.at = 0 \/ Len(prefixes.val) # n \/ Len(suffixes.val) # n THEN Broken
        ELSE LET cut == Cut(From(rest, suffixes.at), suffixes.val)
             IN  IF cut.at = 0 THEN Broken
                 ELSE FoldLeft(LAMBDA c, i :
                          LET before == IF c.val = <<>> THEN <<>> ELSE Last(c.val)
                          IN  IF c.at = 0 \/ prefixes.val[i] \notin 0..Len(before) THEN Broken
                              ELSE Got(1, Append(c.val, SubSeq(before, 1, prefixes.val[i]) \o cut.val[i])),
                      Got(1, <<>>), [i \in 1..n |-> i])
-----------------------------------------------------------------------------
(* Types, and values as the file stores them made values of the type       *)

Physical == [BOOLEAN |-> 0, INT32 |-> 1, INT64 |-> 2, INT96 |-> 3, FLOAT |-> 4, DOUBLE |-> 5,
             BYTE_ARRAY |-> 6, FIXED |-> 7]
PlainWidth == <<1, 2, 3, 1, 2>>  \* bytes of an INT32, INT64, INT96, FLOAT, DOUBLE
WideBytes == 3                   \* the 16 bytes of a HUGEINT, a wide DECIMAL, a UUID
NarrowDigits == 4                \* a DECIMAL of up to so many digits (18) is an INT64
MostDigits == 6                  \* the 38 digits of the widest DECIMAL
JulianEpoch == 100
MicrosPerDay == 50

Ty(is) == [is |-> is, p |-> 0, s |-> 0]
DecimalTy(p, s) == [is |-> "Decimal", p |-> p, s |-> s]
Phys(ty) ==
    CASE ty.is = "Boolean" -> "Bool"
      [] ty.is \in {"Null", "TinyInt", "SmallInt", "Int", "UTinyInt", "USmallInt", "Date"} -> "I32"
      [] ty.is \in {"BigInt", "UInt", "Time", "Timestamp", "Timestamptz"} -> "I64"
      [] ty.is \in {"HugeInt", "UBigInt", "Interval"} -> "I128"
      [] ty.is = "Decimal" -> IF ty.p <= NarrowDigits THEN "I64" ELSE "I128"
      [] ty.is \in {"Float", "Double"} -> "F64"
      [] OTHER -> "Bytes"
IsUnsigned(ty) == ty.is \in {"UTinyInt", "USmallInt", "UInt", "UBigInt"}

\* What a column of this type may hold of the integers its pages can.
LogicalRange(ty) ==
    CASE ty.is = "TinyInt" -> -8..7
      [] ty.is = "SmallInt" -> -32..31
      [] ty.is = "UTinyInt" -> 0..15
      [] ty.is = "USmallInt" -> 0..63
      [] OTHER -> -128..127

\* A leaf: how it is stored, its type, the levels on its path, and its reader.
Leaf(ptype, ty, def, rep, len, unit, nested) ==
    [ptype |-> ptype, ty |-> ty, def |-> def, rep |-> rep, len |-> len, unit |-> unit, nested |-> nested]

Truncated(v, by) == IF v < 0 THEN -((-v) \div by) ELSE v \div by
ToMicros(unit, v) ==
    CASE unit = "Millis" -> v * PowerOfTen
      [] unit = "Nanos" -> Truncated(v, PowerOfTen)
      [] OTHER -> v

\* push_i32_values, push_i64_values
PushInts(desc, vals, bits) ==
    LET phys == Phys(desc.ty)
        of(v) == IF IsUnsigned(desc.ty) THEN v % 2^bits ELSE v
    IN  CASE phys = "I32" ->
                 Needs(bits = IntBits /\ \A i \in DOMAIN vals : vals[i] \in LogicalRange(desc.ty), Got(1, vals))
          [] phys = "I64" ->
                 Got(1, [i \in DOMAIN vals |-> ToMicros(desc.unit, IF bits = IntBits THEN of(vals[i]) ELSE vals[i])])
          [] phys = "I128" -> Got(1, [i \in DOMAIN vals |-> of(vals[i])])
          [] OTHER -> Broken

BigEndianSigned(bytes) ==
    FoldLeft(LAMBDA v, b : 256 * v + b, IF bytes # <<>> /\ bytes[1] >= 128 THEN -1 ELSE 0, bytes)

\* push_byte_values: an INTERVAL is months, days and milliseconds.
PushBytes(desc, items) ==
    LET phys == Phys(desc.ty)
        signed == [i \in DOMAIN items |-> BigEndianSigned(items[i])]
        all(Fits(_)) == \A i \in DOMAIN items : Fits(i)
    IN  CASE desc.ty.is = "Interval" ->
                 IF \A i \in DOMAIN items : Len(items[i]) = 3
                 THEN Got(1, [i \in DOMAIN items |->
                                <<Signed(items[i][1], 8), Signed(items[i][2], 8), PowerOfTen * items[i][3]>>])
                 ELSE Broken
          [] phys = "Bytes" -> Got(1, items)
          [] phys \in {"I64", "I128"} ->
                 IF /\ \A i \in DOMAIN items : Len(items[i]) <= WideBytes
                    /\ phys = "I64" => \A i \in DOMAIN items : signed[i] = Wrapped(signed[i], 2 * IntBits)
                 THEN Got(1, signed) ELSE Broken
          [] OTHER -> Broken

\* n byte strings, each after its length in four bytes.
RECURSIVE Prefixed(_, _, _, _)
Prefixed(data, at, n, done) ==
    IF n = 0 THEN Got(at, done)
    ELSE LET length == Take(data, at, 4)
             item == Take(data, length.at, LittleEndian(length.val))
         IN  IF length.at = 0 \/ item.at = 0 THEN Broken
             ELSE Prefixed(data, item.at, n - 1, Append(done, item.val))

DecodePlain(desc, data, n) ==
    LET w == IF desc.ptype = Physical.FIXED THEN desc.len ELSE PlainWidth[desc.ptype]
        item(i) == SubSeq(data, (i - 1) * w + 1, i * w)
    IN  CASE desc.ptype = Physical.BOOLEAN ->
                 IF 8 * Len(data) >= n THEN Got(1, [i \in 1..n |-> ReadBits(data, i - 1, 1) = 1]) ELSE Broken
          [] desc.ptype = Physical.BYTE_ARRAY ->
                 LET items == Prefixed(data, 1, n, <<>>)
                 IN  IF items.at = 0 THEN Broken ELSE PushBytes(desc, items.val)
          [] desc.ptype \notin {Physical.BOOLEAN, Physical.BYTE_ARRAY} ->
                 CASE w = 0 \/ Len(data) < n * w -> Broken
                   [] desc.ptype \in {Physical.INT32, Physical.INT64} ->
                          PushInts(desc, [i \in 1..n |-> Signed(LittleEndian(item(i)), 8 * w)], 8 * w)
                   [] desc.ptype = Physical.INT96 ->
                          Needs(Phys(desc.ty) = "I64",
                                Got(1, [i \in 1..n |-> (Signed(item(i)[3], 8) - JulianEpoch) * MicrosPerDay
                                                       + (LittleEndian(SubSeq(item(i), 1, 2)) \div PowerOfTen)]))
                   [] desc.ptype = Physical.FLOAT ->
                          Needs(Phys(desc.ty) = "F64", Got(1, [i \in 1..n |-> 256 * item(i)[1]]))
                   [] desc.ptype = Physical.DOUBLE ->
                          Needs(Phys(desc.ty) = "F64", Got(1, [i \in 1..n |-> LittleEndian(item(i))]))
                   [] OTHER -> PushBytes(desc, [i \in 1..n |-> item(i)])

\* The values of an encoding that are booleans: a run of levels, its length before
\* it or not.
DecodeBooleans(data, n) ==
    LET length == LittleEndian(SubSeq(data, 1, 4))
        levels == ReadLevels(IF Len(data) >= 4 /\ length = Len(data) - 4 THEN From(data, 5) ELSE data, n, 1)
    IN  Needs(levels.at # 0, Got(1, [i \in DOMAIN levels.val |-> levels.val[i] = 1]))

Encodings == [PLAIN |-> 0, PLAIN_DICTIONARY |-> 2, RLE |-> 3, BIT_PACKED |-> 4, DELTA |-> 5,
              DELTA_LENGTH |-> 6, DELTA_STRINGS |-> 7, RLE_DICTIONARY |-> 8, SPLIT |-> 9]

DecodeDense(desc, enc, data, present, dict) ==
    LET indices == ReadU32(From(data, 2), data[1], present)
        ints == DecodeDelta(data, present, IF desc.ptype = Physical.INT32 THEN IntBits ELSE 2 * IntBits)
    IN  CASE enc \in {Encodings.PLAIN_DICTIONARY, Encodings.RLE_DICTIONARY} ->
                 IF present = 0 THEN Got(1, <<>>)
                 ELSE IF dict.at = 0 \/ data = <<>> THEN Broken
                 ELSE IF data[1] > 32 \/ indices.at = 0 THEN Broken
                 ELSE IF \A i \in DOMAIN indices.val : indices.val[i] < Len(dict.val)
                 THEN Got(1, [i \in DOMAIN indices.val |-> dict.val[indices.val[i] + 1]])
                 ELSE Broken
          [] enc = Encodings.PLAIN -> DecodePlain(desc, data, present)
          [] enc = Encodings.DELTA ->
                 IF desc.ptype \in {Physical.INT32, Physical.INT64} /\ ints.at # 0
                 THEN PushInts(desc, ints.val, IF desc.ptype = Physical.INT32 THEN IntBits ELSE 2 * IntBits)
                 ELSE Broken
          [] enc = Encodings.DELTA_LENGTH ->
                 IF Phys(desc.ty) = "Bytes" THEN DecodeDeltaLengths(data, present) ELSE Broken
          [] enc = Encodings.DELTA_STRINGS ->
                 IF Phys(desc.ty) = "Bytes" THEN DecodeDeltaStrings(data, present) ELSE Broken
          [] enc = Encodings.RLE ->
                 IF desc.ptype = Physical.BOOLEAN THEN DecodeBooleans(data, present) ELSE Broken
          [] OTHER -> Broken

-----------------------------------------------------------------------------
(* Pages.  A page the engine cannot decompress itself was asked of the     *)
(* host before and is looked up by where its compressed bytes are in the   *)
(* file: cache is a function of [off, len].                                *)

Codecs == [NONE |-> 0, SNAPPY |-> 1, GZIP |-> 2]
BuiltIn == {Codecs.NONE, Codecs.SNAPPY}

\* What every codec does, here and at the host: takes some bytes and gives them back.
Deflated(bytes) == <<Len(bytes)>> \o Reverse(bytes)
Inflated(bytes) == IF bytes = <<>> THEN <<>> ELSE Reverse(Tail(bytes))

Decompress(codec, raw, size, off, cache) ==
    LET key == [off |-> off, len |-> Len(raw)]
        bytes == IF codec = Codecs.NONE THEN raw ELSE IF codec \in BuiltIn THEN Inflated(raw) ELSE cache[key]
    IN  IF size < 0 \/ (codec \notin BuiltIn /\ key \notin DOMAIN cache) THEN Broken
        ELSE Needs(Len(bytes) = size, Got(1, bytes))

PageTypes == [data |-> 0, index |-> 1, dictionary |-> 2, dataV2 |-> 3]
PageKind(hdr) == hdr[1]
Uncompressed(hdr) == hdr[2]
Compressed(hdr) == hdr[3]

\* A page's header and body, the place of the body in the file, the page after it.
PageAt(buf, at, start) ==
    LET hdr == Decode("PageHeader", buf, at)
        raw == Take(buf, hdr.at, Compressed(hdr.val))
    IN  IF hdr.at = 0 THEN Broken
        ELSE IF raw.at = 0 THEN Broken
        ELSE Got(raw.at, [hdr |-> hdr.val, raw |-> raw.val, off |-> start + hdr.at - 1])

DictionaryOf(desc, codec, page, cache) ==
    LET n == Field(Field(page.hdr, 7, Nothing), 1, 0)
        bytes == Decompress(codec, page.raw, Uncompressed(page.hdr), page.off, cache)
    IN  IF 7 \notin DOMAIN page.hdr \/ n < 0 \/ bytes.at = 0 THEN Broken ELSE DecodePlain(desc, bytes.val, n)

\* What a page adds to a column: as many levels as it says, values where the
\* definition level is full.
Contents(desc, enc, n, reps, defs, data, dict) ==
    LET values == DecodeDense(desc, enc, data, Cardinality({i \in 1..n : defs[i] = desc.def}), dict)
    IN  Needs(values.at # 0, Got(1, [reps |-> reps, defs |-> defs, values |-> values.val]))

AllLevels(n, max) == Got(1, Repeat(n, max))

DataPage(desc, codec, page, dict, cache) ==
    LET h == page.hdr[5]
        n == Field(h, 1, 0)
        bytes == Decompress(codec, page.raw, Uncompressed(page.hdr), page.off, cache)
        reps == IF desc.rep = 0 THEN AllLevels(n, 0) ELSE ReadLevelsPrefixed(bytes.val, n, desc.rep)
        rest == From(bytes.val, reps.at)
        defs == IF desc.def = 0 THEN AllLevels(n, 0) ELSE ReadLevelsPrefixed(rest, n, desc.def)
    IN  CASE 5 \notin DOMAIN page.hdr -> Broken
          [] n < 0 \/ bytes.at = 0 -> Broken
          [] (desc.rep > 0 /\ h[4] # Encodings.RLE) \/ (desc.def > 0 /\ h[3] # Encodings.RLE) -> Broken
          [] reps.at = 0 -> Broken
          [] defs.at = 0 -> Broken
          [] OTHER -> Contents(desc, h[2], n, reps.val, defs.val, From(rest, defs.at), dict)

\* Version 2: the levels come first, uncompressed, with their lengths in the header.  A
\* flat column's repetition levels are passed over, and no definition levels are no NULLs.
DataPageV2(desc, codec, page, dict, cache) ==
    LET h == page.hdr[8]
        n == Field(h, 1, 0)
        repLen == Field(h, 6, 0)
        defLen == Field(h, 5, 0)
        skip == repLen + defLen
        reps == IF desc.rep = 0 THEN AllLevels(n, 0) ELSE ReadLevels(SubSeq(page.raw, 1, repLen), n, desc.rep)
        defs == IF desc.def = 0 \/ (defLen = 0 /\ ~desc.nested) THEN AllLevels(n, desc.def)
                ELSE ReadLevels(SubSeq(page.raw, repLen + 1, skip), n, desc.def)
        values == From(page.raw, skip + 1)
        bytes == IF Field(h, 7, TRUE)
                 THEN Decompress(codec, values, Uncompressed(page.hdr) - skip, page.off + skip, cache)
                 ELSE Needs(Len(page.raw) = Uncompressed(page.hdr), Got(1, values))
    IN  CASE 8 \notin DOMAIN page.hdr -> Broken
          [] n < 0 \/ repLen < 0 \/ defLen < 0 \/ skip > Len(page.raw) -> Broken
          [] reps.at = 0 -> Broken
          [] defs.at = 0 -> Broken
          [] bytes.at = 0 -> Broken
          [] OTHER -> Contents(desc, h[4], n, reps.val, defs.val, bytes.val, dict)

\* decode_one_page and its twin for nested columns; an index page adds nothing.
ReadPage(desc, codec, page, dict, cache) ==
    CASE PageKind(page.hdr) = PageTypes.data -> DataPage(desc, codec, page, dict, cache)
      [] PageKind(page.hdr) = PageTypes.dataV2 -> DataPageV2(desc, codec, page, dict, cache)
      [] PageKind(page.hdr) = PageTypes.index -> Got(1, [reps |-> <<>>, defs |-> <<>>, values |-> <<>>])
      [] OTHER -> Broken

\* append_scattered: the values where there are some, NULL elsewhere.
RECURSIVE Scattered(_, _, _)
Scattered(defs, values, max) ==
    IF defs = <<>> THEN <<>>
    ELSE IF Head(defs) = max THEN <<<<Head(values)>>>> \o Scattered(Tail(defs), Tail(values), max)
    ELSE <<<<>>>> \o Scattered(Tail(defs), values, max)
Rows(desc, contents) == Scattered(contents.defs, contents.values, desc.def)

-----------------------------------------------------------------------------
(* Columns *)

NoDictionary == Broken
NoContents == [reps |-> <<>>, defs |-> <<>>, values |-> <<>>]
Joined(a, b) == [reps |-> a.reps \o b.reps, defs |-> a.defs \o b.defs, values |-> a.values \o b.values]

\* The pages of a chunk from at on: of a flat column until it has its rows, of a leaf
\* of a nested one to the end of the chunk.
RECURSIVE ChunkFrom(_, _, _, _, _, _, _, _, _)
ChunkFrom(desc, codec, buf, at, start, rows, dict, cache, done) ==
    IF IF desc.nested THEN at > Len(buf) ELSE Len(done.defs) >= rows THEN Got(1, done)
    ELSE LET page == PageAt(buf, at, start)
             isDict == PageKind(page.val.hdr) = PageTypes.dictionary
             read == IF isDict THEN DictionaryOf(desc, codec, page.val, cache)
                     ELSE ReadPage(desc, codec, page.val, dict, cache)
         IN  IF page.at = 0 THEN Broken
             ELSE IF read.at = 0 THEN Broken
             ELSE IF isDict THEN ChunkFrom(desc, codec, buf, page.at, start, rows, read, cache, done)
             ELSE IF ~desc.nested /\ Len(read.val.defs) > rows - Len(done.defs) THEN Broken
             ELSE ChunkFrom(desc, codec, buf, page.at, start, rows, dict, cache, Joined(done, read.val))
ReadLeafChunk(desc, codec, buf, start, rows, cache) ==
    ChunkFrom(desc, codec, buf, 1, start, rows, NoDictionary, cache, NoContents)
ReadColumnChunk(desc, codec, buf, start, rows, cache) ==
    LET contents == ReadLeafChunk(desc, codec, buf, start, rows, cache)
    IN  Needs(contents.at # 0, Got(1, Rows(desc, contents.val)))

\* read_selected_pages: the pages a page selection left, each a piece [buf, start, row] of
\* the chunk, and for each row read its number in the row group.
ReadSelectedPages(desc, codec, dictPiece, pieces, cache) ==
    LET dictPage == PageAt(dictPiece.buf, 1, dictPiece.start)
        dict == IF dictPiece.buf = <<>> THEN NoDictionary ELSE DictionaryOf(desc, codec, dictPage.val, cache)
        page(i) == PageAt(pieces[i].buf, 1, pieces[i].start)
        read(i) == ReadPage(desc, codec, page(i).val, dict, cache)
    IN  IF dictPiece.buf # <<>> /\ (dictPage.at = 0 \/ dict.at = 0) THEN Broken
        ELSE IF \E i \in DOMAIN pieces : pieces[i].row < 0 \/ page(i).at = 0 THEN Broken
        ELSE FoldLeft(LAMBDA done, i :
                 LET got == read(i)
                 IN  IF done.at = 0 \/ got.at = 0 THEN Broken
                     ELSE Got(1, done.val \o [k \in DOMAIN got.val.defs |->
                                                [row |-> pieces[i].row + k - 1, v |-> Rows(desc, got.val)[k]]]),
             Got(1, <<>>), [i \in DOMAIN pieces |-> i])

\* push_codec_page: the bytes of a page the host has to decompress, if any.
CodecPage(page) ==
    LET h == Field(page.hdr, 8, Nothing)
        v2 == PageKind(page.hdr) = PageTypes.dataV2 /\ 8 \in DOMAIN page.hdr
        skip == IF v2 THEN Field(h, 6, 0) + Field(h, 5, 0) ELSE 0
        len == Len(page.raw) - skip
    IN  IF skip > Uncompressed(page.hdr) \/ len < 0 THEN Broken
        ELSE IF len = 0 \/ (v2 /\ ~Field(h, 7, TRUE)) THEN Got(1, {})
        ELSE Got(1, {[off |-> page.off + skip, len |-> len, out |-> Uncompressed(page.hdr) - skip]})

ValuesOf(hdr) ==
    CASE PageKind(hdr) = PageTypes.data -> Field(Field(hdr, 5, Nothing), 1, 0)
      [] PageKind(hdr) = PageTypes.dataV2 -> Field(Field(hdr, 8, Nothing), 1, 0)
      [] OTHER -> 0

\* collect_codec_pages and, for a leaf of a nested column, collect_codec_pages_all.
RECURSIVE CodecPagesFrom(_, _, _, _, _, _)
CodecPagesFrom(desc, buf, at, start, left, done) ==
    IF IF desc.nested THEN at > Len(buf) ELSE left = 0 THEN Got(1, done)
    ELSE LET page == PageAt(buf, at, start)
             wanted == CodecPage(page.val)
             added == ValuesOf(page.val.hdr)
         IN  IF page.at = 0 THEN Broken
             ELSE IF wanted.at = 0 \/ (~desc.nested /\ added > left) THEN Broken
             ELSE CodecPagesFrom(desc, buf, page.at, start, left - added, done \cup wanted.val)
CollectCodecPages(desc, codec, buf, start, rows) ==
    IF codec \in BuiltIn THEN Got(1, {}) ELSE CodecPagesFrom(desc, buf, 1, start, rows, {})

CollectCodecPagesSelected(codec, pieces) ==
    LET wanted(i) == LET page == PageAt(pieces[i].buf, 1, pieces[i].start)
                     IN  IF page.at = 0 THEN Broken ELSE CodecPage(page.val)
    IN  IF codec \in BuiltIn THEN Got(1, {})
        ELSE IF \E i \in DOMAIN pieces : wanted(i).at = 0 THEN Broken
        ELSE Got(1, UNION {wanted(i).val : i \in DOMAIN pieces})

\* What the host makes of the pages asked of it, given the file.
HostCache(file, wanted) ==
    [key \in {[off |-> w.off, len |-> w.len] : w \in wanted} |->
        Inflated(SubSeq(file, key.off + 1, key.off + key.len))]
=============================================================================
