----------------------------- MODULE TextFormats -----------------------------
(***************************************************************************)
(* Reading CSV and TSV in splits (format/csv.rs) and writing it            *)
(* (write/csv.rs).  A text is a sequence of characters: the delimiter, the *)
(* two line ends, the quote, a blank, and characters of values, of which   *)
(* "1" stands for a digit and single letters for the spellings of the      *)
(* other types.  A plan has the text, splitBytes, maxRecord (also the      *)
(* ceiling of the sample), the first size of the sample, tsv, and whether  *)
(* the whole file is in memory when the schema is inferred.                *)
(*                                                                         *)
(* Positions count from 1.  A split owns the records that start in it.     *)
(***************************************************************************)
EXTENDS Operator

Delim == ","
Lf == "LF"
Cr == "CR"
Quote == "Q"
Pad == " "
Bom == "BOM"
NullCell == <<"null">>

Byte(t, p) == IF p <= Len(t) THEN t[p] ELSE "end"
From(t, p) == SubSeq(t, p, Len(t))
\* A field that cannot be read, and a record that has one, behind its fields.
Broken == [term |-> "broken", next |-> 0, fields |-> <<>>]
IsBroken(r) == r.term = "broken"

\* The length of the line end at p, 0 if there is none.  A CR alone counts
\* in files that use it.
LineEnd(t, p, cr) == CASE Byte(t, p) = Lf -> 1
                       [] Byte(t, p) = Cr /\ Byte(t, p + 1) = Lf -> 2
                       [] Byte(t, p) = Cr /\ cr -> 1
                       [] OTHER -> 0

\* A CR that is not half of CRLF; the last byte of a prefix may still be.
HasLoneCr(t, partial) ==
    \E i \in DOMAIN t : t[i] = Cr /\ Byte(t, i + 1) # Lf /\ ~(partial /\ i = Len(t))
----------------------------------------------------------------------------
RECURSIVE PastPads(_, _), FieldEnd(_, _, _), PastLine(_, _)
PastPads(t, p) == IF Byte(t, p) = Pad THEN PastPads(t, p + 1) ELSE p
FieldEnd(t, p, cr) ==
    IF p > Len(t) \/ Byte(t, p) = Delim \/ LineEnd(t, p, cr) > 0 THEN p ELSE FieldEnd(t, p + 1, cr)
PastLine(t, p) == IF p > Len(t) \/ Byte(t, p) = Lf THEN p + 1 ELSE PastLine(t, p + 1)

\* Scanner: a field, its terminator (field, record, eof) and what is next.
\* f says how the file is read: [cr, tsv].
Span(t, e, f, value, quoted) ==
    [value |-> value, quoted |-> quoted,
     term |-> IF e > Len(t) THEN "eof" ELSE IF t[e] = Delim THEN "field" ELSE "record",
     next |-> e + (IF Byte(t, e) = Delim THEN 1 ELSE LineEnd(t, e, f.cr))]

Unquoted(t, p, f) ==
    LET e == FieldEnd(t, p, f.cr)
    IN Span(t, e, f, SubSeq(t, p, e - 1), FALSE)

RECURSIVE Closing(_, _), Folded(_)
\* The quote that closes a field, 0 if none does.
Closing(t, p) == CASE p > Len(t) -> 0
                   [] t[p] = Quote /\ Byte(t, p + 1) = Quote -> Closing(t, p + 2)
                   [] t[p] = Quote -> p
                   [] OTHER -> Closing(t, p + 1)
\* field_value: a pair of quotes is one.
Folded(v) == CASE v = <<>> -> v
               [] Head(v) = Quote -> <<Quote>> \o Folded(From(v, 3))
               [] OTHER -> <<Head(v)>> \o Folded(Tail(v))

\* skip_to_term: only padding may follow the closing quote.
Quoted(t, q, f) ==
    LET c == Closing(t, q + 1)
        e == PastPads(t, c + 1)
    IN IF c = 0 \/ (e <= Len(t) /\ t[e] # Delim /\ LineEnd(t, e, f.cr) = 0) THEN Broken
       ELSE Span(t, e, f, Folded(SubSeq(t, q + 1, c - 1)), TRUE)

\* A quoted reading that fails is given up for a literal one after padding,
\* and in a TSV file.
Field(t, p, f) ==
    LET q == PastPads(t, p)
        span == IF Byte(t, q) = Quote THEN Quoted(t, q, f) ELSE Broken
    IN IF ~IsBroken(span) \/ (Byte(t, q) = Quote /\ q = p /\ ~f.tsv) THEN span
       ELSE Unquoted(t, p, f)

RECURSIVE RecordWith(_, _, _, _, _), Records(_, _, _, _, _), SkipBlankLines(_, _, _)
RecordWith(span, t, f, start, fields) ==
    CASE IsBroken(span) -> [Broken EXCEPT !.fields = fields]
      [] span.term = "field" -> RecordWith(Field(t, span.next, f), t, f, start, Append(fields, span))
      [] OTHER -> [fields |-> Append(fields, span), term |-> span.term, next |-> span.next, start |-> start]
Record(t, p, f) == RecordWith(Field(t, p, f), t, f, p, <<>>)

\* The records that start at p or later and before limit; a broken one is
\* the last.  A blank line is a record only where there is one column.
Records(t, p, limit, ncols, f) ==
    LET From1(r) == IF IsBroken(r) THEN <<r>> ELSE <<r>> \o Records(t, r.next, limit, ncols, f)
    IN CASE p >= limit \/ p > Len(t) -> <<>>
         [] ncols # 1 /\ LineEnd(t, p, f.cr) > 0 -> Records(t, p + LineEnd(t, p, f.cr), limit, ncols, f)
         [] OTHER -> From1(Record(t, p, f))

\* Blank and padded lines before the first record.
SkipBlankLines(t, p, f) ==
    LET q == PastPads(t, p)
    IN IF LineEnd(t, q, f.cr) = 0 THEN p ELSE SkipBlankLines(t, q + LineEnd(t, q, f.cr), f)
----------------------------------------------------------------------------
\* Inference.  What a cell's spelling fits, padding aside.
Trimmed(v) ==
    LET inner == {i \in DOMAIN v : v[i] # Pad}
    IN IF inner = {} THEN <<>> ELSE SubSeq(v, Min(inner), Max(inner))

Classified(cell) ==
    LET v == Trimmed(cell)
    IN CASE v = <<>> -> "empty"
         [] \A i \in DOMAIN v : v[i] = "1" -> "int"
         [] v = <<"b">> -> "bool"
         [] v = <<"f">> -> "double"
         [] v = <<"d">> -> "date"
         [] v = <<"s">> -> "timestamp"
         [] OTHER -> "text"

Widened(a, b) == CASE a = b \/ b = "empty" -> a
                   [] a = "empty" -> b
                   [] {a, b} = {"int", "double"} -> "double"
                   [] {a, b} = {"date", "timestamp"} -> "timestamp"
                   [] OTHER -> "text"

\* What a column of that type reads, no evidence being read as text.
Reads(type) == CASE type = "double" -> {"int", "double"}
                 [] type = "timestamp" -> {"date", "timestamp"}
                 [] type \in {"empty", "text"} -> {"int", "bool", "double", "date", "timestamp", "text"}
                 [] OTHER -> {type}

Column(records, c) ==
    FoldLeft(LAMBDA type, r : IF c <= Len(r.fields) THEN Widened(type, Classified(r.fields[c].value)) ELSE type,
             "empty", records)

\* The first record is data if it fits what the others say of each column,
\* and some column says more than text.
HasHeader(first, types, rows) ==
    LET Typed(s) == \E c \in DOMAIN s : s[c] \notin {"empty", "text"}
    IN \/ \A c \in DOMAIN first : first[c] = "empty"
       \/ rows = 0 /\ ~Typed(first)
       \/ rows > 0 /\ ~(/\ \A c \in DOMAIN first : first[c] = "empty" \/ Widened(types[c], first[c]) = types[c]
                        /\ Typed(types))

\* resolve, once the first n bytes are there: what the file is like, or that
\* they do not hold the first record ("more", "limit") or that it is broken.
\* A file in memory is searched to its end for quotes and lone CRs.
Seen(n) == IF plan.complete THEN plan.text ELSE SubSeq(plan.text, 1, n)
Settled(f, start, head, heading, types, rows, seen) ==
    LET header == HasHeader(heading, types, rows)
    IN [is |-> "resolved", cr |-> f.cr, tsv |-> f.tsv,
        single |-> f.cr \/ \E i \in DOMAIN seen : seen[i] = Quote,
        start |-> IF header THEN head.next ELSE start,
        types |-> [c \in DOMAIN types |-> IF header THEN types[c] ELSE Widened(types[c], heading[c])]]
\* Up to the last line end of the bytes that are there.
WholeLines(n, head, f) ==
    LET ends == {i \in head.next..n : plan.text[i] = Lf \/ (f.cr /\ plan.text[i] = Cr)}
    IN SubSeq(plan.text, 1, IF n = Len(plan.text) THEN n ELSE Max(ends \cup {head.next - 1}))
\* A broken record is no row, but what it has before the break counts.
InferredFrom(n, f, start, head) ==
    LET partial == n < Len(plan.text)
        grows == n < Min({plan.maxRecord, Len(plan.text)})
        Typed(read) == Settled(f, start, head, [c \in DOMAIN head.fields |-> Classified(head.fields[c].value)],
                               [c \in DOMAIN head.fields |-> Column(read, c)],
                               Len(SelectSeq(read, LAMBDA r : ~IsBroken(r))), Seen(n))
        Sampled(rest) == Records(rest, head.next, Len(rest) + 1, Len(head.fields), f)
    IN CASE IsBroken(head) -> [is |-> "refused", start |-> start, cr |-> f.cr, tsv |-> f.tsv]
         [] head.term = "eof" /\ partial ->
              [is |-> IF grows THEN "more" ELSE "refused", start |-> start, cr |-> f.cr, tsv |-> f.tsv]
         [] ~IsBroken(head) /\ Len(WholeLines(n, head, f)) < head.next /\ partial /\ grows -> [is |-> "more"]
         [] OTHER -> Typed(Sampled(WholeLines(n, head, f)))
Inferred(n) ==
    LET t == plan.text
        AsRead(f, start) == InferredFrom(n, f, start, Record(SubSeq(t, 1, n), start, f))
        After(f) == AsRead(f, SkipBlankLines(SubSeq(t, 1, n), IF Byte(t, 1) = Bom THEN 2 ELSE 1, f))
    IN IF t = <<>> THEN [is |-> "resolved", cr |-> FALSE, tsv |-> plan.tsv, single |-> FALSE, start |-> 1, types |-> <<>>]
       ELSE After([cr |-> HasLoneCr(Seen(n), n < Len(t) /\ ~plan.complete), tsv |-> plan.tsv])
----------------------------------------------------------------------------
\* The splits of a resolved file, counted from 0, and what is fetched for one:
\* the byte before it, to see whether a record starts right at its start, and
\* enough after it to finish the last.
DataLen(format) == Len(plan.text) + 1 - format.start
ChunkSize(format) == IF format.single THEN Max({DataLen(format), 1}) ELSE plan.splitBytes
NumSplits(format) == (DataLen(format) + ChunkSize(format) - 1) \div ChunkSize(format)
Chunk_NoByteBefore(format, k) ==
    LET start == format.start + k * ChunkSize(format)
        end == Min({start + ChunkSize(format), Len(plan.text) + 1})
    IN [end |-> end, fetchStart |-> start, fetchEnd |-> Min({end + plan.maxRecord, Len(plan.text) + 1})]
Chunk(format, k) ==
    LET start == format.start + k * ChunkSize(format)
        end == Min({start + ChunkSize(format), Len(plan.text) + 1})
    IN [end |-> end, fetchStart |-> IF k = 0 THEN start ELSE start - 1,
        fetchEnd |-> Min({end + plan.maxRecord, Len(plan.text) + 1})]

\* ColBuf::push: an empty cell is Null, a quoted one only where the type has
\* no empty value; a value the type does not read is an error.
IsText(type) == type \in {"empty", "text"}
Cell(type, span) ==
    LET v == IF IsText(type) THEN span.value ELSE Trimmed(span.value)
    IN IF v = <<>> /\ (~span.quoted \/ ~IsText(type)) THEN NullCell ELSE v
Readable(type, span) ==
    \/ Cell(type, span) \in {NullCell, <<>>}
    \/ IsText(type)
    \/ Classified(span.value) \in Reads(type)

RowOf(r, types) == [c \in DOMAIN types |-> IF c <= Len(r.fields) THEN Cell(types[c], r.fields[c]) ELSE NullCell]

\* A record has no more fields than there are columns, but for an empty one
\* after a delimiter at its end.
Surplus(r, ncols) ==
    LET last == r.fields[Len(r.fields)]
    IN Len(r.fields) > ncols /\ ~(Len(r.fields) = ncols + 1 /\ ~last.quoted /\ last.value = <<>>)

Rejected(r, types, atFileEnd) ==
    \/ IsBroken(r)
    \/ ~IsBroken(r) /\ (\/ r.term = "eof" /\ ~atFileEnd
                      \/ Surplus(r, Len(types))
                      \/ \E c \in DOMAIN types \cap DOMAIN r.fields : ~Readable(types[c], r.fields[c]))

\* Where the first record of a split starts: after the first line end.
FirstRecord(buf, k) == CASE k = 0 -> 1
                         [] buf[1] = Lf -> 2
                         [] OTHER -> PastLine(buf, 2)

\* What the first reading of the text did not see and splits cannot cope with.
Unsplittable(buf, format, k, atFileEnd) ==
    ~format.single /\ k > 0 /\ (HasLoneCr(buf, ~atFileEnd) \/ \E i \in DOMAIN buf : buf[i] = Quote)

\* read_split: the rows, or failed.
ReadSplit(format, k) ==
    LET chunk == Chunk(format, k)
        buf == SubSeq(plan.text, chunk.fetchStart, chunk.fetchEnd - 1)
        atFileEnd == chunk.fetchEnd > Len(plan.text)
        Built(records) ==
            IF Unsplittable(buf, format, k, atFileEnd)
               \/ \E i \in DOMAIN records : Rejected(records[i], format.types, atFileEnd)
            THEN [failed |-> TRUE, rows |-> <<>>]
            ELSE [failed |-> FALSE, rows |-> [i \in DOMAIN records |-> RowOf(records[i], format.types)]]
    IN Built(Records(buf, FirstRecord(buf, k), chunk.end - chunk.fetchStart + 1, Len(format.types), format))
----------------------------------------------------------------------------
NewCsv(p) == [phase |-> "resolving", sample |-> p.sample]

CsvResolve ==
    /\ At("csv", "resolving") /\ Onwards
    /\ \E found \in {Inferred(Min({self.sample, Len(plan.text)}))} :
          CASE found.is = "more" ->
                 Becomes([self EXCEPT !.sample = Min({4 * @, plan.maxRecord})]) /\ Quiet
            [] found.is = "resolved" ->
                 Becomes([phase |-> "reading", format |-> found, split |-> 0]) /\ Quiet
            [] OTHER -> Fails

CsvReadSplit ==
    /\ At("csv", "reading") /\ self.split < NumSplits(self.format) /\ Onwards
    /\ \E read \in {ReadSplit(self.format, self.split)} :
          IF read.failed THEN Fails
          ELSE Becomes([self EXCEPT !.split = @ + 1]) /\ HandsSome(read.rows)

CsvDone == At("csv", "reading") /\ self.split = NumSplits(self.format) /\ Onwards /\ Finishes

CsvNext == CsvResolve \/ CsvReadSplit \/ CsvDone
----------------------------------------------------------------------------
\* CsvSink: a value is quoted where it would not read back bare; Null is
\* nothing at all, so the empty value is quoted too.
PushField(v) ==
    LET Escaped(w) == FlattenSeq([i \in DOMAIN w |-> IF w[i] = Quote THEN <<Quote, Quote>> ELSE <<w[i]>>])
    IN CASE v = NullCell -> <<>>
         [] v = <<>> \/ \E i \in DOMAIN v : v[i] \in {Delim, Quote, Lf, Cr} -> <<Quote>> \o Escaped(v) \o <<Quote>>
         [] OTHER -> v
PushRow(cells) ==
    FlattenSeq([i \in DOMAIN cells |-> (IF i > 1 THEN <<Delim>> ELSE <<>>) \o PushField(cells[i])]) \o <<Lf>>
CsvText(names, rows) == PushRow(names) \o FlattenSeq([i \in DOMAIN rows |-> PushRow(rows[i])])
----------------------------------------------------------------------------
\* The file read in one piece, as the format found it to be.
WholeRecords ==
    Records(plan.text, self.format.start, Len(plan.text) + 1, Len(self.format.types), self.format)
CsvAnswer ==
    LET records == SelectSeq(WholeRecords, LAMBDA r : ~IsBroken(r))
    IN [i \in DOMAIN records |-> RowOf(records[i], self.format.types)]
Malformed == \E r \in Range(WholeRecords) : Rejected(r, self.format.types, TRUE)

\* What was written: a column of another type than text has no empty value.
CsvWritten ==
    [i \in DOMAIN plan.rows |-> [c \in DOMAIN self.format.types |->
        IF plan.rows[i][c] = <<>> /\ ~IsText(self.format.types[c]) THEN NullCell ELSE plan.rows[i][c]]]

\* What a reader of splits may refuse although a reader of the whole would
\* not: a record longer than allowed, and quotes or lone CRs after a sample
\* without.
SplitsRefuse ==
    LET late == From(plan.text, plan.sample)
    IN \/ Malformed
       \/ \E r \in Range(WholeRecords) : r.next - r.start > plan.maxRecord
       \/ ~plan.complete /\ (HasLoneCr(late, FALSE) \/ \E i \in DOMAIN late : late[i] = Quote)
\* The first record is broken, ends after the longest sample, or has a quoted
\* field that the sample cuts.
FirstRecordRefused ==
    \E found \in {Inferred(Min({self.sample, Len(plan.text)}))} :
        \E r \in {Record(plan.text, found.start, found)} :
            \/ IsBroken(r) \/ r.next > plan.maxRecord + 1
            \/ r.next > self.sample + 1 /\ \E i \in r.start..(r.next - 1) : plan.text[i] = Quote

-----------------------------------------------------------------------------
(***************************************************************************)
(* Reading JSONL in splits (format/jsonl.rs) and writing it                *)
(* (write/jsonl.rs).  A line of an object is a sequence of its members,    *)
(* one character each: Member says their key and what kind of value they   *)
(* hold.  Other characters are Memberless, an object without members, "n" for   *)
(* null, "0" for a value that is no object, and "!" for what is not JSON.  *)
(* Plans and positions are those of CSV; the widening is the same.         *)
(***************************************************************************)

Memberless == "{}"
NullValue == "n"
Scalar == "0"
Member == [a |-> [key |-> "k", kind |-> "int"], b |-> [key |-> "l", kind |-> "int"],
           A |-> [key |-> "k", kind |-> "text"], B |-> [key |-> "l", kind |-> "text"],
           D |-> [key |-> "k", kind |-> "double"],
           x |-> [key |-> "k", kind |-> "empty"], y |-> [key |-> "l", kind |-> "empty"]]

\* A line holds one object and nothing else.
IsObject(body) == body = <<Memberless>> \/ (body # <<>> /\ Range(body) \subseteq DOMAIN Member)
\* What resolve, which looks at the first character only, takes for one.
LooksNull(body) == body[1] = NullValue
LooksObject(body) == body[1] \in DOMAIN Member \cup {Memberless}
Members(body) == SelectSeq(body, LAMBDA c : c \in DOMAIN Member)
WithKey(body, key) == SelectSeq(Members(body), LAMBDA c : Member[c].key = key)
----------------------------------------------------------------------------
\* Lines end at LF only: JSON escapes it inside a string.  White space, and
\* the CR of a CRLF, says nothing.
RECURSIVE LineFeed(_, _), Lines(_, _)
LineFeed(t, p) == IF p > Len(t) \/ Byte(t, p) = Lf THEN p ELSE LineFeed(t, p + 1)
Lines(t, p) ==
    LET e == LineFeed(t, p)
    IN IF p > Len(t) THEN <<>>
       ELSE <<[start |-> p, ended |-> e <= Len(t), next |-> e + 1,
               body |-> SelectSeq(SubSeq(t, p, e - 1), LAMBDA c : c \notin {Pad, Cr})]>>
            \o Lines(t, e + 1)
PastBom(t) == IF Byte(t, 1) = Bom THEN 2 ELSE 1

\* resolve, once the first n bytes are there.  The columns are all keys seen,
\* in the order they first appear; a value that is no object, or no column at
\* all, makes it one column of raw text.
KeysOf(members) ==
    FoldLeft(LAMBDA ks, c : IF Contains(ks, Member[c].key) THEN ks ELSE Append(ks, Member[c].key), <<>>, members)
KindOf(members, key) ==
    FoldLeft(LAMBDA type, c : Widened(type, Member[c].kind), "empty", WithKey(members, key))

JsonInferred(n) ==
    LET partial == n < Len(plan.text)
        sample == SubSeq(plan.text, 1, n)
        lines == Lines(sample, PastBom(sample))
        whole == SelectSeq(lines, LAMBDA l : (l.ended \/ ~partial) /\ l.body # <<>>)
        cut == partial /\ \E i \in DOMAIN lines : ~lines[i].ended
        raw == {i \in DOMAIN whole : ~LooksNull(whole[i].body) /\ ~LooksObject(whole[i].body)}
        seen == IF raw = {} THEN whole ELSE SubSeq(whole, 1, Min(raw) - 1)
        objects == SelectSeq(seen, LAMBDA l : ~LooksNull(l.body))
        members == FlattenSeq([i \in DOMAIN objects |-> Members(objects[i].body)])
        keys == KeysOf(members)
    IN CASE plan.text = <<>> -> [is |-> "resolved", raw |-> FALSE, keys |-> <<>>, types |-> <<>>]
         [] plan.text # <<>> /\ \E i \in DOMAIN objects : ~IsObject(objects[i].body) -> [is |-> "refused"]
         [] cut /\ whole = <<>> ->
              [is |-> IF n < Min({plan.maxRecord, Len(plan.text)}) THEN "more" ELSE "refused"]
         [] OTHER -> [is |-> "resolved", raw |-> raw # {} \/ keys = <<>>, keys |-> keys,
                      types |-> [c \in DOMAIN keys |-> KindOf(members, keys[c])]]
----------------------------------------------------------------------------
\* What a line must be to be read: one JSON value if the file is raw, null or
\* an object of known keys with values their columns hold if it is not.  The
\* last of several members with a key counts.
ValueOf(body, key) == LET mine == WithKey(body, key) IN IF mine = <<>> THEN "absent" ELSE Last(mine)
IsNullValue(c) == c = "absent" \/ (c \in DOMAIN Member /\ Member[c].kind = "empty")
Fits(format, body) ==
    IF format.raw THEN body \in {<<NullValue>>, <<Scalar>>} \/ IsObject(body)
    ELSE \/ body = <<NullValue>>
         \/ /\ IsObject(body)
            /\ \A c \in Range(Members(body)) : Contains(format.keys, Member[c].key)
            /\ \A i \in DOMAIN format.keys :
                 LET v == ValueOf(body, format.keys[i])
                 IN IsNullValue(v) \/ Member[v].kind \in Reads(format.types[i])

JsonRow(format, body) ==
    IF format.raw THEN <<IF body = <<NullValue>> THEN NullCell ELSE body>>
    ELSE [i \in DOMAIN format.keys |->
            LET v == ValueOf(body, format.keys[i]) IN IF IsNullValue(v) THEN NullCell ELSE <<v>>]

\* Split k > 0 begins after the first line end in it, so that the one before
\* also reads the line that starts right where it begins.
JsonSplits == (Len(plan.text) + plan.splitBytes - 1) \div plan.splitBytes
OwnsLineAt_Inside(start, end) == start < end
OwnsLineAt(start, end) == start <= end
JsonReadSplit(format, k) ==
    LET start == k * plan.splitBytes + 1
        end == Min({start + plan.splitBytes, Len(plan.text) + 1})
        windowEnd == Min({end + plan.maxRecord, Len(plan.text) + 1})
        window == SubSeq(plan.text, start, windowEnd - 1)
        from == IF k = 0 THEN PastBom(window) ELSE LineFeed(window, 1) + 1
        lines == SelectSeq(Lines(window, from), LAMBDA l : OwnsLineAt(start + l.start - 1, end))
        records == SelectSeq(lines, LAMBDA l : l.body # <<>>)
    IN IF \/ windowEnd <= Len(plan.text) /\ \E i \in DOMAIN lines : ~lines[i].ended
          \/ \E i \in DOMAIN records : ~Fits(format, records[i].body)
       THEN [failed |-> TRUE, rows |-> <<>>]
       ELSE [failed |-> FALSE, rows |-> [i \in DOMAIN records |-> JsonRow(format, records[i].body)]]
----------------------------------------------------------------------------
NewJsonl(p) == [phase |-> "resolving", sample |-> p.sample]

JsonlResolve ==
    /\ At("jsonl", "resolving") /\ Onwards
    /\ \E found \in {JsonInferred(Min({self.sample, Len(plan.text)}))} :
          CASE found.is = "more" ->
                 Becomes([self EXCEPT !.sample = Min({4 * @, plan.maxRecord})]) /\ Quiet
            [] found.is = "resolved" ->
                 Becomes([phase |-> "reading", format |-> found, split |-> 0]) /\ Quiet
            [] OTHER -> Fails

JsonlReadSplit ==
    /\ At("jsonl", "reading") /\ self.split < JsonSplits /\ Onwards
    /\ \E read \in {JsonReadSplit(self.format, self.split)} :
          IF read.failed THEN Fails
          ELSE Becomes([self EXCEPT !.split = @ + 1]) /\ HandsSome(read.rows)

JsonlDone == At("jsonl", "reading") /\ self.split = JsonSplits /\ Onwards /\ Finishes

JsonlNext == JsonlResolve \/ JsonlReadSplit \/ JsonlDone
----------------------------------------------------------------------------
\* JsonlSink: every member of every row, Null too.  Names are distinct.
JsonlText(nulls, rows) ==
    FlattenSeq([i \in DOMAIN rows |->
        [c \in DOMAIN nulls |-> IF rows[i][c] = NullCell THEN nulls[c] ELSE rows[i][c][1]] \o <<Lf>>])
----------------------------------------------------------------------------
\* The file read in one piece.
JsonLines == SelectSeq(Lines(plan.text, PastBom(plan.text)), LAMBDA l : l.body # <<>>)
JsonlReadable == SelectSeq(JsonLines, LAMBDA l : Fits(self.format, l.body))
JsonlAnswer == [i \in DOMAIN JsonlReadable |-> JsonRow(self.format, JsonlReadable[i].body)]
JsonlMalformed == Len(JsonlReadable) < Len(JsonLines)
JsonlMayRefuse ==
    \/ JsonlMalformed
    \/ \E l \in Range(Lines(plan.text, 1)) : l.next - l.start > plan.maxRecord
\* What makes the schema impossible: an object that is broken, or a first line
\* longer than the largest sample.
NoSchema ==
    \/ \E l \in Range(JsonLines) : LooksObject(l.body) /\ ~IsObject(l.body)
    \/ JsonLines[1].next - 1 > plan.maxRecord
=============================================================================
