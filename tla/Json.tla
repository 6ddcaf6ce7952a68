-------------------------------- MODULE Json --------------------------------
(***************************************************************************)
(* JSON values are kept as text and walked in place (json.rs): skipping a  *)
(* value, finding the part a path names, the list functions and the order  *)
(* of lists.  A text is a sequence of tokens.  The names of Scalar stand   *)
(* for its scalars, Blank and NewLine for white space, anything else that  *)
(* is no bracket, comma or colon for what is no JSON.                      *)
(***************************************************************************)
EXTENDS Integers, SequencesExt, FiniteSetsExt

Blank == " "
NewLine == "new line"
White == {Blank, NewLine}

\* The characters that texts and paths are made of, in the order of their codes.
Ascending == <<" ", "\"", "$", ",", "-", ".", "/", "0", "1", "2", "5", ":", "[", "\\", "]", "a", "b", "e", "f",
               "k", "l", "n", "r", "s", "t", "u", "v", "y", "{", "}", "~">>
Code == [c \in Range(Ascending) |-> CHOOSE i \in DOMAIN Ascending : Ascending[i] = c]

\* A number counts in halves.  A string has the text it decodes to.
Number(at, whole, spelt) == [kind |-> "number", at |-> at, whole |-> whole, text |-> spelt, spelt |-> spelt]
Escaped(text, spelt) == [kind |-> "string", text |-> text, spelt |-> spelt]
Text(text) == Escaped(text, <<"\"">> \o text \o <<"\"">>)
Literal(kind, spelt) == [kind |-> kind, text |-> spelt, spelt |-> spelt]
Scalar ==
    [zero |-> Number(0, TRUE, <<"0">>), two |-> Number(4, TRUE, <<"2">>), ten |-> Number(20, TRUE, <<"1", "0">>),
     minus |-> Number(-2, TRUE, <<"-", "1">>), twoPointO |-> Number(4, FALSE, <<"2", ".", "0">>),
     half |-> Number(1, FALSE, <<"0", ".", "5">>),
     a |-> Text(<<"a">>), b |-> Text(<<"b">>), dotted |-> Text(<<"a", ".", "b">>),
     slashed |-> Text(<<"a", "/", "~">>), digit |-> Text(<<"0">>), empty |-> Text(<<>>),
     bUnicode |-> Escaped(<<"b">>, <<"\"", "\\", "u", "b", "\"">>),
     keyName |-> Text(<<"k", "e", "y">>), valueName |-> Text(<<"v", "a", "l", "u", "e">>),
     true |-> Literal("boolean", <<"t", "r", "u", "e">>), false |-> Literal("boolean", <<"f", "a", "l", "s", "e">>),
     null |-> Literal("null", <<"n", "u", "l", "l">>)]
Spelling(token) == IF token \in DOMAIN Scalar THEN Scalar[token].spelt ELSE <<token>>
Bytes(tokens) == FlattenSeq([i \in DOMAIN tokens |-> Spelling(tokens[i])])
IsString(token) == token \in DOMAIN Scalar /\ Scalar[token].kind = "string"

\* The token at a place, "" past the end.
At(b, i) == IF i \in DOMAIN b THEN b[i] ELSE ""
SkipWs(b, i) == Min({j \in i..Len(b) + 1 : At(b, j) \notin White} \cup {Max({i, Len(b) + 1})})
KindOf(token) == CASE token = "{" -> "object" [] token = "[" -> "array"
                   [] token \notin {"{", "["} -> Scalar[token].kind
Closer(bracket) == IF bracket = "{" THEN "}" ELSE "]"
----------------------------------------------------------------------------
(* Skipping.  A result of Broken is an error.                              *)
Broken == 0

\* Kinds, the brackets that are open: a stack of bits in words of so many
\* bits, the word that is not full on top and the full ones spilled.
NoneOpen(word) == [word |-> word, top |-> 0, spill |-> <<>>, depth |-> 0]
Push(open, obj) ==
    LET full == open.depth > 0 /\ open.depth % open.word = 0
        top == IF full THEN 0 ELSE open.top
    IN [open EXCEPT !.spill = IF full THEN Append(@, open.top) ELSE @,
                    !.top = (2 * top + IF obj THEN 1 ELSE 0) % 2 ^ open.word,
                    !.depth = @ + 1]
Pop(open) ==
    LET depth == open.depth - 1
        refill == depth > 0 /\ depth % open.word = 0
    IN [open EXCEPT !.depth = depth,
                    !.top = IF refill THEN Last(open.spill) ELSE @ \div 2,
                    !.spill = IF refill THEN Front(@) ELSE @]
InObject(open) == open.top % 2 = 1

\* skip_member_key
SkipMemberKey(b, i) ==
    LET key == SkipWs(b, i)
        colon == SkipWs(b, key + 1)
    IN IF IsString(At(b, key)) /\ At(b, colon) = ":" THEN colon + 1 ELSE Broken

RECURSIVE ValueFrom(_, _, _), AfterValue(_, _, _)
ValueFrom(b, i, open) ==
    LET p == SkipWs(b, i)
        c == At(b, p)
        q == SkipWs(b, p + 1)
        key == SkipMemberKey(b, q)
    IN CASE i = Broken -> Broken
         [] i # Broken /\ c \in {"{", "["} ->
              IF At(b, q) = Closer(c) THEN AfterValue(b, q + 1, open)
              ELSE ValueFrom(b, IF c = "{" THEN key ELSE q, Push(open, c = "{"))
         [] i # Broken /\ c \in DOMAIN Scalar -> AfterValue(b, p + 1, open)
         [] OTHER -> Broken
AfterValue(b, i, open) ==
    LET p == SkipWs(b, i)
    IN CASE open.depth = 0 -> i
         [] open.depth > 0 /\ At(b, p) = "," ->
              ValueFrom(b, IF InObject(open) THEN SkipMemberKey(b, p + 1) ELSE p + 1, open)
         [] open.depth > 0 /\ At(b, p) = (IF InObject(open) THEN "}" ELSE "]") -> AfterValue(b, p + 1, Pop(open))
         [] OTHER -> Broken
\* skip_value
SkipValue(b, start) == ValueFrom(b, start, NoneOpen(2))

\* whole: the value a document is, <<>> if it is not exactly one.
Whole(doc) ==
    LET start == SkipWs(doc, 1)
        end == SkipValue(doc, start)
    IN IF end # Broken /\ SkipWs(doc, end) = Len(doc) + 1 THEN SubSeq(doc, start, end - 1) ELSE <<>>
----------------------------------------------------------------------------
(* Walking the members of an object or the elements of an array: the       *)
(* places where values start, as far as they are asked for.  Only what     *)
(* comes before the end of the walk is looked at.                          *)
Nowhere == [at |-> 0, failed |-> FALSE]
Failed == [at |-> 0, failed |-> TRUE]
Found(i) == [at |-> i, failed |-> FALSE]

RECURSIVE MemberFrom(_, _, _)
MemberFrom(b, i, want) ==
    LET vs == SkipWs(b, SkipMemberKey(b, i))
        ve == SkipValue(b, vs)
        next == SkipWs(b, ve)
    IN CASE ~IsString(At(b, i)) \/ SkipMemberKey(b, i) = Broken -> Failed
         [] IsString(At(b, i)) /\ SkipMemberKey(b, i) # Broken ->
              CASE Scalar[b[i]].text = want -> Found(vs)
                [] Scalar[b[i]].text # want /\ ve # Broken /\ At(b, next) = "," ->
                     MemberFrom(b, SkipWs(b, next + 1), want)
                [] Scalar[b[i]].text # want /\ ve # Broken /\ At(b, next) = "}" -> Nowhere
                [] OTHER -> Failed
\* find_member
FindMember(b, object, want) ==
    LET i == SkipWs(b, object + 1) IN IF At(b, i) = "}" THEN Nowhere ELSE MemberFrom(b, i, want)

\* count_elements and array_elements walk all of an array: the spans of its
\* elements, or [failed].
RECURSIVE ElementsFrom(_, _)
ElementsFrom(b, i) ==
    LET ve == SkipValue(b, i)
        next == SkipWs(b, ve)
        rest == ElementsFrom(b, SkipWs(b, next + 1))
    IN CASE ve # Broken /\ At(b, next) = "]" -> [failed |-> FALSE, spans |-> <<<<i, ve - 1>>>>]
         [] ve # Broken /\ At(b, next) = "," ->
              IF rest.failed THEN rest ELSE [rest EXCEPT !.spans = <<<<i, ve - 1>>>> \o @]
         [] OTHER -> [failed |-> TRUE, spans |-> <<>>]
ElementSpans(b, array) ==
    LET i == SkipWs(b, array + 1)
    IN IF At(b, i) = "]" THEN [failed |-> FALSE, spans |-> <<>>] ELSE ElementsFrom(b, i)
SpanText(b, span) == SubSeq(b, span[1], span[2])

\* nth_element
NthElement(b, array, want) ==
    LET all == ElementSpans(b, array)
        count == Len(all.spans)
        place == IF want < 0 THEN count + want ELSE want
    IN CASE all.failed -> Failed
         [] ~all.failed /\ place \in 0..count - 1 -> Found(all.spans[place + 1][1])
         [] OTHER -> Nowhere
----------------------------------------------------------------------------
(* Paths.  A segment [is |-> "key" or "index" or "pointer", of].           *)
Key(name) == [is |-> "key", of |-> name]
Index(n) == [is |-> "index", of |-> n]
Pointer(token) == [is |-> "pointer", of |-> token]
DigitOf == [c \in {"0", "1", "2", "5"} |-> CASE c = "0" -> 0 [] c = "1" -> 1 [] c = "2" -> 2 [] c = "5" -> 5]
ValueOfDigits(s) == FoldLeft(LAMBDA n, c : 10 * n + DigitOf[c], 0, s)
Digits(s) == Range(s) \subseteq DOMAIN DigitOf

\* The characters of s from i on up to one of stop.
UpTo(s, i, stop) == SubSeq(s, i, Min({j \in i..Len(s) : s[j] \in stop} \cup {Len(s) + 1}) - 1)

RECURSIVE Unescaped(_), PointerTokens(_), Steps(_, _)
Unescaped(s) ==
    CASE s = <<>> -> <<>>
      [] Len(s) > 1 /\ s[1] = "~" /\ s[2] \in {"0", "1"} ->
           <<IF s[2] = "1" THEN "/" ELSE "~">> \o Unescaped(SubSeq(s, 3, Len(s)))
      [] OTHER -> <<Head(s)>> \o Unescaped(Tail(s))
PointerTokens(s) ==
    LET token == UpTo(s, 1, {"/"})
    IN <<Pointer(Unescaped(token))>>
        \o (IF Len(token) = Len(s) THEN <<>> ELSE PointerTokens(SubSeq(s, Len(token) + 2, Len(s))))
\* The steps of $..., Bad if there is no reading them.
Bad == [is |-> "bad", of |-> 0]
Steps(p, i) ==
    LET quoted == UpTo(p, i + 2, {"\""})
        bare == UpTo(p, i + 1, {".", "["})
        negative == At(p, i + 1) = "-"
        first == IF negative THEN i + 2 ELSE i + 1
        digits == SelectInSeq(SubSeq(p, first, Len(p)) \o <<"">>, LAMBDA c : c \notin DOMAIN DigitOf) - 1
        n == ValueOfDigits(SubSeq(p, first, first + digits - 1))
    IN CASE i > Len(p) -> <<>>
         [] i <= Len(p) /\ p[i] = "." ->
              IF At(p, i + 1) = "\""
              THEN IF i + 2 + Len(quoted) > Len(p) THEN <<Bad>>
                   ELSE <<Key(quoted)>> \o Steps(p, i + 3 + Len(quoted))
              ELSE IF bare = <<>> THEN <<Bad>> ELSE <<Key(bare)>> \o Steps(p, i + 1 + Len(bare))
         [] i <= Len(p) /\ p[i] = "[" ->
              IF digits = 0 \/ At(p, first + digits) # "]" THEN <<Bad>>
              ELSE <<Index(IF negative THEN -n ELSE n)>> \o Steps(p, first + digits + 1)
         [] OTHER -> <<Bad>>
\* parse_path
ParsePath(p) == CASE p = <<>> -> <<>>
                  [] p # <<>> /\ p[1] = "$" -> Steps(p, 2)
                  [] p # <<>> /\ p[1] = "/" -> PointerTokens(Tail(p))
                  [] OTHER -> <<Key(p)>>

\* A step from a value.  A pointer's token is an index on an array, if it is a
\* plain number, and else a name.
IsPlainNumber(s) == s # <<>> /\ Digits(s) /\ (Len(s) = 1 \/ s[1] # "0")
Stepped(doc, vs, seg) ==
    LET on == At(doc, vs)
    IN CASE seg.is \in {"key", "pointer"} /\ on = "{" -> FindMember(doc, vs, seg.of)
         [] seg.is = "index" /\ on = "[" -> NthElement(doc, vs, seg.of)
         [] seg.is = "pointer" /\ on = "[" /\ IsPlainNumber(seg.of) -> NthElement(doc, vs, ValueOfDigits(seg.of))
         [] on = "" -> Failed
         [] OTHER -> Nowhere
RECURSIVE Followed(_, _, _)
Followed(doc, vs, segs) ==
    IF segs = <<>> THEN Found(vs)
    ELSE LET next == Stepped(doc, vs, Head(segs))
         IN IF next.at = 0 THEN next ELSE Followed(doc, next.at, Tail(segs))

\* The value that starts where a walk ended: [is |-> "value", text], or
\* [is |-> "nothing"], or [is |-> "error"].
ValueAt(doc, where) ==
    LET end == SkipValue(doc, where.at)
    IN CASE where.failed -> [is |-> "error"]
         [] ~where.failed /\ where.at = 0 -> [is |-> "nothing"]
         [] ~where.failed /\ where.at # 0 /\ end = Broken -> [is |-> "error"]
         [] OTHER -> [is |-> "value", text |-> SubSeq(doc, where.at, end - 1)]
Extract(doc, path) ==
    LET segs == ParsePath(path)
    IN CASE Contains(segs, Bad) -> [is |-> "error"]
         [] segs = <<>> -> IF Whole(doc) = <<>> THEN [is |-> "error"] ELSE [is |-> "value", text |-> Whole(doc)]
         [] OTHER -> ValueAt(doc, Followed(doc, SkipWs(doc, 1), segs))
----------------------------------------------------------------------------
(* What the functions answer: [is |-> "value", text], [is |-> "nothing"]   *)
(* for SQL NULL or [is |-> "error"].                                       *)
Nothing == [is |-> "nothing"]
Error == [is |-> "error"]
Value(text) == [is |-> "value", text |-> text]

\* extract_index, list_index
ExtractIndex(doc, n) ==
    LET array == SkipWs(doc, 1)
    IN CASE At(doc, array) = "" -> Error
         [] At(doc, array) = "[" -> ValueAt(doc, NthElement(doc, array, n))
         [] OTHER -> Nothing
ListIndex(doc, n) == IF n = 0 THEN Nothing ELSE ExtractIndex(doc, IF n > 0 THEN n - 1 ELSE n)

\* write_extracted_text, a JSON null that is SQL NULL
Extracted(found) ==
    CASE found.is # "value" -> found
      [] found.is = "value" /\ found.text[1] = "null" -> Nothing
      [] found.is = "value" /\ IsString(found.text[1]) -> Value(Scalar[found.text[1]].text)
      [] OTHER -> Value(Bytes(found.text))

\* list_slice: the text between the brackets
ListSlice(doc, start, end) ==
    LET array == SkipWs(doc, 1)
        all == ElementSpans(doc, array)
        count == Len(all.spans)
        Norm(v) == IF v < 0 THEN count + v + 1 ELSE v
        s == Max({Norm(start), 1})
        e == Min({Norm(end), count})
    IN CASE At(doc, array) = "" -> Error
         [] At(doc, array) # "[" /\ At(doc, array) # "" -> Nothing
         [] At(doc, array) = "[" /\ all.failed -> Error
         [] At(doc, array) = "[" /\ ~all.failed /\ s > e -> Value(<<>>)
         [] OTHER -> Value(SubSeq(doc, all.spans[s][1], all.spans[e][2]))

\* json_key_matches: a key that is no string by its text
KeyMatches(span, want) == IF IsString(span[1]) THEN Scalar[span[1]].text = want ELSE Bytes(span) = want
\* map_get_pairs, from the first of some pairs on
RECURSIVE PairsFrom(_, _, _)
PairsFrom(doc, spans, want) ==
    LET pair == SpanText(doc, Head(spans))
        key == ValueAt(pair, FindMember(pair, 1, Scalar.keyName.text))
        rest == PairsFrom(doc, Tail(spans), want)
    IN CASE spans = <<>> -> Nothing
         [] spans # <<>> /\ (pair[1] # "{" \/ key.is = "nothing") -> rest
         [] spans # <<>> /\ pair[1] = "{" /\ key.is = "error" -> Error
         [] OTHER -> IF KeyMatches(key.text, want) THEN ValueAt(pair, FindMember(pair, 1, Scalar.valueName.text)) ELSE rest
\* map_get
MapGet(doc, want) ==
    LET start == SkipWs(doc, 1)
        all == ElementSpans(doc, start)
    IN CASE At(doc, start) = "" -> Error
         [] At(doc, start) = "{" -> ValueAt(doc, FindMember(doc, start, want))
         [] At(doc, start) = "[" -> IF all.failed THEN Error ELSE PairsFrom(doc, all.spans, want)
         [] OTHER -> Nothing
----------------------------------------------------------------------------
(* The order of lists: -1, 0 or 1.  A walk over something that is no JSON  *)
(* fails, which is Unordered.                                              *)
Sign(n) == CASE n < 0 -> -1 [] n = 0 -> 0 [] n > 0 -> 1
Unordered == 2
\* The order of the codes of two texts, the shorter first.
Lexical(x, y) ==
    LET same == {i \in 0..Min({Len(x), Len(y)}) : SubSeq(x, 1, i) = SubSeq(y, 1, i)}
        k == Max(same) + 1
    IN IF k > Len(x) \/ k > Len(y) THEN Sign(Len(x) - Len(y)) ELSE Sign(Code[x[k]] - Code[y[k]])

\* next_element
NextElement(b, i) ==
    LET p == SkipWs(b, i)
    IN CASE At(b, p) = "," -> SkipWs(b, p + 1) [] At(b, p) \in {"]", "}"} -> p [] OTHER -> Broken

RECURSIVE CmpElement(_, _), CmpFrom(_, _, _, _)
\* cmp_element
CmpElement(x, y) ==
    LET kx == KindOf(x[1])
        ky == KindOf(y[1])
    IN CASE kx = "null" /\ ky = "null" -> 0
         [] kx = "null" /\ ky # "null" -> 1
         [] kx # "null" /\ ky = "null" -> -1
         [] kx = ky /\ kx \in {"array", "object"} -> CmpFrom(x, SkipWs(x, 2), y, SkipWs(y, 2))
         [] kx = ky /\ kx = "number" -> Sign(Scalar[x[1]].at - Scalar[y[1]].at)
         [] kx = ky /\ kx = "string" -> Lexical(Scalar[x[1]].text, Scalar[y[1]].text)
         [] OTHER -> Lexical(Bytes(x), Bytes(y))
\* cmp_array and, past the names of the members, cmp_object
CmpFrom(a, i, b, j) ==
    LET Ended(s, p) == s[p] = Closer(s[1])
        First(s, p) == IF s[1] = "[" THEN p ELSE SkipWs(s, SkipMemberKey(s, p))
        ie == SkipValue(a, First(a, i))
        je == SkipValue(b, First(b, j))
        order == CmpElement(SubSeq(a, First(a, i), ie - 1), SubSeq(b, First(b, j), je - 1))
    IN CASE Broken \in {i, j} -> Unordered
         [] Broken \notin {i, j} /\ (Ended(a, i) \/ Ended(b, j)) ->
              (IF Ended(b, j) THEN 1 ELSE 0) - (IF Ended(a, i) THEN 1 ELSE 0)
         [] Broken \notin {i, j} /\ ~Ended(a, i) /\ ~Ended(b, j) ->
              IF Broken \in {ie, je} THEN Unordered
              ELSE IF order # 0 THEN order ELSE CmpFrom(a, NextElement(a, ie), b, NextElement(b, je))
\* cmp_json
CmpJson(a, b) ==
    LET i == SkipWs(a, 1)
        j == SkipWs(b, 1)
        arrays == At(a, i) = "[" /\ At(b, j) = "["
        x == SubSeq(a, i, Len(a))
        y == SubSeq(b, j, Len(b))
        order == CmpFrom(x, SkipWs(x, 2), y, SkipWs(y, 2))
    IN IF arrays /\ order # Unordered THEN order ELSE Lexical(Bytes(a), Bytes(b))

\* The elements of a list in an order: how is [by |-> "sort" or "reverse" or
\* "distinct", desc, nullsFirst].  list_rearrange
Rearranged(how, elements) ==
    LET n == Len(elements)
        IsNull(k) == elements[k] = <<"null">>
        Before(x, y) ==
            CASE ~IsNull(x) /\ ~IsNull(y) ->
                   (IF how.desc THEN -CmpElement(elements[x], elements[y]) ELSE CmpElement(elements[x], elements[y]))
              [] IsNull(x) /\ ~IsNull(y) -> (IF how.nullsFirst THEN -1 ELSE 1)
              [] ~IsNull(x) /\ IsNull(y) -> (IF how.nullsFirst THEN 1 ELSE -1)
              [] OTHER -> 0
        Insert(order, k) ==
            LET p == Max({0} \cup {q \in DOMAIN order : Before(order[q], k) <= 0})
            IN SubSeq(order, 1, p) \o <<k>> \o SubSeq(order, p + 1, Len(order))
        First(k) == ~IsNull(k) /\ \A m \in 1..k - 1 : Bytes(elements[m]) # Bytes(elements[k])
        order == CASE how.by = "reverse" -> Reverse([k \in 1..n |-> k])
                   [] how.by = "sort" -> FoldLeft(Insert, <<>>, [k \in 1..n |-> k])
                   [] how.by = "distinct" -> SelectSeq([k \in 1..n |-> k], First)
    IN [k \in DOMAIN order |-> elements[order[k]]] \o <<>>
Listed(elements) == FlattenSeq([k \in DOMAIN elements |-> (IF k = 1 THEN <<>> ELSE <<",">>) \o elements[k]])
Elements(doc) ==
    LET all == ElementSpans(doc, SkipWs(doc, 1))
    IN [k \in DOMAIN all.spans |-> SpanText(doc, all.spans[k])] \o <<>>
\* What becomes of a list, if it is one.
OfList(doc, answer) ==
    LET array == SkipWs(doc, 1)
    IN CASE At(doc, array) = "" -> Error
         [] At(doc, array) # "[" /\ At(doc, array) # "" -> Nothing
         [] OTHER -> IF ElementSpans(doc, array).failed THEN Error ELSE Value(answer)
ListRearrange(how, doc) == OfList(doc, <<"[">> \o Listed(Rearranged(how, Elements(doc))) \o <<"]">>)
\* list_find
ListFind(doc, needle) ==
    OfList(doc, LET all == Elements(doc) IN SelectInSeq(all, LAMBDA e : CmpElement(e, needle) = 0))

\* list_concat_build; an argument <<>> is SQL NULL.  A list that is concatenated
\* keeps its text, an empty one adds not even a comma.
RECURSIVE ConcatFrom(_, _, _, _)
ConcatFrom(args, operator, text, null) ==
    LET slice == ListSlice(Head(args), 1, 2^30)
    IN CASE args = <<>> -> IF null THEN Nothing ELSE Value(<<"[">> \o text \o <<"]">>)
         [] args # <<>> /\ Head(args) = <<>> -> ConcatFrom(Tail(args), operator, text, null \/ operator)
         [] OTHER ->
              CASE slice.is = "error" -> Error
                [] slice.is = "nothing" -> IF operator THEN Error ELSE Nothing
                [] slice.is = "value" ->
                     ConcatFrom(Tail(args), operator,
                                text \o (IF text # <<>> /\ slice.text # <<>> THEN <<",">> ELSE <<>>) \o slice.text, null)
Concatenated(args, operator) == ConcatFrom(args, operator, <<>>, FALSE)
----------------------------------------------------------------------------
(* What the functions are to answer, said of values as trees.  A node      *)
(* [is |-> "scalar", of |-> its name], [is |-> "array", of |-> its         *)
(* elements] or [is |-> "object", of |-> its <<name, value>>].  It is      *)
(* written with a gap of white space wherever there may be one.            *)
Leaf(name) == [is |-> "scalar", of |-> name]
Arr(elements) == [is |-> "array", of |-> elements]
Obj(members) == [is |-> "object", of |-> members]

RECURSIVE Written(_, _)
Apart(texts, gap) ==
    FlattenSeq([k \in DOMAIN texts |-> (IF k = 1 THEN <<>> ELSE gap \o <<",">> \o gap) \o texts[k]])
Written(tree, gap) ==
    CASE tree.is = "scalar" -> <<tree.of>>
      [] tree.is = "array" ->
           <<"[">> \o gap \o Apart([k \in DOMAIN tree.of |-> Written(tree.of[k], gap)], gap) \o gap \o <<"]">>
      [] tree.is = "object" ->
           <<"{">> \o gap
             \o Apart([k \in DOMAIN tree.of |-> <<tree.of[k][1]>> \o gap \o <<":">> \o gap \o Written(tree.of[k][2], gap)], gap)
             \o gap \o <<"}">>

\* Tokens without white space that are a value.
RECURSIVE IsValue(_), AreElements(_), AreMembers(_)
Inside(s) == SubSeq(s, 2, Len(s) - 1)
Splits(s) == {k \in DOMAIN s : s[k] = ","}
IsValue(s) ==
    \/ Len(s) = 1 /\ s[1] \in DOMAIN Scalar
    \/ Len(s) > 1 /\ s[1] = "[" /\ Last(s) = "]" /\ (Inside(s) = <<>> \/ AreElements(Inside(s)))
    \/ Len(s) > 1 /\ s[1] = "{" /\ Last(s) = "}" /\ (Inside(s) = <<>> \/ AreMembers(Inside(s)))
AreElements(s) ==
    IsValue(s) \/ \E k \in Splits(s) : IsValue(SubSeq(s, 1, k - 1)) /\ AreElements(SubSeq(s, k + 1, Len(s)))
IsMember(s) == Len(s) > 2 /\ IsString(s[1]) /\ s[2] = ":" /\ IsValue(SubSeq(s, 3, Len(s)))
AreMembers(s) ==
    IsMember(s) \/ \E k \in Splits(s) : IsMember(SubSeq(s, 1, k - 1)) /\ AreMembers(SubSeq(s, k + 1, Len(s)))
Solid(s) == SelectSeq(s, LAMBDA t : t \notin White)
Trimmed(s) ==
    LET solid == {i \in DOMAIN s : s[i] \notin White} IN IF solid = {} THEN <<>> ELSE SubSeq(s, Min(solid), Max(solid))

\* Where the steps of a path lead to: one value or none.  A token is a name or,
\* on an array, the numeral of a place.
Numerals == <<<<"0">>, <<"1">>, <<"2">>>>
TheFirst(set, Of(_)) == IF set = {} THEN {} ELSE {Of(Min(set))}
MembersNamed(tree, name) == {k \in DOMAIN tree.of : Scalar[tree.of[k][1]].text = name}
Onto(tree, seg) ==
    LET Member(name) == TheFirst(MembersNamed(tree, name), LAMBDA k : tree.of[k][2])
    IN CASE tree.is = "object" /\ seg.is # "index" -> Member(seg.of)
         [] tree.is = "array" /\ seg.is = "index" ->
              {tree.of[k] : k \in {k \in DOMAIN tree.of : k - 1 \in {seg.of, Len(tree.of) + seg.of}}}
         [] tree.is = "array" /\ seg.is = "pointer" -> {tree.of[k] : k \in {k \in DOMAIN tree.of : Numerals[k] = seg.of}}
         [] OTHER -> {}
RECURSIVE Reached(_, _)
Reached(tree, segs) ==
    IF segs = <<>> THEN {tree} ELSE UNION {Reached(t, Tail(segs)) : t \in Onto(tree, Head(segs))}

\* What is found, as it is written; unquoted, if it is a string that is asked for.
AsWritten(trees, gap) == IF trees = {} THEN Nothing ELSE Value(Written(CHOOSE t \in trees : TRUE, gap))
AsText(trees, gap) ==
    IF trees = {} THEN Nothing
    ELSE LET t == CHOOSE t \in trees : TRUE
         IN CASE t.is = "scalar" /\ Scalar[t.of].kind = "null" -> Nothing
              [] t.is = "scalar" /\ Scalar[t.of].kind = "string" -> Value(Scalar[t.of].text)
              [] OTHER -> Value(Bytes(Written(t, gap)))

\* Values have an order: by kind, numbers as such, strings by the codes of their
\* characters, lists by the first difference, NULL last in a list.
Place(tree) ==
    CASE tree.is = "array" -> 3 [] tree.is = "object" -> 7
      [] tree.is = "scalar" -> CASE Scalar[tree.of].kind = "string" -> 1 [] Scalar[tree.of].kind = "number" -> 2
                                 [] tree.of = "false" -> 4 [] tree.of = "true" -> 6 [] tree.of = "null" -> 8
Weight(text) == FoldLeft(LAMBDA n, i : 32 * n + (IF i \in DOMAIN text THEN Code[text[i]] ELSE 0), 0, [i \in 1..5 |-> i])
RECURSIVE ValueOrder(_, _)
ListOrder(xs, ys) ==
    LET differ == {k \in DOMAIN xs \cap DOMAIN ys : ValueOrder(xs[k], ys[k]) # 0}
    IN IF differ = {} THEN Sign(Len(xs) - Len(ys)) ELSE ValueOrder(xs[Min(differ)], ys[Min(differ)])
Values(tree) == [k \in DOMAIN tree.of |-> tree.of[k][2]]
ValueOrder(x, y) ==
    CASE Place(x) # Place(y) -> Sign(Place(x) - Place(y))
      [] Place(x) = Place(y) /\ Place(x) = 1 -> Sign(Weight(Scalar[x.of].text) - Weight(Scalar[y.of].text))
      [] Place(x) = Place(y) /\ Place(x) = 2 -> Sign(Scalar[x.of].at - Scalar[y.of].at)
      [] Place(x) = Place(y) /\ Place(x) = 3 -> ListOrder(x.of, y.of)
      [] Place(x) = Place(y) /\ Place(x) = 7 -> ListOrder(Values(x), Values(y))
      [] OTHER -> 0

\* The places of a list in the order that is asked for: how many come before.
SortedPlaces(how, xs) ==
    LET null == {k \in DOMAIN xs : Place(xs[k]) = 8}
        Earlier(j, k) ==
            IF {j, k} \cap null = {}
            THEN LET o == ValueOrder(xs[j], xs[k]) IN IF o = 0 THEN j < k ELSE (o < 0) # how.desc
            ELSE IF {j, k} \subseteq null THEN j < k ELSE (j \in null) = how.nullsFirst
        Earliest(k) == Cardinality({j \in DOMAIN xs \ {k} : Earlier(j, k)})
    IN [p \in DOMAIN xs |-> CHOOSE k \in DOMAIN xs : Earliest(k) = p - 1] \o <<>>
Kept(how, xs, gap) ==
    CASE how.by = "sort" -> SortedPlaces(how, xs)
      [] how.by = "reverse" -> [k \in DOMAIN xs |-> Len(xs) + 1 - k]
      [] how.by = "distinct" ->
           SelectSeq([k \in DOMAIN xs |-> k],
                     LAMBDA k : Place(xs[k]) # 8 /\ \A j \in 1..k - 1 : Written(xs[j], gap) # Written(xs[k], gap))
IsArray(tree) == tree.is = "array"
Pick(tree, places, gap) == Arr([p \in DOMAIN places |-> tree.of[places[p]]])

\* The value a key has in a map, which is an object or a list of pairs.
TextOf(tree, gap) == IF tree.is = "scalar" THEN Scalar[tree.of].text ELSE Bytes(Written(tree, gap))
MapValue(tree, key, gap) ==
    LET Part(pair, name) == Onto(pair, Key(name))
        keyed == {k \in DOMAIN tree.of : \E t \in Part(tree.of[k], Scalar.keyName.text) : TextOf(t, gap) = key}
    IN CASE tree.is = "object" -> Onto(tree, Key(key))
         [] tree.is = "array" -> UNION TheFirst(keyed, LAMBDA k : Part(tree.of[k], Scalar.valueName.text))
         [] OTHER -> {}
----------------------------------------------------------------------------
(* The calls: [of, tree, gap, ...], or tokens where they may be no JSON.   *)
Document(p) == <<Blank>> \o Written(p.tree, p.gap) \o p.gap
Call(p) ==
    CASE p.of = "whole" -> Extract(p.tokens, <<"$">>)
      [] p.of = "extract" -> Extract(Document(p), p.path)
      [] p.of = "text" -> Extracted(Extract(Document(p), p.path))
      [] p.of = "subscript" -> ExtractIndex(Document(p), p.n)
      [] p.of = "element" -> Extracted(ListIndex(Document(p), p.n))
      [] p.of = "slice" -> ListSlice(Document(p), p.from, p.to)
      [] p.of = "map" -> MapGet(Document(p), p.key)
      [] p.of = "order" -> Value(CmpJson(Written(p.tree, p.gap), Written(p.other, p.gap)))
      [] p.of = "arrange" -> ListRearrange(p.how, Document(p))
      [] p.of = "find" -> ListFind(Document(p), <<p.needle>>)
      [] p.of = "concat" ->
           Concatenated([k \in DOMAIN p.args |-> FlattenSeq([j \in DOMAIN p.args[k] |-> Written(p.args[k][j], p.gap)])], p.operator)

Bracketed(texts) == <<"[">> \o Apart(texts, <<>>) \o <<"]">>
TextsAt(tree, places, gap) == [k \in DOMAIN places |-> Written(tree.of[places[k]], gap)]
Says(p) ==
    LET len == Len(p.tree.of)
        Counted(n) == IF n < 0 THEN len + 1 + n ELSE n
        among == SelectSeq([k \in 1..len |-> k], LAMBDA k : Counted(p.from) <= k /\ k <= Counted(p.to))
        hits == {k \in 1..len : ValueOrder(p.tree.of[k], Leaf(p.needle)) = 0}
        given == {k \in DOMAIN p.args : p.args[k] # <<>>}
        lists == SelectSeq(p.args, LAMBDA a : a # <<>> /\ a[1].of # <<>>)
    IN CASE p.of = "whole" -> IF IsValue(Solid(p.tokens)) THEN Value(Trimmed(p.tokens)) ELSE Error
         [] p.of = "extract" -> AsWritten(Reached(p.tree, p.segs), p.gap)
         [] p.of = "text" -> AsText(Reached(p.tree, p.segs), p.gap)
         [] p.of = "subscript" -> AsWritten(Onto(p.tree, Index(p.n)), p.gap)
         [] p.of = "element" ->
              IF IsArray(p.tree) THEN AsText({p.tree.of[k] : k \in {k \in 1..len : k = Counted(p.n)}}, p.gap) ELSE Nothing
         [] p.of = "slice" -> IF IsArray(p.tree) THEN Value(Apart(TextsAt(p.tree, among, p.gap), p.gap)) ELSE Nothing
         [] p.of = "map" -> AsWritten(MapValue(p.tree, p.key, p.gap), p.gap)
         [] p.of = "order" -> Value(ValueOrder(p.tree, p.other))
         [] p.of = "arrange" ->
              IF IsArray(p.tree) THEN Value(Bracketed(TextsAt(p.tree, Kept(p.how, p.tree.of, p.gap), p.gap))) ELSE Nothing
         [] p.of = "find" -> IF ~IsArray(p.tree) THEN Nothing ELSE Value(IF hits = {} THEN 0 ELSE Min(hits))
         [] p.of = "concat" ->
              CASE \E k \in given : ~IsArray(p.args[k][1]) -> IF p.operator THEN Error ELSE Nothing
                [] \A k \in given : IsArray(p.args[k][1]) ->
                     IF p.operator /\ given # DOMAIN p.args THEN Nothing
                     ELSE Value(Bracketed([k \in DOMAIN lists |-> Apart(TextsAt(lists[k][1], [j \in DOMAIN lists[k][1].of |-> j], p.gap), p.gap)]))

Reading(p) == LET r == Call(p) IN [at |-> IF r.is = "error" THEN 0 ELSE 1, val |-> r]
Means(p) == LET says == Says(p) IN [sure |-> says.is # "error", val |-> says]
----------------------------------------------------------------------------
(* The calls that are checked.                                             *)
Gaps == {<<>>, <<NewLine, Blank>>}
L(name) == Leaf(name)
Numbers == Arr(<<L("two"), L("ten"), L("minus")>>)

\* Brackets within brackets, deeper than a word of Kinds, with something on both
\* sides; every token dropped, doubled or replaced by another once.
RECURSIVE Bracket(_)
Bracket(kinds) ==
    IF kinds = <<>> THEN L("two")
    ELSE LET inner == Bracket(Tail(kinds))
         IN IF Head(kinds) THEN Obj(<<<<"a", inner>>, <<"empty", L("null")>>>>) ELSE Arr(<<inner, L("true")>>)
Whole1(tokens) == [of |-> "whole", tree |-> L("null"), tokens |-> tokens]
DeepDocuments ==
    {Whole1(p.gap \o Written(Bracket(p.kinds), p.gap) \o p.gap) : p \in [kinds : SeqOf(BOOLEAN, 6), gap : Gaps]}
Harmed(s) ==
    {RemoveAt(s, k) : k \in DOMAIN s} \cup {InsertAt(s, k, s[k]) : k \in DOMAIN s}
      \cup {ReplaceAt(s, k, t) : k \in DOMAIN s, t \in {"]", "}", "[", ",", ":", "b", "junk"}}
HarmedDocuments ==
    UNION {{Whole1(s) : s \in Harmed(Written(Bracket(kinds), <<Blank>>))} : kinds \in {<<TRUE, FALSE>>, <<FALSE, TRUE, FALSE>>}}
      \cup {Whole1(s) : s \in Harmed(<<"[", "]">>) \cup Harmed(<<"{", "}">>) \cup {<<>>, <<Blank>>}}

\* Paths in each way of writing them.
Document1 ==
    Obj(<<<<"a", Arr(<<L("two"), Arr(<<>>), Obj(<<<<"digit", L("half")>>, <<"dotted", L("bUnicode")>>>>)>>)>>,
          <<"digit", Obj(<<<<"bUnicode", L("true")>>, <<"b", L("false")>>>>)>>, <<"dotted", L("null")>>,
          <<"slashed", Arr(<<L("null")>>)>>, <<"a", L("zero")>>, <<"empty", L("b")>>>>)
PathNames == {"a", "b", "digit", "dotted", "slashed", "empty"}
Spell(way, seg) ==
    CASE seg.is = "index" -> <<"[">> \o (IF seg.of < 0 THEN <<"-">> ELSE <<>>) \o <<Numerals[Max({seg.of, -seg.of}) + 1][1], "]">>
      [] seg.is = "key" -> IF way = "quoted" THEN <<".", "\"">> \o seg.of \o <<"\"">> ELSE <<".">> \o seg.of
      [] seg.is = "pointer" ->
           <<"/">> \o FlattenSeq([i \in DOMAIN seg.of |-> CASE seg.of[i] = "/" -> <<"~", "1">> [] seg.of[i] = "~" -> <<"~", "0">>
                                                           [] OTHER -> <<seg.of[i]>>])
Plainly(seg) == seg.is = "key" => seg.of \notin {<<>>, Scalar.dotted.text}
Keys == {Key(Scalar[name].text) : name \in PathNames}
Indexes == {Index(n) : n \in -2..2}
Ways ==
    [quoted |-> Keys \cup Indexes, plain |-> {seg \in Keys \cup Indexes : Plainly(seg)},
     pointer |-> {Pointer(Scalar[name].text) : name \in PathNames} \cup {Pointer(t) : t \in {<<"1">>, <<"2">>, <<"0", "1">>, <<"-", "1">>}}]
Extraction(of, segs, path, gap) == [of |-> of, tree |-> Document1, segs |-> segs, path |-> path, gap |-> gap]
Routes(way) ==
    UNION {[1..n -> Ways[way]] : n \in 1..2}
      \cup {r \in [1..3 -> Ways[way]] : r[1].is # "index" /\ r[1].of = <<"a">> /\ (r[2].is = "key" => r[2].of = <<"0">>)}
PathCalls(way) ==
    {Extraction(p.of, p.segs, (IF way = "pointer" THEN <<>> ELSE <<"$">>) \o FlattenSeq([k \in DOMAIN p.segs |-> Spell(way, p.segs[k])]), p.gap) :
        p \in [of : {"extract", "text"}, segs : Routes(way), gap : Gaps]}
\* A name alone; paths there is no reading of.
BareCalls == {Extraction("text", <<seg>>, seg.of, <<>>) : seg \in Keys \ {Key(<<>>), Key(Scalar.slashed.text)}}

OneOf == {L("zero"), L("two"), L("twoPointO"), L("ten"), L("b"), L("bUnicode"), L("null"), Arr(<<>>), Arr(<<L("two")>>)}
SomeLists == {Arr(xs) : xs \in UNION {[1..n -> OneOf] : n \in 0..3}}
NoList == {L("two"), L("b"), Obj(<<<<"a", Numbers>>>>)}
PlaceCalls ==
    {[of |-> of, tree |-> tree, n |-> n, gap |-> gap] :
        of \in {"subscript", "element"}, n \in -4..4, gap \in Gaps,
        tree \in NoList \cup {Numbers, Arr(<<>>), Arr(<<L("null"), L("bUnicode")>>), Arr(<<Numbers, L("b")>>)}}
SliceCalls ==
    {[of |-> "slice", tree |-> tree, from |-> from, to |-> to, gap |-> gap] :
        from \in -5..5, to \in -5..5, gap \in Gaps, tree \in NoList \cup {Numbers, Arr(<<>>), Arr(<<Numbers, L("b")>>)}}
Hows == {[by |-> "reverse", desc |-> FALSE, nullsFirst |-> FALSE], [by |-> "distinct", desc |-> FALSE, nullsFirst |-> FALSE]}
          \cup [by : {"sort"}, desc : BOOLEAN, nullsFirst : BOOLEAN]
ArrangeCalls ==
    {[of |-> "arrange", tree |-> tree, how |-> how, gap |-> <<Blank>>] : how \in Hows, tree \in SomeLists \cup NoList}
FindCalls ==
    {[of |-> "find", tree |-> tree, needle |-> needle, gap |-> <<>>] :
        needle \in {"two", "twoPointO", "b", "bUnicode", "true"}, tree \in SomeLists \cup NoList}
Compared ==
    {Arr(xs) : xs \in UNION {[1..n -> OneOf] : n \in 0..1}}
      \cup {Arr(<<x, y>>) : x \in {L("null"), L("two"), Arr(<<L("two")>>)},
                            y \in {L("b"), L("twoPointO"), L("minus"), L("true"), L("empty"), Obj(<<<<"a", L("two")>>>>),
                                   Obj(<<<<"b", L("ten")>>, <<"a", L("zero")>>>>)}}
OrderCalls ==
    {[of |-> "order", tree |-> x, other |-> y, gap |-> gap] : x \in Compared, y \in Compared, gap \in Gaps}
      \cup {[of |-> "order", tree |-> x, other |-> y, gap |-> <<>>] : x \in Compared, y \in {L("two"), L("b"), L("false"), L("true"), Obj(<<>>)}}
ConcatCalls ==
    {[of |-> "concat", tree |-> L("null"), args |-> args, operator |-> operator, gap |-> gap] :
        operator \in BOOLEAN, gap \in Gaps,
        args \in UNION {[1..n -> {<<>>, <<Arr(<<>>)>>, <<Numbers>>, <<Arr(<<Arr(<<>>)>>)>>, <<Obj(<<<<"a", Numbers>>>>)>>}] : n \in 1..3}}
Entry(key, value) == Obj(<<<<"keyName", L(key)>>, <<"valueName", value>>>>)
MapTrees ==
    NoList \cup {Document1, Arr(<<>>), Numbers}
      \cup {Arr(xs) : xs \in [1..3 -> {Entry("b", L("zero")), Entry("bUnicode", Numbers), Entry("two", L("null")), L("b"),
                                       Obj(<<<<"valueName", L("ten")>>, <<"keyName", L("twoPointO")>>>>),
                                       Obj(<<<<"keyName", L("b")>>>>), Obj(<<>>)}]}
MapCalls ==
    {[of |-> "map", tree |-> tree, key |-> key, gap |-> gap] :
        tree \in MapTrees, gap \in Gaps, key \in {Scalar[name].text : name \in {"a", "b", "two", "twoPointO", "empty"}}}
=============================================================================
