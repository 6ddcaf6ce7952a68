-------------------------------- MODULE Regex --------------------------------
(***************************************************************************)
(* The regular expressions of regexp_matches, regexp_full_match,           *)
(* regexp_extract and regexp_replace (expr/regex.rs): a pattern is parsed, *)
(* compiled to the instructions of an NFA and run by a Pike machine, which *)
(* looks at each character of the text once.                               *)
(*                                                                         *)
(* A plan has the pattern and the text, as characters, and the function    *)
(* with its other arguments; what the function returns is handed out.      *)
(***************************************************************************)
EXTENDS Operator

NewLine == "newline"
Escape == "escape"
Ascending == <<NewLine, "$", "(", ")", "*", "+", ",", "-", ".", "0", "2", ":", "?", "[", Escape, "]", "^",
               "a", "b", "{", "|", "}">>
Alphabet == Range(Ascending)
Bell == "bell"                             \* what \a is; no text has it
CharsFrom(lo, hi) ==
    {Ascending[i] : i \in (CHOOSE i \in DOMAIN Ascending : Ascending[i] = lo)..(CHOOSE i \in DOMAIN Ascending : Ascending[i] = hi)}
DigitOf == [c \in {"0", "2"} |-> IF c = "0" THEN 0 ELSE 2]
MaxRepeat == 2
MaxGroups == 2
MaxNesting == 2
NoBound == -1
Nowhere == -1                              \* a position no Save has set

\* Ast
Leaf(kind) == [is |-> kind]
OneOf(chars) == [is |-> "class", chars |-> chars]
Around(kind, x) == [is |-> kind, arg |-> x]
Repeated(x, n, m) == [is |-> "repeat", arg |-> x, min |-> n, max |-> m]
Group(x, g) == [is |-> "group", arg |-> x, number |-> g]
Several(kind, xs) == [is |-> kind, items |-> xs]
Concat(xs) == CASE Len(xs) = 0 -> Leaf("empty") [] Len(xs) = 1 -> xs[1] [] OTHER -> Several("concat", xs)
Alternatives(xs) == IF Len(xs) = 1 THEN xs[1] ELSE Several("alt", xs)
----------------------------------------------------------------------------
\* Parser: at is the position to read, groups and depth the counters of (.
EndOfPattern == "end"
PeekAt(i) == IF i <= Len(plan.pattern) THEN plan.pattern[i] ELSE EndOfPattern
Peek(p) == PeekAt(p.at)
Over1(p, ast) == [p EXCEPT !.at = @ + 1, !.ast = ast]
Invalid(p) == [p EXCEPT !.at = Len(plan.pattern) + 1, !.refused = TRUE, !.ast = Leaf("empty")]

\* scan_u32, scan_bound: {n}, {n,} or {n,m} at i, or nothing.
RECURSIVE DigitsAt(_)
DigitsAt(i) == IF PeekAt(i) \in DOMAIN DigitOf THEN <<DigitOf[PeekAt(i)]>> \o DigitsAt(i + 1) ELSE <<>>
Number(ds) == FoldLeft(LAMBDA v, d : 10 * v + d, 0, ds)
BoundAt(i) ==
    LET n == DigitsAt(i + 1)
        j == i + 1 + Len(n)
        m == DigitsAt(j + 1)
        k == j + 1 + Len(m)
    IN CASE n = <<>> -> <<>>
         [] n # <<>> /\ PeekAt(j) = "}" -> <<[min |-> Number(n), max |-> Number(n), past |-> j + 1]>>
         [] n # <<>> /\ PeekAt(j) = "," /\ PeekAt(k) = "}" ->
              <<[min |-> Number(n), max |-> IF m = <<>> THEN NoBound ELSE Number(m), past |-> k + 1]>>
         [] OTHER -> <<>>

\* parse_escape; in a class any other letter or digit is the character itself.
Escaped(c) == IF c = "a" THEN Bell ELSE c
ParseEscape(p) ==
    LET c == PeekAt(p.at + 1)
    IN IF c \in {EndOfPattern, "b", "0", "2"} THEN Invalid(p)
       ELSE [p EXCEPT !.at = @ + 2, !.ast = OneOf({Escaped(c)})]

\* parse_class
RECURSIVE ParseMembers(_, _, _)
ParseMembers(p, chars, first) ==
    LET lo == IF Peek(p) = Escape THEN PeekAt(p.at + 1) ELSE Peek(p)
        hi == PeekAt(p.at + 2)
    IN CASE lo = EndOfPattern -> Invalid(p)
         [] Peek(p) = "]" /\ ~first -> Over1(p, OneOf(chars))
         [] Peek(p) = Escape -> ParseMembers([p EXCEPT !.at = @ + 2], chars \cup {Escaped(lo)}, FALSE)
         [] (Peek(p) = "]" => first) /\ Peek(p) # Escape /\ PeekAt(p.at + 1) = "-" /\ hi \notin {EndOfPattern, "]"} ->
              IF hi = Escape \/ CharsFrom(lo, hi) = {} THEN Invalid(p)
              ELSE ParseMembers([p EXCEPT !.at = @ + 3], chars \cup CharsFrom(lo, hi), FALSE)
         [] OTHER -> ParseMembers([p EXCEPT !.at = @ + 1], chars \cup {lo}, FALSE)
ParseClass(p) ==
    IF PeekAt(p.at + 1) = "^"
    THEN LET c == ParseMembers([p EXCEPT !.at = @ + 2], {}, TRUE)
         IN IF c.refused THEN c ELSE [c EXCEPT !.ast = OneOf(Alphabet \ @.chars)]
    ELSE ParseMembers([p EXCEPT !.at = @ + 1], {}, TRUE)

RECURSIVE ParseAlt(_, _), ParseConcat(_, _)
ParseGroup(p) ==
    With(PeekAt(p.at + 1) = "?" /\ PeekAt(p.at + 2) = ":", LAMBDA plain :
    With(IF plain THEN 0 ELSE p.groups + 1, LAMBDA number :
    With(ParseAlt([p EXCEPT !.at = IF plain THEN @ + 3 ELSE @ + 1, !.depth = @ + 1,
                            !.groups = IF plain THEN @ ELSE number], <<>>), LAMBDA inner :
      IF \/ PeekAt(p.at + 1) = "?" /\ ~plain
         \/ ~plain /\ p.groups = MaxGroups
         \/ p.depth = MaxNesting
         \/ Peek(inner) # ")"
      THEN Invalid(p)
      ELSE [Over1(inner, Group(inner.ast, number)) EXCEPT !.depth = p.depth])))

ParseAtom(p) ==
    LET c == Peek(p)
    IN CASE c \in {EndOfPattern, "*", "+", "?"} -> Invalid(p)
         [] c = "." -> Over1(p, OneOf(Alphabet \ {NewLine}))
         [] c = "^" -> Over1(p, Leaf("bol"))
         [] c = "$" -> Over1(p, Leaf("eol"))
         [] c = "[" -> ParseClass(p)
         [] c = "(" -> ParseGroup(p)
         [] c = Escape -> ParseEscape(p)
         [] OTHER -> Over1(p, OneOf({c}))

\* A { that is not a bound is a character, also after a quantifier.
ParseRepeat_AnyBrace(p) ==
    With(ParseAtom(p), LAMBDA atom :
    With(IF Peek(atom) = "{" THEN BoundAt(atom.at) ELSE <<>>, LAMBDA bound :
    With(CASE Peek(atom) = "*" -> Over1(atom, Around("star", atom.ast))
           [] Peek(atom) = "+" -> Over1(atom, Around("plus", atom.ast))
           [] Peek(atom) = "?" -> Over1(atom, Around("quest", atom.ast))
           [] bound # <<>> -> [atom EXCEPT !.at = bound[1].past,
                                           !.ast = Repeated(@, bound[1].min, bound[1].max)]
           [] OTHER -> atom, LAMBDA quantified :
      IF \/ bound # <<>> /\ bound[1].min > MaxRepeat
         \/ bound # <<>> /\ bound[1].max # NoBound /\ bound[1].max \notin bound[1].min..MaxRepeat
         \/ quantified.at # atom.at /\ Peek(quantified) \in {"*", "+", "?", "{"}
      THEN Invalid(p) ELSE quantified)))
ParseRepeat(p) ==
    With(ParseAtom(p), LAMBDA atom :
    With(IF Peek(atom) = "{" THEN BoundAt(atom.at) ELSE <<>>, LAMBDA bound :
    With(CASE Peek(atom) = "*" -> Over1(atom, Around("star", atom.ast))
           [] Peek(atom) = "+" -> Over1(atom, Around("plus", atom.ast))
           [] Peek(atom) = "?" -> Over1(atom, Around("quest", atom.ast))
           [] bound # <<>> -> [atom EXCEPT !.at = bound[1].past,
                                           !.ast = Repeated(@, bound[1].min, bound[1].max)]
           [] OTHER -> atom, LAMBDA quantified :
      IF \/ bound # <<>> /\ bound[1].min > MaxRepeat
         \/ bound # <<>> /\ bound[1].max # NoBound /\ bound[1].max \notin bound[1].min..MaxRepeat
         \/ /\ quantified.at # atom.at
            /\ \/ Peek(quantified) \in {"*", "+", "?"}
               \/ Peek(quantified) = "{" /\ BoundAt(quantified.at) # <<>>
      THEN Invalid(p) ELSE quantified)))

ParseConcat(p, items) ==
    IF Peek(p) \in {EndOfPattern, "|", ")"} THEN [p EXCEPT !.ast = Concat(items)]
    ELSE With(ParseRepeat(p), LAMBDA q : ParseConcat(q, Append(items, q.ast)))
ParseAlt(p, branches) ==
    With(ParseConcat(p, <<>>), LAMBDA q :
      IF Peek(q) = "|" THEN ParseAlt([q EXCEPT !.at = @ + 1], Append(branches, q.ast))
      ELSE [q EXCEPT !.ast = Alternatives(Append(branches, q.ast))])

Parse ==
    With(ParseAlt([at |-> 1, groups |-> 0, depth |-> 0, refused |-> FALSE, ast |-> Leaf("empty")], <<>>), LAMBDA p :
      IF p.at = Len(plan.pattern) + 1 THEN p ELSE Invalid(p))
----------------------------------------------------------------------------
\* Compiler: the instructions of an Ast that start at pc.  A split goes to a
\* rather than to b.
Inst(op) == [op |-> op]
Step1(chars) == [op |-> "step", chars |-> chars]
Split(a, b) == [op |-> "split", a |-> a, b |-> b]
Jmp(a) == [op |-> "jmp", a |-> a]
Save(slot) == [op |-> "save", slot |-> slot]

RECURSIVE CodeAlt(_, _), CodeOf(_, _)
CodeStar(x, pc) == LET body == CodeOf(x, pc + 1)
                   IN <<Split(pc + 1, pc + Len(body) + 2)>> \o body \o <<Jmp(pc)>>
CodePlus(x, pc) == LET body == CodeOf(x, pc) IN body \o <<Split(pc, pc + Len(body) + 1)>>
CodeQuest(x, pc) == LET body == CodeOf(x, pc + 1) IN <<Split(pc + 1, pc + Len(body) + 1)>> \o body
CodeAlt(xs, pc) ==
    IF Len(xs) = 1 THEN CodeOf(xs[1], pc)
    ELSE LET first == CodeOf(xs[1], pc + 1)
             others == CodeAlt(Tail(xs), pc + Len(first) + 2)
             end == pc + Len(first) + 2 + Len(others)
         IN <<Split(pc + 1, pc + Len(first) + 2)>> \o first \o <<Jmp(end)>> \o others
Copies(n, Piece(_), before, pc) ==
    FoldLeft(LAMBDA code, i : code \o Piece(pc + Len(code)), before, Positions(n))
CodeRepeat(x, n, m, pc) ==
    LET needed == Copies(n, LAMBDA q : CodeOf(x, q), <<>>, pc)
    IN IF m = NoBound THEN needed \o CodeStar(x, pc + Len(needed))
       ELSE Copies(m - n, LAMBDA q : CodeQuest(x, q), needed, pc)
CodeOf(x, pc) ==
    CASE x.is = "empty" -> <<>>
      [] x.is = "class" -> <<Step1(x.chars)>>
      [] x.is \in {"bol", "eol"} -> <<Inst(x.is)>>
      [] x.is = "concat" -> FoldLeft(LAMBDA code, y : code \o CodeOf(y, pc + Len(code)), <<>>, x.items)
      [] x.is = "alt" -> CodeAlt(x.items, pc)
      [] x.is = "star" -> CodeStar(x.arg, pc)
      [] x.is = "plus" -> CodePlus(x.arg, pc)
      [] x.is = "quest" -> CodeQuest(x.arg, pc)
      [] x.is = "repeat" -> CodeRepeat(x.arg, x.min, x.max, pc)
      [] x.is = "group" /\ x.number = 0 -> CodeOf(x.arg, pc)
      [] x.is = "group" /\ x.number > 0 ->
           <<Save(2 * x.number)>> \o CodeOf(x.arg, pc + 1) \o <<Save(2 * x.number + 1)>>

\* compile, compile_full: the anchors are instructions, not text.
RegexProgram(ast) ==
    LET before == IF plan.func = "full match" THEN <<Save(0), Inst("bol")>> ELSE <<Save(0)>>
        after == IF plan.func = "full match" THEN <<Inst("eol")>> ELSE <<>>
    IN before \o CodeOf(ast, Len(before) + 1) \o after \o <<Save(1), Inst("match")>>
----------------------------------------------------------------------------
\* The machine.  A position is the number of characters before it.
NoSaves == [slot \in 0..(2 * MaxGroups + 1) |-> Nowhere]
NoThreads == [threads |-> <<>>, seen |-> {}, steps |-> 0]

\* add_thread: what is reachable without a character, in order of preference,
\* no instruction twice.
RECURSIVE AddThread(_, _, _, _, _)
AddThread(l, prog, pc, saves, sp) ==
    LET i == prog[pc]
        k == [l EXCEPT !.seen = @ \cup {pc}, !.steps = @ + 1]
    IN CASE pc \in l.seen -> l
         [] pc \notin l.seen /\ i.op \in {"step", "match"} ->
              [k EXCEPT !.threads = Append(@, [pc |-> pc, saves |-> saves])]
         [] pc \notin l.seen /\ i.op = "jmp" -> AddThread(k, prog, i.a, saves, sp)
         [] pc \notin l.seen /\ i.op = "split" -> AddThread(AddThread(k, prog, i.a, saves, sp), prog, i.b, saves, sp)
         [] pc \notin l.seen /\ i.op = "save" -> AddThread(k, prog, pc + 1, [saves EXCEPT ![i.slot] = sp], sp)
         [] OTHER -> IF sp = (IF i.op = "bol" THEN 0 ELSE Len(plan.text))
                     THEN AddThread(k, prog, pc + 1, saves, sp) ELSE k

\* find_from, from the list of threads at sp on.
RECURSIVE Simulate(_, _, _, _)
Simulate(l, prog, sp, matched) ==
    LET more == sp < Len(plan.text)
        Try(acc, th) ==
            LET i == prog[th.pc]
            IN CASE acc.over -> acc
                 [] ~acc.over /\ i.op = "match" -> [acc EXCEPT !.over = TRUE, !.matched = <<th.saves>>]
                 [] ~acc.over /\ i.op = "step" ->
                      IF more /\ plan.text[sp + 1] \in i.chars
                      THEN [acc EXCEPT !.next = AddThread(@, prog, th.pc + 1, th.saves, sp + 1)] ELSE acc
        tried == FoldLeft(Try, [next |-> [NoThreads EXCEPT !.steps = l.steps], matched |-> matched, over |-> FALSE],
                          l.threads)
        next == IF more /\ tried.matched = <<>> THEN AddThread(tried.next, prog, 1, NoSaves, sp + 1) ELSE tried.next
    IN CASE l.threads = <<>> /\ matched # <<>> -> [saves |-> matched, steps |-> l.steps]
         [] ~more -> [saves |-> tried.matched, steps |-> next.steps]
         [] OTHER -> Simulate(next, prog, sp + 1, tried.matched)

\* The leftmost match from start on, or none.
FindFrom(prog, start) == Simulate(AddThread(NoThreads, prog, 1, NoSaves, start), prog, start, <<>>)
TooLong(found) == found.steps > plan.maxSteps
----------------------------------------------------------------------------
\* The functions.
TextFrom(from, to) == SubSeq(plan.text, from + 1, Min({to, Len(plan.text)}))
Captured(saves, g) ==
    IF Nowhere \in {saves[2 * g], saves[2 * g + 1]} THEN <<>> ELSE TextFrom(saves[2 * g], saves[2 * g + 1])
\* parse_repl, emit_repl: a replacement is of groups, of a character between
\* them, and of malformed escapes; with one of those, or naming a group that is
\* not there, it leaves the text as it is.
Between == -1
Malformation == -2
ReplacementInvalid(groups) == \E t \in Range(plan.repl) : t = Malformation \/ t > groups
Replacement(saves) ==
    FlattenSeq([i \in DOMAIN plan.repl |-> IF plan.repl[i] = Between THEN <<"-">> ELSE Captured(saves, plan.repl[i])])

NewRegex == [phase |-> "compiling"]
AtMatch(f) == At("regex", "matching") /\ plan.func \in f /\ Onwards
Returns(chars) == Hands(chars) /\ status' = "done" /\ UNCHANGED self

RegexCompile ==
    /\ At("regex", "compiling") /\ Onwards
    /\ \E p \in {Parse} : \E prog \in {RegexProgram(p.ast)} :
          IF p.refused \/ Len(prog) > plan.maxInsts THEN Fails
          ELSE /\ Becomes([phase |-> "matching", prog |-> prog, groups |-> p.groups, pos |-> 0, end |-> Nowhere])
               /\ Quiet

RegexMatches ==
    /\ AtMatch({"matches", "full match"})
    /\ LET found == FindFrom(self.prog, 0)
       IN IF TooLong(found) THEN Fails ELSE Returns(IF found.saves = <<>> THEN <<"no">> ELSE <<"yes">>)

RegexExtract ==
    /\ AtMatch({"extract"})
    /\ \E found \in {FindFrom(self.prog, 0)} :
          CASE plan.group \notin 0..9 -> Fails
            [] plan.group \in 0..9 /\ TooLong(found) -> Fails
            [] OTHER -> Returns(IF found.saves = <<>> \/ plan.group > self.groups THEN <<>>
                                ELSE Captured(found.saves[1], plan.group))

\* replace_into: a search that takes too long counts as one that finds nothing.
RegexReplaceFirst ==
    /\ AtMatch({"replace"})
    /\ \E found \in {FindFrom(self.prog, 0)} :
       LET saves == found.saves[1]
       IN IF ReplacementInvalid(self.groups) \/ TooLong(found) \/ found.saves = <<>> THEN Returns(plan.text)
          ELSE Returns(TextFrom(0, saves[0]) \o Replacement(saves) \o TextFrom(saves[1], Len(plan.text)))

RegexReplaceNext_Adjacent ==
    /\ AtMatch({"replace all"})
    /\ \E found \in {FindFrom(self.prog, self.pos)} :
       LET saves == found.saves[1]
           from == saves[0]
           to == saves[1]
       IN CASE ReplacementInvalid(self.groups) -> Returns(plan.text)
            [] ~ReplacementInvalid(self.groups)
               /\ (self.pos > Len(plan.text) \/ TooLong(found) \/ found.saves = <<>>) ->
                 Returns(TextFrom(self.pos, Len(plan.text)))
            [] OTHER ->
                 IF from = to /\ FALSE
                 THEN Becomes([self EXCEPT !.pos = from + 1]) /\ Hands(TextFrom(from, from + 1))
                 ELSE /\ Becomes([self EXCEPT !.pos = IF to > from THEN to ELSE to + 1, !.end = to])
                      /\ Hands(TextFrom(self.pos, from) \o Replacement(saves)
                               \o (IF to > from THEN <<>> ELSE TextFrom(to, to + 1)))

\* An empty match where the last one ended is passed over.
RegexReplaceNext ==
    /\ AtMatch({"replace all"})
    /\ \E found \in {FindFrom(self.prog, self.pos)} :
       LET saves == found.saves[1]
           from == saves[0]
           to == saves[1]
       IN CASE ReplacementInvalid(self.groups) -> Returns(plan.text)
            [] ~ReplacementInvalid(self.groups)
               /\ (self.pos > Len(plan.text) \/ TooLong(found) \/ found.saves = <<>>) ->
                 Returns(TextFrom(self.pos, Len(plan.text)))
            [] OTHER ->
                 IF from = to /\ from = self.end
                 THEN Becomes([self EXCEPT !.pos = from + 1]) /\ Hands(TextFrom(from, from + 1))
                 ELSE /\ Becomes([self EXCEPT !.pos = IF to > from THEN to ELSE to + 1, !.end = to])
                      /\ Hands(TextFrom(self.pos, from) \o Replacement(saves)
                               \o (IF to > from THEN <<>> ELSE TextFrom(to, to + 1)))

RegexNext == RegexCompile \/ RegexMatches \/ RegexExtract \/ RegexReplaceFirst \/ RegexReplaceNext
----------------------------------------------------------------------------
\* What is asked for: each way the pattern reads as alternatives of items, an
\* item being an atom and its quantifier, with k groups opened before it.  An
\* item that follows another does not begin with a bound.
First1(s, n) == SubSeq(s, 1, n)
Rest1(s, n) == SubSeq(s, n + 1, Len(s))
IsDigits(s) == s # <<>> /\ Range(s) \subseteq DOMAIN DigitOf
IsBound(s) ==
    /\ Len(s) >= 3 /\ s[1] = "{" /\ s[Len(s)] = "}"
    /\ LET n == SubSeq(s, 2, Len(s) - 1)
       IN IsDigits(n) \/ \E i \in DOMAIN n : /\ n[i] = "," /\ IsDigits(First1(n, i - 1))
                                             /\ i = Len(n) \/ IsDigits(Rest1(n, i))
BeginsBound(s) == \E n \in DOMAIN s : IsBound(First1(s, n))
Counts(s) == {<<n, m>> \in (0..MaxRepeat) \X (0..MaxRepeat \cup {NoBound}) :
    /\ IsBound(s)
    /\ m # NoBound => n <= m
    /\ \/ n = m /\ IsDigits(SubSeq(s, 2, Len(s) - 1)) /\ n = Number([i \in 1..(Len(s) - 2) |-> DigitOf[s[i + 1]]])
       \/ \E i \in DOMAIN s :
            /\ s[i] = "," /\ n = Number([j \in 1..(i - 2) |-> DigitOf[s[j + 1]]])
            /\ m = (IF i = Len(s) - 1 THEN NoBound ELSE Number([j \in 1..(Len(s) - i - 1) |-> DigitOf[s[i + j]]]))}

RECURSIVE Opened(_), Nesting(_)
Opened(x) == CASE x.is \in {"star", "plus", "quest", "repeat"} -> Opened(x.arg)
               [] x.is = "group" -> Opened(x.arg) + (IF x.number > 0 THEN 1 ELSE 0)
               [] x.is \in {"concat", "alt"} -> Opened(x.items[1]) + Opened(x.items[2])
               [] OTHER -> 0
Nesting(x) == CASE x.is \in {"star", "plus", "quest", "repeat"} -> Nesting(x.arg)
                [] x.is = "group" -> Nesting(x.arg) + 1
                [] x.is \in {"concat", "alt"} -> Max({Nesting(x.items[1]), Nesting(x.items[2])})
                [] OTHER -> 0

RECURSIVE Members1(_, _), AtomReadings(_, _), ItemReadings(_, _), ConcatReadings(_, _), AltReadings(_, _)
Members1(s, first) ==
    LET ranged == Len(s) >= 3 /\ s[1] # Escape /\ s[2] = "-" /\ s[3] # "]"
    IN CASE s = <<>> -> (IF first THEN {} ELSE {{}})
         [] s # <<>> /\ s[1] = "]" /\ ~first -> {}
         [] s # <<>> /\ s[1] = Escape -> IF Len(s) = 1 THEN {} ELSE {c \cup {IF s[2] = "a" THEN Bell ELSE s[2]} : c \in Members1(Rest1(s, 2), FALSE)}
         [] ranged -> IF s[3] = Escape \/ CharsFrom(s[1], s[3]) = {} THEN {}
                      ELSE {c \cup CharsFrom(s[1], s[3]) : c \in Members1(Rest1(s, 3), FALSE)}
         [] OTHER -> {c \cup {s[1]} : c \in Members1(Tail(s), FALSE)}
AtomReadings(s, k) ==
    LET n == Len(s)
        inner == SubSeq(s, 2, n - 1)
    IN CASE n = 1 -> (CASE s[1] \in {"*", "+", "?", "(", ")", "[", "|", Escape} -> {}
                       [] s[1] = "." -> {OneOf(Alphabet \ {NewLine})}
                       [] s[1] = "^" -> {Leaf("bol")}
                       [] s[1] = "$" -> {Leaf("eol")}
                       [] OTHER -> {OneOf({s[1]})})
         [] n = 2 /\ s[1] = Escape -> CASE s[2] = "a" -> {OneOf({Bell})}
                                          [] s[2] \in {"b", "0", "2"} -> {}
                                          [] OTHER -> {OneOf({s[2]})}
         [] n > 2 /\ s[1] = "[" /\ s[n] = "]" ->
              IF s[2] = "^" THEN {OneOf(Alphabet \ c) : c \in Members1(Tail(inner), TRUE)}
              ELSE {OneOf(c) : c \in Members1(inner, TRUE)}
         [] n > 1 /\ s[1] = "(" /\ s[n] = ")" ->
              {Group(x, k + 1) : x \in AltReadings(inner, k + 1)}
              \cup (IF n > 3 /\ s[2] = "?" /\ s[3] = ":"
                    THEN {Group(x, 0) : x \in AltReadings(SubSeq(s, 4, n - 1), k)} ELSE {})
         [] OTHER -> {}
ItemReadings(s, k) ==
    AtomReadings(s, k)
    \cup UNION {LET atoms == AtomReadings(First1(s, n), k)
                    q == Rest1(s, n)
                IN CASE q = <<"*">> -> {Around("star", x) : x \in atoms}
                     [] q = <<"+">> -> {Around("plus", x) : x \in atoms}
                     [] q = <<"?">> -> {Around("quest", x) : x \in atoms}
                     [] OTHER -> {Repeated(x, c[1], c[2]) : x \in atoms, c \in Counts(q)} : n \in 1..(Len(s) - 1)}
ConcatReadings(s, k) ==
    IF s = <<>> THEN {Leaf("empty")}
    ELSE UNION {UNION {{Several("concat", <<x, y>>) : y \in ConcatReadings(Rest1(s, n), k + Opened(x))}
                         : x \in ItemReadings(First1(s, n), k)} : n \in {m \in DOMAIN s : ~BeginsBound(Rest1(s, m))}}
AltReadings(s, k) ==
    ConcatReadings(s, k)
    \cup UNION {UNION {{Several("alt", <<x, y>>) : y \in AltReadings(Rest1(s, n), k + Opened(x))}
                         : x \in ConcatReadings(First1(s, n - 1), k)} : n \in {m \in DOMAIN s : s[m] = "|"}}
Readings == {x \in AltReadings(plan.pattern, 0) : Opened(x) <= MaxGroups /\ Nesting(x) <= MaxNesting}

\* The matches of x that go on from st, the preferred ones first: the first
\* alternative before the second, more repetitions before fewer; a repetition
\* of nothing is not followed by another.
RECURSIVE Goes(_, _), GoesOn(_, _), RepeatsFrom(_, _, _, _)
Then(sts, Next1(_)) == FlattenSeq([i \in DOMAIN sts |-> Next1(sts[i])])
GoesOn(x, st) == Then(Goes(x, st), LAMBDA o : IF o.at = st.at THEN <<>> ELSE Append(GoesOn(x, o), o))
RepeatsFrom(x, n, m, st) ==
    CASE n > 0 -> Then(Goes(x, st), LAMBDA o : RepeatsFrom(x, n - 1, IF m = NoBound THEN m ELSE m - 1, o))
      [] n = 0 /\ m = NoBound -> Append(GoesOn(x, st), st)
      [] n = 0 /\ m = 0 -> <<st>>
      [] OTHER -> Append(Then(Goes(x, st), LAMBDA o : RepeatsFrom(x, 0, m - 1, o)), st)
Goes(x, st) ==
    CASE x.is = "empty" -> <<st>>
      [] x.is = "class" -> IF st.at < Len(plan.text) /\ plan.text[st.at + 1] \in x.chars
                           THEN <<[st EXCEPT !.at = @ + 1]>> ELSE <<>>
      [] x.is = "bol" -> IF st.at = 0 THEN <<st>> ELSE <<>>
      [] x.is = "eol" -> IF st.at = Len(plan.text) THEN <<st>> ELSE <<>>
      [] x.is = "concat" -> Then(Goes(x.items[1], st), LAMBDA o : Goes(x.items[2], o))
      [] x.is = "alt" -> Goes(x.items[1], st) \o Goes(x.items[2], st)
      [] x.is = "star" -> Append(GoesOn(x.arg, st), st)
      [] x.is = "plus" -> Then(Goes(x.arg, st), LAMBDA o : Append(IF o.at = st.at THEN <<>> ELSE GoesOn(x.arg, o), o))
      [] x.is = "quest" -> Append(Goes(x.arg, st), st)
      [] x.is = "repeat" -> RepeatsFrom(x.arg, x.min, x.max, st)
      [] x.is = "group" /\ x.number = 0 -> Goes(x.arg, st)
      [] OTHER -> Then(Goes(x.arg, [st EXCEPT !.saves[2 * x.number] = st.at]),
                       LAMBDA o : <<[o EXCEPT !.saves[2 * x.number + 1] = o.at]>>)

MatchesAt(x, i) ==
    Where(Goes(x, [at |-> i, saves |-> [NoSaves EXCEPT ![0] = i]]),
          LAMBDA o : plan.func = "full match" => i = 0 /\ o.at = Len(plan.text))
SavesOf(o) == [o.saves EXCEPT ![1] = o.at]
Leftmost(x) == LET starts == {i \in 0..Len(plan.text) : MatchesAt(x, i) # <<>>}
               IN IF starts = {} THEN <<>> ELSE <<SavesOf(MatchesAt(x, Min(starts))[1])>>

RECURSIVE ReplacedFrom(_, _, _)
ReplacedFrom(x, i, last) ==
    LET ms == MatchesAt(x, i)
        to == ms[1].at
    IN CASE i > Len(plan.text) -> <<>>
         [] i <= Len(plan.text) /\ (ms = <<>> \/ (to = i /\ last = i)) ->
              TextFrom(i, i + 1) \o ReplacedFrom(x, i + 1, last)
         [] OTHER -> Replacement(SavesOf(ms[1]))
                     \o (IF to > i THEN ReplacedFrom(x, to, to) ELSE TextFrom(i, i + 1) \o ReplacedFrom(x, i + 1, i))

RegexAnswer ==
    With(CHOOSE y \in Readings : TRUE, LAMBDA x :
    With(Leftmost(x), LAMBDA m :
      CASE plan.func \in {"matches", "full match"} -> IF m = <<>> THEN <<"no">> ELSE <<"yes">>
        [] plan.func = "extract" -> IF m = <<>> \/ plan.group > Opened(x) THEN <<>> ELSE Captured(m[1], plan.group)
        [] ReplacementInvalid(Opened(x)) -> plan.text
        [] plan.func = "replace" /\ ~ReplacementInvalid(Opened(x)) ->
             IF m = <<>> THEN plan.text
             ELSE TextFrom(0, m[1][0]) \o Replacement(m[1]) \o TextFrom(m[1][1], Len(plan.text))
        [] OTHER -> ReplacedFrom(x, 0, Nowhere)))

\* Every character is looked at by each instruction once.
Affordable == Len(self.prog) * (Len(plan.text) + 1) <= plan.maxSteps
=============================================================================
