----------------------------- MODULE Expressions -----------------------------
(***************************************************************************)
(* Expressions compiled to a flat program (plan/compile.rs) and run over a *)
(* batch, an instruction at a time (expr/vm.rs, expr/kernels.rs).  There   *)
(* are no branches: what only some rows reach and may fail is a program of *)
(* its own, run over those rows.                                           *)
(*                                                                         *)
(* All values are BOOLEAN, so that no type is ever cast; a scalar function *)
(* fails on FALSE, and multiplication of DECIMALs on two TRUEs, its result *)
(* having too many digits.  A plan has the expression, or the conjuncts of *)
(* a WHERE; plan.unselected are the rows of a batch that are not selected. *)
(***************************************************************************)
EXTENDS Operator

True == "t"
False == "f"
Unknown == "null"
Raised == "raised"

Negated(x) == CASE x = True -> False [] x = False -> True [] OTHER -> x
Both3(x, y) == CASE False \in {x, y} -> False [] x = True /\ y = True -> True [] OTHER -> Unknown
Either3(x, y) == Negated(Both3(Negated(x), Negated(y)))

\* The kernels, on the values of one row.
Unary == {"not", "is null"}
Binary == {"and", "or", "eq", "ge", "coalesce", "mul"}
Kernel(op, x) ==
    LET strict == Unknown \in Range(x)
    IN CASE op = "not" -> Negated(x[1])
         [] op = "is null" -> IF x[1] = Unknown THEN True ELSE False
         [] op = "and" -> Both3(x[1], x[2])
         [] op = "or" -> Either3(x[1], x[2])
         [] op = "eq" -> IF strict THEN Unknown ELSE IF x[1] = x[2] THEN True ELSE False
         [] op = "ge" -> IF strict THEN Unknown ELSE Either3(x[1], Negated(x[2]))
         [] op = "mul" -> IF strict THEN Unknown ELSE IF x = <<True, True>> THEN Raised ELSE False
         [] op = "select" -> IF x[1] = True THEN x[2] ELSE x[3]
         [] op = "coalesce" -> IF \A i \in DOMAIN x : x[i] = Unknown THEN Unknown
                               ELSE x[Min({i \in DOMAIN x : x[i] # Unknown})]
         [] op = "function" -> IF strict THEN Unknown ELSE IF x[1] = False THEN Raised ELSE False
----------------------------------------------------------------------------
\* Program.  Registers, constants, calls and sub-programs are numbered from 0
\* in plan.width numbers; one too many poisons the program.
NewProgram == [instrs |-> <<>>, consts |-> <<>>, calls |-> <<>>, subs |-> <<>>,
               regs |-> 0, result |-> 0, overflow |-> FALSE]

AllocReg(p) ==
    IF p.regs < plan.width THEN [p EXCEPT !.result = p.regs, !.regs = @ + 1]
    ELSE [p EXCEPT !.result = plan.width, !.overflow = TRUE]

Emit(p, op, a, b, aux) ==
    LET q == AllocReg(p)
    IN [q EXCEPT !.instrs = Append(@, [op |-> op, dst |-> q.result, a |-> a, b |-> b, aux |-> aux])]

HasRoom(p, table) == ~p.overflow /\ Len(table) < plan.width
Konst(p, v) ==
    LET known == {i \in DOMAIN p.consts : p.consts[i] = v}
    IN CASE known # {} /\ ~p.overflow -> Emit(p, "const", 0, 0, Min(known) - 1)
         [] known = {} /\ HasRoom(p, p.consts) -> Emit([p EXCEPT !.consts = Append(@, v)], "const", 0, 0, Len(p.consts))
         [] OTHER -> Emit([p EXCEPT !.overflow = TRUE], "const", 0, 0, 0)
Call(p, func, args) ==
    IF HasRoom(p, p.calls)
    THEN Emit([p EXCEPT !.calls = Append(@, [func |-> func, args |-> args])], "call", 0, 0, Len(p.calls))
    ELSE Emit([p EXCEPT !.overflow = TRUE], "call", 0, 0, 0)
LazySub(p, sub, mask, mode) ==
    IF HasRoom(p, p.subs) /\ ~sub.overflow
    THEN Emit([p EXCEPT !.subs = Append(@, sub)], "lazy", mask, mode, Len(p.subs))
    ELSE Emit([p EXCEPT !.overflow = TRUE], "lazy", mask, mode, 0)

\* A call may fail; of the other instructions, a lazy one if its program may.
RECURSIVE MayRaise(_)
MayRaise(p) == \E i \in DOMAIN p.instrs :
    \/ p.instrs[i].op = "call"
    \/ /\ p.instrs[i].op = "lazy"
       /\ p.instrs[i].aux < Len(p.subs) => MayRaise(p.subs[p.instrs[i].aux + 1])

\* merge_program_bodies: q after p, its numbers moved behind those of p.  What
\* a, b and aux number depends on the instruction.
AuxBase_CallsStay(op, p) == CASE op = "const" -> Len(p.consts)
                              [] op = "lazy" -> Len(p.subs)
                              [] op = "select" -> p.regs
                              [] OTHER -> 0
AuxBase(op, p) == CASE op = "const" -> Len(p.consts)
                    [] op = "call" -> Len(p.calls)
                    [] op = "lazy" -> Len(p.subs)
                    [] op = "select" -> p.regs
                    [] OTHER -> 0
Moved(ins, p) ==
    [ins EXCEPT !.dst = @ + p.regs,
                !.a = IF ins.op \in {"col", "const", "call"} THEN @ ELSE @ + p.regs,
                !.b = IF ins.op \in {"col", "const", "call", "lazy"} THEN @ ELSE @ + p.regs,
                !.aux = @ + AuxBase(ins.op, p)]

Merged(p, q) ==
    LET Fits(m, n) == m + n <= plan.width
    IN IF \/ q.overflow \/ ~Fits(p.regs, q.regs) \/ ~Fits(Len(p.consts), Len(q.consts))
          \/ ~Fits(Len(p.calls), Len(q.calls)) \/ ~Fits(Len(p.subs), Len(q.subs))
       THEN [p EXCEPT !.overflow = TRUE]
       ELSE [p EXCEPT !.consts = @ \o q.consts, !.subs = @ \o q.subs,
                      !.calls = @ \o [i \in DOMAIN q.calls |->
                          [q.calls[i] EXCEPT !.args = [j \in DOMAIN @ |-> @[j] + p.regs]]],
                      !.instrs = @ \o [i \in DOMAIN q.instrs |-> Moved(q.instrs[i], p)],
                      !.regs = @ + q.regs, !.result = q.result + p.regs]

\* guarded: q where mask is as mode says, everywhere if it cannot fail.
NoReg == -1
Guarded(p, q, mask, mode) ==
    IF mask # NoReg /\ MayRaise(q) THEN LazySub(p, q, mask, mode) ELSE Merged(p, q)
----------------------------------------------------------------------------
\* Compile leaves the register of e in result.
RECURSIVE Compile(_, _), CompileAll(_, _)
SubProgram(e) == Compile(NewProgram, e)

CompileAll(p, es) ==
    FoldLeft(LAMBDA acc, e : LET q == Compile(acc.p, e) IN [p |-> q, regs |-> Append(acc.regs, q.result)],
             [p |-> p, regs |-> <<>>], es)

CompileLogical(p, e) ==
    With(Compile(p, e.lhs), LAMBDA l :
    With(Guarded(l, SubProgram(e.rhs), l.result, IF e.is = "and" THEN "not false" ELSE "not true"), LAMBDA r :
      Emit(r, e.is, l.result, r.result, 0)))

\* scalar_call of COALESCE, guarded_coalesce.
CompileCoalesce(p, es) ==
    With(<<>> \o [i \in DOMAIN es |-> SubProgram(es[i])], LAMBDA subs :
    With(FoldLeft(LAMBDA acc, s :
             IF acc.first THEN [p |-> Merged(acc.p, s), first |-> FALSE]
             ELSE LET g == Guarded(acc.p, s, acc.p.result, "null")
                  IN [p |-> Emit(g, "coalesce", acc.p.result, g.result, 0), first |-> FALSE],
             [p |-> p, first |-> TRUE], subs), LAMBDA chain :
    With(FoldLeft(LAMBDA acc, s : LET q == Merged(acc.p, s) IN [p |-> q, regs |-> Append(acc.regs, q.result)],
                  [p |-> p, regs |-> <<>>], subs), LAMBDA flat :
      IF Len(es) >= 2 /\ \E i \in 2..Len(es) : MayRaise(subs[i]) THEN chain.p
      ELSE Call(flat.p, "coalesce", flat.regs))))

\* case.  An arm is taken where its condition is TRUE and none before it was;
\* only where some later part may fail need that be known.
Arm(acc, when, operand, guard) ==
    With(acc.taken # NoReg /\ MayRaise(when.cond), LAMBDA lazy :
    With(Guarded(acc.p, when.cond, acc.taken, "not true"), LAMBDA c :
    With(IF operand = NoReg THEN c ELSE Emit(c, "eq", operand, c.result, 0), LAMBDA cond :
    With(Konst(cond, False), LAMBDA no :
    With(Emit(no, "coalesce", cond.result, no.result, 0), LAMBDA sure :
    With(Emit(sure, "not", acc.taken, 0, 0), LAMBDA free :
    With(CASE ~guard -> cond
           [] guard /\ acc.taken # NoReg /\ ~lazy -> Emit(free, "and", sure.result, free.result, 0)
           [] OTHER -> sure, LAMBDA hit :
    With(IF guard /\ acc.taken # NoReg THEN Emit(hit, "or", acc.taken, hit.result, 0) ELSE hit, LAMBDA taken :
    With(Guarded(taken, when.value, IF guard THEN hit.result ELSE NoReg, "true"), LAMBDA v :
      [p |-> v, taken |-> IF guard THEN taken.result ELSE NoReg,
       arms |-> Append(acc.arms, [hit |-> hit.result, value |-> v.result])])))))))))

CompileCase(p, e) ==
    With(IF e.operand = <<>> THEN [p EXCEPT !.result = NoReg] ELSE Compile(p, e.operand[1]), LAMBDA o :
    With(<<>> \o [i \in DOMAIN e.whens |->
             [cond |-> SubProgram(e.whens[i][1]), value |-> SubProgram(e.whens[i][2])]], LAMBDA whens :
    With(<<>> \o [i \in DOMAIN e.els |-> SubProgram(e.els[i])], LAMBDA els :
    With(\/ \E i \in DOMAIN whens : MayRaise(whens[i].value) \/ (i > 1 /\ MayRaise(whens[i].cond))
         \/ \E i \in DOMAIN els : MayRaise(els[i]), LAMBDA guard :
    With(FoldLeft(LAMBDA acc, w : Arm(acc, w, o.result, guard),
                  [p |-> o, taken |-> NoReg, arms |-> <<>>], whens), LAMBDA done :
    With(IF els = <<>> THEN Konst(done.p, Unknown) ELSE Guarded(done.p, els[1], done.taken, "not true"), LAMBDA last :
      FoldRight(LAMBDA arm, q : Emit(q, "select", arm.hit, arm.value, q.result), done.arms, last)))))))

\* in_list: equal to one of them or another, all of them evaluated.
CompileIn(p, e) ==
    With(Compile(p, e.arg), LAMBDA arg :
    With(FoldLeft(LAMBDA acc, item :
             LET i == Compile(acc.p, item)
                 eq == Emit(i, "eq", arg.result, i.result, 0)
             IN [p |-> IF acc.first THEN eq ELSE Emit(eq, "or", acc.p.result, eq.result, 0), first |-> FALSE],
             [p |-> arg, first |-> TRUE], e.list).p, LAMBDA listed :
      IF e.negated THEN Emit(listed, "not", listed.result, 0, 0) ELSE listed))

CompileBetween(p, e) ==
    With(CompileAll(p, <<e.arg, e.low, e.high>>), LAMBDA a :
    With(Emit(a.p, "ge", a.regs[1], a.regs[2], 0), LAMBDA ge :
    With(Emit(ge, "ge", a.regs[3], a.regs[1], 0), LAMBDA le :
      Emit(le, "and", ge.result, le.result, 0))))

Compile(p, e) ==
    CASE e.is = "col" -> Emit(p, "col", 0, 0, e.col)
      [] e.is = "const" -> Konst(p, e.value)
      [] e.is \in Unary -> LET a == Compile(p, e.arg) IN Emit(a, e.is, a.result, 0, 0)
      [] e.is \in {"eq", "mul"} ->
           LET a == CompileAll(p, <<e.lhs, e.rhs>>) IN Emit(a.p, e.is, a.regs[1], a.regs[2], 0)
      [] e.is \in {"and", "or"} -> CompileLogical(p, e)
      [] e.is = "function" -> LET a == Compile(p, e.arg) IN Call(a, "function", <<a.result>>)
      [] e.is = "coalesce" -> CompileCoalesce(p, e.args)
      [] e.is = "case" -> CompileCase(p, e)
      [] e.is = "in" -> CompileIn(p, e)
      [] e.is = "between" -> CompileBetween(p, e)

\* and_programs: the conjuncts of a WHERE, each compiled by itself.
AndPrograms(p, q) ==
    With(Guarded(p, q, p.result, "not false"), LAMBDA r :
      IF MayRaise(q) THEN Emit(r, "and", p.result, r.result, 0)
      ELSE LET m == Merged(p, q) IN Emit(m, "and", p.result, IF m.overflow THEN p.result ELSE m.result, 0))
AndAll(es) == FoldLeft(LAMBDA p, e : AndPrograms(p, SubProgram(e)), SubProgram(Head(es)), Tail(es))
----------------------------------------------------------------------------
\* The machine.  A vector has a value for each row, or one for all of them.
Lane(v, i) == IF Len(v) = 1 THEN v[1] ELSE v[i]
Operands(ins, p) ==
    CASE ins.op \in Unary -> <<ins.a>>
      [] ins.op \in Binary -> <<ins.a, ins.b>>
      [] ins.op = "select" -> <<ins.a, ins.b, ins.aux>>
      [] ins.op = "call" -> p.calls[ins.aux + 1].args

\* One value per row unless all operands have one for all, none if one is empty.
Applied(op, vs) ==
    LET n == IF \E i \in DOMAIN vs : vs[i] = <<>> THEN 0 ELSE Max({Len(vs[i]) : i \in DOMAIN vs})
    IN [row \in 1..n |-> Kernel(op, [i \in DOMAIN vs |-> Lane(vs[i], row)])]

Satisfies(x, mode) == CASE mode = "null" -> x = Unknown
                        [] mode = "true" -> x = True
                        [] mode = "not true" -> x # True
                        [] mode = "not false" -> x # False

\* eval_rows.  sel says which rows of the batch the program sees.
RECURSIVE EvalRows(_, _, _)
Lazily(p, ins, mask, rows, sel) ==
    With(Len(sel), LAMBDA n :
    With(Where([i \in 1..n |-> i], LAMBDA i : Satisfies(Lane(mask, i), ins.b)), LAMBDA hit :
    With(EvalRows(p.subs[ins.aux + 1], rows, <<>> \o [j \in DOMAIN hit |-> sel[hit[j]]]), LAMBDA part :
      CASE hit = <<>> -> <<Unknown>>
        [] hit # <<>> /\ part = <<Raised>> -> part
        [] OTHER -> [i \in 1..n |-> IF Contains(hit, i) THEN part[CHOOSE j \in DOMAIN hit : hit[j] = i] ELSE Unknown])))

Executed(regs, ins, p, rows, sel) ==
    CASE ins.op = "col" -> [i \in DOMAIN sel |-> rows[sel[i]][ins.aux]]
      [] ins.op = "const" -> <<p.consts[ins.aux + 1]>>
      [] ins.op = "lazy" -> Lazily(p, ins, regs[ins.a], rows, sel)
      [] OTHER -> LET os == Operands(ins, p)
                  IN Applied(IF ins.op = "call" THEN p.calls[ins.aux + 1].func ELSE ins.op,
                             [i \in DOMAIN os |-> regs[os[i]]])

\* The result, <<Raised>> if a row failed an instruction.
EvalRows(p, rows, sel) ==
    LET Run(acc, ins) ==
            IF acc.raised THEN acc
            ELSE LET v == <<>> \o Executed(acc.regs, ins, p, rows, sel)
                 IN [raised |-> Contains(v, Raised), regs |-> [acc.regs EXCEPT ![ins.dst] = v]]
        end == FoldLeft(Run, [raised |-> p.overflow, regs |-> [r \in 0..(p.regs - 1) |-> <<>>]], p.instrs)
    IN IF end.raised THEN <<Raised>> ELSE [i \in DOMAIN sel |-> Lane(end.regs[p.result], i)]
----------------------------------------------------------------------------
NewExpression == [phase |-> "compiling"]

ExpressionCompile ==
    /\ At("evaluate", "compiling") /\ Onwards
    /\ Becomes([phase |-> "evaluating", program |-> AndAll(plan.exprs)]) /\ Quiet

\* Project hands the values on, Filter the rows for which they are TRUE.
Selected(rows) == Where([i \in DOMAIN rows |-> i], LAMBDA i : i \notin plan.unselected)

ExpressionBatch ==
    LET rows == Delivered("left")
        sel == Selected(rows)
        values == EvalRows(self.program, rows, sel)
        kept == Where([i \in DOMAIN sel |-> i], LAMBDA i : values[i] = True)
    IN /\ At("evaluate", "evaluating") /\ Ready("left")
       /\ CASE values = <<Raised>> -> Fails
            [] values # <<Raised>> /\ plan.filters ->
                 Becomes(self) /\ HandsSome([j \in DOMAIN kept |-> rows[sel[kept[j]]]])
            [] OTHER -> Becomes(self) /\ Hands(values)

ExpressionEnded == At("evaluate", "evaluating") /\ Ended("left") /\ Finishes
ExpressionInterrupted == At("evaluate", "evaluating") /\ Interrupted

ExpressionNext == ExpressionCompile \/ ExpressionBatch \/ ExpressionEnded \/ ExpressionInterrupted
----------------------------------------------------------------------------
\* What an expression means for a row: SQL, its operands from left to right
\* and only as far as they are needed.
Strictly(op, xs) == IF Contains(xs, Raised) THEN Raised ELSE Kernel(op, xs)

RECURSIVE Means(_, _), FirstKnown(_, _), Chosen(_, _, _)
FirstKnown(es, row) ==
    LET x == Means(Head(es), row)
    IN IF x # Unknown \/ Len(es) = 1 THEN x ELSE FirstKnown(Tail(es), row)
Chosen(e, k, row) ==
    LET cond == Means(e.whens[k][1], row)
        is == IF e.operand = <<>> THEN cond ELSE Strictly("eq", <<Means(e.operand[1], row), cond>>)
    IN CASE k > Len(e.whens) -> IF e.els = <<>> THEN Unknown ELSE Means(e.els[1], row)
         [] k <= Len(e.whens) /\ is = Raised -> Raised
         [] k <= Len(e.whens) /\ is = True -> Means(e.whens[k][2], row)
         [] OTHER -> Chosen(e, k + 1, row)
Means(e, row) ==
    CASE e.is = "col" -> row[e.col]
      [] e.is = "const" -> e.value
      [] e.is \in Unary \cup {"function"} -> Strictly(e.is, <<Means(e.arg, row)>>)
      [] e.is \in {"eq", "mul"} -> Strictly(e.is, <<Means(e.lhs, row), Means(e.rhs, row)>>)
      [] e.is \in {"and", "or"} ->
           LET l == Means(e.lhs, row)
           IN IF l \in {Raised, IF e.is = "and" THEN False ELSE True} THEN l
              ELSE Strictly(e.is, <<l, Means(e.rhs, row)>>)
      [] e.is = "coalesce" -> FirstKnown(e.args, row)
      [] e.is = "case" -> Chosen(e, 1, row)
      [] e.is = "in" ->
           LET xs == [i \in DOMAIN e.list |-> Strictly("eq", <<Means(e.arg, row), Means(e.list[i], row)>>)]
               any == IF Contains(xs, Raised) THEN Raised ELSE FoldLeft(Either3, False, xs)
           IN IF e.negated THEN Negated(any) ELSE any
      [] e.is = "between" ->
           LET a == Means(e.arg, row)
           IN Strictly("and", <<Strictly("ge", <<a, Means(e.low, row)>>), Strictly("ge", <<Means(e.high, row), a>>)>>)

MeansAll(row) ==
    FoldLeft(LAMBDA x, e : IF x \in {Raised, False} THEN x ELSE Strictly("and", <<x, Means(e, row)>>),
             Means(Head(plan.exprs), row), Tail(plan.exprs))
SelectedRows(batches) ==
    FlattenSeq([k \in DOMAIN batches |-> LET s == Selected(batches[k]) IN [i \in DOMAIN s |-> batches[k][s[i]]]])
ExpressionAnswer ==
    LET rows == SelectedRows(plan.input.left)
    IN IF plan.filters THEN Where(rows, LAMBDA r : MeansAll(r) = True)
       ELSE [i \in DOMAIN rows |-> MeansAll(rows[i])]
\* Some row asked for so far fails.
SomeRowFails ==
    \E r \in Range(SelectedRows(SubSeq(plan.input.left, 1, pulled["left"]))) : MeansAll(r) = Raised
=============================================================================
