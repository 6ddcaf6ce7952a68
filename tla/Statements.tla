------------------------------ MODULE Statements ------------------------------
(***************************************************************************)
(* INSERT, UPDATE, DELETE, CREATE OR REPLACE TABLE AS and ALTER TABLE of a *)
(* column, on the rows of one in-memory table (dml.rs, ddl.rs, MemTable of *)
(* catalog.rs).  A statement goes over its rows in batches, checks them    *)
(* all and only then writes; a query inside one may miss bytes of its file *)
(* and then the statement is prepared again from the start.                *)
(*                                                                         *)
(* A plan has a table and the statements to run on it.  Their expressions  *)
(* are those of Expressions; a narrow column is of a type that TRUE cannot *)
(* be converted to.  Names are resolved: columns are positions.            *)
(***************************************************************************)
EXTENDS Expressions

Statement == plan.statements[self.k]
Unrun(t, k) == [phase |-> "statement", k |-> k, table |-> t, pos |-> 0, staged |-> <<>>, provided |-> 0]

NewStatements(p) == Unrun(p.table, 1)

\* The columns a statement assigns.
Targets == CASE Statement.kind \in {"insert", "insert select"} -> Statement.cols
             [] Statement.kind = "update" -> [j \in DOMAIN Statement.set |-> Statement.set[j][1]]
             [] OTHER -> <<>>

Resolved == IsInjective(Targets) /\ Range(Targets) \subseteq DOMAIN self.table.schema

Running(kinds) ==
    /\ plan.op = "statements" /\ self.phase = "statement" /\ Onwards
    /\ self.k <= Len(plan.statements) /\ Statement.kind \in kinds
    /\ Resolved

\* The statement ends: with the table as it leaves it, or with an error.
Applies(t, count) == self' = Unrun(t, self.k + 1) /\ returned' = Append(returned, count) /\ UNCHANGED status
Refused == -1
Aborts == Applies(self.table, Refused)
Stages(rows, pos) == Becomes([self EXCEPT !.staged = @ \o rows, !.pos = pos]) /\ Quiet

\* The cast of SELECT: what cannot be converted becomes NULL.
CastTo(v, c) == IF c.narrow /\ v = True THEN Unknown ELSE v
\* cast_value: stored, that would be an error.
CastFails(v, c) == v # Unknown /\ CastTo(v, c) = Unknown
BreaksNotNull(schema, row) == \E i \in DOMAIN schema : row[i] = Unknown /\ ~schema[i].nullable
ValueOf1(e) == Head(EvalRows(SubProgram(e), <<<<>>>>, <<1>>))

Upto(n) == IF self.pos + BatchSize < n THEN self.pos + BatchSize ELSE n
\* MemTable::batch.
BatchOf(rows) == SubSeq(rows, self.pos + 1, Upto(Len(rows)))
Every(rows) == <<>> \o [i \in DOMAIN rows |-> i]

\* What WHERE says of the rows of a batch; <<Raised>> if it fails.
Condition(batch) ==
    IF Statement.where = <<>> THEN [i \in DOMAIN batch |-> True]
    ELSE EvalRows(SubProgram(Statement.where[1]), batch, Every(batch))
Accepted(cond) == Where(Every(cond), LAMBDA i : cond[i] = True)
----------------------------------------------------------------------------
\* INSERT.  A row starts as the defaults and has its columns filled in.
Filled(cols, vs) ==
    [i \in DOMAIN self.table.defaults |->
        IF Contains(cols, i) THEN vs[Min({j \in DOMAIN cols : cols[j] = i})] ELSE self.table.defaults[i]]

InsertValue ==
    LET cols == Statement.cols
        exprs == Statement.values[self.pos + 1]
    IN /\ Running({"insert"}) /\ self.pos < Len(Statement.values)
       /\ IF Len(exprs) # Len(cols) THEN Aborts
          ELSE \E vs \in {[j \in DOMAIN exprs |-> IF exprs[j] = <<>> THEN self.table.defaults[cols[j]]
                                                 ELSE ValueOf1(exprs[j][1])]} :
               IF \/ Contains(vs, Raised)
                  \/ \E j \in DOMAIN exprs : exprs[j] # <<>> /\ CastFails(vs[j], self.table.schema[cols[j]])
                  \/ BreaksNotNull(self.table.schema, Filled(cols, vs))
               THEN Aborts ELSE Stages(<<Filled(cols, vs)>>, self.pos + 1)

\* run_query_to_rows of SELECT exprs FROM the table itself or a file.  Each
\* batch of the file that is not there sends the statement back to its start,
\* where it is the next time.
Origin == IF Statement.from = "file" THEN Rows(plan.input.left) ELSE self.table.rows

SelectMissing ==
    /\ Running({"insert select", "create as"})
    /\ Statement.from = "file" /\ self.pos >= self.provided /\ self.pos < Len(Origin)
    /\ Becomes([Unrun(self.table, self.k) EXCEPT !.provided = Upto(Len(Origin))]) /\ Quiet

SelectBatch ==
    LET batch == BatchOf(Origin)
    IN /\ Running({"insert select", "create as"})
       /\ self.pos < Len(Origin)
       /\ \E values \in {<<>> \o [j \in DOMAIN Statement.exprs |->
                                     EvalRows(SubProgram(Statement.exprs[j]), batch, Every(batch))]} :
          IF \E j \in DOMAIN values : values[j] = <<Raised>> THEN Aborts
          ELSE Stages([i \in DOMAIN batch |-> [j \in DOMAIN values |-> values[j][i]]], Upto(Len(Origin)))

\* Every row is converted and checked before the first is appended.
InsertApply ==
    LET cols == Statement.cols
        converted == [i \in DOMAIN self.staged |-> Filled(cols, self.staged[i])]
        bad == \/ Len(Statement.exprs) # Len(cols)
               \/ \E i \in DOMAIN self.staged :
                    \/ \E j \in DOMAIN cols : CastFails(self.staged[i][j], self.table.schema[cols[j]])
                    \/ BreaksNotNull(self.table.schema, converted[i])
    IN \/ /\ Running({"insert"}) /\ self.pos = Len(Statement.values)
          /\ Applies([self.table EXCEPT !.rows = @ \o self.staged], Len(self.staged))
       \/ /\ Running({"insert select"}) /\ self.pos = Len(Origin)
          /\ IF bad THEN Aborts
             ELSE Applies([self.table EXCEPT !.rows = @ \o converted], Len(converted))
----------------------------------------------------------------------------
\* UPDATE.  Changes are planned for the accepted rows, all of the old values.
Settable(value, column) == ~CastFails(value, column) /\ (CastTo(value, column) = Unknown => column.nullable)
AssignedTo(j) == self.table.schema[Statement.set[j][1]]
SetValues(rows) == <<>> \o [j \in DOMAIN Statement.set |-> EvalRows(SubProgram(Statement.set[j][2]), rows, Every(rows))]
UpdateBatch_Whole ==
    /\ Running({"update"}) /\ self.pos < Len(self.table.rows)
    /\ \E batch \in {BatchOf(self.table.rows)} : \E cond \in {Condition(batch)} : \E new \in {SetValues(batch)} :
       LET sel == Accepted(cond)
       IN IF \/ cond = <<Raised>> \/ <<Raised>> \in Range(new)
             \/ \E j \in DOMAIN new : \E i \in DOMAIN sel : ~Settable(new[j][sel[i]], AssignedTo(j))
          THEN Aborts
          ELSE Stages([i \in DOMAIN sel |-> [row |-> self.pos + sel[i], values |-> [j \in DOMAIN new |-> new[j][sel[i]]]]],
                      Upto(Len(self.table.rows)))
UpdateBatch ==
    /\ Running({"update"}) /\ self.pos < Len(self.table.rows)
    /\ \E batch \in {BatchOf(self.table.rows)} : \E cond \in {Condition(batch)} :
       \E sel \in {IF cond = <<Raised>> THEN <<>> ELSE Accepted(cond)} :
       \E new \in {SetValues([i \in DOMAIN sel |-> batch[sel[i]]])} :
          IF \/ cond = <<Raised>>
             \/ sel # <<>> /\ <<Raised>> \in Range(new)
             \/ sel # <<>> /\ \E j \in DOMAIN new : \E i \in DOMAIN sel : ~Settable(new[j][i], AssignedTo(j))
          THEN Aborts
          ELSE Stages([i \in DOMAIN sel |-> [row |-> self.pos + sel[i], values |-> [j \in DOMAIN new |-> new[j][i]]]],
                      Upto(Len(self.table.rows)))

UpdateApply ==
    LET Written(rows, change) ==
            [rows EXCEPT ![change.row] = [c \in DOMAIN @ |->
                LET j == {k \in DOMAIN Statement.set : Statement.set[k][1] = c}
                IN IF j = {} THEN @[c] ELSE change.values[Min(j)]]]
    IN /\ Running({"update"}) /\ self.pos = Len(self.table.rows)
       /\ Applies([self.table EXCEPT !.rows = FoldLeft(Written, @, self.staged)], Len(self.staged))

\* DELETE.  The rows to keep are gathered, and replace the table's at the end.
DeleteBatch ==
    /\ Running({"delete"}) /\ self.pos < Len(self.table.rows)
    /\ \E batch \in {BatchOf(self.table.rows)} : \E cond \in {Condition(batch)} :
       LET kept == Where(Every(batch), LAMBDA i : ~Contains(Accepted(cond), i))
       IN IF cond = <<Raised>> THEN Aborts
          ELSE Stages([i \in DOMAIN kept |-> batch[kept[i]]], Upto(Len(self.table.rows)))

DeleteApply ==
    /\ Running({"delete"}) /\ self.pos = Len(self.table.rows)
    /\ Applies([self.table EXCEPT !.rows = self.staged], Len(self.table.rows) - Len(self.staged))
----------------------------------------------------------------------------
\* create_table of CREATE OR REPLACE TABLE AS: every column may hold NULL.
KeepsNarrow(e) == Statement.from = "table" /\ e.is = "col" /\ self.table.schema[e.col].narrow
CreateApply ==
    /\ Running({"create as"}) /\ self.pos = Len(Origin)
    /\ Applies([rows |-> self.staged,
                schema |-> [j \in DOMAIN Statement.exprs |-> [nullable |-> TRUE, narrow |-> KeepsNarrow(Statement.exprs[j])]],
                defaults |-> [j \in DOMAIN Statement.exprs |-> Unknown]], Len(self.staged))

\* ALTER TABLE ADD COLUMN [DEFAULT]: one value for every row there is.
AddColumn ==
    LET t == self.table
        c == Statement.column
    IN /\ Running({"add column"})
       /\ \E v \in {IF Statement.default = <<>> THEN Unknown ELSE ValueOf1(Statement.default[1])} :
          IF v = Raised \/ CastFails(v, c) \/ (~c.nullable /\ v = Unknown /\ t.rows # <<>>) THEN Aborts
          ELSE Applies([schema |-> Append(t.schema, c), defaults |-> Append(t.defaults, v),
                        rows |-> [i \in DOMAIN t.rows |-> Append(t.rows[i], v)]], 0)

\* ALTER TABLE DROP COLUMN, but the last one.
DropColumn ==
    LET t == self.table
    IN /\ Running({"drop column"})
       /\ IF Statement.column \notin DOMAIN t.schema \/ Len(t.schema) = 1 THEN Aborts
          ELSE Applies([schema |-> RemoveAt(t.schema, Statement.column), defaults |-> RemoveAt(t.defaults, Statement.column),
                        rows |-> [i \in DOMAIN t.rows |-> RemoveAt(t.rows[i], Statement.column)]], 0)

UnresolvedColumn ==
    /\ plan.op = "statements" /\ self.phase = "statement" /\ Onwards
    /\ self.k <= Len(plan.statements) /\ ~Resolved
    /\ Aborts

StatementsRun ==
    /\ plan.op = "statements" /\ self.k > Len(plan.statements) /\ Onwards /\ Finishes

StatementsNext ==
    \/ InsertValue \/ SelectMissing \/ SelectBatch \/ InsertApply \/ UpdateBatch \/ UpdateApply
    \/ DeleteBatch \/ DeleteApply \/ CreateApply \/ AddColumn \/ DropColumn \/ UnresolvedColumn \/ StatementsRun
----------------------------------------------------------------------------
\* What a statement does, row by row and as a whole.
StoredAs(v, c) ==
    IF v = Raised \/ (c.narrow /\ v = True) \/ (v = Unknown /\ ~c.nullable) THEN Raised ELSE v
Picks(st, row) == IF st.where = <<>> THEN True ELSE Means(st.where[1], row)
SomeRaised(rows) == \E i \in DOMAIN rows : Contains(rows[i], Raised)

Inserted(st, t, values) ==
    [i \in DOMAIN values |-> [c \in DOMAIN t.schema |->
        LET j == {k \in DOMAIN st.cols : st.cols[k] = c}
            v == IF j = {} THEN <<>> ELSE values[i][Min(j)]
        IN StoredAs(IF v = <<>> THEN t.defaults[c] ELSE v[1], t.schema[c])]]
Selected1(st, t) ==
    LET rows == IF st.from = "file" THEN Rows(plan.input.left) ELSE t.rows
    IN [i \in DOMAIN rows |-> [j \in DOMAIN st.exprs |-> <<Means(st.exprs[j], rows[i])>>]]
Updated1(st, t) ==
    [i \in DOMAIN t.rows |->
        CASE Picks(st, t.rows[i]) = Raised -> <<Raised>>
          [] Picks(st, t.rows[i]) = True ->
               [c \in DOMAIN t.schema |->
                   LET j == {k \in DOMAIN st.set : st.set[k][1] = c}
                   IN IF j = {} THEN t.rows[i][c] ELSE StoredAs(Means(st.set[Min(j)][2], t.rows[i]), t.schema[c])]
          [] OTHER -> t.rows[i]]

\* The table after it, and the number of rows it reports; none if it fails.
Outcome(t, count) == [table |-> t, count |-> count]
Effect(st, t) ==
    LET More(rows) == IF SomeRaised(rows) THEN {} ELSE {Outcome([t EXCEPT !.rows = @ \o rows], Len(rows))}
        values == [i \in DOMAIN st.values |-> [j \in DOMAIN st.values[i] |->
                      IF st.values[i][j] = <<>> THEN <<>> ELSE <<Means(st.values[i][j][1], <<>>)>>]]
        got == Selected1(st, t)
        wide == [rows |-> [i \in DOMAIN got |-> [j \in DOMAIN got[i] |-> got[i][j][1]]],
                 schema |-> [j \in DOMAIN st.exprs |->
                     [nullable |-> TRUE,
                      narrow |-> st.from = "table" /\ st.exprs[j].is = "col" /\ t.schema[st.exprs[j].col].narrow]],
                 defaults |-> [j \in DOMAIN st.exprs |-> Unknown]]
        new == Updated1(st, t)
        picked == {i \in DOMAIN t.rows : Picks(st, t.rows[i]) = True}
        added == IF st.default = <<>> THEN Unknown ELSE Means(st.default[1], <<>>)
        full == [st.column EXCEPT !.nullable = @ \/ t.rows = <<>>]
        Without(seq) == RemoveAt(seq, st.column)
        Assignable(cols) == IsInjective(cols) /\ Range(cols) \subseteq DOMAIN t.schema
    IN CASE st.kind = "insert" ->
              IF Assignable(st.cols) /\ \A i \in DOMAIN values : Len(values[i]) = Len(st.cols)
              THEN More(Inserted(st, t, values)) ELSE {}
         [] st.kind = "insert select" ->
              IF Assignable(st.cols) /\ Len(st.exprs) = Len(st.cols) THEN More(Inserted(st, t, got)) ELSE {}
         [] st.kind = "update" ->
              IF SomeRaised(new) \/ ~Assignable([j \in DOMAIN st.set |-> st.set[j][1]]) THEN {}
              ELSE {Outcome([t EXCEPT !.rows = new], Cardinality(picked))}
         [] st.kind = "delete" ->
              IF \E i \in DOMAIN t.rows : Picks(st, t.rows[i]) = Raised THEN {}
              ELSE {Outcome([t EXCEPT !.rows = Where(@, LAMBDA r : Picks(st, r) # True)], Cardinality(picked))}
         [] st.kind = "create as" -> IF SomeRaised(wide.rows) THEN {} ELSE {Outcome(wide, Len(got))}
         [] st.kind = "add column" ->
              IF StoredAs(added, full) = Raised THEN {}
              ELSE {Outcome([schema |-> Append(t.schema, st.column), defaults |-> Append(t.defaults, added),
                             rows |-> [i \in DOMAIN t.rows |-> Append(t.rows[i], added)]], 0)}
         [] st.kind = "drop column" ->
              IF st.column \notin DOMAIN t.schema \/ Len(t.schema) = 1 THEN {}
              ELSE {Outcome([schema |-> Without(t.schema), defaults |-> Without(t.defaults),
                             rows |-> [i \in DOMAIN t.rows |-> Without(t.rows[i])]], 0)}

\* The table and the reports after the statements that have ended.
SoFar ==
    FoldLeft(LAMBDA acc, st :
                 With(Effect(st, acc.table), LAMBDA e :
                   IF e = {} THEN [acc EXCEPT !.reports = Append(@, Refused)]
                   ELSE LET o == CHOOSE o \in e : TRUE
                        IN [table |-> o.table, reports |-> Append(acc.reports, o.count)]),
            [table |-> plan.table, reports |-> <<>>], SubSeq(plan.statements, 1, self.k - 1))
=============================================================================
