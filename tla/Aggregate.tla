----------------------------- MODULE Aggregate -----------------------------
(***************************************************************************)
(* Hash aggregation (exec/agg.rs), one aggregate per plan: the kind, its   *)
(* DISTINCT, the rows its FILTER leaves out, whether there is a GROUP BY,  *)
(* and the results HAVING rejects.  A row has the key of its group (NULLs  *)
(* are one group), the value aggregated and, for ARG_MIN, the value that   *)
(* orders; Null stands for NULL in each.  A result is <<>> for NULL.       *)
(***************************************************************************)
EXTENDS Operator

NewAggregate == [phase |-> "building", groups |-> <<>>, states |-> <<>>, emitted |-> 0]

\* State::empty with the group's share of the DISTINCT and MODE tables.
Empty == [n |-> 0, acc |-> <<>>, ord |-> Null, seen |-> {}, votes |-> <<>>, best |-> 0]

Yes == 2                 \* the value that is true, for COUNT_IF

GroupOf(row) == IF plan.grouped THEN row.key ELSE Null

\* NULL arguments are skipped, but by COUNT(*) and ARRAY_AGG.
Considers(row) ==
    /\ row.id \notin plan.filteredOut
    /\ plan.kind \notin {"count star", "array_agg"} => row.val # Null
    /\ plan.kind = "arg_min" => row.ord # Null

Voted_FirstToLead(st, v) ==
    LET slot == IF \E i \in DOMAIN st.votes : st.votes[i].val = v
                THEN CHOOSE i \in DOMAIN st.votes : st.votes[i].val = v
                ELSE Len(st.votes) + 1
        votes == IF slot \in DOMAIN st.votes THEN [st.votes EXCEPT ![slot].n = @ + 1]
                 ELSE Append(st.votes, [val |-> v, n |-> 1])
        top == IF st.best = 0 THEN 0 ELSE st.votes[st.best].n
    IN [st EXCEPT !.votes = votes,
                  !.best = IF votes[slot].n > top
                           THEN slot ELSE @]

\* update, MODE: on a tie the value seen first wins, wherever it gets its votes.
Voted(st, v) ==
    LET slot == IF \E i \in DOMAIN st.votes : st.votes[i].val = v
                THEN CHOOSE i \in DOMAIN st.votes : st.votes[i].val = v
                ELSE Len(st.votes) + 1
        votes == IF slot \in DOMAIN st.votes THEN [st.votes EXCEPT ![slot].n = @ + 1]
                 ELSE Append(st.votes, [val |-> v, n |-> 1])
        top == IF st.best = 0 THEN 0 ELSE st.votes[st.best].n
    IN [st EXCEPT !.votes = votes,
                  !.best = IF votes[slot].n > top \/ (votes[slot].n = top /\ slot < @)
                           THEN slot ELSE @]

\* update: one value folded into the state of its group.
Updated(st, row) ==
    LET v == row.val
        So(x) == [st EXCEPT !.n = @ + 1, !.seen = @ \cup {v}, !.acc = x]
        some == st.acc # <<>>
    IN CASE plan.kind \in {"count star", "count"} -> So(<<>>)
         [] plan.kind = "sum" -> So(<<(IF some THEN st.acc[1] ELSE 0) + v>>)
         [] plan.kind = "count_if" ->
              So(<<(IF some THEN st.acc[1] ELSE 0) + (IF v = Yes THEN 1 ELSE 0)>>)
         [] plan.kind = "min" -> So(IF some /\ st.acc[1] <= v THEN st.acc ELSE <<v>>)
         [] plan.kind = "any_value" -> So(IF some THEN st.acc ELSE <<v>>)
         [] plan.kind = "last" -> So(<<v>>)
         [] plan.kind = "array_agg" -> So(Append(st.acc, v))
         [] plan.kind = "arg_min" ->
              IF st.ord = Null \/ row.ord < st.ord
              THEN [So(<<v>>) EXCEPT !.ord = row.ord] ELSE So(st.acc)
         [] plan.kind = "mode" -> Voted(So(<<>>), v)

\* consume, for one row; a group is known from its first row on, whatever the
\* FILTER says of it.
Consumed(s, row) ==
    LET known == \E g \in DOMAIN s.groups : s.groups[g] = GroupOf(row)
        groups == IF known THEN s.groups ELSE Append(s.groups, GroupOf(row))
        states == IF known THEN s.states ELSE Append(s.states, Empty)
        g == CHOOSE i \in DOMAIN groups : groups[i] = GroupOf(row)
        repeated == plan.distinct /\ row.val \in states[g].seen
    IN [s EXCEPT !.groups = groups,
                 !.states = IF Considers(row) /\ ~repeated
                            THEN [states EXCEPT ![g] = Updated(@, row)] ELSE states]

\* push_result
ResultOf(st) ==
    CASE plan.kind \in {"count star", "count"} -> <<st.n>>
      [] plan.kind = "mode" -> IF st.best = 0 THEN <<>> ELSE <<st.votes[st.best].val>>
      [] OTHER -> st.acc
----------------------------------------------------------------------------
AggregateAbsorb ==
    /\ At("aggregate", "building") /\ Ready("left")
    /\ Becomes(FoldLeft(Consumed, self, Delivered("left"))) /\ Quiet

\* Without GROUP BY there is one group even if there are no rows.
AggregateBuilt ==
    /\ At("aggregate", "building") /\ Ended("left") /\ Quiet
    /\ Becomes(IF ~plan.grouped /\ self.groups = <<>>
               THEN [self EXCEPT !.phase = "emitting", !.groups = <<Null>>, !.states = <<Empty>>]
               ELSE [self EXCEPT !.phase = "emitting"])

\* A batch of groups all of which HAVING rejects is not handed out.
AggregateEmit ==
    LET upto == Min({self.emitted + BatchSize, Len(self.groups)})
        some == [i \in 1..(upto - self.emitted) |->
                   <<self.groups[self.emitted + i], ResultOf(self.states[self.emitted + i])>>]
    IN /\ At("aggregate", "emitting") /\ Onwards
       /\ Becomes(IF some = <<>> THEN [self EXCEPT !.phase = "done"]
                  ELSE [self EXCEPT !.emitted = upto])
       /\ HandsSome(Where(some, LAMBDA r : r[2] \notin plan.rejects))

AggregateDone == At("aggregate", "done") /\ Onwards /\ Finishes

AggregateInterrupted == At("aggregate", "building") /\ Interrupted

AggregateNext == \/ AggregateAbsorb \/ AggregateBuilt \/ AggregateEmit
                 \/ AggregateDone \/ AggregateInterrupted
----------------------------------------------------------------------------
\* The same in terms of the whole input: the groups by their first row, and of
\* each the values it aggregates, in order.
AggregateAnswer ==
    LET rows == Rows(plan.input["left"])
        firsts == Where(Positions(Len(rows)),
                        LAMBDA i : \A j \in 1..(i - 1) : GroupOf(rows[j]) # GroupOf(rows[i]))
        groups == IF rows = <<>> /\ ~plan.grouped THEN <<Null>>
                  ELSE [i \in DOMAIN firsts |-> GroupOf(rows[firsts[i]])]
        Of(g) == LET mine == Where(rows, LAMBDA r : GroupOf(r) = g /\ Considers(r))
                     idx == Where(Positions(Len(mine)),
                              LAMBDA i : plan.distinct =>
                                \A j \in 1..(i - 1) : mine[j].val # mine[i].val)
                 IN [i \in DOMAIN idx |-> mine[idx[i]]]
        Times(vs, v) == Cardinality({i \in DOMAIN vs : vs[i] = v})
        Best(rs) == CHOOSE i \in DOMAIN rs :
                      /\ \A j \in DOMAIN rs : rs[i].ord <= rs[j].ord
                      /\ \A j \in 1..(i - 1) : rs[i].ord < rs[j].ord
        Elected(vs) == CHOOSE i \in DOMAIN vs :
                         /\ \A j \in DOMAIN vs : Times(vs, vs[j]) <= Times(vs, vs[i])
                         /\ \A j \in 1..(i - 1) : Times(vs, vs[j]) < Times(vs, vs[i])
        Answer(rs) ==
          LET vs == [i \in DOMAIN rs |-> rs[i].val]
          IN IF plan.kind \in {"count star", "count"} THEN <<Len(vs)>>
             ELSE IF vs = <<>> THEN <<>>
             ELSE CASE
                  plan.kind = "sum" -> <<FoldLeft(LAMBDA a, v : a + v, 0, vs)>>
               [] plan.kind = "count_if" -> <<Times(vs, Yes)>>
               [] plan.kind = "min" -> <<Min(Range(vs))>>
               [] plan.kind = "any_value" -> <<vs[1]>>
               [] plan.kind = "last" -> <<Last(vs)>>
               [] plan.kind = "array_agg" -> vs
               [] plan.kind = "arg_min" -> <<rs[Best(rs)].val>>
               [] plan.kind = "mode" -> <<vs[Elected(vs)]>>
    IN Where([i \in DOMAIN groups |-> <<groups[i], Answer(Of(groups[i]))>>],
             LAMBDA r : r[2] \notin plan.rejects)
=============================================================================
