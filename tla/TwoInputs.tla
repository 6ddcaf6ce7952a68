----------------------------- MODULE TwoInputs ------------------------------
(* The operators that read two inputs: joins, set operations, recursion.    *)
EXTENDS Operator

-----------------------------------------------------------------------------
(***************************************************************************)
(* Hash join and nested-loop join (exec/join.rs).  The right input is read *)
(* whole into the build side, then the left is probed batch by batch; the  *)
(* pairs of a batch are handed out in chunks of BatchSize.  Row numbers of *)
(* the build side count from 1.  A plan has kind, keyed (equality keys or  *)
(* none) and residual, the set of <<left, right>> ids the rest of the ON   *)
(* condition rejects.                                                      *)
(***************************************************************************)

EmitsUnmatchedLeft == plan.kind \in {"left", "full", "anti", "anti null aware"}
EmitsMatchedLeft == plan.kind = "semi"
LeftOnly == plan.kind \in {"semi", "anti", "anti null aware"}
NullAware == plan.kind = "anti null aware"
EmitsUnmatchedRight == plan.kind \in {"right", "full"}

NoProbe == [batch |-> <<>>, todo |-> <<>>, matched |-> {}, drain |-> 1]
NewJoin == [phase |-> "building", build |-> <<>>, hasNull |-> FALSE, matched |-> {},
            probe |-> NoProbe, drain |-> 1]

\* The build rows a left row is compared with, in order: all of them in a
\* nested loop, else the chain of its key, the row inserted last first.
Candidates(row) ==
    IF ~plan.keyed THEN Positions(Len(self.build))
    ELSE Where(Reverse(Positions(Len(self.build))),
               LAMBDA j : row.key # Null /\ self.build[j].key = row.key)

PairsOf(batch) ==
    Rows([i \in DOMAIN batch |->
            [j \in DOMAIN Candidates(batch[i]) |-> <<i, Candidates(batch[i])[j]>>]])

\* NOT IN: a left row without a key is neither in nor out of a set with rows.
Undecided(batch) ==
    IF NullAware /\ plan.keyed /\ self.build # <<>>
    THEN {i \in DOMAIN batch : batch[i].key = Null} ELSE {}

\* The next positions from `from` on that satisfy P, at most BatchSize.
NextRows(from, to, P(_)) == Taken(Where([k \in 1..(to - from + 1) |-> from + k - 1], P))
After_Again(some, to) == IF Len(some) < BatchSize THEN to + 1 ELSE Last(some)

After(some, to) == IF Len(some) < BatchSize THEN to + 1 ELSE Last(some) + 1

Pair(l, r) == <<l.id, r.id>>

Drained_Kept(some) == [self.probe EXCEPT !.todo = <<>>, !.drain = After(some, Len(self.probe.batch))]

\* The batch after `some` of its left rows were handed out; with none left it is
\* dropped and the next one may be fetched.
Drained(some) ==
    IF some = <<>> THEN NoProbe
    ELSE [self.probe EXCEPT !.todo = <<>>, !.drain = After(some, Len(self.probe.batch))]
----------------------------------------------------------------------------
Builds == At("join", "building")
Probes == At("join", "probing") /\ self.probe = NoProbe

JoinAbsorb ==
    /\ Builds /\ Ready("right")
    /\ Becomes([self EXCEPT !.build = @ \o Delivered("right"),
                            !.hasNull = @ \/ (plan.keyed /\ Null \in Keys(Delivered("right")))])
    /\ Quiet

JoinBuilt ==
    /\ Builds /\ Ended("right")
    /\ Becomes([self EXCEPT !.phase = IF NullAware /\ self.hasNull THEN "done" ELSE "probing"])
    /\ Quiet

JoinFetch ==
    LET b == Delivered("left")
    IN /\ Probes /\ Ready("left")
       /\ Becomes(IF b = <<>> THEN self
                  ELSE [self EXCEPT !.probe = [batch |-> b, todo |-> PairsOf(b),
                                               matched |-> Undecided(b), drain |-> 1]])
       /\ Quiet

JoinLeftEnded ==
    /\ Probes /\ Ended("left")
    /\ Becomes([self EXCEPT !.phase = IF EmitsUnmatchedRight THEN "draining" ELSE "done"])
    /\ Quiet

\* The pairs still to be looked at: SEMI and ANTI leave a row at its first match.
Todo == Where(self.probe.todo, LAMBDA p : ~(LeftOnly /\ p[1] \in self.probe.matched))
Matching(p) == Pair(self.probe.batch[p[1]], self.build[p[2]]) \notin plan.residual

JoinPairs ==
    LET kept == Where(Taken(Todo), Matching)
        out == [i \in DOMAIN kept |-> Pair(self.probe.batch[kept[i][1]], self.build[kept[i][2]])]
    IN /\ At("join", "probing") /\ self.probe # NoProbe /\ Todo # <<>> /\ Onwards
       /\ Becomes([self EXCEPT !.probe.todo = Beyond(Todo),
                               !.probe.matched = @ \cup {p[1] : p \in Range(kept)},
                               !.matched = IF EmitsUnmatchedRight
                                           THEN @ \cup {p[2] : p \in Range(kept)} ELSE @])
       /\ IF LeftOnly THEN Quiet ELSE HandsSome(out)

\* The left rows themselves: the unmatched ones, extended with NULLs or bare,
\* or the matched ones.
JoinLeftRows ==
    LET probe == self.probe
        some == IF EmitsUnmatchedLeft \/ EmitsMatchedLeft
                THEN NextRows(probe.drain, Len(probe.batch),
                              LAMBDA i : (i \in probe.matched) = EmitsMatchedLeft)
                ELSE <<>>
    IN /\ At("join", "probing") /\ probe # NoProbe /\ Todo = <<>> /\ Onwards
       /\ Becomes([self EXCEPT !.probe = Drained(some)])
       /\ HandsSome([i \in DOMAIN some |-> Pair(probe.batch[some[i]], NoRow)])

JoinDrain ==
    LET some == NextRows(self.drain, Len(self.build), LAMBDA j : j \notin self.matched)
    IN /\ At("join", "draining") /\ Onwards
       /\ Becomes(IF some = <<>> THEN [self EXCEPT !.phase = "done"]
                  ELSE [self EXCEPT !.drain = After(some, Len(self.build))])
       /\ HandsSome([i \in DOMAIN some |-> Pair(NoRow, self.build[some[i]])])

JoinDone == At("join", "done") /\ Onwards /\ Finishes

JoinInterrupted == (Builds \/ Probes) /\ Interrupted

JoinNext == \/ JoinAbsorb \/ JoinBuilt \/ JoinFetch \/ JoinLeftEnded
            \/ JoinPairs \/ JoinLeftRows \/ JoinDrain \/ JoinDone \/ JoinInterrupted
----------------------------------------------------------------------------
LeftRows == Range(Rows(plan.input["left"]))
RightRows == Range(Rows(plan.input["right"]))

\* What the SQL join of that kind returns, each pair of ids once.
Joined ==
    LET Matches(l, r) == /\ plan.keyed => l.key # Null /\ l.key = r.key
                         /\ Pair(l, r) \notin plan.residual
        inner == {Pair(l, r) : <<l, r>> \in {x \in LeftRows \X RightRows : Matches(x[1], x[2])}}
        lonely == {l \in LeftRows : \A r \in RightRows : ~Matches(l, r)}
        unused == {r \in RightRows : \A l \in LeftRows : ~Matches(l, r)}
        outside == {l \in lonely : RightRows = {} \/ (l.key # Null /\ \A r \in RightRows : r.key # Null)}
        Bare(rows) == {Pair(l, NoRow) : l \in rows}
    IN CASE plan.kind = "inner" -> inner
         [] plan.kind = "left" -> inner \cup Bare(lonely)
         [] plan.kind = "right" -> inner \cup {Pair(NoRow, r) : r \in unused}
         [] plan.kind = "full" -> inner \cup Bare(lonely) \cup {Pair(NoRow, r) : r \in unused}
         [] plan.kind = "semi" -> Bare(LeftRows \ lonely)
         [] plan.kind = "anti" -> Bare(lonely)
         [] plan.kind = "anti null aware" -> Bare(outside)

-----------------------------------------------------------------------------
(***************************************************************************)
(* UNION, INTERSECT and EXCEPT, ALL or not (exec/setop.rs).  INTERSECT and *)
(* EXCEPT read the right input first and count its rows; everything else   *)
(* streams.  A row is its key, and NULL is equal to NULL.                  *)
(***************************************************************************)

NewSetOp(p) == [phase |-> IF p.kind = "union" THEN "left" ELSE "building",
                counts |-> [k \in {} |-> 0], seen |-> {}]

OnRight(s, k) == k \in DOMAIN s.counts
Unused(s, k) == IF OnRight(s, k) THEN s.counts[k] ELSE 0
Plus(counts, k) ==
    [x \in DOMAIN counts \cup {k} |-> (IF x \in DOMAIN counts THEN counts[x] ELSE 0)
                                       + (IF x = k THEN 1 ELSE 0)]

\* keep: whether a row qualifies, and what remains of the right's rows.
Qualifies(s, k) ==
    CASE plan.kind = "union" -> TRUE
      [] plan.kind = "intersect" -> IF plan.all THEN Unused(s, k) > 0 ELSE OnRight(s, k)
      [] plan.kind = "except" -> IF plan.all THEN Unused(s, k) = 0 ELSE ~OnRight(s, k)
Keeps(s, k) == Qualifies(s, k) /\ (plan.all \/ k \notin s.seen)
Uses(s, k) == plan.kind # "union" /\ plan.all /\ Unused(s, k) > 0

\* The state after one row, with the rows kept so far.
Filtered(acc, row) ==
    LET s == acc.state
    IN [kept |-> IF Keeps(s, row.key) THEN Append(acc.kept, row) ELSE acc.kept,
        state |-> [s EXCEPT !.counts = IF Uses(s, row.key)
                                       THEN [@ EXCEPT ![row.key] = @ - 1] ELSE @,
                            !.seen = IF ~plan.all /\ Qualifies(s, row.key)
                                     THEN @ \cup {row.key} ELSE @]]
Through(b) == FoldLeft(Filtered, [kept |-> <<>>, state |-> self], b)
----------------------------------------------------------------------------
SetOpAbsorb ==
    /\ At("set", "building") /\ Ready("right")
    /\ Becomes([self EXCEPT !.counts =
                  FoldLeft(LAMBDA c, r : Plus(c, r.key), @, Delivered("right"))])
    /\ Quiet

SetOpBuilt == /\ At("set", "building") /\ Ended("right")
              /\ Becomes([self EXCEPT !.phase = "left"]) /\ Quiet

Passes(side) == LET done == Through(Delivered(side))
                IN Ready(side) /\ Becomes(done.state) /\ HandsSome(done.kept)

SetOpLeft == At("set", "left") /\ Passes("left")
SetOpRight == At("set", "right") /\ Passes("right")

SetOpLeftEnded == /\ At("set", "left") /\ Ended("left")
                  /\ Becomes([self EXCEPT !.phase = IF plan.kind = "union" THEN "right" ELSE "done"])
                  /\ Quiet

SetOpRightEnded == /\ At("set", "right") /\ Ended("right")
                   /\ Becomes([self EXCEPT !.phase = "done"]) /\ Quiet

SetOpDone == At("set", "done") /\ Onwards /\ Finishes

SetOpInterrupted == plan.op = "set" /\ ~At("set", "done") /\ Interrupted

SetOpNext == \/ SetOpAbsorb \/ SetOpBuilt \/ SetOpLeft \/ SetOpRight
             \/ SetOpLeftEnded \/ SetOpRightEnded \/ SetOpDone \/ SetOpInterrupted
----------------------------------------------------------------------------
\* Of k equal rows on the left and m on the right UNION ALL returns k + m,
\* INTERSECT ALL the first min(k, m) and EXCEPT ALL all but the first m; without
\* ALL the first one stands for all of them.
SetOpAnswer ==
    LET rows == Rows(plan.input["left"])
                \o (IF plan.kind = "union" THEN Rows(plan.input["right"]) ELSE <<>>)
        Onright(i) == Len(Where(Rows(plan.input["right"]), LAMBDA r : r.key = rows[i].key))
        Nth(i) == Cardinality({j \in 1..i : rows[j].key = rows[i].key})
        In(i) == CASE plan.kind = "union" -> plan.all \/ Nth(i) = 1
                   [] plan.kind = "intersect" -> IF plan.all THEN Nth(i) <= Onright(i)
                                                 ELSE Onright(i) > 0 /\ Nth(i) = 1
                   [] plan.kind = "except" -> IF plan.all THEN Nth(i) > Onright(i)
                                              ELSE Onright(i) = 0 /\ Nth(i) = 1
        idx == Where(Positions(Len(rows)), In)
    IN [i \in DOMAIN idx |-> rows[idx[i]]]

-----------------------------------------------------------------------------
(***************************************************************************)
(* WITH RECURSIVE (exec/recursive.rs): the anchor is read and handed on,   *)
(* then the recursive term runs over the rows that were new in the round   *)
(* before, until a round adds none or there were too many rounds.  The     *)
(* term of a plan gives for each row its successors, as a join of the      *)
(* working table with the edges of a graph does; a row is its key.         *)
(***************************************************************************)

NewRecursive == [phase |-> "anchor", working |-> <<>>, nextWorking |-> <<>>,
                 term |-> <<>>, seen |-> {}, iterations |-> 0]

\* The operator tree of a round delivers the successors of each batch of the
\* working table, and the end.
TermOf(batches) ==
    [i \in DOMAIN batches |-> FlattenSeq([j \in DOMAIN batches[i] |-> plan.edges[batches[i][j]]])]

FreshAt_AcrossBatches(keys) ==
    SelectSeq(Positions(Len(keys)), LAMBDA i : plan.all \/ keys[i] \notin self.seen)

\* process: UNION drops what was seen before, also within the batch.
FreshAt(keys) ==
    SelectSeq(Positions(Len(keys)),
              LAMBDA i : plan.all \/ (keys[i] \notin self.seen /\ \A j \in 1..(i - 1) : keys[j] # keys[i]))
Fresh(keys) == [i \in DOMAIN FreshAt(keys) |-> keys[FreshAt(keys)[i]]]

Processed(s, keys) ==
    LET out == Fresh(keys)
    IN [s EXCEPT !.seen = IF plan.all THEN @ ELSE @ \cup Range(keys),
                 !.nextWorking = IF out = <<>> THEN @ ELSE Append(@, out)]

\* begin_iteration
BeginIteration ==
    IF self.nextWorking # <<>> /\ self.iterations = plan.maxIterations
    THEN Fails
    ELSE /\ Becomes([self EXCEPT
                       !.working = self.nextWorking, !.nextWorking = <<>>,
                       !.term = TermOf(self.nextWorking),
                       !.iterations = IF self.nextWorking = <<>> THEN @ ELSE @ + 1,
                       !.phase = IF self.nextWorking = <<>> THEN "done" ELSE "iterate"])
         /\ Quiet
----------------------------------------------------------------------------
AnchorBatch ==
    LET keys == [i \in DOMAIN Delivered("left") |-> Delivered("left")[i].key]
    IN /\ At("recursive", "anchor") /\ Ready("left")
       /\ Becomes(Processed(self, keys)) /\ HandsSome(Fresh(keys))

AnchorEnded == At("recursive", "anchor") /\ Ended("left") /\ BeginIteration

RoundBatch ==
    /\ At("recursive", "iterate") /\ self.term # <<>> /\ status = "running"
    /\ waiting' = FALSE /\ Turns /\ UNCHANGED <<plan, pulled>>
    /\ Becomes([Processed(self, Head(self.term)) EXCEPT !.term = Tail(@)])
    /\ HandsSome(Fresh(Head(self.term)))

RoundEnded ==
    /\ At("recursive", "iterate") /\ self.term = <<>> /\ status = "running"
    /\ waiting' = FALSE /\ Turns /\ UNCHANGED <<plan, pulled>>
    /\ BeginIteration

RecursiveDone == At("recursive", "done") /\ Onwards /\ Finishes

RecursiveInterrupted == plan.op = "recursive" /\ ~At("recursive", "done") /\ Interrupted

RecursiveNext == \/ AnchorBatch \/ AnchorEnded \/ RoundBatch \/ RoundEnded
                 \/ RecursiveDone \/ RecursiveInterrupted
----------------------------------------------------------------------------
\* The rows of round n, without the machinery of batches and tables: UNION ALL
\* has one for each path of n edges, UNION those at distance n.
Anchors == [i \in DOMAIN Rows(plan.input["left"]) |-> Rows(plan.input["left"])[i].key]
Successors(keys) == Rows([i \in DOMAIN keys |-> plan.edges[keys[i]]])
Paths[n \in 0..(plan.maxIterations + 1)] ==
    IF n = 0 THEN Anchors ELSE Successors(Paths[n - 1])
Reached(n) == UNION {Range(Paths[m]) : m \in 0..n}

\* How often a key is returned, and whether the rounds are too many.
Multiplicity(k) ==
    IF plan.all
    THEN FoldFunction(+, 0, [n \in 0..plan.maxIterations |-> Len(Where(Paths[n], LAMBDA x : x = k))])
    ELSE IF k \in Reached(plan.maxIterations) THEN 1 ELSE 0
TooManyRounds ==
    IF plan.all THEN Paths[plan.maxIterations] # <<>>
    ELSE Range(Paths[plan.maxIterations]) \ Reached(plan.maxIterations - 1) # {}
=============================================================================
