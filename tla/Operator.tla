------------------------------ MODULE Operator ------------------------------
(***************************************************************************)
(* The pull protocol of the physical operators (exec/mod.rs, Operator and  *)
(* Step).  A call of next() pulls batches from the operator's inputs until *)
(* it has one to return; an input may answer that bytes or a page are      *)
(* missing, and then the call returns that and is made again later.        *)
(*                                                                         *)
(* A step of the model goes from one pull to the next, or hands out one    *)
(* batch.  What an operator keeps in a step is `self`; what a call of      *)
(* next() keeps in local variables does not outlive the step.              *)
(***************************************************************************)
EXTENDS Integers, Sequences, SequencesExt, FiniteSetsExt

CONSTANTS BatchSize,     \* BATCH_SIZE
          Plans          \* sets of operators to run: [op, input, ...], input by side

ASSUME OperatorAssumption == BatchSize \in Nat \ {0}

VARIABLES plan,          \* the operator, its parameters and its inputs' batches
          pulled,        \* side |-> how many batches it has delivered
          waiting,       \* the last pull was answered with NEED_IO or NEED_CODEC
          self,          \* the state of the operator
          returned,      \* the batches handed out, in order
          status,        \* running, done, failed
          beat           \* turns with every step of an operator, so that one
                         \* that spins is told from one that is not called

vars == <<plan, pulled, waiting, self, returned, status, beat>>
Turns == beat' = ~beat

\* Use(value), a name given to a value that Use mentions more than once.
With(value, Use(_)) == Use(value)

Null == 0                \* a key is Null or positive; an id tells rows apart
Sides == {"left", "right"}
NoRow == [key |-> Null, id |-> 0]

Rows(batches) == FlattenSeq(batches)
Taken(rows) == SubSeq(rows, 1, IF Len(rows) < BatchSize THEN Len(rows) ELSE BatchSize)
Beyond(rows) == SubSeq(rows, BatchSize + 1, Len(rows))
Positions(n) == [i \in 1..n |-> i]
Keys(rows) == {rows[i].key : i \in DOMAIN rows}
Ids(rows) == [i \in DOMAIN rows |-> rows[i].id]
Where(rows, P(_)) == SelectSeq(rows, P)

Start(p, s) == /\ plan = p /\ self = s
               /\ pulled = [side \in Sides |-> 0]
               /\ waiting = FALSE /\ returned = <<>> /\ status = "running"
               /\ beat = FALSE
----------------------------------------------------------------------------
\* What the input answers to a pull: a batch, the end, or an interruption.
Delivered(side) == plan.input[side][pulled[side] + 1]

Ready(side) ==
    /\ status = "running"
    /\ pulled[side] < Len(plan.input[side])
    /\ pulled' = [pulled EXCEPT ![side] = @ + 1]
    /\ waiting' = FALSE /\ Turns
    /\ UNCHANGED plan

Ended(side) ==
    /\ status = "running"
    /\ pulled[side] = Len(plan.input[side])
    /\ waiting' = FALSE /\ Turns
    /\ UNCHANGED <<plan, pulled>>

\* The call returns the interruption as it is; self survives, and the call
\* is repeated when the host has provided what was asked for.
Interrupted ==
    /\ status = "running" /\ ~waiting
    /\ waiting' = TRUE
    /\ UNCHANGED <<plan, pulled, self, returned, status, beat>>

\* A step that pulls nothing.
Onwards == status = "running" /\ Turns /\ UNCHANGED <<plan, pulled, waiting>>

At(op, phase) == plan.op = op /\ self.phase = phase
Becomes(s) == self' = s /\ UNCHANGED status
Quiet == UNCHANGED returned
Hands(rows) == returned' = Append(returned, rows)
\* An empty batch is not handed out, the next one is pulled.
HandsSome(rows) == IF rows = <<>> THEN Quiet ELSE Hands(rows)
Finishes == status' = "done" /\ UNCHANGED <<self, returned>>
Fails == status' = "failed" /\ UNCHANGED <<self, returned>>
=============================================================================
