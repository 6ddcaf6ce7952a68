------------------------------- MODULE Answers -------------------------------
(***************************************************************************)
(* What running several statements over shared files promises, whatever    *)
(* is fetched, cached or thrown away below: each statement returns the     *)
(* rows of its own answer, in order, each once, and ends.                  *)
(***************************************************************************)
EXTENDS Integers, Sequences

CONSTANTS Statements,
          Reply,       \* s |-> its rows, in file order
          Streams,      \* statements that return rows as they go
          MayFail       \* statements the program cannot run

VARIABLES returned,     \* s |-> the rows returned so far
          status        \* s |-> idle, running, ended, abandoned

stream == <<returned, status>>

Begin(s) == /\ status[s] = "idle"
            /\ status' = [status EXCEPT ![s] = "running"]
            /\ UNCHANGED returned

Return(s) == /\ s \in Streams /\ status[s] = "running"
             /\ Len(returned[s]) < Len(Reply[s])
             /\ returned' = [returned EXCEPT ![s] = SubSeq(Reply[s], 1, Len(@) + 1)]
             /\ UNCHANGED status

\* All of it, and nothing before, for a statement that is not a stream.
Finish(s) == /\ status[s] \in {"idle", "running"}
             /\ s \in Streams => returned[s] = Reply[s]
             /\ returned' = [returned EXCEPT ![s] = Reply[s]]
             /\ status' = [status EXCEPT ![s] = "ended"]

Fail(s) == /\ s \in MayFail /\ status[s] \in {"idle", "running"}
           /\ status' = [status EXCEPT ![s] = "ended"]
           /\ UNCHANGED returned

\* Its text is no statement: it is told so before anything runs.
Reject(s) == /\ status[s] = "idle"
             /\ status' = [status EXCEPT ![s] = "ended"]
             /\ UNCHANGED returned

Abandon(s) == /\ status[s] = "running" /\ s \in Streams
              /\ status' = [status EXCEPT ![s] = "abandoned"]
              /\ UNCHANGED returned

Init == /\ returned = [s \in Statements |-> <<>>]
        /\ status = [s \in Statements |-> "idle"]

Run(s) == Return(s) \/ Finish(s) \/ Fail(s)

Next == \E s \in Statements : Begin(s) \/ Reject(s) \/ Run(s) \/ Abandon(s)

Spec == /\ Init /\ [][Next]_stream
        /\ WF_stream(\E s \in Statements : status[s] = "running" /\ Run(s))
=============================================================================
