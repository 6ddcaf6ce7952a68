-------------------------------- MODULE Host --------------------------------
(***************************************************************************)
(* The life of runs in the JS host (ahirudb.js): query() and stream() are  *)
(* generators that share one wasm session behind an async lock and suspend *)
(* at every await and yield; close() may land at any of those points, and  *)
(* a wasm call may trap.                                                   *)
(*                                                                         *)
(* A step runs from one suspension point to the next.  What a source, the  *)
(* codec, the onCopy handler or the consumer does in between is a delay.   *)
(***************************************************************************)
EXTENDS Integers, Sequences

CONSTANTS Runs,          \* calls of query() and stream(), each made once
          NoRun,
          MaxSuspends    \* bound: how often a run suspends once it is open

ASSUME HostAssumption == NoRun \notin Runs /\ MaxSuspends \in Nat

VARIABLES closed, dead,
          trapped,       \* the engine is lost until it is replaced
          freed,         \* #sessionFreed
          queue,         \* #sessionLock: who asked for the lock and has it not back
          pc,            \* the suspension point of each run
          handle,        \* run.q >= 0
          aborted, finished,       \* run.aborted, run.finished
          currentRun, activeRuns,
          open,          \* runs whose query occupies a slot of the engine
          out,           \* the run that the engine's out buffer belongs to
          suspends,
          lostCall       \* a wasm call was made on a freed or lost session

vars == <<closed, dead, trapped, freed, queue, pc, handle, aborted, finished, currentRun,
          activeRuns, open, out, suspends, lostCall>>
run == <<handle, aborted, finished, currentRun, activeRuns, queue>>

Init == /\ closed = FALSE /\ dead = FALSE /\ trapped = FALSE /\ freed = FALSE
        /\ queue = <<>>
        /\ pc = [r \in Runs |-> "idle"]
        /\ handle = [r \in Runs |-> FALSE]
        /\ aborted = [r \in Runs |-> FALSE] /\ finished = [r \in Runs |-> FALSE]
        /\ currentRun = NoRun /\ activeRuns = 0
        /\ open = {} /\ out = NoRun
        /\ suspends = [r \in Runs |-> 0]
        /\ lostCall = FALSE

Goto(r, point) == pc' = [pc EXCEPT ![r] = point]

\* Whatever the call, it must find the session alive.
Calls == lostCall' = (lostCall \/ freed \/ trapped)
----------------------------------------------------------------------------
Finish_InnerRelease(r, isClosed) ==
    IF finished[r] THEN UNCHANGED <<finished, currentRun, activeRuns, queue, freed>>
    ELSE /\ finished' = [finished EXCEPT ![r] = TRUE]
         /\ currentRun' = IF currentRun = r THEN NoRun ELSE currentRun
         /\ activeRuns' = activeRuns - 1
         /\ queue' = IF handle[r] THEN Tail(queue) ELSE queue
         /\ freed' = (freed \/ (isClosed /\ activeRuns = 1))

\* run.finish: whoever gets there first, the run or close(), hands the lock on
\* and, when the database is closed, frees the session.
Finish(r, isClosed) ==
    IF finished[r] THEN UNCHANGED <<finished, currentRun, activeRuns, queue, freed>>
    ELSE /\ finished' = [finished EXCEPT ![r] = TRUE]
         /\ currentRun' = IF currentRun = r THEN NoRun ELSE currentRun
         /\ activeRuns' = activeRuns - 1
         /\ queue' = Tail(queue)
         /\ freed' = (freed \/ (isClosed /\ activeRuns = 1))

CloseQuery_DoneOnly(r) ==
    IF handle[r] /\ ~aborted[r] /\ ~trapped /\ pc[r] # "parked"
    THEN /\ open' = open \ {r}
         /\ handle' = [handle EXCEPT ![r] = FALSE]
         /\ Calls
    ELSE UNCHANGED <<open, handle, lostCall>>

\* The inner finally: close() may have closed the query already, and a trapped
\* engine is never called again.
CloseQuery(r) ==
    IF handle[r] /\ ~aborted[r] /\ ~trapped
    THEN /\ open' = open \ {r}
         /\ handle' = [handle EXCEPT ![r] = FALSE]
         /\ Calls
    ELSE UNCHANGED <<open, handle, lostCall>>

\* A wasm call of r traps: the instance is lost, and the database dead when SQL
\* had created something (Registry follows what is lost).
Traps(r) == /\ trapped' = TRUE
            /\ dead' \in BOOLEAN

\* ahiru_query_close traps, where the inner finally calls it.
CloseQueryTraps(r) ==
    /\ handle[r] /\ ~aborted[r] /\ ~trapped
    /\ handle' = [handle EXCEPT ![r] = FALSE]
    /\ Calls /\ Traps(r) /\ UNCHANGED open

\* The run returns or throws after its query was opened.
Unwind(r) == /\ Goto(r, "ended")
             /\ \/ CloseQuery(r) /\ UNCHANGED <<dead, trapped>>
                \/ CloseQueryTraps(r)
             /\ Finish(r, closed)
             /\ UNCHANGED <<closed, aborted, out, suspends>>

\* The run throws before its handle was recorded.
Abandon(r) == /\ Goto(r, "ended")
              /\ Finish(r, closed)
              /\ UNCHANGED <<closed, handle, aborted, open, out, suspends>>
----------------------------------------------------------------------------
\* A run that finds the engine alive goes from the lock to query_start without
\* suspending.
NothingElseRuns == \A r \in Runs : pc[r] # "entered"

\* query() or stream() is called and asks for the lock.
Call(r) ==
    /\ pc[r] = "idle" /\ ~closed /\ ~dead /\ NothingElseRuns
    /\ Goto(r, "queued")
    /\ queue' = Append(queue, r)
    /\ UNCHANGED <<closed, dead, trapped, freed, handle, aborted, finished, currentRun,
                   activeRuns, open, out, suspends, lostCall>>

HasLock_Barging(r) == \E i \in DOMAIN queue : queue[i] = r

HasLock(r) == Head(queue) = r

\* #start: query_start opens the query, asks for bytes or paths (answered by
\* awaiting), fails, or traps.
StartQuery(r) ==
    \/ /\ Goto(r, "opened")
       /\ open' = open \cup {r} /\ out' = r
       /\ Calls
       /\ UNCHANGED <<dead, handle, aborted, suspends>>
    \/ /\ suspends[r] < MaxSuspends
       /\ suspends' = [suspends EXCEPT ![r] = @ + 1]
       /\ Goto(r, "starting")
       /\ out' = r /\ Calls
       /\ UNCHANGED <<dead, handle, aborted, open>>

StartFails(r) ==
    /\ Abandon(r) /\ Calls
    /\ \/ UNCHANGED <<dead, trapped>>
       \/ Traps(r)

\* The run gets the lock: it ends at once if the database was closed or died
\* meanwhile, awaits a new engine if the old one is lost, and starts otherwise.
Enter(r) ==
    /\ pc[r] = "queued" /\ HasLock(r)
    /\ IF closed \/ dead
       THEN /\ Goto(r, "ended")
            /\ finished' = [finished EXCEPT ![r] = TRUE]
            /\ queue' = Tail(queue)
            /\ UNCHANGED <<closed, dead, trapped, freed, handle, aborted, currentRun,
                           activeRuns, open, out, suspends, lostCall>>
       ELSE /\ Goto(r, IF trapped THEN "replacing" ELSE "entered")
            /\ currentRun' = r /\ activeRuns' = activeRuns + 1
            /\ UNCHANGED <<closed, dead, trapped, freed, queue, handle, aborted, finished,
                           open, out, suspends, lostCall>>

\* #replaceInstance, after its await: the closed check comes before the new
\* session is bound.  The run ends, the engine still lost, when the module is not
\* instantiated or opens no session.
Replace(r) ==
    /\ pc[r] = "replacing"
    /\ \/ Abandon(r) /\ UNCHANGED <<dead, trapped, lostCall>>
       \/ /\ ~closed
          /\ Goto(r, "replaced")
          /\ trapped' = FALSE /\ freed' = FALSE /\ open' = {}
          /\ UNCHANGED <<closed, dead, run, out, suspends, lostCall>>

\* The registrations queued meanwhile are declared and the query is started.
Started(r) ==
    /\ pc[r] \in {"entered", "replaced"}
    /\ IF closed
       THEN Abandon(r) /\ UNCHANGED <<dead, trapped, lostCall>>
       ELSE \/ StartQuery(r)
               /\ UNCHANGED <<closed, trapped, freed, finished, currentRun, activeRuns, queue>>
            \/ StartFails(r)

StartResumed_Unchecked(r) ==
    /\ pc[r] = "starting"
    /\ \/ StartQuery(r)
          /\ UNCHANGED <<closed, trapped, freed, finished, currentRun, activeRuns, queue>>
       \/ StartFails(r)

\* An await of #start resumes.
StartResumed(r) ==
    /\ pc[r] = "starting"
    /\ IF closed
       THEN Abandon(r) /\ UNCHANGED <<dead, trapped, lostCall>>
       ELSE \/ StartQuery(r)
               /\ UNCHANGED <<closed, trapped, freed, finished, currentRun, activeRuns, queue>>
            \/ StartFails(r)

\* query_step yields a batch, asks for bytes or a codec, or ends the run: it
\* is done, it fails or it traps, then or in query_close.
StepQuery(r) ==
    \/ /\ suspends[r] < MaxSuspends
       /\ suspends' = [suspends EXCEPT ![r] = @ + 1]
       /\ pc' \in {[pc EXCEPT ![r] = point] : point \in {"parked", "fetching"}}
       /\ out' = r /\ Calls
       /\ handle' = [handle EXCEPT ![r] = TRUE]
       /\ UNCHANGED <<closed, dead, trapped, freed, aborted, finished, currentRun, activeRuns,
                      queue, open>>
    \/ /\ Goto(r, "ended") /\ out' = r /\ Calls
       /\ \/ /\ UNCHANGED <<dead, trapped>>
             /\ open' = open \ {r} /\ handle' = [handle EXCEPT ![r] = FALSE]
          \/ /\ Traps(r) /\ UNCHANGED open
             /\ handle' \in {handle, [handle EXCEPT ![r] = FALSE]}
       /\ Finish(r, closed)
       /\ UNCHANGED <<closed, aborted, suspends>>

\* The handle arrives one microtask after query_start returned it: a close()
\* in between left it to session_free.  A COPY's result is handed to onCopy.
Opened(r) ==
    /\ pc[r] = "opened"
    /\ IF closed
       THEN Abandon(r) /\ UNCHANGED <<dead, trapped, lostCall>>
       ELSE \/ StepQuery(r)
            \/ /\ Goto(r, "copying")
               /\ handle' = [handle EXCEPT ![r] = TRUE]
               /\ out' = r /\ Calls
               /\ UNCHANGED <<closed, dead, trapped, freed, aborted, finished, currentRun,
                              activeRuns, queue, open, suspends>>

Copied(r) == pc[r] = "copying" /\ Unwind(r)

Aborted(r) == closed \/ aborted[r]

\* An await resumes with bytes or pages for the engine, or with an error.
Fetched(r) ==
    /\ pc[r] = "fetching"
    /\ \/ ~Aborted(r) /\ StepQuery(r)
       \/ Unwind(r)

\* The consumer asks for the next batch.
Pulled(r) ==
    /\ pc[r] = "parked"
    /\ IF Aborted(r) THEN Unwind(r) ELSE StepQuery(r)

\* The consumer leaves its loop: return() is delivered at the yield.
Returned(r) == pc[r] = "parked" /\ Unwind(r)

Close_NoAbort ==
    /\ ~closed /\ NothingElseRuns
    /\ closed' = TRUE
    /\ freed' = (freed \/ activeRuns = 0)
    /\ UNCHANGED <<dead, trapped, pc, run, open, out, suspends, lostCall>>

\* close() takes the query and the lock from the run in flight and frees the
\* session.
Close ==
    /\ ~closed /\ NothingElseRuns
    /\ closed' = TRUE
    /\ IF currentRun # NoRun
       THEN /\ aborted' = [aborted EXCEPT ![currentRun] = TRUE]
            /\ handle' = [handle EXCEPT ![currentRun] = FALSE]
            /\ open' = IF handle[currentRun] /\ ~trapped THEN open \ {currentRun} ELSE open
            /\ lostCall' = (lostCall \/ (handle[currentRun] /\ ~trapped /\ freed))
            /\ Finish(currentRun, TRUE)
       ELSE /\ freed' = (freed \/ activeRuns = 0)
            /\ UNCHANGED <<run, open, lostCall>>
    /\ UNCHANGED <<dead, trapped, pc, out, suspends>>

\* What the event loop runs without the consumer's or the caller's doing.
Resumes(r) == \/ Enter(r) \/ Replace(r) \/ Started(r) \/ StartResumed(r)
              \/ Opened(r) \/ Copied(r) \/ Fetched(r)

Next == \/ \E r \in Runs : Call(r) \/ Resumes(r) \/ Pulled(r) \/ Returned(r)
        \/ Close

Fairness == \A r \in Runs : WF_vars(Resumes(r))

Spec == Init /\ [][Next]_vars /\ Fairness
----------------------------------------------------------------------------
(* No wasm call is made on a session that was freed or whose instance       *)
(* trapped, wherever close() or a trap lands among the awaits and yields of *)
(* a run ("nothing may call into the current instance again").              *)
SessionAliveWhenCalled == ~lostCall

(* While a consumer looks at a batch the engine's out buffer is still that  *)
(* run's: no other run's step comes between ("would silently overwrite each *)
(* other's output", the Mutex comment).                                     *)
BatchIntact ==
    \A r \in Runs : pc[r] = "parked" /\ ~finished[r] => out = r

(* When no run is active, no query occupies a slot of a live engine: every  *)
(* way out of a run closes its query, or leaves it to session_free, so the  *)
(* engine drops the bytes it had fetched.                                   *)
IdleEngineIsEmpty ==
    activeRuns = 0 /\ ~trapped /\ ~freed => open = {}

(* A call that waits for the lock ends or, while some consumer keeps a      *)
(* stream parked, waits: whatever ends a run hands the lock on, errors,     *)
(* traps and close() included.                                              *)
WaitersProceed ==
    \A r \in Runs : pc[r] = "queued" ~>
        (pc[r] # "queued" \/ \E s \in Runs : pc[s] = "parked" /\ ~finished[s])

(* After close() every call that was made ends, also one queued behind an   *)
(* abandoned stream that is never resumed; only such a stream stays parked. *)
CloseEndsEveryCall ==
    \A r \in Runs : closed ~> pc[r] \in {"idle", "ended", "parked"}
=============================================================================
