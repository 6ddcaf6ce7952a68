------------------------------ MODULE HostProofs ------------------------------
(***************************************************************************)
(* The safety of runs in the JS host, for any set of runs and any number   *)
(* of suspensions.  At most one run is in flight, the one the host has in  *)
(* #current; it holds the lock, and it alone has a query in the engine.    *)
(* Only close() takes these from a run that has not ended.                 *)
(***************************************************************************)
EXTENDS Host, SequenceTheorems, TLAPS

Points == {"idle", "queued", "replacing", "entered", "replaced", "starting", "opened",
           "copying", "fetching", "parked", "ended"}
Waits == {"idle", "queued"}                 \* the run does not have the lock yet
Busy == Points \ (Waits \cup {"ended"})
WithQuery == {"opened", "copying", "fetching", "parked"}
WithHandle == WithQuery \ {"opened"}

InFlight(r) == pc[r] \in Busy /\ ~finished[r]

\* The state of the host.
TypeOK ==
    /\ closed \in BOOLEAN /\ dead \in BOOLEAN /\ trapped \in BOOLEAN
    /\ freed \in BOOLEAN /\ lostCall \in BOOLEAN
    /\ queue \in Seq(Runs)
    /\ pc \in [Runs -> Points]
    /\ handle \in [Runs -> BOOLEAN] /\ aborted \in [Runs -> BOOLEAN] /\ finished \in [Runs -> BOOLEAN]
    /\ currentRun \in Runs \cup {NoRun} /\ activeRuns \in Nat
    /\ open \subseteq Runs /\ out \in Runs \cup {NoRun}
    /\ suspends \in [Runs -> Nat]

\* One run is in flight or none, and it has the lock.
OneInFlight ==
    /\ \A r \in Runs : InFlight(r) <=> currentRun = r
    /\ activeRuns = IF currentRun = NoRun THEN 0 ELSE 1
    /\ currentRun # NoRun => queue # <<>> /\ Head(queue) = currentRun

\* Who waits for the lock is in its queue, and has done nothing yet.
Waiting ==
    \A r \in Runs :
        /\ pc[r] = "queued" => \E i \in 1..Len(queue) : queue[i] = r
        /\ pc[r] \in Waits => ~finished[r] /\ ~aborted[r] /\ ~handle[r]

\* The session is freed when the database is closed, and only close() finishes
\* a run before it ends.
ClosedIsOver ==
    /\ freed = closed
    /\ closed => currentRun = NoRun
    /\ \A r \in Runs : /\ aborted[r] => closed
                       /\ pc[r] \in Busy /\ finished[r] => closed

\* A lost engine is waited for, not called.
TrappedIsIdle ==
    trapped => currentRun = NoRun \/ pc[currentRun] = "replacing"

\* A handle is that of the run in flight, or was lost with its engine; a run that
\* has suspended since its query was opened has it.
HandleHeld ==
    \A r \in Runs : /\ handle[r] => currentRun = r \/ pc[r] = "ended"
                    /\ InFlight(r) /\ pc[r] \in WithHandle => handle[r]

\* The queries of a live engine.
OpenInFlight ==
    ~trapped /\ ~freed => \A r \in open : currentRun = r /\ pc[r] \in WithQuery

IInv == /\ TypeOK /\ OneInFlight /\ Waiting /\ ClosedIsOver /\ TrappedIsIdle /\ HandleHeld
        /\ OpenInFlight /\ BatchIntact /\ SessionAliveWhenCalled
----------------------------------------------------------------------------
(* What the queue of the lock keeps when its head leaves and when a call   *)
(* joins it.                                                               *)
LEMMA HeadLeaves ==
    ASSUME NEW S, NEW q \in Seq(S), q # <<>>
    PROVE  /\ Tail(q) \in Seq(S)
           /\ \A i \in 1..Len(q) : q[i] # Head(q) => \E j \in 1..Len(Tail(q)) : Tail(q)[j] = q[i]
<1>1. /\ Tail(q) \in Seq(S) /\ Len(Tail(q)) = Len(q) - 1 /\ Len(q) \in Nat
      /\ \A j \in 1..Len(Tail(q)) : Tail(q)[j] = q[j + 1]
  BY HeadTailProperties, LenProperties
<1>2. ASSUME NEW i \in 1..Len(q), q[i] # Head(q)
      PROVE  \E j \in 1..Len(Tail(q)) : Tail(q)[j] = q[i]
  <2>1. Head(q) = q[1]
    BY HeadTailProperties
  <2>2. i - 1 \in 1..Len(Tail(q)) /\ (i - 1) + 1 = i
    BY <1>1, <1>2, <2>1
  <2>. QED  BY <1>1, <2>2
<1>. QED  BY <1>1, <1>2

LEMMA CallJoins ==
    ASSUME NEW S, NEW q \in Seq(S), NEW e \in S
    PROVE  /\ Append(q, e) \in Seq(S) /\ Append(q, e) # <<>>
           /\ q # <<>> => Head(Append(q, e)) = Head(q)
           /\ \A i \in 1..Len(q) : i \in 1..Len(Append(q, e)) /\ Append(q, e)[i] = q[i]
           /\ \E i \in 1..Len(Append(q, e)) : Append(q, e)[i] = e
BY AppendProperties, LenProperties

\* A run between two of its suspension points on an open database is the one in
\* flight, on a live engine unless it waits for a new one.
LEMMA RunsAlone ==
    ASSUME IInv, NEW r \in Runs, pc[r] \in Busy, ~closed
    PROVE  /\ currentRun = r /\ ~finished[r] /\ ~aborted[r] /\ activeRuns = 1
           /\ queue # <<>> /\ Head(queue) = r
           /\ ~freed /\ (pc[r] # "replacing" => ~trapped)
BY HostAssumption DEF IInv, TypeOK, OneInFlight, InFlight, ClosedIsOver, TrappedIsIdle

\* A run in flight that goes on to its next suspension point.
LEMMA Goes ==
    ASSUME IInv, NEW r \in Runs, pc[r] \in Busy \ {"replacing"}, ~closed,
           NEW point \in Busy \ {"entered", "replacing", "replaced"}, Goto(r, point),
           out' = r, Calls, suspends' \in [Runs -> Nat],
           UNCHANGED <<closed, dead, trapped, freed, aborted, finished, currentRun,
                       activeRuns, queue>>,
           \/ /\ pc[r] \notin WithQuery
              /\ UNCHANGED handle
              /\ \/ point = "opened" /\ open' = open \cup {r}
                 \/ point = "starting" /\ UNCHANGED open
           \/ /\ pc[r] \in WithQuery /\ point \in WithHandle
              /\ handle' = [handle EXCEPT ![r] = TRUE]
              /\ UNCHANGED open
    PROVE  IInv'
<1>1. TypeOK /\ currentRun = r /\ ~finished[r] /\ ~freed /\ ~trapped
  BY RunsAlone DEF IInv
<1>2. /\ pc' = [pc EXCEPT ![r] = point] /\ point \in Points
      /\ handle' \in [Runs -> BOOLEAN] /\ open' \subseteq Runs
  BY <1>1 DEF TypeOK, Goto, Busy
<1>3. TypeOK'
  BY <1>1, <1>2 DEF TypeOK, Calls
<1>4. /\ currentRun = r /\ ~finished[r] /\ ~freed /\ ~trapped
      /\ pc' = [pc EXCEPT ![r] = point] /\ point \in Points
      /\ TypeOK /\ TypeOK'
  BY <1>1, <1>2, <1>3
<1>5. OneInFlight'
  BY <1>4 DEF IInv, TypeOK, OneInFlight, InFlight
<1>6. Waiting'
  BY <1>4 DEF IInv, TypeOK, Waiting, Waits, Busy, WithHandle, WithQuery
<1>7. ClosedIsOver' /\ TrappedIsIdle'
  BY <1>4 DEF IInv, TypeOK, ClosedIsOver, TrappedIsIdle, Busy, Waits
<1>8. HandleHeld'
  BY <1>4 DEF IInv, TypeOK, HandleHeld, InFlight, WithHandle, WithQuery
<1>9. OpenInFlight'
  BY <1>4 DEF IInv, TypeOK, OpenInFlight, WithHandle, WithQuery
<1>10. BatchIntact' /\ SessionAliveWhenCalled'
  BY <1>4 DEF IInv, TypeOK, OneInFlight, InFlight, BatchIntact, SessionAliveWhenCalled, Calls,
              Busy, Points, Waits
<1>. QED  BY <1>4, <1>5, <1>6, <1>7, <1>8, <1>9, <1>10 DEF IInv

\* A run that ends: in flight, or already finished by close().
LEMMA Ends ==
    ASSUME IInv, NEW r \in Runs, pc[r] \in Busy, Goto(r, "ended"), Finish(r, closed),
           UNCHANGED <<closed, aborted, suspends>>,
           handle' \in {handle, [handle EXCEPT ![r] = FALSE]},
           open' \in {open, open \ {r}}, trapped' \in {trapped, TRUE}, dead' \in BOOLEAN,
           out' = out \/ (~closed /\ out' = r),
           ~closed /\ ~trapped' => r \notin open',
           ~lostCall' /\ lostCall' \in BOOLEAN
    PROVE  IInv'
<1>1. /\ TypeOK /\ r # NoRun
      /\ pc' = [pc EXCEPT ![r] = "ended"]
  BY HostAssumption DEF IInv, Goto
<1>2. CASE closed
  <2>1. finished[r] /\ currentRun = NoRun /\ freed
    BY <1>1, <1>2 DEF IInv, TypeOK, ClosedIsOver, OneInFlight, InFlight
  <2>2. UNCHANGED <<finished, currentRun, activeRuns, queue, freed>>
    BY <2>1 DEF Finish
  <2>3. TypeOK'
    BY <1>1, <1>2, <2>2 DEF TypeOK, Points
  <2>4. OneInFlight' /\ Waiting'
    BY <1>1, <1>2, <2>1, <2>2 DEF IInv, TypeOK, OneInFlight, InFlight, Waiting, Waits, Busy
  <2>5. ClosedIsOver' /\ TrappedIsIdle' /\ HandleHeld'
    BY <1>1, <1>2, <2>1, <2>2 DEF IInv, TypeOK, ClosedIsOver, TrappedIsIdle, HandleHeld, Busy,
                                  InFlight, WithHandle, WithQuery
  <2>6. OpenInFlight' /\ BatchIntact' /\ SessionAliveWhenCalled'
    BY <1>1, <1>2, <2>1, <2>2 DEF IInv, TypeOK, OneInFlight, InFlight, OpenInFlight,
                                  BatchIntact, SessionAliveWhenCalled, Busy, Points, Waits
  <2>. QED  BY <2>3, <2>4, <2>5, <2>6 DEF IInv
<1>3. CASE ~closed
  <2>1. /\ currentRun = r /\ ~finished[r] /\ ~freed /\ activeRuns = 1
        /\ queue # <<>> /\ Head(queue) = r
    BY <1>3, RunsAlone
  <2>2. /\ finished' = [finished EXCEPT ![r] = TRUE] /\ currentRun' = NoRun /\ activeRuns' = 0
        /\ queue' = Tail(queue) /\ ~freed' /\ freed' \in BOOLEAN
    BY <1>3, <2>1 DEF Finish
  <2>3. /\ queue' \in Seq(Runs)
        /\ \A i \in 1..Len(queue) : queue[i] # r => \E j \in 1..Len(queue') : queue'[j] = queue[i]
    <3>1. queue \in Seq(Runs)
      BY <1>1 DEF TypeOK
    <3>. QED  BY <2>1, <2>2, <3>1, HeadLeaves
  <2>4. TypeOK'
    BY <1>1, <2>2, <2>3 DEF TypeOK, Points
  <2>5. OneInFlight'
    BY <1>1, <2>1, <2>2, HostAssumption DEF IInv, TypeOK, OneInFlight, InFlight, Busy
  <2>6. Waiting'
    <3>1. ASSUME NEW s \in Runs, pc'[s] = "queued"
          PROVE  \E j \in 1..Len(queue') : queue'[j] = s
      <4>1. s # r /\ pc[s] = "queued"
        BY <1>1, <3>1 DEF TypeOK
      <4>2. PICK i \in 1..Len(queue) : queue[i] = s
        BY <4>1 DEF IInv, Waiting
      <4>. QED  BY <2>3, <4>1, <4>2
    <3>2. ASSUME NEW s \in Runs, pc'[s] \in Waits
          PROVE  ~finished'[s] /\ ~aborted'[s] /\ ~handle'[s]
      BY <1>1, <2>2, <3>2 DEF IInv, TypeOK, Waiting, Waits
    <3>. QED  BY <3>1, <3>2 DEF Waiting
  <2>7. ClosedIsOver' /\ TrappedIsIdle' /\ HandleHeld'
    BY <1>1, <1>3, <2>1, <2>2 DEF IInv, TypeOK, ClosedIsOver, TrappedIsIdle, HandleHeld, Busy,
                                  InFlight, WithHandle, WithQuery
  <2>8. OpenInFlight' /\ BatchIntact' /\ SessionAliveWhenCalled'
    BY <1>1, <1>3, <2>1, <2>2 DEF IInv, TypeOK, OneInFlight, InFlight, OpenInFlight,
                                  BatchIntact, SessionAliveWhenCalled, Busy, Points, Waits
  <2>. QED  BY <2>4, <2>5, <2>6, <2>7, <2>8 DEF IInv
<1>. QED  BY <1>2, <1>3, <1>1 DEF TypeOK
----------------------------------------------------------------------------
\* The steps of #start and of the step loop, each for a run in flight.
LEMMA StartKeeps ==
    ASSUME IInv, NEW r \in Runs, pc[r] \in {"entered", "replaced", "starting"}, ~closed,
           \/ StartQuery(r)
              /\ UNCHANGED <<closed, trapped, freed, finished, currentRun, activeRuns, queue>>
           \/ StartFails(r)
    PROVE  IInv'
<1>1. /\ TypeOK /\ pc[r] \in Busy \ {"replacing"} /\ pc[r] \notin WithQuery
      /\ ~freed /\ ~trapped /\ ~lostCall /\ r \notin open
  BY RunsAlone DEF IInv, TypeOK, OpenInFlight, SessionAliveWhenCalled, Busy, Points, Waits, WithQuery
<1>2. CASE /\ StartQuery(r)
           /\ UNCHANGED <<closed, trapped, freed, finished, currentRun, activeRuns, queue>>
  <2>1. CASE /\ Goto(r, "opened") /\ open' = open \cup {r} /\ out' = r /\ Calls
             /\ UNCHANGED <<dead, handle, aborted, suspends>>
    <3>1. "opened" \in Busy \ {"entered", "replacing", "replaced"} /\ suspends' \in [Runs -> Nat]
      BY <1>1, <2>1 DEF TypeOK, Busy, Points, Waits
    <3>. QED  BY <1>1, <1>2, <2>1, <3>1, Goes
  <2>2. CASE /\ suspends' = [suspends EXCEPT ![r] = @ + 1] /\ Goto(r, "starting")
             /\ out' = r /\ Calls /\ UNCHANGED <<dead, handle, aborted, open>>
    <3>1. "starting" \in Busy \ {"entered", "replacing", "replaced"} /\ suspends' \in [Runs -> Nat]
      BY <1>1, <2>2 DEF TypeOK, Busy, Points, Waits
    <3>. QED  BY <1>1, <1>2, <2>2, <3>1, Goes
  <2>. QED  BY <1>2, <2>1, <2>2 DEF StartQuery
<1>3. CASE StartFails(r)
  <2>1. trapped' \in {trapped, TRUE} /\ dead' \in BOOLEAN /\ ~lostCall' /\ lostCall' \in BOOLEAN
    BY <1>1, <1>3 DEF StartFails, Traps, Calls, TypeOK
  <2>. QED  BY <1>1, <1>3, <2>1, Ends DEF StartFails, Abandon
<1>. QED  BY <1>2, <1>3

LEMMA StepKeeps ==
    ASSUME IInv, NEW r \in Runs, pc[r] \in {"opened", "fetching", "parked"}, ~closed, StepQuery(r)
    PROVE  IInv'
<1>1. /\ TypeOK /\ pc[r] \in Busy \ {"replacing"} /\ pc[r] \in WithQuery
      /\ ~freed /\ ~trapped /\ ~lostCall
  BY RunsAlone DEF IInv, TypeOK, SessionAliveWhenCalled, Busy, Points, Waits, WithQuery
<1>2. CASE /\ suspends' = [suspends EXCEPT ![r] = @ + 1]
           /\ pc' \in {[pc EXCEPT ![r] = point] : point \in {"parked", "fetching"}}
           /\ out' = r /\ Calls
           /\ handle' = [handle EXCEPT ![r] = TRUE]
           /\ UNCHANGED <<closed, dead, trapped, freed, aborted, finished, currentRun, activeRuns,
                          queue, open>>
  <2>1. PICK point \in {"parked", "fetching"} : Goto(r, point)
    BY <1>2 DEF Goto
  <2>2. /\ point \in WithHandle /\ point \in Busy \ {"entered", "replacing", "replaced"}
        /\ suspends' \in [Runs -> Nat]
    BY <1>1, <1>2 DEF TypeOK, Busy, Points, Waits, WithHandle, WithQuery
  <2>. QED  BY <1>1, <1>2, <2>1, <2>2, Goes
<1>3. CASE /\ Goto(r, "ended") /\ out' = r /\ Calls
           /\ \/ /\ UNCHANGED <<dead, trapped>>
                 /\ open' = open \ {r} /\ handle' = [handle EXCEPT ![r] = FALSE]
              \/ /\ Traps(r) /\ UNCHANGED open
                 /\ handle' \in {handle, [handle EXCEPT ![r] = FALSE]}
           /\ Finish(r, closed)
           /\ UNCHANGED <<closed, aborted, suspends>>
  <2>1. /\ trapped' \in {trapped, TRUE} /\ dead' \in BOOLEAN /\ ~lostCall' /\ lostCall' \in BOOLEAN
        /\ handle' \in {handle, [handle EXCEPT ![r] = FALSE]} /\ open' \in {open, open \ {r}}
        /\ ~trapped' => r \notin open'
    BY <1>1, <1>3 DEF Traps, Calls, TypeOK
  <2>. QED  BY <1>1, <1>3, <2>1, Ends
<1>. QED  BY <1>2, <1>3 DEF StepQuery

LEMMA AbandonKeeps ==
    ASSUME IInv, NEW r \in Runs, pc[r] \in Busy, closed \/ pc[r] = "replacing", Abandon(r),
           UNCHANGED <<dead, trapped, lostCall>>
    PROVE  IInv'
<1>1. dead' \in BOOLEAN /\ ~lostCall' /\ lostCall' \in BOOLEAN
  BY DEF IInv, TypeOK, SessionAliveWhenCalled
<1>2. ~closed /\ ~trapped => r \notin open
  BY RunsAlone DEF IInv, OpenInFlight, WithQuery
<1>. QED  BY <1>1, <1>2, Ends DEF Abandon

LEMMA UnwindKeeps ==
    ASSUME IInv, NEW r \in Runs, pc[r] \in WithHandle, Unwind(r)
    PROVE  IInv'
<1>1. TypeOK /\ pc[r] \in Busy /\ pc[r] # "ended"
  BY DEF IInv, WithHandle, WithQuery, Busy, Points, Waits
<1>2. closed => ~handle[r]
  BY <1>1, HostAssumption DEF IInv, HandleHeld, ClosedIsOver
<1>3. ~closed => handle[r] /\ ~aborted[r] /\ ~trapped /\ ~freed
  BY <1>1, RunsAlone DEF IInv, HandleHeld, InFlight, WithHandle, WithQuery
<1>4. /\ handle' \in {handle, [handle EXCEPT ![r] = FALSE]} /\ open' \in {open, open \ {r}}
      /\ trapped' \in {trapped, TRUE} /\ dead' \in BOOLEAN
      /\ ~closed /\ ~trapped' => r \notin open'
      /\ ~lostCall' /\ lostCall' \in BOOLEAN
  BY <1>1, <1>2, <1>3 DEF Unwind, CloseQuery, CloseQueryTraps, Traps, Calls, IInv, TypeOK,
                          SessionAliveWhenCalled
<1>. QED  BY <1>1, <1>4, Ends DEF Unwind
----------------------------------------------------------------------------
LEMMA InitOK == Init => IInv
<1>. SUFFICES ASSUME Init PROVE IInv
  OBVIOUS
<1>1. queue \in Seq(Runs)
  BY EmptySeq DEF Init
<1>2. TypeOK
  BY <1>1 DEF Init, TypeOK, Points
<1>3. OneInFlight /\ Waiting
  BY HostAssumption DEF Init, OneInFlight, InFlight, Waiting, Waits, Busy
<1>4. ClosedIsOver /\ TrappedIsIdle /\ HandleHeld
  BY DEF Init, ClosedIsOver, TrappedIsIdle, HandleHeld, InFlight, Waits, Busy
<1>5. OpenInFlight /\ BatchIntact /\ SessionAliveWhenCalled
  BY DEF Init, OpenInFlight, BatchIntact, SessionAliveWhenCalled
<1>. QED  BY <1>2, <1>3, <1>4, <1>5 DEF IInv

LEMMA CallKeeps ==
    ASSUME IInv, NEW r \in Runs, Call(r)
    PROVE  IInv'
<1>1. /\ TypeOK /\ pc[r] = "idle" /\ pc' = [pc EXCEPT ![r] = "queued"]
      /\ queue' = Append(queue, r) /\ queue \in Seq(Runs)
      /\ UNCHANGED <<closed, dead, trapped, freed, handle, aborted, finished, currentRun,
                     activeRuns, open, out, suspends, lostCall>>
  BY DEF IInv, TypeOK, Call, Goto
<1>2. /\ queue' \in Seq(Runs) /\ queue' # <<>> /\ (queue # <<>> => Head(queue') = Head(queue))
      /\ \A i \in 1..Len(queue) : i \in 1..Len(queue') /\ queue'[i] = queue[i]
      /\ \E i \in 1..Len(queue') : queue'[i] = r
  BY <1>1, CallJoins
<1>3. TypeOK'
  BY <1>1, <1>2 DEF TypeOK, Points
<1>4. OneInFlight'
  BY <1>1, <1>2 DEF IInv, TypeOK, OneInFlight, InFlight, Busy, Waits
<1>5. Waiting'
  <2>1. ASSUME NEW s \in Runs, pc'[s] = "queued"
        PROVE  \E i \in 1..Len(queue') : queue'[i] = s
    <3>1. CASE s = r
      BY <1>2, <3>1
    <3>2. CASE s # r
      <4>1. PICK i \in 1..Len(queue) : queue[i] = s
        BY <1>1, <2>1, <3>2 DEF IInv, TypeOK, Waiting
      <4>. QED  BY <1>2, <4>1
    <3>. QED  BY <3>1, <3>2
  <2>2. ASSUME NEW s \in Runs, pc'[s] \in Waits
        PROVE  ~finished'[s] /\ ~aborted'[s] /\ ~handle'[s]
    BY <1>1, <2>2 DEF IInv, TypeOK, Waiting, Waits
  <2>. QED  BY <2>1, <2>2 DEF Waiting
<1>6. ClosedIsOver' /\ TrappedIsIdle' /\ HandleHeld'
  BY <1>1, HostAssumption DEF IInv, TypeOK, ClosedIsOver, TrappedIsIdle, HandleHeld, InFlight, Busy, Waits,
                              OneInFlight, WithHandle, WithQuery
<1>7. OpenInFlight' /\ BatchIntact' /\ SessionAliveWhenCalled'
  BY <1>1 DEF IInv, TypeOK, OpenInFlight, BatchIntact, SessionAliveWhenCalled, WithQuery
<1>. QED  BY <1>3, <1>4, <1>5, <1>6, <1>7 DEF IInv

LEMMA EnterKeeps ==
    ASSUME IInv, NEW r \in Runs, Enter(r)
    PROVE  IInv'
<1>1. TypeOK /\ pc[r] = "queued" /\ Head(queue) = r /\ queue \in Seq(Runs) /\ r # NoRun
      /\ ~finished[r] /\ ~aborted[r] /\ ~handle[r]
  BY HostAssumption DEF IInv, TypeOK, Enter, HasLock, Waiting, Waits
<1>2. queue # <<>>
  <2>1. PICK i \in 1..Len(queue) : queue[i] = r
    BY <1>1 DEF IInv, Waiting
  <2>. QED  BY <2>1, EmptySeq
<1>3. currentRun = NoRun /\ activeRuns = 0
  BY <1>1, HostAssumption DEF IInv, TypeOK, OneInFlight, InFlight, Busy, Waits
<1>4. CASE closed \/ dead
  <2>1. /\ pc' = [pc EXCEPT ![r] = "ended"] /\ finished' = [finished EXCEPT ![r] = TRUE]
        /\ queue' = Tail(queue)
        /\ UNCHANGED <<closed, dead, trapped, freed, handle, aborted, currentRun,
                       activeRuns, open, out, suspends, lostCall>>
    BY <1>4 DEF Enter, Goto
  <2>2. /\ queue' \in Seq(Runs)
        /\ \A i \in 1..Len(queue) : queue[i] # r => \E j \in 1..Len(queue') : queue'[j] = queue[i]
    BY <1>1, <1>2, <2>1, HeadLeaves
  <2>3. TypeOK'
    BY <1>1, <2>1, <2>2 DEF TypeOK, Points
  <2>4. OneInFlight'
    BY <1>1, <1>3, <2>1, HostAssumption DEF IInv, TypeOK, OneInFlight, InFlight, Busy, Waits
  <2>5. Waiting'
    <3>1. ASSUME NEW s \in Runs, pc'[s] = "queued"
          PROVE  \E j \in 1..Len(queue') : queue'[j] = s
      <4>1. s # r /\ pc[s] = "queued"
        BY <1>1, <2>1, <3>1 DEF TypeOK
      <4>2. PICK i \in 1..Len(queue) : queue[i] = s
        BY <4>1 DEF IInv, Waiting
      <4>. QED  BY <2>2, <4>1, <4>2
    <3>2. ASSUME NEW s \in Runs, pc'[s] \in Waits
          PROVE  ~finished'[s] /\ ~aborted'[s] /\ ~handle'[s]
      BY <1>1, <2>1, <3>2 DEF IInv, TypeOK, Waiting, Waits
    <3>. QED  BY <3>1, <3>2 DEF Waiting
  <2>6. ClosedIsOver' /\ TrappedIsIdle' /\ HandleHeld'
    BY <1>1, <1>3, <2>1, HostAssumption
       DEF IInv, TypeOK, ClosedIsOver, TrappedIsIdle, HandleHeld, OneInFlight, InFlight, Busy
  <2>7. OpenInFlight' /\ BatchIntact' /\ SessionAliveWhenCalled'
    BY <1>1, <1>3, <2>1 DEF IInv, TypeOK, OpenInFlight, BatchIntact, SessionAliveWhenCalled
  <2>. QED  BY <2>3, <2>4, <2>5, <2>6, <2>7 DEF IInv
<1>5. CASE ~(closed \/ dead)
  <2>1. PICK point \in {"replacing", "entered"} :
           /\ pc' = [pc EXCEPT ![r] = point] /\ (trapped => point = "replacing")
           /\ currentRun' = r /\ activeRuns' = 1
           /\ UNCHANGED <<closed, dead, trapped, freed, queue, handle, aborted, finished,
                          open, out, suspends, lostCall>>
    BY <1>3, <1>5 DEF Enter, Goto
  <2>2. TypeOK'
    BY <1>1, <2>1 DEF TypeOK, Points
  <2>3. OneInFlight'
    BY <1>1, <1>2, <1>3, <2>1, HostAssumption DEF IInv, TypeOK, OneInFlight, InFlight, Busy, Waits, Points
  <2>4. Waiting'
    BY <1>1, <2>1 DEF IInv, TypeOK, Waiting, Waits
  <2>5. ClosedIsOver' /\ TrappedIsIdle' /\ HandleHeld'
    BY <1>1, <1>3, <1>5, <2>1, HostAssumption
       DEF IInv, TypeOK, ClosedIsOver, TrappedIsIdle, HandleHeld, OneInFlight, InFlight, Busy,
           Waits, Points, WithHandle, WithQuery
  <2>6. OpenInFlight' /\ BatchIntact' /\ SessionAliveWhenCalled'
    BY <1>1, <1>3, <2>1, HostAssumption DEF IInv, TypeOK, OpenInFlight, BatchIntact, SessionAliveWhenCalled
  <2>. QED  BY <2>2, <2>3, <2>4, <2>5, <2>6 DEF IInv
<1>. QED  BY <1>4, <1>5

LEMMA ReplaceKeeps ==
    ASSUME IInv, NEW r \in Runs, Replace(r)
    PROVE  IInv'
<1>1. TypeOK /\ pc[r] = "replacing" /\ pc[r] \in Busy
  BY DEF IInv, Replace, Busy, Points, Waits
<1>2. CASE Abandon(r) /\ UNCHANGED <<dead, trapped, lostCall>>
  BY <1>1, <1>2, AbandonKeeps
<1>3. CASE /\ ~closed /\ Goto(r, "replaced")
           /\ trapped' = FALSE /\ freed' = FALSE /\ open' = {}
           /\ UNCHANGED <<closed, dead, run, out, suspends, lostCall>>
  <2>1. /\ pc' = [pc EXCEPT ![r] = "replaced"] /\ ~trapped' /\ ~freed' /\ open' = {}
        /\ trapped' \in BOOLEAN /\ freed' \in BOOLEAN
        /\ UNCHANGED <<closed, dead, handle, aborted, finished, currentRun, activeRuns, queue, out,
                       suspends, lostCall>>
    BY <1>3 DEF Goto, run
  <2>2. TypeOK'
    BY <1>1, <2>1 DEF TypeOK, Points
  <2>3. OneInFlight' /\ Waiting'
    BY <1>1, <2>1 DEF IInv, TypeOK, OneInFlight, InFlight, Waiting, Busy, Waits, Points
  <2>4. ClosedIsOver' /\ TrappedIsIdle' /\ HandleHeld'
    BY <1>1, <1>3, <2>1 DEF IInv, TypeOK, ClosedIsOver, TrappedIsIdle, HandleHeld, InFlight, Busy,
                            Waits, Points, WithHandle, WithQuery
  <2>5. OpenInFlight' /\ BatchIntact' /\ SessionAliveWhenCalled'
    BY <1>1, <2>1 DEF IInv, TypeOK, OpenInFlight, BatchIntact, SessionAliveWhenCalled
  <2>. QED  BY <2>2, <2>3, <2>4, <2>5 DEF IInv
<1>. QED  BY <1>2, <1>3 DEF Replace

LEMMA CloseKeeps ==
    ASSUME IInv, Close
    PROVE  IInv'
<1>1. TypeOK /\ ~closed /\ ~freed /\ ~lostCall /\ closed'
      /\ UNCHANGED <<dead, trapped, pc, out, suspends>>
  BY DEF IInv, TypeOK, ClosedIsOver, SessionAliveWhenCalled, Close
<1>2. CASE currentRun = NoRun
  <2>1. freed' /\ freed' \in BOOLEAN /\ closed' \in BOOLEAN /\ UNCHANGED <<run, open, lostCall>>
    BY <1>1, <1>2 DEF Close, IInv, OneInFlight
  <2>2. TypeOK' /\ OneInFlight' /\ Waiting'
    BY <1>1, <2>1 DEF IInv, TypeOK, OneInFlight, InFlight, Waiting, run
  <2>3. ClosedIsOver' /\ TrappedIsIdle' /\ HandleHeld' /\ OpenInFlight' /\ BatchIntact'
        /\ SessionAliveWhenCalled'
    BY <1>1, <1>2, <2>1 DEF IInv, TypeOK, ClosedIsOver, TrappedIsIdle, HandleHeld, OpenInFlight,
                            BatchIntact, SessionAliveWhenCalled, InFlight, run
  <2>. QED  BY <2>2, <2>3 DEF IInv
<1>3. CASE currentRun # NoRun
  <2>. DEFINE r == currentRun
  <2>1. /\ r \in Runs /\ pc[r] \in Busy /\ ~finished[r] /\ activeRuns = 1
        /\ queue # <<>> /\ Head(queue) = r /\ queue \in Seq(Runs)
    BY <1>1, <1>3 DEF IInv, TypeOK, OneInFlight, InFlight
  <2>2. /\ aborted' = [aborted EXCEPT ![r] = TRUE] /\ handle' = [handle EXCEPT ![r] = FALSE]
        /\ open' \subseteq open /\ ~lostCall' /\ lostCall' \in BOOLEAN
    BY <1>1, <1>3 DEF Close, TypeOK
  <2>3. /\ finished' = [finished EXCEPT ![r] = TRUE] /\ currentRun' = NoRun /\ activeRuns' = 0
        /\ queue' = Tail(queue) /\ freed' /\ freed' \in BOOLEAN /\ closed' \in BOOLEAN
    <3>1. Finish(r, TRUE) /\ closed' \in BOOLEAN
      BY <1>1, <1>3 DEF Close
    <3>2. /\ finished' = [finished EXCEPT ![r] = TRUE] /\ currentRun' = NoRun /\ activeRuns' = 0
          /\ queue' = Tail(queue)
      BY <2>1, <3>1 DEF Finish
    <3>3. freed' = (freed \/ TRUE)
      BY <2>1, <3>1, Zenon DEF Finish
    <3>. QED  BY <3>1, <3>2, <3>3
  <2>4. /\ queue' \in Seq(Runs)
        /\ \A i \in 1..Len(queue) : queue[i] # r => \E j \in 1..Len(queue') : queue'[j] = queue[i]
    BY <2>1, <2>3, HeadLeaves
  <2>. HIDE DEF r
  <2>5. TypeOK'
    BY <1>1, <2>1, <2>2, <2>3, <2>4 DEF TypeOK
  <2>6. OneInFlight'
    BY <1>1, <2>1, <2>3, HostAssumption DEF IInv, TypeOK, OneInFlight, InFlight, r
  <2>7. Waiting'
    <3>1. ASSUME NEW s \in Runs, pc'[s] = "queued"
          PROVE  \E j \in 1..Len(queue') : queue'[j] = s
      <4>1. s # r /\ pc[s] = "queued"
        BY <1>1, <2>1, <3>1 DEF Busy, Waits
      <4>2. PICK i \in 1..Len(queue) : queue[i] = s
        BY <4>1 DEF IInv, Waiting
      <4>. QED  BY <2>4, <4>1, <4>2
    <3>2. ASSUME NEW s \in Runs, pc'[s] \in Waits
          PROVE  ~finished'[s] /\ ~aborted'[s] /\ ~handle'[s]
      BY <1>1, <2>1, <2>2, <2>3, <3>2 DEF IInv, TypeOK, Waiting, Busy
    <3>. QED  BY <3>1, <3>2 DEF Waiting
  <2>8. ClosedIsOver' /\ TrappedIsIdle' /\ OpenInFlight' /\ SessionAliveWhenCalled'
    BY <1>1, <2>1, <2>2, <2>3 DEF IInv, TypeOK, ClosedIsOver, TrappedIsIdle, OpenInFlight,
                                  SessionAliveWhenCalled
  <2>9. HandleHeld' /\ BatchIntact'
    BY <1>1, <2>1, <2>2, <2>3 DEF IInv, TypeOK, OneInFlight, HandleHeld, BatchIntact, InFlight, r
  <2>. QED  BY <2>5, <2>6, <2>7, <2>8, <2>9 DEF IInv
<1>. QED  BY <1>2, <1>3

\* The inductive step, an action of a run at a time.
LEMMA StepOK == IInv /\ [Next]_vars => IInv'
<1>. SUFFICES ASSUME IInv, [Next]_vars PROVE IInv'
  OBVIOUS
<1>. USE DEF Busy, Points, Waits, WithHandle, WithQuery
<1>1. ASSUME NEW r \in Runs, Started(r) PROVE IInv'
  BY <1>1, StartKeeps, AbandonKeeps DEF Started
<1>2. ASSUME NEW r \in Runs, StartResumed(r) PROVE IInv'
  BY <1>2, StartKeeps, AbandonKeeps DEF StartResumed
<1>3. ASSUME NEW r \in Runs, Opened(r) PROVE IInv'
  <2>1. CASE closed
    BY <1>3, <2>1, AbandonKeeps DEF Opened
  <2>2. CASE ~closed /\ StepQuery(r)
    BY <1>3, <2>2, StepKeeps DEF Opened
  <2>3. CASE /\ ~closed /\ Goto(r, "copying") /\ handle' = [handle EXCEPT ![r] = TRUE]
             /\ out' = r /\ Calls
             /\ UNCHANGED <<closed, dead, trapped, freed, aborted, finished, currentRun,
                            activeRuns, queue, open, suspends>>
    <3>1. suspends' \in [Runs -> Nat]
      BY <2>3 DEF IInv, TypeOK
    <3>. QED  BY <1>3, <2>3, <3>1, Goes DEF Opened
  <2>. QED  BY <1>3, <2>1, <2>2, <2>3 DEF Opened
<1>4. ASSUME NEW r \in Runs, Copied(r) PROVE IInv'
  BY <1>4, UnwindKeeps DEF Copied
<1>5. ASSUME NEW r \in Runs, Fetched(r) PROVE IInv'
  BY <1>5, UnwindKeeps, StepKeeps DEF Fetched, Aborted
<1>6. ASSUME NEW r \in Runs, Pulled(r) PROVE IInv'
  BY <1>6, UnwindKeeps, StepKeeps DEF Pulled, Aborted
<1>7. ASSUME NEW r \in Runs, Returned(r) PROVE IInv'
  BY <1>7, UnwindKeeps DEF Returned
<1>8. CASE UNCHANGED vars
  BY <1>8 DEF vars, IInv, TypeOK, OneInFlight, InFlight, Waiting, ClosedIsOver, TrappedIsIdle,
              HandleHeld, OpenInFlight, BatchIntact, SessionAliveWhenCalled
<1>. QED  BY <1>1, <1>2, <1>3, <1>4, <1>5, <1>6, <1>7, <1>8, CallKeeps, EnterKeeps, ReplaceKeeps,
             CloseKeeps DEF Next, Resumes

LEMMA Inductive == Spec => []IInv
BY InitOK, StepOK, PTL DEF Spec

(* No wasm call is made on a freed or trapped session, for any number of    *)
(* runs: closed, freed and "a run is in flight" move together, and a run    *)
(* that lost its engine ends before the engine is called again.             *)
THEOREM SessionsAlive == Spec => []SessionAliveWhenCalled
<1>1. IInv => SessionAliveWhenCalled
  BY DEF IInv
<1>. QED  BY <1>1, Inductive, PTL

(* The out buffer of the engine belongs to the run whose batch is out, for  *)
(* any number of runs: whoever is parked and not finished holds the lock.   *)
THEOREM BatchesIntact == Spec => []BatchIntact
<1>1. IInv => BatchIntact
  BY DEF IInv
<1>. QED  BY <1>1, Inductive, PTL

(* A live engine with no run in flight holds no query.                      *)
THEOREM IdleEnginesAreEmpty == Spec => []IdleEngineIsEmpty
<1>1. IInv => IdleEngineIsEmpty
  BY HostAssumption DEF IInv, TypeOK, OneInFlight, OpenInFlight, IdleEngineIsEmpty
<1>. QED  BY <1>1, Inductive, PTL

(* At most one run is in flight, and it is the one with the lock.           *)
THEOREM RunsTakeTurns == Spec => []OneInFlight
<1>1. IInv => OneInFlight
  BY DEF IInv
<1>. QED  BY <1>1, Inductive, PTL
=============================================================================
