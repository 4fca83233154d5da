--------------------------- MODULE DurableTasksProofs ---------------------------
(* Theorems about DurableTasks, for every set of tasks and workers, and every *)
(* assignment of worker_ids.                                                  *)
EXTENDS DurableTasks, TLAPS

-----------------------------------------------------------------------------
(* Types.                                                                  *)

\* The initial values are well typed.
LEMMA TypeInit == Init => TypeOK
BY TasksAssumption
   DEF Init, TypeOK, StoreTypes, SinkTypes, WorkerTypes, NoRow, Row, RowType,
       Runs, Phases, Metas, TaskStatuses, RunStatuses, RequestStatuses

\* The task of a run is a task.
LEMMA RunHasTask == \A r \in Runs : TaskOf(r) \in Tasks /\ r[2] \in 1 .. MaxRuns
BY DEF Runs, TaskOf

\* A reclaimed row is a row, and its attempts stay within its task's.
LEMMA ReclaimedType ==
    ASSUME NEW row \in RowType
    PROVE  Reclaimed(row) \in RowType
<1>1. MaxAttempts \in Nat /\ NoOne \in Ids \cup {NoOne}
  BY TasksAssumption
<1>2. CASE row.attempt >= MaxAttempts
  BY <1>1, <1>2 DEF Reclaimed, RowType, RunStatuses, Metas
<1>3. CASE ~(row.attempt >= MaxAttempts)
  <2>1. row.attempt + 1 \in 0 .. MaxAttempts
    BY <1>1, <1>3 DEF RowType
  <2> QED
    BY <1>1, <1>3, <2>1 DEF Reclaimed, RowType, RunStatuses, Metas
<1> QED
  BY <1>2, <1>3

\* Going on with the same run keeps the threads well typed.
LEMMA ProceedTypes ==
    ASSUME WorkerTypes, NEW w \in Workers, NEW phase \in Phases,
           Proceed(w, phase), UNCHANGED <<scope, batch>>
    PROVE  WorkerTypes'
BY DEF WorkerTypes, Proceed, Goto

\* So does going on with the next one.
LEMMA NextRunTypes ==
    ASSUME WorkerTypes, NEW w \in Workers, NEW rest, NextRun(w, rest),
           batch' \in [Workers -> SUBSET Runs],
           scope' \in [Workers -> SUBSET Tasks]
    PROVE  WorkerTypes'
BY DEF WorkerTypes, NextRun, Goto, Phases, Metas

\* The rows that a claim writes are rows.
LEMMA ClaimedRowType ==
    ASSUME StoreTypes, NEW w \in Workers, NEW r \in Runs, NEW pending,
           NEW starting, NEW missed
    PROVE  ClaimedRow(w, r, pending, starting, missed) \in RowType
<1>1. IdOf[w] \in Ids
  BY DEF Ids
<1>2. run[r] \in RowType
  BY DEF StoreTypes
<1>3. [run[r] EXCEPT !.status = "CLAIMED", !.by = IdOf[w], !.live = TRUE] \in RowType
  BY <1>1, <1>2 DEF RowType, RunStatuses
<1>4. Row("MISSED", NoOne, FALSE, 1, "FIRST") \in RowType
  BY TasksAssumption DEF Row, RowType, RunStatuses, Metas
<1>5. Row("CLAIMED", IdOf[w], TRUE, 1, "FIRST") \in RowType
  BY <1>1, TasksAssumption DEF Row, RowType, RunStatuses, Metas
<1> QED
  BY <1>2, <1>3, <1>4, <1>5 DEF ClaimedRow

\* What a claim takes are runs.
LEMMA TakenAreRuns ==
    ASSUME NEW w \in Workers, StoreTypes, WorkerTypes,
           NEW pending \in SUBSET Pending(w), NEW starting \in SUBSET DueTasks(w),
           NEW missed
    PROVE  Taken(pending, starting, missed) \subseteq Runs
BY DEF Taken, Missing, Pending, DueTasks, Runs, StoreTypes, WorkerTypes

\* The type invariant across claim_due.
LEMMA ClaimDueTypes ==
    ASSUME TypeOK, NEW w \in Workers, ClaimDue(w)
    PROVE  TypeOK'
<1> USE DEF TypeOK
<1>0. PICK pending \in SUBSET Pending(w), starting \in SUBSET DueTasks(w) :
        \E missed \in SUBSET (starting \cap MayMiss),
           after \in [starting -> 0 .. MaxRuns] :
              Take(w, pending, starting, missed, after)
  BY DEF ClaimDue
<1>1. PICK missed \in SUBSET (starting \cap MayMiss),
           after \in [starting -> 0 .. MaxRuns] :
         Take(w, pending, starting, missed, after)
  BY <1>0
<1>2. Taken(pending, starting, missed) \subseteq Runs
  BY TakenAreRuns
<1>3. StoreTypes'
  <2>1. status' \in [Tasks -> TaskStatuses]
    BY <1>1 DEF Take, StoreTypes, TaskStatuses
  <2>2. next' \in [Tasks -> 1 .. MaxRuns] /\ fresh' \in [Tasks -> 1 .. MaxRuns]
    <3> DEFINE goingOn == {t \in starting : after[t] # 0}
    <3>1. \A t \in goingOn : after[t] \in 1 .. MaxRuns
      BY TasksAssumption
    <3> QED
      BY <1>1, <3>1 DEF Take, StoreTypes
  <2>3. run' \in [Runs -> RowType]
    BY <1>1, ClaimedRowType DEF Take
  <2>4. claims' \in [Runs -> Nat]
    BY <1>1 DEF Take, StoreTypes
  <2> QED
    BY <2>1, <2>2, <2>3, <2>4 DEF ClaimDue, StoreTypes
<1>4. WorkerTypes'
  BY <1>1, <1>2 DEF ClaimDue, Take, Goto, WorkerTypes, Phases
<1> QED
  BY <1>3, <1>4 DEF ClaimDue, SinkTypes, sinkVars

\* The type invariant across the other steps of a worker's pass.
LEMMA PassTypes ==
    ASSUME TypeOK, NEW w \in Workers,
           List(w) \/ Reclaim(w) \/ \E r \in Runs : Begin(w, r)
    PROVE  TypeOK'
<1> USE DEF TypeOK
<1>1. CASE List(w)
  <2>1. InScope(w) \subseteq Tasks
    BY DEF InScope
  <2>2. WorkerTypes'
    BY <1>1, <2>1 DEF List, Goto, WorkerTypes, Phases
  <2> QED
    BY <1>1, <2>2 DEF List, storeVars, sinkVars, StoreTypes, SinkTypes
<1>2. CASE Reclaim(w)
  <2>1. run' \in [Runs -> RowType]
    BY <1>2, ReclaimedType DEF Reclaim, StoreTypes
  <2>2. WorkerTypes'
    BY <1>2 DEF Reclaim, Goto, WorkerTypes, Phases
  <2> QED
    BY <1>2, <2>1, <2>2 DEF Reclaim, sinkVars, StoreTypes, SinkTypes
<1>3. ASSUME NEW r \in Runs, Begin(w, r)
      PROVE  TypeOK'
  <2>1. batch' \in [Workers -> SUBSET Runs] /\ scope' = scope
    BY <1>3 DEF Begin, WorkerTypes
  <2>2. ASSUME run' = [run EXCEPT ![r].status = "DISPATCHING"],
               cur' = [cur EXCEPT ![w] = r],
               meta' = [meta EXCEPT ![w] = run[r].meta], Goto(w, "read")
        PROVE  StoreTypes' /\ WorkerTypes'
    <3>1. run[r] \in RowType
      BY DEF StoreTypes
    <3>2. run[r].meta \in Metas
          /\ [run[r] EXCEPT !.status = "DISPATCHING"] \in RowType
      BY <3>1 DEF RowType, RunStatuses
    <3>3. run' \in [Runs -> RowType]
      BY <2>2, <3>2 DEF StoreTypes
    <3> QED
      BY <1>3, <2>1, <2>2, <3>2, <3>3
      DEF Begin, Goto, StoreTypes, WorkerTypes, Phases
  <2>3. ASSUME NextRun(w, batch[w] \ {r}), UNCHANGED run
        PROVE  StoreTypes' /\ WorkerTypes'
    BY <1>3, <2>1, <2>3, NextRunTypes DEF Begin, StoreTypes, WorkerTypes
  <2>4. StoreTypes' /\ WorkerTypes'
    BY <1>3, <2>2, <2>3 DEF Begin
  <2> QED
    BY <1>3, <2>4 DEF Begin, sinkVars, SinkTypes
<1> QED
  BY <1>1, <1>2, <1>3
\* A run whose status alone changes stays a row.
LEMMA StatusChangeTypes ==
    ASSUME StoreTypes, NEW r, NEW st \in RunStatuses,
           run' = [run EXCEPT ![r].status = st]
    PROVE  run' \in [Runs -> RowType]
<1>1. \A x \in Runs : [run[x] EXCEPT !.status = st] \in RowType
  BY DEF StoreTypes, RowType
<1> QED
  BY <1>1 DEF StoreTypes

\* The type invariant across the steps that dispatch a run.
LEMMA DispatchTypes ==
    ASSUME TypeOK, NEW w \in Workers,
           \/ Read(w) \/ CancelRun(w) \/ Validate(w) \/ Salvage(w) \/ Reject(w)
           \/ Append(w) \/ Handoff(w) \/ Enqueue(w) \/ Mark(w) \/ Fail(w)
           \/ Crash(w)
    PROVE  TypeOK'
<1> USE DEF TypeOK
<1>b. batch \in [Workers -> SUBSET Runs] /\ scope \in [Workers -> SUBSET Tasks]
  BY DEF WorkerTypes
<1>1. CASE Read(w) \/ Validate(w) \/ Salvage(w) \/ Handoff(w) \/ Fail(w)
  <2>1. \/ \E phase \in Phases : Proceed(w, phase)
        \/ NextRun(w, batch[w])
    BY <1>1 DEF Read, Validate, Salvage, Handoff, Fail, Phases
  <2>2. UNCHANGED <<storeVars, sinkVars, qualified, resuming, scope, batch,
                    crashes, claims>>
    BY <1>1 DEF Read, Validate, Salvage, Handoff, Fail
  <2>3. WorkerTypes'
    BY <1>b, <2>1, <2>2, ProceedTypes, NextRunTypes
  <2> QED
    BY <2>2, <2>3 DEF storeVars, sinkVars, StoreTypes, SinkTypes
<1>2. CASE CancelRun(w)
  <2>1. run' \in [Runs -> RowType]
    BY <1>2, StatusChangeTypes DEF CancelRun, StoreTypes, RowType, RunStatuses
  <2>2. WorkerTypes'
    BY <1>2, <1>b, NextRunTypes DEF CancelRun
  <2> QED
    BY <1>2, <2>1, <2>2 DEF CancelRun, sinkVars, StoreTypes, SinkTypes
<1>3. CASE Reject(w)
  <2>1. run' \in [Runs -> RowType]
    BY <1>3, StatusChangeTypes DEF Reject, StoreTypes, RunStatuses
  <2>2. status' \in [Tasks -> TaskStatuses]
    BY <1>3 DEF Reject, StoreTypes, TaskStatuses
  <2>3. WorkerTypes'
    BY <1>3, <1>b, NextRunTypes DEF Reject
  <2> QED
    BY <1>3, <2>1, <2>2, <2>3 DEF Reject, sinkVars, StoreTypes, SinkTypes
<1>4. CASE Append(w)
  <2>1. journal' \in [Runs -> Metas \cup {"NONE"}]
    BY <1>4 DEF Append, Journaled, SinkTypes, WorkerTypes
  <2>2. PICK phase \in Phases : Proceed(w, phase)
    BY <1>4 DEF Append, Phases
  <2>3. WorkerTypes'
    BY <1>4, <2>2, ProceedTypes DEF Append
  <2> QED
    BY <1>4, <2>1, <2>3 DEF Append, storeVars, StoreTypes, SinkTypes
<1>5. CASE Enqueue(w)
  <2>1. request' \in [Runs -> RequestStatuses]
    BY <1>5 DEF Enqueue, Enqueued, SinkTypes, RequestStatuses
  <2>2. WorkerTypes'
    BY <1>5, ProceedTypes DEF Enqueue, Phases
  <2> QED
    BY <1>5, <2>1, <2>2 DEF Enqueue, storeVars, StoreTypes, SinkTypes
<1>6. CASE Mark(w)
  <2>1. run' \in [Runs -> RowType]
    <3>1. \A x \in Runs :
            [run[x] EXCEPT !.status = "COMPLETED", !.live = FALSE] \in RowType
      BY DEF StoreTypes, RowType, RunStatuses
    <3> QED
      BY <1>6, <3>1 DEF Mark, StoreTypes
  <2>2. WorkerTypes'
    BY <1>6, <1>b, NextRunTypes DEF Mark
  <2> QED
    BY <1>6, <2>1, <2>2 DEF Mark, sinkVars, StoreTypes, SinkTypes
<1>7. CASE Crash(w)
  <2>1. batch' \in [Workers -> SUBSET Runs] /\ scope' \in [Workers -> SUBSET Tasks]
    BY <1>7, <1>b DEF Crash
  <2>2. WorkerTypes'
    BY <1>7, <2>1, NextRunTypes DEF Crash
  <2> QED
    BY <1>7, <2>2 DEF Crash, storeVars, sinkVars, StoreTypes, SinkTypes
<1> QED
  BY <1>1, <1>2, <1>3, <1>4, <1>5, <1>6, <1>7

\* The type invariant across what the owner does.
LEMMA OwnerTypes ==
    ASSUME TypeOK, NEW t \in Tasks, Owner(t)
    PROVE  TypeOK'
<1> USE DEF TypeOK
<1>1. CASE Pause(t)
  <2>1. status' \in [Tasks -> TaskStatuses]
    BY <1>1 DEF Pause, StoreTypes, TaskStatuses
  <2> QED
    BY <1>1, <2>1 DEF Pause, sinkVars, workerVars, StoreTypes, SinkTypes,
       WorkerTypes
<1>2. CASE ResumeRead(t)
  <2> DEFINE passed == t \in Recurring /\ <<t, next[t]>> \in due
  <2>1. PICK n \in IF passed THEN Upcoming(t) ELSE {next[t]} :
          /\ resuming' = [resuming EXCEPT ![<<t, n>>] = @ + 1]
          /\ fresh' = [fresh EXCEPT ![t] = IF passed THEN n ELSE @]
    BY <1>2 DEF ResumeRead
  <2>a. fresh[t] \in 1 .. MaxRuns /\ next[t] \in 1 .. MaxRuns /\ MaxRuns \in Nat
    BY TasksAssumption DEF StoreTypes
  <2>b. Upcoming(t) \subseteq 1 .. MaxRuns
    BY <2>a DEF Upcoming
  <2>2. n \in 1 .. MaxRuns
    BY <2>1, <2>a, <2>b
  <2>3. fresh' \in [Tasks -> 1 .. MaxRuns]
    BY <2>1, <2>2 DEF StoreTypes
  <2>4. resuming' \in [Runs -> Nat]
    <3>1. <<t, n>> \in Runs
      BY <2>2 DEF Runs
    <3>2. resuming[<<t, n>>] + 1 \in Nat
      BY <3>1
    <3> QED
      BY <2>1, <3>2
  <2> QED
    BY <1>2, <2>3, <2>4 DEF ResumeRead, sinkVars, workerVars, StoreTypes,
       SinkTypes, WorkerTypes
<1>3. ASSUME NEW r \in RunsOf(t), ResumeWrite(r)
      PROVE  TypeOK'
  <2>1. TaskOf(r) \in Tasks /\ r[2] \in 1 .. MaxRuns /\ r \in Runs
    BY <1>3, RunHasTask DEF RunsOf
  <2>2. status' \in [Tasks -> TaskStatuses] /\ next' \in [Tasks -> 1 .. MaxRuns]
    BY <1>3, <2>1 DEF ResumeWrite, StoreTypes, TaskStatuses
  <2>3. resuming' \in [Runs -> Nat]
    BY <1>3, <2>1 DEF ResumeWrite
  <2> QED
    BY <1>3, <2>2, <2>3 DEF ResumeWrite, sinkVars, workerVars, StoreTypes,
       SinkTypes, WorkerTypes
<1>4. CASE Cancel(t)
  <2>1. status' \in [Tasks -> TaskStatuses]
    BY <1>4 DEF Cancel, StoreTypes, TaskStatuses
  <2>2. request' \in [Runs -> RequestStatuses]
    BY <1>4 DEF Cancel, SinkTypes, RequestStatuses
  <2>3. \A x \in Runs : [run[x] EXCEPT !.status = "CANCELLED", !.by = NoOne,
                                       !.live = FALSE] \in RowType
    BY DEF StoreTypes, RowType, RunStatuses
  <2>4. run' \in [Runs -> RowType]
    BY <1>4, <2>3 DEF Cancel, StoreTypes
  <2> QED
    BY <1>4, <2>1, <2>2, <2>4 DEF Cancel, workerVars, StoreTypes, SinkTypes,
       WorkerTypes
<1> QED
  BY <1>1, <1>2, <1>3, <1>4 DEF Owner

\* The type invariant across the watcher, the provider and the environment.
LEMMA OutsideTypes ==
    ASSUME TypeOK,
           \/ \E r \in Runs : Outside(r)
           \/ \E t \in Tasks : Requalify(t)
    PROVE  TypeOK'
<1> USE DEF TypeOK
<1>1. ASSUME NEW r \in Runs, Outside(r)
      PROVE  TypeOK'
  <2>1. request' \in [Runs -> RequestStatuses] /\ watching' \in Runs \cup {NoRun}
        /\ journal' = journal
    BY <1>1 DEF Outside, Watch, WatchEnqueue, Enqueued, ClaimRequest,
      AdmitCognition, BeginCognition, LoseStart, BecomeDue, LeaseEnds, SinkTypes,
      RequestStatuses, sinkVars
  <2>2. \A x \in Runs : [run[x] EXCEPT !.live = FALSE] \in RowType
    BY DEF StoreTypes, RowType
  <2>3. run' \in [Runs -> RowType] /\ due' \subseteq Runs
    BY <1>1, <2>2 DEF Outside, Watch, WatchEnqueue, ClaimRequest,
      AdmitCognition, BeginCognition, LoseStart, BecomeDue, LeaseEnds, StoreTypes, storeVars
  <2>4. UNCHANGED <<status, next, fresh, claims, qualified, resuming, workerVars,
                    crashes>>
    BY <1>1 DEF Outside, Watch, WatchEnqueue, ClaimRequest,
      AdmitCognition, BeginCognition, LoseStart, BecomeDue, LeaseEnds, storeVars
  <2> QED
    BY <2>1, <2>3, <2>4 DEF StoreTypes, SinkTypes, WorkerTypes, workerVars
<1>2. ASSUME NEW t \in Tasks, Requalify(t)
      PROVE  TypeOK'
  BY <1>2 DEF Requalify, storeVars, sinkVars, workerVars, StoreTypes,
     SinkTypes, WorkerTypes
<1> QED
  BY <1>1, <1>2

\* Nor does a stuttering step disturb it.
LEMMA StutterTypes ==
    ASSUME TypeOK, UNCHANGED vars
    PROVE  TypeOK'
BY DEF TypeOK, vars, storeVars, sinkVars, workerVars, StoreTypes, SinkTypes,
   WorkerTypes

\* The type invariant across any step.
LEMMA TypeStep == TypeOK /\ [Next]_vars => TypeOK'
<1> SUFFICES ASSUME TypeOK, [Next]_vars
             PROVE  TypeOK'
  OBVIOUS
<1>1. ASSUME NEW w \in Workers, Work(w) \/ Fail(w) \/ Crash(w)
      PROVE  TypeOK'
  BY <1>1, ClaimDueTypes, PassTypes, DispatchTypes DEF Work
<1> QED
  BY <1>1, OwnerTypes, OutsideTypes, StutterTypes DEF Next

\* Tables, queues and threads hold no value outside their types; in particular
\* an occurrence is never attempted more often than its task allows.
THEOREM TypeInvariant == Spec => []TypeOK
BY TypeInit, TypeStep, PTL DEF Spec

-----------------------------------------------------------------------------
(* What a step does to a run, a journaled event and a request.             *)

\* A step other than reclaim_expired and claim_due leaves the attempts alone,
\* opens no run, and does not touch the outcome of a settled one.
RunKept(r) ==
    /\ run'[r].attempt = run[r].attempt
    /\ run'[r].status \in {"ABSENT", "PENDING"} => run'[r].status = run[r].status
    /\ run[r].status \in Settled =>
          run'[r].status = run[r].status /\ run'[r].by = run[r].by

Claiming == \E w \in Workers : Reclaim(w) \/ ClaimDue(w)

\* A step that does not touch the runs keeps them.
LEMMA UntouchedRunIsKept == run' = run => \A r \in Runs : RunKept(r)
BY DEF RunKept

\* The steps of a worker that dispatches keep the runs.
LEMMA DispatchKeepsRuns ==
    ASSUME TypeOK, NEW w \in Workers,
           \/ List(w) \/ \E x \in Runs : Begin(w, x)
           \/ Read(w) \/ CancelRun(w) \/ Validate(w) \/ Salvage(w) \/ Reject(w)
           \/ Append(w) \/ Handoff(w) \/ Enqueue(w) \/ Mark(w) \/ Fail(w)
           \/ Crash(w)
    PROVE  claims' = claims /\ \A r \in Runs : RunKept(r)
<1>0. run \in [Runs -> RowType]
  BY DEF TypeOK, StoreTypes
<1>1. CASE \/ List(w) \/ Read(w) \/ Validate(w) \/ Salvage(w) \/ Append(w)
           \/ Handoff(w) \/ Enqueue(w) \/ Fail(w) \/ Crash(w)
  BY <1>1, UntouchedRunIsKept
  DEF List, Read, Validate, Salvage, Append, Handoff, Enqueue, Fail, Crash,
      storeVars
<1>2. ASSUME NEW x \in Runs, Begin(w, x)
      PROVE  claims' = claims /\ \A r \in Runs : RunKept(r)
  BY <1>0, <1>2 DEF Begin, Owns, RunKept, RowType, Settled
<1>3. CASE CancelRun(w)
  BY <1>0, <1>3 DEF CancelRun, RunKept, RowType, Settled
<1>4. CASE Reject(w)
  BY <1>0, <1>4 DEF Reject, RunKept, RowType, Settled
<1>5. CASE Mark(w)
  BY <1>0, <1>5 DEF Mark, Owns, RunKept, RowType, Settled
<1> QED
  BY <1>1, <1>2, <1>3, <1>4, <1>5

\* So do the owner and the environment.
LEMMA OthersKeepRuns ==
    ASSUME TypeOK,
           \/ \E t \in Tasks : Owner(t) \/ Requalify(t)
           \/ \E r \in Runs : Outside(r)
           \/ UNCHANGED vars
    PROVE  claims' = claims /\ \A r \in Runs : RunKept(r)
<1>0. run \in [Runs -> RowType]
  BY DEF TypeOK, StoreTypes
<1>1. ASSUME NEW t \in Tasks, Owner(t) \/ Requalify(t)
      PROVE  claims' = claims /\ \A r \in Runs : RunKept(r)
  <2>1. CASE Cancel(t)
    BY <1>0, <2>1 DEF Cancel, RunKept, RowType, Settled
  <2>2. CASE ~Cancel(t)
    BY <1>1, <2>2, UntouchedRunIsKept
    DEF Owner, Requalify, Pause, ResumeRead, ResumeWrite, storeVars
  <2> QED
    BY <2>1, <2>2
<1>2. ASSUME NEW x \in Runs, Outside(x)
      PROVE  claims' = claims /\ \A r \in Runs : RunKept(r)
  <2>1. CASE LeaseEnds(x)
    BY <1>0, <2>1 DEF LeaseEnds, RunKept, RowType, Settled
  <2>2. CASE ~LeaseEnds(x)
    BY <1>2, <2>2, UntouchedRunIsKept
    DEF Outside, Watch, WatchEnqueue, ClaimRequest,
        AdmitCognition, BeginCognition, LoseStart, BecomeDue, storeVars
  <2> QED
    BY <2>1, <2>2
<1>3. CASE UNCHANGED vars
  BY <1>3, UntouchedRunIsKept DEF vars, storeVars
<1> QED
  BY <1>1, <1>2, <1>3

\* Every step that does not claim or reclaim keeps the runs.
LEMMA OtherStepsKeepRuns ==
    ASSUME TypeOK, [Next]_vars, ~Claiming
    PROVE  claims' = claims /\ \A r \in Runs : RunKept(r)
BY DispatchKeepsRuns, OthersKeepRuns DEF Next, Work, Claiming

\* Neither a reclaim nor a claim touches the outcome of a settled run.
LEMMA ClaimingKeepsSettled ==
    ASSUME TypeOK, Claiming, NEW r \in Runs, run[r].status \in Settled
    PROVE  run'[r] = run[r]
<1>1. ASSUME NEW w \in Workers, Reclaim(w)
      PROVE  run'[r] = run[r]
  BY <1>1 DEF Reclaim, Settled
<1>2. ASSUME NEW w \in Workers, ClaimDue(w)
      PROVE  run'[r] = run[r]
  <2>1. PICK pending \in SUBSET Pending(w), starting \in SUBSET DueTasks(w) :
          \E missed \in SUBSET (starting \cap MayMiss),
             after \in [starting -> 0 .. MaxRuns] :
                Take(w, pending, starting, missed, after)
    BY <1>2 DEF ClaimDue
  <2>2. PICK missed \in SUBSET (starting \cap MayMiss),
             after \in [starting -> 0 .. MaxRuns] :
           Take(w, pending, starting, missed, after)
    BY <2>1
  <2>3. r \notin Pending(w) /\ r \notin Missing(starting)
    BY DEF Pending, Missing, Settled
  <2> QED
    BY <2>2, <2>3 DEF Take, ClaimedRow
<1> QED
  BY <1>1, <1>2 DEF Claiming

\* Journaled events and requests stay once they are there.
LEMMA EmittedStays ==
    ASSUME TypeOK, [Next]_vars, NEW r \in Runs
    PROVE  /\ journal[r] # "NONE" => journal'[r] # "NONE"
           /\ request[r] # "NONE" => request'[r] # "NONE"
<1>0. journal \in [Runs -> Metas \cup {"NONE"}] /\ request \in [Runs -> RequestStatuses]
  BY DEF TypeOK, SinkTypes
<1>1. ASSUME NEW w \in Workers, Work(w) \/ Fail(w) \/ Crash(w)
      PROVE  /\ journal[r] # "NONE" => journal'[r] # "NONE"
             /\ request[r] # "NONE" => request'[r] # "NONE"
  <2>1. CASE Append(w)
    BY <1>0, <2>1 DEF Append, Journaled
  <2>2. CASE Enqueue(w)
    BY <1>0, <2>2 DEF Enqueue, Enqueued
  <2>3. CASE ~Append(w) /\ ~Enqueue(w)
    BY <1>1, <2>3
    DEF Work, List, Reclaim, ClaimDue, Begin, Read, CancelRun, Validate,
        Salvage, Reject, Handoff, Mark, Fail, Crash, sinkVars
  <2> QED
    BY <2>1, <2>2, <2>3
<1>2. ASSUME NEW t \in Tasks, Owner(t) \/ Requalify(t)
      PROVE  /\ journal[r] # "NONE" => journal'[r] # "NONE"
             /\ request[r] # "NONE" => request'[r] # "NONE"
  <2>1. CASE Cancel(t)
    BY <1>0, <2>1 DEF Cancel
  <2>2. CASE ~Cancel(t)
    BY <1>2, <2>2
    DEF Owner, Requalify, Pause, ResumeRead, ResumeWrite, sinkVars
  <2> QED
    BY <2>1, <2>2
<1>3. ASSUME NEW x \in Runs, Outside(x)
      PROVE  /\ journal[r] # "NONE" => journal'[r] # "NONE"
             /\ request[r] # "NONE" => request'[r] # "NONE"
  BY <1>0, <1>3
  DEF Outside, Watch, WatchEnqueue, Enqueued, ClaimRequest,
      AdmitCognition, BeginCognition, LoseStart, BecomeDue, LeaseEnds, sinkVars
<1>4. CASE UNCHANGED vars
  BY <1>4 DEF vars, sinkVars
<1> QED
  BY <1>1, <1>2, <1>3, <1>4 DEF Next

-----------------------------------------------------------------------------
(* The theorems.                                                           *)

\* A settled occurrence is never claimed, dispatched or settled again: no old
\* claim, resume or reclaim reopens it.
THEOREM SettledIsFinal == Spec => SettledStaysSettled
<1>1. ASSUME TypeOK, [Next]_vars, NEW r \in Runs, run[r].status \in Settled
      PROVE  run'[r].status = run[r].status
  BY <1>1, OtherStepsKeepRuns, ClaimingKeepsSettled DEF RunKept
<1>2. TypeOK /\ [Next]_vars =>
        [\A r \in Runs : run[r].status \in Settled
                             => run'[r].status = run[r].status]_vars
  BY <1>1
<1> QED
  BY <1>2, TypeInvariant, PTL DEF Spec, SettledStaysSettled

\* The claims of a run are counted in its row, and a waiting run has one
\* attempt left.
CountInv ==
    \A r \in Runs :
        /\ claims[r] <= run[r].attempt
        /\ run[r].status = "ABSENT" => claims[r] = 0
        /\ run[r].status = "PENDING" => claims[r] < run[r].attempt

\* The count across reclaim_expired.
LEMMA ReclaimCounts ==
    ASSUME TypeOK, CountInv, NEW w \in Workers, Reclaim(w)
    PROVE  CountInv'
<1> SUFFICES ASSUME NEW r \in Runs
             PROVE  /\ claims'[r] <= run'[r].attempt
                    /\ run'[r].status = "ABSENT" => claims'[r] = 0
                    /\ run'[r].status = "PENDING" => claims'[r] < run'[r].attempt
  BY DEF CountInv
<1>0. run[r] \in RowType /\ claims[r] \in Nat /\ claims' = claims
  BY DEF Reclaim, TypeOK, StoreTypes
<1>1. \/ run'[r] = run[r]
      \/ /\ run'[r] = Reclaimed(run[r])
         /\ run[r].status \in {"CLAIMED", "DISPATCHING"}
  BY DEF Reclaim
<1>2. CASE run'[r] = run[r]
  BY <1>0, <1>2 DEF CountInv
<1>3. CASE /\ run'[r] = Reclaimed(run[r])
           /\ run[r].status \in {"CLAIMED", "DISPATCHING"}
  <2>1. CASE run[r].attempt >= MaxAttempts
    BY <1>0, <1>3, <2>1 DEF CountInv, Reclaimed, RowType
  <2>2. CASE ~(run[r].attempt >= MaxAttempts)
    BY <1>0, <1>3, <2>2 DEF CountInv, Reclaimed, RowType
  <2> QED
    BY <2>1, <2>2
<1> QED
  BY <1>1, <1>2, <1>3

\* The count across claim_due.
LEMMA ClaimCounts ==
    ASSUME TypeOK, CountInv, NEW w \in Workers, ClaimDue(w)
    PROVE  CountInv'
<1>1. PICK pending \in SUBSET Pending(w), starting \in SUBSET DueTasks(w) :
        \E missed \in SUBSET (starting \cap MayMiss),
           after \in [starting -> 0 .. MaxRuns] :
              Take(w, pending, starting, missed, after)
  BY DEF ClaimDue
<1>2. PICK missed \in SUBSET (starting \cap MayMiss),
           after \in [starting -> 0 .. MaxRuns] :
         Take(w, pending, starting, missed, after)
  BY <1>1
<1> SUFFICES ASSUME NEW r \in Runs
             PROVE  /\ claims'[r] <= run'[r].attempt
                    /\ run'[r].status = "ABSENT" => claims'[r] = 0
                    /\ run'[r].status = "PENDING" => claims'[r] < run'[r].attempt
  BY DEF CountInv
<1>0. run[r] \in RowType /\ claims[r] \in Nat
  BY DEF TypeOK, StoreTypes
<1>3. /\ run'[r] = ClaimedRow(w, r, pending, starting, missed)
      /\ claims'[r] = IF r \in Taken(pending, starting, missed)
                      THEN claims[r] + 1 ELSE claims[r]
  BY <1>2 DEF Take
<1>4. CASE r \in pending
  <2>1. run[r].status = "PENDING" /\ claims'[r] = claims[r] + 1
    BY <1>3, <1>4 DEF Pending, Taken
  <2>2. run'[r].status = "CLAIMED" /\ run'[r].attempt = run[r].attempt
    BY <1>0, <1>3, <1>4 DEF ClaimedRow, RowType
  <2>3. claims[r] < run[r].attempt
    BY <2>1 DEF CountInv
  <2> QED
    BY <1>0, <2>1, <2>2, <2>3 DEF RowType
<1>5. CASE r \notin pending /\ r \in Missing(starting)
  <2>1. claims[r] = 0
    BY <1>5 DEF Missing, CountInv
  <2>2. run'[r].attempt = 1 /\ run'[r].status \in {"MISSED", "CLAIMED"}
    BY <1>3, <1>5 DEF ClaimedRow, Row
  <2> QED
    BY <1>3, <2>1, <2>2
<1>6. CASE r \notin pending /\ r \notin Missing(starting)
  BY <1>3, <1>6 DEF ClaimedRow, Taken, CountInv
<1> QED
  BY <1>4, <1>5, <1>6

\* An occurrence is claimed at most max_attempts times.
THEOREM AttemptsBounded == Spec => []AttemptsAreBounded
<1>1. Init => CountInv
  BY DEF Init, CountInv, NoRow, Row
<1>2. TypeOK /\ CountInv /\ [Next]_vars => CountInv'
  <2> SUFFICES ASSUME TypeOK, CountInv, [Next]_vars
               PROVE  CountInv'
    OBVIOUS
  <2>1. CASE Claiming
    BY <2>1, ReclaimCounts, ClaimCounts DEF Claiming
  <2>2. CASE ~Claiming
    BY <2>2, OtherStepsKeepRuns DEF RunKept, CountInv
  <2> QED
    BY <2>1, <2>2
<1>3. TypeOK /\ CountInv => AttemptsAreBounded
  <2> SUFFICES ASSUME TypeOK, CountInv, NEW r \in Runs
               PROVE  claims[r] <= MaxAttempts
    BY DEF AttemptsAreBounded
  <2>1. run[r].attempt \in 0 .. MaxAttempts /\ claims[r] \in Nat
    BY DEF TypeOK, StoreTypes, RowType
  <2>2. MaxAttempts \in Nat /\ claims[r] <= run[r].attempt
    BY TasksAssumption DEF CountInv
  <2> QED
    BY <2>1, <2>2
<1> QED
  BY <1>1, <1>2, <1>3, TypeInvariant, PTL DEF Spec

\* No request of a cancelled or failed task gets past the guard, and such a task is
\* never opened again.
THEOREM ClosedIsQuiet == Spec => ClosedStaysQuiet
<1>1. ASSUME TypeOK, [Next]_vars, NEW r \in Runs, status[TaskOf(r)] \in Closed
      PROVE  /\ status'[TaskOf(r)] \in Closed
             /\ request'[r] \in Past => request[r] \in Past
  <2> DEFINE Quiet == /\ status'[TaskOf(r)] \in Closed
                      /\ request'[r] \in Past => request[r] \in Past
  <2>0. /\ TaskOf(r) \in Tasks
        /\ status \in [Tasks -> TaskStatuses]
        /\ request \in [Runs -> RequestStatuses]
    BY <1>1, RunHasTask DEF TypeOK, StoreTypes, SinkTypes
  <2>1. ASSUME NEW w \in Workers, Work(w) \/ Fail(w) \/ Crash(w)
        PROVE  Quiet
    <3>1. CASE ClaimDue(w)
      <4>1. PICK pending \in SUBSET Pending(w), starting \in SUBSET DueTasks(w) :
              \E missed \in SUBSET (starting \cap MayMiss),
                 after \in [starting -> 0 .. MaxRuns] :
                    Take(w, pending, starting, missed, after)
        BY <3>1 DEF ClaimDue
      <4>2. TaskOf(r) \notin starting
        BY <1>1 DEF DueTasks, Closed
      <4> QED
        BY <1>1, <2>0, <3>1, <4>1, <4>2 DEF ClaimDue, Take, sinkVars
    <3>2. CASE Reject(w)
      BY <1>1, <2>0, <3>2 DEF Reject, sinkVars, Closed
    <3>3. CASE Enqueue(w)
      BY <1>1, <2>0, <3>3 DEF Enqueue, Enqueued, Past, storeVars
    <3>4. CASE ~ClaimDue(w) /\ ~Reject(w) /\ ~Enqueue(w)
      BY <1>1, <2>1, <3>4
      DEF Work, List, Reclaim, Begin, Read, CancelRun, Validate, Salvage,
          Append, Handoff, Mark, Fail, Crash, storeVars, sinkVars
    <3> QED
      BY <3>1, <3>2, <3>3, <3>4
  <2>2. ASSUME NEW t \in Tasks, Owner(t) \/ Requalify(t)
        PROVE  Quiet
    <3>1. CASE Cancel(t)
      BY <1>1, <2>0, <3>1 DEF Cancel, Waiting, Past, Closed
    <3>2. CASE \E x \in RunsOf(t) : ResumeWrite(x)
      BY <1>1, <2>0, <3>2 DEF ResumeWrite, sinkVars, Closed
    <3>3. CASE ~Cancel(t) /\ ~(\E x \in RunsOf(t) : ResumeWrite(x))
      BY <1>1, <2>0, <2>2, <3>3
      DEF Owner, Requalify, Pause, ResumeRead, storeVars, sinkVars, Closed
    <3> QED
      BY <3>1, <3>2, <3>3
  <2>3. ASSUME NEW x \in Runs, Outside(x)
        PROVE  Quiet
    <3>1. CASE AdmitCognition(x)
      <4>1. status[TaskOf(x)] \in {"ACTIVE", "COMPLETED"}
        BY <3>1 DEF AdmitCognition, Admissible, Valid, Saved
      <4>2. x # r
        BY <1>1, <4>1 DEF Closed
      <4> QED
        BY <1>1, <2>0, <3>1, <4>2 DEF AdmitCognition, storeVars
    <3>2. CASE BeginCognition(x) \/ LoseStart(x)
      BY <1>1, <2>0, <3>2 DEF BeginCognition, LoseStart, Past, storeVars
    <3>3. CASE ~AdmitCognition(x) /\ ~BeginCognition(x) /\ ~LoseStart(x)
      BY <1>1, <2>0, <2>3, <3>3
      DEF Outside, Watch, WatchEnqueue, Enqueued, ClaimRequest, Past, BecomeDue,
          LeaseEnds, storeVars, sinkVars
    <3> QED
      BY <3>1, <3>2, <3>3
  <2>4. CASE UNCHANGED vars
    BY <1>1, <2>4 DEF vars, storeVars, sinkVars
  <2> QED
    BY <1>1, <2>1, <2>2, <2>3, <2>4 DEF Next
<1>2. TypeOK /\ [Next]_vars =>
        [\A r \in Runs :
            status[TaskOf(r)] \in Closed =>
                /\ status'[TaskOf(r)] \in Closed
                /\ request'[r] \in Past => request[r] \in Past]_vars
  BY <1>1
<1> QED
  BY <1>2, TypeInvariant, PTL DEF Spec, ClosedStaysQuiet

\* Where a worker is in its dispatch: past the append the event is journaled,
\* and before it marks the run the owner's sink has enqueued the request.
EmittedInv ==
    /\ \A w \in Workers :
          /\ pc[w] \notin {"idle", "reclaim", "claim", "next"} => cur[w] \in Runs
          /\ pc[w] \in {"handoff", "enqueue", "mark"} => journal[cur[w]] # "NONE"
          /\ pc[w] = "mark" /\ IdOf[w] \in OwnerSinks => request[cur[w]] # "NONE"
    /\ CompletedWasEmitted

\* What the invariant says of one worker, and of one run.
WorkerEmitted(w) ==
    /\ pc[w] \notin {"idle", "reclaim", "claim", "next"} => cur[w] \in Runs
    /\ pc[w] \in {"handoff", "enqueue", "mark"} => journal[cur[w]] # "NONE"
    /\ pc[w] = "mark" /\ IdOf[w] \in OwnerSinks => request[cur[w]] # "NONE"

RunEmitted(r) ==
    run[r].status = "COMPLETED" =>
        /\ journal[r] # "NONE"
        /\ run[r].by \in OwnerSinks => request[r] # "NONE"

LEMMA EmittedParts ==
    EmittedInv <=> /\ \A w \in Workers : WorkerEmitted(w)
                   /\ \A r \in Runs : RunEmitted(r)
BY DEF EmittedInv, CompletedWasEmitted, WorkerEmitted, RunEmitted

\* A worker that does not move keeps what is known of its run.
LEMMA WaitingStaysEmitted ==
    ASSUME TypeOK, [Next]_vars, NEW w \in Workers, WorkerEmitted(w),
           pc'[w] = pc[w], cur'[w] = cur[w]
    PROVE  WorkerEmitted(w)'
BY EmittedStays DEF WorkerEmitted

\* A step that is no worker's leaves all workers where they are.
LEMMA OthersDoNotMove ==
    ASSUME \/ \E t \in Tasks : Owner(t) \/ Requalify(t)
           \/ \E r \in Runs : Outside(r)
           \/ UNCHANGED vars
    PROVE  pc' = pc /\ cur' = cur
BY DEF Owner, Requalify, Pause, ResumeRead, ResumeWrite, Cancel, Outside, Watch,
   WatchEnqueue, ClaimRequest,
   AdmitCognition, BeginCognition, LoseStart, BecomeDue, LeaseEnds, vars,
   workerVars

\* A worker leaves the others where they are.
LEMMA WorkMovesOne ==
    ASSUME TypeOK, NEW w \in Workers, Work(w) \/ Fail(w) \/ Crash(w),
           NEW v \in Workers, v # w
    PROVE  pc'[v] = pc[v] /\ cur'[v] = cur[v]
<1>0. pc \in [Workers -> Phases] /\ cur \in [Workers -> Runs \cup {NoRun}]
  BY DEF TypeOK, WorkerTypes
<1>1. CASE ClaimDue(w)
  <2>1. cur' = cur /\ \E phase : Goto(w, phase)
    BY <1>1 DEF ClaimDue, Take
  <2> QED
    BY <1>0, <2>1 DEF Goto
<1>2. CASE ~ClaimDue(w)
  BY <1>0, <1>2
  DEF Work, List, Reclaim, Begin, Read, CancelRun, Validate, Salvage, Reject,
      Append, Handoff, Enqueue, Mark, Fail, Crash, NextRun, Proceed, Goto
<1> QED
  BY <1>1, <1>2

\* A worker that moves knows of its run what its new phase says.
LEMMA WorkEmits ==
    ASSUME TypeOK, NEW w \in Workers, WorkerEmitted(w),
           Work(w) \/ Fail(w) \/ Crash(w)
    PROVE  WorkerEmitted(w)'
<1>0. /\ pc \in [Workers -> Phases] /\ cur \in [Workers -> Runs \cup {NoRun}]
      /\ journal \in [Runs -> Metas \cup {"NONE"}]
      /\ request \in [Runs -> RequestStatuses]
      /\ meta \in [Workers -> Metas]
  BY DEF TypeOK, WorkerTypes, SinkTypes
<1>1. CASE ClaimDue(w)
  <2>1. \E phase \in {"idle", "next"} : Goto(w, phase)
    BY <1>1 DEF ClaimDue, Take
  <2> QED
    BY <1>0, <2>1 DEF Goto, WorkerEmitted
<1>2. CASE List(w) \/ Reclaim(w) \/ Fail(w) \/ Crash(w)
  BY <1>0, <1>2 DEF List, Reclaim, Fail, Crash, NextRun, Goto, WorkerEmitted
<1>3. ASSUME NEW r \in Runs, Begin(w, r)
      PROVE  WorkerEmitted(w)'
  BY <1>0, <1>3 DEF Begin, NextRun, Goto, WorkerEmitted
<1>4. CASE \/ Read(w) \/ CancelRun(w) \/ Validate(w) \/ Salvage(w)
           \/ Reject(w) \/ Mark(w)
  BY <1>0, <1>4
  DEF Read, CancelRun, Validate, Salvage, Reject, Mark, NextRun, Proceed, Goto,
      WorkerEmitted
<1>5. CASE Append(w)
  <2>1. cur'[w] = cur[w] /\ cur[w] \in Runs
    BY <1>5 DEF Append, Proceed, WorkerEmitted
  <2>2. journal'[cur[w]] # "NONE"
    BY <1>0, <1>5, <2>1 DEF Append, Journaled, Metas
  <2>3. pc'[w] = IF IdOf[w] \in OwnerSinks THEN "handoff" ELSE "mark"
    BY <1>0, <1>5 DEF Append, Proceed, Goto
  <2> QED
    BY <2>1, <2>2, <2>3 DEF WorkerEmitted
<1>6. CASE Handoff(w)
  BY <1>0, <1>6 DEF Handoff, sinkVars, NextRun, Proceed, Goto, WorkerEmitted
<1>7. CASE Enqueue(w)
  <2>1. cur'[w] = cur[w] /\ cur[w] \in Runs /\ journal[cur[w]] # "NONE"
    BY <1>7 DEF Enqueue, Proceed, WorkerEmitted
  <2>2. request'[cur[w]] # "NONE" /\ journal' = journal
    BY <1>0, <1>7, <2>1 DEF Enqueue, Enqueued
  <2> QED
    BY <2>1, <2>2 DEF WorkerEmitted
<1> QED
  BY <1>1, <1>2, <1>3, <1>4, <1>5, <1>6, <1>7 DEF Work

\* A run gets COMPLETED only when a worker marks it.
LEMMA OnlyMarkCompletes ==
    ASSUME TypeOK, [Next]_vars, NEW r \in Runs, run'[r].status = "COMPLETED",
           run[r].status # "COMPLETED"
    PROVE  \E w \in Workers :
              /\ pc[w] = "mark" /\ cur[w] = r
              /\ run'[r].by = IdOf[w]
              /\ UNCHANGED sinkVars
<1>0. run \in [Runs -> RowType]
  BY DEF TypeOK, StoreTypes
<1>1. ASSUME NEW w \in Workers, Work(w) \/ Fail(w) \/ Crash(w)
      PROVE  Mark(w) /\ cur[w] = r
  <2>1. CASE ClaimDue(w)
    <3>1. PICK pending \in SUBSET Pending(w), starting \in SUBSET DueTasks(w) :
            \E missed \in SUBSET (starting \cap MayMiss),
               after \in [starting -> 0 .. MaxRuns] :
                  Take(w, pending, starting, missed, after)
      BY <2>1 DEF ClaimDue
    <3>2. PICK missed \in SUBSET (starting \cap MayMiss),
               after \in [starting -> 0 .. MaxRuns] :
             Take(w, pending, starting, missed, after)
      BY <3>1
    <3>3. run'[r] = ClaimedRow(w, r, pending, starting, missed)
      BY <3>2 DEF Take
    <3>4. run'[r] = run[r] \/ run'[r].status \in {"CLAIMED", "MISSED"}
      BY <1>0, <3>3 DEF ClaimedRow, Row, RowType
    <3> QED
      BY <3>4
  <2>2. CASE Reclaim(w)
    BY <1>0, <2>2 DEF Reclaim, Reclaimed, RowType
  <2>3. CASE Mark(w)
    BY <1>0, <2>3 DEF Mark, RowType
  <2>4. CASE CancelRun(w)
    BY <1>0, <2>4 DEF CancelRun, RowType
  <2>5. CASE Reject(w)
    BY <1>0, <2>5 DEF Reject, RowType
  <2>6. CASE \E x \in Runs : Begin(w, x)
    BY <1>0, <2>6 DEF Begin, RowType
  <2>7. CASE run' = run
    BY <2>7
  <2>8. ASSUME ~ClaimDue(w), ~Reclaim(w), ~Mark(w), ~CancelRun(w), ~Reject(w),
               ~(\E x \in Runs : Begin(w, x))
        PROVE  run' = run
    BY <1>1, <2>8
    DEF Work, List, Read, Validate, Salvage, Append, Handoff, Enqueue, Fail,
        Crash, storeVars
  <2> QED
    BY <2>1, <2>2, <2>3, <2>4, <2>5, <2>6, <2>7, <2>8
<1>2. ASSUME NEW t \in Tasks, Owner(t) \/ Requalify(t)
      PROVE  FALSE
  <2>1. CASE Cancel(t)
    BY <1>0, <2>1 DEF Cancel, RowType
  <2>2. CASE ~Cancel(t)
    BY <1>2, <2>2
    DEF Owner, Requalify, Pause, ResumeRead, ResumeWrite, storeVars
  <2> QED
    BY <2>1, <2>2
<1>3. ASSUME NEW x \in Runs, Outside(x)
      PROVE  FALSE
  BY <1>0, <1>3
  DEF Outside, Watch, WatchEnqueue, ClaimRequest,
      AdmitCognition, BeginCognition, LoseStart, BecomeDue,
      LeaseEnds, RowType, storeVars
<1>4. PICK w \in Workers : Mark(w) /\ cur[w] = r
  BY <1>1, <1>2, <1>3 DEF Next, vars, storeVars
<1>5. Owns(w, r, "DISPATCHING")
  BY <1>4 DEF Mark
<1>6. run'[r].by = IdOf[w]
  BY <1>0, <1>4, <1>5 DEF Mark, Owns, RowType
<1> QED
  BY <1>4, <1>6 DEF Mark

\* A COMPLETED run was emitted: its event is in the journal and, from the
\* owner's sink, its request in the queue.
THEOREM CompletedEmitted == Spec => []CompletedWasEmitted
<1>1. Init => EmittedInv
  BY DEF Init, EmittedInv, CompletedWasEmitted, NoRow, Row
<1>2. TypeOK /\ EmittedInv /\ [Next]_vars => EmittedInv'
  <2> SUFFICES ASSUME TypeOK, EmittedInv, [Next]_vars
               PROVE  EmittedInv'
    OBVIOUS
  <2>1. ASSUME NEW v \in Workers
        PROVE  WorkerEmitted(v)'
    <3>0. WorkerEmitted(v)
      BY EmittedParts
    <3>1. CASE pc'[v] = pc[v] /\ cur'[v] = cur[v]
      BY <3>0, <3>1, WaitingStaysEmitted
    <3>2. CASE Work(v) \/ Fail(v) \/ Crash(v)
      BY <3>0, <3>2, WorkEmits
    <3>3. \/ pc'[v] = pc[v] /\ cur'[v] = cur[v]
          \/ Work(v) \/ Fail(v) \/ Crash(v)
      BY WorkMovesOne, OthersDoNotMove DEF Next
    <3> QED
      BY <3>1, <3>2, <3>3
  <2>2. ASSUME NEW r \in Runs
        PROVE  RunEmitted(r)'
    <3>1. CASE run[r].status = "COMPLETED"
      <4>1. run'[r].status = run[r].status /\ run'[r].by = run[r].by
        BY <3>1, OtherStepsKeepRuns, ClaimingKeepsSettled DEF RunKept, Settled
      <4>2. RunEmitted(r)
        BY EmittedParts
      <4> QED
        BY <3>1, <4>1, <4>2, EmittedStays DEF RunEmitted
    <3>2. CASE run[r].status # "COMPLETED" /\ run'[r].status = "COMPLETED"
      <4>1. PICK w \in Workers : /\ pc[w] = "mark" /\ cur[w] = r
                                 /\ run'[r].by = IdOf[w]
                                 /\ UNCHANGED sinkVars
        BY <3>2, OnlyMarkCompletes
      <4>2. WorkerEmitted(w)
        BY EmittedParts
      <4> QED
        BY <4>1, <4>2 DEF WorkerEmitted, RunEmitted, sinkVars
    <3>3. CASE run'[r].status # "COMPLETED"
      BY <3>3 DEF RunEmitted
    <3> QED
      BY <3>1, <3>2, <3>3
  <2> QED
    BY <2>1, <2>2 DEF EmittedInv, CompletedWasEmitted, WorkerEmitted, RunEmitted
<1>3. EmittedInv => CompletedWasEmitted
  BY DEF EmittedInv
<1> QED
  BY <1>1, <1>2, <1>3, TypeInvariant, PTL DEF Spec
=============================================================================
