------------------------------ MODULE DurableTasks ------------------------------
(***************************************************************************)
(* The durable task engine of ANIMA (src/anima_ha/tasks.py) with the sink  *)
(* that hands the owner's saved tasks to the intelligence queue            *)
(* (src/anima_ha/owner_task_results.py).                                   *)
(*                                                                         *)
(* Workers poll the task store: each reclaims expired leases, claims due   *)
(* occurrences, and for every claimed run begins the dispatch, emits the   *)
(* event into the journal, and marks the run.  The owner pauses, resumes   *)
(* and cancels tasks meanwhile; the journal's watcher hands events off on  *)
(* its own; the provider takes the requests.                               *)
(*                                                                         *)
(* Time is what it decides: an occurrence becomes due, a lease ends.  The  *)
(* k-th occurrence time computed for a task is the number k.               *)
(***************************************************************************)
EXTENDS Naturals, FiniteSets

CONSTANTS
    Tasks,        \* task_ids
    Recurring,    \* tasks of kind INTERVAL or CRON; the others are ONCE
    MayMiss,      \* tasks with a misfire grace or the SKIP policy
    MaxRuns,      \* bound on the occurrence times computed for a task
    Workers,      \* dispatcher threads, of any process
    IdOf,         \* [Workers -> worker_id]; a restarted worker keeps its id
    OwnerSinks,   \* worker_ids whose event sink is OwnerTaskResults
    NoOne,        \* claimed_by of an unclaimed run
    NoRun,        \* the run of a worker that dispatches none
    Limit,        \* limit of claim_due
    MaxAttempts,  \* max_attempts of a task
    MaxResumes,   \* bound on the resumes about to write one occurrence
    MaxCrashes    \* bound on the crashes of workers

Runs == Tasks \X (1 .. MaxRuns)
\* The ids of the Core's worker threads, and of the worker process of the command line.
WorkerIds == [w \in Workers |-> IF w = "cli" THEN "anima-task-worker" ELSE "owner-task"]

Ids == {IdOf[w] : w \in Workers}

ASSUME TasksAssumption ==
    /\ Recurring \subseteq Tasks
    /\ MayMiss \subseteq Tasks
    /\ MaxRuns \in Nat \ {0}
    /\ IdOf \in [Workers -> Ids]
    /\ OwnerSinks \subseteq Ids
    /\ NoOne \notin Ids
    /\ NoRun \notin Runs
    /\ Limit \in Nat \ {0}
    /\ MaxAttempts \in Nat \ {0}
    /\ MaxResumes \in Nat
    /\ MaxCrashes \in Nat

TaskStatuses == {"ACTIVE", "PAUSED", "CANCELLED", "COMPLETED", "FAILED"}

\* "ABSENT": the table has no such row.
RunStatuses == {"ABSENT", "PENDING", "CLAIMED", "DISPATCHING", "COMPLETED",
                "FAILED", "CANCELLED", "MISSED"}

\* The intelligence request of a run: its lifecycle up to the provider's start.
\* ADMITTED: claimed, and the handler of the start is past the owner task's guard.
RequestStatuses == {"NONE", "PENDING", "CLAIMED", "ADMITTED", "BEGUN", "CANCELLED"}

VARIABLES
    status,     \* anima_durable_tasks.status
    next,       \* the occurrence that next_run_at stands for
    fresh,      \* the last occurrence time computed for the task
    due,        \* occurrences whose time has come
    run,        \* anima_durable_task_runs
    journal,    \* per run: "NONE", or the metadata in its journaled event
    request,    \* per run: its intelligence request
    qualified,  \* tasks whose creator and schedule qualify at the moment
    resuming,   \* per occurrence: the resumes that are about to write it
    watching,   \* the run the journal's watcher has validated
    pc,         \* phase of each worker
    scope,      \* tasks its pass is about
    batch,      \* runs it has claimed and not yet begun
    cur,        \* the run it dispatches
    meta,       \* the metadata in the event it has built
    crashes,    \* crashes so far
    claims      \* history: claims of each run

storeVars == <<status, next, fresh, due, run>>
sinkVars == <<journal, request, watching>>
workerVars == <<pc, scope, batch, cur, meta>>
vars == <<storeVars, sinkVars, qualified, resuming, workerVars, crashes, claims>>

\* A run's row.  live: its lease has not ended.  meta: "RECLAIMED" once
\* reclaim_expired has added its mark to the metadata.
Row(st, by, live, attempt, m) ==
    [status |-> st, by |-> by, live |-> live, attempt |-> attempt, meta |-> m]

NoRow == Row("ABSENT", NoOne, FALSE, 0, "FIRST")

\* The first occurrence of every task is ahead.
Init ==
    /\ status = [t \in Tasks |-> "ACTIVE"]
    /\ next = [t \in Tasks |-> 1]
    /\ fresh = [t \in Tasks |-> 1]
    /\ due = {}
    /\ run = [r \in Runs |-> NoRow]
    /\ journal = [r \in Runs |-> "NONE"]
    /\ request = [r \in Runs |-> "NONE"]
    /\ qualified = Tasks
    /\ resuming = [r \in Runs |-> 0]
    /\ watching = NoRun
    /\ pc = [w \in Workers |-> "idle"]
    /\ scope = [w \in Workers |-> {}]
    /\ batch = [w \in Workers |-> {}]
    /\ cur = [w \in Workers |-> NoRun]
    /\ meta = [w \in Workers |-> "FIRST"]
    /\ crashes = 0
    /\ claims = [r \in Runs |-> 0]

TaskOf(r) == r[1]

-----------------------------------------------------------------------------
(* run_once: reclaim_expired and claim_due.                                *)

Goto(w, phase) == pc' = [pc EXCEPT ![w] = phase]

\* OwnerTaskResults._saved: the task still stands.
Saved(t) == status[t] \in {"ACTIVE", "COMPLETED"}

\* The owner's worker lists its saved tasks first and passes over when there
\* are none; a plain worker is for all tasks.
InScope(w) == IF IdOf[w] \in OwnerSinks THEN {t \in Tasks : Saved(t)} ELSE Tasks

List(w) ==
    /\ pc[w] = "idle"
    /\ InScope(w) # {}
    /\ scope' = [scope EXCEPT ![w] = InScope(w)]
    /\ Goto(w, "reclaim")
    /\ UNCHANGED <<storeVars, sinkVars, qualified, resuming, batch, cur, meta,
                   crashes, claims>>

\* Mutation: one attempt more.
ReclaimedOnceMore(row) ==
    IF row.attempt > MaxAttempts
    THEN [row EXCEPT !.status = "FAILED", !.meta = "RECLAIMED"]
    ELSE [row EXCEPT !.status = "PENDING", !.by = NoOne,
                     !.attempt = @ + 1, !.meta = "RECLAIMED"]

\* A run whose lease ended returns to PENDING until its attempts are used up.
Reclaimed(row) ==
    IF row.attempt >= MaxAttempts
    THEN [row EXCEPT !.status = "FAILED", !.meta = "RECLAIMED"]
    ELSE [row EXCEPT !.status = "PENDING", !.by = NoOne,
                     !.attempt = @ + 1, !.meta = "RECLAIMED"]

Reclaim(w) ==
    /\ pc[w] = "reclaim"
    /\ run' = [r \in Runs |->
                 IF /\ TaskOf(r) \in scope[w]
                    /\ run[r].status \in {"CLAIMED", "DISPATCHING"}
                    /\ ~run[r].live
                 THEN Reclaimed(run[r]) ELSE run[r]]
    /\ Goto(w, "claim")
    /\ UNCHANGED <<status, next, fresh, due, sinkVars, qualified, resuming,
                   scope, batch, cur, meta, crashes, claims>>

\* Mutation: only active tasks, so not those whose last occurrence was claimed.
PendingOfActive(w) == {r \in Runs : /\ TaskOf(r) \in scope[w]
                                    /\ run[r].status = "PENDING"
                                    /\ status[TaskOf(r)] = "ACTIVE"}

\* Runs that claim_due may take over, and tasks whose next occurrence is due.
Pending(w) == {r \in Runs : /\ TaskOf(r) \in scope[w]
                            /\ run[r].status = "PENDING"
                            /\ Saved(TaskOf(r))}

DueTasks(w) == {t \in scope[w] : status[t] = "ACTIVE" /\ <<t, next[t]>> \in due}

\* As many as the limit admits, pending runs first.
Batch(w, pending, starting) ==
    /\ Cardinality(pending) + Cardinality(starting) <= Limit
    /\ pending = Pending(w) \/ Cardinality(pending) = Limit
    /\ \/ starting = DueTasks(w)
       \/ Cardinality(pending) + Cardinality(starting) = Limit

\* The time a recurring schedule computes now: a later one than ever, or, on the
\* fixed times of a CRON expression, the latest one again if it is still ahead.
Upcoming(t) ==
    {n \in {fresh[t], fresh[t] + 1} : n <= MaxRuns /\ <<t, n>> \notin due}

\* _next_task_run; 0 when there is none, for a ONCE task and from the schedule's
\* expires_at on.
Following(t) == {0} \cup (IF t \in Recurring THEN Upcoming(t) ELSE {})

\* Mutation: the insert replaces the row of the same task and time.
MissingUpsert(starting) == {<<t, next[t]>> : t \in starting}

\* The occurrences that the insert creates: ON CONFLICT (task_id,
\* scheduled_for) DO NOTHING.
Missing(starting) ==
    {r \in {<<t, next[t]>> : t \in starting} : run[r].status = "ABSENT"}

\* The rows that the claim writes: an occurrence is inserted unless it is there
\* already, and a missed one is closed at once.
Taken(pending, starting, missed) ==
    pending \cup {r \in Missing(starting) : TaskOf(r) \notin missed}

ClaimedRow(w, r, pending, starting, missed) ==
    IF r \in pending
    THEN [run[r] EXCEPT !.status = "CLAIMED", !.by = IdOf[w], !.live = TRUE]
    ELSE IF r \notin Missing(starting) THEN run[r]
    ELSE IF TaskOf(r) \in missed THEN Row("MISSED", NoOne, FALSE, 1, "FIRST")
    ELSE Row("CLAIMED", IdOf[w], TRUE, 1, "FIRST")

\* A task whose occurrence was the last one is COMPLETED at this point already.
Take(w, pending, starting, missed, after) ==
    LET goingOn == {t \in starting : after[t] # 0}
        taken == Taken(pending, starting, missed) IN
    /\ status' = [t \in Tasks |-> IF t \in starting \ goingOn THEN "COMPLETED"
                                                             ELSE status[t]]
    /\ next' = [t \in Tasks |-> IF t \in goingOn THEN after[t] ELSE next[t]]
    /\ fresh' = [t \in Tasks |-> IF t \in goingOn THEN after[t] ELSE fresh[t]]
    /\ run' = [r \in Runs |-> ClaimedRow(w, r, pending, starting, missed)]
    /\ claims' = [r \in Runs |-> IF r \in taken THEN claims[r] + 1 ELSE claims[r]]
    /\ batch' = [batch EXCEPT ![w] = taken]
    /\ Goto(w, IF taken = {} THEN "idle" ELSE "next")

ClaimDue(w) ==
    /\ pc[w] = "claim"
    /\ \E pending \in SUBSET Pending(w), starting \in SUBSET DueTasks(w) :
          /\ Batch(w, pending, starting)
          /\ \E missed \in SUBSET (starting \cap MayMiss),
                after \in [starting -> 0 .. MaxRuns] :
                /\ \A t \in starting : after[t] \in Following(t)
                /\ Take(w, pending, starting, missed, after)
    /\ scope' = [scope EXCEPT ![w] = {}]
    /\ UNCHANGED <<due, sinkVars, qualified, resuming, cur, meta, crashes>>

-----------------------------------------------------------------------------
(* run_once: one claimed run after the other.                              *)

\* The loop goes on with the rest of the batch, which it also does after an
\* exception.
NextRun(w, rest) ==
    /\ Goto(w, IF rest = {} THEN "idle" ELSE "next")
    /\ cur' = [cur EXCEPT ![w] = NoRun]
    /\ meta' = [meta EXCEPT ![w] = "FIRST"]

\* It goes on with the run it dispatches.
Proceed(w, phase) == Goto(w, phase) /\ UNCHANGED <<cur, meta>>

\* The worker's claim on the run is the current one, and its lease lasts.
Owns(w, r, st) == run[r].status = st /\ run[r].by = IdOf[w] /\ run[r].live

\* begin_dispatch, which tolerates a dispatch begun under the same worker_id.
Begin(w, r) ==
    /\ pc[w] = "next"
    /\ r \in batch[w]
    /\ batch' = [batch EXCEPT ![w] = @ \ {r}]
    /\ \/ /\ \/ Owns(w, r, "CLAIMED")
             \/ run[r].status = "DISPATCHING" /\ run[r].by = IdOf[w]
          /\ run' = [run EXCEPT ![r].status = "DISPATCHING"]
          /\ cur' = [cur EXCEPT ![w] = r]
          /\ meta' = [meta EXCEPT ![w] = run[r].meta]
          /\ Goto(w, "read")
       \/ /\ ~Owns(w, r, "CLAIMED")
          /\ ~(run[r].status = "DISPATCHING" /\ run[r].by = IdOf[w])
          /\ NextRun(w, batch[w] \ {r})
          /\ UNCHANGED run
    /\ UNCHANGED <<status, next, fresh, due, sinkVars, qualified, resuming,
                   scope, crashes, claims>>

\* task_for_run; the owner's sink validates the event it is given first.
Read(w) ==
    /\ pc[w] = "read"
    /\ Proceed(w, IF status[TaskOf(cur[w])] = "CANCELLED" THEN "drop"
                  ELSE IF IdOf[w] \in OwnerSinks THEN "validate" ELSE "append")
    /\ UNCHANGED <<storeVars, sinkVars, qualified, resuming, scope, batch,
                   crashes, claims>>

\* cancel_run, for a task that was cancelled in between.
CancelRun(w) ==
    /\ pc[w] = "drop"
    /\ run' = [run EXCEPT ![cur[w]].status =
                 IF @ \in {"PENDING", "CLAIMED", "DISPATCHING"} THEN "CANCELLED"
                                                               ELSE @]
    /\ NextRun(w, batch[w])
    /\ UNCHANGED <<status, next, fresh, due, sinkVars, qualified, resuming,
                   scope, batch, crashes, claims>>

\* validate_event: the task still stands, the run is in dispatch, and the event
\* is the one its row would produce now.
Valid(r, m) ==
    /\ Saved(TaskOf(r))
    /\ TaskOf(r) \in qualified
    /\ run[r].status \in {"DISPATCHING", "COMPLETED"}
    /\ run[r].meta = m

Validate(w) ==
    /\ pc[w] = "validate"
    /\ Proceed(w, IF Valid(cur[w], meta[w]) THEN "append" ELSE "salvage")
    /\ UNCHANGED <<storeVars, sinkVars, qualified, resuming, scope, batch,
                   crashes, claims>>

\* An event that is not valid is closed if its task stands by now and its row
\* still describes it, and left to its lease otherwise.
Salvage(w) ==
    /\ pc[w] = "salvage"
    /\ IF Saved(TaskOf(cur[w])) /\ run[cur[w]].meta = meta[w]
       THEN Proceed(w, "reject")
       ELSE NextRun(w, batch[w])
    /\ UNCHANGED <<storeVars, sinkVars, qualified, resuming, scope, batch,
                   crashes, claims>>

\* The run in dispatch, whoever dispatches it by now, fails with its task.
Reject(w) ==
    LET r == cur[w] IN
    /\ pc[w] = "reject"
    /\ \/ /\ run[r].status = "DISPATCHING"
          /\ run' = [run EXCEPT ![r].status = "FAILED"]
          /\ status' = [status EXCEPT ![TaskOf(r)] = "FAILED"]
       \/ /\ run[r].status # "DISPATCHING"
          /\ UNCHANGED <<run, status>>
    /\ NextRun(w, batch[w])
    /\ UNCHANGED <<next, fresh, due, sinkVars, qualified, resuming, scope, batch,
                   crashes, claims>>

\* Mutation: the run is marked without its event.
JournaledElsewhere(r, m) == journal

\* The journal keeps the first event with an event_id.
Journaled(r, m) == [journal EXCEPT ![r] = IF @ = "NONE" THEN m ELSE @]

Append(w) ==
    /\ pc[w] = "append"
    /\ journal' = Journaled(cur[w], meta[w])
    /\ Proceed(w, IF IdOf[w] \in OwnerSinks THEN "handoff" ELSE "mark")
    /\ UNCHANGED <<storeVars, request, watching, qualified, resuming, scope, batch,
                   crashes, claims>>

\* handoff validates once more before it looks for the request.
Handoff(w) ==
    /\ pc[w] = "handoff"
    /\ IF Valid(cur[w], meta[w]) THEN Proceed(w, "enqueue")
                                 ELSE NextRun(w, batch[w])
    /\ UNCHANGED <<storeVars, sinkVars, qualified, resuming, scope, batch,
                   crashes, claims>>

\* The request is enqueued once per event.
Enqueued(r) == [request EXCEPT ![r] = IF @ = "NONE" THEN "PENDING" ELSE @]

Enqueue(w) ==
    /\ pc[w] = "enqueue"
    /\ request' = Enqueued(cur[w])
    /\ Proceed(w, "mark")
    /\ UNCHANGED <<storeVars, journal, watching, qualified, resuming, scope, batch,
                   crashes, claims>>

\* mark_dispatched; a claim that was lost raises.
Mark(w) ==
    LET r == cur[w] IN
    /\ pc[w] = "mark"
    /\ run' = IF Owns(w, r, "DISPATCHING")
              THEN [run EXCEPT ![r].status = "COMPLETED", ![r].live = FALSE]
              ELSE run
    /\ NextRun(w, batch[w])
    /\ UNCHANGED <<status, next, fresh, due, sinkVars, qualified, resuming,
                   scope, batch, crashes, claims>>

\* A store, journal or queue call fails; run_once counts it and goes on.
Fail(w) ==
    /\ pc[w] \notin {"idle", "reclaim", "claim", "next"}
    /\ NextRun(w, batch[w])
    /\ UNCHANGED <<storeVars, sinkVars, qualified, resuming, scope, batch,
                   crashes, claims>>

-----------------------------------------------------------------------------
(* The owner.                                                              *)

Pause(t) ==
    /\ status[t] = "ACTIVE"
    /\ status' = [status EXCEPT ![t] = "PAUSED"]
    /\ UNCHANGED <<next, fresh, due, run, sinkVars, qualified, resuming,
                   workerVars, crashes, claims>>

\* resume reads the task and computes its next occurrence; a recurring task
\* whose time has passed gets a new one, which may be due at once: beyond its
\* expires_at it is the time of the call.
ResumeRead(t) ==
    /\ status[t] = "PAUSED"
    /\ LET passed == t \in Recurring /\ <<t, next[t]>> \in due IN
       \E n \in IF passed THEN Upcoming(t) ELSE {next[t]} :
          /\ resuming[<<t, n>>] < MaxResumes
          /\ resuming' = [resuming EXCEPT ![<<t, n>>] = @ + 1]
          /\ fresh' = [fresh EXCEPT ![t] = IF passed THEN n ELSE @]
    /\ UNCHANGED <<status, next, due, run, sinkVars, qualified, workerVars,
                   crashes, claims>>

\* The write, if the task is paused by then.
ResumeWrite(r) ==
    LET t == TaskOf(r) IN
    /\ resuming[r] > 0
    /\ resuming' = [resuming EXCEPT ![r] = @ - 1]
    /\ \/ /\ status[t] = "PAUSED"
          /\ status' = [status EXCEPT ![t] = "ACTIVE"]
          /\ next' = [next EXCEPT ![t] = r[2]]
       \/ /\ status[t] # "PAUSED"
          /\ UNCHANGED <<status, next>>
    /\ UNCHANGED <<fresh, due, run, sinkVars, qualified, workerVars, crashes,
                   claims>>

RunsOf(t) == {r \in Runs : TaskOf(r) = t}
Waiting(t) == {r \in RunsOf(t) : request[r] = "PENDING"}

\* A completed task can be cancelled while its request waits.
Cancellable(t) ==
    \/ status[t] \in {"ACTIVE", "PAUSED"}
    \/ status[t] = "COMPLETED" /\ Waiting(t) # {}

\* One transaction of three statements: the task, its waiting requests, and,
\* whatever the first one found, the runs that are not in dispatch.  A provider
\* may take a request between the first two.
Cancel(t) ==
    /\ status' = [status EXCEPT ![t] = IF Cancellable(t) THEN "CANCELLED" ELSE @]
    /\ \E taken \in SUBSET Waiting(t) :
          request' = [r \in Runs |->
                        IF r \notin Waiting(t) \/ status'[t] # "CANCELLED"
                        THEN request[r]
                        ELSE IF r \in taken THEN "CLAIMED" ELSE "CANCELLED"]
    /\ run' = [r \in Runs |->
                 IF r \in RunsOf(t) /\ run[r].status \in {"PENDING", "CLAIMED"}
                 THEN [run[r] EXCEPT !.status = "CANCELLED", !.by = NoOne,
                                     !.live = FALSE]
                 ELSE run[r]]
    /\ UNCHANGED <<next, fresh, due, journal, watching, qualified, resuming,
                   workerVars, crashes, claims>>

-----------------------------------------------------------------------------
(* The journal's watcher and the provider.                                 *)

\* The watcher loads the event from the journal and hands it off.
Watch(r) ==
    /\ watching = NoRun
    /\ request[r] = "NONE"
    /\ journal[r] # "NONE"
    /\ Valid(r, journal[r])
    /\ watching' = r
    /\ UNCHANGED <<storeVars, journal, request, qualified, resuming, workerVars,
                   crashes, claims>>

WatchEnqueue(r) ==
    /\ watching = r
    /\ watching' = NoRun
    /\ request' = Enqueued(r)
    /\ UNCHANGED <<storeVars, journal, qualified, resuming, workerVars, crashes,
                   claims>>

ClaimRequest(r) ==
    /\ request[r] = "PENDING"
    /\ request' = [request EXCEPT ![r] = "CLAIMED"]
    /\ UNCHANGED <<storeVars, journal, watching, qualified, resuming, workerVars,
                   crashes, claims>>

\* Mutation: the guard trusts the event and does not look at its task.
AdmissibleEvent(r) == journal[r] # "NONE"

\* owner_task_guard, validate_request: the journaled event must be valid.
Admissible(r) == journal[r] # "NONE" /\ Valid(r, journal[r])

AdmitCognition(r) ==
    /\ request[r] = "CLAIMED"
    /\ Admissible(r)
    /\ request' = [request EXCEPT ![r] = "ADMITTED"]
    /\ UNCHANGED <<storeVars, journal, watching, qualified, resuming, workerVars,
                   crashes, claims>>

\* The transition to PROVIDER_RUNNING, a transaction of its own: it looks at the
\* claim and not at the task, which may have been closed since.
BeginCognition(r) ==
    /\ request[r] = "ADMITTED"
    /\ request' = [request EXCEPT ![r] = "BEGUN"]
    /\ UNCHANGED <<storeVars, journal, watching, qualified, resuming, workerVars,
                   crashes, claims>>

\* The claim is lost before the start, or the handler dies; whoever holds the
\* request next passes the guard again.
LoseStart(r) ==
    /\ request[r] = "ADMITTED"
    /\ request' = [request EXCEPT ![r] = "CLAIMED"]
    /\ UNCHANGED <<storeVars, journal, watching, qualified, resuming, workerVars,
                   crashes, claims>>

-----------------------------------------------------------------------------
(* The environment.                                                        *)

BecomeDue(r) ==
    /\ r[2] <= fresh[TaskOf(r)]
    /\ r \notin due
    /\ due' = due \cup {r}
    /\ UNCHANGED <<status, next, fresh, run, sinkVars, qualified, resuming,
                   workerVars, crashes, claims>>

LeaseEnds(r) ==
    /\ run[r].live
    /\ run' = [run EXCEPT ![r].live = FALSE]
    /\ UNCHANGED <<status, next, fresh, due, sinkVars, qualified, resuming,
                   workerVars, crashes, claims>>

\* The creator leaves or rejoins the household, or loses the role.
Requalify(t) ==
    /\ qualified' = IF t \in qualified THEN qualified \ {t} ELSE qualified \cup {t}
    /\ UNCHANGED <<storeVars, sinkVars, resuming, workerVars, crashes, claims>>

\* The process of a worker dies and starts again.
Crash(w) ==
    /\ crashes < MaxCrashes
    /\ pc[w] # "idle"
    /\ crashes' = crashes + 1
    /\ NextRun(w, {})
    /\ batch' = [batch EXCEPT ![w] = {}]
    /\ scope' = [scope EXCEPT ![w] = {}]
    /\ UNCHANGED <<storeVars, sinkVars, qualified, resuming, claims>>

-----------------------------------------------------------------------------
Work(w) ==
    \/ List(w) \/ Reclaim(w) \/ ClaimDue(w)
    \/ \E r \in Runs : Begin(w, r)
    \/ Read(w) \/ CancelRun(w) \/ Validate(w) \/ Salvage(w) \/ Reject(w)
    \/ Append(w) \/ Handoff(w) \/ Enqueue(w) \/ Mark(w)

Owner(t) ==
    \/ Pause(t) \/ ResumeRead(t) \/ Cancel(t)
    \/ \E r \in RunsOf(t) : ResumeWrite(r)

Outside(r) ==
    \/ Watch(r) \/ WatchEnqueue(r)
    \/ ClaimRequest(r) \/ AdmitCognition(r) \/ BeginCognition(r) \/ LoseStart(r)
    \/ BecomeDue(r) \/ LeaseEnds(r)

Next ==
    \/ \E w \in Workers : Work(w) \/ Fail(w) \/ Crash(w)
    \/ \E t \in Tasks : Owner(t) \/ Requalify(t)
    \/ \E r \in Runs : Outside(r)

Spec == Init /\ [][Next]_vars

\* Workers poll for ever, and leases end.
Fairness ==
    /\ \A w \in Workers : WF_vars(Work(w))
    /\ \A r \in Runs : WF_vars(LeaseEnds(r))

FairSpec == Spec /\ Fairness

-----------------------------------------------------------------------------
(* Properties.                                                             *)

Phases == {"idle", "reclaim", "claim", "next", "read", "drop", "validate",
           "salvage", "reject", "append", "handoff", "enqueue", "mark"}

Metas == {"FIRST", "RECLAIMED"}

RowType == [status : RunStatuses, by : Ids \cup {NoOne}, live : BOOLEAN,
            attempt : 0 .. MaxAttempts, meta : Metas]

StoreTypes ==
    /\ status \in [Tasks -> TaskStatuses]
    /\ next \in [Tasks -> 1 .. MaxRuns]
    /\ fresh \in [Tasks -> 1 .. MaxRuns]
    /\ due \subseteq Runs
    /\ run \in [Runs -> RowType]
    /\ claims \in [Runs -> Nat]

SinkTypes ==
    /\ journal \in [Runs -> Metas \cup {"NONE"}]
    /\ request \in [Runs -> RequestStatuses]
    /\ watching \in Runs \cup {NoRun}

WorkerTypes ==
    /\ pc \in [Workers -> Phases]
    /\ scope \in [Workers -> SUBSET Tasks]
    /\ batch \in [Workers -> SUBSET Runs]
    /\ cur \in [Workers -> Runs \cup {NoRun}]
    /\ meta \in [Workers -> Metas]

\* Every variable stays within the values the tables and threads can hold; in
\* particular no run is attempted more often than its task allows.
TypeOK ==
    /\ StoreTypes /\ SinkTypes /\ WorkerTypes
    /\ qualified \subseteq Tasks
    /\ resuming \in [Runs -> Nat]
    /\ crashes \in Nat

\* A run is COMPLETED only with its event in the journal and, dispatched by
\* the owner's sink, with its request in the queue, although a worker may die
\* or lose its lease to a namesake between any two of the three.
CompletedWasEmitted ==
    \A r \in Runs : run[r].status = "COMPLETED" =>
        /\ journal[r] # "NONE"
        /\ run[r].by \in OwnerSinks => request[r] # "NONE"

\* An occurrence is claimed no more often than its task has attempts: crashes,
\* ended leases and a stale resume that schedules it again included.
AttemptsAreBounded == \A r \in Runs : claims[r] <= MaxAttempts

Settled == {"COMPLETED", "FAILED", "CANCELLED", "MISSED"}

\* A settled occurrence is never claimed, dispatched or settled again, by a
\* worker on an old claim, an owner, or a resume that writes an old next run.
SettledStaysSettled ==
    [][\A r \in Runs : run[r].status \in Settled
                           => run'[r].status = run[r].status]_vars

Closed == {"CANCELLED", "FAILED"}
\* A request past the guard of its task.
Past == {"ADMITTED", "BEGUN"}

\* No request of a task that was cancelled or failed gets past the guard any more,
\* whether it was enqueued, claimed or lost by its provider at the time, and such a
\* task is never opened again.  What had passed the guard before may still begin:
\* the start does not look at the task, and the cancellation closes the waiting
\* requests only.
ClosedStaysQuiet ==
    [][\A r \in Runs :
          status[TaskOf(r)] \in Closed =>
              /\ status'[TaskOf(r)] \in Closed
              /\ request'[r] \in Past => request[r] \in Past]_vars

Open == {"PENDING", "CLAIMED", "DISPATCHING"}

\* As long as its task stands, an open run is settled in the end, whatever
\* dies or fails on the way.
OpenRunsSettle ==
    \A r \in Runs :
        run[r].status \in Open
            ~> run[r].status \in Settled \/ ~Saved(TaskOf(r))

\* The event of a completed run, replayed or not, is the one its row describes,
\* so that the request made from it can be admitted (docs/PHASE-10: run and
\* event identities are deterministic, the journal deduplicates a replay).
ReplayIsSameEvent ==
    \A r \in Runs : run[r].status = "COMPLETED" => journal[r] = run[r].meta
=============================================================================
