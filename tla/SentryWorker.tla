----------------------------- MODULE SentryWorker -----------------------------
(* The worker on SENTRY's side of the intelligence queue (household_worker.py, *)
(* sentry_turn.py, codex_model.py, anima_household_client.py): it claims one   *)
(* request, lets the model plan rounds of calls, sends them one by one through *)
(* Core, asks for a final answer and submits it once.  Core is modelled as the *)
(* worker sees it: it holds a lease that may end, and an answer may be lost.   *)
EXTENDS Naturals, Sequences, FiniteSets

CONSTANTS Candidates, Outcomes, MaxRounds, MaxCalls, BatchSize, None

\* What a call of an ordinary turn asks for; a review's calls name a candidate.
Tools == {"plain", "restricted"}

VARIABLES
    core,        \* Core's side: the lease, the calls it ran, the model calls it
                 \* accounts for, the decision note and the recorded result
    turn,        \* the worker's one turn
    clock,       \* time for planning, for the final answer alone, or none left
    submissions  \* history: the results that were sent

workerVars == <<core, turn, clock, submissions>>

Idle == [at |-> "idle", review |-> None, round |-> 0, batch |-> <<>>, results |-> <<>>,
         stop |-> "PLAN_COMPLETE", invoked |-> FALSE, submitting |-> FALSE,
         note |-> FALSE, code |-> None]

Init ==
    /\ core = [lease |-> FALSE, calls |-> <<>>, attempted |-> 0, processes |-> 0,
               note |-> None, result |-> None]
    /\ turn = Idle /\ clock = "planning" /\ submissions = <<>>

Gone(at) == turn' = [turn EXCEPT !.at = at]
Failing(code) == [turn EXCEPT !.at = "failing", !.code = code]
Fail(code) == turn' = Failing(code)

\* A call to Core is answered, or fails with or without its effect; Core does it
\* only for the lease it gave.
Renewed == core.lease

(***************************** Claim and start *****************************)
\* The claim may be made while its answer is lost: it is left to the lease.
Open ==
    /\ turn = Idle /\ ~core.lease /\ core.result = None
    /\ core' = [core EXCEPT !.lease = TRUE]
    /\ \E review \in {None, {}, Candidates} :
         turn' \in {[turn EXCEPT !.at = "context", !.review = review], [turn EXCEPT !.at = "over"]}
    /\ UNCHANGED <<clock, submissions>>

Context ==
    /\ turn.at = "context"
    /\ \/ core.lease /\ clock # "over" /\ Gone("start")
       \/ Fail("CLIENT")
    /\ UNCHANGED <<core, clock, submissions>>

Start ==
    /\ turn.at = "start"
    /\ \/ core.lease /\ Gone("journal")
       \/ Fail("RESULT_UNCONFIRMED")
    /\ UNCHANGED <<core, clock, submissions>>

\* A review without candidates asks no model.
NothingToReview == turn.review = {}

\* _start_decision_journal, whose failure changes nothing else.
Journal ==
    /\ turn.at = "journal"
    /\ \E written, known \in BOOLEAN :
         /\ written => core.lease
         /\ known => written
         /\ core' = [core EXCEPT !.note = IF written THEN "open" ELSE None]
         /\ turn' = [turn EXCEPT !.note = known,
                                 !.at = IF NothingToReview THEN "prepare" ELSE "round"]
    /\ UNCHANGED <<clock, submissions>>

(******************************** The model ********************************)
\* A process runs only when Core has acknowledged that it is attempted.
Attempt ==
    /\ turn.at \in {"plan", "final"}
    /\ \/ Renewed /\ clock # "over"
          /\ core' = [core EXCEPT !.attempted = @ + 1, !.processes = @ + 1]
          /\ turn' = [turn EXCEPT !.at = IF @ = "plan" THEN "planning" ELSE "answering"]
       \/ /\ \E recorded \in BOOLEAN :
               /\ recorded => Renewed
               /\ core' = [core EXCEPT !.attempted = IF recorded THEN @ + 1 ELSE @]
          /\ Fail("LEASE")
    /\ UNCHANGED <<clock, submissions>>

\* A login that fails, a process that ends badly or says what may not be said.
ProcessFailures == {"AUTH", "PROVIDER"}

\* The process fails, or its end is not acknowledged, or the lease is found lost
\* while it runs; whatever it had said is dropped.
ModelFails ==
    /\ turn.at \in {"planning", "answering"}
    /\ \E code \in ProcessFailures \cup {"LEASE"} : Fail(code)
    /\ UNCHANGED <<core, clock, submissions>>

Stopping(reason) == [turn EXCEPT !.at = "finalize", !.stop = reason]

PlanTimesOut ==
    /\ turn.at = "planning"
    /\ turn' = IF clock = "planning" THEN Failing("PROVIDER") ELSE Stopping("PLANNING_DEADLINE")
    /\ UNCHANGED <<core, clock, submissions>>

(******************************** The rounds *******************************)
Iterated(reason) ==
    IF turn.round < MaxRounds
    THEN [turn EXCEPT !.at = "round", !.stop = reason] ELSE Stopping(reason)

Round ==
    /\ turn.at = "round"
    /\ turn' = IF clock # "planning" THEN Stopping("PLANNING_DEADLINE")
               ELSE [turn EXCEPT !.at = "plan", !.round = @ + 1]
    /\ UNCHANGED <<core, clock, submissions>>

Succeeded == {i \in DOMAIN turn.results : turn.results[i].outcome = "SUCCEEDED"}
Reviewed == {turn.results[i].what : i \in Succeeded}
Pending == IF turn.review = None THEN {} ELSE turn.review \ Reviewed

Least(x, y) == IF x <= y THEN x ELSE y

\* What a plan may ask for: calls of the catalogue, no more than the batch allows.
Plans ==
    UNION {[1..n -> IF turn.review = None THEN Tools ELSE turn.review] :
             n \in 0..Least(BatchSize, MaxCalls - Len(turn.results))}

\* A mutant: a proposal that was made may be made again.
NormalizedAgain(plan) == plan

\* _normalize_learning_calls: no candidate twice, none that was reviewed.
Normalized(plan) ==
    IF turn.review = None THEN plan
    ELSE LET Fresh(i) == plan[i] \in Pending /\ \A j \in 1..(i - 1) : plan[j] # plan[i]
             kept == {i \in DOMAIN plan : Fresh(i)}
         IN [k \in 1..Cardinality(kept) |->
               plan[CHOOSE i \in kept : Cardinality({j \in kept : j < i}) = k - 1]]

\* The whole batch is checked before its first call goes out.
Planned ==
    /\ turn.at = "planning"
    /\ \E plan \in Plans :
         LET batch == Normalized(plan)
         IN turn' = IF batch # <<>> THEN [turn EXCEPT !.at = "call", !.batch = batch, !.stop = "PLAN_COMPLETE"]
                    ELSE IF Pending # {} THEN Iterated("REVIEW_INCOMPLETE")
                    ELSE [turn EXCEPT !.at = "finalize"]
    /\ UNCHANGED <<core, clock, submissions>>

\* A review's plan that is malformed or incomplete is asked for again; a plan
\* with arguments or tools that are not the catalogue's ends the turn.
PlanRefused ==
    /\ turn.at = "planning"
    /\ \/ turn.review # None /\ turn' = Iterated("REVIEW_INCOMPLETE")
       \/ Fail("PROVIDER")
    /\ UNCHANGED <<core, clock, submissions>>

(******************************** The calls ********************************)
\* A mutant: a batch goes on after a call that was refused.
StopsTheBatchOnUnknown(what, outcome) == outcome = "UNKNOWN_RESULT"

StopsTheBatch(what, outcome) == outcome # "SUCCEEDED" \/ what = "restricted"

\* The lease is renewed, then the call goes out under the next ordinal.
Call ==
    /\ turn.at = "call" /\ turn.batch # <<>> /\ clock = "planning" /\ core.lease
    /\ \E outcome \in Outcomes :
         LET what == Head(turn.batch)
             next == [turn EXCEPT !.batch = Tail(@), !.invoked = TRUE,
                        !.results = Append(@, [what |-> what, outcome |-> outcome])]
         IN /\ core' = [core EXCEPT !.calls = Append(@,
                  [ordinal |-> Len(turn.results) + 1, what |-> what, outcome |-> outcome])]
            /\ \/ turn' = IF ~StopsTheBatch(what, outcome) THEN next
                          ELSE [next EXCEPT !.at = "finalize",
                                  !.stop = IF outcome = "SUCCEEDED" THEN "RESTRICTED" ELSE "TOOL_GATE"]
               \/ turn' = [Failing("CLIENT") EXCEPT !.invoked = TRUE]
    /\ UNCHANGED <<clock, submissions>>

CallRefused ==
    /\ turn.at = "call" /\ turn.batch # <<>> /\ clock = "planning"
    /\ \E invoked \in BOOLEAN : turn' = [Failing("CLIENT") EXCEPT !.invoked = @ \/ invoked]
    /\ UNCHANGED <<core, clock, submissions>>

CallTooLate ==
    /\ turn.at = "call" /\ turn.batch # <<>> /\ clock # "planning"
    /\ turn' = Stopping("PLANNING_DEADLINE")
    /\ UNCHANGED <<core, clock, submissions>>

BatchDone ==
    /\ turn.at = "call" /\ turn.batch = <<>>
    /\ turn' = IF turn.review # None /\ Pending = {} THEN [turn EXCEPT !.at = "finalize"]
               ELSE IF Len(turn.results) >= MaxCalls THEN Stopping("CALL_BUDGET_EXHAUSTED")
               ELSE IF turn.round = MaxRounds THEN Stopping("ROUND_BUDGET_EXHAUSTED")
               ELSE [turn EXCEPT !.at = "round"]
    /\ UNCHANGED <<core, clock, submissions>>

(******************************** The answer *******************************)
Finalize ==
    /\ turn.at = "finalize"
    /\ \/ Renewed /\ clock # "over"
          /\ turn' = [turn EXCEPT !.at = "final", !.batch = <<>>,
                        !.stop = IF Pending # {} THEN "REVIEW_INCOMPLETE" ELSE @]
       \/ Fail("RESULT_UNCONFIRMED")
    /\ UNCHANGED <<core, clock, submissions>>

Answered ==
    /\ turn.at = "answering"
    /\ \/ Renewed /\ clock # "over" /\ Gone("prepare")
       \/ Fail("RESULT_UNCONFIRMED")
    /\ UNCHANGED <<core, clock, submissions>>

Statuses == {turn.results[i].outcome : i \in DOMAIN turn.results}

\* What a turn reports of a call that was not done, the gravest first.
Precedence ==
    <<<<"UNKNOWN_RESULT", "UNKNOWN_RESULT">>, <<"REQUIRE_STRONGER_AUTH", "WAITING_STRONGER_AUTH">>,
      <<"REQUIRE_CONFIRMATION", "WAITING_CONFIRMATION">>, <<"UNAVAILABLE", "UNAVAILABLE">>,
      <<"DENIED", "FAILED">>, <<"POLICY_DENIED", "FAILED">>, <<"FAILED", "FAILED">>,
      <<"VERIFICATION_FAILED", "PARTIAL">>>>

Unfinished == {"CALL_BUDGET_EXHAUSTED", "ROUND_BUDGET_EXHAUSTED", "PLANNING_DEADLINE", "REVIEW_INCOMPLETE"}

\* The worst of the calls speaks for the turn, then what was left undone.
Status ==
    LET met == {k \in DOMAIN Precedence : Precedence[k][1] \in Statuses}
    IN IF NothingToReview THEN "NO_ACTION"
       ELSE IF met # {} THEN Precedence[CHOOSE k \in met : \A j \in met : k <= j][2]
       ELSE IF turn.stop \in Unfinished \/ ~(Statuses \subseteq {"SUCCEEDED"}) THEN "PARTIAL"
       ELSE "RESPONSE"

\* Core keeps the first update under the note's digest.
NoteUpdates(status) ==
    {core.note} \cup (IF turn.note /\ core.lease /\ core.note = "open" THEN {status} ELSE {})

\* Once the submission is begun only time can still hold it back.
Prepare ==
    /\ turn.at = "prepare"
    /\ \E note \in NoteUpdates(Status) : core' = [core EXCEPT !.note = note]
    /\ turn' \in {[turn EXCEPT !.at = "submit", !.submitting = TRUE]}
                   \cup (IF clock = "over" /\ ~NothingToReview
                         THEN {[Failing("DEADLINE") EXCEPT !.submitting = TRUE]} ELSE {})
    /\ UNCHANGED <<clock, submissions>>

Recorded(status, ambiguous) ==
    IF core.lease /\ core.result = None
    THEN {core, [core EXCEPT !.result = [status |-> status, ambiguous |-> ambiguous], !.lease = FALSE]}
    ELSE {core}

Sent(status, ambiguous) ==
    /\ submissions' = Append(submissions, status)
    /\ core' \in Recorded(status, ambiguous)

Submit ==
    /\ turn.at = "submit"
    /\ Sent(Status, Status = "UNKNOWN_RESULT")
    /\ \/ core' # core /\ Gone("over")
       \/ Fail("RESULT_UNCONFIRMED")
    /\ UNCHANGED clock

(******************************* The failure *******************************)
\* finalize_failure_journal: the started note is closed if it can be.
CloseNote ==
    /\ turn.at = "failing"
    /\ \E note \in NoteUpdates("UNKNOWN_RESULT") : core' = [core EXCEPT !.note = note]
    /\ Gone("failed")
    /\ UNCHANGED <<clock, submissions>>

\* A mutant: any failure to sign in says that nothing was begun.
AuthFailed == turn.code = "AUTH"

AuthOnly == turn.code = "AUTH" /\ ~turn.invoked

\* One bounded submission: none if the turn's own was begun.
SubmitFailure ==
    /\ turn.at = "failed" /\ ~turn.submitting
    /\ Sent(IF AuthOnly THEN "UNAVAILABLE" ELSE "UNKNOWN_RESULT", ~AuthOnly)
    /\ Gone("over") /\ UNCHANGED clock

LeaveToExpiry ==
    /\ turn.at = "failed" /\ turn.submitting
    /\ Gone("over") /\ UNCHANGED <<core, clock, submissions>>

(******************************* Environment *******************************)
Die ==
    /\ turn.at \notin {"idle", "over"}
    /\ Gone("over") /\ UNCHANGED <<core, clock, submissions>>

LeaseEnds ==
    /\ core.lease /\ core' = [core EXCEPT !.lease = FALSE]
    /\ UNCHANGED <<turn, clock, submissions>>

TimePasses ==
    /\ turn.at \notin {"idle", "over"} /\ clock # "over"
    /\ clock' = IF clock = "planning" THEN "reserve" ELSE "over"
    /\ UNCHANGED <<core, turn, submissions>>

Next ==
    \/ Open \/ Context \/ Start \/ Journal
    \/ Attempt \/ ModelFails \/ PlanTimesOut
    \/ Round \/ Planned \/ PlanRefused
    \/ Call \/ CallRefused \/ CallTooLate \/ BatchDone
    \/ Finalize \/ Answered \/ Prepare \/ Submit
    \/ CloseNote \/ SubmitFailure \/ LeaveToExpiry
    \/ Die \/ LeaseEnds \/ TimePasses

Spec == Init /\ [][Next]_workerVars

WorkerTypeOK ==
    /\ turn.round \in 0..MaxRounds /\ Len(turn.results) <= MaxCalls
    /\ clock \in {"planning", "reserve", "over"}
    /\ core.lease \in BOOLEAN /\ core.attempted \in Nat /\ core.processes \in Nat
    /\ submissions \in Seq({"NO_ACTION", "RESPONSE", "PARTIAL", "WAITING_CONFIRMATION",
                            "WAITING_STRONGER_AUTH", "FAILED", "UNAVAILABLE", "UNKNOWN_RESULT"})

\* Every call that goes out follows only calls that were answered with success
\* and brought nothing restricted; no two share an ordinal, and a review proposes
\* a candidate once: one lost or refused call ends the turn's effects.
CallsFollowSuccess ==
    \A i \in DOMAIN core.calls :
        /\ core.calls[i].ordinal = i
        /\ i < Len(core.calls) => ~(core.calls[i].outcome # "SUCCEEDED" \/ core.calls[i].what = "restricted")
        /\ core.calls[i].what \in Candidates =>
             \A j \in DOMAIN core.calls : core.calls[j].what = core.calls[i].what => i = j

\* The result says no more than Core saw: once, not as certain if some call's
\* effect is unknown to the worker, as a response only if every call succeeded
\* and every candidate is reviewed, as unavailable only if no call was begun or
\* one was refused so; and each model process was announced.
ResultIsHonest ==
    /\ Len(submissions) <= 1
    /\ core.processes <= core.attempted
    /\ core.result # None =>
         LET saw == {core.calls[i].outcome : i \in DOMAIN core.calls}
             what == {core.calls[i].what : i \in DOMAIN core.calls}
         IN /\ ~core.result.ambiguous =>
                 /\ Len(turn.results) = Len(core.calls)
                 /\ "UNKNOWN_RESULT" \notin saw
            /\ core.result.status \in {"RESPONSE", "NO_ACTION"} =>
                 /\ saw \subseteq {"SUCCEEDED"}
                 /\ turn.review # None => turn.review \subseteq what
            /\ core.result.status = "UNAVAILABLE" => core.calls = <<>> \/ "UNAVAILABLE" \in saw

\* The decision note never tells of another end than the one Core recorded,
\* save that a turn that ended for want of a login is noted as unknown.
NoteAgrees ==
    core.result # None /\ core.note \notin {None, "open"} =>
        core.note = core.result.status \/ core.result.status = "UNAVAILABLE"
=============================================================================
