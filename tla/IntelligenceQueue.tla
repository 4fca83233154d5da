--------------------------- MODULE IntelligenceQueue ---------------------------
(***************************************************************************)
(* The durable queue between ANIMA and its intelligence provider           *)
(* (src/anima_ha/intelligence.py) with the handlers of the Core service    *)
(* through which the provider works (sentry_service.py, sentry_boundary.py)*)
(* and the results of approvals that come back to the request that asked   *)
(* for them (approval_results.py).                                         *)
(*                                                                         *)
(* A handler runs in a thread of its own.  It reads the row, checks the    *)
(* caller's binding and the claim, and only then opens the transaction     *)
(* that writes; the transaction's now() is the time it was opened, so it   *)
(* may find a lease lasting that has ended by the time it writes.          *)
(*                                                                         *)
(* Clients are other processes: they poll, call any operation with any     *)
(* binding they were given, in any order and any number of times, or stop. *)
(***************************************************************************)
EXTENDS Naturals, FiniteSets

CONSTANTS
    Requests,        \* request_ids; one per idempotency key
    Origins,         \* the IntelligenceOrigins that occur
    Threads,         \* threads of the Core that serve a call
    Clients,         \* service principals; worker_id is the client_id
    NoClient,        \* claim_owner of a row that nobody has claimed
    NoRequest,       \* the request of a thread that serves no call
    MaxGenerations   \* bound on the claims of a request

ASSUME QueueAssumption ==
    /\ Origins \subseteq {"AUTONOMOUS_ATTENTION", "DURABLE_TASK",
                          "DIRECT_SENTRY_INTERACTION", "DIRECT_UI_USER"}
    /\ NoClient \notin Clients
    /\ NoRequest \notin Requests
    /\ MaxGenerations \in Nat

\* "ABSENT": no such row.  "WAITING": WAITING_CONFIRMATION or
\* WAITING_STRONGER_AUTH.  "FINISHED": COMPLETED, NO_ACTION, FAILED or
\* RECOVERY_REQUIRED.
Active == {"CLAIMED", "DELIVERED_TO_PROVIDER", "PROVIDER_RUNNING"}
Settled == {"FINISHED", "UNKNOWN_RESULT", "CANCELLED"}
Lifecycles == {"ABSENT", "PENDING", "WAITING"} \cup Active \cup Settled

\* _RESULT_LIFECYCLE: what a submitted result makes of a request.
ResultLifecycles == {"WAITING", "FINISHED", "UNKNOWN_RESULT"}

\* The action that a request parked: not there, waiting for its approval,
\* executing, or at an outcome.
ActionStatuses == {"NONE", "REQUIRE_CONFIRMATION", "EXECUTING", "SETTLED"}

Operations == {"open", "renew", "start", "invoke", "result", "decide"}
Phases == {"idle", "assert", "begin", "write", "check", "tool", "associate",
           "reconcile", "execute", "finish", "refuse", "resolve"}

\* A call on its way to attach the outcome of an action that is over.
OutcomePhases == {"refuse", "reconcile", "resolve"}

\* The pending approval: DECIDED is APPROVED or REJECTED.
ApprovalStatuses == {"PENDING", "DECIDED", "FAILED"}

VARIABLES
    row,         \* the table: origin, life, owner, gen, lease, started
    action,      \* the status of the action a request parked
    approval,    \* the status of its pending approval
    associated,  \* request_metadata.approval_actions names it
    outcome,     \* the action_status in result_metadata.approval_outcome
    bindings,    \* the bindings in the hands of clients
    pc,          \* where a thread is
    job,         \* the call it serves
    lost,        \* a call died on its way to attach the outcome
    ran,         \* generations that were told PROVIDER_RUNNING
    acted,       \* generations under which a tool was called
    result       \* the generation whose result was recorded, 0 if none

approvalVars == <<action, approval, associated, outcome>>
seenVars == <<ran, acted, result>>
vars == <<row, approvalVars, bindings, pc, job, lost, seenVars>>

Generations == 1 .. MaxGenerations
Row == [origin : Origins, life : Lifecycles, owner : Clients \cup {NoClient},
        gen : 0 .. MaxGenerations, lease : BOOLEAN, started : BOOLEAN]
Binding == [r : Requests, g : Generations, c : Clients]

\* seen: the lifecycle, or the action's status, that the thread read.
\* lasted: the lease lasted when its transaction was opened.
NoJob == [r |-> NoRequest, g |-> 0, c |-> NoClient, op |-> "open",
          seen |-> "ABSENT", lasted |-> FALSE]

Init ==
    /\ row \in [Requests -> {[origin |-> o, life |-> "ABSENT", owner |-> NoClient,
                              gen |-> 0, lease |-> FALSE, started |-> FALSE]
                             : o \in Origins}]
    /\ action = [r \in Requests |-> "NONE"]
    /\ approval = [r \in Requests |-> "PENDING"]
    /\ associated = [r \in Requests |-> FALSE]
    /\ outcome = [r \in Requests |-> "NONE"]
    /\ bindings = {}
    /\ pc = [t \in Threads |-> "idle"]
    /\ job = [t \in Threads |-> NoJob]
    /\ lost = [r \in Requests |-> FALSE]
    /\ ran = [r \in Requests |-> {}]
    /\ acted = [r \in Requests |-> {}]
    /\ result = [r \in Requests |-> 0]

Return(t) ==
    /\ pc' = [pc EXCEPT ![t] = "idle"]
    /\ job' = [job EXCEPT ![t] = NoJob]

Goto(t, p) ==
    /\ pc' = [pc EXCEPT ![t] = p]
    /\ job' = job

-----------------------------------------------------------------------------
(* The queue fills.                                                        *)

\* INSERT ... ON CONFLICT DO NOTHING; a repeated call changes nothing.
Enqueue(r) ==
    /\ row[r].life = "ABSENT"
    /\ row' = [row EXCEPT ![r].life = "PENDING"]
    /\ UNCHANGED <<approvalVars, bindings, pc, job, lost, seenVars>>

\* Cancelling a saved task fences off its request while nobody has taken it.
CancelTask(r) ==
    /\ row[r].origin = "DURABLE_TASK"
    /\ row[r].life = "PENDING"
    /\ row' = [row EXCEPT ![r].life = "CANCELLED"]
    /\ UNCHANGED <<approvalVars, bindings, pc, job, lost, seenVars>>

-----------------------------------------------------------------------------
(* Claims.                                                                 *)

\* Mutant: the sweep leaves what the claim's own filter leaves.
ExpiredOfTheQueue(x) ==
    /\ x.origin # "AUTONOMOUS_ATTENTION"
    /\ x.life \in {"PROVIDER_RUNNING", "DELIVERED_TO_PROVIDER"}
    /\ x.started
    /\ ~x.lease

\* A started provider whose lease has ended, of whatever origin or provider.
Expired(x) ==
    /\ x.life \in {"PROVIDER_RUNNING", "DELIVERED_TO_PROVIDER"}
    /\ x.started
    /\ ~x.lease

\* Mutant: a claim that died is never taken over.
ClaimablePending(x) ==
    /\ x.origin # "AUTONOMOUS_ATTENTION"
    /\ x.life = "PENDING"

\* What a general claim may take: what nobody has, and what was claimed and
\* perhaps delivered but not started before its lease ended.  The exact claims
\* own what Attention wakes.
Claimable(x) ==
    /\ x.origin # "AUTONOMOUS_ATTENTION"
    /\ \/ x.life = "PENDING"
       \/ x.life = "CLAIMED" /\ ~x.lease
       \/ x.life = "DELIVERED_TO_PROVIDER" /\ ~x.started /\ ~x.lease

\* Mutant: a takeover keeps the generation of the claim it takes over.
ClaimedAgain(x, c) == [x EXCEPT !.life = "CLAIMED", !.owner = c,
                                !.gen = IF @ = 0 THEN 1 ELSE @, !.lease = TRUE]

\* Mutant: the claim forgets to say whose it is.
ClaimedByNobody(x, c) == [x EXCEPT !.life = "CLAIMED", !.gen = @ + 1, !.lease = TRUE]

Claimed(x, c) == [x EXCEPT !.life = "CLAIMED", !.owner = c, !.gen = @ + 1,
                           !.lease = TRUE]

Swept == [r \in Requests |->
            IF Expired(row[r]) THEN [row[r] EXCEPT !.life = "UNKNOWN_RESULT"]
                               ELSE row[r]]

InReach(r) == row[r].gen < MaxGenerations

\* The thread that claimed r goes on to deliver it.
Deliverer(t, r, c, g) ==
    /\ job' = [job EXCEPT ![t] = [NoJob EXCEPT !.r = r, !.c = c, !.g = g]]
    /\ pc' = [pc EXCEPT ![t] = "begin"]

\* POST /v1/interactions/open: one transaction settles every expired request
\* and takes one claimable request, if there is one.
ClaimNext(t, c) ==
    /\ pc[t] = "idle"
    /\ \/ \E r \in Requests :
             /\ Claimable(row[r])
             /\ InReach(r)
             /\ row' = [Swept EXCEPT ![r] = Claimed(@, c)]
             /\ Deliverer(t, r, c, row[r].gen + 1)
       \/ /\ \A r \in Requests : ~(Claimable(row[r]) /\ InReach(r))
          /\ row' = Swept
          /\ UNCHANGED <<pc, job>>
    /\ UNCHANGED <<approvalVars, bindings, lost, seenVars>>

\* POST /v1/provider/claims/exact takes a request that was never claimed.
ClaimExact(t, c, r) ==
    /\ pc[t] = "idle"
    /\ row[r].origin \in {"AUTONOMOUS_ATTENTION", "DURABLE_TASK"}
    /\ row[r].life = "PENDING"
    /\ row[r].gen = 0
    /\ InReach(r)
    /\ row' = [row EXCEPT ![r] = Claimed(@, c)]
    /\ Deliverer(t, r, c, 1)
    /\ UNCHANGED <<approvalVars, bindings, lost, seenVars>>

\* What claim_specific gives back without claiming: the caller's own claim.
OwnClaim(x, c) ==
    /\ x.owner = c
    /\ x.life \in Active
    /\ x.lease

\* POST /v1/interactions/direct, after its enqueue.  A repeated call meets the
\* claim of the first one and is given a binding of the same generation.
OpenDirect(t, c, r) ==
    /\ pc[t] = "idle"
    /\ row[r].origin = "DIRECT_SENTRY_INTERACTION"
    /\ \/ /\ row[r].life = "PENDING"
          /\ InReach(r)
          /\ row' = [row EXCEPT ![r] = Claimed(@, c)]
          /\ Deliverer(t, r, c, row[r].gen + 1)
          /\ UNCHANGED bindings
       \/ /\ OwnClaim(row[r], c)
          /\ row[r].life = "CLAIMED"
          /\ Deliverer(t, r, c, row[r].gen)
          /\ UNCHANGED <<row, bindings>>
       \/ /\ OwnClaim(row[r], c)
          /\ row[r].life # "CLAIMED"
          /\ bindings' = bindings \cup {[r |-> r, g |-> row[r].gen, c |-> c]}
          /\ UNCHANGED <<row, pc, job>>
    /\ UNCHANGED <<approvalVars, lost, seenVars>>

-----------------------------------------------------------------------------
(* A bound call: renew, provider-start, invoke, result.                    *)

\* SentryBindingCodec.verify.
Verified(b) == row[b.r].gen = b.g /\ row[b.r].owner = b.c

\* The handler reads the row and verifies the binding against it.
Call(t, b, op) ==
    /\ pc[t] = "idle"
    /\ op \in {"renew", "start", "invoke", "result"}
    /\ Verified(b)
    /\ job' = [job EXCEPT ![t] =
                 [NoJob EXCEPT !.r = b.r, !.g = b.g, !.c = b.c, !.op = op,
                               !.seen = IF op \in {"start", "invoke"}
                                        THEN row[b.r].life ELSE "ABSENT"]]
    /\ pc' = [pc EXCEPT ![t] = "assert"]
    /\ UNCHANGED <<row, approvalVars, bindings, lost, seenVars>>

\* Mutant: the worker is compared, the generation is not.
SameOwner(t) == row[job[t].r].owner = job[t].c

\* The row still belongs to the claim that the thread works for.
SameClaim(t) ==
    LET x == row[job[t].r] IN x.owner = job[t].c /\ x.gen = job[t].g

\* _assert_active.
IsActive(t) ==
    /\ SameClaim(t)
    /\ row[job[t].r].life \in Active
    /\ row[job[t].r].lease

Told(t) == ran' = [ran EXCEPT ![job[t].r] = @ \cup {job[t].g}]

\* What was first read is not used any more.
Forget(t, p) ==
    /\ pc' = [pc EXCEPT ![t] = p]
    /\ job' = [job EXCEPT ![t].seen = "ABSENT"]

\* The second reading.  What follows goes by the lifecycle first read: a
\* provider that already runs is not started again.  The guard of the owner's
\* tasks may refuse a claim that is active.
AssertActive(t) ==
    /\ pc[t] = "assert"
    /\ \/ Return(t) /\ UNCHANGED ran
       \/ /\ IsActive(t)
          /\ CASE job[t].op = "start" /\ job[t].seen = "PROVIDER_RUNNING" ->
                    Return(t) /\ Told(t)
               [] job[t].op = "invoke" /\ job[t].seen # "DELIVERED_TO_PROVIDER" ->
                    Forget(t, "check") /\ UNCHANGED ran
               [] OTHER -> Forget(t, "begin") /\ UNCHANGED ran
    /\ UNCHANGED <<row, approvalVars, bindings, lost, acted, result>>

\* The transaction is opened; now() stays what it is now.
Begin(t) ==
    /\ pc[t] = "begin"
    /\ job' = [job EXCEPT ![t].lasted = SameClaim(t) /\ row[job[t].r].lease]
    /\ pc' = [pc EXCEPT ![t] = "write"]
    /\ UNCHANGED <<row, approvalVars, bindings, lost, seenVars>>

\* Mutant: only the lease is looked at.
LeaseLasts(t) == row[job[t].r].lease \/ job[t].lasted

\* The WHERE clause of every write: owner, generation, lease_expires_at > now().
Fenced(t) ==
    /\ SameClaim(t)
    /\ row[job[t].r].lease \/ job[t].lasted

\* The lifecycles from which transition and record_result go on.
Deliverable == {"CLAIMED"}
Startable == {"CLAIMED", "DELIVERED_TO_PROVIDER"}
\* Mutant: a late result replaces the one that recovery assumed.
RecordableLate == {"DELIVERED_TO_PROVIDER", "PROVIDER_RUNNING", "UNKNOWN_RESULT"}

Recordable == {"DELIVERED_TO_PROVIDER", "PROVIDER_RUNNING"}

Writing(t, op) == pc[t] = "write" /\ job[t].op = op
Lands(t, from) == Fenced(t) /\ row[job[t].r].life \in from

\* A claim is delivered, and only then is its binding handed out.
Deliver(t) ==
    LET j == job[t] IN
    /\ Writing(t, "open")
    /\ IF Lands(t, Deliverable)
       THEN /\ row' = [row EXCEPT ![j.r].life = "DELIVERED_TO_PROVIDER"]
            /\ bindings' = bindings \cup {[r |-> j.r, g |-> j.g, c |-> j.c]}
       ELSE UNCHANGED <<row, bindings>>
    /\ Return(t)
    /\ UNCHANGED <<approvalVars, lost, seenVars>>

Renew(t) ==
    /\ Writing(t, "renew")
    /\ row' = IF Lands(t, Active) THEN [row EXCEPT ![job[t].r].lease = TRUE] ELSE row
    /\ Return(t)
    /\ UNCHANGED <<approvalVars, bindings, lost, seenVars>>

\* start_provider, called for itself or by the first invocation of a tool.
Start(t) ==
    /\ \/ Writing(t, "start")
       \/ Writing(t, "invoke")
    /\ IF Lands(t, Startable)
       THEN /\ row' = [row EXCEPT ![job[t].r].life = "PROVIDER_RUNNING",
                                  ![job[t].r].started = TRUE]
            /\ Told(t)
            /\ IF job[t].op = "invoke"
               THEN /\ pc' = [pc EXCEPT ![t] = "check"]
                    /\ job' = [job EXCEPT ![t].lasted = FALSE]
               ELSE Return(t)
       ELSE /\ Return(t)
            /\ UNCHANGED <<row, ran>>
    /\ UNCHANGED <<approvalVars, bindings, lost, acted, result>>

\* Mutant: the result is recorded and nothing is looked for.
RecordedOnly(t) == Return(t)

\* finalize_result: the result is recorded, then approvals that were decided
\* before it are looked for.
Recorded(t) ==
    /\ pc' = [pc EXCEPT ![t] = "reconcile"]
    /\ job' = [job EXCEPT ![t] = [NoJob EXCEPT !.r = job[t].r]]

Record(t) ==
    LET j == job[t] IN
    /\ Writing(t, "result")
    /\ IF Lands(t, Recordable)
       THEN /\ \E s \in ResultLifecycles : row' = [row EXCEPT ![j.r].life = s]
            /\ result' = [result EXCEPT ![j.r] = j.g]
            /\ Recorded(t)
       ELSE /\ Return(t)
            /\ UNCHANGED <<row, result>>
    /\ UNCHANGED <<approvalVars, bindings, lost, ran, acted>>

-----------------------------------------------------------------------------
(* A tool, and the approval it may ask for.                                *)

\* invoke_tool asserts the claim again.
Check(t) ==
    /\ pc[t] = "check"
    /\ IF IsActive(t) THEN Goto(t, "tool") ELSE Return(t)
    /\ UNCHANGED <<row, approvalVars, bindings, lost, seenVars>>

\* The tool runs; it may park an action that needs the owner.
Tool(t) ==
    LET r == job[t].r IN
    /\ pc[t] = "tool"
    /\ acted' = [acted EXCEPT ![r] = @ \cup {job[t].g}]
    /\ \/ /\ Return(t)
          /\ UNCHANGED action
       \/ /\ action[r] = "NONE"
          /\ action' = [action EXCEPT ![r] = "REQUIRE_CONFIRMATION"]
          /\ Goto(t, "associate")
    /\ UNCHANGED <<row, approval, associated, outcome, bindings, lost, ran, result>>

\* The association is written while the claim lasts.
Associate(t) ==
    /\ pc[t] = "associate"
    /\ associated' = [associated EXCEPT ![job[t].r] = @ \/ IsActive(t)]
    /\ Return(t)
    /\ UNCHANGED <<row, action, approval, outcome, bindings, lost, seenVars>>

\* The owner decides in the UI: the pending approval is claimed ...
Decide(t, r) ==
    /\ pc[t] = "idle"
    /\ action[r] = "REQUIRE_CONFIRMATION"
    /\ approval[r] = "PENDING"
    /\ approval' = [approval EXCEPT ![r] = "DECIDED"]
    /\ job' = [job EXCEPT ![t] = [NoJob EXCEPT !.r = r, !.op = "decide"]]
    /\ pc' = [pc EXCEPT ![t] = "execute"]
    /\ UNCHANGED <<row, action, associated, outcome, bindings, lost, seenVars>>

\* The thread takes the outcome to the request.
Report(t) ==
    /\ job' = [job EXCEPT ![t].seen = "SETTLED"]
    /\ pc' = [pc EXCEPT ![t] = "resolve"]

\* ... the action begins; or has its outcome without beginning (rejected,
\* denied, busy); or is refused because its tool has changed; or, when the
\* confirmation has ended meanwhile, the call ends in an exception, because an
\* action cannot have a second approval ...
Execute(t) ==
    LET r == job[t].r IN
    /\ pc[t] = "execute"
    /\ \/ /\ action' = [action EXCEPT ![r] = "EXECUTING"]
          /\ Goto(t, "finish")
       \/ /\ action' = [action EXCEPT ![r] = "SETTLED"]
          /\ Report(t)
       \/ /\ action' = [action EXCEPT ![r] = "SETTLED"]
          /\ Goto(t, "refuse")
       \/ /\ Return(t)
          /\ UNCHANGED action
    /\ UNCHANGED <<row, approval, associated, outcome, bindings, lost, seenVars>>

\* ... a refused approval fails ...
Refuse(t) ==
    /\ pc[t] = "refuse"
    /\ approval' = [approval EXCEPT ![job[t].r] = "FAILED"]
    /\ Report(t)
    /\ UNCHANGED <<row, action, associated, outcome, bindings, lost, seenVars>>

\* ... and what began is over.
Finish(t) ==
    /\ pc[t] = "finish"
    /\ action' = [action EXCEPT ![job[t].r] = "SETTLED"]
    /\ Report(t)
    /\ UNCHANGED <<row, approval, associated, outcome, bindings, lost, seenVars>>

\* An approval may have been decided before the result was recorded.
Reconcile(t) ==
    LET r == job[t].r IN
    /\ pc[t] = "reconcile"
    /\ IF associated[r] /\ approval[r] = "DECIDED"
       THEN /\ job' = [job EXCEPT ![t].seen = action[r]]
            /\ pc' = [pc EXCEPT ![t] = "resolve"]
       ELSE Return(t)
    /\ UNCHANGED <<row, approvalVars, bindings, lost, seenVars>>

\* What the action's status, as the caller read it, makes of the request.
ResolvedLifecycles(s) ==
    IF s = "REQUIRE_CONFIRMATION" THEN {"WAITING"}
                                  ELSE {"WAITING", "FINISHED", "UNKNOWN_RESULT"}

\* Both callers end here; the first one attaches its outcome for good.
Resolve(t) ==
    LET r == job[t].r IN
    /\ pc[t] = "resolve"
    /\ IF /\ associated[r]
          /\ outcome[r] = "NONE"
          /\ row[r].life = "WAITING"
          /\ job[t].seen # "EXECUTING"
       THEN /\ outcome' = [outcome EXCEPT ![r] = job[t].seen]
            /\ \E s \in ResolvedLifecycles(job[t].seen) :
                  row' = [row EXCEPT ![r].life = s]
       ELSE UNCHANGED <<row, outcome>>
    /\ Return(t)
    /\ UNCHANGED <<action, approval, associated, bindings, lost, seenVars>>

-----------------------------------------------------------------------------
(* The environment.                                                        *)

\* A lease that was not renewed in time ends.
LeaseEnds(r) ==
    /\ row[r].life \in Active
    /\ row[r].lease
    /\ row' = [row EXCEPT ![r].lease = FALSE]
    /\ UNCHANGED <<approvalVars, bindings, pc, job, lost, seenVars>>

\* A call ends in an exception of the database or with the Core, between any
\* two of its steps.  What it wrote stays.
Die(t) ==
    /\ pc[t] # "idle"
    /\ lost' = [lost EXCEPT ![job[t].r] = @ \/ pc[t] \in OutcomePhases]
    /\ Return(t)
    /\ UNCHANGED <<row, approvalVars, bindings, seenVars>>

Step(t) ==
    \/ AssertActive(t) \/ Begin(t) \/ Deliver(t) \/ Renew(t) \/ Start(t) \/ Record(t)
    \/ Check(t) \/ Tool(t) \/ Associate(t)
    \/ Execute(t) \/ Refuse(t) \/ Finish(t) \/ Reconcile(t) \/ Resolve(t)

Poll == \E t \in Threads, c \in Clients : ClaimNext(t, c)

Next ==
    \/ \E r \in Requests : Enqueue(r) \/ CancelTask(r) \/ LeaseEnds(r)
    \/ Poll
    \/ \E t \in Threads :
          \/ Step(t)
          \/ Die(t)
          \/ \E r \in Requests : Decide(t, r)
          \/ \E c \in Clients, r \in Requests : ClaimExact(t, c, r) \/ OpenDirect(t, c, r)
          \/ \E b \in bindings, op \in Operations : Call(t, b, op)

Spec == Init /\ [][Next]_vars

\* Every call has a thread of its own, so a poll is never kept waiting by
\* other calls; a call that was made runs on.
Fairness ==
    /\ \A t \in Threads : WF_vars(Step(t))
    /\ SF_vars(Poll)

FairSpec == Spec /\ Fairness

-----------------------------------------------------------------------------
(* Properties.                                                             *)

RowTypes ==
    /\ row \in [Requests -> Row]
    /\ action \in [Requests -> ActionStatuses]
    /\ approval \in [Requests -> ApprovalStatuses]
    /\ associated \in [Requests -> BOOLEAN]
    /\ outcome \in [Requests -> ActionStatuses]

ThreadTypes ==
    /\ bindings \subseteq Binding
    /\ pc \in [Threads -> Phases]
    /\ job \in [Threads -> [r : Requests \cup {NoRequest}, g : 0 .. MaxGenerations,
                            c : Clients \cup {NoClient}, op : Operations,
                            seen : Lifecycles \cup ActionStatuses, lasted : BOOLEAN]]
    /\ \A t \in Threads : pc[t] # "idle" => job[t].r \in Requests

SeenTypes ==
    /\ lost \in [Requests -> BOOLEAN]
    /\ ran \in [Requests -> SUBSET Generations]
    /\ acted \in [Requests -> SUBSET Generations]
    /\ result \in [Requests -> 0 .. MaxGenerations]

\* A row has an owner, and a lifecycle of a claim, only once it was claimed.
RowsAreClaimed ==
    \A r \in Requests :
        /\ row[r].owner = NoClient <=> row[r].gen = 0
        /\ row[r].gen = 0 => row[r].life \in {"ABSENT", "PENDING", "CANCELLED"}
        /\ row[r].gen > 0 => row[r].life \notin {"ABSENT", "PENDING"}

\* The variables keep their types, and a row is claimed when it says so: its
\* owner and its generation come and go together in every statement that
\* writes them.
TypeOK == RowTypes /\ ThreadTypes /\ SeenTypes /\ RowsAreClaimed

\* A provider that started is never handed out again: one claim of a request,
\* at most, is told to run the model or calls a tool, and only after the start
\* was made durable (docs/OWNER-SENTRY-RUNTIME.md, "cannot reclaim started
\* work"), however late the writes of earlier claims arrive.
OneGenerationActs ==
    \A r \in Requests :
        /\ \A g, h \in ran[r] \cup acted[r] : g = h
        /\ acted[r] \subseteq ran[r]
        /\ ran[r] # {} => row[r].started

\* The recorded result is of the claim that ran the provider, not of one that
\* was superseded while it thought.
ResultIsOfTheActor ==
    \A r \in Requests : result[r] # 0 => ran[r] \subseteq {result[r]}

\* A settled request keeps its lifecycle: no late result, late start or new
\* claim reopens or rewrites it, and one that waits for an approval changes
\* only by the outcome of that approval.
SettledStays ==
    [][\A r \in Requests :
         /\ row[r].life \in Settled => row'[r].life = row[r].life
         /\ row[r].life = "WAITING" /\ row'[r].life # "WAITING"
               => outcome[r] = "NONE" /\ outcome'[r] = "SETTLED"]_vars

\* An outcome is never one of an action that is still under way; an action that
\* is said to be over is over; and one that was read while it still wanted its
\* confirmation leaves the request waiting, for good.
OutcomeWasRead(r) ==
    /\ outcome[r] \in {"NONE", "REQUIRE_CONFIRMATION", "SETTLED"}
    /\ outcome[r] = "SETTLED" => action[r] = "SETTLED"
    /\ outcome[r] = "REQUIRE_CONFIRMATION" => row[r].life = "WAITING"

\* The owner's decision and the provider's result may come in either order
\* (approval_results.py, reconcile_request): when the action is over, the
\* request waits and neither caller is still on its way, the request has an
\* outcome, one the action had.  Only a call that died may lose it, or the failure
\* of an approval that was refused before the result was recorded, which no
\* caller looks for.  It need not be the last one the action had: see
\* OutcomeIsTheActions.
OutcomeIsAttached ==
    \A r \in Requests :
        /\ OutcomeWasRead(r)
        /\ (/\ ~lost[r]
            /\ row[r].life = "WAITING"
            /\ associated[r]
            /\ action[r] = "SETTLED"
            /\ approval[r] = "DECIDED"
            /\ \A t \in Threads : job[t].r = r => pc[t] \notin OutcomePhases)
           => outcome[r] # "NONE"

\* The outcome attached to a request is that of the approved action
\* (approval_results.py: "CORE_VERIFIED_ACTION_RECORD").
OutcomeIsTheActions ==
    \A r \in Requests : outcome[r] \in {"NONE", action[r]}

\* A provider that started and lost its lease is settled as UNKNOWN_RESULT, or
\* by a write that was under way, as long as anybody polls the queue.
StartedIsSettled ==
    \A r \in Requests :
        row[r].life = "PROVIDER_RUNNING" /\ ~row[r].lease
            ~> row[r].life # "PROVIDER_RUNNING" \/ row[r].lease

\* A claim that died before its start is taken over as long as anybody polls,
\* unless only an exact claim may take the request.
AbandonedIsReclaimed ==
    \A r \in Requests :
        /\ row[r].life \in {"CLAIMED", "DELIVERED_TO_PROVIDER"}
        /\ ~row[r].lease
        /\ row[r].origin # "AUTONOMOUS_ATTENTION"
        /\ InReach(r)
        ~> \/ row[r].life \notin {"CLAIMED", "DELIVERED_TO_PROVIDER"}
           \/ row[r].lease
=============================================================================
