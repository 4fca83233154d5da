---------------------------- MODULE ActionExecution ----------------------------
(***************************************************************************)
(* The action execution boundary of ANIMA (src/anima_ha/action.py): the    *)
(* coordinator's execute and approve_pending, run by several threads of    *)
(* the Core over the durable action records, the pending approvals, the    *)
(* PostgreSQL advisory locks on resource scopes and the devices of the     *)
(* home.                                                                   *)
(*                                                                         *)
(* An element of Actions is one ActionRequest, identified by its           *)
(* action_id.  Every caller of execute draws a new action_id, so a caller  *)
(* that replays an idempotency key is a second element of Actions with the *)
(* same KeyOf.  Only approve_pending runs an action_id a second time.      *)
(***************************************************************************)
EXTENDS Integers, Sequences, FiniteSets

CONSTANTS
    Workers,      \* threads that may be inside the coordinator
    Actions,      \* ActionRequests, by action_id
    Keys,         \* idempotency keys
    Digests,      \* request digests
    Scopes,       \* canonical lock scopes
    Devices,      \* truth keys of the devices
    KeyOf,        \* [Actions -> Keys]
    DigestOf,     \* [Actions -> Digests]
    LocksOf,      \* [Actions -> Seq(Scopes)], in the locker's sorted order
    WantOf,       \* [Actions -> expected effects]; empty: verified by receipt
    ExpectOf,     \* [Actions -> the caller's truth preconditions]
    Confirmed,    \* actions whose risk class the policy allows only confirmed
    NoWorker,     \* holder of a free scope
    NoAction,     \* action of an idle thread
    MaxFaults,    \* bound on the number of faults
    FaultKinds,   \* which of "crash", "raise" and "session" may happen
    RecoverOnStartup \* whether start-up calls recover_incomplete

Readings == {"ON", "OFF"}

\* A partial map from truth keys to values: expected effects, preconditions.
Effects == UNION {[D -> Readings] : D \in SUBSET Devices}

ASSUME ActionsAssumption ==
    /\ NoWorker \notin Workers
    /\ NoAction \notin Actions
    /\ KeyOf \in [Actions -> Keys]
    /\ DigestOf \in [Actions -> Digests]
    /\ LocksOf \in [Actions -> Seq(Scopes)]
    /\ \A a \in Actions : LocksOf[a] # <<>>
    /\ \A a \in Actions : \A i, j \in 1 .. Len(LocksOf[a]) :
           LocksOf[a][i] = LocksOf[a][j] => i = j
    /\ WantOf \in [Actions -> Effects]
    /\ ExpectOf \in [Actions -> Effects]
    /\ Confirmed \subseteq Actions
    /\ MaxFaults \in Nat
    /\ FaultKinds \subseteq {"crash", "raise", "session"}
    /\ RecoverOnStartup \in BOOLEAN

\* "ABSENT": the table has no row with this action_id.
Statuses == {"ABSENT", "PLANNED", "EXECUTING", "SUCCEEDED", "FAILED",
             "RESOURCE_BUSY", "PRECONDITION_FAILED", "POLICY_DENIED",
             "REQUIRE_CONFIRMATION", "REQUIRE_STRONGER_AUTH",
             "VERIFICATION_FAILED", "UNKNOWN_RESULT", "PARTIAL",
             "RECOVERY_REQUIRED"}

ApprovalStatuses == {"NONE", "PENDING", "APPROVED", "REJECTED", "EXPIRED",
                     "FAILED"}

\* Where a thread is inside execute or approve_pending.
Phases == {"idle", "approved", "rejected", "failing", "claim", "lock",
           "refresh", "evaluate", "challenge", "begin", "invoke", "verify",
           "conclude", "unlock", "complete"}

VARIABLES
    pc,         \* phase of each thread
    act,        \* the request it runs
    conf,       \* whether the request carries the consumed confirmation
    idx,        \* how many scopes of LocksOf it has acquired
    next,       \* the status its _terminal call will write
    resolution, \* the status its approvals.complete call will write
    status,     \* anima_actions.status, by action_id
    approval,   \* anima_pending_approvals.status, by action_id
    expired,    \* approvals whose expires_at has passed
    holder,     \* advisory lock holder of each scope
    device,     \* the real state of each device
    late,       \* actions whose effects may still reach a device
    submitted,  \* action_ids ever drawn by a caller
    up,         \* whether the Core process is running
    faults,     \* crashes, exceptions and session losses so far
    calls,      \* history: connector entries per action
    raised,     \* history: actions whose execute ended in a store exception
    witness     \* history: device states at the action's last observation

workerVars == <<pc, act, conf, idx, next, resolution>>
tableVars == <<status, approval, expired>>
homeVars == <<device, late>>
historyVars == <<calls, raised, witness>>
vars == <<workerVars, tableVars, holder, homeVars, submitted, up, faults,
          historyVars>>

NotObserved == [d \in Devices |-> "UNKNOWN"]

Init ==
    /\ pc = [w \in Workers |-> "idle"]
    /\ act = [w \in Workers |-> NoAction]
    /\ conf = [w \in Workers |-> FALSE]
    /\ idx = [w \in Workers |-> 0]
    /\ next = [w \in Workers |-> "ABSENT"]
    /\ resolution = [w \in Workers |-> "NONE"]
    /\ status = [a \in Actions |-> "ABSENT"]
    /\ approval = [a \in Actions |-> "NONE"]
    /\ expired = {}
    /\ holder = [s \in Scopes |-> NoWorker]
    /\ device \in [Devices -> Readings]
    /\ late = {}
    /\ submitted = {}
    /\ up = TRUE
    /\ faults = 0
    /\ calls = [a \in Actions |-> 0]
    /\ raised = {}
    /\ witness = [a \in Actions |-> NotObserved]

-----------------------------------------------------------------------------
(* Thread bookkeeping.                                                     *)

Goto(w, phase) == pc' = [pc EXCEPT ![w] = phase]

\* _terminal with this status is the thread's next store call.
Conclude(w, st) ==
    /\ Goto(w, "conclude")
    /\ next' = [next EXCEPT ![w] = st]

\* The thread leaves the coordinator.
Leave(w) ==
    /\ pc' = [pc EXCEPT ![w] = "idle"]
    /\ act' = [act EXCEPT ![w] = NoAction]
    /\ conf' = [conf EXCEPT ![w] = FALSE]
    /\ idx' = [idx EXCEPT ![w] = 0]
    /\ next' = [next EXCEPT ![w] = "ABSENT"]
    /\ resolution' = [resolution EXCEPT ![w] = "NONE"]

\* Mutation: a release gives up the scopes of every thread.
FreedAll(w) == [s \in Scopes |-> NoWorker]

Freed(w) == [s \in Scopes |-> IF holder[s] = w THEN NoWorker ELSE holder[s]]

\* Mutation: an exception skips the with statement's release.
ThrowHolding(w) == Leave(w) /\ UNCHANGED holder

\* An exception leaves execute; the with statement releases the scopes.
Throw(w) ==
    /\ Leave(w)
    /\ holder' = Freed(w)

\* Mutation: the claim conflicts on the action_id only.
RowsWithId(a) == {b \in {a} : status[b] # "ABSENT"}

\* The rows that hold the idempotency key of a.
RowsWithKey(a) ==
    {b \in Actions : KeyOf[b] = KeyOf[a] /\ status[b] # "ABSENT"}

-----------------------------------------------------------------------------
(* execute: the claim.                                                     *)

\* Statuses with which a duplicate claim still goes on to the locks.
Resumable == {"REQUIRE_CONFIRMATION", "PLANNED"}

\* ActionStore.claim and the early returns of execute.
Claim(w) ==
    LET a == act[w] IN
    /\ pc[w] = "claim"
    /\ \/ /\ RowsWithKey(a) = {}
          /\ status' = [status EXCEPT ![a] = "PLANNED"]
          /\ Goto(w, "lock")
          /\ UNCHANGED <<act, conf, idx, next, resolution>>
       \/ \E row \in RowsWithKey(a) :
             /\ UNCHANGED status
             /\ IF DigestOf[row] = DigestOf[a] /\ status[row] \in Resumable
                THEN /\ Goto(w, "lock")
                     /\ UNCHANGED <<act, conf, idx, next, resolution>>
                ELSE IF conf[w]
                     THEN /\ Goto(w, "complete")
                          /\ UNCHANGED <<act, conf, idx, next, resolution>>
                     ELSE Leave(w)
    /\ UNCHANGED <<approval, expired, holder, homeVars, submitted, up, faults,
                   historyVars>>

\* A caller enters execute with a request of its own.
Submit(w, a) ==
    /\ up
    /\ pc[w] = "idle"
    /\ a \notin submitted
    /\ submitted' = submitted \cup {a}
    /\ Goto(w, "claim")
    /\ act' = [act EXCEPT ![w] = a]
    /\ UNCHANGED <<conf, idx, next, resolution, tableVars, holder, homeVars,
                   up, faults, historyVars>>

-----------------------------------------------------------------------------
(* execute: the locks, one pg_try_advisory_lock per scope in sorted order. *)

\* Mutation: a busy scope ends the attempt without a word in its row.
LockScopeSilently(w) ==
    LET s == LocksOf[act[w]][idx[w] + 1] IN
    /\ pc[w] = "lock"
    /\ IF holder[s] = NoWorker
       THEN /\ holder' = [holder EXCEPT ![s] = w]
            /\ idx' = [idx EXCEPT ![w] = @ + 1]
            /\ Goto(w, IF idx[w] + 1 = Len(LocksOf[act[w]]) THEN "refresh" ELSE "lock")
            /\ UNCHANGED <<act, conf, next, resolution>>
       ELSE Throw(w)
    /\ UNCHANGED <<tableVars, homeVars, submitted, up, faults, historyVars>>

LockScope(w) ==
    LET a == act[w]
        s == LocksOf[a][idx[w] + 1] IN
    /\ pc[w] = "lock"
    /\ \/ /\ holder[s] = NoWorker
          /\ holder' = [holder EXCEPT ![s] = w]
          /\ idx' = [idx EXCEPT ![w] = @ + 1]
          /\ Goto(w, IF idx[w] + 1 = Len(LocksOf[a]) THEN "refresh" ELSE "lock")
          /\ UNCHANGED next
       \/ /\ holder[s] # NoWorker
          /\ holder' = Freed(w)
          /\ idx' = [idx EXCEPT ![w] = 0]
          /\ Conclude(w, "RESOURCE_BUSY")
    /\ UNCHANGED <<act, conf, resolution, tableVars, homeVars, submitted, up,
                   faults, historyVars>>

-----------------------------------------------------------------------------
(* execute: fresh truth, policy, confirmation.                             *)

\* What a refresher that reads the devices in seen, and no other, returns.
Snapshot(a, seen) ==
    [d \in DOMAIN WantOf[a] |-> IF d \in seen THEN device[d] ELSE "UNKNOWN"]

\* Every refreshed key is KNOWN and the caller's preconditions match.
PreconditionsHold(a, snapshot) ==
    /\ \A d \in DOMAIN snapshot : snapshot[d] # "UNKNOWN"
    /\ \A d \in DOMAIN ExpectOf[a] :
           d \in DOMAIN snapshot /\ snapshot[d] = ExpectOf[a][d]

\* The already-satisfied check of a request with observable effects.
Satisfied(a, snapshot) ==
    /\ DOMAIN WantOf[a] # {}
    /\ \A d \in DOMAIN WantOf[a] : snapshot[d] = WantOf[a][d]

\* The refresh, then the checks that need nothing but its snapshot.  The
\* already-satisfied verdict is known here and used after the policy allows.
Refresh(w) ==
    LET a == act[w] IN
    /\ pc[w] = "refresh"
    /\ \/ /\ Conclude(w, "UNKNOWN_RESULT")
          /\ UNCHANGED witness
       \/ \E seen \in SUBSET DOMAIN WantOf[a] :
             LET snapshot == Snapshot(a, seen) IN
             IF PreconditionsHold(a, snapshot)
             THEN /\ Goto(w, "evaluate")
                  /\ next' = [next EXCEPT ![w] =
                                IF Satisfied(a, snapshot) THEN "SUCCEEDED"
                                                          ELSE "EXECUTING"]
                  /\ witness' = [witness EXCEPT ![a] = device]
             ELSE /\ Conclude(w, "PRECONDITION_FAILED")
                  /\ UNCHANGED witness
    /\ UNCHANGED <<act, conf, idx, resolution, tableVars, holder, homeVars,
                   submitted, up, faults, calls, raised>>

\* The confirmation is valid: consumed by this approval, and not yet expired.
ConfirmationValid(w) == conf[w] /\ act[w] \notin expired

\* Mutation: a confirmation is asked for, and not required.
MayDispatchUnasked(w) == act[w] \notin Confirmed \/ act[w] \notin expired

MayDispatch(w) == act[w] \notin Confirmed \/ ConfirmationValid(w)

\* PolicyService.evaluate: roles, assurance and the evaluator may refuse any
\* request; a confirmation-class request is allowed only with a confirmation.
Evaluate(w) ==
    /\ pc[w] = "evaluate"
    /\ \/ \E refusal \in {"POLICY_DENIED", "REQUIRE_STRONGER_AUTH"} :
             Conclude(w, refusal)
       \/ /\ ~MayDispatch(w)
          /\ Goto(w, "challenge")
          /\ UNCHANGED next
       \/ /\ MayDispatch(w)
          /\ Goto(w, IF next[w] = "SUCCEEDED" THEN "conclude" ELSE "begin")
          /\ UNCHANGED next
    /\ UNCHANGED <<act, conf, idx, resolution, tableVars, holder, homeVars,
                   submitted, up, faults, historyVars>>

\* The challenge and the pending approval.  A second approval of an action
\* violates UNIQUE(action_id), one for an absent row its foreign key; an
\* envelope that may not be retained asks for stronger authentication.
IssueApproval(w) ==
    LET a == act[w] IN
    /\ pc[w] = "challenge"
    /\ \/ /\ approval[a] = "NONE"
          /\ status[a] # "ABSENT"
          /\ approval' = [approval EXCEPT ![a] = "PENDING"]
          /\ Conclude(w, "REQUIRE_CONFIRMATION")
          /\ UNCHANGED <<act, conf, idx, resolution, holder, raised>>
       \/ /\ Conclude(w, "REQUIRE_STRONGER_AUTH")
          /\ UNCHANGED <<act, conf, idx, resolution, approval, holder, raised>>
       \/ /\ approval[a] # "NONE" \/ status[a] = "ABSENT"
          /\ Throw(w)
          /\ raised' = raised \cup {a}
          /\ UNCHANGED approval
    /\ UNCHANGED <<status, expired, homeVars, submitted, up, faults, calls,
                   witness>>

-----------------------------------------------------------------------------
(* execute: the dispatch.                                                  *)

\* ActionStore.update: an UPDATE by action_id that raises when no row has it.
Begin(w) ==
    LET a == act[w] IN
    /\ pc[w] = "begin"
    /\ \/ /\ status[a] # "ABSENT"
          /\ status' = [status EXCEPT ![a] = "EXECUTING"]
          /\ Goto(w, "invoke")
          /\ UNCHANGED <<act, conf, idx, next, resolution, holder, raised>>
       \/ /\ status[a] = "ABSENT"
          /\ Throw(w)
          /\ raised' = raised \cup {a}
          /\ UNCHANGED status
    /\ UNCHANGED <<approval, expired, homeVars, submitted, up, faults, calls,
                   witness>>

\* The device state after the connector applied the effects of a on reached.
Applied(a, reached) ==
    [d \in Devices |-> IF d \in reached THEN WantOf[a][d] ELSE device[d]]

\* gateway.invoke: a second policy evaluation and the checks before dispatch,
\* or the connector, whose answer may be lost and whose effect may be late.
\* A receipt-verified request is settled by the answer alone.  An exception of
\* the gateway before the connector counts as possibly dispatched as well.
Invoke(w) ==
    LET a == act[w] IN
    /\ pc[w] = "invoke"
    /\ \/ /\ \E refusal \in {"POLICY_DENIED", "REQUIRE_STRONGER_AUTH", "FAILED"} :
                Conclude(w, refusal)
          /\ UNCHANGED <<homeVars, calls>>
       \/ /\ ~MayDispatch(w)
          /\ Conclude(w, "REQUIRE_CONFIRMATION")
          /\ UNCHANGED <<homeVars, calls>>
       \/ /\ MayDispatch(w)
          /\ calls' = [calls EXCEPT ![a] = @ + 1]
          /\ \E reached \in SUBSET DOMAIN WantOf[a] :
                /\ device' = Applied(a, reached)
                /\ late' = IF reached = DOMAIN WantOf[a] THEN late
                                                         ELSE late \cup {a}
          /\ IF DOMAIN WantOf[a] = {}
             THEN \E verdict \in {"SUCCEEDED", "UNKNOWN_RESULT"} :
                     Conclude(w, verdict)
             ELSE /\ Goto(w, "verify")
                  /\ UNCHANGED next
       \/ /\ IF DOMAIN WantOf[a] = {}
             THEN Conclude(w, "UNKNOWN_RESULT")
             ELSE /\ Goto(w, "verify")
                  /\ UNCHANGED next
          /\ UNCHANGED <<homeVars, calls>>
    /\ UNCHANGED <<act, conf, idx, resolution, tableVars, holder, submitted,
                   up, faults, raised, witness>>

\* Mutations: an unread effect counts as verified; a refresh without any
\* reading counts as a failure; it gets a status of its own.
VerdictTrusting(a, snapshot) ==
    IF \A d \in DOMAIN WantOf[a] : snapshot[d] \in {WantOf[a][d], "UNKNOWN"}
    THEN "SUCCEEDED" ELSE "VERIFICATION_FAILED"
VerdictFailing(a, snapshot) ==
    IF \A d \in DOMAIN WantOf[a] : snapshot[d] = WantOf[a][d]
    THEN "SUCCEEDED" ELSE "FAILED"
VerdictTimedOut(a, snapshot) ==
    IF \A d \in DOMAIN WantOf[a] : snapshot[d] = WantOf[a][d]
    THEN "SUCCEEDED" ELSE "TIMED_OUT"

\* _verify_observed over the snapshot read after the dispatch.
Verdict(a, snapshot) ==
    LET effects  == DOMAIN WantOf[a]
        verified == {d \in effects : snapshot[d] = WantOf[a][d]}
        unknown  == {d \in effects : snapshot[d] = "UNKNOWN"} IN
    IF verified = effects THEN "SUCCEEDED"
    ELSE IF verified # {} THEN "PARTIAL"
    ELSE IF unknown # effects THEN "VERIFICATION_FAILED"
    ELSE "UNKNOWN_RESULT"

\* The refresh after the dispatch, which may fail, and its verification.
Verify(w) ==
    LET a == act[w] IN
    /\ pc[w] = "verify"
    /\ \/ /\ Conclude(w, "UNKNOWN_RESULT")
          /\ UNCHANGED witness
       \/ \E seen \in SUBSET DOMAIN WantOf[a] :
             /\ Conclude(w, Verdict(a, Snapshot(a, seen)))
             /\ witness' = [witness EXCEPT ![a] = device]
    /\ UNCHANGED <<act, conf, idx, resolution, tableVars, holder, homeVars,
                   submitted, up, faults, calls, raised>>

-----------------------------------------------------------------------------
(* execute: the outcome.                                                   *)

\* _terminal: an unconditional update of whatever the row holds by now.
Terminal(w) ==
    LET a == act[w] IN
    /\ pc[w] = "conclude"
    /\ \/ /\ status[a] # "ABSENT"
          /\ status' = [status EXCEPT ![a] = next[w]]
          /\ Goto(w, "unlock")
          /\ UNCHANGED <<act, conf, idx, next, resolution, holder, raised>>
       \/ /\ status[a] = "ABSENT"
          /\ Throw(w)
          /\ raised' = raised \cup {a}
          /\ UNCHANGED status
    /\ UNCHANGED <<approval, expired, homeVars, submitted, up, faults, calls,
                   witness>>

\* The lock's __exit__; approve_pending goes on, other callers return.
Unlock(w) ==
    /\ pc[w] = "unlock"
    /\ holder' = Freed(w)
    /\ IF conf[w]
       THEN /\ Goto(w, "complete")
            /\ idx' = [idx EXCEPT ![w] = 0]
            /\ UNCHANGED <<act, conf, next, resolution>>
       ELSE Leave(w)
    /\ UNCHANGED <<tableVars, homeVars, submitted, up, faults, historyVars>>

-----------------------------------------------------------------------------
(* approve_pending and the approval store.                                 *)

\* Mutation: the claim does not consume the challenge.
DecideAgain(w, a, choice) ==
    /\ up
    /\ pc[w] = "idle"
    /\ approval[a] \in {"PENDING", "APPROVED"}
    /\ a \notin expired
    /\ approval' = [approval EXCEPT ![a] = choice]
    /\ Goto(w, IF choice = "APPROVED" THEN "approved" ELSE "rejected")
    /\ act' = [act EXCEPT ![w] = a]
    /\ UNCHANGED <<conf, idx, next, resolution, status, expired, holder,
                   homeVars, submitted, up, faults, historyVars>>

\* PendingApprovalStore.claim consumes the challenge of a live approval.
Decide(w, a, choice) ==
    /\ up
    /\ pc[w] = "idle"
    /\ approval[a] = "PENDING"
    /\ a \notin expired
    /\ approval' = [approval EXCEPT ![a] = choice]
    /\ Goto(w, IF choice = "APPROVED" THEN "approved" ELSE "rejected")
    /\ act' = [act EXCEPT ![w] = a]
    /\ UNCHANGED <<conf, idx, next, resolution, status, expired, holder,
                   homeVars, submitted, up, faults, historyVars>>

\* A claim or a listing that finds a pending approval past its expiry.
ExpireApproval(a) ==
    /\ up
    /\ approval[a] = "PENDING"
    /\ a \in expired
    /\ approval' = [approval EXCEPT ![a] = "EXPIRED"]
    /\ UNCHANGED <<workerVars, status, expired, holder, homeVars, submitted,
                   up, faults, historyVars>>

\* The approved request runs with the consumed confirmation, provided the
\* tool it was approved for is still the one installed.
RunApproved(w) ==
    /\ pc[w] = "approved"
    /\ \/ /\ Goto(w, "claim")
          /\ conf' = [conf EXCEPT ![w] = TRUE]
          /\ resolution' = [resolution EXCEPT ![w] = "APPROVED"]
       \/ /\ Goto(w, "failing")
          /\ resolution' = [resolution EXCEPT ![w] = "FAILED"]
          /\ UNCHANGED conf
    /\ UNCHANGED <<act, idx, next, tableVars, holder, homeVars, submitted, up,
                   faults, historyVars>>

\* A rejection, or a tool that changed, writes POLICY_DENIED over the row.
RefuseApproved(w) ==
    /\ pc[w] \in {"rejected", "failing"}
    /\ status' = [status EXCEPT ![act[w]] = "POLICY_DENIED"]
    /\ Goto(w, "complete")
    /\ resolution' = [resolution EXCEPT ![w] =
                        IF pc[w] = "rejected" THEN "REJECTED" ELSE "FAILED"]
    /\ UNCHANGED <<act, conf, idx, next, approval, expired, holder, homeVars,
                   submitted, up, faults, historyVars>>

\* PendingApprovalStore.complete: unconditional.
Complete(w) ==
    /\ pc[w] = "complete"
    /\ approval' = [approval EXCEPT ![act[w]] = resolution[w]]
    /\ Leave(w)
    /\ UNCHANGED <<status, expired, holder, homeVars, submitted, up, faults,
                   historyVars>>

-----------------------------------------------------------------------------
(* The environment: time, people, slow devices, failures.                  *)

\* Two minutes have passed since the challenge of a was issued.
PassExpiry(a) ==
    /\ approval[a] # "NONE"
    /\ a \notin expired
    /\ expired' = expired \cup {a}
    /\ UNCHANGED <<workerVars, status, approval, holder, homeVars, submitted,
                   up, faults, historyVars>>

\* Somebody in the home operates the device by hand.
Operate(d) ==
    /\ device' = [device EXCEPT ![d] = IF @ = "ON" THEN "OFF" ELSE "ON"]
    /\ UNCHANGED <<workerVars, tableVars, holder, late, submitted, up, faults,
                   historyVars>>

\* An effect that was possibly dispatched arrives after all.
ArriveLate(a) ==
    /\ a \in late
    /\ device' = Applied(a, DOMAIN WantOf[a])
    /\ late' = late \ {a}
    /\ UNCHANGED <<workerVars, tableVars, holder, submitted, up, faults,
                   historyVars>>

Fault(kind) ==
    /\ kind \in FaultKinds
    /\ faults < MaxFaults
    /\ faults' = faults + 1

\* A store call of the thread fails and the exception leaves the coordinator.
Raise(w) ==
    /\ Fault("raise")
    /\ pc[w] # "idle"
    /\ Throw(w)
    /\ UNCHANGED <<tableVars, homeVars, submitted, up, historyVars>>

\* The Core process dies; its database sessions, hence its locks, go with it.
Crash ==
    /\ Fault("crash")
    /\ up
    /\ up' = FALSE
    /\ pc' = [w \in Workers |-> "idle"]
    /\ act' = [w \in Workers |-> NoAction]
    /\ conf' = [w \in Workers |-> FALSE]
    /\ idx' = [w \in Workers |-> 0]
    /\ next' = [w \in Workers |-> "ABSENT"]
    /\ resolution' = [w \in Workers |-> "NONE"]
    /\ holder' = [s \in Scopes |-> NoWorker]
    /\ UNCHANGED <<tableVars, homeVars, submitted, historyVars>>

\* ActionStore.recover_incomplete.
Recovered ==
    [a \in Actions |-> CASE status[a] = "EXECUTING" -> "UNKNOWN_RESULT"
                         [] status[a] = "PLANNED" -> "RECOVERY_REQUIRED"
                         [] OTHER -> status[a]]

\* The Core starts again.
Restart ==
    /\ ~up
    /\ up' = TRUE
    /\ status' = IF RecoverOnStartup THEN Recovered ELSE status
    /\ UNCHANGED <<workerVars, approval, expired, holder, homeVars, submitted,
                   faults, historyVars>>

\* The lock session of a live thread is cut; PostgreSQL frees its locks and
\* the thread, which uses other connections, does not notice.
DropSession(w) ==
    /\ Fault("session")
    /\ \E s \in Scopes : holder[s] = w
    /\ holder' = Freed(w)
    /\ UNCHANGED <<workerVars, tableVars, homeVars, submitted, up, historyVars>>

-----------------------------------------------------------------------------
Step(w) ==
    \/ Claim(w) \/ LockScope(w) \/ Refresh(w) \/ Evaluate(w)
    \/ IssueApproval(w) \/ Begin(w) \/ Invoke(w) \/ Verify(w)
    \/ Terminal(w) \/ Unlock(w)
    \/ RunApproved(w) \/ RefuseApproved(w) \/ Complete(w)

Environment ==
    \/ \E a \in Actions : ExpireApproval(a) \/ PassExpiry(a) \/ ArriveLate(a)
    \/ \E d \in Devices : Operate(d)
    \/ \E w \in Workers : Raise(w) \/ DropSession(w)
    \/ Crash
    \/ Restart

Next ==
    \/ \E w \in Workers : Step(w)
    \/ \E w \in Workers, a \in Actions :
          \/ Submit(w, a)
          \/ \E choice \in {"APPROVED", "REJECTED"} : Decide(w, a, choice)
    \/ Environment

Spec == Init /\ [][Next]_vars

\* A thread inside the coordinator runs on, and the Core is started again.
Fairness ==
    /\ \A w \in Workers : WF_vars(Step(w))
    /\ WF_vars(Restart)

FairSpec == Spec /\ Fairness

-----------------------------------------------------------------------------
(* Properties.                                                             *)

ThreadTypes ==
    /\ pc \in [Workers -> Phases]
    /\ act \in [Workers -> Actions \cup {NoAction}]
    /\ conf \in [Workers -> BOOLEAN]
    /\ idx \in [Workers -> Nat]
    /\ next \in [Workers -> Statuses]
    /\ resolution \in [Workers -> ApprovalStatuses]

TableTypes ==
    /\ status \in [Actions -> Statuses]
    /\ approval \in [Actions -> ApprovalStatuses]
    /\ expired \subseteq Actions
    /\ submitted \subseteq Actions
    /\ up \in BOOLEAN

WorldTypes ==
    /\ holder \in [Scopes -> Workers \cup {NoWorker}]
    /\ device \in [Devices -> Readings]
    /\ late \subseteq Actions
    /\ faults \in Nat
    /\ calls \in [Actions -> Nat]
    /\ raised \subseteq Actions
    /\ witness \in [Actions -> [Devices -> Readings \cup {"UNKNOWN"}]]

\* Every variable stays within the values the tables and threads can hold.
TypeOK == ThreadTypes /\ TableTypes /\ WorldTypes

\* The effect behind an idempotency key reaches the connector at most once,
\* whatever is replayed, approved, interrupted or restarted: claim's UNIQUE
\* key, update's KeyError for a replayed id, and the single-use challenge.
AtMostOneDispatch ==
    /\ \A a \in Actions : calls[a] <= 1
    /\ \A a, b \in Actions :
           KeyOf[a] = KeyOf[b] /\ calls[a] > 0 /\ calls[b] > 0 => a = b

\* Statuses that admit that the connector may have been entered.
DispatchStatuses == {"EXECUTING", "SUCCEEDED", "PARTIAL",
                     "VERIFICATION_FAILED", "UNKNOWN_RESULT"}

\* A row never says that nothing was executed once its connector was entered,
\* although update is unconditional and two threads may write the same row.
DispatchIsRecorded ==
    \A a \in Actions : calls[a] > 0 => status[a] \in DispatchStatuses

\* The thread is inside execute's with statement and the lock was acquired.
InsideLock(w) == act[w] # NoAction /\ idx[w] = Len(LocksOf[act[w]])

ScopeSet(a) == {LocksOf[a][i] : i \in 1 .. Len(LocksOf[a])}

\* Two requests that share a canonical scope are never inside their locks
\* together, although scopes are taken one by one and rolled back.
ScopeExclusion ==
    \A v, w \in Workers :
        v # w /\ InsideLock(v) /\ InsideLock(w)
            => ScopeSet(act[v]) \cap ScopeSet(act[w]) = {}

\* An action the policy allows only confirmed is dispatched only under an
\* approval that was granted, and that was never rejected or left to expire.
ConfirmedDispatch ==
    \A a \in Confirmed : calls[a] > 0 => approval[a] = "APPROVED"

\* A connector's word never makes an observable action SUCCEEDED: at its last
\* observation the devices really were in the wanted state.
SuccessWasObserved ==
    \A a \in Actions : status[a] = "SUCCEEDED" =>
        \A d \in DOMAIN WantOf[a] : witness[a][d] = WantOf[a][d]

\* Outcomes decided under the locks.
FinalStatuses == {"SUCCEEDED", "PARTIAL", "VERIFICATION_FAILED",
                  "UNKNOWN_RESULT", "FAILED", "PRECONDITION_FAILED"}

\* No later update changes such an outcome: neither the thread that parked
\* the action, nor a rejection, nor a replay, nor recover_incomplete.
OutcomeIsFinal ==
    [][\A a \in Actions : status[a] \in FinalStatuses
                              => status'[a] = status[a]]_vars

\* A scope is never held for good: neither a refused acquisition, an
\* exception nor a crash leaks an advisory lock.
ScopesAreFreed ==
    \A s \in Scopes : holder[s] # NoWorker ~> holder[s] = NoWorker

\* What a thread has in hand gets an outcome unless the Core dies or a store refuses:
\* no early return, busy scope, lost lock, replay or late decision leaves a row
\* planned or executing.
InHand(a) == status[a] \in {"PLANNED", "EXECUTING"} /\ \E w \in Workers : act[w] = a

HandledIsSettled ==
    \A a \in Actions :
        InHand(a) ~> status[a] \notin {"PLANNED", "EXECUTING"} \/ ~up \/ a \in raised

\* An action that was planned or entered external execution gets an outcome,
\* across restarts of the Core (docs/PHASE-9, Persistence).
AbandonedIsReconciled ==
    \A a \in Actions : status[a] \in {"PLANNED", "EXECUTING"}
                            ~> status[a] \notin {"PLANNED", "EXECUTING"}

\* Replaying a key returns the original record (docs/PHASE-9, Boundary): no
\* call of execute ends in an exception of the stores.
ReplayReturnsRecord == raised = {}

-----------------------------------------------------------------------------
(* The inductive invariant behind the safety properties.                   *)

\* The thread works for approve_pending, respectively for a caller of execute.
Decider(w) ==
    pc[w] \in {"approved", "rejected", "failing", "complete"} \/ conf[w]
Caller(w) == pc[w] # "idle" /\ ~Decider(w)

ThreadInv ==
    \A w \in Workers :
        /\ pc[w] = "idle" <=> act[w] = NoAction
        /\ pc[w] \in {"idle", "approved", "rejected", "failing"} => ~conf[w]
        /\ pc[w] = "conclude" => next[w] # "ABSENT"
        /\ pc[w] = "evaluate" => next[w] \in {"SUCCEEDED", "EXECUTING"}
        /\ pc[w] = "challenge" => act[w] \in Confirmed
        /\ pc[w] \in {"begin", "invoke", "verify"} /\ act[w] \in Confirmed
               => conf[w]
        /\ ~up => pc[w] = "idle"

\* At most one row per key; whatever was parked or entered has a row.
RowInv ==
    /\ \A a, b \in Actions :
           KeyOf[a] = KeyOf[b] /\ status[a] # "ABSENT" /\ status[b] # "ABSENT"
               => a = b
    /\ \A w \in Workers : pc[w] \in {"invoke", "verify"}
                               => status[act[w]] # "ABSENT"
    /\ \A a \in Actions :
           /\ approval[a] # "NONE" => a \in Confirmed /\ status[a] # "ABSENT"
           /\ calls[a] > 0 => status[a] # "ABSENT"

\* Each action_id has one caller, ever.
CallerInv ==
    \A w \in Workers : Caller(w) =>
        /\ act[w] \in submitted
        /\ \A v \in Workers : Caller(v) /\ act[v] = act[w] => v = w

\* Each approval has one decider, ever, and records its decision.
DeciderInv ==
    \A w \in Workers : Decider(w) =>
        /\ approval[act[w]] =
              IF \/ pc[w] = "rejected"
                 \/ pc[w] = "complete" /\ resolution[w] = "REJECTED"
              THEN "REJECTED" ELSE "APPROVED"
        /\ conf[w] => resolution[w] = "APPROVED"
        /\ pc[w] = "complete"
              => resolution[w] \in {"APPROVED", "REJECTED", "FAILED"}
        /\ \A v \in Workers : Decider(v) /\ act[v] = act[w] => v = w

\* Once the connector was entered for a, the thread that did it is past the
\* dispatch, and no other thread can reach it.
DispatchInv ==
    \A a \in Actions : calls[a] > 0 =>
        /\ calls[a] = 1
        /\ a \in Confirmed => approval[a] = "APPROVED"
        /\ a \notin Confirmed => a \in submitted
        /\ \A w \in Workers :
               act[w] = a /\ (a \in Confirmed => Decider(w)) =>
                   /\ pc[w] \in {"verify", "conclude", "unlock", "complete"}
                   /\ Decider(w) => conf[w]

\* Inductive without any assumption on the lock sessions.
OnceInv == TypeOK /\ ThreadInv /\ RowInv /\ CallerInv /\ DeciderInv /\ DispatchInv

\* The thread holds the scopes it counts, and all of them past the lock.
Holding(w) ==
    /\ pc[w] \in {"idle", "approved", "rejected", "failing", "claim", "complete"}
          => idx[w] = 0
    /\ act[w] # NoAction =>
          /\ idx[w] <= Len(LocksOf[act[w]])
          /\ \A i \in 1 .. idx[w] : holder[LocksOf[act[w]][i]] = w
    /\ pc[w] = "lock" => idx[w] < Len(LocksOf[act[w]])
    /\ (\/ pc[w] \in {"refresh", "evaluate", "challenge", "begin", "invoke", "verify"}
        \/ pc[w] = "conclude" /\ next[w] # "RESOURCE_BUSY")
          => idx[w] = Len(LocksOf[act[w]])

LockInv == \A w \in Workers : Holding(w)

\* Statuses of a row whose outcome is still open and that was not dispatched.
OpenStatuses == Statuses \ (FinalStatuses \cup {"EXECUTING"})

\* A thread that can still write an outcome finds the row open; the caller
\* whose action was parked is about to write just that.
OpenThread(w) ==
    /\ pc[w] \in {"approved", "rejected", "failing", "lock", "refresh",
                  "evaluate", "challenge", "begin"}
          => status[act[w]] \in OpenStatuses
    /\ pc[w] \in {"invoke", "verify"} => status[act[w]] = "EXECUTING"
    /\ pc[w] = "conclude" => status[act[w]] \notin FinalStatuses
    /\ Caller(w) /\ approval[act[w]] # "NONE" =>
          /\ pc[w] \in {"conclude", "unlock"}
          /\ pc[w] = "conclude" => next[w] = "REQUIRE_CONFIRMATION"

OpenInv ==
    /\ \A w \in Workers : OpenThread(w)
    /\ \A a \in Actions :
           /\ approval[a] = "PENDING" => status[a] \in OpenStatuses
           /\ approval[a] # "NONE" => a \in submitted

\* What a thread will write over a dispatched row admits the dispatch.
OutcomeInv ==
    \A w \in Workers :
        pc[w] = "conclude" /\ calls[act[w]] > 0 => next[w] \in DispatchStatuses

\* Observed(a): at the last observation the devices were as a wanted them.
Observed(a) == \A d \in DOMAIN WantOf[a] : witness[a][d] = WantOf[a][d]

\* A thread that is about to write SUCCEEDED has observed it.
ObservedInv ==
    \A w \in Workers :
        pc[w] \in {"evaluate", "conclude"} /\ next[w] = "SUCCEEDED"
            => Observed(act[w])

\* Inductive as long as no lock session is cut under a live thread.
LockedInv ==
    OnceInv /\ LockInv /\ OpenInv /\ OutcomeInv /\ DispatchIsRecorded
    /\ ObservedInv /\ SuccessWasObserved

-----------------------------------------------------------------------------
(* The boundary keeps the promise of its idempotency keys: every step of the *)
(* coordinator's threads is a step of KeyPromise or leaves it alone.        *)

\* What a row of anima_actions says about its request.
RecordedState(a) ==
    CASE status[a] = "ABSENT"        -> "NONE"
      [] status[a] = "EXECUTING"     -> "BEGUN"
      [] status[a] \in FinalStatuses -> status[a]
      [] OTHER                       -> "OPEN"

Promise == INSTANCE KeyPromise
    WITH Requests  <- Actions,
         Answers   <- FinalStatuses,
         Admitting <- DispatchStatuses \cap FinalStatuses,
         Unknown   <- "UNKNOWN_RESULT",
         state     <- [a \in Actions |-> RecordedState(a)],
         sends     <- calls

\* The rows and the connector behave, to whoever replays keys, as the promise
\* allows, although several threads of execute and approve_pending, the recovery
\* and crashes write them: no row says less than what was sent, no key is sent
\* twice, no answer is taken back.
PromiseIsKept == Promise!Spec
=============================================================================
