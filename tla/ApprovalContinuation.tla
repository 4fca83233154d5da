-------------------------- MODULE ApprovalContinuation --------------------------
(***************************************************************************)
(* One approval of one agent episode (src/anima_ha/agent.py): the episode  *)
(* parks the action, records its interruption and waits; people decide the *)
(* approval through resume_confirmation, which fences itself with a lease  *)
(* on the durable continuation, runs approve_pending with allow_recovery,  *)
(* records the result and resumes the model loop.                          *)
(*                                                                         *)
(* The coordinator's execute is ActionExecution; here it has the steps the *)
(* fence has to protect, and its record only the distinctions they make.   *)
(* The approval is issued at time 0; the clock is the database's now() and *)
(* the Core's, which run on one machine.                                   *)
(***************************************************************************)
EXTENDS Naturals, FiniteSets

CONSTANTS
    Resumers,     \* threads of the Core inside resume_confirmation
    NoOne,        \* owner of an unclaimed continuation, holder of free locks
    Life,         \* lifetime of the confirmation challenge
    Lease,        \* lease_seconds of claim_continuation
    MaxTime,      \* bound on the clock
    MaxCrashes    \* bound on the crashes of the Core

\* What the instances are to satisfy; both times are 120 seconds in the code.
ContinuationAssumption ==
    /\ NoOne \notin Resumers
    /\ Life \in Nat \ {0}
    /\ Lease \in Nat \ {0}
    /\ MaxTime \in Nat
    /\ MaxCrashes \in Nat
    /\ Lease >= Life

Choices == {"APPROVED", "REJECTED"}

\* The action's record: parked by REQUIRE_CONFIRMATION, in execution, settled
\* by an outcome after the dispatch, refused by one before it.
Rows == {"PARKED", "EXECUTING", "SETTLED", "REFUSED"}

ContinuationStatuses == {"NONE", "PENDING_RESOLUTION", "CLAIMED",
                         "ACTION_RESOLVED", "MODEL_RESUMING", "CLOSED",
                         "RECOVERY_REQUIRED"}

VARIABLES
    clock,        \* now
    approval,     \* anima_pending_approvals.status
    row,          \* anima_actions.status of the parked action
    holder,       \* the thread that holds the action's resource locks
    cont,         \* anima_agent_continuations: status, owner, expiry, result
    episode,      \* anima_agent_episodes.status
    parker,       \* how far the parking thread is in recording the episode
    pc,           \* where each resumer is inside resume_confirmation
    choice,       \* the decision it carries
    dispatched,   \* whether its own execution has an invocation to report
    calls,        \* history: connector entries
    turns,        \* history: model loops resumed
    crashes       \* crashes of the Core so far

threadVars == <<pc, choice, dispatched>>
vars == <<clock, approval, row, holder, cont, episode, parker, threadVars,
          calls, turns, crashes>>

\* Mutation: releasing the continuation loses its result.
UnclaimedEmpty(status, result) ==
    [status |-> status, owner |-> NoOne, expires |-> 0, result |-> "NONE"]

Unclaimed(status, result) ==
    [status |-> status, owner |-> NoOne, expires |-> 0, result |-> result]

Init ==
    /\ clock = 0
    /\ approval = "PENDING"
    /\ row = "PARKED"
    /\ holder = NoOne
    /\ cont = Unclaimed("NONE", "NONE")
    /\ episode = "RUNNING"
    /\ parker = "interrupt"
    /\ pc = [r \in Resumers |-> "idle"]
    /\ choice = [r \in Resumers |-> "APPROVED"]
    /\ dispatched = [r \in Resumers |-> FALSE]
    /\ calls = 0
    /\ turns = 0
    /\ crashes = 0

-----------------------------------------------------------------------------
(* The parking episode.                                                    *)

\* record_interruption, after the action came back with REQUIRE_CONFIRMATION.
RecordInterruption ==
    /\ parker = "interrupt"
    /\ cont' = Unclaimed("PENDING_RESOLUTION", "NONE")
    /\ parker' = "finish"
    /\ UNCHANGED <<clock, approval, row, holder, episode, threadVars, calls,
                   turns, crashes>>

\* _finish with WAITING_CONFIRMATION.
FinishWaiting ==
    /\ parker = "finish"
    /\ episode' = "WAITING_CONFIRMATION"
    /\ parker' = "done"
    /\ UNCHANGED <<clock, approval, row, holder, cont, threadVars, calls, turns,
                   crashes>>

-----------------------------------------------------------------------------
(* resume_confirmation: preflight and claim.                               *)

Goto(r, phase) == pc' = [pc EXCEPT ![r] = phase]

\* When preflight lets a decision through.  A recorded result puts a second
\* tool result of the approved tool into the transcript, which preflight
\* refuses, so the branch that reuses a stored result is never taken.
Reclaimable ==
    /\ episode = "WAITING_CONFIRMATION"
    /\ \/ cont.status \in {"PENDING_RESOLUTION", "ACTION_RESOLVED"}
       \/ cont.status \in {"CLAIMED", "MODEL_RESUMING"} /\ cont.expires <= clock
    /\ cont.result = "NONE"

Preflight(r, decision) ==
    /\ pc[r] = "idle"
    /\ clock < Life
    /\ Reclaimable
    /\ Goto(r, "claim")
    /\ choice' = [choice EXCEPT ![r] = decision]
    /\ dispatched' = [dispatched EXCEPT ![r] = FALSE]
    /\ UNCHANGED <<clock, approval, row, holder, cont, episode, parker, calls,
                   turns, crashes>>

\* Mutation: a claim does not wait for the end of the lease.
ClaimableUnexpired == cont.status \in {"PENDING_RESOLUTION", "ACTION_RESOLVED", "CLAIMED"}

\* The guard of claim_continuation's UPDATE.
Claimable ==
    \/ cont.status = "PENDING_RESOLUTION"
    \/ cont.status = "ACTION_RESOLVED" /\ cont.owner = NoOne
    \/ cont.status \in {"CLAIMED", "MODEL_RESUMING"} /\ cont.expires <= clock

\* Mutation: half the lease.
HalfLease == clock + Lease \div 2

LeaseEnd == clock + Lease

\* claim_continuation; a claim that finds nothing ends the call.
ClaimContinuation(r, then) ==
    IF Claimable
    THEN /\ cont' = [cont EXCEPT !.status = "CLAIMED", !.owner = r,
                                 !.expires = LeaseEnd]
         /\ Goto(r, then)
    ELSE /\ Goto(r, "idle")
         /\ UNCHANGED cont

Claim(r) ==
    /\ pc[r] = "claim"
    /\ ClaimContinuation(r, "look")
    /\ UNCHANGED <<clock, approval, row, holder, episode, parker, choice,
                   dispatched, calls, turns, crashes>>

-----------------------------------------------------------------------------
(* approve_pending with allow_recovery.                                    *)

\* Mutations: a recovered decision is executed whatever it was; a decision
\* keeps its own name as the next phase.
DecidedToRun(decision) == IF decision \in Choices THEN "run" ELSE "refuse"
DecidedVerbatim(decision) == decision

\* Where a decided approval goes on.
Decided(decision) == IF decision = "APPROVED" THEN "run" ELSE "refuse"

\* The approval is read; one that was already decided the same way is reused.
Look(r) ==
    /\ pc[r] = "look"
    /\ Goto(r, IF approval = choice[r] THEN Decided(choice[r]) ELSE "consume")
    /\ UNCHANGED <<clock, approval, row, holder, cont, episode, parker, choice,
                   dispatched, calls, turns, crashes>>

\* PendingApprovalStore.claim: a live approval consumes its challenge.
Consume(r) ==
    /\ pc[r] = "consume"
    /\ IF approval = "PENDING" /\ clock < Life
       THEN /\ approval' = choice[r]
            /\ Goto(r, Decided(choice[r]))
       ELSE /\ approval' = IF approval = "PENDING" THEN "EXPIRED" ELSE approval
            /\ Goto(r, "release")
    /\ UNCHANGED <<clock, row, holder, cont, episode, parker, choice, dispatched,
                   calls, turns, crashes>>

\* release_continuation, when approve_pending has nothing to report.
Release(r) ==
    /\ pc[r] = "release"
    /\ cont' = IF cont.status = "CLAIMED" /\ cont.owner = r
               THEN Unclaimed("PENDING_RESOLUTION", cont.result)
               ELSE cont
    /\ Goto(r, "idle")
    /\ UNCHANGED <<clock, approval, row, holder, episode, parker, choice,
                   dispatched, calls, turns, crashes>>

\* A rejection, or a tool that no longer matches the approval, is written
\* over the record, whatever it holds.
Refuse(r) ==
    /\ pc[r] \in {"refuse", "mismatch"}
    /\ row' = "REFUSED"
    /\ Goto(r, IF pc[r] = "refuse" THEN "complete" ELSE "fail")
    /\ UNCHANGED <<clock, approval, holder, cont, episode, parker, choice,
                   dispatched, calls, turns, crashes>>

\* ActionStore.claim in execute: a parked record goes on to the locks, any
\* other is returned as it is.  Before it, the tool may no longer match.
CheckRow(r) ==
    /\ pc[r] = "run"
    /\ \/ Goto(r, IF row = "PARKED" THEN "lock" ELSE "complete")
       \/ Goto(r, "mismatch")
    /\ UNCHANGED <<clock, approval, row, holder, cont, episode, parker, choice,
                   dispatched, calls, turns, crashes>>

\* The locks, which another action may hold; RESOURCE_BUSY is written without.
Lock(r) ==
    /\ pc[r] = "lock"
    /\ \/ /\ holder = NoOne
          /\ holder' = r
          /\ Goto(r, "evaluate")
          /\ UNCHANGED row
       \/ /\ row' = "REFUSED"
          /\ Goto(r, "complete")
          /\ UNCHANGED holder
    /\ UNCHANGED <<clock, approval, cont, episode, parker, choice, dispatched,
                   calls, turns, crashes>>

\* ConfirmationChallenge.is_valid at the time of the evaluation.
Fresh == clock < Life

\* Truth and policy under the locks.  An expired confirmation asks for a new
\* approval, which the UNIQUE action_id refuses with an exception.
Evaluate(r) ==
    /\ pc[r] = "evaluate"
    /\ \/ /\ row' = "REFUSED"
          /\ holder' = NoOne
          /\ Goto(r, "complete")
       \/ /\ Fresh
          /\ row' = "EXECUTING"
          /\ Goto(r, "invoke")
          /\ UNCHANGED holder
       \/ /\ ~Fresh
          /\ holder' = NoOne
          /\ Goto(r, "idle")
          /\ UNCHANGED row
    /\ UNCHANGED <<clock, approval, cont, episode, parker, choice, dispatched,
                   calls, turns, crashes>>

\* The gateway refuses, or enters the connector.
Invoke(r) ==
    /\ pc[r] = "invoke"
    /\ \/ /\ Goto(r, "refused")
          /\ UNCHANGED <<dispatched, calls>>
       \/ /\ Goto(r, "settle")
          /\ dispatched' = [dispatched EXCEPT ![r] = TRUE]
          /\ calls' = calls + 1
    /\ UNCHANGED <<clock, approval, row, holder, cont, episode, parker, choice,
                   turns, crashes>>

\* The outcome and the release of the locks.
Terminal(r) ==
    /\ pc[r] \in {"refused", "settle"}
    /\ row' = IF pc[r] = "settle" THEN "SETTLED" ELSE "REFUSED"
    /\ holder' = NoOne
    /\ Goto(r, "complete")
    /\ UNCHANGED <<clock, approval, cont, episode, parker, choice, dispatched,
                   calls, turns, crashes>>

\* PendingApprovalStore.complete, unconditional.
Complete(r) ==
    /\ pc[r] \in {"complete", "fail"}
    /\ approval' = IF pc[r] = "fail" THEN "FAILED" ELSE choice[r]
    /\ Goto(r, "record")
    /\ UNCHANGED <<clock, row, holder, cont, episode, parker, choice, dispatched,
                   calls, turns, crashes>>

-----------------------------------------------------------------------------
(* resume_confirmation: the result and the resumed model loop.             *)

Owns(r) == cont.status = "CLAIMED" /\ cont.owner = r

\* record_continuation_result raises unless the claim is still owned.
Record(r) ==
    /\ pc[r] = "record"
    /\ IF Owns(r)
       THEN /\ cont' = Unclaimed("ACTION_RESOLVED",
                            IF dispatched[r] THEN "DISPATCHED" ELSE "BEFORE_DISPATCH")
            /\ Goto(r, "reclaim")
       ELSE /\ Goto(r, "idle")
            /\ UNCHANGED cont
    /\ UNCHANGED <<clock, approval, row, holder, episode, parker, choice,
                   dispatched, calls, turns, crashes>>

\* The fence that Record released is taken again.
Reclaim(r) ==
    /\ pc[r] = "reclaim"
    /\ ClaimContinuation(r, "resume")
    /\ UNCHANGED <<clock, approval, row, holder, episode, parker, choice,
                   dispatched, calls, turns, crashes>>

\* The guard of transition_continuation's UPDATE; it ignores the lease.
MayTransition(r) ==
    /\ cont.owner = r
    /\ cont.status \in {"CLAIMED", "ACTION_RESOLVED", "MODEL_RESUMING"}

Transition(r, status) ==
    cont' = IF MayTransition(r) THEN [cont EXCEPT !.status = status] ELSE cont

\* MODEL_RESUMING, and the model loop starts.
Resume(r) ==
    /\ pc[r] = "resume"
    /\ Transition(r, "MODEL_RESUMING")
    /\ IF MayTransition(r)
       THEN Goto(r, "model") /\ turns' = turns + 1
       ELSE Goto(r, "idle") /\ UNCHANGED turns
    /\ UNCHANGED <<clock, approval, row, holder, episode, parker, choice,
                   dispatched, calls, crashes>>

\* The loop ends: _finish closes the episode, then the continuation; or an
\* exception leaves the loop and asks for recovery.
FinishEpisode(r) ==
    /\ pc[r] = "model"
    /\ episode' = "FINISHED"
    /\ Goto(r, "close")
    /\ UNCHANGED <<clock, approval, row, holder, cont, parker, choice,
                   dispatched, calls, turns, crashes>>

Close(r) ==
    /\ \/ pc[r] = "close" /\ Transition(r, "CLOSED")
       \/ pc[r] = "model" /\ Transition(r, "RECOVERY_REQUIRED")
    /\ Goto(r, "idle")
    /\ UNCHANGED <<clock, approval, row, holder, episode, parker, choice,
                   dispatched, calls, turns, crashes>>

-----------------------------------------------------------------------------
(* The environment.                                                        *)

Tick ==
    /\ clock < MaxTime
    /\ clock' = clock + 1
    /\ UNCHANGED <<approval, row, holder, cont, episode, parker, threadVars,
                   calls, turns, crashes>>

\* A listing of the pending approvals marks the expired one.
Expire ==
    /\ approval = "PENDING"
    /\ clock >= Life
    /\ approval' = "EXPIRED"
    /\ UNCHANGED <<clock, row, holder, cont, episode, parker, threadVars, calls,
                   turns, crashes>>

\* The Core dies and starts again; its threads and locks are gone.
Crash ==
    /\ crashes < MaxCrashes
    /\ crashes' = crashes + 1
    /\ pc' = [r \in Resumers |-> "idle"]
    /\ dispatched' = [r \in Resumers |-> FALSE]
    /\ holder' = NoOne
    /\ parker' = "done"
    /\ UNCHANGED <<clock, approval, row, cont, episode, choice, calls, turns>>

-----------------------------------------------------------------------------
Step(r) ==
    \/ \E decision \in Choices : Preflight(r, decision)
    \/ Claim(r) \/ Look(r) \/ Consume(r) \/ Release(r) \/ Refuse(r)
    \/ CheckRow(r) \/ Lock(r) \/ Evaluate(r) \/ Invoke(r) \/ Terminal(r)
    \/ Complete(r) \/ Record(r) \/ Reclaim(r) \/ Resume(r)
    \/ FinishEpisode(r) \/ Close(r)

Next ==
    \/ RecordInterruption \/ FinishWaiting
    \/ \E r \in Resumers : Step(r)
    \/ Tick \/ Expire \/ Crash

Spec == Init /\ [][Next]_vars

-----------------------------------------------------------------------------
(* Properties.                                                             *)

Phases == {"idle", "claim", "look", "consume", "release", "refuse", "mismatch",
           "fail", "run", "lock", "evaluate", "invoke", "refused", "settle",
           "complete", "record", "reclaim", "resume", "model", "close"}

\* Every variable stays within the values the tables and threads can hold.
TypeOK ==
    /\ clock \in 0 .. MaxTime
    /\ approval \in {"PENDING", "EXPIRED", "FAILED"} \cup Choices
    /\ row \in Rows
    /\ holder \in Resumers \cup {NoOne}
    /\ cont \in [status: ContinuationStatuses, owner: Resumers \cup {NoOne},
                 expires: Nat, result: {"NONE", "DISPATCHED", "BEFORE_DISPATCH"}]
    /\ episode \in {"RUNNING", "WAITING_CONFIRMATION", "FINISHED"}
    /\ parker \in {"interrupt", "finish", "done"}
    /\ pc \in [Resumers -> Phases]
    /\ choice \in [Resumers -> Choices]
    /\ dispatched \in [Resumers -> BOOLEAN]
    /\ calls \in Nat
    /\ turns \in Nat
    /\ crashes \in 0 .. MaxCrashes

\* However often people decide and the Core crashes, and although the record
\* is checked before the locks, the approved action is dispatched at most
\* once: a recovering resumer gets the fence only after the challenge died.
AtMostOneDispatch == calls <= 1

\* A rejected approval is never dispatched, before or after its rejection.
RejectionIsRespected == approval = "REJECTED" => calls = 0

\* The model loop is resumed only over a durable result of the approval.
ModelSeesResult == turns > 0 => cont.result # "NONE"

\* As long as a lease taken at once would last, one model loop is resumed at
\* most: neither the gap between Record and Reclaim nor a resumer that passed
\* its preflight long ago starts a second one.
OneModelLoopInTime == clock < Lease => turns <= 1
=============================================================================
