-------------------------- MODULE ObligationsProofs --------------------------
(***************************************************************************)
(* What the house owes its people is accounted for, and said once, whoever *)
(* journals, dispatches, speaks and asks, and however many of them there   *)
(* are.                                                                    *)
(***************************************************************************)
EXTENDS MCObligations, TLAPS, WellFoundedInduction

-----------------------------------------------------------------------------
(* The approved action: it is dispatched at most once and never against a     *)
(* rejection, and the model loop is resumed over a durable result, by one      *)
(* thread while the first lease lasts.                                         *)

-----------------------------------------------------------------------------
(* The inductive invariant.                                                 *)

\* The phases a thread reaches only with the fence, and leaves with it.
Fenced == {"look", "consume", "release", "refuse", "mismatch", "fail", "run",
           "lock", "evaluate", "invoke", "refused", "settle", "complete",
           "record", "resume"}

\* The phases of an execution that an approval allows.
Running == {"run", "lock", "evaluate", "invoke", "refused", "settle",
            "mismatch", "fail"}

\* The phases from the recorded result to the end of the loop.
Resuming == {"reclaim", "resume", "model"}

\* The phases between the check of the record and the dispatch.
Checked == {"lock", "evaluate"}

\* A held continuation is held until the first lease could have ended.
LeaseInv == cont.status \in {"CLAIMED", "MODEL_RESUMING"} => cont.expires >= Lease

\* A continuation at rest has no owner.
RestInv ==
    cont.status \in {"NONE", "PENDING_RESOLUTION", "ACTION_RESOLVED"}
        => cont.owner = None

\* Before the interruption is recorded there is nothing to claim.
UnparkedInv == parker = "interrupt" => cont = Approval!Unclaimed("NONE", "NONE")

\* While the challenge lives, a thread in a fenced phase owns the continuation.
FenceInv == clock < Life => \A r \in Resumers : pc[r] \in Fenced => Approval!Owns(r)

\* The action is being dispatched, or was.
Underway == calls > 0 \/ \E r \in Resumers : pc[r] = "invoke"

\* A dispatch closes the record to every check, and a thread whose check is
\* older than the dispatch comes to its evaluation after the challenge's end.
DispatchInv ==
    /\ Underway => actionRow # "PARKED"
    /\ Underway => \A r \in Resumers : pc[r] \in Checked => clock >= Life
    /\ calls > 0 => calls = 1 /\ \A r \in Resumers : pc[r] # "invoke"
    /\ \A r, q \in Resumers : pc[r] = "invoke" /\ pc[q] = "invoke" => r = q

\* Whether the approval's status is that of a decision.
Stands(decision) ==
    IF decision = "APPROVED" THEN approval \in {"APPROVED", "FAILED"}
                             ELSE approval = "REJECTED"

\* A thread acts on the decision that the approval's record holds.
DecisionInv ==
    /\ \A r \in Resumers : pc[r] \in Running => choice[r] = "APPROVED"
    /\ \A r \in Resumers : pc[r] = "refuse" => choice[r] = "REJECTED"
    /\ \A r \in Resumers :
           pc[r] \in Running \cup {"refuse", "complete"} => Stands(choice[r])
    /\ calls > 0 => Stands("APPROVED")

\* A thread past the record of the result has one, and keeps it.
ResultInv ==
    (turns > 0 \/ \E r \in Resumers : pc[r] \in Resuming) => cont.result # "NONE"

\* Within the first lease, a resumed loop leaves nothing to claim and no other
\* thread that may resume.
LoopInv ==
    clock < Lease /\ turns > 0 =>
        /\ turns = 1
        /\ cont.status \in {"MODEL_RESUMING", "CLOSED", "RECOVERY_REQUIRED"}
        /\ \A r \in Resumers : pc[r] = "resume" => cont.owner # r

\* All of it together is inductive.
ApprovalInv ==
    /\ Approval!TypeOK
    /\ LeaseInv
    /\ RestInv
    /\ UnparkedInv
    /\ FenceInv
    /\ DispatchInv
    /\ DecisionInv
    /\ ResultInv
    /\ LoopInv

-----------------------------------------------------------------------------
(* Types.                                                                   *)

\* What the approval's instance satisfies.
LEMMA ResumersAndTimes ==
    /\ None \notin Resumers
    /\ Life \in Nat \ {0}
    /\ Lease \in Nat \ {0}
    /\ MaxTime \in Nat
    /\ MaxCrashes \in Nat
    /\ Lease >= Life
BY ObligationsAssumption DEF Approval!ContinuationAssumption

\* The decisions are different names, and lead to different phases.
LEMMA DecidedPhase ==
    ASSUME NEW decision \in Approval!Choices
    PROVE  Approval!Decided(decision) \in {"run", "refuse"}
BY DEF Approval!Choices, Approval!Decided

\* A claim leaves the continuation as it is, or takes it for a lease.
LEMMA ClaimTaken ==
    ASSUME Approval!TypeOK, NEW r \in Resumers, NEW then, Approval!ClaimContinuation(r, then)
    PROVE  \/ /\ ~Approval!Claimable
              /\ cont' = cont
              /\ Approval!Goto(r, "idle")
           \/ /\ Approval!Claimable
              /\ Approval!Goto(r, then)
              /\ cont' = [status |-> "CLAIMED", owner |-> r, expires |-> clock + Lease,
                          result |-> cont.result]
BY DEF Approval!TypeOK, Approval!ClaimContinuation, Approval!LeaseEnd

LEMMA ApprovalStartTyped == Approval!Init => Approval!TypeOK
BY ResumersAndTimes, SMT
   DEF Approval!Init, Approval!TypeOK, Approval!Phases, Approval!Choices, Approval!Rows, Approval!ContinuationStatuses, Approval!Unclaimed

LEMMA ApprovalTypeStep == Approval!TypeOK /\ [Approval!Next]_approvalVars => Approval!TypeOK'
<1> SUFFICES ASSUME Approval!TypeOK, [Approval!Next]_approvalVars PROVE Approval!TypeOK'
  OBVIOUS
<1> USE ResumersAndTimes
<1>1. CASE UNCHANGED approvalVars
  BY <1>1 DEF approvalVars, Approval!TypeOK
<1>2. CASE Approval!RecordInterruption
  <2>1. cont' \in [status: Approval!ContinuationStatuses, owner: Resumers \cup {None},
                   expires: Nat, result: {"NONE", "DISPATCHED", "BEFORE_DISPATCH"}]
    BY <1>2 DEF Approval!RecordInterruption, Approval!Unclaimed, Approval!ContinuationStatuses
  <2> QED BY <1>2, <2>1 DEF Approval!RecordInterruption, Approval!TypeOK, Approval!threadVars
<1>5. CASE Approval!FinishWaiting
  BY <1>5 DEF Approval!FinishWaiting, Approval!TypeOK, Approval!threadVars
<1>3. CASE Approval!Tick \/ Approval!Expire
  BY <1>3, SMT DEF Approval!Tick, Approval!Expire, Approval!TypeOK, Approval!threadVars
<1>6. CASE Approval!Crash
  <2>1. pc' \in [Resumers -> Approval!Phases] /\ dispatched' \in [Resumers -> BOOLEAN]
    BY <1>6 DEF Approval!Crash, Approval!Phases
  <2> QED BY <1>6, <2>1 DEF Approval!Crash, Approval!TypeOK
<1>4. ASSUME NEW r \in Resumers, Approval!Step(r) PROVE Approval!TypeOK'
  <2>1. ASSUME NEW decision \in Approval!Choices, Approval!Preflight(r, decision) PROVE Approval!TypeOK'
    BY <2>1 DEF Approval!Preflight, Approval!Goto, Approval!TypeOK, Approval!Phases
  <2>2. CASE Approval!Claim(r) \/ Approval!Reclaim(r)
    <3>1. PICK then \in {"look", "resume"} : Approval!ClaimContinuation(r, then)
      BY <2>2 DEF Approval!Claim, Approval!Reclaim
    <3>2. pc' \in [Resumers -> Approval!Phases]
      BY <3>1 DEF Approval!ClaimContinuation, Approval!Goto, Approval!TypeOK, Approval!Phases
    <3>3. cont' \in [status: Approval!ContinuationStatuses, owner: Resumers \cup {None},
                     expires: Nat, result: {"NONE", "DISPATCHED", "BEFORE_DISPATCH"}]
      BY <3>1, ClaimTaken, SMT DEF Approval!TypeOK, Approval!ContinuationStatuses
    <3> QED BY <2>2, <3>2, <3>3 DEF Approval!Claim, Approval!Reclaim, Approval!TypeOK
  <2>3. CASE Approval!Look(r) \/ Approval!Consume(r)
    BY <2>3, DecidedPhase, SMT DEF Approval!Look, Approval!Consume, Approval!Goto, Approval!TypeOK, Approval!Phases
  <2>4. CASE Approval!Release(r) \/ Approval!Record(r)
    BY <2>4, SMT DEF Approval!Release, Approval!Record, Approval!Unclaimed, Approval!Goto, Approval!TypeOK, Approval!Phases, Approval!ContinuationStatuses
  <2>5. CASE Approval!Refuse(r) \/ Approval!CheckRow(r)
    BY <2>5 DEF Approval!Refuse, Approval!CheckRow, Approval!Goto, Approval!TypeOK, Approval!Phases, Approval!Rows
  <2>8. CASE Approval!Lock(r)
    BY <2>8 DEF Approval!Lock, Approval!Goto, Approval!TypeOK, Approval!Phases, Approval!Rows
  <2>9. CASE Approval!Evaluate(r)
    BY <2>9 DEF Approval!Evaluate, Approval!Goto, Approval!TypeOK, Approval!Phases, Approval!Rows
  <2>6. CASE Approval!Invoke(r)
    <3>1. pc' \in [Resumers -> Approval!Phases]
      BY <2>6 DEF Approval!Invoke, Approval!Goto, Approval!TypeOK, Approval!Phases
    <3>2. calls' \in Nat
      BY <2>6 DEF Approval!Invoke, Approval!TypeOK
    <3>3. dispatched' \in [Resumers -> BOOLEAN]
      <4>1. dispatched' = dispatched \/ dispatched' = [dispatched EXCEPT ![r] = TRUE]
        BY <2>6 DEF Approval!Invoke
      <4> QED BY <4>1, Zenon DEF Approval!TypeOK
    <3> QED BY <2>6, <3>1, <3>2, <3>3 DEF Approval!Invoke, Approval!TypeOK
  <2>10. CASE Approval!Terminal(r) \/ Approval!Complete(r)
    BY <2>10, SMT DEF Approval!Terminal, Approval!Complete, Approval!Goto, Approval!TypeOK, Approval!Phases, Approval!Rows
  <2>7. CASE Approval!Resume(r) \/ Approval!FinishEpisode(r) \/ Approval!Close(r)
    BY <2>7, SMT
       DEF Approval!Resume, Approval!FinishEpisode, Approval!Close, Approval!Transition, Approval!Goto, Approval!TypeOK, Approval!Phases, Approval!ContinuationStatuses
  <2> QED BY <1>4, <2>1, <2>2, <2>3, <2>4, <2>5, <2>6,
            <2>7, <2>8, <2>9, <2>10 DEF Approval!Step
<1> QED BY <1>1, <1>2, <1>3, <1>4, <1>5, <1>6 DEF Approval!Next

-----------------------------------------------------------------------------
(* What a step of one thread does to the continuation.                      *)

\* The thread claims the continuation.
Takes(r) ==
    /\ pc[r] \in {"claim", "reclaim"}
    /\ pc'[r] \in {"look", "resume"}
    /\ pc[r] = "claim" <=> pc'[r] = "look"
    /\ turns' = turns
    /\ Approval!Claimable
    /\ cont' = [status |-> "CLAIMED", owner |-> r, expires |-> clock + Lease,
                result |-> cont.result]

\* The thread gives up the continuation it has claimed: without a result, or
\* with the one that it records.
GivesUp(r) ==
    /\ Approval!Owns(r)
    /\ turns' = turns
    /\ \E result \in {"NONE", "DISPATCHED", "BEFORE_DISPATCH"} :
           \/ /\ pc[r] = "release" /\ pc'[r] = "idle"
              /\ result = cont.result
              /\ cont' = Approval!Unclaimed("PENDING_RESOLUTION", result)
           \/ /\ pc[r] = "record" /\ pc'[r] = "reclaim"
              /\ result # "NONE"
              /\ cont' = Approval!Unclaimed("ACTION_RESOLVED", result)

\* The thread moves the continuation it owns on, through the model loop.
MovesOn(r) ==
    /\ cont.owner = r
    /\ cont.status \in {"CLAIMED", "MODEL_RESUMING"}
    /\ \E status \in {"MODEL_RESUMING", "CLOSED", "RECOVERY_REQUIRED"} :
           /\ \/ /\ pc[r] = "resume" /\ pc'[r] = "model"
                 /\ status = "MODEL_RESUMING"
                 /\ turns' = turns + 1
              \/ /\ pc[r] \in {"model", "close"} /\ pc'[r] = "idle"
                 /\ status # "MODEL_RESUMING"
                 /\ turns' = turns
           /\ cont' = [status |-> status, owner |-> r, expires |-> cont.expires,
                       result |-> cont.result]

\* The thread leaves the continuation as it is, and enters no phase that
\* needs it.
LeavesIt(r) ==
    /\ cont' = cont
    /\ turns' = turns
    /\ pc'[r] \in Fenced => pc[r] \in Fenced
    /\ pc'[r] = "resume" => pc[r] = "resume"
    /\ pc'[r] \in Resuming => pc[r] \in Resuming

\* Another thread stays where it is.
Alone(r) == \A q \in Resumers \ {r} : pc'[q] = pc[q] /\ choice'[q] = choice[q]

\* A thread's step moves no other thread.
LEMMA StepAlone ==
    ASSUME Approval!TypeOK, NEW r \in Resumers, Approval!Step(r)
    PROVE  Alone(r) /\ clock' = clock /\ parker' = parker
<1>1. ASSUME NEW decision \in Approval!Choices, Approval!Preflight(r, decision)
      PROVE  Alone(r) /\ clock' = clock /\ parker' = parker
  BY <1>1 DEF Approval!Preflight, Approval!Goto, Alone, Approval!TypeOK
<1>2. CASE Approval!Claim(r) \/ Approval!Reclaim(r) \/ Approval!Look(r) \/ Approval!Consume(r) \/ Approval!Release(r)
  BY <1>2 DEF Approval!Claim, Approval!Reclaim, Approval!ClaimContinuation, Approval!Look, Approval!Consume, Approval!Release, Approval!Goto, Alone, Approval!TypeOK
<1>3. CASE Approval!Refuse(r) \/ Approval!CheckRow(r) \/ Approval!Lock(r) \/ Approval!Evaluate(r)
  BY <1>3 DEF Approval!Refuse, Approval!CheckRow, Approval!Lock, Approval!Evaluate, Approval!Goto, Alone, Approval!TypeOK
<1>4. CASE Approval!Invoke(r) \/ Approval!Terminal(r) \/ Approval!Complete(r) \/ Approval!Record(r)
  BY <1>4 DEF Approval!Invoke, Approval!Terminal, Approval!Complete, Approval!Record, Approval!Goto, Alone, Approval!TypeOK
<1>5. CASE Approval!Resume(r) \/ Approval!FinishEpisode(r) \/ Approval!Close(r)
  BY <1>5 DEF Approval!Resume, Approval!FinishEpisode, Approval!Close, Approval!Goto, Alone, Approval!TypeOK
<1> QED BY <1>1, <1>2, <1>3, <1>4, <1>5 DEF Approval!Step

\* A thread's step does one of four things to the continuation.
LEMMA StepContinuation ==
    ASSUME Approval!TypeOK, RestInv, NEW r \in Resumers, Approval!Step(r)
    PROVE  LeavesIt(r) \/ Takes(r) \/ GivesUp(r) \/ MovesOn(r)
<1> r # None
  BY ResumersAndTimes
<1>1. ASSUME NEW decision \in Approval!Choices, Approval!Preflight(r, decision) PROVE LeavesIt(r)
  BY <1>1 DEF Approval!Preflight, Approval!Goto, LeavesIt, Approval!TypeOK, Fenced, Resuming
<1>2. CASE Approval!Claim(r)
  <2>1. Approval!ClaimContinuation(r, "look")
    BY <1>2 DEF Approval!Claim
  <2> QED BY <1>2, <2>1, ClaimTaken DEF Approval!Claim, Approval!Goto, Approval!TypeOK, LeavesIt, Takes, Fenced, Resuming
<1>3. CASE Approval!Reclaim(r)
  <2>1. Approval!ClaimContinuation(r, "resume")
    BY <1>3 DEF Approval!Reclaim
  <2> QED BY <1>3, <2>1, ClaimTaken DEF Approval!Reclaim, Approval!Goto, Approval!TypeOK, LeavesIt, Takes, Fenced, Resuming
<1>4. CASE Approval!Look(r) \/ Approval!Consume(r)
  BY <1>4, DecidedPhase DEF Approval!Look, Approval!Consume, Approval!Goto, Approval!TypeOK, LeavesIt, Fenced, Resuming
<1>5. CASE Approval!Release(r)
  BY <1>5 DEF Approval!Release, Approval!Goto, Approval!TypeOK, LeavesIt, GivesUp, Approval!Owns, Fenced, Resuming
<1>6. CASE Approval!Record(r)
  BY <1>6 DEF Approval!Record, Approval!Goto, Approval!TypeOK, LeavesIt, GivesUp, Approval!Owns, Fenced, Resuming
<1>7. CASE Approval!Refuse(r) \/ Approval!CheckRow(r) \/ Approval!Lock(r) \/ Approval!Evaluate(r)
  BY <1>7 DEF Approval!Refuse, Approval!CheckRow, Approval!Lock, Approval!Evaluate, Approval!Goto, Approval!TypeOK, LeavesIt, Fenced, Resuming
<1>8. CASE Approval!Invoke(r) \/ Approval!Terminal(r) \/ Approval!Complete(r) \/ Approval!FinishEpisode(r)
  BY <1>8 DEF Approval!Invoke, Approval!Terminal, Approval!Complete, Approval!FinishEpisode, Approval!Goto, Approval!TypeOK, LeavesIt, Fenced, Resuming
<1>9. CASE Approval!Resume(r)
  BY <1>9
     DEF Approval!Resume, Approval!Transition, Approval!MayTransition, RestInv, Approval!Goto, Approval!TypeOK, LeavesIt, MovesOn, Fenced,
         Resuming
<1>10. CASE Approval!Close(r)
  BY <1>10
     DEF Approval!Close, Approval!Transition, Approval!MayTransition, RestInv, Approval!Goto, Approval!TypeOK, LeavesIt, MovesOn, Fenced,
         Resuming
<1> QED BY <1>1, <1>2, <1>3, <1>4, <1>5, <1>6, <1>7, <1>8, <1>9, <1>10 DEF Approval!Step

-----------------------------------------------------------------------------
(* The continuation and the fence.                                          *)

LEMMA InitFenced ==
    Approval!Init => LeaseInv /\ RestInv /\ UnparkedInv /\ FenceInv /\ ResultInv /\ LoopInv
BY ResumersAndTimes
   DEF Approval!Init, Approval!Unclaimed, LeaseInv, RestInv, UnparkedInv, FenceInv, Fenced, ResultInv, Resuming,
       LoopInv

\* A continuation is held for a lease from its claim, and is at rest when it
\* is given up.
LEMMA HeldStep ==
    ASSUME Approval!TypeOK, LeaseInv, RestInv, UnparkedInv, NEW r \in Resumers, Approval!Step(r)
    PROVE  LeaseInv' /\ RestInv' /\ UnparkedInv'
<1> USE ResumersAndTimes
<1>1. parker' = parker
  BY StepAlone
<1>2. CASE LeavesIt(r)
  BY <1>1, <1>2 DEF LeavesIt, LeaseInv, RestInv, UnparkedInv
<1>3. CASE Takes(r)
  BY <1>1, <1>3 DEF Takes, Approval!Claimable, Approval!Unclaimed, Approval!TypeOK, LeaseInv, RestInv, UnparkedInv
<1>4. CASE GivesUp(r)
  BY <1>1, <1>4 DEF GivesUp, Approval!Owns, Approval!Unclaimed, Approval!TypeOK, LeaseInv, RestInv, UnparkedInv
<1>5. CASE MovesOn(r)
  BY <1>1, <1>5 DEF MovesOn, Approval!Unclaimed, Approval!TypeOK, LeaseInv, RestInv, UnparkedInv
<1> QED BY <1>2, <1>3, <1>4, <1>5, StepContinuation

\* While the challenge lives nobody can take the continuation from a thread in
\* a fenced phase, because the lease lasts at least as long.
LEMMA NobodyIsFenced ==
    ASSUME Approval!TypeOK, LeaseInv, FenceInv, clock < Life, Approval!Claimable
    PROVE  \A q \in Resumers : pc[q] \notin Fenced
BY ResumersAndTimes DEF Approval!TypeOK, LeaseInv, FenceInv, Approval!Claimable, Approval!Owns

\* The fence has one owner.
LEMMA FencedAlone ==
    ASSUME FenceInv, clock < Life, NEW r \in Resumers, NEW q \in Resumers,
           pc[r] \in Fenced, pc[q] \in Fenced
    PROVE  r = q
BY DEF FenceInv, Approval!Owns

LEMMA FenceStep ==
    ASSUME Approval!TypeOK, LeaseInv, RestInv, FenceInv, NEW r \in Resumers, Approval!Step(r)
    PROVE  FenceInv'
<1> SUFFICES ASSUME clock < Life, NEW q \in Resumers, pc'[q] \in Fenced
             PROVE  cont'.status = "CLAIMED" /\ cont'.owner = q
  BY StepAlone DEF FenceInv, Approval!Owns
<1>1. q # r => pc'[q] = pc[q]
  BY StepAlone DEF Alone
<1>2. CASE LeavesIt(r)
  BY <1>1, <1>2 DEF LeavesIt, FenceInv, Approval!Owns
<1>3. CASE Takes(r)
  BY <1>1, <1>3, NobodyIsFenced DEF Takes
<1>4. CASE GivesUp(r)
  BY <1>1, <1>4 DEF GivesUp, FenceInv, Approval!Owns, Fenced
<1>5. CASE MovesOn(r)
  BY <1>1, <1>5 DEF MovesOn, FenceInv, Approval!Owns, Fenced
<1> QED BY <1>2, <1>3, <1>4, <1>5, StepContinuation

-----------------------------------------------------------------------------
(* The result and the loop.                                                 *)

LEMMA ResultStep ==
    ASSUME Approval!TypeOK, RestInv, ResultInv, NEW r \in Resumers, Approval!Step(r)
    PROVE  ResultInv'
<1>1. \A q \in Resumers : q # r => pc'[q] = pc[q]
  BY StepAlone DEF Alone
<1>2. CASE LeavesIt(r)
  BY <1>1, <1>2 DEF LeavesIt, ResultInv
<1>3. CASE Takes(r)
  BY <1>1, <1>3 DEF Takes, ResultInv, Resuming
<1>4. CASE GivesUp(r)
  BY <1>1, <1>4 DEF GivesUp, Approval!Unclaimed, ResultInv, Resuming
<1>5. CASE MovesOn(r)
  BY <1>1, <1>5 DEF MovesOn, ResultInv, Resuming
<1> QED BY <1>2, <1>3, <1>4, <1>5, StepContinuation

\* Within the first lease a resumed loop cannot be followed by another: the
\* continuation it left is neither claimable nor another thread's.
LEMMA LoopStep ==
    ASSUME Approval!TypeOK, LeaseInv, RestInv, LoopInv, NEW r \in Resumers, Approval!Step(r)
    PROVE  LoopInv'
<1> SUFFICES ASSUME clock < Lease, turns' > 0
             PROVE  /\ turns' = 1
                    /\ cont'.status \in {"MODEL_RESUMING", "CLOSED", "RECOVERY_REQUIRED"}
                    /\ \A q \in Resumers : pc'[q] = "resume" => cont'.owner # q
  BY StepAlone DEF LoopInv
<1> USE ResumersAndTimes
<1>1. \A q \in Resumers : q # r => pc'[q] = pc[q]
  BY StepAlone DEF Alone
<1>2. CASE LeavesIt(r)
  BY <1>1, <1>2 DEF LeavesIt, LoopInv
<1>3. CASE Takes(r)
  BY <1>1, <1>3 DEF Takes, Approval!Claimable, Approval!TypeOK, LeaseInv, LoopInv
<1>4. CASE GivesUp(r)
  BY <1>1, <1>4 DEF GivesUp, Approval!Owns, LoopInv
<1>5. CASE MovesOn(r)
  BY <1>1, <1>5 DEF MovesOn, Approval!TypeOK, LoopInv
<1> QED BY <1>2, <1>3, <1>4, <1>5, StepContinuation

-----------------------------------------------------------------------------
(* The dispatch.                                                            *)

\* A step that neither checks, nor evaluates, nor dispatches: no thread enters
\* a phase between the check and the dispatch that was not at one before.
Harmless(r) ==
    /\ calls' = calls
    /\ actionRow' # actionRow => actionRow' # "PARKED"
    /\ pc'[r] # "invoke"
    /\ pc'[r] \in Checked => pc[r] \in Checked

LEMMA HarmlessDispatch ==
    ASSUME Approval!TypeOK, DispatchInv, NEW r \in Resumers, Alone(r), clock' = clock, Harmless(r)
    PROVE  DispatchInv'
<1>1. \A q \in Resumers : pc'[q] = "invoke" => pc[q] = "invoke"
  BY DEF Alone, Harmless
<1>2. \A q \in Resumers : pc'[q] \in Checked => pc[q] \in Checked
  BY DEF Alone, Harmless
<1>3. Underway' => Underway
  BY <1>1 DEF Underway, Harmless
<1> QED BY <1>1, <1>2, <1>3 DEF DispatchInv, Harmless

\* A thread that may dispatch finds nothing dispatched, and nobody else on the
\* way: the record is parked when it is checked, and the challenge, without
\* which nothing is dispatched, lives no longer than the fence.
LEMMA DispatchStep ==
    ASSUME Approval!TypeOK, FenceInv, DispatchInv, NEW r \in Resumers, Approval!Step(r)
    PROVE  DispatchInv'
<1>a. Alone(r) /\ clock' = clock
  BY StepAlone
<1>b. ASSUME Harmless(r) PROVE DispatchInv'
  BY <1>a, <1>b, HarmlessDispatch
<1>1. ASSUME NEW decision \in Approval!Choices, Approval!Preflight(r, decision) PROVE Harmless(r)
  BY <1>1 DEF Approval!Preflight, Approval!Goto, Harmless, Checked, Approval!TypeOK
<1>2. CASE Approval!Claim(r) \/ Approval!Reclaim(r)
  <2>1. PICK then \in {"look", "resume"} : Approval!ClaimContinuation(r, then)
    BY <1>2 DEF Approval!Claim, Approval!Reclaim
  <2>2. Harmless(r)
    BY <1>2, <2>1 DEF Approval!Claim, Approval!Reclaim, Approval!ClaimContinuation, Approval!Goto, Harmless, Checked, Approval!TypeOK
  <2> QED BY <1>b, <2>2
<1>3. CASE Approval!Look(r) \/ Approval!Consume(r)
  <2>1. Harmless(r)
    BY <1>3, DecidedPhase DEF Approval!Look, Approval!Consume, Approval!Goto, Harmless, Checked, Approval!TypeOK
  <2> QED BY <1>b, <2>1
<1>4. CASE Approval!Release(r) \/ Approval!Record(r) \/ Approval!Refuse(r) \/ Approval!Terminal(r) \/ Approval!Complete(r)
  <2>1. Harmless(r)
    BY <1>4 DEF Approval!Release, Approval!Record, Approval!Refuse, Approval!Terminal, Approval!Complete, Approval!Goto, Harmless, Checked, Approval!TypeOK
  <2> QED BY <1>b, <2>1
<1>5. CASE Approval!Resume(r) \/ Approval!FinishEpisode(r) \/ Approval!Close(r) \/ Approval!Lock(r)
  <2>1. Harmless(r)
    BY <1>5 DEF Approval!Resume, Approval!FinishEpisode, Approval!Close, Approval!Lock, Approval!Goto, Harmless, Checked, Approval!TypeOK
  <2> QED BY <1>b, <2>1
<1>6. CASE Approval!CheckRow(r)
  <2>1. CASE actionRow # "PARKED"
    <3>1. Harmless(r)
      BY <1>6, <2>1 DEF Approval!CheckRow, Approval!Goto, Harmless, Checked, Approval!TypeOK
    <3> QED BY <1>b, <3>1
  <2>2. CASE actionRow = "PARKED"
    <3>1. ~Underway
      BY <2>2 DEF DispatchInv
    <3>2. ~Underway'
      BY <1>6, <1>a, <3>1 DEF Approval!CheckRow, Approval!Goto, Alone, Underway, Approval!TypeOK
    <3>3. calls' = 0 /\ \A q \in Resumers : pc'[q] # "invoke"
      BY <3>2, <1>6 DEF Underway, Approval!CheckRow, Approval!TypeOK
    <3> QED BY <3>2, <3>3 DEF DispatchInv
  <2> QED BY <2>1, <2>2
<1>7. CASE Approval!Evaluate(r)
  <2>1. CASE pc'[r] # "invoke"
    <3>1. Harmless(r)
      BY <1>7, <2>1 DEF Approval!Evaluate, Approval!Goto, Harmless, Checked, Approval!TypeOK
    <3> QED BY <1>b, <3>1
  <2>2. CASE pc'[r] = "invoke"
    <3>1. clock < Life /\ actionRow' = "EXECUTING" /\ calls' = calls /\ pc[r] = "evaluate"
      BY <1>7, <2>2 DEF Approval!Evaluate, Approval!Goto, Approval!Fresh, Approval!TypeOK
    <3>2. ~Underway
      BY <3>1, ResumersAndTimes DEF DispatchInv, Checked, Approval!TypeOK
    <3>3. \A q \in Resumers : pc'[q] \in Checked \cup {"invoke"} => q = r
      BY <1>a, <3>1, <3>2, FencedAlone DEF Alone, Fenced, Checked, Underway
    <3>4. calls' = 0
      BY <3>1, <3>2 DEF Underway, Approval!TypeOK
    <3> QED BY <2>2, <3>1, <3>3, <3>4 DEF DispatchInv, Checked
  <2> QED BY <2>1, <2>2
<1>8. CASE Approval!Invoke(r)
  <2>1. CASE calls' = calls
    <3>1. Harmless(r)
      BY <1>8, <2>1 DEF Approval!Invoke, Approval!Goto, Harmless, Checked, Approval!TypeOK
    <3> QED BY <1>b, <3>1
  <2>2. CASE calls' # calls
    <3>1. /\ calls' = calls + 1 /\ actionRow' = actionRow
          /\ pc[r] = "invoke" /\ pc'[r] = "settle"
      BY <1>8, <2>2 DEF Approval!Invoke, Approval!Goto, Approval!TypeOK
    <3>2. Underway /\ calls = 0
      BY <3>1 DEF Underway, DispatchInv, Approval!TypeOK
    <3>3. \A q \in Resumers : pc'[q] # "invoke"
      BY <1>a, <3>1 DEF Alone, DispatchInv
    <3>4. \A q \in Resumers : pc'[q] \in Checked => pc[q] \in Checked
      BY <1>a, <3>1 DEF Alone, Checked
    <3> QED BY <1>a, <3>1, <3>2, <3>3, <3>4 DEF DispatchInv
  <2> QED BY <2>1, <2>2
<1> QED BY <1>b, <1>1, <1>2, <1>3, <1>4, <1>5, <1>6, <1>7, <1>8 DEF Approval!Step

-----------------------------------------------------------------------------
(* The decision.                                                            *)

\* Two decisions never stand at once, and none stands in a pending approval.
LEMMA OneDecisionStands ==
    ASSUME NEW c \in Approval!Choices, NEW d \in Approval!Choices, Stands(c), Stands(d)
    PROVE  c = d /\ approval # "PENDING"
BY DEF Approval!Choices, Stands

\* A step that changes neither the approval nor the calls, and enters no phase
\* of an execution.
LEMMA DecisionStays ==
    ASSUME Approval!TypeOK, DecisionInv, NEW r \in Resumers, Alone(r),
           approval' = approval, calls' = calls,
           /\ pc'[r] \in Running => choice'[r] = "APPROVED"
           /\ pc'[r] = "refuse" => choice'[r] = "REJECTED"
           /\ pc'[r] \in Running \cup {"refuse", "complete"} => Stands(choice'[r])
    PROVE  DecisionInv'
BY DEF Alone, DecisionInv, Stands

\* The decision on which a thread acts is the one consumed with the challenge.
LEMMA DecisionStep ==
    ASSUME Approval!TypeOK, DecisionInv, NEW r \in Resumers, Approval!Step(r)
    PROVE  DecisionInv'
<1>a. Alone(r)
  BY StepAlone
<1>1. ASSUME NEW decision \in Approval!Choices, Approval!Preflight(r, decision) PROVE DecisionInv'
  <2>1. /\ approval' = approval /\ calls' = calls
        /\ pc'[r] = "claim"
    BY <1>1 DEF Approval!Preflight, Approval!Goto, Approval!TypeOK
  <2> QED BY <1>a, <2>1, DecisionStays DEF Running
<1>2. CASE Approval!Claim(r) \/ Approval!Reclaim(r) \/ Approval!Release(r) \/ Approval!Record(r)
  <2>1. approval' = approval /\ calls' = calls
    BY <1>2 DEF Approval!Claim, Approval!Reclaim, Approval!Release, Approval!Record
  <2>2. pc'[r] \in {"look", "resume", "idle", "reclaim"}
    BY <1>2 DEF Approval!Claim, Approval!Reclaim, Approval!ClaimContinuation, Approval!Release, Approval!Record, Approval!Goto, Approval!TypeOK
  <2> QED BY <1>a, <2>1, <2>2, DecisionStays DEF Running
<1>3. CASE Approval!Resume(r) \/ Approval!FinishEpisode(r) \/ Approval!Close(r)
  <2>1. approval' = approval /\ calls' = calls
    BY <1>3 DEF Approval!Resume, Approval!FinishEpisode, Approval!Close
  <2>2. pc'[r] \in {"model", "close", "idle"}
    BY <1>3 DEF Approval!Resume, Approval!FinishEpisode, Approval!Close, Approval!Goto, Approval!TypeOK
  <2> QED BY <1>a, <2>1, <2>2, DecisionStays DEF Running
<1>4. CASE Approval!Refuse(r) \/ Approval!CheckRow(r) \/ Approval!Lock(r) \/ Approval!Evaluate(r) \/ Approval!Terminal(r)
  <2>1. approval' = approval /\ calls' = calls /\ choice'[r] = choice[r]
    BY <1>4 DEF Approval!Refuse, Approval!CheckRow, Approval!Lock, Approval!Evaluate, Approval!Terminal
  <2>2. pc[r] \in Running \cup {"refuse"}
    BY <1>4 DEF Approval!Refuse, Approval!CheckRow, Approval!Lock, Approval!Evaluate, Approval!Terminal, Running
  <2>3. /\ pc'[r] \in Running => pc[r] \in Running
        /\ pc'[r] # "refuse"
    BY <1>4 DEF Approval!Refuse, Approval!CheckRow, Approval!Lock, Approval!Evaluate, Approval!Terminal, Running, Approval!Goto, Approval!TypeOK
  <2> QED BY <1>a, <2>1, <2>2, <2>3, DecisionStays DEF DecisionInv
<1>5. CASE Approval!Look(r)
  <2>1. approval' = approval /\ calls' = calls /\ choice'[r] = choice[r]
    BY <1>5 DEF Approval!Look
  <2>2. pc'[r] = IF approval = choice[r] THEN Approval!Decided(choice[r]) ELSE "consume"
    BY <1>5 DEF Approval!Look, Approval!Goto, Approval!TypeOK
  <2> QED BY <1>a, <2>1, <2>2, DecisionStays DEF Approval!Decided, Running, Stands, Approval!Choices, Approval!TypeOK
<1>6. CASE Approval!Consume(r)
  <2>1. calls' = calls /\ choice'[r] = choice[r]
    BY <1>6 DEF Approval!Consume
  <2>2. CASE approval # "PENDING"
    <3>1. approval' = approval /\ pc'[r] = "release"
      BY <1>6, <2>2 DEF Approval!Consume, Approval!Goto, Approval!TypeOK
    <3> QED BY <1>a, <2>1, <3>1, DecisionStays DEF Running
  <2>3. CASE approval = "PENDING"
    <3>1. \A q \in Resumers : pc[q] \notin Running \cup {"refuse", "complete"}
      BY <2>3 DEF DecisionInv, Stands, Approval!TypeOK, Approval!Choices
    <3>2. calls' = 0
      BY <2>1, <2>3 DEF DecisionInv, Stands, Approval!TypeOK
    <3>3. \/ pc'[r] = Approval!Decided(choice[r]) /\ approval' = choice[r]
          \/ pc'[r] = "release"
      BY <1>6 DEF Approval!Consume, Approval!Goto, Approval!TypeOK
    <3> QED BY <1>a, <2>1, <3>1, <3>2, <3>3
            DEF Alone, DecisionInv, Approval!Decided, Stands, Running, Approval!Choices, Approval!TypeOK
  <2> QED BY <2>2, <2>3
<1>7. CASE Approval!Invoke(r)
  <2>1. /\ approval' = approval /\ choice'[r] = choice[r]
        /\ pc[r] \in Running /\ pc'[r] \in Running
    BY <1>7 DEF Approval!Invoke, Running, Approval!Goto, Approval!TypeOK
  <2>2. choice[r] = "APPROVED" /\ Stands("APPROVED")
    BY <2>1 DEF DecisionInv
  <2> QED BY <1>a, <2>1, <2>2 DEF Alone, DecisionInv, Stands, Running
<1>8. CASE Approval!Complete(r)
  <2>1. calls' = calls /\ choice'[r] = choice[r] /\ pc'[r] = "record"
    BY <1>8 DEF Approval!Complete, Approval!Goto, Approval!TypeOK
  <2>2. Stands(choice[r]) /\ Stands(choice[r])'
    BY <1>8 DEF Approval!Complete, DecisionInv, Running, Stands, Approval!Choices, Approval!TypeOK
  <2>3. \A d \in Approval!Choices : Stands(d) => d = choice[r] /\ Stands(d)'
    BY <2>1, <2>2, OneDecisionStands DEF Approval!TypeOK
  <2> QED BY <1>a, <2>1, <2>2, <2>3 DEF Alone, DecisionInv, Running, Approval!Choices, Approval!TypeOK
<1> QED BY <1>1, <1>2, <1>3, <1>4, <1>5, <1>6, <1>7, <1>8 DEF Approval!Step

-----------------------------------------------------------------------------
(* The invariant is inductive.                                              *)

LEMMA ApprovalStart == Approval!Init => ApprovalInv
<1> SUFFICES ASSUME Approval!Init PROVE ApprovalInv
  OBVIOUS
<1>1. DispatchInv /\ DecisionInv
  BY DEF Approval!Init, DispatchInv, Underway, Checked, DecisionInv, Running
<1> QED BY <1>1, ApprovalStartTyped, InitFenced DEF ApprovalInv

\* Recording the interruption opens a continuation that nobody has claimed.
LEMMA InterruptionInv ==
    ASSUME ApprovalInv, Approval!RecordInterruption PROVE ApprovalInv'
<1>1. Approval!TypeOK'
  BY ApprovalTypeStep DEF ApprovalInv, Approval!Next
<1>2. /\ cont = Approval!Unclaimed("NONE", "NONE")
      /\ cont' = Approval!Unclaimed("PENDING_RESOLUTION", "NONE")
      /\ parker' = "finish"
      /\ UNCHANGED <<clock, approval, actionRow, pc, choice, calls, turns>>
  BY DEF Approval!RecordInterruption, ApprovalInv, UnparkedInv, Approval!threadVars
<1>3. LeaseInv' /\ RestInv' /\ UnparkedInv'
  BY <1>2 DEF Approval!Unclaimed, LeaseInv, RestInv, UnparkedInv
<1>4. FenceInv'
  BY <1>2 DEF Approval!Unclaimed, FenceInv, Approval!Owns, ApprovalInv
<1>5. DispatchInv' /\ DecisionInv'
  BY <1>2 DEF DispatchInv, Underway, DecisionInv, Stands, ApprovalInv
<1>6. ResultInv' /\ LoopInv'
  BY <1>2 DEF Approval!Unclaimed, ResultInv, LoopInv, ApprovalInv
<1> QED BY <1>1, <1>3, <1>4, <1>5, <1>6 DEF ApprovalInv

LEMMA StepInv ==
    ASSUME ApprovalInv, NEW r \in Resumers, Approval!Step(r) PROVE ApprovalInv'
<1>1. Approval!TypeOK'
  BY ApprovalTypeStep DEF ApprovalInv, Approval!Next
<1>2. LeaseInv' /\ RestInv' /\ UnparkedInv'
  BY HeldStep DEF ApprovalInv
<1>3. FenceInv'
  BY FenceStep DEF ApprovalInv
<1>4. DispatchInv'
  BY DispatchStep DEF ApprovalInv
<1>5. DecisionInv'
  BY DecisionStep DEF ApprovalInv
<1>6. ResultInv'
  BY ResultStep DEF ApprovalInv
<1>7. LoopInv'
  BY LoopStep DEF ApprovalInv
<1> QED BY <1>1, <1>2, <1>3, <1>4, <1>5, <1>6, <1>7 DEF ApprovalInv

\* Time only passes, an approval expires only before a decision, and a crash
\* leaves what is durable.
LEMMA EnvironmentInv ==
    ASSUME ApprovalInv, Approval!FinishWaiting \/ Approval!Tick \/ Approval!Expire \/ Approval!Crash PROVE ApprovalInv'
<1> USE ResumersAndTimes
<1>1. Approval!TypeOK'
  BY ApprovalTypeStep DEF ApprovalInv, Approval!Next
<1>2. CASE Approval!FinishWaiting
  <2>1. /\ UNCHANGED <<clock, approval, actionRow, cont, pc, choice, calls, turns>>
        /\ parker' # "interrupt"
    BY <1>2 DEF Approval!FinishWaiting, Approval!threadVars
  <2> QED BY <1>1, <2>1
          DEF ApprovalInv, LeaseInv, RestInv, UnparkedInv, FenceInv, Approval!Owns, DispatchInv, Underway,
              DecisionInv, Stands, ResultInv, LoopInv
<1>3. CASE Approval!Tick
  <2>1. /\ UNCHANGED <<approval, actionRow, cont, parker, pc, choice, calls, turns>>
        /\ clock \in Nat /\ clock' = clock + 1
    BY <1>3 DEF Approval!Tick, Approval!threadVars, ApprovalInv, Approval!TypeOK
  <2>2. LeaseInv' /\ RestInv' /\ UnparkedInv' /\ FenceInv'
    BY <2>1 DEF ApprovalInv, LeaseInv, RestInv, UnparkedInv, FenceInv, Approval!Owns
  <2>3. DispatchInv' /\ DecisionInv'
    BY <2>1 DEF ApprovalInv, DispatchInv, Underway, DecisionInv, Stands
  <2>4. ResultInv' /\ LoopInv'
    BY <2>1 DEF ApprovalInv, ResultInv, LoopInv
  <2> QED BY <1>1, <2>2, <2>3, <2>4 DEF ApprovalInv
<1>4. CASE Approval!Expire
  <2>1. /\ UNCHANGED <<clock, actionRow, cont, parker, pc, choice, calls, turns>>
        /\ approval = "PENDING"
    BY <1>4 DEF Approval!Expire, Approval!threadVars
  <2>2. LeaseInv' /\ RestInv' /\ UnparkedInv' /\ FenceInv' /\ DispatchInv'
    BY <2>1 DEF ApprovalInv, LeaseInv, RestInv, UnparkedInv, FenceInv, Approval!Owns, DispatchInv, Underway
  <2>3. DecisionInv'
    BY <2>1 DEF ApprovalInv, DecisionInv, Stands
  <2>4. ResultInv' /\ LoopInv'
    BY <2>1 DEF ApprovalInv, ResultInv, LoopInv
  <2> QED BY <1>1, <2>2, <2>3, <2>4 DEF ApprovalInv
<1>5. CASE Approval!Crash
  <2>1. /\ UNCHANGED <<clock, approval, actionRow, cont, calls, turns>>
        /\ \A r \in Resumers : pc'[r] = "idle"
        /\ parker' = "done"
    BY <1>5 DEF Approval!Crash
  <2>2. LeaseInv' /\ RestInv' /\ UnparkedInv' /\ FenceInv'
    BY <2>1 DEF ApprovalInv, LeaseInv, RestInv, UnparkedInv, FenceInv, Fenced
  <2>3. DispatchInv' /\ DecisionInv'
    BY <2>1 DEF ApprovalInv, DispatchInv, Underway, Checked, DecisionInv, Running, Stands
  <2>4. ResultInv' /\ LoopInv'
    BY <2>1 DEF ApprovalInv, ResultInv, Resuming, LoopInv
  <2> QED BY <1>1, <2>2, <2>3, <2>4 DEF ApprovalInv
<1> QED BY <1>2, <1>3, <1>4, <1>5

LEMMA ApprovalStep == ApprovalInv /\ [Approval!Next]_approvalVars => ApprovalInv'
<1> SUFFICES ASSUME ApprovalInv, [Approval!Next]_approvalVars PROVE ApprovalInv'
  OBVIOUS
<1>1. CASE UNCHANGED approvalVars
  BY <1>1 DEF approvalVars, ApprovalInv, Approval!TypeOK, LeaseInv, RestInv, UnparkedInv, FenceInv, Approval!Owns,
              DispatchInv, Underway, DecisionInv, Stands, ResultInv, LoopInv
<1>2. CASE Approval!Next
  BY <1>2, InterruptionInv, StepInv, EnvironmentInv DEF Approval!Next
<1> QED BY <1>1, <1>2

\* The invariant implies what the run checks of the approved action.
LEMMA ApprovalHolds == ApprovalInv => Approval!TypeOK /\ ApprovedOnce /\ ResumedOnce
<1> SUFFICES ASSUME ApprovalInv PROVE Approval!TypeOK /\ ApprovedOnce /\ ResumedOnce
  OBVIOUS
<1>1. Approval!TypeOK /\ calls \in Nat /\ turns \in Nat
  BY DEF ApprovalInv, Approval!TypeOK
<1>2. Approval!AtMostOneDispatch
  BY <1>1 DEF ApprovalInv, DispatchInv, Approval!AtMostOneDispatch
<1>3. Approval!RejectionIsRespected
  BY <1>1 DEF ApprovalInv, DecisionInv, Stands, Approval!RejectionIsRespected
<1>4. Approval!ModelSeesResult
  BY DEF ApprovalInv, ResultInv, Approval!ModelSeesResult
<1>5. Approval!OneModelLoopInTime
  BY <1>1 DEF ApprovalInv, LoopInv, Approval!OneModelLoopInTime
<1> QED BY <1>1, <1>2, <1>3, <1>4, <1>5 DEF ApprovedOnce, ResumedOnce

-----------------------------------------------------------------------------
(* The records that their owners write: a setting, a note of the vault and a   *)
(* governed memory are replaced only by one who saw them.                      *)

LEMMA RecordNames ==
    /\ None \notin Memories /\ None \notin Requests /\ None \notin Settings
    /\ None \notin BOOLEAN
    /\ MaxVersion \in Nat
BY ObligationsAssumption

-----------------------------------------------------------------------------
(* The owner's settings.                                                    *)

SettingRow == [version : 0..MaxVersion, enabled : BOOLEAN, creator : Clients \cup {None}]

Edit == [at : {"home", "editing", "saving"}, setting : Settings \cup {None},
         saw : 0..MaxVersion, enabled : BOOLEAN \cup {None}, current : SettingRow]

Save == [setting : Settings \cup {None}, saw : 0..MaxVersion,
         replaced : SettingRow, sent : BOOLEAN \cup {None}]

SettingShape ==
    /\ settingRow \in [Settings -> SettingRow]
    /\ editor \in [Clients -> Edit]
    /\ saved \in Save

\* A client has seen a version at or before the row's.  What the plugin read for
\* it came after that, and is the row as long as their versions are equal.
EditIsBehind(e) ==
    /\ e.at # "home" => e.setting \in Settings /\ e.saw <= settingRow[e.setting].version
    /\ e.at = "saving" =>
         /\ e.saw <= e.current.version
         /\ e.current.version <= settingRow[e.setting].version
         /\ e.current.version = settingRow[e.setting].version
                => e.current = settingRow[e.setting]

SettingInv ==
    /\ SettingShape
    /\ \A c \in Clients : EditIsBehind(editor[c])
    /\ Setting!NoLostUpdate

LEMMA SettingStart == Setting!Init => SettingInv
<1> SUFFICES ASSUME Setting!Init PROVE SettingInv
  OBVIOUS
<1>1. Setting!Unborn \in SettingRow
  BY RecordNames DEF Setting!Unborn, SettingRow
<1>2. Setting!Home \in Edit
  BY <1>1, RecordNames DEF Setting!Home, Edit
<1>3. SettingShape
  BY <1>1, <1>2, RecordNames DEF Setting!Init, SettingShape, Save
<1>4. \A c \in Clients : EditIsBehind(editor[c])
  BY DEF Setting!Init, Setting!Home, EditIsBehind
<1> QED
  BY <1>3, <1>4 DEF Setting!Init, SettingInv, Setting!NoLostUpdate

\* A client's own step, when the row stays, moves only its edit.
LEMMA EditAlone ==
    ASSUME SettingInv, NEW c \in Clients, NEW e \in Edit, EditIsBehind(e),
           editor' = [editor EXCEPT ![c] = e], UNCHANGED <<settingRow, saved>>
    PROVE  SettingInv'
<1>1. SettingShape'
  BY DEF SettingInv, SettingShape
<1>2. \A d \in Clients : EditIsBehind(editor[d])'
  <2>1. \A d \in Clients : editor'[d] = IF d = c THEN e ELSE editor[d]
    BY DEF SettingInv, SettingShape
  <2> QED
    BY <2>1 DEF SettingInv, EditIsBehind
<1>3. Setting!NoLostUpdate'
  BY DEF SettingInv, Setting!NoLostUpdate, Setting!Upserted
<1> QED
  BY <1>1, <1>2, <1>3 DEF SettingInv

LEMMA ListKeeps ==
    ASSUME SettingInv, NEW c \in Clients, NEW s \in Settings, Setting!List(c, s)
    PROVE  SettingInv'
<1> DEFINE e == [Setting!Home EXCEPT !.at = "editing", !.setting = s,
                                     !.saw = settingRow[s].version]
<1>1. settingRow[s] \in SettingRow /\ settingRow[s].version \in 0..MaxVersion
  BY DEF SettingInv, SettingShape, SettingRow
<1>2. Setting!Unborn \in SettingRow
  BY RecordNames DEF Setting!Unborn, SettingRow
<1>3. e \in Edit
  BY <1>1, <1>2 DEF Edit, Setting!Home
<1>4. EditIsBehind(e)
  BY <1>1 DEF EditIsBehind, Setting!Home
<1>5. editor' = [editor EXCEPT ![c] = e] /\ UNCHANGED <<settingRow, saved>>
  BY DEF Setting!List
<1> HIDE DEF e
<1> QED
  BY <1>3, <1>4, <1>5, EditAlone

LEMMA HomeIsBehind == Setting!Home \in Edit /\ EditIsBehind(Setting!Home)
<1>1. Setting!Unborn \in SettingRow
  BY RecordNames DEF Setting!Unborn, SettingRow
<1> QED
  BY <1>1, RecordNames DEF Setting!Home, Edit, EditIsBehind

LEMMA SubmitKeeps ==
    ASSUME SettingInv, NEW c \in Clients, NEW enabled \in BOOLEAN \cup {None},
           Setting!Submit(c, enabled)
    PROVE  SettingInv'
<1> DEFINE s == editor[c].setting
           e == [editor[c] EXCEPT !.at = "saving", !.enabled = enabled, !.current = settingRow[s]]
<1>1. editor[c] \in Edit /\ s \in Settings /\ settingRow[s] \in SettingRow
      /\ editor[c].saw <= settingRow[s].version
  BY DEF SettingInv, SettingShape, EditIsBehind, Setting!Submit
<1>2. e \in Edit
  BY <1>1 DEF Edit
<1>3. EditIsBehind(e)
  BY <1>1 DEF EditIsBehind, Edit, SettingRow
<1>4. /\ editor' = [editor EXCEPT ![c] = Setting!Home] \/ editor' = [editor EXCEPT ![c] = e]
      /\ UNCHANGED <<settingRow, saved>>
  BY DEF Setting!Submit, SettingInv, SettingShape
<1> HIDE DEF e
<1> QED
  BY <1>2, <1>3, <1>4, EditAlone, HomeIsBehind

LEMMA StoreKeeps ==
    ASSUME SettingInv, NEW c \in Clients, Setting!Store(c)
    PROVE  SettingInv'
<1> DEFINE e == editor[c]
           s == editor[c].setting
           lands == Setting!VersionMatches(c) /\ Setting!Follows(c)
<1>1. /\ e \in Edit /\ e.at = "saving" /\ s \in Settings
      /\ settingRow[s] \in SettingRow /\ e.current \in SettingRow
      /\ EditIsBehind(e)
  BY DEF SettingInv, SettingShape, EditIsBehind, Setting!Store, Edit
<1>2. CASE ~lands
  BY <1>2, EditAlone, HomeIsBehind DEF Setting!Store
<1>3. CASE lands
  <2> DEFINE new == [version |-> IF Setting!Upserted(s) THEN e.current.version + 1
                                 ELSE settingRow[s].version + 1,
                     enabled |-> Setting!Enabled(c),
                     creator |-> IF Setting!Exists(s) THEN settingRow[s].creator ELSE c]
             save == [setting |-> s, saw |-> e.saw, replaced |-> settingRow[s],
                      sent |-> e.enabled]
  <2>1. /\ settingRow' = [settingRow EXCEPT ![s] = new]
        /\ saved' = save
        /\ editor' = [editor EXCEPT ![c] = Setting!Home]
        /\ settingRow[s].version < MaxVersion
    BY <1>3 DEF Setting!Store
  <2>2. /\ e.saw = settingRow[s].version
        /\ e.current = settingRow[s]
    BY <1>1, <1>3 DEF Setting!VersionMatches, EditIsBehind, Edit, SettingRow
  <2>3. Setting!Enabled(c) \in BOOLEAN
    BY <1>1 DEF Setting!Enabled, Edit, SettingRow
  <2>4. ~Setting!Upserted(s) /\ e.enabled = None => Setting!Enabled(c) = settingRow[s].enabled
    BY <2>2 DEF Setting!Enabled
  <2>5. /\ settingRow[s].version \in 0..MaxVersion
        /\ settingRow[s].creator \in Clients \cup {None}
        /\ MaxVersion \in Nat
    BY <1>1, RecordNames DEF SettingRow
  <2>6. /\ new.version = settingRow[s].version + 1
        /\ new.enabled = Setting!Enabled(c)
        /\ e.saw > 0 => new.creator = settingRow[s].creator
    BY <2>2, <2>5 DEF Setting!Exists
  <2>7. new \in SettingRow
    BY <2>1, <2>2, <2>3, <2>5 DEF SettingRow
  <2>8. save \in Save
    BY <1>1 DEF Edit, Save
  <2>9. /\ save.setting = s /\ save.saw = e.saw /\ save.replaced = settingRow[s]
        /\ save.sent = e.enabled
    OBVIOUS
  <2> HIDE DEF new, save
  <2>10. SettingShape'
    BY <2>1, <2>7, <2>8, HomeIsBehind DEF SettingInv, SettingShape
  <2>11. settingRow'[s] = new /\ \A x \in Settings : x # s => settingRow'[x] = settingRow[x]
    BY <1>1, <2>1 DEF SettingInv, SettingShape
  <2>12. \A d \in Clients : EditIsBehind(editor[d])'
    <3> TAKE d \in Clients
    <3>1. CASE d = c
      BY <2>1, <3>1 DEF SettingInv, SettingShape, EditIsBehind, Setting!Home
    <3>2. CASE d # c
      <4>1. editor'[d] = editor[d] /\ editor[d] \in Edit /\ EditIsBehind(editor[d])
        BY <2>1, <3>2 DEF SettingInv, SettingShape
      <4> QED
        BY <2>5, <2>6, <2>11, <4>1 DEF EditIsBehind, Edit, SettingRow
    <3> QED
      BY <3>1, <3>2
  <2>13. Setting!NoLostUpdate'
    BY <2>1, <2>2, <2>4, <2>6, <2>9, <2>11 DEF Setting!NoLostUpdate, Setting!Upserted
  <2> QED
    BY <2>10, <2>12, <2>13 DEF SettingInv
<1> QED
  BY <1>2, <1>3

LEMMA SettingStep == SettingInv /\ [Setting!Next]_settingVars => SettingInv'
<1> SUFFICES ASSUME SettingInv, [Setting!Next]_settingVars PROVE SettingInv'
  OBVIOUS
<1>1. CASE UNCHANGED settingVars
  BY <1>1 DEF settingVars, SettingInv, SettingShape, EditIsBehind, Setting!NoLostUpdate,
     Setting!Upserted
<1>2. CASE Setting!Next
  BY <1>2, ListKeeps, SubmitKeeps, StoreKeeps DEF Setting!Next
<1> QED
  BY <1>1, <1>2

LEMMA SettingHolds == SettingInv => Setting!SettingsTypeOK /\ Setting!NoLostUpdate
BY DEF SettingInv, SettingShape, SettingRow, Edit, Setting!SettingsTypeOK

-----------------------------------------------------------------------------
(* The vault's note.                                                        *)

NoteRow == [status : {"ACTIVE", "RETRACTED", "EXPIRED"}, digest : Nat,
            request : Requests \cup {None}]

Call == [at : {"idle", "load", "expire", "decide", "replace", "answer"},
         request : Requests \cup {None}, note : NoteRow \cup {None}, late : BOOLEAN]

Sent == [saw : Nat, sends : Nat,
         answers : SUBSET {"SUCCEEDED", "CONFLICT", "UNRECONCILED"}]

VaultShape ==
    /\ note \in NoteRow /\ edited \in BOOLEAN
    /\ request \in [Requests -> Sent]
    /\ thread \in [Threads -> Call]
    /\ writes \in [Requests -> SUBSET Nat]
    /\ lost \subseteq {TRUE}

\* The file lock: one call at a time.
OneCaller == \A t, u \in Threads : thread[t].at # "idle" /\ thread[u].at # "idle" => t = u

\* What is true of a call under way.  It has read the note n that the tools last
\* wrote, or its tombstone; a file that differs was changed behind it.  One about to
\* replace the note has met the digest its sender saw; one that only answers has
\* replaced it.
SoundCall(c, n, e, req, w) ==
    /\ c.request \in Requests => req[c.request].sends > 0
    /\ c.at \in {"decide", "replace", "answer"} => c.request \in Requests
    /\ c.at \in Vault!Reading => /\ c.note \in NoteRow /\ c.note.request = n.request
                                 /\ c.note.digest >= n.digest
                                 /\ e => c.late
    /\ c.at \in {"decide", "replace"} => c.note = n
    /\ c.at = "replace" => n.digest = req[c.request].saw
    /\ c.at = "answer" => w[c.request] # {}

CallIsSound(t) == thread[t].at # "idle" => SoundCall(thread[t], note, edited, request, writes)

\* A request that has replaced a note has left a later digest behind, so it does not
\* meet the digest its sender saw a second time.
RequestIsSound(r) ==
    /\ writes[r] # {} => request[r].sends > 0 /\ note.digest > request[r].saw
    /\ \A d \in writes[r] : d = request[r].saw \/ (d = Vault!Unseen /\ lost # {})
    /\ \A d, e \in writes[r] : d = e
    /\ "SUCCEEDED" \in request[r].answers => writes[r] # {}

\* The receipt a note carries is that of a write.
NoteIsWritten == note.request \in Requests => writes[note.request] # {}

VaultInv ==
    /\ VaultShape
    /\ OneCaller
    /\ \A t \in Threads : CallIsSound(t)
    /\ \A r \in Requests : RequestIsSound(r)
    /\ NoteIsWritten

LEMMA AwayIsCall == Vault!Away \in Call /\ Vault!Away.at = "idle"
BY DEF Vault!Away, Call

LEMMA VaultStart == Vault!Init => VaultInv
<1> SUFFICES ASSUME Vault!Init PROVE VaultInv
  OBVIOUS
<1>1. VaultShape
  BY AwayIsCall DEF Vault!Init, VaultShape, NoteRow, Sent
<1>2. \A t \in Threads : thread[t].at = "idle"
  BY AwayIsCall DEF Vault!Init
<1>3. \A r \in Requests : RequestIsSound(r)
  BY DEF Vault!Init, RequestIsSound
<1>4. NoteIsWritten
  BY RecordNames DEF Vault!Init, NoteIsWritten
<1> QED
  BY <1>1, <1>2, <1>3, <1>4 DEF VaultInv, OneCaller, CallIsSound

\* What an answer to a request changes, and what it leaves.
LEMMA AnswerKeeps ==
    ASSUME VaultInv, NEW r \in Requests,
           NEW a \in {"SUCCEEDED", "CONFLICT", "UNRECONCILED"},
           a = "SUCCEEDED" => writes[r] # {},
           Vault!Answer(r, a), UNCHANGED <<note, writes, lost>>
    PROVE  /\ request' \in [Requests -> Sent]
           /\ \A q \in Requests : RequestIsSound(q)'
<1>1. request' = [request EXCEPT ![r] = [request[r] EXCEPT !.answers = @ \cup {a}]]
  BY DEF Vault!Answer
<1>2. request \in [Requests -> Sent] /\ request[r] \in Sent
  BY DEF VaultInv, VaultShape
<1>3. [request[r] EXCEPT !.answers = @ \cup {a}] \in Sent
  BY <1>2 DEF Sent
<1>4. request' \in [Requests -> Sent]
  BY <1>1, <1>2, <1>3
<1>5. \A q \in Requests : /\ request'[q].saw = request[q].saw
                          /\ request'[q].sends = request[q].sends
                          /\ request'[q].answers =
                               IF q = r THEN request[q].answers \cup {a} ELSE request[q].answers
  BY <1>1, <1>2 DEF Sent
<1>6. ASSUME NEW q \in Requests PROVE RequestIsSound(q)'
  <2>1. RequestIsSound(q)
    BY DEF VaultInv
  <2>2. "SUCCEEDED" \in request'[q].answers => writes[q] # {}
    BY <1>5, <2>1 DEF RequestIsSound
  <2> QED
    BY <1>5, <2>1, <2>2 DEF RequestIsSound
<1> QED
  BY <1>4, <1>6

\* A call moves while no other is under way.
LEMMA CallMoves ==
    ASSUME VaultInv, NEW t \in Threads, \A u \in Threads \ {t} : thread[u].at = "idle",
           NEW c \in Call, thread' = [thread EXCEPT ![t] = c],
           c.at # "idle" => SoundCall(c, note', edited', request', writes'),
           note' \in NoteRow, edited' \in BOOLEAN, lost' \subseteq {TRUE},
           request' \in [Requests -> Sent], writes' \in [Requests -> SUBSET Nat],
           \A q \in Requests : RequestIsSound(q)',
           NoteIsWritten'
    PROVE  VaultInv'
<1>1. thread \in [Threads -> Call]
  BY DEF VaultInv, VaultShape
<1>2. thread'[t] = c /\ \A u \in Threads \ {t} : thread'[u].at = "idle"
  BY <1>1
<1>3. VaultShape'
  BY <1>1 DEF VaultShape
<1>4. OneCaller' /\ \A u \in Threads : CallIsSound(u)'
  BY <1>2 DEF OneCaller, CallIsSound
<1> QED
  BY <1>3, <1>4 DEF VaultInv

\* A step of a call under way finds the other threads idle, and its call sound.
LEMMA UnderWay ==
    ASSUME VaultInv, NEW t \in Threads, thread[t].at # "idle"
    PROVE  /\ \A u \in Threads \ {t} : thread[u].at = "idle"
           /\ thread[t] \in Call /\ thread \in [Threads -> Call]
           /\ SoundCall(thread[t], note, edited, request, writes)
           /\ note \in NoteRow /\ edited \in BOOLEAN /\ lost \subseteq {TRUE}
           /\ request \in [Requests -> Sent] /\ writes \in [Requests -> SUBSET Nat]
BY DEF VaultInv, VaultShape, OneCaller, CallIsSound

\* Nobody is in a call: the death of the Core, and a reader.
LEMMA NoCallMoves ==
    ASSUME VaultInv, \A t \in Threads : thread'[t].at = "idle" /\ thread'[t] \in Call,
           thread' = [t \in Threads |-> thread'[t]],
           request' \in [Requests -> Sent],
           \A q \in Requests : RequestIsSound(q)',
           UNCHANGED <<note, edited, writes, lost>>
    PROVE  VaultInv'
<1>1. VaultShape'
  BY DEF VaultInv, VaultShape
<1>2. OneCaller' /\ \A t \in Threads : CallIsSound(t)'
  BY DEF OneCaller, CallIsSound
<1>3. NoteIsWritten'
  BY DEF VaultInv, NoteIsWritten
<1> QED
  BY <1>1, <1>2, <1>3 DEF VaultInv

LEMMA NoteFacts == \A n \in NoteRow : n.digest \in Nat /\ n.digest >= n.digest
BY DEF NoteRow

LEMMA TombstoneNote ==
    ASSUME note \in NoteRow
    PROVE  /\ Vault!Tombstone \in NoteRow /\ Vault!Tombstone.request = note.request
           /\ Vault!Tombstone.digest = note.digest + 1
<1>1. PICK n \in NoteRow : n = [note EXCEPT !.status = "EXPIRED"]
  BY DEF NoteRow
<1>2. n.request = note.request /\ n.digest \in Nat /\ note.digest = n.digest
  BY <1>1 DEF NoteRow
<1>3. Vault!Tombstone = [n EXCEPT !.digest = n.digest + 1]
  BY <1>1, <1>2 DEF Vault!Tombstone
<1> QED
  BY <1>2, <1>3 DEF NoteRow

LEMMA GetNoteKeeps ==
    ASSUME VaultInv, NEW r \in Requests, Vault!GetNote(r)
    PROVE  VaultInv'
<1>1. note \in NoteRow /\ request \in [Requests -> Sent] /\ thread \in [Threads -> Call]
      /\ writes \in [Requests -> SUBSET Nat]
  BY DEF VaultInv, VaultShape
<1>2. PICK d \in Nat : d = Vault!Loaded.digest
  BY <1>1, TombstoneNote DEF NoteRow, Vault!Loaded
<1>3. request' = [request EXCEPT ![r] = [request[r] EXCEPT !.saw = d]]
  BY <1>2 DEF Vault!GetNote
<1>4. [request[r] EXCEPT !.saw = d] \in Sent
  BY <1>1 DEF Sent
<1>5. request' \in [Requests -> Sent]
  BY <1>1, <1>3, <1>4
<1>6. \A q \in Requests : RequestIsSound(q)'
  <2>1. \A q \in Requests : q # r => request'[q] = request[q]
    BY <1>1, <1>3
  <2>2. /\ request'[r].sends = request[r].sends /\ request'[r].answers = request[r].answers
        /\ request[r].sends = 0 /\ UNCHANGED <<note, writes, lost>>
    BY <1>1, <1>3 DEF Sent, Vault!GetNote
  <2>3. writes[r] = {}
    BY <2>2 DEF VaultInv, RequestIsSound
  <2> QED
    BY <2>1, <2>2, <2>3 DEF VaultInv, RequestIsSound
<1> QED
  BY <1>1, <1>5, <1>6, NoCallMoves DEF Vault!GetNote

\* A call that enters the namespace has read nothing yet.
LEMMA EnterKeeps ==
    ASSUME VaultInv, NEW t \in Threads, thread[t].at = "idle", ~Vault!Busy(t),
           NEW r \in Requests \cup {None}, Vault!Enter(t, r),
           request' \in [Requests -> Sent],
           r \in Requests => request'[r].sends > 0,
           \A q \in Requests : RequestIsSound(q)',
           UNCHANGED <<note, edited, writes, lost>>
    PROVE  VaultInv'
<1> DEFINE c == [Vault!Away EXCEPT !.at = "load", !.request = r]
<1>1. c \in Call /\ c.at = "load" /\ c.request = r
  BY DEF Vault!Away, Call
<1>2. thread' = [thread EXCEPT ![t] = c]
  BY DEF Vault!Enter
<1> HIDE DEF c
<1>3. SoundCall(c, note', edited', request', writes')
  BY <1>1, RecordNames DEF SoundCall, Vault!Reading
<1>4. \A u \in Threads \ {t} : thread[u].at = "idle"
  BY DEF Vault!Busy
<1>5. /\ note \in NoteRow /\ edited \in BOOLEAN /\ lost \subseteq {TRUE}
      /\ writes \in [Requests -> SUBSET Nat] /\ NoteIsWritten'
  BY DEF VaultInv, VaultShape, NoteIsWritten
<1> QED
  BY <1>1, <1>2, <1>3, <1>4, <1>5, CallMoves

LEMMA SendKeeps ==
    ASSUME VaultInv, NEW t \in Threads, NEW r \in Requests, Vault!Send(t, r)
    PROVE  VaultInv'
<1>1. /\ note \in NoteRow /\ request \in [Requests -> Sent] /\ thread \in [Threads -> Call]
      /\ UNCHANGED <<note, edited, writes, lost>>
  BY DEF VaultInv, VaultShape, Vault!Send
<1>2. request' = [request EXCEPT ![r] = [request[r] EXCEPT !.sends = request[r].sends + 1]]
  BY DEF Vault!Send
<1>3. request[r] \in Sent /\ [request[r] EXCEPT !.sends = request[r].sends + 1] \in Sent
  BY <1>1 DEF Sent
<1>4. request' \in [Requests -> Sent]
  BY <1>1, <1>2, <1>3
<1>5. /\ request'[r].saw = request[r].saw /\ request'[r].answers = request[r].answers
      /\ request'[r].sends = request[r].sends + 1 /\ request[r].sends \in Nat
      /\ \A q \in Requests : q # r => request'[q] = request[q]
  BY <1>1, <1>2, <1>3 DEF Sent
<1>6. \A q \in Requests : RequestIsSound(q)'
  BY <1>1, <1>5 DEF VaultInv, RequestIsSound
<1>7. CASE Vault!Busy(t)
  <2>1. UNCHANGED thread
    BY <1>7 DEF Vault!Send
  <2>2. VaultShape' /\ OneCaller' /\ NoteIsWritten'
    BY <1>1, <1>4, <2>1 DEF VaultInv, VaultShape, OneCaller, NoteIsWritten
  <2>3. \A u \in Threads : CallIsSound(u)'
    BY <1>1, <1>5, <2>1 DEF VaultInv, VaultShape, CallIsSound, SoundCall
  <2> QED
    BY <1>6, <2>2, <2>3 DEF VaultInv
<1>8. CASE ~Vault!Busy(t)
  <2>1. thread[t].at = "idle" /\ Vault!Enter(t, r)
    BY <1>8 DEF Vault!Send
  <2> QED
    BY <1>1, <1>4, <1>5, <1>6, <1>8, <2>1, EnterKeeps
<1> QED
  BY <1>7, <1>8

LEMMA PurgeKeeps ==
    ASSUME VaultInv, NEW t \in Threads, Vault!Purge(t)
    PROVE  VaultInv'
<1>1. /\ thread[t].at = "idle" /\ ~Vault!Busy(t) /\ Vault!Enter(t, None)
      /\ UNCHANGED <<note, edited, request, writes, lost>>
  BY DEF Vault!Purge
<1>2. request' \in [Requests -> Sent] /\ \A q \in Requests : RequestIsSound(q)'
  BY <1>1 DEF VaultInv, VaultShape, RequestIsSound
<1> QED
  BY <1>1, <1>2, RecordNames, EnterKeeps

LEMMA LoadKeeps ==
    ASSUME VaultInv, NEW t \in Threads, Vault!Load(t)
    PROVE  VaultInv'
<1> DEFINE r == thread[t].request
<1>1. /\ thread[t].at = "load" /\ UNCHANGED <<note, edited, writes, lost>>
      /\ r \in Requests \cup {None}
      /\ r \in Requests => request[r].sends > 0
  BY UnderWay DEF Vault!Load, Call, SoundCall
<1>2. NoteIsWritten'
  BY <1>1 DEF VaultInv, NoteIsWritten
<1>3. CASE edited
  <2>1. /\ thread' = [thread EXCEPT ![t] = Vault!Away]
        /\ IF r = None THEN UNCHANGED request ELSE Vault!Answer(r, "UNRECONCILED")
    BY <1>3 DEF Vault!Load, Vault!Leave
  <2>2. request' \in [Requests -> Sent] /\ \A q \in Requests : RequestIsSound(q)'
    <3>1. CASE r = None
      BY <1>1, <2>1, <3>1 DEF VaultInv, VaultShape, RequestIsSound
    <3>2. CASE r # None
      <4>1. r \in Requests /\ Vault!Answer(r, "UNRECONCILED") /\ UNCHANGED <<note, writes, lost>>
        BY <1>1, <2>1, <3>2
      <4> HIDE DEF r
      <4> QED
        BY <4>1, AnswerKeeps
    <3> QED
      BY <3>1, <3>2
  <2> QED
    BY <1>1, <1>2, <2>1, <2>2, AwayIsCall, UnderWay, CallMoves
<1>4. ASSUME ~edited, UNCHANGED request, NEW n \in NoteRow, NEW phase \in {"expire", "decide"},
             thread' = [thread EXCEPT ![t].at = phase, ![t].note = n],
             n.request = note.request, n.digest >= note.digest,
             phase = "decide" => n = note /\ r # None
      PROVE  VaultInv'
  <2> DEFINE c == [thread[t] EXCEPT !.at = phase, !.note = n]
  <2>1. c \in Call /\ c.at = phase /\ c.request = r /\ c.note = n
    BY <1>1, UnderWay DEF Call
  <2>2. thread' = [thread EXCEPT ![t] = c]
    BY <1>1, <1>4, UnderWay DEF Call
  <2>3. \A q \in Requests : RequestIsSound(q)'
    BY <1>1, <1>4 DEF VaultInv, RequestIsSound
  <2> HIDE DEF c
  <2>4. SoundCall(c, note, edited, request, writes)
    <3>1. CASE phase = "expire"
      BY <1>1, <1>4, <2>1, <3>1 DEF SoundCall
    <3>2. CASE phase = "decide"
      BY <1>1, <1>4, <2>1, <3>2 DEF SoundCall
    <3> QED
      BY <1>4, <3>1, <3>2
  <2>5. SoundCall(c, note', edited', request', writes')
    BY <1>1, <1>4, <2>4
  <2> QED
    BY <1>1, <1>2, <1>4, <2>1, <2>2, <2>3, <2>5, UnderWay, CallMoves
<1>5. CASE ~edited /\ Vault!Expires
  <2>1. Vault!Tombstone \in NoteRow /\ Vault!Tombstone.request = note.request
        /\ Vault!Tombstone.digest >= note.digest
    <3>1. note \in NoteRow
      BY <1>1, UnderWay
    <3>2. note.digest \in Nat /\ Vault!Tombstone.digest = note.digest + 1
      BY <3>1, NoteFacts, TombstoneNote
    <3> QED
      BY <3>1, <3>2, TombstoneNote
  <2>2. /\ thread' = [thread EXCEPT ![t].at = "expire", ![t].note = Vault!Tombstone]
        /\ UNCHANGED request
    BY <1>5 DEF Vault!Load
  <2> QED
    BY <1>4, <1>5, <2>1, <2>2
<1>6. CASE ~edited /\ ~Vault!Expires /\ r # None
  <2>1. /\ thread' = [thread EXCEPT ![t].at = "decide", ![t].note = note]
        /\ UNCHANGED request
    BY <1>6 DEF Vault!Load, Vault!Onward
  <2>2. note \in NoteRow
    BY <1>1, UnderWay
  <2>3. note.digest >= note.digest
    BY <2>2, NoteFacts
  <2> QED
    BY <1>4, <1>6, <2>1, <2>2, <2>3
<1>7. CASE ~edited /\ ~Vault!Expires /\ r = None
  <2>1. thread' = [thread EXCEPT ![t] = Vault!Away] /\ UNCHANGED request
    BY <1>7 DEF Vault!Load, Vault!Onward, Vault!Leave
  <2>2. \A q \in Requests : RequestIsSound(q)'
    BY <1>1, <2>1 DEF VaultInv, RequestIsSound
  <2> QED
    BY <1>1, <1>2, <2>1, <2>2, AwayIsCall, UnderWay, CallMoves
<1> QED
  BY <1>3, <1>5, <1>6, <1>7 DEF Vault!Load

LEMMA TombstoneKeeps ==
    ASSUME VaultInv, NEW t \in Threads, Vault!Expire(t)
    PROVE  VaultInv'
<1> DEFINE r == thread[t].request
           n == thread[t].note
<1>1. /\ thread[t].at = "expire" /\ UNCHANGED <<request, writes>>
      /\ note' = n /\ edited' = FALSE
      /\ lost' = IF edited THEN lost \cup {thread[t].late} ELSE lost
  BY DEF Vault!Expire, Vault!Put
<1>2. /\ n \in NoteRow /\ n.request = note.request /\ n.digest >= note.digest
      /\ edited => thread[t].late
      /\ r \in Requests \cup {None}
      /\ r \in Requests => request[r].sends > 0
      /\ thread[t].late \in BOOLEAN
  BY <1>1, UnderWay DEF SoundCall, Call, Vault!Reading
<1>3. lost' \subseteq {TRUE} /\ lost \subseteq lost'
  BY <1>1, <1>2, UnderWay
<1>4. NoteIsWritten'
  BY <1>1, <1>2 DEF VaultInv, NoteIsWritten
<1>5. ASSUME NEW q \in Requests PROVE RequestIsSound(q)'
  <2>1. RequestIsSound(q) /\ request[q].saw \in Nat /\ note.digest \in Nat /\ n.digest \in Nat
    BY <1>1, <1>2, UnderWay DEF VaultInv, Sent, NoteRow
  <2>2. note.digest > request[q].saw => n.digest > request[q].saw
    BY <1>2, <2>1
  <2>3. lost # {} => lost' # {}
    BY <1>3
  <2> QED
    BY <1>1, <2>1, <2>2, <2>3 DEF RequestIsSound
<1>6. CASE r = None
  <2>1. thread' = [thread EXCEPT ![t] = Vault!Away]
    BY <1>6 DEF Vault!Expire, Vault!Onward, Vault!Leave
  <2> QED
    BY <1>1, <1>2, <1>3, <1>4, <1>5, <2>1, AwayIsCall, UnderWay, CallMoves
<1>7. CASE r # None
  <2> DEFINE c == [thread[t] EXCEPT !.at = "decide", !.note = n]
  <2>1. c \in Call /\ c.at = "decide" /\ c.request = r /\ c.note = n
    BY <1>1, <1>2, UnderWay DEF Call
  <2>2. thread' = [thread EXCEPT ![t].at = "decide", ![t].note = n]
    BY <1>7 DEF Vault!Expire, Vault!Onward
  <2>3. thread' = [thread EXCEPT ![t] = c]
    BY <1>1, <2>2, UnderWay DEF Call
  <2>4. n.digest >= n.digest
    BY <1>2, NoteFacts
  <2> HIDE DEF c
  <2>5. SoundCall(c, n, FALSE, request, writes)
    <3>1. r \in Requests
      BY <1>2, <1>7
    <3> QED
      BY <1>2, <2>1, <2>4, <3>1 DEF SoundCall
  <2> QED
    <3>1. SoundCall(c, note', edited', request', writes')
      BY <1>1, <2>5
    <3> QED
      BY <1>1, <1>2, <1>3, <1>4, <1>5, <2>1, <2>3, <3>1, UnderWay, CallMoves
<1> QED
  BY <1>6, <1>7

LEMMA DecideKeeps ==
    ASSUME VaultInv, NEW t \in Threads, Vault!Decide(t)
    PROVE  VaultInv'
<1> DEFINE r == thread[t].request
<1>1. /\ thread[t].at = "decide" /\ UNCHANGED <<note, edited, writes, lost>>
      /\ r \in Requests /\ thread[t].note = note /\ request[r].sends > 0
      /\ edited => thread[t].late
  BY UnderWay DEF Vault!Decide, SoundCall, Vault!Reading
<1>2. NoteIsWritten'
  BY <1>1 DEF VaultInv, NoteIsWritten
<1>3. CASE note.request = r /\ Vault!Answer(r, "SUCCEEDED") /\ thread' = [thread EXCEPT ![t] = Vault!Away]
  <2>1. writes[r] # {}
    BY <1>1, <1>3 DEF VaultInv, NoteIsWritten
  <2>2. request' \in [Requests -> Sent] /\ \A q \in Requests : RequestIsSound(q)'
    BY <1>1, <1>3, <2>1, AnswerKeeps
  <2> QED
    BY <1>1, <1>2, <1>3, <2>2, AwayIsCall, UnderWay, CallMoves
<1>4. CASE Vault!Answer(r, "CONFLICT") /\ thread' = [thread EXCEPT ![t] = Vault!Away]
  <2>1. request' \in [Requests -> Sent] /\ \A q \in Requests : RequestIsSound(q)'
    BY <1>1, <1>4, AnswerKeeps
  <2> QED
    BY <1>1, <1>2, <1>4, <2>1, AwayIsCall, UnderWay, CallMoves
<1>5. CASE /\ Vault!Expected(t) /\ UNCHANGED request
           /\ thread' = [thread EXCEPT ![t].at = "replace"]
  <2> DEFINE c == [thread[t] EXCEPT !.at = "replace"]
  <2>1. /\ c \in Call /\ c.at = "replace" /\ c.request = r /\ c.note = note
        /\ c.late = thread[t].late
    BY <1>1, UnderWay DEF Call
  <2>2. thread' = [thread EXCEPT ![t] = c]
    BY <1>1, <1>5, UnderWay DEF Call
  <2>3. \A q \in Requests : RequestIsSound(q)'
    BY <1>1, <1>5 DEF VaultInv, RequestIsSound
  <2>4. note.digest = request[r].saw /\ note \in NoteRow
    BY <1>1, <1>5, UnderWay DEF Vault!Expected
  <2>5. note.digest >= note.digest
    BY <2>4, NoteFacts
  <2> HIDE DEF c
  <2>6. SoundCall(c, note, edited, request, writes)
    BY <1>1, <2>1, <2>4, <2>5 DEF SoundCall
  <2>7. SoundCall(c, note', edited', request', writes')
    BY <1>1, <1>5, <2>6
  <2> QED
    BY <1>1, <1>2, <1>5, <2>1, <2>2, <2>3, <2>7, UnderWay, CallMoves
<1> QED
  BY <1>1, <1>3, <1>4, <1>5 DEF Vault!Decide, Vault!Leave

LEMMA ReplaceKeeps ==
    ASSUME VaultInv, NEW t \in Threads, Vault!Replace(t)
    PROVE  VaultInv'
<1> DEFINE r == thread[t].request
           new == Vault!Written(r, thread[t].note)
           d == IF edited THEN Vault!Unseen ELSE note.digest
           c == [thread[t] EXCEPT !.at = "answer"]
<1>1. /\ thread[t].at = "replace" /\ UNCHANGED request
      /\ note' = new /\ edited' = FALSE
      /\ lost' = IF edited THEN lost \cup {thread[t].late} ELSE lost
      /\ writes' = [writes EXCEPT ![r] = writes[r] \cup {d}]
      /\ thread' = [thread EXCEPT ![t] = c]
  BY DEF Vault!Replace, Vault!Put
<1>2. /\ r \in Requests /\ thread[t].note = note /\ request[r].sends > 0
      /\ note.digest = request[r].saw /\ note \in NoteRow
      /\ edited => thread[t].late
      /\ thread[t].late \in BOOLEAN
  BY <1>1, UnderWay DEF SoundCall, Call, Vault!Reading
<1>3. new \in NoteRow /\ new.request = r /\ new.digest = note.digest + 1
  BY <1>2 DEF Vault!Written, NoteRow
<1>4. c \in Call /\ c.at = "answer" /\ c.request = r
  BY <1>1, UnderWay DEF Call
<1>5. (d \in Nat /\ d = request[r].saw) \/ (d = Vault!Unseen /\ edited)
  BY <1>2 DEF NoteRow, Vault!Unseen
<1>6. d \in Nat
  BY <1>2 DEF NoteRow, Vault!Unseen
<1> HIDE DEF new, c, d
<1>7. lost' \subseteq {TRUE} /\ lost \subseteq lost' /\ (edited => lost' # {})
  BY <1>1, <1>2, UnderWay
<1>8. /\ writes' \in [Requests -> SUBSET Nat]
      /\ writes'[r] = writes[r] \cup {d}
      /\ \A q \in Requests : q # r => writes'[q] = writes[q]
  BY <1>1, <1>2, <1>6, UnderWay
<1>9. NoteIsWritten'
  BY <1>1, <1>3, <1>8 DEF NoteIsWritten
<1>10. ASSUME NEW q \in Requests PROVE RequestIsSound(q)'
  <2>1. RequestIsSound(q) /\ request[q].saw \in Nat /\ note.digest \in Nat
    BY <1>1, <1>2, UnderWay DEF VaultInv, Sent, NoteRow
  <2>2. note.digest > request[q].saw => note'.digest > request[q].saw
    BY <1>1, <1>3, <2>1
  <2>3. lost # {} => lost' # {}
    BY <1>7
  <2>4. CASE q # r
    BY <1>1, <1>8, <2>1, <2>2, <2>3, <2>4 DEF RequestIsSound
  <2>5. CASE q = r
    <3>1. writes[r] = {}
      BY <1>2, <2>1, <2>5 DEF RequestIsSound
    <3>2. writes'[r] = {d} /\ note'.digest > request[r].saw
      BY <1>1, <1>2, <1>3, <1>8, <2>1, <3>1
    <3> QED
      BY <1>1, <1>2, <1>5, <1>7, <2>5, <3>2 DEF RequestIsSound
  <2> QED
    BY <2>4, <2>5
<1>11. SoundCall(c, note', edited', request', writes')
  BY <1>1, <1>2, <1>4, <1>8 DEF SoundCall, Vault!Reading
<1> QED
  BY <1>1, <1>3, <1>4, <1>7, <1>8, <1>9, <1>10, <1>11, UnderWay, CallMoves

LEMMA VaultReplyKeeps ==
    ASSUME VaultInv, NEW t \in Threads, Vault!Reply(t)
    PROVE  VaultInv'
<1> DEFINE r == thread[t].request
<1>1. /\ thread[t].at = "answer" /\ UNCHANGED <<note, edited, writes, lost>>
      /\ r \in Requests /\ writes[r] # {}
      /\ Vault!Answer(r, "SUCCEEDED") /\ thread' = [thread EXCEPT ![t] = Vault!Away]
  BY UnderWay DEF Vault!Reply, Vault!Leave, SoundCall
<1>2. NoteIsWritten'
  BY <1>1 DEF VaultInv, NoteIsWritten
<1>3. request' \in [Requests -> Sent] /\ \A q \in Requests : RequestIsSound(q)'
  BY <1>1, AnswerKeeps
<1> QED
  BY <1>1, <1>2, <1>3, AwayIsCall, UnderWay, CallMoves

\* An edit leaves every call where it is, and is late for one that has read the file.
LEMMA EditKeeps ==
    ASSUME VaultInv, Vault!EditByHand
    PROVE  VaultInv'
<1>1. /\ thread \in [Threads -> Call]
      /\ thread' = [t \in Threads |->
                      [thread[t] EXCEPT !.late = @ \/ thread[t].at \in Vault!Reading]]
      /\ edited' = TRUE /\ UNCHANGED <<note, request, writes, lost>>
  BY DEF VaultInv, VaultShape, Vault!EditByHand
<1>2. ASSUME NEW t \in Threads
      PROVE  /\ thread'[t] \in Call
             /\ thread'[t].at = thread[t].at /\ thread'[t].request = thread[t].request
             /\ thread'[t].note = thread[t].note
             /\ thread[t].at \in Vault!Reading => thread'[t].late
  <2>1. thread[t] \in Call /\ (thread[t].late \/ thread[t].at \in Vault!Reading) \in BOOLEAN
    BY <1>1 DEF Call
  <2>2. thread'[t] = [thread[t] EXCEPT !.late = thread[t].late \/ thread[t].at \in Vault!Reading]
    BY <1>1
  <2> QED
    BY <2>1, <2>2 DEF Call
<1>3. VaultShape' /\ OneCaller' /\ NoteIsWritten'
  <2>1. thread' \in [Threads -> Call]
    BY <1>1, <1>2
  <2>2. VaultShape'
    BY <1>1, <2>1 DEF VaultInv, VaultShape
  <2>3. OneCaller'
    BY <1>2 DEF VaultInv, OneCaller
  <2>4. NoteIsWritten'
    BY <1>1 DEF VaultInv, NoteIsWritten
  <2> QED
    BY <2>2, <2>3, <2>4
<1>4. ASSUME NEW t \in Threads PROVE CallIsSound(t)'
  <2> SUFFICES ASSUME thread'[t].at # "idle"
               PROVE  SoundCall(thread'[t], note, TRUE, request, writes)
    BY <1>1 DEF CallIsSound
  <2>1. SoundCall(thread[t], note, edited, request, writes)
    BY <1>2 DEF VaultInv, CallIsSound
  <2> QED
    BY <1>2, <2>1 DEF SoundCall
<1>5. \A q \in Requests : RequestIsSound(q)'
  BY <1>1 DEF VaultInv, RequestIsSound
<1> QED
  BY <1>3, <1>4, <1>5 DEF VaultInv

LEMMA SurroundingsKeepVault ==
    ASSUME VaultInv, Vault!Die \/ Vault!FallDue \/ Vault!RestoreByHand
    PROVE  VaultInv'
<1>1. UNCHANGED <<note, request, writes, lost>>
  BY DEF Vault!Die, Vault!FallDue, Vault!RestoreByHand
<1>2. \A r \in Requests : RequestIsSound(r)'
  BY <1>1 DEF VaultInv, RequestIsSound
<1>3. CASE Vault!Die
  <2>1. request \in [Requests -> Sent] /\ UNCHANGED edited
        /\ thread' = [t \in Threads |-> Vault!Away]
    BY <1>3 DEF Vault!Die, VaultInv, VaultShape
  <2> QED
    BY <1>1, <1>2, <2>1, AwayIsCall, NoCallMoves
<1>4. CASE Vault!FallDue \/ Vault!RestoreByHand
  <2>1. UNCHANGED thread /\ edited' \in {edited, FALSE}
    BY <1>4 DEF Vault!FallDue, Vault!RestoreByHand
  <2>2. VaultShape' /\ OneCaller' /\ NoteIsWritten'
    BY <1>1, <2>1 DEF VaultInv, VaultShape, OneCaller, NoteIsWritten
  <2>3. \A t \in Threads : CallIsSound(t)'
    BY <1>1, <2>1 DEF VaultInv, CallIsSound, SoundCall
  <2> QED
    BY <1>2, <2>2, <2>3 DEF VaultInv
<1> QED
  BY <1>3, <1>4

LEMMA VaultStep == VaultInv /\ [Vault!Next]_vaultVars => VaultInv'
<1> SUFFICES ASSUME VaultInv, [Vault!Next]_vaultVars PROVE VaultInv'
  OBVIOUS
<1>1. CASE UNCHANGED vaultVars
  BY <1>1 DEF vaultVars, VaultInv, VaultShape, OneCaller, CallIsSound, RequestIsSound, NoteIsWritten
<1>2. CASE Vault!Next
  BY <1>2, GetNoteKeeps, SendKeeps, PurgeKeeps, LoadKeeps, TombstoneKeeps, DecideKeeps,
     ReplaceKeeps, VaultReplyKeeps, EditKeeps, SurroundingsKeepVault DEF Vault!Next
<1> QED
  BY <1>1, <1>2

LEMMA VaultHolds == VaultInv => Vault!VaultTypeOK /\ Vault!WritesWhatWasSeen
<1> SUFFICES ASSUME VaultInv PROVE Vault!VaultTypeOK /\ Vault!WritesWhatWasSeen
  OBVIOUS
<1>1. Vault!VaultTypeOK
  BY DEF VaultInv, VaultShape, NoteRow, Sent, Call, Vault!VaultTypeOK, Vault!Reading
<1>2. Vault!WritesWhatWasSeen
  BY DEF VaultInv, VaultShape, RequestIsSound, Vault!WritesWhatWasSeen
<1> QED
  BY <1>1, <1>2

-----------------------------------------------------------------------------
(* The governed memory.                                                     *)

MemoryRow == [status : {"absent", "ACTIVE", "SUPERSEDED", "RETRACTED", "EXPIRED"},
              supersedes : Memories \cup {None}, by : Memories \cup {None}]

\* The rows a transaction has locked or inserted.
OpenRows == UNION {[held -> MemoryRow] : held \in SUBSET Memories}

Transaction ==
    [at : {"idle", "lock", "index", "refill", "commit"},
     op : {"create", "correct", "retract", "expire", "rebuild", None},
     on : Memories \cup {None}, new : Memories \cup {None},
     rows : OpenRows, table : {"free", "shared", "exclusive"}, refill : SUBSET Memories]

MemoryShape ==
    /\ memory \in [Memories -> MemoryRow]
    /\ due \subseteq Perishable \cap Memories
    /\ session \in [Sessions -> Transaction]

\* A row that a transaction made, superseded, or retracted or expired.
Made(e, m) ==
    /\ m = e.new /\ memory[m].status = "absent"
    /\ e.rows[m].status = "ACTIVE" /\ e.rows[m].by = None
    /\ e.rows[m].supersedes = IF e.op = "correct" THEN e.on ELSE None

Superseded(e, m) ==
    /\ e.op = "correct" /\ m = e.on /\ m # e.new /\ Memory!Active(m)
    /\ e.rows[m].status = "SUPERSEDED" /\ e.rows[m].by = e.new
    /\ e.rows[m].supersedes = memory[m].supersedes

Ended(e, m) ==
    /\ e.op # "correct" /\ m # e.new /\ Memory!Active(m)
    /\ e.rows[m].status \in {"RETRACTED", "EXPIRED"} /\ e.rows[m].by = memory[m].by
    /\ e.rows[m].supersedes = memory[m].supersedes

\* What a transaction has open accounts for every row it will commit.
RowsAreSound(e) ==
    /\ e.at = "lock" => e.on \in Memories
    /\ e.at \in {"idle", "lock", "refill"} \/ e.op = "rebuild"
           => DOMAIN e.rows = {} /\ e.new = None
    /\ e.new # None => e.new \in DOMAIN e.rows
    /\ e.op = "correct" /\ DOMAIN e.rows # {}
           => e.on \in DOMAIN e.rows /\ e.new # None /\ e.on # e.new
    /\ \A m \in DOMAIN e.rows : Made(e, m) \/ Superseded(e, m) \/ Ended(e, m)

\* Only a rebuild holds the index alone; what it has read is still the truth.
TableIsSound(e) ==
    /\ e.table = "exclusive" <=> e.op = "rebuild"
    /\ e.op = "rebuild" => e.at \in {"refill", "commit"}
    /\ e.at = "refill" => e.op = "rebuild"
    /\ e.at = "commit" => e.table # "free"
    /\ e.at = "commit" /\ e.op = "rebuild" =>
         Memory!Indexable \subseteq e.refill /\ \A m \in e.refill : Memory!Active(m)

\* Two transactions share no row, and an exclusive lock excludes the others.
Apart(e, f) ==
    /\ DOMAIN e.rows \cap DOMAIN f.rows = {}
    /\ e.table = "exclusive" => f.table = "free"

MemoryInv ==
    /\ MemoryShape
    /\ \A s \in Sessions : RowsAreSound(session[s]) /\ TableIsSound(session[s])
    /\ \A s, t \in Sessions : s # t => Apart(session[s], session[t])
    /\ Memory!OneSuccessor

LEMMA OpenRowsAre ==
    /\ \A held \in SUBSET Memories : [held -> MemoryRow] \subseteq OpenRows
    /\ \A f \in OpenRows : DOMAIN f \subseteq Memories /\ \A m \in DOMAIN f : f[m] \in MemoryRow
BY DEF OpenRows

LEMMA OutsideIsSound ==
    /\ Memory!Outside \in Transaction
    /\ RowsAreSound(Memory!Outside) /\ TableIsSound(Memory!Outside)
    /\ DOMAIN Memory!Outside.rows = {}
    /\ Memory!Outside.table = "free" /\ Memory!Outside.new = None
    /\ Memory!Outside.at = "idle"
<1>1. [m \in {} |-> Memory!Absent] \in OpenRows /\ DOMAIN [m \in {} |-> Memory!Absent] = {}
  <2>1. [m \in {} |-> Memory!Absent] \in [{} -> MemoryRow]
    OBVIOUS
  <2> QED
    BY <2>1, OpenRowsAre
<1>2. Memory!Outside \in Transaction /\ DOMAIN Memory!Outside.rows = {}
  BY <1>1 DEF Memory!Outside, Transaction
<1>3. None # "rebuild" /\ None # "correct"
  BY ObligationsAssumption
<1> QED
  BY <1>2, <1>3 DEF Memory!Outside, RowsAreSound, TableIsSound

LEMMA MemoryStart == Memory!Init => MemoryInv
<1> SUFFICES ASSUME Memory!Init PROVE MemoryInv
  OBVIOUS
<1>1. Memory!Absent \in MemoryRow
  BY DEF Memory!Absent, MemoryRow
<1>2. MemoryShape
  BY <1>1, OutsideIsSound DEF Memory!Init, MemoryShape
<1>3. \A s \in Sessions : session[s] = Memory!Outside
  BY DEF Memory!Init
<1>4. Memory!OneSuccessor
  BY RecordNames DEF Memory!Init, Memory!Absent, Memory!OneSuccessor, Memory!Indexable, Memory!Active
<1> QED
  BY <1>2, <1>3, <1>4, OutsideIsSound DEF MemoryInv, Apart

\* One transaction moves and nothing is committed.
LEMMA TransactionMoves ==
    ASSUME MemoryInv, NEW s \in Sessions, NEW e \in Transaction,
           RowsAreSound(e), TableIsSound(e),
           \A t \in Sessions : t # s => Apart(e, session[t]) /\ Apart(session[t], e),
           session' = [session EXCEPT ![s] = e], UNCHANGED <<memory, due, index>>
    PROVE  MemoryInv'
<1>1. MemoryShape'
  BY DEF MemoryInv, MemoryShape
<1>2. \A t \in Sessions : session'[t] = IF t = s THEN e ELSE session[t]
  BY DEF MemoryInv, MemoryShape
<1>3. \A t \in Sessions : RowsAreSound(session'[t]) /\ TableIsSound(session'[t])
  BY <1>2 DEF MemoryInv
<1>4. \A t \in Sessions : RowsAreSound(session[t])' /\ TableIsSound(session[t])'
  BY <1>3 DEF RowsAreSound, Made, Superseded, Ended, TableIsSound, Memory!Active, Memory!Indexable
<1>5. \A t, u \in Sessions : t # u => Apart(session[t], session[u])'
  BY <1>2 DEF MemoryInv, Apart
<1>6. Memory!OneSuccessor'
  BY DEF MemoryInv, Memory!OneSuccessor, Memory!Indexable, Memory!Active
<1> QED
  BY <1>1, <1>4, <1>5, <1>6 DEF MemoryInv

\* A transaction that leaves everything it held.
LEMMA Leaves ==
    ASSUME MemoryInv, NEW s \in Sessions,
           session' = [session EXCEPT ![s] = Memory!Outside], UNCHANGED <<memory, due, index>>
    PROVE  MemoryInv'
<1>1. \A t \in Sessions : Apart(Memory!Outside, session[t]) /\ Apart(session[t], Memory!Outside)
  BY OutsideIsSound DEF Apart
<1> QED
  BY <1>1, OutsideIsSound, TransactionMoves

\* A new transaction begins with one row of its own, or none.
LEMMA CreateKeeps ==
    ASSUME MemoryInv, NEW s \in Sessions, NEW m \in Memories, Memory!Create(s, m)
    PROVE  MemoryInv'
<1> DEFINE rows == [x \in {m} |-> Memory!Fresh(None)]
           e == [Memory!Outside EXCEPT !.at = "index", !.op = "create", !.new = m, !.rows = rows]
<1>1. Memory!Fresh(None) \in MemoryRow /\ Memory!Fresh(None).status = "ACTIVE"
      /\ Memory!Fresh(None).by = None /\ Memory!Fresh(None).supersedes = None
  BY DEF Memory!Fresh, MemoryRow
<1>2. rows \in [{m} -> MemoryRow] /\ DOMAIN rows = {m} /\ rows[m] = Memory!Fresh(None)
  BY <1>1
<1>3. rows \in OpenRows
  BY <1>2, OpenRowsAre
<1> HIDE DEF rows
<1>4. /\ e \in Transaction /\ e.at = "index" /\ e.op = "create" /\ e.new = m /\ e.rows = rows
      /\ e.table = "free"
  BY <1>3, OutsideIsSound DEF Transaction
<1> HIDE DEF e
<1>5. memory[m].status = "absent" /\ \A t \in Sessions : m \notin DOMAIN session[t].rows
  BY DEF Memory!Create, Memory!Unused, Memory!Unlocked, Memory!Open
<1>6. RowsAreSound(e) /\ TableIsSound(e)
  BY <1>1, <1>2, <1>4, <1>5 DEF RowsAreSound, TableIsSound, Made
<1>7. \A t \in Sessions : t # s => Apart(e, session[t]) /\ Apart(session[t], e)
  BY <1>2, <1>4, <1>5 DEF Apart
<1>8. session' = [session EXCEPT ![s] = e] /\ UNCHANGED <<memory, due, index>>
  BY DEF Memory!Create, e, rows
<1> QED
  BY <1>4, <1>6, <1>7, <1>8, TransactionMoves

LEMMA LookKeeps ==
    ASSUME MemoryInv, NEW s \in Sessions, NEW m \in Memories, NEW op \in {"correct", "retract"},
           Memory!Look(s, m, op)
    PROVE  MemoryInv'
<1> DEFINE e == [Memory!Outside EXCEPT !.at = "lock", !.op = op, !.on = m]
<1>1. /\ e \in Transaction /\ e.at = "lock" /\ e.op = op /\ e.on = m /\ e.new = None /\ DOMAIN e.rows = {}
      /\ e.table = "free"
  BY OutsideIsSound DEF Transaction
<1>2. session' = [session EXCEPT ![s] = e] /\ UNCHANGED <<memory, due, index>>
  BY DEF Memory!Look
<1> HIDE DEF e
<1>3. RowsAreSound(e) /\ TableIsSound(e)
  BY <1>1 DEF RowsAreSound, TableIsSound
<1>4. \A t \in Sessions : t # s => Apart(e, session[t]) /\ Apart(session[t], e)
  BY <1>1 DEF Apart
<1> QED
  BY <1>1, <1>2, <1>3, <1>4, TransactionMoves

LEMMA RefuseKeeps ==
    ASSUME MemoryInv, NEW s \in Sessions, NEW op, Memory!Refuse(s, op)
    PROVE  MemoryInv'
BY Leaves DEF Memory!Refuse, Memory!Locks

\* A transaction that has the row lock of what it will change, and nothing else.
LEMMA AtTheLock ==
    ASSUME MemoryInv, NEW s \in Sessions, NEW op \in {"correct", "retract"},
           Memory!Locks(s, op), Memory!Transitional(session[s].on)
    PROVE  /\ session[s] \in Transaction /\ session[s].op = op
           /\ session[s].on \in Memories /\ Memory!Active(session[s].on)
           /\ DOMAIN session[s].rows = {} /\ session[s].new = None
           /\ session[s].table # "exclusive"
           /\ \A t \in Sessions : session[s].on \notin DOMAIN session[t].rows
<1>1. session[s] \in Transaction /\ RowsAreSound(session[s]) /\ TableIsSound(session[s])
  BY DEF MemoryInv, MemoryShape
<1> QED
  BY <1>1 DEF RowsAreSound, TableIsSound, Memory!Locks, Memory!Transitional, Memory!Unlocked,
     Memory!Open

LEMMA CorrectKeeps ==
    ASSUME MemoryInv, NEW s \in Sessions, NEW m \in Memories, Memory!Correct(s, m)
    PROVE  MemoryInv'
<1> DEFINE on == session[s].on
           former == [memory[on] EXCEPT !.status = "SUPERSEDED", !.by = m]
           rows == [x \in {m, on} |-> IF x = m THEN Memory!Fresh(on) ELSE former]
           e == [session[s] EXCEPT !.at = "index", !.new = m, !.rows = rows]
<1>1. /\ session[s] \in Transaction /\ session[s].op = "correct" /\ on \in Memories /\ Memory!Active(on)
      /\ DOMAIN session[s].rows = {} /\ session[s].table # "exclusive"
      /\ \A t \in Sessions : on \notin DOMAIN session[t].rows
  BY AtTheLock DEF Memory!Correct
<1>2. /\ memory[m].status = "absent" /\ on # m
      /\ \A t \in Sessions : m \notin DOMAIN session[t].rows
  BY <1>1 DEF Memory!Correct, Memory!Unused, Memory!Unlocked, Memory!Open, Memory!Active
<1>3. memory[on] \in MemoryRow /\ former \in MemoryRow
      /\ former.status = "SUPERSEDED" /\ former.by = m /\ former.supersedes = memory[on].supersedes
  <2>1. memory[on] \in MemoryRow
    BY <1>1 DEF MemoryInv, MemoryShape
  <2>2. PICK half \in MemoryRow : half = [memory[on] EXCEPT !.status = "SUPERSEDED"]
    BY <2>1 DEF MemoryRow
  <2>3. half.status = "SUPERSEDED" /\ half.supersedes = memory[on].supersedes
    BY <2>1, <2>2 DEF MemoryRow
  <2>4. former = [half EXCEPT !.by = m]
    BY <2>1, <2>2 DEF MemoryRow
  <2> QED
    BY <2>1, <2>3, <2>4 DEF MemoryRow
<1> HIDE DEF former
<1>4. /\ Memory!Fresh(on) \in MemoryRow /\ Memory!Fresh(on).status = "ACTIVE"
      /\ Memory!Fresh(on).by = None /\ Memory!Fresh(on).supersedes = on
  BY <1>1 DEF Memory!Fresh, MemoryRow
<1>5. /\ rows \in [{m, on} -> MemoryRow] /\ DOMAIN rows = {m, on}
      /\ rows[m] = Memory!Fresh(on) /\ rows[on] = former
  BY <1>2, <1>3, <1>4
<1>6. rows \in OpenRows
  BY <1>1, <1>5, OpenRowsAre
<1> HIDE DEF rows
<1>7. /\ e \in Transaction /\ e.at = "index" /\ e.op = "correct" /\ e.new = m /\ e.on = on
      /\ e.rows = rows /\ e.table = session[s].table
  BY <1>1, <1>6 DEF Transaction
<1>8. session' = [session EXCEPT ![s] = e] /\ UNCHANGED <<memory, due, index>>
  BY DEF Memory!Correct, Memory!Locks, MemoryInv, MemoryShape, rows, former
<1> HIDE DEF e
<1>9. Made(e, m) /\ Superseded(e, on)
  BY <1>1, <1>2, <1>3, <1>4, <1>5, <1>7 DEF Made, Superseded
<1>10. RowsAreSound(e)
  BY <1>1, <1>2, <1>5, <1>7, <1>9, RecordNames DEF RowsAreSound
<1>11. TableIsSound(e)
  BY <1>1, <1>7 DEF TableIsSound
<1>12. \A t \in Sessions : t # s => Apart(e, session[t]) /\ Apart(session[t], e)
  BY <1>1, <1>2, <1>5, <1>7 DEF Apart, MemoryInv
<1> QED
  BY <1>7, <1>8, <1>10, <1>11, <1>12, TransactionMoves

LEMMA RetractKeeps ==
    ASSUME MemoryInv, NEW s \in Sessions, Memory!Retract(s)
    PROVE  MemoryInv'
<1> DEFINE on == session[s].on
           former == [memory[on] EXCEPT !.status = "RETRACTED"]
           rows == [x \in {on} |-> former]
           e == [session[s] EXCEPT !.at = "index", !.rows = rows]
<1>1. /\ session[s] \in Transaction /\ session[s].op = "retract" /\ session[s].new = None
      /\ on \in Memories /\ Memory!Active(on)
      /\ DOMAIN session[s].rows = {} /\ session[s].table # "exclusive"
      /\ \A t \in Sessions : on \notin DOMAIN session[t].rows
  BY AtTheLock DEF Memory!Retract
<1>2. memory[on] \in MemoryRow /\ former \in MemoryRow
      /\ former.status = "RETRACTED" /\ former.by = memory[on].by
      /\ former.supersedes = memory[on].supersedes
  BY <1>1 DEF MemoryInv, MemoryShape, MemoryRow
<1> HIDE DEF former
<1>3. rows \in [{on} -> MemoryRow] /\ DOMAIN rows = {on} /\ rows[on] = former
  BY <1>2
<1>4. rows \in OpenRows
  BY <1>1, <1>3, OpenRowsAre
<1> HIDE DEF rows
<1>5. /\ e \in Transaction /\ e.at = "index" /\ e.op = "retract" /\ e.new = None
      /\ e.rows = rows /\ e.table = session[s].table
  BY <1>1, <1>4 DEF Transaction
<1>6. session' = [session EXCEPT ![s] = e] /\ UNCHANGED <<memory, due, index>>
  BY DEF Memory!Retract, Memory!Locks, MemoryInv, MemoryShape, rows, former
<1> HIDE DEF e
<1>7. Ended(e, on)
  BY <1>1, <1>2, <1>3, <1>5, RecordNames DEF Ended
<1>8. RowsAreSound(e) /\ TableIsSound(e)
  BY <1>1, <1>3, <1>5, <1>7 DEF RowsAreSound, TableIsSound
<1>9. \A t \in Sessions : t # s => Apart(e, session[t]) /\ Apart(session[t], e)
  BY <1>1, <1>3, <1>5 DEF Apart, MemoryInv
<1> QED
  BY <1>5, <1>6, <1>8, <1>9, TransactionMoves

LEMMA ExpireKeeps ==
    ASSUME MemoryInv, NEW s \in Sessions, Memory!ExpireDue(s)
    PROVE  MemoryInv'
<1> DEFINE held == {m \in due : Memory!Active(m)}
           rows == [m \in held |-> [memory[m] EXCEPT !.status = "EXPIRED"]]
           e == [Memory!Outside EXCEPT !.at = "index", !.op = "expire", !.rows = rows]
<1>1. ASSUME NEW m \in Memories
      PROVE  LET former == [memory[m] EXCEPT !.status = "EXPIRED"] IN
             /\ former \in MemoryRow /\ former.status = "EXPIRED" /\ former.by = memory[m].by
             /\ former.supersedes = memory[m].supersedes
  <2>1. memory[m] \in MemoryRow
    BY DEF MemoryInv, MemoryShape
  <2> QED
    BY <2>1 DEF MemoryRow
<1>2. held \in SUBSET Memories /\ \A t \in Sessions : held \cap DOMAIN session[t].rows = {}
  BY DEF MemoryInv, MemoryShape, Memory!ExpireDue, Memory!Unlocked, Memory!Open
<1>3. rows \in [held -> MemoryRow] /\ DOMAIN rows = held
  BY <1>1, <1>2
<1>4. \A m \in held : /\ rows[m].status = "EXPIRED" /\ rows[m].by = memory[m].by
                      /\ rows[m].supersedes = memory[m].supersedes /\ m \in Memories
                      /\ Memory!Active(m)
  BY <1>1, <1>2
<1>5. rows \in OpenRows
  BY <1>2, <1>3, OpenRowsAre
<1>6. session' = [session EXCEPT ![s] = e] /\ UNCHANGED <<memory, due, index>>
  BY DEF Memory!ExpireDue
<1> HIDE DEF rows, held
<1>7. /\ e \in Transaction /\ e.at = "index" /\ e.op = "expire" /\ e.new = None
      /\ e.rows = rows /\ e.table = "free"
  BY <1>5, OutsideIsSound DEF Transaction
<1> HIDE DEF e
<1>8. \A m \in held : Ended(e, m)
  BY <1>4, <1>7, RecordNames DEF Ended
<1>9. RowsAreSound(e) /\ TableIsSound(e)
  BY <1>3, <1>7, <1>8 DEF RowsAreSound, TableIsSound
<1>10. \A t \in Sessions : t # s => Apart(e, session[t]) /\ Apart(session[t], e)
  BY <1>2, <1>3, <1>7 DEF Apart
<1> QED
  BY <1>6, <1>7, <1>9, <1>10, TransactionMoves

\* The index: shared by the writers, alone for the rebuild.
LEMMA TouchKeeps ==
    ASSUME MemoryInv, NEW s \in Sessions, Memory!TouchIndex(s)
    PROVE  MemoryInv'
<1> DEFINE e == [session[s] EXCEPT !.at = "commit", !.table = "shared"]
<1>1. /\ session[s] \in Transaction /\ RowsAreSound(session[s]) /\ TableIsSound(session[s])
      /\ session[s].at = "index"
  BY DEF MemoryInv, MemoryShape, Memory!TouchIndex
<1>2. /\ e \in Transaction /\ e.at = "commit" /\ e.table = "shared" /\ e.op = session[s].op
      /\ e.on = session[s].on /\ e.new = session[s].new /\ e.rows = session[s].rows
  BY <1>1 DEF Transaction
<1>3. session' = [session EXCEPT ![s] = e] /\ UNCHANGED <<memory, due, index>>
  BY DEF Memory!TouchIndex, MemoryInv, MemoryShape
<1> HIDE DEF e
<1>4. RowsAreSound(e) /\ TableIsSound(e)
  BY <1>1, <1>2 DEF RowsAreSound, TableIsSound, Made, Superseded, Ended
<1>5. \A t \in Sessions : t # s => Apart(e, session[t]) /\ Apart(session[t], e)
  BY <1>2 DEF Apart, MemoryInv, Memory!TouchIndex, Memory!Exclusive
<1> QED
  BY <1>2, <1>3, <1>4, <1>5, TransactionMoves

LEMMA TruncateKeeps ==
    ASSUME MemoryInv, NEW s \in Sessions, Memory!Truncate(s)
    PROVE  MemoryInv'
<1> DEFINE e == [Memory!Outside EXCEPT !.at = "refill", !.op = "rebuild", !.table = "exclusive"]
<1>1. /\ e \in Transaction /\ e.at = "refill" /\ e.op = "rebuild" /\ e.table = "exclusive"
      /\ e.new = None /\ DOMAIN e.rows = {}
  BY OutsideIsSound DEF Transaction
<1>2. session' = [session EXCEPT ![s] = e] /\ UNCHANGED <<memory, due, index>>
  BY DEF Memory!Truncate
<1> HIDE DEF e
<1>3. RowsAreSound(e) /\ TableIsSound(e)
  BY <1>1 DEF RowsAreSound, TableIsSound
<1>4. \A t \in Sessions : t # s => Apart(e, session[t]) /\ Apart(session[t], e)
  BY <1>1 DEF Apart, Memory!Truncate, Memory!Touched
<1> QED
  BY <1>1, <1>2, <1>3, <1>4, TransactionMoves

LEMMA RefillKeeps ==
    ASSUME MemoryInv, NEW s \in Sessions, Memory!Refill(s)
    PROVE  MemoryInv'
<1> DEFINE e == [session[s] EXCEPT !.at = "commit", !.refill = Memory!Indexable]
<1>1. /\ session[s] \in Transaction /\ RowsAreSound(session[s]) /\ TableIsSound(session[s])
      /\ session[s].at = "refill"
  BY DEF MemoryInv, MemoryShape, Memory!Refill
<1>2. Memory!Indexable \in SUBSET Memories /\ \A m \in Memory!Indexable : Memory!Active(m)
  BY DEF Memory!Indexable
<1>3. /\ e \in Transaction /\ e.at = "commit" /\ e.table = session[s].table /\ e.op = session[s].op
      /\ e.on = session[s].on /\ e.new = session[s].new /\ e.rows = session[s].rows
      /\ e.refill = Memory!Indexable
  BY <1>1, <1>2 DEF Transaction
<1>4. session' = [session EXCEPT ![s] = e] /\ UNCHANGED <<memory, due, index>>
  BY DEF Memory!Refill, MemoryInv, MemoryShape
<1> HIDE DEF e
<1>5. RowsAreSound(e) /\ TableIsSound(e)
  BY <1>1, <1>2, <1>3 DEF RowsAreSound, TableIsSound, Made, Superseded, Ended
<1>6. \A t \in Sessions : t # s => Apart(e, session[t]) /\ Apart(session[t], e)
  BY <1>3 DEF Apart, MemoryInv
<1> QED
  BY <1>3, <1>4, <1>5, <1>6, TransactionMoves

\* The commit: the open rows become the memory, and the index follows them.
LEMMA CommitKeepsSuccessors ==
    ASSUME MemoryInv, NEW s \in Sessions, Memory!Commit(s)
    PROVE  Memory!OneSuccessor'
<1> DEFINE e == session[s]
           held == DOMAIN session[s].rows
<1>1. e \in Transaction /\ RowsAreSound(e) /\ TableIsSound(e) /\ e.at = "commit"
  BY DEF MemoryInv, MemoryShape, Memory!Commit
<1>2. held \subseteq Memories /\ \A m \in held : e.rows[m] \in MemoryRow
  BY <1>1, OpenRowsAre DEF Transaction
<1>3. /\ \A m \in Memories : memory'[m] = IF m \in held THEN e.rows[m] ELSE memory[m]
      /\ UNCHANGED due
  BY DEF Memory!Commit, Memory!Open
<1>4. \A m \in held : Made(e, m) \/ Superseded(e, m) \/ Ended(e, m)
  BY <1>1 DEF RowsAreSound
<1>5. Memory!OneSuccessor /\ memory \in [Memories -> MemoryRow]
  BY DEF MemoryInv, MemoryShape
<1>6. \A m \in held : memory[m].status \in {"absent", "ACTIVE"} /\ memory[m].by = None
  BY <1>2, <1>4, <1>5 DEF Made, Superseded, Ended, Memory!Active, Memory!OneSuccessor
<1>7. \A m \in Memories : memory'[m].status = "SUPERSEDED" <=> memory'[m].by # None
  <2> TAKE m \in Memories
  <2>1. CASE m \in held
    <3>1. Superseded(e, m) => e.new # None
      BY <1>1, <2>1 DEF RowsAreSound, Superseded
    <3> QED
      BY <1>3, <1>4, <1>6, <2>1, <3>1 DEF Made, Superseded, Ended
  <2>2. CASE m \notin held
    BY <1>3, <1>5, <2>2 DEF Memory!OneSuccessor
  <2> QED
    BY <2>1, <2>2
<1>8. \A m, n \in Memories :
        memory'[n].supersedes = m => memory'[m].status = "SUPERSEDED" /\ memory'[m].by = n
  <2> SUFFICES ASSUME NEW m \in Memories, NEW n \in Memories, memory'[n].supersedes = m
               PROVE  memory'[m].status = "SUPERSEDED" /\ memory'[m].by = n
    OBVIOUS
  <2>1. CASE memory[n].supersedes = m
    <3>1. memory[m].status = "SUPERSEDED" /\ memory[m].by = n
      BY <1>5, <2>1 DEF Memory!OneSuccessor
    <3> QED
      BY <1>3, <1>6, <3>1
  <2>2. CASE memory[n].supersedes # m
    <3>1. n \in held /\ Made(e, n) /\ e.op = "correct" /\ m = e.on
      BY <1>3, <1>4, <2>2, RecordNames DEF Made, Superseded, Ended
    <3>2. m \in held /\ Superseded(e, m) /\ n = e.new
      BY <1>1, <1>4, <3>1 DEF RowsAreSound, Made, Ended
    <3> QED
      BY <1>3, <3>2 DEF Superseded
  <2> QED
    BY <2>1, <2>2
<1>9. Memory!Indexable' \subseteq index' /\ \A m \in index' : m \in Memories /\ memory'[m].status = "ACTIVE"
  <2>1. CASE e.op = "rebuild"
    <3>1. held = {} /\ index' = e.refill
      BY <1>1, <2>1 DEF RowsAreSound, Memory!Commit
    <3>2. Memory!Indexable \subseteq e.refill /\ e.refill \subseteq Memories
          /\ \A m \in e.refill : Memory!Active(m)
      BY <1>1, <2>1 DEF TableIsSound, Transaction
    <3> QED
      BY <1>3, <3>1, <3>2 DEF Memory!Indexable, Memory!Active
  <2>2. CASE e.op # "rebuild"
    <3>1. index' = (index \ held) \cup ({e.new} \ {None})
      BY <2>2 DEF Memory!Commit, Memory!Open
    <3>2. \A m \in held : memory'[m].status = "ACTIVE" <=> m = e.new
      BY <1>2, <1>3, <1>4 DEF Made, Superseded, Ended
    <3>3. e.new # None => e.new \in held
      BY <1>1 DEF RowsAreSound
    <3> QED
      BY <1>2, <1>3, <1>5, <3>1, <3>2, <3>3, RecordNames
      DEF Memory!Indexable, Memory!Active, Memory!OneSuccessor
  <2> QED
    BY <2>1, <2>2
<1> QED
  BY <1>7, <1>8, <1>9 DEF Memory!OneSuccessor, Memory!Active

LEMMA CommitKeeps ==
    ASSUME MemoryInv, NEW s \in Sessions, Memory!Commit(s)
    PROVE  MemoryInv'
<1> DEFINE held == DOMAIN session[s].rows
<1>1. /\ session[s] \in Transaction /\ TableIsSound(session[s]) /\ session[s].at = "commit"
      /\ memory \in [Memories -> MemoryRow] /\ session \in [Sessions -> Transaction]
  BY DEF MemoryInv, MemoryShape, Memory!Commit
<1>2. held \subseteq Memories /\ \A m \in held : session[s].rows[m] \in MemoryRow
  BY <1>1, OpenRowsAre DEF Transaction
<1>3. /\ memory' = [m \in Memories |-> IF m \in held THEN session[s].rows[m] ELSE memory[m]]
      /\ session' = [session EXCEPT ![s] = Memory!Outside] /\ UNCHANGED due
  BY DEF Memory!Commit, Memory!Open
<1>4. MemoryShape'
  BY <1>1, <1>2, <1>3, OutsideIsSound DEF MemoryInv, MemoryShape
<1>5. /\ session'[s] = Memory!Outside
      /\ \A t \in Sessions : t # s => session'[t] = session[t]
  BY <1>1, <1>3
<1>6. ASSUME NEW t \in Sessions, t # s
      PROVE  RowsAreSound(session[t])' /\ TableIsSound(session[t])'
  <2>1. session'[t] = session[t] /\ RowsAreSound(session[t]) /\ TableIsSound(session[t])
        /\ session[t] \in Transaction /\ Apart(session[s], session[t])
        /\ Apart(session[t], session[s])
    BY <1>1, <1>5, <1>6 DEF MemoryInv
  <2>2. \A m \in DOMAIN session[t].rows : m \in Memories /\ memory'[m] = memory[m]
    BY <1>3, <2>1, OpenRowsAre DEF Apart, Transaction
  <2>3. RowsAreSound(session[t])'
    BY <2>1, <2>2 DEF RowsAreSound, Made, Superseded, Ended, Memory!Active
  <2>4. session[t].table # "exclusive"
    BY <1>1, <2>1 DEF Apart, TableIsSound
  <2>5. TableIsSound(session[t])'
    BY <2>1, <2>4 DEF TableIsSound
  <2> QED
    BY <2>3, <2>5
<1>7. RowsAreSound(session[s])' /\ TableIsSound(session[s])'
  BY <1>5, OutsideIsSound, RecordNames, ObligationsAssumption DEF RowsAreSound, TableIsSound
<1>8. \A t, u \in Sessions : t # u => Apart(session[t], session[u])'
  BY <1>5, OutsideIsSound DEF MemoryInv, Apart
<1> QED
  BY <1>4, <1>6, <1>7, <1>8, CommitKeepsSuccessors DEF MemoryInv

LEMMA FallDueKeeps ==
    ASSUME MemoryInv, NEW m \in Memories, Memory!FallDue(m)
    PROVE  MemoryInv'
<1>1. /\ UNCHANGED <<memory, index, session>> /\ due \subseteq due'
      /\ due' \subseteq Perishable \cap Memories
  BY DEF Memory!FallDue, MemoryInv, MemoryShape
<1>2. Memory!Indexable' \subseteq Memory!Indexable
  BY <1>1 DEF Memory!Indexable, Memory!Active
<1>3. MemoryShape'
  BY <1>1 DEF MemoryInv, MemoryShape
<1>4. \A s \in Sessions : RowsAreSound(session[s])'
  BY <1>1 DEF MemoryInv, RowsAreSound, Made, Superseded, Ended, Memory!Active
<1>5. \A s \in Sessions : TableIsSound(session[s])'
  BY <1>1, <1>2 DEF MemoryInv, TableIsSound, Memory!Active
<1>6. \A s, t \in Sessions : s # t => Apart(session[s], session[t])'
  BY <1>1 DEF MemoryInv, Apart
<1>7. Memory!OneSuccessor'
  BY <1>1, <1>2 DEF MemoryInv, Memory!OneSuccessor, Memory!Active
<1> QED
  BY <1>3, <1>4, <1>5, <1>6, <1>7 DEF MemoryInv

LEMMA MemoryStep == MemoryInv /\ [Memory!Next]_memoryVars => MemoryInv'
<1> SUFFICES ASSUME MemoryInv, [Memory!Next]_memoryVars PROVE MemoryInv'
  OBVIOUS
<1>1. CASE UNCHANGED memoryVars
  BY <1>1 DEF memoryVars, MemoryInv, MemoryShape, RowsAreSound, Made, Superseded, Ended, TableIsSound,
     Apart, Memory!OneSuccessor, Memory!Indexable, Memory!Active
<1>2. ASSUME NEW s \in Sessions, Memory!Rollback(s) PROVE MemoryInv'
  BY <1>2, Leaves DEF Memory!Rollback
<1>3. CASE Memory!Next
  BY <1>2, <1>3, CreateKeeps, LookKeeps, RefuseKeeps, CorrectKeeps, RetractKeeps, ExpireKeeps,
     TouchKeeps, TruncateKeeps, RefillKeeps, CommitKeeps, FallDueKeeps DEF Memory!Next
<1> QED
  BY <1>1, <1>3

LEMMA MemoryHolds == MemoryInv => Memory!MemoryTypeOK /\ Memory!OneSuccessor
BY DEF MemoryInv, MemoryShape, MemoryRow, Transaction, Memory!MemoryTypeOK

-----------------------------------------------------------------------------
(* A set of numbers has a least one, and a bounded one has a greatest. *)

LEMMA SetHasLeast ==
    ASSUME NEW T \in SUBSET Nat, T # {}
    PROVE  \E x \in T : \A y \in T : x <= y
<1>1. PICK x \in T : \A y \in T : <<y, x>> \notin OpToRel(<, Nat)
  BY WFMin, NatLessThanWellFounded, Zenon
<1>2. \A y \in T : ~(y < x)
  BY <1>1, Zenon DEF OpToRel
<1>3. \A y \in T : y \in Nat /\ x \in Nat
  OBVIOUS
<1> QED
  BY <1>2, <1>3

LEMMA SetHasGreatest ==
    ASSUME NEW N \in Nat, NEW S \in SUBSET (0..N), S # {}
    PROVE  \E x \in S : \A y \in S : y <= x
<1> DEFINE T == {N - x : x \in S}
<1>1. \A x \in S : x \in Nat /\ x <= N /\ N - x \in Nat
  OBVIOUS
<1>2. T \in SUBSET Nat /\ T # {}
  BY <1>1
<1> HIDE DEF T
<1>3. PICK t \in T : \A u \in T : t <= u
  BY <1>2, SetHasLeast
<1> USE DEF T
<1>4. PICK x \in S : t = N - x
  BY <1>3
<1>5. ASSUME NEW y \in S
      PROVE  y <= x
  <2>1. N - x <= N - y
    BY <1>3, <1>4
  <2>2. x \in Nat /\ y \in Nat
    BY <1>1, <1>4
  <2> QED
    BY <2>1, <2>2
<1> QED
  BY <1>4, <1>5

-----------------------------------------------------------------------------
(* The hand-off of what was journaled *)

(* A row has a position of its own among those drawn. *)
PositionsAreOne ==
    /\ \A e \in Events : IF row[e] = "none" THEN pos[e] = 0 ELSE pos[e] \in 1..head
    /\ \A e, f \in Events : row[e] # "none" /\ pos[e] = pos[f] => e = f

(* A dispatch is of a committed event, and past its consumer there is a    *)
(* trigger; a trigger that says so has failed.                             *)
DispatchIsReal ==
    /\ \A h \in Handoff!Handlers : call[h].at # "idle" =>
          /\ call[h].event \in Handoff!Committed
          /\ call[h].at = "process" => consumer[call[h].event] # None
          /\ call[h].at \in {"context", "assemble", "enqueue"} => trigger[call[h].event] # None
    /\ \A e \in Events : consumer[e] # None =>
          e \in Handoff!Committed /\ (consumer[e] = pos[e] - 1 \/ trigger[e] # None)
    /\ \A e \in Events : trigger[e] = "FAILED_CONTEXT" => e \in failed
    /\ \A e \in failed : trigger[e] # None

(* The events the watcher has not missed that lie between two positions    *)
(* are requested, expired or failed.                                       *)
Between(from, to, ended) ==
    \A e \in Handoff!Committed \ missed :
        pos[e] > from /\ pos[e] <= to /\ e \notin failed => e \in requests \cup ended

(* The open transaction: what it has passed is accounted for, and beyond   *)
(* its cursor are its batch and what has committed since.                  *)
WatchIsSound ==
    /\ cursor = None <=> managed = None
    /\ watcher.at = "waits" <=> call["watcher"].at # "idle"
    /\ watcher.at = "waits" =>
          /\ call["watcher"].event \in watcher.batch
          /\ \A x \in watcher.batch : pos[call["watcher"].event] <= pos[x]
    /\ watcher.at # "idle" =>
          /\ watcher.cursor # None /\ watcher.managed # None
          /\ watcher.batch \subseteq Handoff!Beyond(watcher.cursor)
          /\ \A e \in Handoff!Beyond(watcher.cursor) \ missed :
                e \in watcher.batch \/ \A x \in watcher.batch : pos[x] < pos[e]
          /\ Between(watcher.managed, watcher.cursor, expired \cup watcher.expired)

PassedSoFar == cursor # None => Between(managed, cursor, expired)

HandoffInv ==
    /\ Handoff!TypeOK
    /\ PositionsAreOne
    /\ DispatchIsReal
    /\ WatchIsSound
    /\ PassedSoFar


LEMMA PositionFacts ==
    ASSUME Handoff!TypeOK
    PROVE  /\ Handoff!Positions \subseteq Nat /\ None \notin Handoff!Positions
           /\ \A e \in Events : pos[e] \in Nat
<1>1. MaxPosition \in Nat /\ None \notin 0..MaxPosition
  BY ObligationsAssumption DEF Handoff!HandoffAssumption
<1> QED
  BY <1>1 DEF Handoff!TypeOK, Handoff!JournalTypeOK, Handoff!Positions

LEMMA LeastPosition ==
    ASSUME Handoff!TypeOK, NEW B \in SUBSET Events, B # {}
    PROVE  \E e \in B : \A x \in B : pos[e] <= pos[x]
<1> DEFINE T == {pos[e] : e \in B}
<1>1. T \in SUBSET Nat
  BY DEF Handoff!TypeOK, Handoff!JournalTypeOK
<1>2. T # {}
  OBVIOUS
<1> HIDE DEF T
<1>3. PICK t \in T : \A u \in T : t <= u
  BY <1>1, <1>2, SetHasLeast
<1> QED
  BY <1>3 DEF T

LEMMA LastCommittedFacts ==
    ASSUME Handoff!TypeOK
    PROVE  /\ Handoff!LastCommitted \in Handoff!Positions
           /\ \A e \in Handoff!Committed : pos[e] <= Handoff!LastCommitted
<1> DEFINE S == {0} \cup {pos[e] : e \in Handoff!Committed}
<1>1. MaxPosition \in Nat /\ \A e \in Events : pos[e] \in 0..MaxPosition
  BY ObligationsAssumption DEF Handoff!HandoffAssumption, Handoff!TypeOK, Handoff!JournalTypeOK
<1>2. S \in SUBSET (0..MaxPosition) /\ S # {}
  BY <1>1 DEF Handoff!Committed
<1> HIDE DEF S
<1>3. \E p \in S : \A q \in S : q <= p
  BY <1>1, <1>2, SetHasGreatest
<1>4. \E p \in 0..MaxPosition : p \in S /\ \A e \in Handoff!Committed : pos[e] <= p
  BY <1>2, <1>3 DEF S
<1>5. /\ Handoff!LastCommitted \in 0..MaxPosition
      /\ Handoff!LastCommitted \in S
      /\ \A e \in Handoff!Committed : pos[e] <= Handoff!LastCommitted
  BY <1>4 DEF Handoff!LastCommitted, S
<1> QED
  BY <1>5 DEF Handoff!Positions

LEMMA FirstCursorFacts ==
    ASSUME Handoff!TypeOK, PositionsAreOne
    PROVE  Handoff!FirstCursor \in Handoff!Positions
<1> DEFINE R == {x \in Handoff!Committed : age[x] # "old"}
           recent == {pos[e] : e \in R}
<1>1. \A e \in Handoff!Committed : pos[e] \in 1..MaxPosition
  <2>1. MaxPosition \in Nat /\ head \in 0..MaxPosition
    BY ObligationsAssumption DEF Handoff!HandoffAssumption, Handoff!TypeOK, Handoff!JournalTypeOK
  <2>2. \A e \in Handoff!Committed : pos[e] \in 1..head
    BY DEF PositionsAreOne, Handoff!Committed
  <2> QED
    BY <2>1, <2>2
<1>2. CASE R # {}
  <2>1. \E e \in R : \A x \in R : pos[e] <= pos[x]
    BY <1>2, LeastPosition DEF Handoff!Committed
  <2>2. \E p \in recent : \A q \in recent : p <= q
    BY <2>1
  <2> DEFINE p == CHOOSE m \in recent : \A q \in recent : m <= q
  <2>3. p \in recent
    BY <2>2
  <2>4. Handoff!FirstCursor = p - 1
    BY <1>2 DEF Handoff!FirstCursor
  <2> HIDE DEF p
  <2>5. PICK e \in R : p = pos[e]
    BY <2>3
  <2>6. p \in 1..MaxPosition
    BY <1>1, <2>5
  <2>7. p - 1 \in 0..MaxPosition
    BY <2>6, ObligationsAssumption DEF Handoff!HandoffAssumption
  <2> QED
    BY <2>4, <2>7 DEF Handoff!Positions
<1>3. CASE R = {}
  <2>1. Handoff!FirstCursor = Handoff!LastCommitted
    BY <1>3 DEF Handoff!FirstCursor
  <2> QED
    BY <2>1, LastCommittedFacts
<1> QED
  BY <1>2, <1>3

LEMMA HeadFacts ==
    ASSUME Handoff!TypeOK, watcher.batch # {}
    PROVE  /\ Handoff!Head \in watcher.batch
           /\ \A x \in watcher.batch : pos[Handoff!Head] <= pos[x]
<1>1. watcher.batch \in SUBSET Events
  BY DEF Handoff!TypeOK
<1>2. \E e \in watcher.batch : \A x \in watcher.batch : pos[e] <= pos[x]
  BY <1>1, LeastPosition
<1> QED
  BY <1>2 DEF Handoff!Head

(* What the writers do to the journal: what is committed stays so, and     *)
(* what commits has its position already.                                  *)
JournalGrows ==
    /\ Handoff!Committed \subseteq Handoff!Committed'
    /\ \A e \in Handoff!Committed' : pos'[e] = pos[e]

LEMMA JournalFacts ==
    ASSUME Handoff!JournalTypeOK, PositionsAreOne, Handoff!JournalNext
    PROVE  Handoff!JournalTypeOK' /\ PositionsAreOne' /\ JournalGrows
<1>1. /\ MaxPosition \in Nat /\ head \in 0..MaxPosition
      /\ row \in [Events -> {"none", "open", "committed"}]
      /\ pos \in [Events -> 0..MaxPosition]
  BY ObligationsAssumption DEF Handoff!HandoffAssumption, Handoff!JournalTypeOK
<1>2. \A e \in Events : IF row[e] = "none" THEN pos[e] = 0 ELSE pos[e] \in 1..head
  BY DEF PositionsAreOne
<1>3. \A e, f \in Events : row[e] # "none" /\ pos[e] = pos[f] => e = f
  BY DEF PositionsAreOne
<1>4. ASSUME NEW e \in Events, Handoff!Insert(e)
      PROVE  Handoff!JournalTypeOK' /\ PositionsAreOne' /\ JournalGrows
  <2>1. /\ row[e] = "none" /\ head < MaxPosition /\ head' = head + 1
        /\ row' = [row EXCEPT ![e] = "open"] /\ pos' = [pos EXCEPT ![e] = head + 1]
    BY <1>4 DEF Handoff!Insert
  <2>2. Handoff!JournalTypeOK'
    BY <1>1, <2>1 DEF Handoff!JournalTypeOK
  <2>3. PositionsAreOne'
    BY <1>1, <1>2, <1>3, <2>1 DEF PositionsAreOne
  <2>4. JournalGrows
    BY <1>1, <2>1 DEF JournalGrows, Handoff!Committed
  <2> QED
    BY <2>2, <2>3, <2>4
<1>5. ASSUME NEW e \in Events, Handoff!Duplicate(e)
      PROVE  Handoff!JournalTypeOK' /\ PositionsAreOne' /\ JournalGrows
  <2>1. head < MaxPosition /\ head' = head + 1 /\ row' = row /\ pos' = pos
    BY <1>5 DEF Handoff!Duplicate
  <2> QED
    BY <1>1, <1>2, <1>3, <2>1
       DEF Handoff!JournalTypeOK, PositionsAreOne, JournalGrows, Handoff!Committed
<1>6. ASSUME NEW e \in Events, Handoff!Commit(e)
      PROVE  Handoff!JournalTypeOK' /\ PositionsAreOne' /\ JournalGrows
  <2>1. /\ row[e] = "open" /\ row' = [row EXCEPT ![e] = "committed"]
        /\ head' = head /\ pos' = pos
    BY <1>6 DEF Handoff!Commit
  <2>2. Handoff!JournalTypeOK' /\ PositionsAreOne'
    BY <1>1, <1>2, <1>3, <2>1 DEF Handoff!JournalTypeOK, PositionsAreOne
  <2>3. JournalGrows
    BY <1>1, <2>1 DEF JournalGrows, Handoff!Committed
  <2> QED
    BY <2>2, <2>3
<1>7. ASSUME NEW e \in Events, Handoff!Abort(e)
      PROVE  Handoff!JournalTypeOK' /\ PositionsAreOne' /\ JournalGrows
  <2>1. /\ row[e] = "open" /\ row' = [row EXCEPT ![e] = "none"]
        /\ pos' = [pos EXCEPT ![e] = 0] /\ head' = head
    BY <1>7 DEF Handoff!Abort
  <2> QED
    BY <1>1, <1>2, <1>3, <2>1
       DEF Handoff!JournalTypeOK, PositionsAreOne, JournalGrows, Handoff!Committed
<1> QED
  BY <1>4, <1>5, <1>6, <1>7 DEF Handoff!JournalNext

LEMMA JournalKeeps ==
    ASSUME HandoffInv, Handoff!Write
    PROVE  HandoffInv'
<1>1. /\ Handoff!TypeOK /\ PositionsAreOne /\ DispatchIsReal /\ WatchIsSound /\ PassedSoFar
  BY DEF HandoffInv
<1>2. Handoff!JournalTypeOK' /\ PositionsAreOne' /\ JournalGrows
  BY <1>1, JournalFacts DEF Handoff!TypeOK, Handoff!Write
<1>3. UNCHANGED <<age, cursor, managed, expired, watcher, call, consumer, trigger, failed,
                  requests, faults>>
  BY DEF Handoff!Write, Handoff!handoff
<1>4. Handoff!TypeOK'
  <2>1. missed' \subseteq Events
    BY <1>1 DEF Handoff!Write, Handoff!TypeOK
  <2> QED
    BY <1>1, <1>2, <1>3, <2>1 DEF Handoff!TypeOK
<1>5. Handoff!Committed \subseteq Events /\ \A e \in Events : pos[e] \in Nat
  BY <1>1, PositionFacts DEF Handoff!Committed
<1>6. DispatchIsReal'
  <2>1. \A e \in Handoff!Committed : e \in Handoff!Committed' /\ pos'[e] = pos[e]
    BY <1>2 DEF JournalGrows
  <2> QED
    BY <1>1, <1>3, <2>1 DEF DispatchIsReal
<1>7. ASSUME NEW e \in Handoff!Committed', e \notin missed'
      PROVE  /\ e \in Events /\ row[e] # "none" /\ pos'[e] = pos[e]
             /\ \/ e \in Handoff!Committed /\ e \notin missed
                \/ e \notin Handoff!Committed /\ ~Handoff!ReadTo(pos[e])
  <2>1. e \in Events /\ row'[e] = "committed" /\ pos'[e] = pos[e]
    BY <1>2, <1>7 DEF JournalGrows, Handoff!Committed
  <2>2. /\ missed \subseteq missed'
        /\ row[e] # "committed" /\ Handoff!ReadTo(pos[e]) => e \in missed'
    BY <2>1 DEF Handoff!Write
  <2>3. row[e] # "none"
    <3>1. pos'[e] # 0
      BY <1>2, <1>4, <2>1 DEF PositionsAreOne, Handoff!TypeOK, Handoff!JournalTypeOK
    <3> QED
      BY <1>1, <2>1, <3>1 DEF PositionsAreOne
  <2> QED
    BY <1>7, <2>1, <2>2, <2>3 DEF Handoff!Committed
<1>8. ASSUME NEW p, NEW q \in Nat, NEW X, Between(p, q, X),
             \A e \in Events : ~Handoff!ReadTo(pos[e]) => pos[e] > q
      PROVE  Between(p, q, X)'
  <2> SUFFICES ASSUME NEW e \in Handoff!Committed', e \notin missed', pos'[e] > p, pos'[e] <= q,
                      e \notin failed
               PROVE  e \in requests \cup X
    BY <1>3 DEF Between
  <2>1. e \in Handoff!Committed /\ e \notin missed /\ pos'[e] = pos[e]
    BY <1>5, <1>7, <1>8
  <2> QED
    BY <1>8, <2>1 DEF Between
<1>9. ASSUME watcher.at # "idle"
      PROVE  /\ watcher.batch \subseteq Handoff!Committed
             /\ \A x \in watcher.batch : pos'[x] = pos[x]
             /\ watcher.cursor \in Nat /\ watcher.cursor # None /\ watcher.managed # None
             /\ Between(watcher.managed, watcher.cursor, expired \cup watcher.expired)
  <2>1. /\ watcher.batch \subseteq Handoff!Committed
        /\ watcher.cursor # None /\ watcher.managed # None
        /\ Between(watcher.managed, watcher.cursor, expired \cup watcher.expired)
    BY <1>1, <1>9 DEF WatchIsSound, Handoff!Beyond
  <2>2. watcher.cursor \in Nat
    BY <1>1, <2>1, PositionFacts DEF Handoff!TypeOK
  <2> QED
    BY <1>2, <2>1, <2>2 DEF JournalGrows
<1>10. WatchIsSound'
  <2>1. /\ cursor = None <=> managed = None
        /\ watcher.at = "waits" <=> call["watcher"].at # "idle"
    BY <1>1 DEF WatchIsSound
  <2>2. watcher.at = "waits" =>
          /\ call["watcher"].event \in watcher.batch
          /\ \A x \in watcher.batch : pos'[call["watcher"].event] <= pos'[x]
    BY <1>1, <1>9 DEF WatchIsSound
  <2>3. ASSUME watcher.at # "idle"
        PROVE  watcher.batch \subseteq Handoff!Beyond(watcher.cursor)'
    BY <1>1, <1>2, <1>3, <1>9, <2>3 DEF WatchIsSound, JournalGrows, Handoff!Beyond
  <2>4. ASSUME watcher.at # "idle", NEW e \in Handoff!Committed', e \notin missed',
               pos'[e] > watcher.cursor
        PROVE  e \in watcher.batch \/ \A x \in watcher.batch : pos'[x] < pos'[e]
    <3>1. CASE e \in Handoff!Committed /\ e \notin missed
      <4>1. e \in watcher.batch \/ \A x \in watcher.batch : pos[x] < pos[e]
        BY <1>1, <1>7, <2>4, <3>1 DEF WatchIsSound, Handoff!Beyond
      <4> QED
        BY <1>7, <1>9, <2>4, <4>1
    <3>2. CASE e \notin Handoff!Committed /\ ~Handoff!ReadTo(pos[e])
      <4>1. e \in Events /\ row[e] # "none" /\ pos'[e] = pos[e]
        BY <1>7, <2>4
      <4>2. \A x \in watcher.batch : ~(pos[e] < pos[x])
        BY <2>4, <3>2 DEF Handoff!ReadTo
      <4>3. ASSUME NEW x \in watcher.batch PROVE pos[x] # pos[e] /\ x \in Events
        <5>1. x \in Handoff!Committed /\ x # e
          BY <1>9, <2>4, <3>2, <4>3
        <5> QED
          BY <1>1, <1>5, <4>1, <5>1 DEF PositionsAreOne
      <4> QED
        BY <1>5, <1>9, <2>4, <4>1, <4>2, <4>3
    <3> QED
      BY <1>7, <2>4, <3>1, <3>2
  <2>5. ASSUME watcher.at # "idle"
        PROVE  Between(watcher.managed, watcher.cursor, expired \cup watcher.expired)'
    <3>1. \A e \in Events : ~Handoff!ReadTo(pos[e]) => pos[e] > watcher.cursor
      BY <1>5, <1>9, <2>5 DEF Handoff!ReadTo
    <3> QED
      BY <1>3, <1>8, <1>9, <2>5, <3>1
  <2>6. \A e \in Handoff!Beyond(watcher.cursor)' :
            e \in Handoff!Committed' /\ pos'[e] > watcher.cursor
    BY <1>3 DEF Handoff!Beyond
  <2> QED
    BY <1>3, <1>9, <2>1, <2>2, <2>3, <2>4, <2>5, <2>6 DEF WatchIsSound
<1>11. PassedSoFar'
  <2> SUFFICES ASSUME cursor # None PROVE Between(managed, cursor, expired)'
    BY <1>3 DEF PassedSoFar
  <2>1. cursor \in Nat
    BY <1>1, PositionFacts DEF Handoff!TypeOK
  <2>2. \A e \in Events : ~Handoff!ReadTo(pos[e]) => pos[e] > cursor
    BY <1>5, <2>1 DEF Handoff!ReadTo
  <2>3. Between(managed, cursor, expired)
    BY <1>1 DEF PassedSoFar
  <2> QED
    BY <1>3, <1>8, <2>1, <2>2, <2>3
<1> QED
  BY <1>2, <1>4, <1>6, <1>10, <1>11 DEF HandoffInv

(* The journal stands still, and so do its readers' views of it. *)
LEMMA JournalStands ==
    ASSUME UNCHANGED Handoff!journal
    PROVE  /\ Handoff!Committed' = Handoff!Committed
           /\ \A p : Handoff!Beyond(p)' = Handoff!Beyond(p)
BY DEF Handoff!journal, Handoff!Committed, Handoff!Beyond

(* The watcher's transaction begins, ends, or dies with Core. *)
LEMMA ScanKeeps ==
    ASSUME HandoffInv, Handoff!Scan
    PROVE  HandoffInv'
<1>1. /\ Handoff!TypeOK /\ PositionsAreOne /\ DispatchIsReal /\ WatchIsSound
      /\ PassedSoFar
  BY DEF HandoffInv
<1> DEFINE from == IF cursor = None THEN Handoff!FirstCursor ELSE cursor
           upto == IF managed = None THEN Handoff!LastCommitted ELSE managed
<1>2. /\ watcher.at = "idle"
      /\ watcher' = [at |-> "next", batch |-> Handoff!Beyond(from), expired |-> {},
                     cursor |-> from, managed |-> upto]
      /\ UNCHANGED <<head, row, pos, missed, age, cursor, managed, expired, call, consumer, trigger,
                     failed, requests, faults>>
  BY DEF Handoff!Scan, Handoff!journal
<1>3. /\ from \in Handoff!Positions
      /\ upto \in Handoff!Positions
      /\ \A e \in Handoff!Committed : cursor = None => pos[e] <= upto
  BY <1>1, FirstCursorFacts, LastCommittedFacts DEF Handoff!TypeOK, WatchIsSound
<1>4. None \notin Handoff!Positions
  BY <1>1, PositionFacts
<1>5. Between(upto, from, expired)
  <2>1. CASE cursor = None
    <3>1. upto \in Nat /\ \A e \in Handoff!Committed : pos[e] \in Nat
      BY <1>1, <1>3, PositionFacts DEF Handoff!Committed
    <3> QED
      BY <1>3, <2>1, <3>1 DEF Between
  <2>2. CASE cursor # None
    BY <1>1, <2>2 DEF Between, WatchIsSound, PassedSoFar, Between
  <2> QED
    BY <2>1, <2>2
<1> HIDE DEF from, upto
<1>6. Handoff!Beyond(from) \subseteq Events
  BY DEF Handoff!Beyond, Handoff!Committed
<1>7. Handoff!TypeOK'
  BY <1>1, <1>2, <1>3, <1>6 DEF Handoff!TypeOK, Handoff!JournalTypeOK
<1>8. PositionsAreOne' /\ DispatchIsReal' /\ PassedSoFar'
  BY <1>1, <1>2 DEF PositionsAreOne, DispatchIsReal, PassedSoFar, Between, Handoff!Committed
<1>9. /\ watcher'.at = "next" /\ watcher'.batch = Handoff!Beyond(from) /\ watcher'.expired = {}
      /\ watcher'.cursor = from /\ watcher'.managed = upto
  BY <1>2
<1>10. Handoff!Committed' = Handoff!Committed
  BY <1>2 DEF Handoff!Committed
<1>11. WatchIsSound'
  <2>1. /\ cursor' = None <=> managed' = None
        /\ call'["watcher"].at = "idle"
    BY <1>1, <1>2, <1>10 DEF WatchIsSound
  <2>2. Handoff!Beyond(watcher.cursor)' = Handoff!Beyond(from)
    BY <1>2, <1>9, <1>10 DEF Handoff!Beyond
  <2>3. Between(watcher.managed, watcher.cursor, expired \cup watcher.expired)'
    BY <1>2, <1>5, <1>9, <1>10 DEF Between
  <2> QED
    BY <1>3, <1>4, <1>9, <2>1, <2>2, <2>3 DEF WatchIsSound
<1> QED
  BY <1>7, <1>8, <1>11 DEF HandoffInv

(* The event whose turn it was is passed: it is accounted for. *)
PassedOn(e) ==
    /\ watcher.at # "idle" /\ e \in watcher.batch
    /\ \A x \in watcher.batch : pos[e] <= pos[x]
    /\ UNCHANGED <<head, row, pos, missed, cursor, managed, expired>>
    /\ watcher'.at = "next" /\ watcher'.batch = watcher.batch \ {e}
    /\ watcher'.cursor = pos[e] /\ watcher'.managed = watcher.managed
    /\ watcher.expired \subseteq watcher'.expired
    /\ requests \subseteq requests' /\ failed \subseteq failed'
    /\ pos[e] > watcher.managed => e \in requests' \cup failed' \cup watcher'.expired
    /\ call'["watcher"].at = "idle"

LEMMA PassedOnKeeps ==
    ASSUME HandoffInv, NEW e \in Events, PassedOn(e)
    PROVE  WatchIsSound' /\ PassedSoFar'
<1>1. /\ Handoff!TypeOK /\ PositionsAreOne /\ WatchIsSound /\ PassedSoFar
  BY DEF HandoffInv
<1>2. /\ UNCHANGED <<row, pos, missed, cursor, managed, expired>>
      /\ watcher.at # "idle" /\ watcher'.at = "next" /\ call'["watcher"].at = "idle"
      /\ watcher'.cursor = pos[e] /\ watcher'.managed = watcher.managed
      /\ watcher'.batch = watcher.batch \ {e} /\ e \in watcher.batch
      /\ watcher.expired \subseteq watcher'.expired
      /\ requests \subseteq requests' /\ failed \subseteq failed'
      /\ pos[e] > watcher.managed => e \in requests' \cup failed' \cup watcher'.expired
  BY DEF PassedOn
<1>3. \A x \in watcher.batch : pos[e] <= pos[x]
  BY DEF PassedOn
<1>4. Handoff!Committed' = Handoff!Committed
  BY <1>2 DEF Handoff!Committed
<1>5. /\ \A x \in Events : pos[x] \in Nat
      /\ \A x \in Handoff!Committed : x \in Events /\ \A y \in Events : pos[x] = pos[y] => x = y
      /\ pos[e] # None /\ watcher.cursor \in Nat /\ watcher.managed # None
  <2>1. \A x \in Events : pos[x] \in Handoff!Positions
    BY <1>1 DEF Handoff!TypeOK, Handoff!JournalTypeOK, Handoff!Positions
  <2>2. watcher.cursor \in Nat /\ watcher.managed # None
    BY <1>1, <1>2, PositionFacts DEF Handoff!TypeOK, WatchIsSound
  <2> QED
    BY <1>1, <2>1, <2>2, PositionFacts DEF PositionsAreOne, Handoff!Committed
<1>6. /\ watcher.batch \subseteq Handoff!Committed
      /\ \A x \in watcher.batch : pos[x] > watcher.cursor
      /\ \A x \in Handoff!Committed : x \notin missed /\ pos[x] > watcher.cursor =>
            x \in watcher.batch \/ \A y \in watcher.batch : pos[y] < pos[x]
      /\ Between(watcher.managed, watcher.cursor, expired \cup watcher.expired)
  BY <1>1, <1>2 DEF WatchIsSound, Handoff!Beyond
<1>7. Between(watcher.managed, watcher.cursor, expired \cup watcher.expired)'
  <2> SUFFICES ASSUME NEW x \in Handoff!Committed, x \notin missed,
                      pos[x] > watcher.managed, pos[x] <= pos[e], x \notin failed'
               PROVE  x \in requests' \cup expired \cup watcher'.expired
    BY <1>2, <1>4 DEF Between
  <2>1. CASE pos[x] <= watcher.cursor
    BY <1>2, <1>6, <2>1 DEF Between
  <2>2. CASE pos[x] > watcher.cursor
    BY <1>2, <1>3, <1>5, <1>6, <2>2
  <2> QED
    BY <1>5, <2>1, <2>2
<1>8. WatchIsSound'
  <2>1. /\ cursor' = None <=> managed' = None
    BY <1>1, <1>2, <1>4 DEF WatchIsSound
  <2>3. watcher'.batch \subseteq Handoff!Beyond(watcher.cursor)'
    <3> SUFFICES ASSUME NEW x \in watcher.batch, x # e PROVE pos[x] > pos[e]
      BY <1>2, <1>4, <1>6 DEF Handoff!Beyond
    <3> QED
      BY <1>3, <1>5, <1>6
  <2>4. ASSUME NEW x \in Handoff!Beyond(watcher.cursor)', x \notin missed
        PROVE  x \in watcher'.batch \/ \A y \in watcher'.batch : pos[y] < pos[x]
    <3>1. x \in Handoff!Committed /\ pos[x] > pos[e]
      BY <1>2, <1>4, <2>4 DEF Handoff!Beyond
    <3>2. pos[x] > watcher.cursor /\ x # e
      BY <1>2, <1>5, <1>6, <3>1
    <3> QED
      BY <1>2, <1>6, <2>4, <3>1, <3>2
  <2> QED
    BY <1>2, <1>5, <1>7, <2>1, <2>3, <2>4 DEF WatchIsSound
<1>9. PassedSoFar'
  BY <1>1, <1>2, <1>4 DEF PassedSoFar, Between
<1> QED
  BY <1>8, <1>9

(* The transaction ends here, by itself or because a hand-over raised. *)
LEMMA LandedKeeps ==
    ASSUME HandoffInv, watcher.at # "idle", Handoff!Landed, UNCHANGED <<Handoff!journal, missed>>,
           requests \subseteq requests', failed \subseteq failed', call'["watcher"].at = "idle"
    PROVE  WatchIsSound' /\ PassedSoFar'
<1>1. /\ cursor' = watcher.cursor /\ managed' = watcher.managed
      /\ expired' = expired \cup watcher.expired /\ watcher'.at = "idle"
  BY DEF Handoff!Landed, Handoff!Asleep
<1>2. /\ watcher.cursor # None /\ watcher.managed # None
      /\ Between(watcher.managed, watcher.cursor, expired \cup watcher.expired)
  BY DEF HandoffInv, WatchIsSound
<1>3. Handoff!Committed' = Handoff!Committed /\ UNCHANGED <<pos, missed>>
  BY DEF Handoff!journal, Handoff!Committed
<1>4. WatchIsSound'
  BY <1>1, <1>2, <1>3 DEF WatchIsSound
<1>5. PassedSoFar'
  BY <1>1, <1>2, <1>3 DEF PassedSoFar, Between
<1> QED
  BY <1>4, <1>5

(* The watcher is not concerned: more may be requested or fail. *)
LEMMA WatchStands ==
    ASSUME HandoffInv, UNCHANGED <<head, row, pos, missed, cursor, managed, expired, watcher>>,
           call'["watcher"].event = call["watcher"].event,
           call'["watcher"].at # "idle" <=> call["watcher"].at # "idle",
           requests \subseteq requests', failed \subseteq failed'
    PROVE  WatchIsSound' /\ PassedSoFar'
<1>1. Handoff!Committed' = Handoff!Committed
  BY DEF Handoff!Committed
<1>2. WatchIsSound'
  BY <1>1 DEF HandoffInv, WatchIsSound, Between, Handoff!Beyond
<1>3. PassedSoFar'
  BY <1>1 DEF HandoffInv, PassedSoFar, Between
<1> QED
  BY <1>2, <1>3

LEMMA WatchersStepKeeps ==
    ASSUME HandoffInv, Handoff!HandOver \/ Handoff!Dispose \/ Handoff!CommitScan
    PROVE  HandoffInv'
<1>1. /\ Handoff!TypeOK /\ PositionsAreOne /\ DispatchIsReal /\ WatchIsSound
  BY DEF HandoffInv
<1>2. UNCHANGED <<head, row, pos, missed, age, consumer, trigger, failed, requests, faults>>
  BY DEF Handoff!HandOver, Handoff!Dispose, Handoff!CommitScan, Handoff!journal
<1>3. UNCHANGED Handoff!journal /\ PositionsAreOne' /\ Handoff!Committed' = Handoff!Committed
  BY <1>1, <1>2 DEF Handoff!journal, PositionsAreOne, Handoff!Committed
<1>4. watcher.at = "next" /\ call["watcher"].at = "idle"
  <2>1. watcher.at = "next"
    BY DEF Handoff!HandOver, Handoff!Dispose, Handoff!CommitScan
  <2> QED
    BY <1>1, <2>1 DEF WatchIsSound, Handoff!TypeOK
<1>5. CASE Handoff!HandOver
  <2> DEFINE e == Handoff!Head
  <2>1. /\ watcher' = [watcher EXCEPT !.at = "waits"] /\ watcher.batch # {}
        /\ call' = [call EXCEPT !["watcher"] = [at |-> "prime", event |-> e]]
        /\ UNCHANGED <<cursor, managed, expired>>
    BY <1>5 DEF Handoff!HandOver
  <2>2. /\ e \in watcher.batch /\ \A x \in watcher.batch : pos[e] <= pos[x]
        /\ watcher.batch \subseteq Handoff!Committed
    BY <1>1, <1>4, <2>1, HeadFacts DEF WatchIsSound, Handoff!Beyond
  <2> HIDE DEF e
  <2>3. e \in Handoff!Committed /\ e \in Events
    BY <2>2 DEF Handoff!Committed
  <2>4. /\ watcher'.at = "waits" /\ watcher'.batch = watcher.batch
        /\ watcher'.cursor = watcher.cursor /\ watcher'.managed = watcher.managed
        /\ watcher'.expired = watcher.expired
    BY <1>1, <2>1 DEF Handoff!TypeOK
  <2>5. /\ call'["watcher"].at = "prime" /\ call'["watcher"].event = e
        /\ \A h \in Handoff!Handlers : h # "watcher" => call'[h] = call[h]
    BY <1>1, <2>1 DEF Handoff!TypeOK, Handoff!Handlers
  <2>6. Handoff!TypeOK'
    BY <1>1, <1>2, <2>1, <2>3 DEF Handoff!TypeOK, Handoff!JournalTypeOK, Handoff!Handlers
  <2>7. DispatchIsReal'
    BY <1>1, <1>2, <1>3, <2>3, <2>5 DEF DispatchIsReal
  <2>8. WatchIsSound'
    BY <1>1, <1>2, <1>3, <1>4, <2>1, <2>2, <2>4, <2>5
       DEF WatchIsSound, Between, Handoff!Beyond
  <2>9. PassedSoFar'
    BY <1>2, <1>3, <2>1 DEF HandoffInv, PassedSoFar, Between
  <2> QED
    BY <1>3, <2>6, <2>7, <2>8, <2>9 DEF HandoffInv
<1>6. CASE Handoff!Dispose
  <2> DEFINE e == Handoff!Head
  <2>1. /\ watcher.batch # {}
        /\ watcher' = [Handoff!Past(e) EXCEPT !.expired =
                          IF pos[e] > watcher.managed THEN @ \cup {e} ELSE @]
        /\ UNCHANGED <<cursor, managed, expired, call>>
    BY <1>6 DEF Handoff!Dispose
  <2>2. /\ e \in watcher.batch /\ \A x \in watcher.batch : pos[e] <= pos[x]
        /\ watcher.batch \subseteq Events
    BY <1>1, <2>1, HeadFacts DEF Handoff!TypeOK
  <2> HIDE DEF e
  <2>3. /\ watcher'.at = "next" /\ watcher'.batch = watcher.batch \ {e}
        /\ watcher'.cursor = pos[e] /\ watcher'.managed = watcher.managed
        /\ watcher'.expired = IF pos[e] > watcher.managed THEN watcher.expired \cup {e}
                              ELSE watcher.expired
        /\ watcher' = [at |-> watcher'.at, batch |-> watcher'.batch, cursor |-> watcher'.cursor,
                       managed |-> watcher'.managed, expired |-> watcher'.expired]
    BY <1>1, <2>1 DEF Handoff!TypeOK, Handoff!Past
  <2>4. Handoff!TypeOK'
    <3>1. /\ watcher.batch \in SUBSET Events /\ watcher.expired \in SUBSET Events
          /\ watcher.managed \in Handoff!Positions \cup {None}
          /\ pos[e] \in Handoff!Positions /\ e \in Events
      BY <1>1, <2>2 DEF Handoff!TypeOK, Handoff!JournalTypeOK, Handoff!Positions
    <3>2. watcher'.expired \in SUBSET Events /\ watcher'.batch \in SUBSET Events
      BY <2>3, <3>1
    <3>3. watcher' \in [at : {"idle", "next", "waits"}, batch : SUBSET Events,
                        cursor : Handoff!Positions \cup {None},
                        managed : Handoff!Positions \cup {None}, expired : SUBSET Events]
      BY <2>3, <3>1, <3>2
    <3> QED
      BY <1>1, <1>2, <2>1, <3>3 DEF Handoff!TypeOK, Handoff!JournalTypeOK
  <2>5. DispatchIsReal'
    BY <1>1, <1>2, <1>3, <2>1 DEF DispatchIsReal
  <2>6. PassedOn(e)
    BY <1>2, <1>4, <2>1, <2>2, <2>3 DEF PassedOn
  <2> QED
    BY <1>3, <2>2, <2>4, <2>5, <2>6, PassedOnKeeps DEF HandoffInv
<1>7. CASE Handoff!CommitScan
  <2>1. Handoff!Landed /\ UNCHANGED call
    BY <1>7 DEF Handoff!CommitScan
  <2>2. Handoff!TypeOK'
    BY <1>1, <1>2, <2>1 DEF Handoff!Landed, Handoff!Asleep, Handoff!TypeOK, Handoff!JournalTypeOK
  <2>3. DispatchIsReal'
    BY <1>1, <1>2, <1>3, <2>1 DEF DispatchIsReal
  <2> QED
    BY <1>2, <1>3, <1>4, <2>1, <2>2, <2>3, LandedKeeps DEF HandoffInv
<1> QED
  BY <1>5, <1>6, <1>7

(* The dispatch goes on: its event gets a consumer, a trigger, a packet.   *)
LEMMA DispatchStepKeeps ==
    ASSUME HandoffInv, NEW h \in Handoff!Handlers,
           \/ Handoff!Prime(h) \/ Handoff!Process(h)
           \/ Handoff!LoadContext(h) \/ Handoff!AssembleContext(h)
    PROVE  HandoffInv'
<1> DEFINE e == call[h].event
<1>1. /\ Handoff!TypeOK /\ PositionsAreOne /\ DispatchIsReal /\ WatchIsSound
  BY DEF HandoffInv
<1>2. UNCHANGED <<head, row, pos, missed, age, cursor, managed, expired, watcher, requests, faults>>
  BY DEF Handoff!Prime, Handoff!Process, Handoff!LoadContext, Handoff!AssembleContext,
         Handoff!journal
<1>3. PositionsAreOne' /\ Handoff!Committed' = Handoff!Committed
  BY <1>1, <1>2 DEF PositionsAreOne, Handoff!Committed
<1>4. call[h].at # "idle" /\ e \in Handoff!Committed /\ e \in Events
  BY <1>1 DEF DispatchIsReal, Handoff!Committed, Handoff!Prime, Handoff!Process,
              Handoff!LoadContext, Handoff!AssembleContext
<1>5. /\ pos[e] \in 1..MaxPosition /\ pos[e] - 1 \in Handoff!Positions
      /\ Handoff!Positions \subseteq Nat /\ None \notin Handoff!Positions
      /\ \A x \in Events : pos[x] \in Handoff!Positions
  <2>1. MaxPosition \in Nat /\ head \in 0..MaxPosition /\ pos \in [Events -> 0..MaxPosition]
    BY <1>1, ObligationsAssumption
       DEF Handoff!HandoffAssumption, Handoff!TypeOK, Handoff!JournalTypeOK
  <2>2. pos[e] \in 1..head
    BY <1>1, <1>4 DEF PositionsAreOne, Handoff!Committed
  <2> QED
    BY <1>1, <1>4, <2>1, <2>2, PositionFacts DEF Handoff!Positions
<1>6. ASSUME NEW where \in {"process", "context", "assemble", "enqueue"}, Handoff!Goto(h, where)
      PROVE  /\ call'[h].at = where /\ call'[h].event = e
             /\ \A k \in Handoff!Handlers : k # h => call'[k] = call[k]
             /\ call' \in [Handoff!Handlers ->
                   [at : {"idle", "prime", "process", "context", "assemble", "enqueue"},
                    event : Events \cup {None}]]
  BY <1>1, <1>6 DEF Handoff!Goto, Handoff!TypeOK
<1>7. ASSUME NEW where \in {"process", "context", "assemble", "enqueue"}, Handoff!Goto(h, where),
             failed \subseteq failed'
      PROVE  WatchIsSound' /\ PassedSoFar'
  <2>1. "watcher" \in Handoff!Handlers
    BY DEF Handoff!Handlers
  <2>2. /\ call'["watcher"].event = call["watcher"].event
        /\ call'["watcher"].at # "idle" <=> call["watcher"].at # "idle"
    BY <1>4, <1>6, <1>7, <2>1
  <2> QED
    BY <1>2, <1>7, <2>2, WatchStands
<1> HIDE DEF e
<1>8. CASE Handoff!Prime(h)
  <2> DEFINE where == IF trigger[e] = None THEN "process" ELSE "context"
  <2>1. /\ consumer' = [consumer EXCEPT ![e] = IF @ = None THEN pos[e] - 1 ELSE @]
        /\ Handoff!Goto(h, where) /\ UNCHANGED <<trigger, failed>>
        /\ where \in {"process", "context", "assemble", "enqueue"}
    BY <1>8 DEF Handoff!Prime, e
  <2> HIDE DEF where
  <2>2. Handoff!TypeOK'
    BY <1>1, <1>2, <1>4, <1>5, <1>6, <2>1 DEF Handoff!TypeOK, Handoff!JournalTypeOK
  <2>3. /\ consumer'[e] # None /\ (consumer'[e] = pos[e] - 1 \/ trigger[e] # None)
        /\ \A x \in Events : x # e => consumer'[x] = consumer[x]
    BY <1>1, <1>4, <1>5, <2>1 DEF Handoff!TypeOK, DispatchIsReal
  <2>4. DispatchIsReal'
    BY <1>1, <1>2, <1>3, <1>4, <1>6, <2>1, <2>3 DEF DispatchIsReal, e, where
  <2> QED
    BY <1>3, <1>7, <2>1, <2>2, <2>4 DEF HandoffInv
<1>9. CASE Handoff!Process(h)
  <2> DEFINE rest == Handoff!Beyond(consumer[e])
             n == CHOOSE x \in rest : \A y \in rest : pos[x] <= pos[y]
  <2>1. /\ call[h].at = "process" /\ Handoff!Goto(h, "context") /\ UNCHANGED failed
        /\ IF rest = {} THEN UNCHANGED <<consumer, trigger>>
           ELSE /\ consumer' = [consumer EXCEPT ![e] = pos[n]]
                /\ trigger' = [trigger EXCEPT ![n] = IF @ = None THEN "PENDING" ELSE @]
    BY <1>9 DEF Handoff!Process, e
  <2>2. /\ consumer[e] # None /\ consumer[e] \in Nat
        /\ consumer[e] = pos[e] - 1 \/ trigger[e] # None
    BY <1>1, <1>4, <1>5, <2>1 DEF DispatchIsReal, Handoff!TypeOK, e
  <2>3. rest \subseteq Handoff!Committed /\ rest \subseteq Events
    BY DEF Handoff!Beyond, Handoff!Committed
  <2>4. rest # {} => n \in rest /\ \A y \in rest : pos[n] <= pos[y]
    BY <1>1, <2>3, LeastPosition
  <2>5. consumer[e] = pos[e] - 1 => rest # {} /\ n = e
    <3> SUFFICES ASSUME consumer[e] = pos[e] - 1 PROVE rest # {} /\ n = e
      OBVIOUS
    <3>1. e \in rest
      BY <1>4, <1>5 DEF Handoff!Beyond
    <3>2. n \in Handoff!Committed /\ pos[n] > pos[e] - 1 /\ pos[n] <= pos[e]
      BY <2>4, <3>1 DEF Handoff!Beyond
    <3>3. n \in Events /\ pos[n] \in Nat /\ pos[e] \in Nat /\ row[n] # "none"
      BY <1>4, <1>5, <3>2 DEF Handoff!Committed
    <3>4. pos[n] = pos[e]
      BY <3>2, <3>3
    <3> QED
      BY <1>1, <1>4, <3>1, <3>3, <3>4 DEF PositionsAreOne
  <2> HIDE DEF rest, n
  <2>6. /\ \A x \in Events : trigger'[x] # None => trigger'[x] = trigger[x] \/ trigger'[x] = "PENDING"
        /\ \A x \in Events : trigger[x] # None => trigger'[x] = trigger[x]
        /\ \A x \in Events : x # e => consumer'[x] = consumer[x]
        /\ trigger'[e] # None /\ consumer'[e] # None
    <3>1. /\ consumer \in [Events -> Handoff!Positions \cup {None}]
          /\ trigger \in [Events -> Handoff!Statuses \cup {None}]
      BY <1>1 DEF Handoff!TypeOK
    <3>2. CASE rest = {}
      BY <2>1, <2>2, <2>5, <3>2
    <3>3. CASE rest # {}
      <4>1. n \in Events /\ "PENDING" # None /\ pos[n] # None
        BY <1>5, <2>3, <2>4, <3>3, ObligationsAssumption DEF Handoff!Statuses
      <4> QED
        BY <1>4, <2>1, <2>2, <2>5, <3>1, <3>3, <4>1
    <3> QED
      BY <3>2, <3>3
  <2>7. Handoff!TypeOK'
    <3>1. rest # {} => n \in Events /\ pos[n] \in Handoff!Positions
      BY <1>5, <2>3, <2>4
    <3>2. /\ consumer' \in [Events -> Handoff!Positions \cup {None}]
          /\ trigger' \in [Events -> Handoff!Statuses \cup {None}]
      BY <1>1, <1>4, <2>1, <3>1 DEF Handoff!TypeOK, Handoff!Statuses
    <3> QED
      BY <1>1, <1>2, <1>6, <2>1, <3>2 DEF Handoff!TypeOK, Handoff!JournalTypeOK
  <2>8. DispatchIsReal'
    <3>1. \A x \in Handoff!Committed : x \in Events
      BY DEF Handoff!Committed
    <3>2. ASSUME NEW k \in Handoff!Handlers, call'[k].at # "idle"
          PROVE  /\ call'[k].event \in Handoff!Committed
                 /\ call'[k].at = "process" => consumer'[call'[k].event] # None
                 /\ call'[k].at \in {"context", "assemble", "enqueue"} => trigger'[call'[k].event] # None
      BY <1>1, <1>4, <1>6, <2>1, <2>6, <3>1, <3>2 DEF DispatchIsReal
    <3>3. ASSUME NEW x \in Events, consumer'[x] # None
          PROVE  x \in Handoff!Committed /\ (consumer'[x] = pos[x] - 1 \/ trigger'[x] # None)
      BY <1>1, <1>4, <2>6, <3>3 DEF DispatchIsReal
    <3>4. ASSUME NEW x \in Events, trigger'[x] = "FAILED_CONTEXT"
          PROVE  x \in failed'
      BY <1>1, <2>1, <2>6, <3>4, ObligationsAssumption DEF DispatchIsReal, Handoff!Statuses
    <3>5. ASSUME NEW x \in failed' PROVE trigger'[x] # None
      <4>1. x \in failed /\ x \in Events
        BY <1>1, <2>1, <3>5 DEF Handoff!TypeOK
      <4> QED
        BY <1>1, <2>6, <4>1 DEF DispatchIsReal
    <3> QED
      BY <1>2, <1>3, <3>2, <3>3, <3>4, <3>5 DEF DispatchIsReal
  <2> QED
    BY <1>3, <1>7, <2>1, <2>7, <2>8 DEF HandoffInv
<1>10. CASE Handoff!LoadContext(h)
  <2> DEFINE where == IF trigger[e] = "PENDING" THEN "assemble" ELSE "enqueue"
  <2>1. /\ call[h].at = "context" /\ Handoff!Goto(h, where)
        /\ UNCHANGED <<consumer, trigger, failed>>
        /\ where \in {"process", "context", "assemble", "enqueue"}
    BY <1>10 DEF Handoff!LoadContext, e
  <2> HIDE DEF where
  <2>2. Handoff!TypeOK'
    BY <1>1, <1>2, <1>6, <2>1 DEF Handoff!TypeOK, Handoff!JournalTypeOK
  <2>3. DispatchIsReal'
    BY <1>1, <1>2, <1>3, <1>6, <2>1 DEF DispatchIsReal, e, where
  <2> QED
    BY <1>3, <1>7, <2>1, <2>2, <2>3 DEF HandoffInv
<1>11. CASE Handoff!AssembleContext(h)
  <2>1. PICK s \in {"CONTEXT_READY", "FAILED_CONTEXT"} :
           /\ trigger' = [trigger EXCEPT ![e] = s]
           /\ failed' = IF s = "FAILED_CONTEXT" THEN failed \cup {e} ELSE failed
    BY <1>11 DEF Handoff!AssembleContext, e
  <2>2. Handoff!Goto(h, "enqueue") /\ UNCHANGED consumer
    BY <1>11 DEF Handoff!AssembleContext
  <2>3. s \in Handoff!Statuses /\ s # None
    BY ObligationsAssumption DEF Handoff!Statuses
  <2>4. Handoff!TypeOK'
    BY <1>1, <1>2, <1>4, <1>6, <2>1, <2>2, <2>3 DEF Handoff!TypeOK, Handoff!JournalTypeOK
  <2>5. DispatchIsReal'
    BY <1>1, <1>2, <1>3, <1>4, <1>6, <2>1, <2>2, <2>3 DEF DispatchIsReal, Handoff!TypeOK, e
  <2> QED
    BY <1>3, <1>7, <2>1, <2>2, <2>4, <2>5 DEF HandoffInv
<1> QED
  BY <1>8, <1>9, <1>10, <1>11

(* The dispatch is over, by itself or because a step of it raised. *)
LEMMA DispatchEndKeeps ==
    ASSUME HandoffInv, NEW h \in Handoff!Handlers,
           Handoff!PassOver(h) \/ Handoff!Enqueue(h) \/ Handoff!Raise(h)
    PROVE  HandoffInv'
<1> DEFINE e == call[h].event
<1>1. /\ Handoff!TypeOK /\ PositionsAreOne /\ DispatchIsReal /\ WatchIsSound
  BY DEF HandoffInv
<1>2. /\ UNCHANGED <<head, row, pos, missed, age, consumer, trigger, failed>>
      /\ call' = [call EXCEPT ![h] = Handoff!Idle]
      /\ requests \subseteq requests'
  BY DEF Handoff!PassOver, Handoff!Enqueue, Handoff!Raise, Handoff!Return, Handoff!journal
<1>3. UNCHANGED Handoff!journal /\ PositionsAreOne' /\ Handoff!Committed' = Handoff!Committed
  BY <1>1, <1>2 DEF Handoff!journal, PositionsAreOne, Handoff!Committed
<1>4. call[h].at # "idle" /\ e \in Handoff!Committed /\ e \in Events
  BY <1>1 DEF DispatchIsReal, Handoff!Committed, Handoff!PassOver, Handoff!Enqueue,
              Handoff!Raise
<1>5. /\ call'[h].at = "idle"
      /\ \A k \in Handoff!Handlers : k # h => call'[k] = call[k]
      /\ call' \in [Handoff!Handlers ->
            [at : {"idle", "prime", "process", "context", "assemble", "enqueue"},
             event : Events \cup {None}]]
  BY <1>1, <1>2 DEF Handoff!Idle, Handoff!TypeOK
<1>6. DispatchIsReal'
  BY <1>1, <1>2, <1>3, <1>5 DEF DispatchIsReal
<1>7. requests' \subseteq Events /\ faults' \in 0..MaxFaults
  <2>1. MaxFaults \in Nat /\ faults \in 0..MaxFaults /\ requests \subseteq Events
    BY <1>1, ObligationsAssumption DEF Handoff!HandoffAssumption, Handoff!TypeOK
  <2> QED
    BY <1>4, <2>1 DEF Handoff!PassOver, Handoff!Enqueue, Handoff!Raise
<1>8. "watcher" \in Handoff!Handlers
  BY DEF Handoff!Handlers
<1> HIDE DEF e
<1>9. CASE h # "watcher"
  <2>1. UNCHANGED <<cursor, managed, expired, watcher>>
    BY <1>9 DEF Handoff!PassOver, Handoff!Enqueue, Handoff!Raise, Handoff!Return
  <2>2. Handoff!TypeOK'
    BY <1>1, <1>2, <1>5, <1>7, <2>1 DEF Handoff!TypeOK, Handoff!JournalTypeOK
  <2>3. WatchIsSound' /\ PassedSoFar'
    BY <1>2, <1>5, <1>8, <1>9, <2>1, WatchStands
  <2> QED
    BY <1>3, <1>6, <2>2, <2>3 DEF HandoffInv
<1>10. CASE h = "watcher" /\ Handoff!Raise(h)
  <2>1. Handoff!Landed /\ UNCHANGED requests /\ watcher.at # "idle"
    BY <1>1, <1>4, <1>10 DEF Handoff!Raise, WatchIsSound
  <2>2. Handoff!TypeOK'
    BY <1>1, <1>2, <1>5, <1>7, <2>1
       DEF Handoff!Landed, Handoff!Asleep, Handoff!TypeOK, Handoff!JournalTypeOK
  <2>3. WatchIsSound' /\ PassedSoFar'
    BY <1>2, <1>3, <1>5, <1>10, <2>1, LandedKeeps
  <2> QED
    BY <1>3, <1>6, <2>2, <2>3 DEF HandoffInv
<1>11. CASE h = "watcher" /\ (Handoff!PassOver(h) \/ Handoff!Enqueue(h))
  <2>1. /\ watcher' = Handoff!Past(e) /\ UNCHANGED <<cursor, managed, expired>>
        /\ watcher.at # "idle" /\ e \in watcher.batch
        /\ \A x \in watcher.batch : pos[e] <= pos[x]
    BY <1>1, <1>4, <1>11
       DEF Handoff!PassOver, Handoff!Enqueue, Handoff!Return, WatchIsSound, e
  <2>2. /\ watcher'.at = "next" /\ watcher'.batch = watcher.batch \ {e}
        /\ watcher'.cursor = pos[e] /\ watcher'.managed = watcher.managed
        /\ watcher'.expired = watcher.expired
        /\ watcher' = [at |-> watcher'.at, batch |-> watcher'.batch, cursor |-> watcher'.cursor,
                       managed |-> watcher'.managed, expired |-> watcher'.expired]
    BY <1>1, <2>1 DEF Handoff!TypeOK, Handoff!Past
  <2>3. Handoff!TypeOK'
    <3>1. /\ watcher.batch \in SUBSET Events /\ watcher.expired \in SUBSET Events
          /\ watcher.managed \in Handoff!Positions \cup {None}
          /\ pos[e] \in Handoff!Positions
      BY <1>1, <1>4 DEF Handoff!TypeOK, Handoff!JournalTypeOK, Handoff!Positions
    <3>2. watcher' \in [at : {"idle", "next", "waits"}, batch : SUBSET Events,
                        cursor : Handoff!Positions \cup {None},
                        managed : Handoff!Positions \cup {None}, expired : SUBSET Events]
      BY <2>2, <3>1
    <3> QED
      BY <1>1, <1>2, <1>5, <1>7, <2>1, <3>2 DEF Handoff!TypeOK, Handoff!JournalTypeOK
  <2>4. e \in requests' \/ e \in failed
    <3>1. CASE Handoff!Enqueue(h)
      BY <3>1 DEF Handoff!Enqueue, e
    <3>2. CASE Handoff!PassOver(h)
      <4>1. call[h].at = "context" /\ trigger[e] \notin {"PENDING", "CONTEXT_READY"}
        BY <3>2 DEF Handoff!PassOver, e
      <4>2. trigger[e] # None
        BY <1>1, <4>1 DEF DispatchIsReal, e
      <4>3. trigger[e] = "FAILED_CONTEXT"
        BY <1>1, <1>4, <4>1, <4>2 DEF Handoff!TypeOK, Handoff!Statuses
      <4> QED
        BY <1>1, <1>4, <4>3 DEF DispatchIsReal
    <3> QED
      BY <1>11, <3>1, <3>2
  <2>5. PassedOn(e)
    BY <1>2, <1>5, <1>11, <2>1, <2>2, <2>4 DEF PassedOn
  <2> QED
    BY <1>3, <1>4, <1>6, <2>3, <2>5, PassedOnKeeps DEF HandoffInv
<1> QED
  BY <1>9, <1>10, <1>11

(* The router picks an event up, time passes, Core dies. *)
LEMMA SurroundingsKeep ==
    ASSUME HandoffInv,
           \/ \E e \in Events : Handoff!Route(e) \/ Handoff!Age(e)
           \/ Handoff!Crash
    PROVE  HandoffInv'
<1>1. /\ Handoff!TypeOK /\ PositionsAreOne /\ DispatchIsReal /\ WatchIsSound
  BY DEF HandoffInv
<1>2. UNCHANGED <<head, row, pos, missed, cursor, managed, expired, consumer, trigger, failed,
                  requests>>
  BY DEF Handoff!Route, Handoff!Age, Handoff!Crash, Handoff!journal
<1>3. PositionsAreOne' /\ Handoff!Committed' = Handoff!Committed
  BY <1>1, <1>2 DEF PositionsAreOne, Handoff!Committed
<1>4. CASE \E e \in Events : Handoff!Route(e)
  <2>1. PICK e \in Events :
           /\ call' = [call EXCEPT !["router"] = [at |-> "prime", event |-> e]]
           /\ row[e] = "committed" /\ UNCHANGED <<age, watcher, faults>>
    BY <1>4 DEF Handoff!Route
  <2>2. /\ call'["watcher"] = call["watcher"]
        /\ call'["router"].at = "prime" /\ call'["router"].event = e
    BY <1>1, <2>1 DEF Handoff!TypeOK, Handoff!Handlers
  <2>3. Handoff!TypeOK'
    BY <1>1, <1>2, <2>1 DEF Handoff!TypeOK, Handoff!JournalTypeOK
  <2>4. DispatchIsReal'
    BY <1>1, <1>2, <1>3, <2>1, <2>2 DEF DispatchIsReal, Handoff!Handlers, Handoff!Committed
  <2>5. WatchIsSound' /\ PassedSoFar'
    BY <1>2, <2>1, <2>2, WatchStands
  <2> QED
    BY <1>3, <2>3, <2>4, <2>5 DEF HandoffInv
<1>5. CASE \E e \in Events : Handoff!Age(e)
  <2>1. PICK e \in Events :
           /\ age' = [age EXCEPT ![e] = IF @ = "early" THEN "fresh" ELSE "old"]
           /\ UNCHANGED <<call, watcher, faults>>
    BY <1>5 DEF Handoff!Age
  <2>2. Handoff!TypeOK'
    BY <1>1, <1>2, <2>1 DEF Handoff!TypeOK, Handoff!JournalTypeOK
  <2>3. DispatchIsReal'
    BY <1>1, <1>2, <1>3, <2>1 DEF DispatchIsReal
  <2>4. WatchIsSound' /\ PassedSoFar'
    BY <1>2, <2>1, WatchStands
  <2> QED
    BY <1>3, <2>2, <2>3, <2>4 DEF HandoffInv
<1>6. CASE Handoff!Crash
  <2>1. /\ watcher' = Handoff!Asleep /\ call' = [h \in Handoff!Handlers |-> Handoff!Idle]
        /\ faults < MaxFaults /\ faults' = faults + 1 /\ UNCHANGED age
    BY <1>6 DEF Handoff!Crash
  <2>2. MaxFaults \in Nat
    BY ObligationsAssumption DEF Handoff!HandoffAssumption
  <2>3. Handoff!TypeOK'
    BY <1>1, <1>2, <2>1, <2>2
       DEF Handoff!TypeOK, Handoff!JournalTypeOK, Handoff!Asleep, Handoff!Idle
  <2>4. DispatchIsReal'
    BY <1>1, <1>2, <1>3, <2>1 DEF DispatchIsReal, Handoff!Idle
  <2>5. WatchIsSound'
    BY <1>1, <1>2, <1>3, <2>1
       DEF WatchIsSound, Handoff!Asleep, Handoff!Idle, Handoff!Handlers
  <2>6. PassedSoFar'
    BY <1>2, <1>3 DEF HandoffInv, PassedSoFar, Between
  <2> QED
    BY <1>3, <2>3, <2>4, <2>5, <2>6 DEF HandoffInv
<1> QED
  BY <1>4, <1>5, <1>6

LEMMA HandoffStep == HandoffInv /\ [Handoff!Next]_handoffVars => HandoffInv'
<1> SUFFICES ASSUME HandoffInv, [Handoff!Next]_handoffVars PROVE HandoffInv'
  OBVIOUS
<1>1. CASE UNCHANGED handoffVars
  BY <1>1 DEF handoffVars, HandoffInv, Handoff!TypeOK, Handoff!JournalTypeOK, PositionsAreOne,
     DispatchIsReal, WatchIsSound, Between, PassedSoFar, Between, Handoff!Committed, Handoff!Beyond
<1>2. CASE Handoff!Next
  <2>1. "watcher" \in Handoff!Handlers /\ "router" \in Handoff!Handlers
    BY DEF Handoff!Handlers
  <2>2. ASSUME NEW h \in Handoff!Handlers, Handoff!Dispatch(h) PROVE HandoffInv'
    BY <2>2, DispatchStepKeeps, DispatchEndKeeps DEF Handoff!Dispatch
  <2> QED
    BY <1>2, <2>1, <2>2, JournalKeeps, ScanKeeps, WatchersStepKeeps, DispatchEndKeeps,
       SurroundingsKeep DEF Handoff!Next, Handoff!Watch
<1> QED
  BY <1>1, <1>2

LEMMA HandoffStart == Handoff!Init => HandoffInv
<1> SUFFICES ASSUME Handoff!Init PROVE HandoffInv
  OBVIOUS
<1>1. MaxPosition \in Nat /\ MaxFaults \in Nat
  BY ObligationsAssumption DEF Handoff!HandoffAssumption
<1>2. Handoff!TypeOK
  BY <1>1 DEF Handoff!Init, Handoff!JournalInit, Handoff!TypeOK, Handoff!JournalTypeOK,
     Handoff!Asleep, Handoff!Idle
<1>3. Handoff!Committed = {}
  BY DEF Handoff!Init, Handoff!JournalInit, Handoff!Committed
<1>4. PositionsAreOne
  BY DEF Handoff!Init, Handoff!JournalInit, PositionsAreOne
<1>5. DispatchIsReal
  BY ObligationsAssumption
     DEF Handoff!Init, DispatchIsReal, Handoff!Idle, Handoff!Statuses
<1>6. WatchIsSound
  BY DEF Handoff!Init, WatchIsSound, Handoff!Asleep, Handoff!Idle, Handoff!Handlers
<1> QED
  BY <1>2, <1>4, <1>5, <1>6 DEF Handoff!Init, HandoffInv, PassedSoFar

-----------------------------------------------------------------------------
(* The announcement and its follow-up *)

SpeechBegun(s) == speaker[s].at \in {"intent", "playing", "played"}

SpeechEntry == [state : Alert!States, generation : Nat, client : Speakers \cup {None},
          leased : BOOLEAN, waits : BOOLEAN, ready : BOOLEAN]

(* The shape of the state, without the bound on the claims. *)
SpeechShape ==
    /\ ledger \in [Alert!Phases -> SpeechEntry]
    /\ speaker \in [Speakers -> [at : {"idle", "claimed", "intent", "playing", "played"},
                                 phase : Alert!Phases, generation : Nat]]
    /\ plays \in [Alert!Phases -> Nat]

(* A generation belongs to one speaker, and none is ahead of the ledger. *)
SpeechClaimsAreOne ==
    /\ \A s \in Speakers : speaker[s].at # "idle"
            => speaker[s].generation <= ledger[speaker[s].phase].generation
    /\ \A s, t \in Speakers :
            /\ speaker[s].at # "idle" /\ speaker[t].at # "idle"
            /\ speaker[s].phase = speaker[t].phase
            /\ speaker[s].generation = speaker[t].generation
            => s = t

(* Who has begun holds the written intent until the phrase is settled, and *)
(* is the only one to have begun it.                                       *)
SpeechIntentIsHeld ==
    /\ \A s \in Speakers : LET p == speaker[s].phase IN
          SpeechBegun(s) => \/ ledger[p].state \in Alert!Terminal
                            \/ /\ ledger[p].state = "PLAYBACK_INTENT"
                               /\ speaker[s].generation = ledger[p].generation
    /\ \A s \in Speakers : LET p == speaker[s].phase IN
          /\ ledger[p].state = "PLAYBACK_INTENT"
          /\ speaker[s].generation = ledger[p].generation
          => speaker[s].at # "claimed"
    /\ \A s, t \in Speakers :
          SpeechBegun(s) /\ SpeechBegun(t) /\ speaker[s].phase = speaker[t].phase => s = t

(* What was started is settled or held, and was not started before. *)
SpeechStartIsHeld ==
    /\ \A p \in Alert!Phases : plays[p] # 0 => ledger[p].state \in Alert!Terminal \cup {"PLAYBACK_INTENT"}
    /\ \A s \in Speakers : speaker[s].at = "intent" => plays[speaker[s].phase] = 0
    /\ \A s \in Speakers : speaker[s].at # "idle" /\ speaker[s].phase = "FOLLOWUP"
            => ledger["CANONICAL"].state = "DELIVERED"

SpeechInv == SpeechShape /\ SpeechClaimsAreOne /\ SpeechIntentIsHeld /\ SpeechStartIsHeld /\ Alert!SpokenOnce

(* Without a claim, a written intent or a start: the states change, settle *)
(* or go back to PENDING where nobody has begun; a speaker may be freed.   *)
LEMMA StatesGiveWay ==
    ASSUME SpeechInv, SpeechShape', UNCHANGED plays,
           \A s \in Speakers : speaker'[s] = speaker[s] \/ speaker'[s].at = "idle",
           \A p \in Alert!Phases :
              /\ ledger'[p].generation = ledger[p].generation
              /\ \/ ledger'[p].state = ledger[p].state
                 \/ ledger'[p].state \in Alert!Terminal
                 \/ /\ ledger'[p].state = "PENDING" /\ plays[p] = 0
                    /\ \A s \in Speakers : SpeechBegun(s)' => speaker'[s].phase # p,
           ledger["CANONICAL"].state = "DELIVERED" => ledger'["CANONICAL"].state = "DELIVERED",
           \A p \in Alert!Phases : ledger[p].state \in Alert!Terminal => ledger'[p].state \in Alert!Terminal
    PROVE  SpeechInv'
<1>1. \A s \in Speakers : speaker[s].phase \in Alert!Phases /\ speaker'[s].phase \in Alert!Phases
  BY DEF SpeechInv, SpeechShape
<1>2. \A s \in Speakers : SpeechBegun(s)' => SpeechBegun(s) /\ speaker'[s] = speaker[s]
  BY DEF SpeechBegun
<1>3. SpeechClaimsAreOne'
  BY <1>1 DEF SpeechInv, SpeechClaimsAreOne
<1>4. SpeechIntentIsHeld'
  <2>1. ASSUME NEW s \in Speakers, SpeechBegun(s)'
        PROVE  LET p == speaker'[s].phase IN
               \/ ledger'[p].state \in Alert!Terminal
               \/ /\ ledger'[p].state = "PLAYBACK_INTENT"
                  /\ speaker'[s].generation = ledger'[p].generation
    BY <1>1, <1>2, <2>1 DEF SpeechInv, SpeechIntentIsHeld
  <2>2. ASSUME NEW s \in Speakers,
               ledger'[speaker'[s].phase].state = "PLAYBACK_INTENT",
               speaker'[s].generation = ledger'[speaker'[s].phase].generation
        PROVE  speaker'[s].at # "claimed"
    BY <1>1, <2>2 DEF SpeechInv, SpeechIntentIsHeld, Alert!Terminal
  <2>3. \A s, t \in Speakers :
           SpeechBegun(s)' /\ SpeechBegun(t)' /\ speaker'[s].phase = speaker'[t].phase => s = t
    BY <1>2 DEF SpeechInv, SpeechIntentIsHeld
  <2> QED
    BY <2>1, <2>2, <2>3 DEF SpeechIntentIsHeld
<1>5. SpeechStartIsHeld'
  BY <1>1 DEF SpeechInv, SpeechStartIsHeld
<1>6. Alert!SpokenOnce'
  BY DEF SpeechInv, Alert!SpokenOnce
<1> QED
  BY <1>3, <1>4, <1>5, <1>6 DEF SpeechInv

(* The phase that is looked at has been neither settled nor skipped. *)
LEMMA DueIsOpen ==
    ASSUME SpeechInv, NEW p \in Alert!Phases, Alert!Due(p)
    PROVE  /\ ledger[p].state \notin Alert!Terminal \cup {"NONE"}
           /\ ledger[p].state # "PLAYBACK_INTENT" =>
                 plays[p] = 0 /\ \A s \in Speakers : SpeechBegun(s) => speaker[s].phase # p
BY DEF SpeechInv, SpeechShape, SpeechStartIsHeld, SpeechIntentIsHeld, Alert!Due, Alert!Terminal

LEMMA ActiveIsPhase == Alert!Active \in Alert!Phases
                       /\ (Alert!Active = "CANONICAL" <=> ledger["CANONICAL"].state # "DELIVERED")
BY DEF Alert!Active, Alert!Phases

(* What a new entry of one phase leaves of the ledger, and then Set, the    *)
(* retry of a phrase and SetAndDrop.                                       *)
LEMMA SpeechEntryFacts ==
    ASSUME SpeechShape, NEW p \in Alert!Phases, NEW e \in SpeechEntry, e.generation = ledger[p].generation,
           ledger' = [ledger EXCEPT ![p] = e], UNCHANGED plays, SpeechShape!2'
    PROVE  /\ SpeechShape'
           /\ ledger'[p] = e
           /\ \A q \in Alert!Phases : /\ ledger'[q].generation = ledger[q].generation
                                      /\ q # p => ledger'[q].state = ledger[q].state
BY DEF SpeechShape

LEMMA SetFacts ==
    ASSUME SpeechShape, NEW p \in Alert!Phases, NEW x \in Alert!States, ledger' = Alert!Set(p, x),
           UNCHANGED plays, SpeechShape!2'
    PROVE  /\ SpeechShape'
           /\ ledger'[p].state = x
           /\ \A q \in Alert!Phases : /\ ledger'[q].generation = ledger[q].generation
                                      /\ q # p => ledger'[q].state = ledger[q].state
<1> DEFINE e == [ledger[p] EXCEPT !.state = x]
<1>1. ledger' = [ledger EXCEPT ![p] = e] /\ ledger[p] \in SpeechEntry
  BY DEF SpeechShape, Alert!Set
<1>2. e \in SpeechEntry /\ e.state = x /\ e.generation = ledger[p].generation
  BY <1>1 DEF SpeechEntry
<1> HIDE DEF e
<1> QED
  BY <1>1, <1>2, SpeechEntryFacts

LEMMA RetryFacts ==
    ASSUME SpeechShape, NEW p \in Alert!Phases, UNCHANGED plays, SpeechShape!2',
           ledger' = [ledger EXCEPT ![p].state = "PENDING", ![p].waits = TRUE]
    PROVE  /\ SpeechShape'
           /\ ledger'[p].state = "PENDING"
           /\ \A q \in Alert!Phases : /\ ledger'[q].generation = ledger[q].generation
                                      /\ q # p => ledger'[q].state = ledger[q].state
<1> DEFINE e == [[ledger[p] EXCEPT !.state = "PENDING"] EXCEPT !.waits = TRUE]
<1>1. ledger' = [ledger EXCEPT ![p] = e] /\ ledger[p] \in SpeechEntry
  BY DEF SpeechShape
<1>2. e \in SpeechEntry /\ e.state = "PENDING" /\ e.generation = ledger[p].generation
  BY <1>1 DEF SpeechEntry, Alert!States
<1> HIDE DEF e
<1> QED
  BY <1>1, <1>2, SpeechEntryFacts

LEMMA DropFacts ==
    ASSUME SpeechShape, NEW p \in Alert!Phases, NEW x \in Alert!Terminal, ledger' = Alert!SetAndDrop(p, x),
           UNCHANGED plays, SpeechShape!2'
    PROVE  /\ SpeechShape'
           /\ \A q \in Alert!Phases : /\ ledger'[q].generation = ledger[q].generation
                                      /\ \/ ledger'[q].state = ledger[q].state
                                         \/ ledger'[q].state \in Alert!Terminal
           /\ ledger'["CANONICAL"].state = IF p = "CANONICAL" THEN x ELSE ledger["CANONICAL"].state
<1>1. x \in Alert!States /\ "ESCALATED" \in Alert!States /\ "ESCALATED" \in Alert!Terminal
  BY DEF Alert!States, Alert!Terminal
<1>2. \A q \in Alert!Phases : ledger[q] \in SpeechEntry
  BY DEF SpeechShape
<1>3. ASSUME NEW q \in Alert!Phases
      PROVE  /\ ledger'[q] \in SpeechEntry
             /\ ledger'[q].generation = ledger[q].generation
             /\ \/ ledger'[q].state = ledger[q].state
                \/ ledger'[q].state \in Alert!Terminal
             /\ q = p /\ q # "FOLLOWUP" => ledger'[q].state = x
             /\ q # p /\ q # "FOLLOWUP" => ledger'[q].state = ledger[q].state
  <2>1. ledger'[q] = IF q = "FOLLOWUP" /\ ledger[q].state # "NONE"
                     THEN [ledger[q] EXCEPT !.state = "ESCALATED"]
                     ELSE IF q = p THEN [ledger[q] EXCEPT !.state = x] ELSE ledger[q]
    BY DEF Alert!SetAndDrop
  <2>2. \A y \in Alert!States : LET e == [ledger[q] EXCEPT !.state = y] IN
           e \in SpeechEntry /\ e.state = y /\ e.generation = ledger[q].generation
    BY <1>2 DEF SpeechEntry
  <2> QED
    BY <1>1, <1>2, <2>1, <2>2
<1>4. ledger' \in [Alert!Phases -> SpeechEntry]
  BY <1>3 DEF Alert!SetAndDrop
<1>5. SpeechShape'
  BY <1>4 DEF SpeechShape
<1> QED
  BY <1>3, <1>5 DEF Alert!Phases

LEMMA PollKeeps ==
    ASSUME SpeechInv, NEW s \in Speakers, Alert!Poll(s)
    PROVE  SpeechInv'
<1> DEFINE p == Alert!Active
<1>1. p \in Alert!Phases /\ (p = "CANONICAL" <=> ledger["CANONICAL"].state # "DELIVERED")
  BY ActiveIsPhase
<1>2. /\ ledger[p].state \notin Alert!Terminal \cup {"NONE"}
      /\ ledger[p].state # "PLAYBACK_INTENT" =>
            plays[p] = 0 /\ \A t \in Speakers : SpeechBegun(t) => speaker[t].phase # p
  BY <1>1, DueIsOpen DEF Alert!Poll
<1>3. SpeechShape /\ UNCHANGED plays
  BY DEF SpeechInv, Alert!Poll
<1> HIDE DEF p
<1>4. CASE Alert!LoseReceipt(p) /\ UNCHANGED speaker
  <2>1. ledger' = Alert!SetAndDrop(p, "UNKNOWN") /\ "UNKNOWN" \in Alert!Terminal
    BY <1>4 DEF Alert!LoseReceipt, Alert!Terminal
  <2>2. SpeechShape!2'
    BY <1>3, <1>4 DEF SpeechShape
  <2> QED
    BY <1>1, <1>2, <1>3, <1>4, <2>1, <2>2, DropFacts, StatesGiveWay DEF Alert!Phases
<1>5. CASE Alert!ExpireObligation(p) /\ UNCHANGED speaker
  <2>1. ledger' = Alert!SetAndDrop(p, "ESCALATED") /\ "ESCALATED" \in Alert!Terminal
    BY <1>5 DEF Alert!ExpireObligation, Alert!Terminal
  <2>2. SpeechShape!2'
    BY <1>3, <1>5 DEF SpeechShape
  <2> QED
    BY <1>1, <1>2, <1>3, <1>5, <2>1, <2>2, DropFacts, StatesGiveWay DEF Alert!Phases
<1>6. CASE (Alert!EscalateCancelled(p) \/ Alert!WithholdSpeech(p)) /\ UNCHANGED speaker
  <2>1. SpeechShape!2'
    BY <1>3, <1>6 DEF SpeechShape
  <2>2. CASE \E x \in {"ESCALATED", "CANCELLED"} : ledger' = Alert!Set(p, x)
    <3>1. PICK x \in {"ESCALATED", "CANCELLED"} : ledger' = Alert!Set(p, x)
      BY <2>2
    <3>2. x \in Alert!Terminal /\ x \in Alert!States
      BY DEF Alert!Terminal, Alert!States
    <3> QED
      BY <1>1, <1>2, <1>3, <1>6, <2>1, <3>1, <3>2, SetFacts, StatesGiveWay DEF Alert!Phases
  <2>3. CASE /\ ledger[p].state # "PLAYBACK_INTENT"
             /\ ledger' = [ledger EXCEPT ![p].state = "PENDING", ![p].waits = TRUE]
    <3>1. SpeechShape' /\ ledger'[p].state = "PENDING"
      BY <1>1, <1>3, <2>1, <2>3, RetryFacts
    <3>2. \A q \in Alert!Phases : /\ ledger'[q].generation = ledger[q].generation
                                  /\ q # p => ledger'[q].state = ledger[q].state
      BY <1>1, <1>3, <2>1, <2>3, RetryFacts
    <3>3. \A t \in Speakers : SpeechBegun(t)' => speaker'[t].phase # p
      BY <1>2, <1>6, <2>3 DEF SpeechBegun
    <3> QED
      BY <1>1, <1>2, <1>3, <1>6, <2>3, <3>1, <3>2, <3>3, StatesGiveWay DEF Alert!Phases
  <2> QED
    BY <1>6, <2>2, <2>3 DEF Alert!EscalateCancelled, Alert!WithholdSpeech
<1>7. CASE Alert!Claim(s, p)
  <2>1. /\ ledger[p].state \in {"PENDING", "CLAIMED"}
        /\ plays[p] = 0 /\ \A t \in Speakers : SpeechBegun(t) => speaker[t].phase # p
    BY <1>1, <1>2, <1>3, <1>7 DEF Alert!Claim, SpeechShape, SpeechEntry, Alert!States, Alert!Terminal
  <2>2. /\ ledger'[p].state = "CLAIMED" /\ ledger'[p].generation = ledger[p].generation + 1
        /\ \A q \in Alert!Phases \ {p} : ledger'[q] = ledger[q]
        /\ speaker'[s] = [at |-> "claimed", phase |-> p, generation |-> ledger[p].generation + 1]
        /\ \A t \in Speakers \ {s} : speaker'[t] = speaker[t]
    BY <1>1, <1>3, <1>7 DEF Alert!Claim, SpeechShape
  <2>3. \A q \in Alert!Phases : ledger[q].generation \in Nat
    BY <1>3 DEF SpeechShape, SpeechEntry
  <2>4. \A t \in Speakers : speaker[t].phase \in Alert!Phases /\ speaker[t].generation \in Nat
    BY <1>3 DEF SpeechShape
  <2>5. SpeechShape'
    <3>1. ledger'[p] \in SpeechEntry
      BY <1>1, <1>3, <1>7 DEF Alert!Claim, SpeechShape, Alert!States, SpeechEntry
    <3>2. ledger' \in [Alert!Phases -> SpeechEntry]
      BY <1>1, <1>3, <1>7, <3>1 DEF Alert!Claim, SpeechShape
    <3>3. SpeechShape!2'
      BY <1>1, <1>3, <1>7, <2>3 DEF Alert!Claim, SpeechShape
    <3> QED
      BY <1>3, <3>2, <3>3 DEF SpeechShape
  <2>6. SpeechClaimsAreOne'
    BY <1>1, <2>2, <2>3, <2>4 DEF SpeechInv, SpeechClaimsAreOne
  <2>7. ~SpeechBegun(s)' /\ \A t \in Speakers : SpeechBegun(t)' => SpeechBegun(t) /\ t # s
    BY <2>2 DEF SpeechBegun
  <2>8. SpeechIntentIsHeld'
    <3>1. ASSUME NEW t \in Speakers, SpeechBegun(t)'
          PROVE  LET q == speaker'[t].phase IN
                 \/ ledger'[q].state \in Alert!Terminal
                 \/ /\ ledger'[q].state = "PLAYBACK_INTENT"
                    /\ speaker'[t].generation = ledger'[q].generation
      BY <2>1, <2>2, <2>4, <2>7, <3>1 DEF SpeechInv, SpeechIntentIsHeld
    <3>2. \A t \in Speakers : LET q == speaker'[t].phase IN
             /\ ledger'[q].state = "PLAYBACK_INTENT"
             /\ speaker'[t].generation = ledger'[q].generation
             => speaker'[t].at # "claimed"
      BY <1>1, <2>2, <2>4 DEF SpeechInv, SpeechIntentIsHeld
    <3>3. \A t, u \in Speakers :
             SpeechBegun(t)' /\ SpeechBegun(u)' /\ speaker'[t].phase = speaker'[u].phase => t = u
      BY <2>2, <2>7 DEF SpeechInv, SpeechIntentIsHeld
    <3> QED
      BY <3>1, <3>2, <3>3 DEF SpeechIntentIsHeld
  <2>9. SpeechStartIsHeld'
    BY <1>1, <1>3, <2>1, <2>2, <2>4 DEF SpeechInv, SpeechStartIsHeld, Alert!Phases
  <2>10. Alert!SpokenOnce'
    BY <1>1, <1>3, <2>1, <2>2 DEF SpeechInv, Alert!SpokenOnce, Alert!Phases
  <2> QED
    BY <2>5, <2>6, <2>8, <2>9, <2>10 DEF SpeechInv
<1> QED
  BY <1>4, <1>5, <1>6, <1>7 DEF Alert!Poll, p

LEMMA IntentKeeps ==
    ASSUME SpeechInv, NEW s \in Speakers, Alert!PlaybackIntent(s)
    PROVE  SpeechInv'
<1> DEFINE p == speaker[s].phase
<1>1. p \in Alert!Phases /\ SpeechShape /\ UNCHANGED plays
  BY DEF SpeechInv, SpeechShape, Alert!PlaybackIntent
<1>2. /\ ledger[p].state = "CLAIMED" /\ speaker[s].at = "claimed"
      /\ speaker[s].generation = ledger[p].generation
  BY DEF Alert!PlaybackIntent, Alert!Bound
<1>3. /\ speaker' = [speaker EXCEPT ![s].at = "intent"]
      /\ ledger' = Alert!Set(p, "PLAYBACK_INTENT")
  BY DEF Alert!PlaybackIntent
<1> HIDE DEF p
<1>4. /\ speaker'[s].at = "intent" /\ speaker'[s].phase = speaker[s].phase
      /\ speaker'[s].generation = speaker[s].generation
      /\ \A t \in Speakers \ {s} : speaker'[t] = speaker[t]
      /\ SpeechShape!2'
  BY <1>1, <1>3 DEF SpeechShape
<1>5. /\ SpeechShape' /\ ledger'[p].state = "PLAYBACK_INTENT"
      /\ \A q \in Alert!Phases : /\ ledger'[q].generation = ledger[q].generation
                                 /\ q # p => ledger'[q].state = ledger[q].state
  BY <1>1, <1>3, <1>4, SetFacts DEF Alert!States
<1>6. speaker[s].phase = p /\ \A t \in Speakers : speaker[t].phase \in Alert!Phases
  BY <1>1 DEF SpeechShape, p
<1>7. plays[p] = 0 /\ \A t \in Speakers : SpeechBegun(t) => speaker[t].phase # p
  BY <1>1, <1>2 DEF SpeechInv, SpeechStartIsHeld, SpeechIntentIsHeld, Alert!Terminal, SpeechShape
<1>8. SpeechClaimsAreOne'
  BY <1>2, <1>4, <1>5, <1>6 DEF SpeechInv, SpeechClaimsAreOne
<1>9. SpeechIntentIsHeld'
  <2>1. ASSUME NEW t \in Speakers, SpeechBegun(t)'
        PROVE  LET q == speaker'[t].phase IN
               \/ ledger'[q].state \in Alert!Terminal
               \/ /\ ledger'[q].state = "PLAYBACK_INTENT"
                  /\ speaker'[t].generation = ledger'[q].generation
    <3>1. CASE t = s
      BY <1>2, <1>4, <1>5, <1>6, <1>1, <3>1
    <3>2. CASE t # s
      BY <1>4, <1>5, <1>6, <1>7, <2>1, <3>2 DEF SpeechInv, SpeechIntentIsHeld, SpeechBegun
    <3> QED
      BY <3>1, <3>2
  <2>2. ASSUME NEW t \in Speakers,
               ledger'[speaker'[t].phase].state = "PLAYBACK_INTENT",
               speaker'[t].generation = ledger'[speaker'[t].phase].generation
        PROVE  speaker'[t].at # "claimed"
    BY <1>2, <1>4, <1>5, <1>6, <2>2 DEF SpeechInv, SpeechIntentIsHeld, SpeechClaimsAreOne
  <2>3. ASSUME NEW t \in Speakers, NEW u \in Speakers,
               SpeechBegun(t)', SpeechBegun(u)', speaker'[t].phase = speaker'[u].phase
        PROVE  t = u
    BY <1>4, <1>6, <1>7, <2>3 DEF SpeechInv, SpeechIntentIsHeld, SpeechBegun
  <2> QED
    BY <2>1, <2>2, <2>3 DEF SpeechIntentIsHeld
<1>10. SpeechStartIsHeld'
  BY <1>1, <1>2, <1>4, <1>5, <1>6, <1>7 DEF SpeechInv, SpeechStartIsHeld, Alert!Phases
<1>11. Alert!SpokenOnce'
  BY <1>1, <1>2, <1>5 DEF SpeechInv, Alert!SpokenOnce, Alert!Phases
<1> QED
  BY <1>5, <1>8, <1>9, <1>10, <1>11 DEF SpeechInv

LEMMA SpeechPlayKeeps ==
    ASSUME SpeechInv, NEW s \in Speakers, Alert!Play(s)
    PROVE  SpeechInv'
<1>1. CASE speaker[s].at = "playing"
  <2>1. UNCHANGED plays /\ UNCHANGED ledger /\ speaker' = [speaker EXCEPT ![s].at = "played"]
    BY <1>1 DEF Alert!Play
  <2> QED
    BY <1>1, <2>1 DEF SpeechInv, SpeechShape, SpeechClaimsAreOne, SpeechIntentIsHeld, SpeechStartIsHeld, Alert!SpokenOnce, SpeechBegun
<1>2. CASE speaker[s].at = "intent"
  <2> DEFINE p == speaker[s].phase
  <2>1. /\ plays' = [plays EXCEPT ![p] = @ + 1] /\ UNCHANGED ledger
        /\ speaker' = [speaker EXCEPT ![s].at = "playing"]
    BY <1>2 DEF Alert!Play
  <2>2. p \in Alert!Phases /\ SpeechShape /\ plays[p] = 0
    BY <1>2 DEF SpeechInv, SpeechShape, SpeechStartIsHeld
  <2>3. SpeechShape'
    BY <2>1, <2>2 DEF SpeechShape
  <2>4. plays'[p] = 1 /\ \A q \in Alert!Phases \ {p} : plays'[q] = plays[q]
    BY <2>1, <2>2 DEF SpeechShape
  <2>5. /\ speaker'[s].at = "playing" /\ speaker'[s].phase = p
        /\ speaker'[s].generation = speaker[s].generation
        /\ \A t \in Speakers \ {s} : speaker'[t] = speaker[t]
    BY <2>1, <2>2 DEF SpeechShape
  <2>6. \A t \in Speakers \ {s} : speaker[t].at = "intent" => speaker[t].phase # p
    BY <1>2 DEF SpeechInv, SpeechIntentIsHeld, SpeechBegun
  <2>7. ledger[p].state \in Alert!Terminal \cup {"PLAYBACK_INTENT"}
    BY <1>2 DEF SpeechInv, SpeechIntentIsHeld, SpeechBegun
  <2>8. p = "FOLLOWUP" => ledger["CANONICAL"].state = "DELIVERED"
    BY <1>2 DEF SpeechInv, SpeechStartIsHeld
  <2>9. SpeechClaimsAreOne' /\ SpeechIntentIsHeld'
    BY <1>2, <2>1, <2>5 DEF SpeechInv, SpeechClaimsAreOne, SpeechIntentIsHeld, SpeechBegun
  <2>10. SpeechStartIsHeld'
    <3>1. \A q \in Alert!Phases : plays'[q] # 0 => ledger'[q].state \in Alert!Terminal \cup {"PLAYBACK_INTENT"}
      BY <2>1, <2>4, <2>7 DEF SpeechInv, SpeechStartIsHeld
    <3>2. \A t \in Speakers : speaker[t].phase \in Alert!Phases
      BY <2>2 DEF SpeechShape
    <3>3. \A t \in Speakers : speaker'[t].at = "intent" => plays'[speaker'[t].phase] = 0
      BY <2>4, <2>5, <2>6, <3>2 DEF SpeechInv, SpeechStartIsHeld
    <3>4. \A t \in Speakers : speaker'[t].at # "idle" /\ speaker'[t].phase = "FOLLOWUP"
             => ledger'["CANONICAL"].state = "DELIVERED"
      BY <2>1, <2>5, <2>8 DEF SpeechInv, SpeechStartIsHeld
    <3> QED
      BY <3>1, <3>3, <3>4 DEF SpeechStartIsHeld
  <2>11. Alert!SpokenOnce'
    BY <2>1, <2>2, <2>4, <2>8 DEF SpeechInv, Alert!SpokenOnce, Alert!Phases
  <2> QED
    BY <2>3, <2>9, <2>10, <2>11 DEF SpeechInv
<1> QED
  BY <1>1, <1>2 DEF Alert!Play

LEMMA SpeechReceiptKeeps ==
    ASSUME SpeechInv, NEW s \in Speakers, Alert!Unstarted(s) \/ Alert!ContentUnavailable(s) \/ Alert!Report(s)
    PROVE  SpeechInv'
<1> DEFINE p == speaker[s].phase
<1>1. p \in Alert!Phases /\ SpeechShape /\ UNCHANGED plays /\ Alert!Bound(s) /\ speaker' = [speaker EXCEPT ![s] = Alert!Free]
  BY DEF SpeechInv, SpeechShape, Alert!Unstarted, Alert!ContentUnavailable, Alert!Report, Alert!Released
<1>2. /\ ledger[p].state \in {"CLAIMED", "PLAYBACK_INTENT"}
      /\ speaker[s].generation = ledger[p].generation
  BY DEF Alert!Unstarted, Alert!ContentUnavailable, Alert!Report, Alert!Bound
<1>3. /\ SpeechShape!2' /\ speaker'[s].at = "idle"
      /\ \A t \in Speakers : speaker'[t] = speaker[t] \/ speaker'[t].at = "idle"
  BY <1>1 DEF SpeechShape, Alert!Free, Alert!Phases
<1> HIDE DEF p
<1>4. CASE \E x \in Alert!Terminal : ledger' = Alert!Set(p, x)
  <2>1. PICK x \in Alert!Terminal : ledger' = Alert!Set(p, x)
    BY <1>4
  <2>2. x \in Alert!States
    BY DEF Alert!States
  <2> QED
    BY <1>1, <1>2, <1>3, <2>1, <2>2, SetFacts, StatesGiveWay DEF Alert!Phases, Alert!Terminal
<1>5. CASE \E x \in Alert!Terminal : ledger' = Alert!SetAndDrop(p, x)
  <2>1. PICK x \in Alert!Terminal : ledger' = Alert!SetAndDrop(p, x)
    BY <1>5
  <2>2. ledger["CANONICAL"].state = "DELIVERED" => p # "CANONICAL"
    BY <1>2
  <2>3. \A q \in Alert!Phases : ledger[q].state \in Alert!Terminal => ledger'[q].state \in Alert!Terminal
    BY <1>1, <1>3, <2>1, DropFacts
  <2> QED
    BY <1>1, <1>2, <1>3, <2>1, <2>2, <2>3, DropFacts, StatesGiveWay DEF Alert!Phases
<1>6. CASE /\ speaker[s].at \in {"claimed", "intent"} \/ ledger[p].state # "PLAYBACK_INTENT"
           /\ ledger' = [ledger EXCEPT ![p].state = "PENDING", ![p].waits = TRUE]
  <2>1. plays[p] = 0 /\ \A t \in Speakers : SpeechBegun(t) /\ t # s => speaker[t].phase # p
    <3>1. CASE ledger[p].state = "CLAIMED"
      BY <1>1, <3>1 DEF SpeechInv, SpeechStartIsHeld, SpeechIntentIsHeld, Alert!Terminal
    <3>2. CASE ledger[p].state = "PLAYBACK_INTENT"
      <4>1. speaker[s].at = "intent" /\ speaker[s].phase = p
        BY <1>2, <1>6, <3>2 DEF SpeechInv, SpeechIntentIsHeld, p
      <4> QED
        BY <1>1, <4>1 DEF SpeechInv, SpeechStartIsHeld, SpeechIntentIsHeld, SpeechBegun
    <3> QED
      BY <1>2, <3>1, <3>2
  <2>2. \A t \in Speakers : SpeechBegun(t)' => speaker'[t].phase # p
    BY <1>3, <2>1 DEF SpeechBegun
  <2>3. /\ SpeechShape' /\ ledger'[p].state = "PENDING"
        /\ \A q \in Alert!Phases : /\ ledger'[q].generation = ledger[q].generation
                                   /\ q # p => ledger'[q].state = ledger[q].state
    BY <1>1, <1>3, <1>6, RetryFacts
  <2> QED
    BY <1>1, <1>2, <1>3, <2>1, <2>2, <2>3, StatesGiveWay DEF Alert!Phases, Alert!Terminal
<1> QED
  <2>1. {"UNKNOWN", "ESCALATED", "DELIVERED"} \subseteq Alert!Terminal
    BY DEF Alert!Terminal
  <2>2. CASE Alert!Unstarted(s)
    BY <1>4, <1>5, <1>6, <2>1, <2>2 DEF Alert!Unstarted, p
  <2>3. CASE Alert!ContentUnavailable(s)
    BY <1>4, <2>1, <2>3 DEF Alert!ContentUnavailable, p
  <2>4. CASE Alert!Report(s)
    BY <1>4, <1>5, <2>1, <2>4 DEF Alert!Report, p
  <2> QED
    BY <2>2, <2>3, <2>4

(* The rest leaves the states alone, or owes the follow-up. *)
LEMMA SpeechOthersKeep ==
    ASSUME SpeechInv,
           \/ \E s \in Speakers : Alert!Leave(s)
           \/ Alert!QueueFollowup \/ Alert!ReadyFollowup
           \/ \E p \in Alert!Phases : Alert!LeaseEnds(p) \/ Alert!RetryDue(p)
           \/ Alert!TenMinutes \/ Alert!CancelRequest
    PROVE  SpeechInv'
<1>1. SpeechShape /\ UNCHANGED plays
  BY DEF SpeechInv, Alert!Leave, Alert!QueueFollowup, Alert!ReadyFollowup, Alert!LeaseEnds, Alert!RetryDue, Alert!TenMinutes,
         Alert!CancelRequest
<1>2. CASE Alert!QueueFollowup
  <2>1. /\ ledger' = Alert!Set("FOLLOWUP", "PENDING") /\ UNCHANGED speaker
        /\ ledger["FOLLOWUP"].state = "NONE" /\ "FOLLOWUP" \in Alert!Phases /\ "PENDING" \in Alert!States
    BY <1>2 DEF Alert!QueueFollowup, Alert!Phases, Alert!States
  <2>2. plays["FOLLOWUP"] = 0 /\ \A s \in Speakers : SpeechBegun(s) => speaker[s].phase # "FOLLOWUP"
    BY <1>1, <2>1 DEF SpeechInv, SpeechStartIsHeld, SpeechIntentIsHeld, Alert!Terminal
  <2>3. SpeechShape!2' /\ \A s \in Speakers : SpeechBegun(s)' => speaker'[s].phase # "FOLLOWUP"
    BY <1>1, <2>1, <2>2 DEF SpeechShape, SpeechBegun
  <2>4. /\ SpeechShape' /\ ledger'["FOLLOWUP"].state = "PENDING"
        /\ \A q \in Alert!Phases : /\ ledger'[q].generation = ledger[q].generation
                                   /\ q # "FOLLOWUP" => ledger'[q].state = ledger[q].state
    BY <1>1, <2>1, <2>3, SetFacts
  <2>5. \A p \in Alert!Phases : ledger[p].state \in Alert!Terminal => ledger'[p].state \in Alert!Terminal
    BY <2>1, <2>4 DEF Alert!Terminal
  <2> QED
    BY <1>1, <2>1, <2>2, <2>3, <2>4, <2>5, StatesGiveWay DEF Alert!Phases
<1>3. CASE \E s \in Speakers : Alert!Leave(s)
  <2>1. PICK s \in Speakers : speaker' = [speaker EXCEPT ![s] = Alert!Free] /\ UNCHANGED ledger
    BY <1>3 DEF Alert!Leave, Alert!Released
  <2>2. SpeechShape' /\ \A t \in Speakers : speaker'[t] = speaker[t] \/ speaker'[t].at = "idle"
    BY <1>1, <2>1 DEF SpeechShape, Alert!Free, Alert!Phases
  <2> QED
    BY <1>1, <2>1, <2>2, StatesGiveWay
<1>4. CASE Alert!ReadyFollowup \/ \E p \in Alert!Phases : Alert!LeaseEnds(p) \/ Alert!RetryDue(p)
  <2>1. UNCHANGED speaker
    BY <1>4 DEF Alert!ReadyFollowup, Alert!LeaseEnds, Alert!RetryDue
  <2>2. /\ ledger' \in [Alert!Phases -> SpeechEntry]
        /\ \A q \in Alert!Phases : /\ ledger'[q].generation = ledger[q].generation
                                   /\ ledger'[q].state = ledger[q].state
    <3>1. "FOLLOWUP" \in Alert!Phases
      BY DEF Alert!Phases
    <3>2. PICK q \in Alert!Phases :
             \/ ledger' = [ledger EXCEPT ![q] = [ledger[q] EXCEPT !.ready = TRUE]]
             \/ ledger' = [ledger EXCEPT ![q] = [ledger[q] EXCEPT !.leased = FALSE]]
             \/ ledger' = [ledger EXCEPT ![q] = [ledger[q] EXCEPT !.waits = FALSE]]
      BY <1>4, <3>1 DEF Alert!ReadyFollowup, Alert!LeaseEnds, Alert!RetryDue
    <3>3. /\ [ledger[q] EXCEPT !.ready = TRUE] \in SpeechEntry
          /\ [ledger[q] EXCEPT !.leased = FALSE] \in SpeechEntry
          /\ [ledger[q] EXCEPT !.waits = FALSE] \in SpeechEntry
      BY <1>1 DEF SpeechShape, SpeechEntry
    <3>4. ledger' \in [Alert!Phases -> SpeechEntry]
      BY <1>1, <3>2, <3>3 DEF SpeechShape
    <3> QED
      BY <1>1, <3>2, <3>4 DEF SpeechShape, SpeechEntry
  <2>3. SpeechShape'
    BY <1>1, <2>1, <2>2 DEF SpeechShape
  <2> QED
    BY <1>1, <2>1, <2>2, <2>3, StatesGiveWay DEF Alert!Phases
<1>5. CASE Alert!TenMinutes \/ Alert!CancelRequest
  <2>1. UNCHANGED <<ledger, speaker>>
    BY <1>5 DEF Alert!TenMinutes, Alert!CancelRequest
  <2> QED
    BY <1>1, <2>1 DEF SpeechInv, SpeechShape, SpeechClaimsAreOne, SpeechIntentIsHeld, SpeechStartIsHeld, Alert!SpokenOnce, SpeechBegun
<1> QED
  BY <1>2, <1>3, <1>4, <1>5

-----------------------------------------------------------------------------
(* The replies *)

ReplySettled == {"DELIVERED", "UNKNOWN", "ESCALATED"}

ReplyBegun(i) == voice[i].at \in {"intent", "playing", "played"}

ReplyEntry == [delivery : Reply!States, generation : Nat, instance : Instances \cup {None}, leased : BOOLEAN]

(* The shape of the state, without the bound on the claims. *)
VoiceShape ==
    /\ voice \in [Instances -> [at : {"idle", "claimed", "intent", "playing", "played"},
                                reply : Replies \cup {None}, generation : Nat]]
    /\ \A i \in Instances : voice[i].at # "idle" => voice[i].reply \in Replies

ReplyShape == replyRow \in [Replies -> ReplyEntry] /\ VoiceShape /\ replyPlays \in [Replies -> Nat]

(* A generation belongs to one instance, and none is ahead of the row. *)
ReplyClaimsAreOne ==
    /\ \A i \in Instances : voice[i].at # "idle"
            => voice[i].generation <= replyRow[voice[i].reply].generation
    /\ \A i, j \in Instances :
            /\ voice[i].at # "idle" /\ voice[j].at # "idle"
            /\ voice[i].reply = voice[j].reply /\ voice[i].generation = voice[j].generation
            => i = j

(* Who has begun holds the written intent until the reply is settled, and  *)
(* is the only one to have begun it.                                       *)
ReplyIntentIsHeld ==
    /\ \A i \in Instances : LET r == voice[i].reply IN
          ReplyBegun(i) => \/ replyRow[r].delivery \in ReplySettled
                           \/ /\ replyRow[r].delivery = "PLAYBACK_INTENT"
                              /\ voice[i].generation = replyRow[r].generation
    /\ \A i \in Instances : LET r == voice[i].reply IN
          /\ voice[i].at = "claimed"
          /\ voice[i].generation = replyRow[r].generation
          => replyRow[r].delivery # "PLAYBACK_INTENT"
    /\ \A i, j \in Instances :
          ReplyBegun(i) /\ ReplyBegun(j) /\ voice[i].reply = voice[j].reply => i = j

(* What was started is settled or held; who has the intent has not started *)
(* it, and who plays has, once.                                            *)
ReplyStartIsHeld ==
    /\ \A r \in Replies : replyPlays[r] # 0 => replyRow[r].delivery \in ReplySettled \cup {"PLAYBACK_INTENT"}
    /\ \A i \in Instances : voice[i].at = "intent" => replyPlays[voice[i].reply] = 0
    /\ \A i \in Instances : voice[i].at \in {"playing", "played"} => replyPlays[voice[i].reply] = 1

ReplyInv == ReplyShape /\ ReplyClaimsAreOne /\ ReplyIntentIsHeld /\ ReplyStartIsHeld /\ Reply!RepliedOnce

(* Nobody has begun a reply that is waiting or claimed. *)
LEMMA OpenIsUnbegun ==
    ASSUME ReplyInv, NEW r \in Replies, replyRow[r].delivery \in {"PENDING", "CLAIMED"}
    PROVE  replyPlays[r] = 0 /\ \A i \in Instances : ReplyBegun(i) => voice[i].reply # r
BY DEF ReplyInv, ReplyStartIsHeld, ReplyIntentIsHeld, ReplySettled

(* Without a claim, an intent or a start: the rows stay, settle or wait    *)
(* again where nobody has begun; an instance may be freed.                 *)
LEMMA RowsGiveWay ==
    ASSUME ReplyInv, ReplyShape', UNCHANGED replyPlays,
           \A i \in Instances : voice'[i] = voice[i] \/ voice'[i].at = "idle",
           \A r \in Replies :
              /\ replyRow'[r].generation = replyRow[r].generation
              /\ \/ replyRow'[r].delivery = replyRow[r].delivery
                 \/ replyRow'[r].delivery \in {"UNKNOWN", "ESCALATED"}
                 \/ replyRow'[r].delivery = "DELIVERED" /\ replyPlays[r] = 1
                 \/ /\ replyRow'[r].delivery = "PENDING" /\ replyPlays[r] = 0
                    /\ \A i \in Instances : ReplyBegun(i)' => voice'[i].reply # r
              /\ replyRow[r].delivery \in ReplySettled => replyRow'[r].delivery \in ReplySettled
    PROVE  ReplyInv'
<1>1. \A i \in Instances : /\ voice[i].at # "idle" => voice[i].reply \in Replies
                           /\ voice'[i].at # "idle" => voice'[i] = voice[i]
  BY DEF ReplyInv, ReplyShape, VoiceShape
<1>2. \A i \in Instances : ReplyBegun(i)' => ReplyBegun(i) /\ voice'[i] = voice[i] /\ voice[i].reply \in Replies
  BY <1>1 DEF ReplyBegun
<1>3. ReplyClaimsAreOne'
  BY <1>1 DEF ReplyInv, ReplyClaimsAreOne
<1>4. ReplyIntentIsHeld'
  <2>1. ASSUME NEW i \in Instances, ReplyBegun(i)'
        PROVE  LET r == voice'[i].reply IN
               \/ replyRow'[r].delivery \in ReplySettled
               \/ /\ replyRow'[r].delivery = "PLAYBACK_INTENT"
                  /\ voice'[i].generation = replyRow'[r].generation
    BY <1>2, <2>1 DEF ReplyInv, ReplyIntentIsHeld, ReplySettled
  <2>2. ASSUME NEW i \in Instances, voice'[i].at = "claimed",
               voice'[i].generation = replyRow'[voice'[i].reply].generation
        PROVE  replyRow'[voice'[i].reply].delivery # "PLAYBACK_INTENT"
    BY <1>1, <2>2 DEF ReplyInv, ReplyIntentIsHeld
  <2>3. \A i, j \in Instances :
           ReplyBegun(i)' /\ ReplyBegun(j)' /\ voice'[i].reply = voice'[j].reply => i = j
    BY <1>2 DEF ReplyInv, ReplyIntentIsHeld
  <2> QED
    BY <2>1, <2>2, <2>3 DEF ReplyIntentIsHeld
<1>5. ReplyStartIsHeld'
  BY <1>1 DEF ReplyInv, ReplyStartIsHeld, ReplySettled
<1>6. Reply!RepliedOnce'
  BY DEF ReplyInv, Reply!RepliedOnce
<1> QED
  BY <1>3, <1>4, <1>5, <1>6 DEF ReplyInv

(* What looking a row over, and passing it over, may make of it. *)
LEMMA CheckedFacts ==
    ASSUME ReplyShape, NEW r \in Replies
    PROVE  /\ Reply!Checked(r) \in ReplyEntry /\ Reply!Checked(r).generation = replyRow[r].generation
           /\ \/ Reply!Checked(r).delivery = replyRow[r].delivery
              \/ Reply!Checked(r).delivery = "UNKNOWN"
              \/ Reply!Checked(r).delivery = "PENDING" /\ replyRow[r].delivery = "CLAIMED"
           /\ replyRow[r].delivery \in ReplySettled => Reply!Checked(r).delivery \in ReplySettled
BY DEF ReplyShape, ReplyEntry, Reply!Checked, Reply!States, ReplySettled

LEMMA PassedFacts ==
    ASSUME ReplyShape, NEW r \in Replies
    PROVE  /\ Reply!PassedOver(r) \in ReplyEntry /\ Reply!PassedOver(r).generation = replyRow[r].generation
           /\ \/ Reply!PassedOver(r).delivery = replyRow[r].delivery
              \/ Reply!PassedOver(r).delivery \in {"UNKNOWN", "ESCALATED"}
              \/ Reply!PassedOver(r).delivery = "PENDING" /\ replyRow[r].delivery = "CLAIMED"
           /\ replyRow[r].delivery \in ReplySettled => Reply!PassedOver(r).delivery \in ReplySettled
<1>1. replyRow[r] \in ReplyEntry
  BY DEF ReplyShape
<1>2. Reply!Checked(r) \in ReplyEntry
  BY CheckedFacts
<1>3. LET e == [Reply!Checked(r) EXCEPT !.delivery = "ESCALATED"] IN
      e \in ReplyEntry /\ e.delivery = "ESCALATED" /\ e.generation = Reply!Checked(r).generation
  BY <1>2 DEF ReplyEntry, Reply!States
<1> QED
  BY <1>1, <1>3, CheckedFacts DEF Reply!PassedOver, ReplySettled

(* The rows after a step that gives each one of the forms above. *)
Passed(r, x) ==
    /\ x \in ReplyEntry /\ x.generation = replyRow[r].generation
    /\ \/ x.delivery = replyRow[r].delivery
       \/ x.delivery \in {"UNKNOWN", "ESCALATED"}
       \/ x.delivery = "PENDING" /\ replyRow[r].delivery = "CLAIMED"
    /\ replyRow[r].delivery \in ReplySettled => x.delivery \in ReplySettled

(* What a claim leaves in its row: a typed entry, claimed, one generation later. *)
Claimed(e, i) == [e EXCEPT !.delivery = "CLAIMED", !.generation = e.generation + 1,
                           !.instance = i, !.leased = TRUE]

LEMMA ClaimedFacts ==
    ASSUME NEW e \in ReplyEntry, NEW i \in Instances
    PROVE  /\ Claimed(e, i) \in ReplyEntry /\ Claimed(e, i).delivery = "CLAIMED"
           /\ Claimed(e, i).generation = e.generation + 1
<1> DEFINE a == [e EXCEPT !.delivery = "CLAIMED"]
           b == [a EXCEPT !.generation = e.generation + 1]
           c == [b EXCEPT !.instance = i]
           d == [c EXCEPT !.leased = TRUE]
<1>1. a \in ReplyEntry /\ a.delivery = "CLAIMED"
  BY DEF ReplyEntry, Reply!States
<1> HIDE DEF a
<1>2. b \in ReplyEntry /\ b.delivery = "CLAIMED" /\ b.generation = e.generation + 1
  BY <1>1 DEF ReplyEntry
<1> HIDE DEF b
<1>3. c \in ReplyEntry /\ c.delivery = "CLAIMED" /\ c.generation = e.generation + 1
  BY <1>2 DEF ReplyEntry
<1> HIDE DEF c
<1>4. d \in ReplyEntry /\ d.delivery = "CLAIMED" /\ d.generation = e.generation + 1
  BY <1>3 DEF ReplyEntry
<1> QED
  BY <1>4 DEF a, b, c, d, Claimed

LEMMA NextReplyKeeps ==
    ASSUME ReplyInv, NEW i \in Instances, Reply!NextReply(i)
    PROVE  ReplyInv'
<1>1. ReplyShape /\ UNCHANGED replyPlays
  BY DEF ReplyInv, Reply!NextReply
<1>2. \A x \in Replies : Passed(x, replyRow[x]) /\ Passed(x, Reply!Checked(x)) /\ Passed(x, Reply!PassedOver(x))
  BY <1>1, CheckedFacts, PassedFacts DEF Passed, ReplyShape
<1>3. CASE UNCHANGED voice /\ (\/ \E r \in Replies : Reply!Withhold(r)
                              \/ replyRow' = [r \in Replies |-> Reply!PassedOver(r)])
  <2>1. replyRow' \in [Replies -> ReplyEntry] /\ \A x \in Replies : Passed(x, replyRow'[x])
    <3>1. CASE replyRow' = [r \in Replies |-> Reply!PassedOver(r)]
      BY <1>2, <3>1 DEF Passed
    <3>2. CASE \E r \in Replies : Reply!Withhold(r)
      <4>1. PICK r \in Replies :
               replyRow' = [x \in Replies |-> IF x = r THEN Reply!Checked(r)
                                         ELSE IF x \in Reply!Before(r) THEN Reply!PassedOver(x) ELSE replyRow[x]]
        BY <3>2 DEF Reply!Withhold
      <4> QED
        BY <1>2, <4>1 DEF Passed
    <3> QED
      BY <1>3, <3>1, <3>2
  <2>2. ReplyShape'
    BY <1>1, <1>3, <2>1 DEF ReplyShape, VoiceShape
  <2>3. \A x \in Replies : replyRow[x].delivery = "CLAIMED"
           => replyPlays[x] = 0 /\ \A j \in Instances : ReplyBegun(j)' => voice'[j].reply # x
    BY <1>3, OpenIsUnbegun DEF ReplyBegun
  <2> QED
    BY <1>1, <1>3, <2>1, <2>2, <2>3, RowsGiveWay DEF Passed
<1>4. ASSUME NEW r \in Replies, Reply!Answerable(r), Reply!Claim(i, r)
      PROVE  ReplyInv'
  <2>1. replyRow[r].delivery \in {"PENDING", "CLAIMED"}
    BY <1>1, <1>4, CheckedFacts DEF Reply!Answerable, Reply!Waiting, Reply!Open, Reply!Checked, ReplyShape, ReplyEntry
  <2>2. replyPlays[r] = 0 /\ \A j \in Instances : ReplyBegun(j) => voice[j].reply # r
    BY <2>1, OpenIsUnbegun
  <2>3. /\ voice' = [voice EXCEPT ![i] = [at |-> "claimed", reply |-> r,
                                          generation |-> replyRow[r].generation + 1]]
        /\ replyRow' = [x \in Replies |->
              IF x = r THEN [replyRow[r] EXCEPT !.delivery = "CLAIMED", !.generation = @ + 1,
                                           !.instance = i, !.leased = TRUE]
              ELSE IF x \in Reply!Before(r) THEN Reply!PassedOver(x) ELSE replyRow[x]]
    BY <1>4 DEF Reply!Claim
  <2>4. /\ voice'[i].at = "claimed" /\ voice'[i].reply = r
        /\ voice'[i].generation = replyRow[r].generation + 1
        /\ \A j \in Instances \ {i} : voice'[j] = voice[j]
    BY <1>1, <2>3 DEF ReplyShape, VoiceShape
  <2>5. /\ replyRow'[r] \in ReplyEntry /\ replyRow'[r].delivery = "CLAIMED"
        /\ replyRow'[r].generation = replyRow[r].generation + 1
    <3>1. replyRow'[r] = Claimed(replyRow[r], i)
      BY <2>3, Zenon DEF Claimed
    <3>2. replyRow[r] \in ReplyEntry
      BY <1>1 DEF ReplyShape
    <3> QED
      BY <3>1, <3>2, ClaimedFacts
  <2>6. \A x \in Replies \ {r} : Passed(x, replyRow'[x])
    BY <1>2, <2>3
  <2>7. \A x \in Replies : replyRow[x].generation \in Nat
    BY <1>1 DEF ReplyShape, ReplyEntry
  <2>8. \A j \in Instances : /\ voice[j].generation \in Nat
                             /\ voice[j].at # "idle" => voice[j].reply \in Replies
    BY <1>1 DEF ReplyShape, VoiceShape
  <2>9. ReplyShape'
    <3>1. replyRow' \in [Replies -> ReplyEntry]
      BY <2>3, <2>5, <2>6 DEF Passed
    <3>2. VoiceShape'
      BY <1>1, <2>3, <2>4, <2>7 DEF ReplyShape, VoiceShape
    <3> QED
      BY <1>1, <3>1, <3>2 DEF ReplyShape
  <2>10. \A j \in Instances : ReplyBegun(j)' => ReplyBegun(j) /\ j # i /\ voice[j].reply \in Replies \ {r}
    BY <2>2, <2>4, <2>8 DEF ReplyBegun
  <2>11. ReplyClaimsAreOne'
    BY <2>4, <2>5, <2>6, <2>7, <2>8 DEF ReplyInv, ReplyClaimsAreOne, Passed
  <2>12. ReplyIntentIsHeld'
    <3>1. ASSUME NEW j \in Instances, ReplyBegun(j)'
          PROVE  LET x == voice'[j].reply IN
                 \/ replyRow'[x].delivery \in ReplySettled
                 \/ /\ replyRow'[x].delivery = "PLAYBACK_INTENT"
                    /\ voice'[j].generation = replyRow'[x].generation
      BY <2>4, <2>6, <2>10, <3>1 DEF ReplyInv, ReplyIntentIsHeld, Passed, ReplySettled
    <3>2. ASSUME NEW j \in Instances, voice'[j].at = "claimed",
                 voice'[j].generation = replyRow'[voice'[j].reply].generation
          PROVE  replyRow'[voice'[j].reply].delivery # "PLAYBACK_INTENT"
      BY <2>4, <2>5, <2>6, <2>8, <3>2 DEF ReplyInv, ReplyIntentIsHeld, Passed
    <3>3. \A j, k \in Instances :
             ReplyBegun(j)' /\ ReplyBegun(k)' /\ voice'[j].reply = voice'[k].reply => j = k
      BY <2>4, <2>10 DEF ReplyInv, ReplyIntentIsHeld
    <3> QED
      BY <3>1, <3>2, <3>3 DEF ReplyIntentIsHeld
  <2>13. ReplyStartIsHeld'
    <3>1. \A x \in Replies : replyPlays'[x] # 0 => replyRow'[x].delivery \in ReplySettled \cup {"PLAYBACK_INTENT"}
      BY <1>1, <2>2, <2>6 DEF ReplyInv, ReplyStartIsHeld, Passed, ReplySettled
    <3>2. \A j \in Instances :
             /\ voice'[j].at = "intent" => replyPlays'[voice'[j].reply] = 0
             /\ voice'[j].at \in {"playing", "played"} => replyPlays'[voice'[j].reply] = 1
      BY <1>1, <2>4 DEF ReplyInv, ReplyStartIsHeld
    <3> QED
      BY <3>1, <3>2 DEF ReplyStartIsHeld
  <2>14. Reply!RepliedOnce'
    BY <1>1, <2>2, <2>5, <2>6 DEF ReplyInv, Reply!RepliedOnce, Passed
  <2> QED
    BY <2>9, <2>11, <2>12, <2>13, <2>14 DEF ReplyInv
<1>5. CASE \E r \in Replies : Reply!Answerable(r) /\ Reply!Claim(i, r)
  BY <1>4, <1>5
<1>6. CASE \E r \in Replies : Reply!Withhold(r)
  <2>1. UNCHANGED voice
    BY <1>6 DEF Reply!Withhold
  <2> QED
    BY <1>3, <1>6, <2>1
<1> QED
  BY <1>3, <1>5, <1>6 DEF Reply!NextReply

LEMMA ReplyReceiptKeeps ==
    ASSUME ReplyInv, NEW i \in Instances, NEW outcome, Reply!Receipt(i, outcome)
    PROVE  ReplyInv'
<1> DEFINE r == voice[i].reply
           target == IF Reply!Mine(i) THEN Reply!Target(i, Reply!Checked(r).delivery, outcome) ELSE None
           lands == r \notin changed /\ target # None
           e == IF lands THEN [Reply!Checked(r) EXCEPT !.delivery = target] ELSE Reply!Checked(r)
<1>1. ReplyShape /\ UNCHANGED replyPlays /\ r \in Replies /\ outcome \in Reply!Honest(i)
  BY DEF ReplyInv, Reply!Receipt, ReplyShape, VoiceShape
<1>2. replyRow' = [replyRow EXCEPT ![r] = e]
  BY DEF Reply!Receipt
<1>3. voice' = [voice EXCEPT ![i] =
          IF lands /\ outcome = "PLAYBACK_INTENT" THEN [@ EXCEPT !.at = "intent"] ELSE Reply!Free]
  BY DEF Reply!Receipt
<1>4. Passed(r, Reply!Checked(r)) /\ \A x \in Replies : replyRow[x] \in ReplyEntry
  BY <1>1, CheckedFacts DEF Passed, ReplyShape
<1>5. lands => /\ voice[i].generation = replyRow[r].generation
               /\ target = Reply!Target(i, Reply!Checked(r).delivery, outcome)
  BY DEF Reply!Mine
<1>6. lands => \/ /\ target = "PLAYBACK_INTENT" /\ Reply!Checked(r).delivery = "CLAIMED"
                  /\ outcome = "PLAYBACK_INTENT" /\ voice[i].at = "claimed"
               \/ /\ target = "PENDING" /\ outcome # "PLAYBACK_INTENT"
                  /\ \/ Reply!Checked(r).delivery = "CLAIMED"
                     \/ /\ Reply!Checked(r).delivery = "PLAYBACK_INTENT"
                        /\ voice[i].at \in {"claimed", "intent"}
               \/ /\ target = "UNKNOWN" /\ outcome # "PLAYBACK_INTENT"
                  /\ Reply!Checked(r).delivery = "PLAYBACK_INTENT"
               \/ /\ target = "DELIVERED" /\ outcome # "PLAYBACK_INTENT"
                  /\ Reply!Checked(r).delivery = "PLAYBACK_INTENT" /\ voice[i].at = "played"
  BY <1>1, <1>5 DEF Reply!Target, Reply!Honest
<1> HIDE DEF target
<1>7. /\ e \in ReplyEntry /\ e.generation = replyRow[r].generation
      /\ e.delivery = IF lands THEN target ELSE Reply!Checked(r).delivery
  <2>1. lands => target \in Reply!States
    BY <1>6 DEF Reply!States
  <2>2. Reply!Checked(r) \in ReplyEntry /\ Reply!Checked(r).generation = replyRow[r].generation
    BY <1>4 DEF Passed
  <2> QED
    BY <2>1, <2>2 DEF ReplyEntry
<1> HIDE DEF e, lands
<1>8. /\ replyRow'[r] = e /\ \A x \in Replies \ {r} : replyRow'[x] = replyRow[x]
      /\ replyRow' \in [Replies -> ReplyEntry]
  BY <1>1, <1>2, <1>7 DEF ReplyShape
<1>9. CASE lands /\ outcome = "PLAYBACK_INTENT"
  <2>1. /\ replyRow[r].delivery = "CLAIMED" /\ voice[i].at = "claimed"
        /\ e.delivery = "PLAYBACK_INTENT" /\ voice[i].generation = replyRow[r].generation
    BY <1>4, <1>5, <1>6, <1>7, <1>9 DEF Passed
  <2>2. replyPlays[r] = 0 /\ \A j \in Instances : ReplyBegun(j) => voice[j].reply # r
    BY <1>1, <2>1, OpenIsUnbegun
  <2>3. /\ voice'[i].at = "intent" /\ voice'[i].reply = voice[i].reply
        /\ voice'[i].generation = voice[i].generation
        /\ \A j \in Instances \ {i} : voice'[j] = voice[j]
    BY <1>1, <1>3, <1>9 DEF ReplyShape, VoiceShape
  <2>4. \A j \in Instances : voice[j].at # "idle" => voice[j].reply \in Replies
    BY <1>1 DEF ReplyShape, VoiceShape
  <2>5. ReplyShape'
    <3>1. VoiceShape'
      BY <1>1, <1>3, <1>9, <2>3 DEF ReplyShape, VoiceShape
    <3> QED
      BY <1>1, <1>8, <3>1 DEF ReplyShape
  <2>6. ReplyClaimsAreOne'
    BY <1>7, <1>8, <2>1, <2>3, <2>4 DEF ReplyInv, ReplyClaimsAreOne
  <2>7. ReplyIntentIsHeld'
    <3>1. ASSUME NEW j \in Instances, ReplyBegun(j)'
          PROVE  LET x == voice'[j].reply IN
                 \/ replyRow'[x].delivery \in ReplySettled
                 \/ /\ replyRow'[x].delivery = "PLAYBACK_INTENT"
                    /\ voice'[j].generation = replyRow'[x].generation
      <4>1. CASE j = i
        BY <1>7, <1>8, <2>1, <2>3, <4>1
      <4>2. CASE j # i
        BY <1>8, <2>2, <2>3, <2>4, <3>1, <4>2 DEF ReplyInv, ReplyIntentIsHeld, ReplyBegun
      <4> QED
        BY <4>1, <4>2
    <3>2. ASSUME NEW j \in Instances, voice'[j].at = "claimed",
                 voice'[j].generation = replyRow'[voice'[j].reply].generation
          PROVE  replyRow'[voice'[j].reply].delivery # "PLAYBACK_INTENT"
      BY <1>7, <1>8, <2>1, <2>3, <2>4, <3>2 DEF ReplyInv, ReplyIntentIsHeld, ReplyClaimsAreOne
    <3>3. ASSUME NEW j \in Instances, NEW k \in Instances,
                 ReplyBegun(j)', ReplyBegun(k)', voice'[j].reply = voice'[k].reply
          PROVE  j = k
      BY <2>2, <2>3, <3>3 DEF ReplyInv, ReplyIntentIsHeld, ReplyBegun
    <3> QED
      BY <3>1, <3>2, <3>3 DEF ReplyIntentIsHeld
  <2>8. ReplyStartIsHeld'
    BY <1>1, <1>7, <1>8, <2>1, <2>2, <2>3 DEF ReplyInv, ReplyStartIsHeld
  <2>9. Reply!RepliedOnce'
    BY <1>1, <1>7, <1>8, <2>1, <2>2 DEF ReplyInv, Reply!RepliedOnce
  <2> QED
    BY <2>5, <2>6, <2>7, <2>8, <2>9 DEF ReplyInv
<1>10. CASE ~(lands /\ outcome = "PLAYBACK_INTENT")
  <2>1. voice' = [voice EXCEPT ![i] = Reply!Free]
    BY <1>3, <1>10
  <2>2. /\ ReplyShape' /\ voice'[i].at = "idle"
        /\ \A j \in Instances : voice'[j] = voice[j] \/ voice'[j].at = "idle"
    BY <1>1, <1>8, <2>1 DEF ReplyShape, VoiceShape, Reply!Free
  <2>3. /\ \/ e.delivery = replyRow[r].delivery
           \/ e.delivery \in {"UNKNOWN", "ESCALATED"}
           \/ e.delivery = "DELIVERED" /\ replyPlays[r] = 1
           \/ /\ e.delivery = "PENDING" /\ replyPlays[r] = 0
              /\ \A j \in Instances : ReplyBegun(j)' => voice'[j].reply # r
        /\ replyRow[r].delivery \in ReplySettled => e.delivery \in ReplySettled
    <3>1. replyRow[r].delivery = "CLAIMED"
             => replyPlays[r] = 0 /\ \A j \in Instances : ReplyBegun(j)' => voice'[j].reply # r
      BY <1>1, <2>2, OpenIsUnbegun DEF ReplyBegun
    <3>2. CASE ~lands
      BY <1>4, <1>7, <3>1, <3>2 DEF Passed
    <3>3. CASE lands /\ target = "UNKNOWN"
      BY <1>7, <3>3 DEF ReplySettled
    <3>4. CASE lands /\ target = "DELIVERED"
      <4>1. voice[i].at = "played"
        BY <1>6, <3>4
      <4> QED
        BY <1>7, <3>4, <4>1 DEF ReplyInv, ReplyStartIsHeld, ReplySettled
    <3>5. CASE lands /\ target = "PENDING"
      <4>1. \/ replyRow[r].delivery = "CLAIMED"
            \/ replyRow[r].delivery = "PLAYBACK_INTENT" /\ voice[i].at \in {"claimed", "intent"}
        BY <1>4, <1>6, <3>5 DEF Passed, ReplySettled
      <4>2. CASE replyRow[r].delivery = "CLAIMED"
        BY <1>7, <3>1, <3>5, <4>2 DEF ReplySettled
      <4>3. CASE replyRow[r].delivery = "PLAYBACK_INTENT"
        <5>1. voice[i].at = "intent"
          BY <1>5, <3>5, <4>1, <4>3 DEF ReplyInv, ReplyIntentIsHeld
        <5>2. replyPlays[r] = 0 /\ \A j \in Instances \ {i} : ReplyBegun(j) => voice[j].reply # r
          BY <5>1 DEF ReplyInv, ReplyStartIsHeld, ReplyIntentIsHeld, ReplyBegun
        <5>3. \A j \in Instances : ReplyBegun(j)' => voice'[j].reply # r
          BY <2>2, <5>2 DEF ReplyBegun
        <5> QED
          BY <1>7, <3>5, <4>3, <5>2, <5>3 DEF ReplySettled
      <4> QED
        BY <4>1, <4>2, <4>3
    <3> QED
      BY <1>6, <1>10, <3>2, <3>3, <3>4, <3>5
  <2>4. \A x \in Replies :
           /\ replyRow'[x].generation = replyRow[x].generation
           /\ \/ replyRow'[x].delivery = replyRow[x].delivery
              \/ replyRow'[x].delivery \in {"UNKNOWN", "ESCALATED"}
              \/ replyRow'[x].delivery = "DELIVERED" /\ replyPlays[x] = 1
              \/ /\ replyRow'[x].delivery = "PENDING" /\ replyPlays[x] = 0
                 /\ \A j \in Instances : ReplyBegun(j)' => voice'[j].reply # x
           /\ replyRow[x].delivery \in ReplySettled => replyRow'[x].delivery \in ReplySettled
    BY <1>7, <1>8, <2>3
  <2> QED
    BY <1>1, <2>2, <2>4, RowsGiveWay
<1> QED
  BY <1>9, <1>10

LEMMA ReplyPlayKeeps ==
    ASSUME ReplyInv, NEW i \in Instances, Reply!Play(i)
    PROVE  ReplyInv'
<1>1. CASE voice[i].at = "playing"
  <2>1. UNCHANGED <<replyRow, replyPlays>> /\ voice' = [voice EXCEPT ![i].at = "played"]
    BY <1>1 DEF Reply!Play
  <2>2. /\ voice'[i].at = "played" /\ voice'[i].reply = voice[i].reply
        /\ voice'[i].generation = voice[i].generation
        /\ \A j \in Instances \ {i} : voice'[j] = voice[j]
    BY <2>1 DEF ReplyInv, ReplyShape, VoiceShape
  <2>3. ReplyShape'
    BY <1>1, <2>1, <2>2 DEF ReplyInv, ReplyShape, VoiceShape
  <2>4. ReplyClaimsAreOne' /\ ReplyIntentIsHeld' /\ ReplyStartIsHeld' /\ Reply!RepliedOnce'
    BY <1>1, <2>1, <2>2 DEF ReplyInv, ReplyClaimsAreOne, ReplyIntentIsHeld, ReplyStartIsHeld, Reply!RepliedOnce, ReplyBegun
  <2> QED
    BY <2>3, <2>4 DEF ReplyInv
<1>2. CASE voice[i].at = "intent"
  <2> DEFINE r == voice[i].reply
  <2>1. /\ replyPlays' = [replyPlays EXCEPT ![r] = @ + 1] /\ UNCHANGED replyRow
        /\ voice' = [voice EXCEPT ![i].at = "playing"]
    BY <1>2 DEF Reply!Play
  <2>2. ReplyShape /\ r \in Replies /\ replyPlays[r] = 0
    BY <1>2 DEF ReplyInv, ReplyShape, VoiceShape, ReplyStartIsHeld
  <2>3. /\ voice'[i].at = "playing" /\ voice'[i].reply = r
        /\ voice'[i].generation = voice[i].generation
        /\ \A j \in Instances \ {i} : voice'[j] = voice[j]
    BY <2>1, <2>2 DEF ReplyShape, VoiceShape
  <2>4. replyPlays'[r] = 1 /\ \A x \in Replies \ {r} : replyPlays'[x] = replyPlays[x]
    BY <2>1, <2>2 DEF ReplyShape
  <2>5. ReplyShape'
    BY <1>2, <2>1, <2>2, <2>3 DEF ReplyShape, VoiceShape
  <2>6. replyRow[r].delivery \in ReplySettled \cup {"PLAYBACK_INTENT"} /\ replyRow[r].delivery # "DELIVERED"
    BY <1>2, <2>2 DEF ReplyInv, ReplyIntentIsHeld, ReplyBegun, Reply!RepliedOnce
  <2>7. ReplyClaimsAreOne' /\ ReplyIntentIsHeld'
    BY <1>2, <2>1, <2>3 DEF ReplyInv, ReplyClaimsAreOne, ReplyIntentIsHeld, ReplyBegun
  <2>8. ReplyStartIsHeld'
    <3>1. \A j \in Instances \ {i} : ReplyBegun(j) => voice[j].reply # r
      BY <1>2 DEF ReplyInv, ReplyIntentIsHeld, ReplyBegun
    <3>2. \A j \in Instances : voice[j].at # "idle" => voice[j].reply \in Replies
      BY <2>2 DEF ReplyShape, VoiceShape
    <3>3. \A x \in Replies : replyPlays'[x] # 0 => replyRow'[x].delivery \in ReplySettled \cup {"PLAYBACK_INTENT"}
      BY <2>1, <2>4, <2>6 DEF ReplyInv, ReplyStartIsHeld
    <3>4. \A j \in Instances :
             /\ voice'[j].at = "intent" => replyPlays'[voice'[j].reply] = 0
             /\ voice'[j].at \in {"playing", "played"} => replyPlays'[voice'[j].reply] = 1
      BY <2>3, <2>4, <3>1, <3>2 DEF ReplyInv, ReplyStartIsHeld, ReplyBegun
    <3> QED
      BY <3>3, <3>4 DEF ReplyStartIsHeld
  <2>9. Reply!RepliedOnce'
    BY <2>1, <2>4, <2>6 DEF ReplyInv, Reply!RepliedOnce
  <2> QED
    BY <2>5, <2>7, <2>8, <2>9 DEF ReplyInv
<1> QED
  BY <1>1, <1>2 DEF Reply!Play

LEMMA ReplyOthersKeep ==
    ASSUME ReplyInv,
           \/ \E i \in Instances : Reply!Leave(i)
           \/ \E r \in Replies : Reply!LeaseEnds(r) \/ Reply!FiveMinutes(r) \/ Reply!Reconciled(r)
    PROVE  ReplyInv'
<1>1. ReplyShape /\ UNCHANGED replyPlays
  BY DEF ReplyInv, Reply!Leave, Reply!LeaseEnds, Reply!FiveMinutes, Reply!Reconciled
<1>2. CASE \E i \in Instances : Reply!Leave(i)
  <2>1. PICK i \in Instances : voice' = [voice EXCEPT ![i] = Reply!Free] /\ UNCHANGED replyRow
    BY <1>2 DEF Reply!Leave
  <2>2. ReplyShape' /\ \A j \in Instances : voice'[j] = voice[j] \/ voice'[j].at = "idle"
    BY <1>1, <2>1 DEF ReplyShape, VoiceShape, Reply!Free
  <2> QED
    BY <1>1, <2>1, <2>2, RowsGiveWay
<1>3. CASE \E r \in Replies : Reply!LeaseEnds(r)
  <2>1. PICK r \in Replies : /\ replyRow' = [replyRow EXCEPT ![r] = [replyRow[r] EXCEPT !.leased = FALSE]]
                             /\ UNCHANGED voice
    BY <1>3 DEF Reply!LeaseEnds
  <2>2. /\ replyRow' \in [Replies -> ReplyEntry]
        /\ \A x \in Replies : /\ replyRow'[x].generation = replyRow[x].generation
                              /\ replyRow'[x].delivery = replyRow[x].delivery
    BY <1>1, <2>1 DEF ReplyShape, ReplyEntry
  <2>3. ReplyShape'
    BY <1>1, <2>1, <2>2 DEF ReplyShape, VoiceShape
  <2> QED
    BY <1>1, <2>1, <2>2, <2>3, RowsGiveWay
<1>4. CASE \E r \in Replies : Reply!FiveMinutes(r) \/ Reply!Reconciled(r)
  <2>1. UNCHANGED <<replyRow, voice>>
    BY <1>4 DEF Reply!FiveMinutes, Reply!Reconciled
  <2> QED
    BY <1>1, <2>1 DEF ReplyInv, ReplyShape, VoiceShape, ReplyClaimsAreOne, ReplyIntentIsHeld, ReplyStartIsHeld,
                      Reply!RepliedOnce, ReplyBegun
<1> QED
  BY <1>2, <1>3, <1>4

-----------------------------------------------------------------------------
(* The types of the announcement and of the replies, bounds included *)

(* A phrase that is held names its holder and counts its claim, and no     *)
(* claim is above the bound.                                               *)
Held(state) == state \in {"CLAIMED", "PLAYBACK_INTENT"}

SpeechIsNamed ==
    /\ \A p \in Alert!Phases :
          /\ ledger[p].generation <= AlertClaims
          /\ Held(ledger[p].state) => ledger[p].client # None /\ ledger[p].generation > 0
    /\ \A s \in Speakers : speaker[s].generation <= AlertClaims
    /\ old \in BOOLEAN /\ cancelled \in BOOLEAN

(* What stands or is freed stays named. *)
LEMMA SpeechStaysNamed ==
    ASSUME SpeechIsNamed,
           \A p \in Alert!Phases :
              /\ ledger'[p].generation = ledger[p].generation
              /\ ledger'[p].client = ledger[p].client
              /\ Held(ledger'[p].state) => Held(ledger[p].state),
           \A s \in Speakers : speaker'[s].generation \in {0, speaker[s].generation},
           old' \in BOOLEAN, cancelled' \in BOOLEAN
    PROVE  SpeechIsNamed'
<1>1. AlertClaims \in Nat
  BY ObligationsAssumption
<1> QED
  BY <1>1 DEF SpeechIsNamed, Held

(* What a new state, and a phrase that is dropped or waits, leave of the    *)
(* names.                                                                  *)
NamesStand(q) ==
    /\ ledger'[q].generation = ledger[q].generation
    /\ ledger'[q].client = ledger[q].client
    /\ Held(ledger'[q].state) => Held(ledger[q].state)

LEMMA NamesAfterSet ==
    ASSUME SpeechShape, NEW p \in Alert!Phases, NEW x, Held(x) => Held(ledger[p].state),
           \/ ledger' = Alert!Set(p, x)
           \/ ledger' = [ledger EXCEPT ![p].state = x, ![p].waits = TRUE]
    PROVE  \A q \in Alert!Phases : NamesStand(q)
<1>1. CASE ledger' = Alert!Set(p, x)
  <2>1. ledger' = [ledger EXCEPT ![p] = [ledger[p] EXCEPT !.state = x]]
    BY <1>1 DEF Alert!Set
  <2>2. ledger[p] \in SpeechEntry /\ ledger \in [Alert!Phases -> SpeechEntry]
    BY DEF SpeechShape
  <2> QED
    BY <2>1, <2>2 DEF NamesStand, SpeechEntry
<1>2. CASE ledger' = [ledger EXCEPT ![p].state = x, ![p].waits = TRUE]
  <2>1. ledger' = [ledger EXCEPT ![p] = [ledger[p] EXCEPT !.state = x, !.waits = TRUE]]
    BY <1>2 DEF SpeechShape
  <2>2. ledger[p] \in SpeechEntry /\ ledger \in [Alert!Phases -> SpeechEntry]
    BY DEF SpeechShape
  <2> QED
    BY <2>1, <2>2 DEF NamesStand, SpeechEntry
<1> QED
  BY <1>1, <1>2

LEMMA NamesAfterDrop ==
    ASSUME SpeechShape, NEW p \in Alert!Phases, NEW x, ~Held(x), ledger' = Alert!SetAndDrop(p, x)
    PROVE  \A q \in Alert!Phases : NamesStand(q)
<1>1. ledger \in [Alert!Phases -> SpeechEntry]
  BY DEF SpeechShape
<1>2. ASSUME NEW q \in Alert!Phases PROVE NamesStand(q)
  <2>1. /\ ledger[q] \in SpeechEntry
        /\ \/ ledger'[q] = [ledger[q] EXCEPT !.state = "ESCALATED"]
           \/ ledger'[q] = [ledger[q] EXCEPT !.state = x]
           \/ ledger'[q] = ledger[q]
    BY <1>1 DEF Alert!SetAndDrop
  <2> QED
    BY <2>1 DEF NamesStand, SpeechEntry, Held
<1> QED
  BY <1>2

LEMMA PollKeepsNames ==
    ASSUME SpeechShape, SpeechIsNamed, NEW s \in Speakers, Alert!Poll(s)
    PROVE  SpeechIsNamed'
<1> DEFINE p == Alert!Active
<1>1. p \in Alert!Phases /\ UNCHANGED <<old, cancelled>>
  BY ActiveIsPhase DEF Alert!Poll
<1>2. CASE Alert!Claim(s, p)
  <2> DEFINE n == ledger[p].generation
  <2>1. /\ n \in Nat /\ n + 1 <= AlertClaims /\ AlertClaims \in Nat /\ s # None
    BY <1>1, <1>2, ObligationsAssumption DEF Alert!Claim, SpeechShape, SpeechEntry
  <2>2. /\ \A q \in Alert!Phases : q # p => ledger'[q] = ledger[q]
        /\ ledger'[p].generation = n + 1 /\ ledger'[p].client = s
        /\ \A t \in Speakers : t # s => speaker'[t] = speaker[t]
        /\ speaker'[s].generation = n + 1
    BY <1>1, <1>2 DEF Alert!Claim, SpeechShape, SpeechEntry
  <2> QED
    BY <1>1, <2>1, <2>2 DEF SpeechIsNamed, Held
<1>3. CASE UNCHANGED speaker
  <2>1. \A q \in Alert!Phases : NamesStand(q)
    <3>1. CASE Alert!LoseReceipt(p) \/ Alert!ExpireObligation(p)
      BY <1>1, <3>1, NamesAfterDrop DEF Alert!LoseReceipt, Alert!ExpireObligation, Held
    <3>2. CASE Alert!EscalateCancelled(p) \/ Alert!WithholdSpeech(p)
      <4>1. \/ \E x \in {"ESCALATED", "CANCELLED"} : ledger' = Alert!Set(p, x)
            \/ ledger' = [ledger EXCEPT ![p].state = "PENDING", ![p].waits = TRUE]
        BY <3>2 DEF Alert!EscalateCancelled, Alert!WithholdSpeech
      <4>2. ~Held("ESCALATED") /\ ~Held("CANCELLED") /\ ~Held("PENDING")
        BY DEF Held
      <4> HIDE DEF p
      <4> QED
        BY <1>1, <4>1, <4>2, NamesAfterSet
    <3>3. CASE Alert!Claim(s, p)
      <4>1. speaker'[s] # speaker[s]
        BY <3>3 DEF Alert!Claim, Alert!Poll, SpeechShape
      <4> QED
        BY <1>3, <4>1
    <3> QED
      BY <3>1, <3>2, <3>3 DEF Alert!Poll
  <2> QED
    BY <1>1, <1>3, <2>1, SpeechStaysNamed DEF SpeechIsNamed, NamesStand
<1> QED
  BY <1>2, <1>3 DEF Alert!Poll

LEMMA SpeakersKeepNames ==
    ASSUME SpeechShape, SpeechIsNamed, NEW s \in Speakers,
           \/ Alert!PlaybackIntent(s) \/ Alert!Unstarted(s) \/ Alert!ContentUnavailable(s)
           \/ Alert!Report(s) \/ Alert!Play(s) \/ Alert!Leave(s)
    PROVE  SpeechIsNamed'
<1> DEFINE p == speaker[s].phase
<1>1. p \in Alert!Phases /\ "FOLLOWUP" \in Alert!Phases
  BY DEF SpeechShape, Alert!Phases
<1>2. UNCHANGED <<old, cancelled>>
  BY DEF Alert!PlaybackIntent, Alert!Unstarted, Alert!ContentUnavailable, Alert!Report, Alert!Play,
     Alert!Leave
<1>3. \A t \in Speakers : speaker'[t].generation \in {0, speaker[t].generation}
  BY DEF Alert!PlaybackIntent, Alert!Unstarted, Alert!ContentUnavailable, Alert!Report, Alert!Play,
     Alert!Leave, Alert!Released, Alert!Free, SpeechShape
<1>4. \A q \in Alert!Phases : NamesStand(q)
  <2>1. CASE Alert!PlaybackIntent(s) \/ Alert!ContentUnavailable(s)
    BY <1>1, <2>1, NamesAfterSet DEF Alert!PlaybackIntent, Alert!ContentUnavailable, Held
  <2>2. CASE Alert!Unstarted(s) \/ Alert!Report(s)
    BY <1>1, <2>2, NamesAfterSet, NamesAfterDrop DEF Alert!Unstarted, Alert!Report, Held
  <2>3. CASE Alert!Play(s) \/ Alert!Leave(s)
    BY <2>3 DEF Alert!Play, Alert!Leave, NamesStand
  <2> QED
    BY <2>1, <2>2, <2>3
<1> QED
  BY <1>2, <1>3, <1>4, SpeechStaysNamed DEF SpeechIsNamed, NamesStand

LEMMA TimeKeepsNames ==
    ASSUME SpeechShape, SpeechIsNamed,
           \/ Alert!QueueFollowup \/ Alert!ReadyFollowup
           \/ \E p \in Alert!Phases : Alert!LeaseEnds(p) \/ Alert!RetryDue(p)
           \/ Alert!TenMinutes \/ Alert!CancelRequest
    PROVE  SpeechIsNamed'
<1>1. UNCHANGED speaker /\ old' \in BOOLEAN /\ cancelled' \in BOOLEAN
  BY DEF Alert!QueueFollowup, Alert!ReadyFollowup, Alert!LeaseEnds, Alert!RetryDue, Alert!TenMinutes,
     Alert!CancelRequest, SpeechIsNamed
<1>2. "FOLLOWUP" \in Alert!Phases
  BY DEF Alert!Phases
<1>3. \A q \in Alert!Phases : NamesStand(q)
  <2>1. CASE Alert!QueueFollowup \/ Alert!ReadyFollowup
    BY <1>2, <2>1 DEF Alert!QueueFollowup, Alert!ReadyFollowup, Alert!Set, SpeechShape, SpeechEntry,
       NamesStand, Held
  <2>2. CASE \E p \in Alert!Phases : Alert!LeaseEnds(p) \/ Alert!RetryDue(p)
    BY <2>2 DEF Alert!LeaseEnds, Alert!RetryDue, SpeechShape, SpeechEntry, NamesStand
  <2>3. CASE Alert!TenMinutes \/ Alert!CancelRequest
    BY <2>3 DEF Alert!TenMinutes, Alert!CancelRequest, NamesStand
  <2> QED
    BY <2>1, <2>2, <2>3
<1> QED
  BY <1>1, <1>3, SpeechStaysNamed DEF NamesStand

LEMMA SpeechStep == SpeechInv /\ SpeechIsNamed /\ [Alert!Next]_alertVars => SpeechInv' /\ SpeechIsNamed'
<1> SUFFICES ASSUME SpeechInv, SpeechIsNamed, [Alert!Next]_alertVars
             PROVE  SpeechInv' /\ SpeechIsNamed'
  OBVIOUS
<1>1. CASE UNCHANGED alertVars
  BY <1>1 DEF alertVars, SpeechInv, SpeechShape, SpeechClaimsAreOne, SpeechIntentIsHeld,
     SpeechStartIsHeld, Alert!SpokenOnce, SpeechBegun, SpeechIsNamed
<1>2. CASE Alert!Next
  <2>1. SpeechShape
    BY DEF SpeechInv
  <2>2. SpeechInv'
    BY <1>2, PollKeeps, IntentKeeps, SpeechReceiptKeeps, SpeechPlayKeeps, SpeechOthersKeep
       DEF Alert!Next
  <2>3. SpeechIsNamed'
    BY <1>2, <2>1, PollKeepsNames, SpeakersKeepNames, TimeKeepsNames DEF Alert!Next
  <2> QED
    BY <2>2, <2>3
<1> QED
  BY <1>1, <1>2

LEMMA SpeechStart == Alert!Init => SpeechInv /\ SpeechIsNamed
<1> SUFFICES ASSUME Alert!Init PROVE SpeechInv /\ SpeechIsNamed
  OBVIOUS
<1>1. SpeechInv
  BY DEF Alert!Init, SpeechInv, SpeechShape, SpeechClaimsAreOne, SpeechIntentIsHeld,
     SpeechStartIsHeld, Alert!SpokenOnce, SpeechBegun, Alert!Free, Alert!Phases, Alert!States,
     SpeechEntry
<1>2. SpeechIsNamed
  <2>1. AlertClaims \in Nat /\ AlertClaims > 0
    BY ObligationsAssumption
  <2>2. \A p \in Alert!Phases : ledger[p].generation = 0 /\ ~Held(ledger[p].state)
    BY DEF Alert!Init, Held
  <2> QED
    <3>1. \A s \in Speakers : speaker[s].generation = 0
      BY DEF Alert!Init, Alert!Free
    <3>2. old \in BOOLEAN /\ cancelled \in BOOLEAN
      BY DEF Alert!Init
    <3> QED
      BY <2>1, <2>2, <3>1, <3>2 DEF SpeechIsNamed
<1> QED
  BY <1>1, <1>2

LEMMA SpeechIsTyped == SpeechInv /\ SpeechIsNamed => Alert!TypeOK
<1> SUFFICES ASSUME SpeechInv, SpeechIsNamed PROVE Alert!TypeOK
  OBVIOUS
<1>1. AlertClaims \in Nat /\ AlertClaims >= 1
  BY ObligationsAssumption
<1>2. ledger \in [Alert!Phases -> [state : Alert!States, generation : 0..AlertClaims,
                                   client : Speakers \cup {None}, leased : BOOLEAN,
                                   waits : BOOLEAN, ready : BOOLEAN]]
  BY <1>1 DEF SpeechInv, SpeechShape, SpeechEntry, SpeechIsNamed
<1>3. speaker \in [Speakers -> [at : {"idle", "claimed", "intent", "playing", "played"},
                                phase : Alert!Phases, generation : 0..AlertClaims]]
  BY <1>1 DEF SpeechInv, SpeechShape, SpeechIsNamed
<1>4. plays \in [Alert!Phases -> 0..AlertClaims]
  BY <1>1 DEF SpeechInv, SpeechShape, Alert!SpokenOnce
<1> QED
  BY <1>2, <1>3, <1>4 DEF Alert!TypeOK, SpeechIsNamed, Held

(* The same of the replies. *)
ReplyIsNamed ==
    /\ \A r \in Replies :
          /\ replyRow[r].generation <= ReplyClaims
          /\ Held(replyRow[r].delivery) => replyRow[r].instance # None /\ replyRow[r].generation > 0
    /\ \A i \in Instances : voice[i].generation <= ReplyClaims
    /\ changed \subseteq Replies /\ stale \subseteq Replies

(* An entry that keeps the claim of the row, held only if the row was. *)
ClaimStands(r, x) ==
    /\ x.generation = replyRow[r].generation
    /\ x.instance = replyRow[r].instance
    /\ Held(x.delivery) => Held(replyRow[r].delivery)

LEMMA ReplyStaysNamed ==
    ASSUME ReplyIsNamed,
           \A r \in Replies : ClaimStands(r, replyRow'[r]),
           \A i \in Instances : voice'[i].generation \in {0, voice[i].generation},
           changed' \subseteq Replies, stale' \subseteq Replies
    PROVE  ReplyIsNamed'
<1>1. ReplyClaims \in Nat
  BY ObligationsAssumption
<1> QED
  BY <1>1 DEF ReplyIsNamed, ClaimStands, Held

LEMMA CheckedStands ==
    ASSUME ReplyShape, NEW r \in Replies
    PROVE  /\ ClaimStands(r, Reply!Checked(r))
           /\ ClaimStands(r, Reply!PassedOver(r))
<1>1. replyRow[r] \in ReplyEntry
  BY DEF ReplyShape
<1>2. Reply!Checked(r) \in ReplyEntry /\ ClaimStands(r, Reply!Checked(r))
  BY <1>1 DEF ReplyEntry, Reply!States, Reply!Checked, ClaimStands, Held
<1>3. LET e == [Reply!Checked(r) EXCEPT !.delivery = "ESCALATED"] IN ClaimStands(r, e)
  BY <1>2 DEF ReplyEntry, ClaimStands, Held
<1>4. ClaimStands(r, replyRow[r])
  BY DEF ClaimStands
<1> QED
  BY <1>2, <1>3, <1>4 DEF Reply!PassedOver

LEMMA NextReplyKeepsNames ==
    ASSUME ReplyShape, ReplyIsNamed, NEW i \in Instances, Reply!NextReply(i)
    PROVE  ReplyIsNamed'
<1>1. UNCHANGED <<changed, stale>>
  BY DEF Reply!NextReply
<1>2. \A r \in Replies : ClaimStands(r, replyRow[r])
  BY DEF ClaimStands
<1>3. CASE \E r \in Replies : Reply!Claim(i, r)
  <2>1. PICK r \in Replies : Reply!Claim(i, r)
    BY <1>3
  <2> DEFINE n == replyRow[r].generation
  <2>2. n \in Nat /\ n + 1 <= ReplyClaims /\ ReplyClaims \in Nat /\ i # None
    BY <2>1, ObligationsAssumption DEF Reply!Claim, ReplyShape, ReplyEntry
  <2>3. /\ replyRow'[r].generation = n + 1 /\ replyRow'[r].instance = i
        /\ \A x \in Replies : x # r => ClaimStands(x, replyRow'[x])
    <3>1. replyRow'[r] = [replyRow[r] EXCEPT !.delivery = "CLAIMED", !.generation = n + 1,
                                             !.instance = i, !.leased = TRUE]
      BY <2>1 DEF Reply!Claim
    <3>2. replyRow[r] \in ReplyEntry
      BY DEF ReplyShape
    <3> QED
      BY <1>2, <2>1, <3>1, <3>2, CheckedStands DEF Reply!Claim, ReplyEntry
  <2>4. /\ voice'[i].generation = n + 1
        /\ \A j \in Instances : j # i => voice'[j] = voice[j]
    BY <2>1 DEF Reply!Claim, ReplyShape, VoiceShape
  <2> QED
    BY <1>1, <2>2, <2>3, <2>4 DEF ReplyIsNamed, ClaimStands, Held
<1>4. CASE UNCHANGED voice /\ \A r \in Replies : ClaimStands(r, replyRow'[r])
  BY <1>1, <1>4, ReplyStaysNamed DEF ReplyIsNamed
<1>5. ASSUME NEW r \in Replies, Reply!Withhold(r)
      PROVE  UNCHANGED voice /\ \A x \in Replies : ClaimStands(x, replyRow'[x])
  BY <1>2, <1>5, CheckedStands DEF Reply!Withhold
<1>6. ASSUME replyRow' = [r \in Replies |-> Reply!PassedOver(r)]
      PROVE  \A x \in Replies : ClaimStands(x, replyRow'[x])
  BY <1>6, CheckedStands
<1> QED
  BY <1>3, <1>4, <1>5, <1>6 DEF Reply!NextReply

LEMMA ReceiptKeepsNames ==
    ASSUME ReplyShape, ReplyIsNamed, NEW i \in Instances, NEW outcome, Reply!Receipt(i, outcome)
    PROVE  ReplyIsNamed'
<1> DEFINE r == voice[i].reply
           target == IF Reply!Mine(i) THEN Reply!Target(i, Reply!Checked(r).delivery, outcome) ELSE None
           lands == r \notin changed /\ target # None
           e == IF lands THEN [Reply!Checked(r) EXCEPT !.delivery = target] ELSE Reply!Checked(r)
<1>1. r \in Replies /\ Reply!Checked(r) \in ReplyEntry /\ ClaimStands(r, Reply!Checked(r))
  BY CheckedFacts, CheckedStands DEF Reply!Receipt, ReplyShape, VoiceShape
<1>2. /\ replyRow' = [replyRow EXCEPT ![r] = e] /\ UNCHANGED <<changed, stale>>
  BY DEF Reply!Receipt
<1>3. ClaimStands(r, e)
  <2>1. CASE lands
    <3>1. Held(target) => Held(Reply!Checked(r).delivery)
      BY <2>1 DEF Reply!Target, Held
    <3>2. /\ e.generation = Reply!Checked(r).generation /\ e.instance = Reply!Checked(r).instance
          /\ e.delivery = target
      BY <1>1, <2>1 DEF ReplyEntry
    <3> QED
      BY <1>1, <3>1, <3>2 DEF ClaimStands
  <2>2. CASE ~lands
    BY <1>1, <2>2
  <2> QED
    BY <2>1, <2>2
<1>4. \A x \in Replies : ClaimStands(x, replyRow'[x])
  <2> HIDE DEF e
  <2> QED
    BY <1>1, <1>2, <1>3 DEF ReplyShape, ClaimStands
<1>5. \A j \in Instances : voice'[j].generation \in {0, voice[j].generation}
  <2>1. \/ voice' = [voice EXCEPT ![i] = [voice[i] EXCEPT !.at = "intent"]]
        \/ voice' = [voice EXCEPT ![i] = Reply!Free]
    BY DEF Reply!Receipt
  <2> QED
    BY <2>1 DEF ReplyShape, VoiceShape, Reply!Free
<1> QED
  BY <1>2, <1>4, <1>5, ReplyStaysNamed DEF ReplyIsNamed

LEMMA SurroundingsKeepNames ==
    ASSUME ReplyShape, ReplyIsNamed,
           \/ \E i \in Instances : Reply!Play(i) \/ Reply!Leave(i)
           \/ \E r \in Replies : Reply!LeaseEnds(r) \/ Reply!FiveMinutes(r) \/ Reply!Reconciled(r)
    PROVE  ReplyIsNamed'
<1>1. changed' \subseteq Replies /\ stale' \subseteq Replies
  BY DEF Reply!Play, Reply!Leave, Reply!LeaseEnds, Reply!FiveMinutes, Reply!Reconciled, ReplyIsNamed
<1>2. \A r \in Replies : ClaimStands(r, replyRow'[r])
  BY DEF Reply!Play, Reply!Leave, Reply!LeaseEnds, Reply!FiveMinutes, Reply!Reconciled, ClaimStands,
     ReplyShape, ReplyEntry
<1>3. \A i \in Instances : voice'[i].generation \in {0, voice[i].generation}
  BY DEF Reply!Play, Reply!Leave, Reply!LeaseEnds, Reply!FiveMinutes, Reply!Reconciled, Reply!Free,
     ReplyShape, VoiceShape
<1> QED
  BY <1>1, <1>2, <1>3, ReplyStaysNamed

LEMMA ReplyStep == ReplyInv /\ ReplyIsNamed /\ [Reply!Next]_replyVars => ReplyInv' /\ ReplyIsNamed'
<1> SUFFICES ASSUME ReplyInv, ReplyIsNamed, [Reply!Next]_replyVars
             PROVE  ReplyInv' /\ ReplyIsNamed'
  OBVIOUS
<1>1. CASE UNCHANGED replyVars
  BY <1>1 DEF replyVars, ReplyInv, ReplyShape, VoiceShape, ReplyClaimsAreOne, ReplyIntentIsHeld,
     ReplyStartIsHeld, Reply!RepliedOnce, ReplyBegun, ReplyIsNamed
<1>2. CASE Reply!Next
  <2>1. ReplyShape
    BY DEF ReplyInv
  <2>2. ReplyInv'
    BY <1>2, NextReplyKeeps, ReplyReceiptKeeps, ReplyPlayKeeps, ReplyOthersKeep DEF Reply!Next
  <2>3. ReplyIsNamed'
    BY <1>2, <2>1, NextReplyKeepsNames, ReceiptKeepsNames, SurroundingsKeepNames DEF Reply!Next
  <2> QED
    BY <2>2, <2>3
<1> QED
  BY <1>1, <1>2

LEMMA ReplyStart == Reply!Init => ReplyInv /\ ReplyIsNamed
<1> SUFFICES ASSUME Reply!Init PROVE ReplyInv /\ ReplyIsNamed
  OBVIOUS
<1>1. ReplyInv
  BY DEF Reply!Init, ReplyInv, ReplyShape, VoiceShape, ReplyClaimsAreOne, ReplyIntentIsHeld,
     ReplyStartIsHeld, Reply!RepliedOnce, ReplyBegun, Reply!Free, Reply!States, ReplyEntry
<1>2. ReplyIsNamed
  <2>1. ReplyClaims \in Nat /\ ReplyClaims > 0
    BY ObligationsAssumption
  <2>2. \A r \in Replies : replyRow[r].generation = 0 /\ ~Held(replyRow[r].delivery)
    BY DEF Reply!Init, Held
  <2>3. \A i \in Instances : voice[i].generation = 0
    BY DEF Reply!Init, Reply!Free
  <2> QED
    BY <2>1, <2>2, <2>3 DEF Reply!Init, ReplyIsNamed
<1> QED
  BY <1>1, <1>2

LEMMA ReplyIsTyped == ReplyInv /\ ReplyIsNamed => Reply!TypeOK
<1> SUFFICES ASSUME ReplyInv, ReplyIsNamed PROVE Reply!TypeOK
  OBVIOUS
<1>1. ReplyClaims \in Nat /\ ReplyClaims >= 1
  BY ObligationsAssumption
<1>2. replyRow \in [Replies -> [delivery : Reply!States, generation : 0..ReplyClaims,
                                instance : Instances \cup {None}, leased : BOOLEAN]]
  BY <1>1 DEF ReplyInv, ReplyShape, ReplyEntry, ReplyIsNamed
<1>3. voice \in [Instances -> [at : {"idle", "claimed", "intent", "playing", "played"},
                               reply : Replies \cup {None}, generation : 0..ReplyClaims]]
  BY <1>1 DEF ReplyInv, ReplyShape, VoiceShape, ReplyIsNamed
<1>4. replyPlays \in [Replies -> 0..ReplyClaims]
  BY <1>1 DEF ReplyInv, ReplyShape, Reply!RepliedOnce
<1> QED
  BY <1>2, <1>3, <1>4 DEF Reply!TypeOK, ReplyIsNamed, Held

-----------------------------------------------------------------------------
(* A step of the whole is a step of one part and leaves the others alone.  *)

LEMMA EachPartSteps ==
    [Next]_vars => /\ [Handoff!Next]_handoffVars
                   /\ [Alert!Next]_alertVars
                   /\ [Reply!Next]_replyVars
                   /\ [Approval!Next]_approvalVars
                   /\ [Memory!Next]_memoryVars
                   /\ [Vault!Next]_vaultVars
                   /\ [Setting!Next]_settingVars
BY DEF Next, vars

(* An event that the watcher's cursor has passed has its request, the      *)
(* record that it came too late, or a trigger whose context failed:        *)
(* whatever aborts, duplicates, deaths and refusals come between, and also *)
(* where events commit in another order than their positions, as long as   *)
(* each commits ahead of the watcher's reading.  An event that commits     *)
(* where the watcher has read already is read by nobody again, in the code *)
(* as in the model, and is the one exception.                              *)
THEOREM PassedEventsAreAccounted == Spec => []PassedIsAccounted
<1>1. Init => HandoffInv
  BY HandoffStart DEF Init
<1>2. HandoffInv /\ [Next]_vars => HandoffInv'
  BY HandoffStep, EachPartSteps
<1>3. HandoffInv => PassedIsAccounted
  BY DEF HandoffInv, DispatchIsReal, PassedSoFar, Between, PassedIsAccounted,
     Handoff!PassedIsAccounted, Handoff!Accounted
<1> QED
  BY <1>1, <1>2, <1>3, PTL DEF Spec

(* An announcement, its follow-up and a reply are each started at most     *)
(* once, for any number of speakers, instances and claims; the follow-up   *)
(* only after the announcement was delivered, and a reply is recorded as   *)
(* delivered only if it was started (PostgresRequiredDelivery,             *)
(* ApprovalResults.delivery).                                              *)
THEOREM EachIsSaidOnce == Spec => []SaidOnce
<1> DEFINE Inv == SpeechInv /\ SpeechIsNamed /\ ReplyInv /\ ReplyIsNamed
<1>1. Init => Inv
  BY SpeechStart, ReplyStart DEF Init
<1>2. Inv /\ [Next]_vars => Inv'
  BY SpeechStep, ReplyStep, EachPartSteps
<1>3. Inv => SaidOnce
  BY DEF SpeechInv, ReplyInv, SaidOnce
<1> QED
  BY <1>1, <1>2, <1>3, PTL DEF Spec

(* An action that a person approved is dispatched at most once, and one    *)
(* they rejected never, for any number of resumers, crashes and expiries   *)
(* (the continuation's fence and the approval's record).                   *)
THEOREM ApprovedActionOnce == Spec => []ApprovedOnce
<1>1. Init => ApprovalInv
  BY ApprovalStart DEF Init
<1>2. ApprovalInv /\ [Next]_vars => ApprovalInv'
  BY ApprovalStep, EachPartSteps
<1> QED
  BY <1>1, <1>2, ApprovalHolds, PTL DEF Spec

(* The model's loop is resumed only over a recorded result, and within the *)
(* first lease by one thread.                                              *)
THEOREM LoopResumedOnce == Spec => []ResumedOnce
<1>1. Init => ApprovalInv
  BY ApprovalStart DEF Init
<1>2. ApprovalInv /\ [Next]_vars => ApprovalInv'
  BY ApprovalStep, EachPartSteps
<1> QED
  BY <1>1, <1>2, ApprovalHolds, PTL DEF Spec

(* Two owners of one record lose no update: a memory has at most one       *)
(* successor and the index holds the active ones, a request replaces the   *)
(* one note its sender saw, a save the one version its client saw; for any *)
(* number of sessions, threads, requests, clients and records.  A file     *)
(* edited by hand is replaced by no call that reads it after the edit; an  *)
(* edit made behind a call that has read the file is outside the vault's   *)
(* lock, and is what the theorem does not promise (knowledge.py _write).   *)
THEOREM NoUpdateIsLost == Spec => []NoLostUpdate
<1> DEFINE Inv == MemoryInv /\ VaultInv /\ SettingInv
<1>1. Init => Inv
  BY MemoryStart, VaultStart, SettingStart DEF Init
<1>2. Inv /\ [Next]_vars => Inv'
  BY MemoryStep, VaultStep, SettingStep, EachPartSteps
<1>3. Inv => NoLostUpdate
  BY MemoryHolds, VaultHolds, SettingHolds DEF NoLostUpdate
<1> QED
  BY <1>1, <1>2, <1>3, PTL DEF Spec

(* Every part is typed, bounds included: a phrase that is held names its   *)
(* holder and counts its claim.                                            *)
THEOREM ObligationsAreTyped == Spec => []TypeOK
<1> DEFINE Inv == /\ HandoffInv /\ SpeechInv /\ SpeechIsNamed /\ ReplyInv /\ ReplyIsNamed
                  /\ ApprovalInv /\ MemoryInv /\ VaultInv /\ SettingInv
<1>1. Init => Inv
  BY HandoffStart, SpeechStart, ReplyStart, ApprovalStart, MemoryStart, VaultStart, SettingStart
  DEF Init
<1>2. Inv /\ [Next]_vars => Inv'
  BY HandoffStep, SpeechStep, ReplyStep, ApprovalStep, MemoryStep, VaultStep, SettingStep,
     EachPartSteps
<1>3. Inv => TypeOK
  BY SpeechIsTyped, ReplyIsTyped, ApprovalHolds, MemoryHolds, VaultHolds, SettingHolds
  DEF HandoffInv, TypeOK
<1> QED
  BY <1>1, <1>2, <1>3, PTL DEF Spec
=============================================================================
