------------------------- MODULE ActionExecutionProofs -------------------------
(* Theorems about ActionExecution, for every set of threads, requests,       *)
(* scopes and devices.                                                       *)
EXTENDS ActionExecution, TLAPS

-----------------------------------------------------------------------------
(* Types.                                                                  *)

\* Expected effects name devices and give them readings.
LEMMA EffectsAreReadings ==
    ASSUME NEW a \in Actions
    PROVE  /\ DOMAIN WantOf[a] \subseteq Devices
           /\ \A d \in DOMAIN WantOf[a] : WantOf[a][d] \in Readings
<1>1. WantOf[a] \in Effects
  BY ActionsAssumption
<1>2. PICK D \in SUBSET Devices : WantOf[a] \in [D -> Readings]
  BY <1>1 DEF Effects
<1> QED
  BY <1>2

\* The device state stays well typed whatever a connector applied.
LEMMA AppliedType ==
    ASSUME NEW a \in Actions, NEW reached \in SUBSET DOMAIN WantOf[a],
           device \in [Devices -> Readings]
    PROVE  Applied(a, reached) \in [Devices -> Readings]
BY EffectsAreReadings DEF Applied

\* A verdict is one of four statuses, all of which admit a dispatch.
LEMMA VerdictStatus ==
    \A a, snapshot : Verdict(a, snapshot)
        \in {"SUCCEEDED", "PARTIAL", "VERIFICATION_FAILED", "UNKNOWN_RESULT"}
BY DEF Verdict

\* The bookkeeping operators keep the thread variables well typed.
LEMMA LeaveTypes ==
    ASSUME ThreadTypes, NEW w \in Workers, Leave(w)
    PROVE  ThreadTypes'
BY DEF ThreadTypes, Leave, Phases, Statuses, ApprovalStatuses

\* A change of phase keeps the threads well typed.
LEMMA GotoTypes ==
    ASSUME ThreadTypes, NEW w \in Workers, NEW phase \in Phases, Goto(w, phase),
           UNCHANGED <<act, conf, idx, next, resolution>>
    PROVE  ThreadTypes'
BY DEF ThreadTypes, Goto

\* So does heading for a terminal write.
LEMMA ConcludeTypes ==
    ASSUME ThreadTypes, NEW w \in Workers, NEW st \in Statuses, Conclude(w, st),
           UNCHANGED <<act, conf, idx, resolution>>
    PROVE  ThreadTypes'
BY DEF ThreadTypes, Conclude, Goto, Phases

\* A release leaves every scope with a thread or with nobody.
LEMMA FreedType ==
    ASSUME WorldTypes, NEW w \in Workers
    PROVE  Freed(w) \in [Scopes -> Workers \cup {NoWorker}]
BY DEF WorldTypes, Freed

\* A thread that is busy works on an action.
LEMMA BusyActs ==
    ASSUME ThreadTypes, ThreadInv, NEW w \in Workers, pc[w] # "idle"
    PROVE  act[w] \in Actions
BY DEF ThreadTypes, ThreadInv

\* The action of an idle thread is none of the requests.
LEMMA NoActionIsNone == NoAction \notin Actions
BY ActionsAssumption

\* The initial values are well typed.
LEMMA TypeInit == Init => TypeOK
BY ActionsAssumption
   DEF Init, TypeOK, ThreadTypes, TableTypes, WorldTypes, Phases, Statuses,
       ApprovalStatuses, NotObserved

\* The invariant across one step of Submit.
LEMMA SubmitKeepsOnce ==
    ASSUME OnceInv, NEW w \in Workers, NEW a \in Actions, Submit(w, a)
    PROVE  OnceInv'
<1> USE DEF OnceInv, TypeOK
<1>1. ThreadTypes'
  BY DEF Submit, Goto, ThreadTypes, Phases
<1>2. TableTypes'
  BY DEF Submit, TableTypes, tableVars
<1>3. WorldTypes'
  BY DEF Submit, WorldTypes, homeVars, historyVars
<1>4. ThreadInv'
  BY NoActionIsNone DEF Submit, Goto, ThreadInv, ThreadTypes, TableTypes,
     tableVars, historyVars
<1>5. RowInv'
  BY NoActionIsNone DEF Submit, Goto, RowInv, ThreadTypes, TableTypes,
     tableVars, historyVars
<1>6. CallerInv'
  BY DEF Submit, Goto, CallerInv, ThreadTypes, TableTypes, tableVars,
     historyVars, Caller, Decider
<1>7. DeciderInv'
  <2>1. ~Decider(w)'
    BY DEF Decider, Submit, Goto, ThreadInv, ThreadTypes
  <2>2. \A v \in Workers \ {w} :
         pc'[v] = pc[v] /\ act'[v] = act[v] /\ conf'[v] = conf[v]
    BY DEF Submit, Goto, ThreadTypes
  <2> QED
    BY <2>1, <2>2 DEF DeciderInv, Decider, Submit, tableVars
<1>8. DispatchInv'
  <2>1. ~Decider(w)' /\ act'[w] = a
    BY DEF Decider, Submit, Goto, ThreadInv, ThreadTypes
  <2>2. \A v \in Workers \ {w} :
         pc'[v] = pc[v] /\ act'[v] = act[v] /\ conf'[v] = conf[v]
    BY DEF Submit, Goto, ThreadTypes
  <2>3. UNCHANGED <<calls, approval>> /\ submitted \subseteq submitted'
         /\ a \notin submitted
    BY DEF Submit, tableVars, historyVars
  <2> QED
    BY <2>1, <2>2, <2>3 DEF DispatchInv, Decider
<1> QED
  BY <1>1, <1>2, <1>3, <1>4, <1>5, <1>6, <1>7, <1>8

\* The invariant across one step of Decide.
LEMMA DecideKeepsOnce ==
    ASSUME OnceInv, NEW w \in Workers, NEW a \in Actions,
           NEW choice \in {"APPROVED", "REJECTED"}, Decide(w, a, choice)
    PROVE  OnceInv'
<1> USE DEF OnceInv, TypeOK
<1>1. ThreadTypes'
  BY DEF Decide, Goto, ThreadTypes, Phases
<1>2. TableTypes'
  BY DEF Decide, TableTypes, ApprovalStatuses
<1>3. WorldTypes'
  BY DEF Decide, WorldTypes, homeVars, historyVars
<1>4. ThreadInv'
  BY NoActionIsNone DEF Decide, Goto, ThreadInv, ThreadTypes, TableTypes,
     historyVars
<1>5. RowInv'
  BY NoActionIsNone DEF Decide, Goto, RowInv, ThreadTypes, TableTypes,
     historyVars
<1>6. CallerInv'
  BY DEF Decide, Goto, CallerInv, ThreadTypes, TableTypes, historyVars, Caller,
     Decider
<1>7. DeciderInv'
  BY DEF Decide, Goto, DeciderInv, ThreadTypes, TableTypes, historyVars, Decider
<1>8. DispatchInv'
  <2>1. act'[w] = a /\ approval[a] = "PENDING"
    BY DEF Decide, Goto, ThreadTypes
  <2>2. \A v \in Workers \ {w} :
         pc'[v] = pc[v] /\ act'[v] = act[v] /\ conf'[v] = conf[v]
    BY DEF Decide, Goto, ThreadTypes
  <2>3. UNCHANGED <<calls, submitted>>
    BY DEF Decide, historyVars
  <2>4. ~(calls[a] > 0)
    BY <2>1 DEF DispatchInv, RowInv
  <2>5. \A b \in Actions : b # a => approval'[b] = approval[b]
    BY DEF Decide, TableTypes
  <2> QED
    BY <2>1, <2>2, <2>3, <2>4, <2>5 DEF DispatchInv, Decider
<1> QED
  BY <1>1, <1>2, <1>3, <1>4, <1>5, <1>6, <1>7, <1>8

\* The invariant across one step of Claim.
LEMMA ClaimKeepsOnce ==
    ASSUME OnceInv, NEW w \in Workers, Claim(w)
    PROVE  OnceInv'
<1> USE DEF OnceInv, TypeOK
<1>0. act[w] \in Actions
  BY BusyActs DEF Claim
<1>1. ThreadTypes'
  BY LeaveTypes, GotoTypes DEF Claim, Phases
<1>2. TableTypes'
  BY DEF Claim, TableTypes, Statuses
<1>3. WorldTypes'
  BY DEF Claim, WorldTypes, homeVars, historyVars
<1>4. ThreadInv'
  BY <1>0, NoActionIsNone DEF Claim, Leave, Goto, ThreadInv, ThreadTypes,
     TableTypes, historyVars
<1>5. RowInv'
  <2>1. \A v \in Workers \ {w} :
         pc'[v] = pc[v] /\ act'[v] = act[v] /\ conf'[v] = conf[v]
    BY DEF Claim, Goto, Leave, ThreadTypes
  <2>2. pc'[w] \notin {"invoke", "verify"}
    BY DEF Claim, Goto, Leave, ThreadTypes
  <2>3. UNCHANGED <<approval, calls>>
    BY DEF Claim, historyVars
  <2>4. CASE UNCHANGED status
    BY <2>1, <2>2, <2>3, <2>4 DEF RowInv
  <2>5. CASE RowsWithKey(act[w]) = {}
         /\ status' = [status EXCEPT ![act[w]] = "PLANNED"]
    <3>1. status'[act[w]] = "PLANNED"
      BY <1>0, <2>5 DEF TableTypes
    <3>2. \A b \in Actions : b # act[w] => status'[b] = status[b]
      BY <2>5 DEF TableTypes
    <3>3. \A b \in Actions : KeyOf[b] = KeyOf[act[w]] => status[b] = "ABSENT"
      BY <2>5 DEF RowsWithKey
    <3> QED
      BY <1>0, BusyActs, <2>1, <2>2, <2>3, <3>1, <3>2, <3>3 DEF RowInv
  <2> QED
    BY <2>4, <2>5 DEF Claim
<1>6. CallerInv'
  BY DEF Claim, Leave, Goto, CallerInv, ThreadTypes, TableTypes, historyVars,
     Caller, Decider
<1>7. DeciderInv'
  BY DEF Claim, Leave, Goto, DeciderInv, ThreadTypes, TableTypes, historyVars,
     Decider
<1>8. DispatchInv'
  BY <1>0, NoActionIsNone DEF Claim, Leave, Goto, DispatchInv, ThreadTypes,
     TableTypes, WorldTypes, historyVars, Decider, Caller
<1> QED
  BY <1>1, <1>2, <1>3, <1>4, <1>5, <1>6, <1>7, <1>8

\* The invariant across one step of LockScope.
LEMMA LockScopeKeepsOnce ==
    ASSUME OnceInv, NEW w \in Workers, LockScope(w)
    PROVE  OnceInv'
<1> USE DEF OnceInv, TypeOK
<1>0. act[w] \in Actions
  BY BusyActs DEF LockScope
<1>1. ThreadTypes'
  <2>1. CASE /\ UNCHANGED next
             /\ idx' = [idx EXCEPT ![w] = @ + 1]
    <3>1. \E phase \in Phases : Goto(w, phase)
      BY <2>1 DEF LockScope, Conclude, Goto, ThreadTypes, Phases
    <3> QED
      BY <2>1, <3>1 DEF LockScope, Goto, ThreadTypes
  <2>2. CASE Conclude(w, "RESOURCE_BUSY")
    BY <2>2 DEF LockScope, Conclude, Goto, ThreadTypes, Phases, Statuses
  <2> QED
    BY <2>1, <2>2 DEF LockScope
<1>2. TableTypes'
  BY DEF LockScope, TableTypes, tableVars
<1>3. WorldTypes'
  BY FreedType DEF LockScope, WorldTypes, homeVars, historyVars
<1>4. ThreadInv'
  BY <1>0, NoActionIsNone DEF LockScope, Goto, Conclude, ThreadInv,
     ThreadTypes, TableTypes, tableVars, historyVars
<1>5. RowInv'
  BY <1>0, NoActionIsNone DEF LockScope, Goto, Conclude, RowInv, ThreadTypes,
     TableTypes, tableVars, historyVars
<1>6. CallerInv'
  <2>1. \A v \in Workers : Caller(v)' => Caller(v) /\ act'[v] = act[v]
    BY DEF LockScope, Goto, Conclude, Caller, Decider, ThreadTypes
  <2>2. UNCHANGED submitted
    BY DEF LockScope
  <2> QED
    BY <2>1, <2>2 DEF CallerInv
<1>7. DeciderInv'
  BY DEF LockScope, Goto, Conclude, DeciderInv, ThreadTypes, TableTypes,
     tableVars, historyVars, Decider
<1>8. DispatchInv'
  <2>1. \A v \in Workers \ {w} :
         pc'[v] = pc[v] /\ act'[v] = act[v] /\ conf'[v] = conf[v]
    BY DEF LockScope, Conclude, Goto, ThreadTypes
  <2>2. UNCHANGED <<calls, approval, submitted, conf, act>>
    BY DEF LockScope, tableVars, historyVars
  <2>3. pc[w] = "lock" /\ pc'[w] \in {"lock", "refresh", "conclude"}
    BY DEF LockScope, Conclude, Goto, ThreadTypes
  <2>4. Decider(w)' = Decider(w)
    BY <2>2, <2>3 DEF Decider
  <2> QED
    BY <2>1, <2>2, <2>3, <2>4 DEF DispatchInv, Decider
<1> QED
  BY <1>1, <1>2, <1>3, <1>4, <1>5, <1>6, <1>7, <1>8

\* The invariant across one step of Refresh.
LEMMA RefreshKeepsOnce ==
    ASSUME OnceInv, NEW w \in Workers, Refresh(w)
    PROVE  OnceInv'
<1> USE DEF OnceInv, TypeOK
<1>0. act[w] \in Actions
  BY BusyActs DEF Refresh
<1>1. ThreadTypes'
  BY DEF Refresh, Conclude, Goto, ThreadTypes, Phases, Statuses
<1>2. TableTypes'
  BY DEF Refresh, TableTypes, tableVars
<1>3. WorldTypes'
  BY DEF Refresh, WorldTypes, homeVars
<1>4. ThreadInv'
  BY <1>0, NoActionIsNone DEF Refresh, Goto, Conclude, ThreadInv, ThreadTypes,
     TableTypes, tableVars
<1>5. RowInv'
  BY <1>0, NoActionIsNone DEF Refresh, Goto, Conclude, RowInv, ThreadTypes,
     TableTypes, tableVars
<1>6. CallerInv'
  BY DEF Refresh, Goto, Conclude, CallerInv, ThreadTypes, TableTypes,
     tableVars, Caller, Decider
<1>7. DeciderInv'
  BY DEF Refresh, Goto, Conclude, DeciderInv, ThreadTypes, TableTypes,
     tableVars, Decider
<1>8. DispatchInv'
  BY <1>0, NoActionIsNone DEF Refresh, Goto, Conclude, DispatchInv,
     ThreadTypes, TableTypes, WorldTypes, tableVars, Decider, Caller
<1> QED
  BY <1>1, <1>2, <1>3, <1>4, <1>5, <1>6, <1>7, <1>8

\* The invariant across one step of Evaluate.
LEMMA EvaluateKeepsOnce ==
    ASSUME OnceInv, NEW w \in Workers, Evaluate(w)
    PROVE  OnceInv'
<1> USE DEF OnceInv, TypeOK
<1>0. act[w] \in Actions
  BY BusyActs DEF Evaluate
<1>1. ThreadTypes'
  BY GotoTypes, ConcludeTypes DEF Evaluate, Phases, Statuses
<1>2. TableTypes'
  BY DEF Evaluate, TableTypes, tableVars
<1>3. WorldTypes'
  BY DEF Evaluate, WorldTypes, homeVars, historyVars
<1>4. ThreadInv'
  <2>1. \A v \in Workers \ {w} :
         /\ pc'[v] = pc[v] /\ act'[v] = act[v]
         /\ conf'[v] = conf[v] /\ next'[v] = next[v]
    BY DEF Evaluate, Conclude, Goto, ThreadTypes
  <2>2. UNCHANGED <<act, conf, up>>
    BY DEF Evaluate
  <2>3. pc[w] = "evaluate" /\ pc'[w] \in {"conclude", "challenge", "begin"}
    BY DEF Evaluate, Conclude, Goto, ThreadTypes
  <2>4. next'[w] # "ABSENT"
    BY <2>3 DEF Evaluate, Conclude, Goto, ThreadTypes, ThreadInv
  <2>5. pc'[w] = "challenge" => act[w] \in Confirmed
    BY DEF Evaluate, Conclude, Goto, ThreadTypes, MayDispatch
  <2>6. pc'[w] = "begin" /\ act[w] \in Confirmed => conf[w]
    BY DEF Evaluate, Conclude, Goto, ThreadTypes, MayDispatch, ConfirmationValid
  <2> QED
    BY <2>1, <2>2, <2>3, <2>4, <2>5, <2>6 DEF ThreadInv
<1>5. RowInv'
  BY <1>0, NoActionIsNone DEF Evaluate, Goto, Conclude, RowInv, ThreadTypes,
     TableTypes, tableVars, historyVars
<1>6. CallerInv'
  BY DEF Evaluate, Goto, Conclude, CallerInv, ThreadTypes, TableTypes,
     tableVars, historyVars, Caller, Decider
<1>7. DeciderInv'
  BY DEF Evaluate, Goto, Conclude, DeciderInv, ThreadTypes, TableTypes,
     tableVars, historyVars, Decider
<1>8. DispatchInv'
  BY <1>0, NoActionIsNone DEF Evaluate, Goto, Conclude, DispatchInv,
     ThreadTypes, TableTypes, WorldTypes, tableVars, historyVars, Decider,
     Caller
<1> QED
  BY <1>1, <1>2, <1>3, <1>4, <1>5, <1>6, <1>7, <1>8

\* The invariant across one step of IssueApproval.
LEMMA IssueApprovalKeepsOnce ==
    ASSUME OnceInv, NEW w \in Workers, IssueApproval(w)
    PROVE  OnceInv'
<1> USE DEF OnceInv, TypeOK
<1>0. act[w] \in Actions
  BY BusyActs DEF IssueApproval
<1>1. ThreadTypes'
  BY LeaveTypes, ConcludeTypes DEF IssueApproval, Throw, Statuses
<1>2. TableTypes'
  BY DEF IssueApproval, TableTypes, ApprovalStatuses
<1>3. WorldTypes'
  BY FreedType, <1>0 DEF IssueApproval, Throw, WorldTypes, homeVars
<1>4. ThreadInv'
  BY <1>0, NoActionIsNone DEF IssueApproval, Leave, Goto, Conclude, Throw,
     ThreadInv, ThreadTypes, TableTypes
<1>5. RowInv'
  <2>1. \A v \in Workers \ {w} :
         pc'[v] = pc[v] /\ act'[v] = act[v] /\ conf'[v] = conf[v]
    BY DEF IssueApproval, Goto, Leave, Conclude, Throw, ThreadTypes
  <2>2. UNCHANGED calls
    BY DEF IssueApproval
  <2>3. UNCHANGED status /\ pc'[w] \notin {"invoke", "verify"}
    BY DEF IssueApproval, Leave, Conclude, Goto, Throw, ThreadTypes
  <2>4. \A b \in Actions :
           \/ approval'[b] = approval[b]
           \/ b = act[w] /\ act[w] \in Confirmed /\ status[act[w]] # "ABSENT"
    <3>1. act[w] \in Confirmed
      BY DEF IssueApproval, ThreadInv
    <3>2. \/ UNCHANGED approval
          \/ /\ approval' = [approval EXCEPT ![act[w]] = "PENDING"]
             /\ status[act[w]] # "ABSENT"
      BY DEF IssueApproval
    <3> QED
      BY <1>0, <3>1, <3>2 DEF TableTypes
  <2> QED
    BY <2>1, <2>2, <2>3, <2>4 DEF RowInv
<1>6. CallerInv'
  BY DEF IssueApproval, Leave, Goto, Conclude, Throw, CallerInv, ThreadTypes,
     TableTypes, Caller, Decider
<1>7. DeciderInv'
  <2>1. \A v \in Workers \ {w} :
         /\ pc'[v] = pc[v] /\ act'[v] = act[v]
         /\ conf'[v] = conf[v] /\ resolution'[v] = resolution[v]
    BY DEF IssueApproval, Goto, Leave, Conclude, Throw, ThreadTypes
  <2>2. \A b \in Actions : approval[b] # "NONE" => approval'[b] = approval[b]
    BY DEF IssueApproval, TableTypes
  <2>3. Decider(w)' => Decider(w) /\ act'[w] = act[w]
         /\ resolution'[w] = resolution[w]
                       /\ conf'[w] = conf[w] /\ pc'[w] = "conclude"
                              /\ pc[w] = "challenge"
    BY DEF IssueApproval, Goto, Leave, Conclude, Throw, ThreadTypes, Decider
  <2>4. \A v \in Workers : Decider(v) => act[v] \in Actions
         /\ approval[act[v]] # "NONE"
    BY BusyActs DEF Decider, DeciderInv, ThreadInv
  <2>5. \A v \in Workers \ {w} : Decider(v)' = Decider(v)
    BY <2>1 DEF Decider
  <2> QED
    BY <2>1, <2>2, <2>3, <2>4, <2>5 DEF DeciderInv
<1>8. DispatchInv'
  <2>1. \A v \in Workers \ {w} :
         pc'[v] = pc[v] /\ act'[v] = act[v] /\ conf'[v] = conf[v]
    BY DEF IssueApproval, Goto, Leave, Conclude, Throw, ThreadTypes
  <2>2. UNCHANGED <<calls, submitted>>
    BY DEF IssueApproval
  <2>3. \A b \in Actions : approval[b] # "NONE" => approval'[b] = approval[b]
    BY DEF IssueApproval, TableTypes
  <2>4. pc[w] = "challenge" /\ act[w] \in Confirmed
    BY DEF IssueApproval, ThreadInv
  <2>5. \/ act'[w] = NoAction
        \/ UNCHANGED <<act, conf>> /\ pc'[w] = "conclude"
    BY DEF IssueApproval, Goto, Leave, Conclude, Throw, ThreadTypes
  <2> QED
    BY <1>0, <2>1, <2>2, <2>3, <2>4, <2>5, NoActionIsNone DEF DispatchInv,
       Decider
<1> QED
  BY <1>1, <1>2, <1>3, <1>4, <1>5, <1>6, <1>7, <1>8

\* The invariant across one step of Begin.
LEMMA BeginKeepsOnce ==
    ASSUME OnceInv, NEW w \in Workers, Begin(w)
    PROVE  OnceInv'
<1> USE DEF OnceInv, TypeOK
<1>0. act[w] \in Actions
  BY BusyActs DEF Begin
<1>1. ThreadTypes'
  BY LeaveTypes, GotoTypes DEF Begin, Throw, Phases
<1>2. TableTypes'
  BY DEF Begin, TableTypes, Statuses
<1>3. WorldTypes'
  BY FreedType, <1>0 DEF Begin, Throw, WorldTypes, homeVars
<1>4. ThreadInv'
  BY <1>0, NoActionIsNone DEF Begin, Leave, Goto, Throw, ThreadInv,
     ThreadTypes, TableTypes
<1>5. RowInv'
  <2>1. \A v \in Workers \ {w} :
         pc'[v] = pc[v] /\ act'[v] = act[v] /\ conf'[v] = conf[v]
    BY DEF Begin, Goto, Leave, Throw, ThreadTypes
  <2>2. UNCHANGED calls
    BY DEF Begin
  <2>3. UNCHANGED approval
    BY DEF Begin
  <2>4. CASE status' = [status EXCEPT ![act[w]] = "EXECUTING"]
         /\ status[act[w]] # "ABSENT" /\ UNCHANGED act
    <3>1. \A b \in Actions : status'[b] = "ABSENT" <=> status[b] = "ABSENT"
      BY <1>0, <2>4 DEF TableTypes
    <3> QED
      BY <1>0, BusyActs, <2>1, <2>2, <2>3, <2>4, <3>1 DEF RowInv
  <2>5. CASE UNCHANGED status /\ Throw(w)
    BY <2>1, <2>2, <2>3, <2>5 DEF RowInv, Throw, Leave, ThreadTypes
  <2> QED
    BY <2>4, <2>5 DEF Begin
<1>6. CallerInv'
  BY DEF Begin, Leave, Goto, Throw, CallerInv, ThreadTypes, TableTypes, Caller,
     Decider
<1>7. DeciderInv'
  BY DEF Begin, Leave, Goto, Throw, DeciderInv, ThreadTypes, TableTypes, Decider
<1>8. DispatchInv'
  BY <1>0, NoActionIsNone DEF Begin, Leave, Goto, Throw, DispatchInv,
     ThreadTypes, TableTypes, WorldTypes, Decider, Caller
<1> QED
  BY <1>1, <1>2, <1>3, <1>4, <1>5, <1>6, <1>7, <1>8

\* The invariant across one step of Invoke.
LEMMA InvokeKeepsOnce ==
    ASSUME OnceInv, NEW w \in Workers, Invoke(w)
    PROVE  OnceInv'
<1> USE DEF OnceInv, TypeOK
<1>0. act[w] \in Actions
  BY BusyActs DEF Invoke
<1>1. ThreadTypes'
  BY GotoTypes, ConcludeTypes DEF Invoke, Phases, Statuses
<1>2. TableTypes'
  BY DEF Invoke, TableTypes, tableVars
<1>3. WorldTypes'
  <2>1. CASE UNCHANGED <<homeVars, calls>>
    BY <2>1 DEF Invoke, WorldTypes, homeVars
  <2>2. ASSUME NEW reached \in SUBSET DOMAIN WantOf[act[w]],
               calls' = [calls EXCEPT ![act[w]] = @ + 1],
               device' = Applied(act[w], reached),
               late' \in {late, late \cup {act[w]}}
        PROVE  WorldTypes'
    BY <1>0, <2>2, AppliedType DEF Invoke, WorldTypes
  <2> QED
    BY <2>1, <2>2 DEF Invoke
<1>4. ThreadInv'
  BY <1>0, NoActionIsNone DEF Invoke, Goto, Conclude, ThreadInv, ThreadTypes,
     TableTypes, tableVars
<1>5. RowInv'
  <2>1. \A v \in Workers \ {w} :
         pc'[v] = pc[v] /\ act'[v] = act[v] /\ conf'[v] = conf[v]
    BY DEF Invoke, Goto, Conclude, ThreadTypes
  <2>2. UNCHANGED <<status, approval, act>>
    BY DEF Invoke, tableVars
  <2>3. pc[w] = "invoke" /\ pc'[w] \in {"conclude", "verify"}
    BY DEF Invoke, Goto, Conclude, ThreadTypes
  <2>4. \A b \in Actions : b # act[w] => calls'[b] = calls[b]
    BY DEF Invoke, WorldTypes
  <2> QED
    BY <1>0, <2>1, <2>2, <2>3, <2>4 DEF RowInv
<1>6. CallerInv'
  BY DEF Invoke, Goto, Conclude, CallerInv, ThreadTypes, TableTypes, tableVars,
     Caller, Decider
<1>7. DeciderInv'
  BY DEF Invoke, Goto, Conclude, DeciderInv, ThreadTypes, TableTypes,
     tableVars, Decider
<1>8. DispatchInv'
  <2>1. \A v \in Workers \ {w} :
         pc'[v] = pc[v] /\ act'[v] = act[v] /\ conf'[v] = conf[v]
    BY DEF Invoke, Goto, Conclude, ThreadTypes
  <2>2. UNCHANGED <<approval, submitted, act, conf>>
    BY DEF Invoke, tableVars
  <2>3. pc[w] = "invoke" /\ pc'[w] \in {"conclude", "verify"}
    BY DEF Invoke, Goto, Conclude, ThreadTypes
  <2>4. \A b \in Actions : b # act[w] => calls'[b] = calls[b]
    BY DEF Invoke, WorldTypes
  <2>5. ASSUME act[w] \in Confirmed
        PROVE  conf[w] /\ Decider(w) /\ approval[act[w]] = "APPROVED"
    BY <2>3, <2>5 DEF ThreadInv, DeciderInv, Decider
  <2>6. ASSUME act[w] \notin Confirmed
        PROVE  Caller(w) /\ act[w] \in submitted
    <3>1. ~Decider(w)
      BY <1>0, <2>3, <2>6 DEF DeciderInv, RowInv
    <3> QED
      BY <2>3, <3>1 DEF Caller, CallerInv
  <2>7. calls[act[w]] = 0
    BY <1>0, <2>3, <2>5 DEF DispatchInv, WorldTypes
  <2>8. calls'[act[w]] \in {0, 1}
    BY <1>0, <2>7 DEF Invoke, WorldTypes
  <2>9. ASSUME NEW v \in Workers, act[v] = act[w],
               act[w] \in Confirmed => Decider(v)'
        PROVE  v = w
    <3>1. CASE act[w] \in Confirmed
      BY <2>1, <2>2, <2>3, <2>5, <2>9, <3>1 DEF DeciderInv, Decider
    <3>2. CASE act[w] \notin Confirmed
      <4>1. pc[v] # "idle"
        BY <1>0, <2>9, NoActionIsNone DEF ThreadInv
      <4>2. ~Decider(v)
        BY <1>0, <2>9, <3>2 DEF DeciderInv, RowInv
      <4> QED
        BY <2>6, <2>9, <3>2, <4>1, <4>2 DEF Caller, CallerInv
    <3> QED
      BY <3>1, <3>2
  <2>10. Decider(w)' => conf'[w]
    BY <2>2, <2>3 DEF Decider
  <2>11. \A b \in Actions : b # act[w] /\ calls'[b] > 0 =>
             \A v \in Workers : act[v] = b => v # w
    OBVIOUS
  <2>12. \A v \in Workers \ {w} : Decider(v)' = Decider(v)
    BY <2>1 DEF Decider
  <2> SUFFICES ASSUME NEW b \in Actions, calls'[b] > 0
               PROVE  /\ calls'[b] = 1
                      /\ b \in Confirmed => approval'[b] = "APPROVED"
                      /\ b \notin Confirmed => b \in submitted'
                      /\ \A v \in Workers :
                            act'[v] = b /\ (b \in Confirmed => Decider(v)') =>
                              /\ pc'[v] \in {"verify", "conclude", "unlock",
                                            "complete"}
                              /\ Decider(v)' => conf'[v]
    BY DEF DispatchInv
  <2>13. CASE b = act[w]
    BY <2>2, <2>3, <2>5, <2>6, <2>8, <2>9, <2>10, <2>13
  <2>14. CASE b # act[w]
    BY <2>1, <2>2, <2>4, <2>12, <2>14 DEF DispatchInv
  <2> QED
    BY <2>13, <2>14
<1> QED
  BY <1>1, <1>2, <1>3, <1>4, <1>5, <1>6, <1>7, <1>8

\* The invariant across one step of Verify.
LEMMA VerifyKeepsOnce ==
    ASSUME OnceInv, NEW w \in Workers, Verify(w)
    PROVE  OnceInv'
<1> USE DEF OnceInv, TypeOK
<1>0. act[w] \in Actions
  BY BusyActs DEF Verify
<1>1. ThreadTypes'
  BY VerdictStatus, ConcludeTypes DEF Verify, Statuses
<1>2. TableTypes'
  BY DEF Verify, TableTypes, tableVars
<1>3. WorldTypes'
  BY DEF Verify, WorldTypes, homeVars
<1>4. ThreadInv'
  <2>1. \A v \in Workers \ {w} :
         /\ pc'[v] = pc[v] /\ act'[v] = act[v]
         /\ conf'[v] = conf[v] /\ next'[v] = next[v]
    BY DEF Verify, Conclude, Goto, ThreadTypes
  <2>2. UNCHANGED <<act, conf, up>>
    BY DEF Verify
  <2>3. pc[w] = "verify" /\ pc'[w] = "conclude" /\ next'[w] # "ABSENT"
    BY VerdictStatus DEF Verify, Conclude, Goto, ThreadTypes
  <2> QED
    BY <2>1, <2>2, <2>3 DEF ThreadInv
<1>5. RowInv'
  BY <1>0, NoActionIsNone DEF Verify, Goto, Conclude, RowInv, ThreadTypes,
     TableTypes, tableVars
<1>6. CallerInv'
  BY DEF Verify, Goto, Conclude, CallerInv, ThreadTypes, TableTypes, tableVars,
     Caller, Decider
<1>7. DeciderInv'
  BY DEF Verify, Goto, Conclude, DeciderInv, ThreadTypes, TableTypes,
     tableVars, Decider
<1>8. DispatchInv'
  BY <1>0, NoActionIsNone DEF Verify, Goto, Conclude, DispatchInv, ThreadTypes,
     TableTypes, WorldTypes, tableVars, Decider, Caller
<1> QED
  BY <1>1, <1>2, <1>3, <1>4, <1>5, <1>6, <1>7, <1>8

\* The invariant across one step of Terminal.
LEMMA TerminalKeepsOnce ==
    ASSUME OnceInv, NEW w \in Workers, Terminal(w)
    PROVE  OnceInv'
<1> USE DEF OnceInv, TypeOK
<1>0. act[w] \in Actions
  BY BusyActs DEF Terminal
<1>1. ThreadTypes'
  BY LeaveTypes, GotoTypes DEF Terminal, Throw, Phases
<1>2. TableTypes'
  BY DEF Terminal, TableTypes, ThreadTypes
<1>3. WorldTypes'
  BY FreedType, <1>0 DEF Terminal, Throw, WorldTypes, homeVars
<1>4. ThreadInv'
  BY <1>0, NoActionIsNone DEF Terminal, Leave, Goto, Throw, ThreadInv,
     ThreadTypes, TableTypes
<1>5. RowInv'
  <2>1. \A v \in Workers \ {w} :
         pc'[v] = pc[v] /\ act'[v] = act[v] /\ conf'[v] = conf[v]
    BY DEF Terminal, Goto, Leave, Throw, ThreadTypes
  <2>2. UNCHANGED calls
    BY DEF Terminal
  <2>3. UNCHANGED approval /\ pc'[w] \notin {"invoke", "verify"}
    BY DEF Terminal, Goto, Throw, Leave, ThreadTypes
  <2>4. \A b \in Actions : status'[b] = "ABSENT" <=> status[b] = "ABSENT"
    BY <1>0 DEF Terminal, TableTypes, ThreadInv
  <2> QED
    BY BusyActs, <2>1, <2>2, <2>3, <2>4 DEF RowInv
<1>6. CallerInv'
  BY DEF Terminal, Leave, Goto, Throw, CallerInv, ThreadTypes, TableTypes,
     Caller, Decider
<1>7. DeciderInv'
  BY DEF Terminal, Leave, Goto, Throw, DeciderInv, ThreadTypes, TableTypes,
     Decider
<1>8. DispatchInv'
  BY <1>0, NoActionIsNone DEF Terminal, Leave, Goto, Throw, DispatchInv,
     ThreadTypes, TableTypes, WorldTypes, Decider, Caller
<1> QED
  BY <1>1, <1>2, <1>3, <1>4, <1>5, <1>6, <1>7, <1>8

\* The invariant across one step of Unlock.
LEMMA UnlockKeepsOnce ==
    ASSUME OnceInv, NEW w \in Workers, Unlock(w)
    PROVE  OnceInv'
<1> USE DEF OnceInv, TypeOK
<1>0. act[w] \in Actions
  BY BusyActs DEF Unlock
<1>1. ThreadTypes'
  BY LeaveTypes DEF Unlock, Goto, ThreadTypes, Phases
<1>2. TableTypes'
  BY DEF Unlock, TableTypes, tableVars
<1>3. WorldTypes'
  BY FreedType DEF Unlock, WorldTypes, homeVars, historyVars
<1>4. ThreadInv'
  BY <1>0, NoActionIsNone DEF Unlock, Leave, Goto, ThreadInv, ThreadTypes,
     TableTypes, tableVars, historyVars
<1>5. RowInv'
  BY <1>0, NoActionIsNone DEF Unlock, Leave, Goto, RowInv, ThreadTypes,
     TableTypes, tableVars, historyVars
<1>6. CallerInv'
  BY DEF Unlock, Leave, Goto, CallerInv, ThreadTypes, TableTypes, tableVars,
     historyVars, Caller, Decider
<1>7. DeciderInv'
  BY DEF Unlock, Leave, Goto, DeciderInv, ThreadTypes, TableTypes, tableVars,
     historyVars, Decider
<1>8. DispatchInv'
  BY <1>0, NoActionIsNone DEF Unlock, Leave, Goto, DispatchInv, ThreadTypes,
     TableTypes, WorldTypes, tableVars, historyVars, Decider, Caller
<1> QED
  BY <1>1, <1>2, <1>3, <1>4, <1>5, <1>6, <1>7, <1>8

\* The invariant across one step of RunApproved.
LEMMA RunApprovedKeepsOnce ==
    ASSUME OnceInv, NEW w \in Workers, RunApproved(w)
    PROVE  OnceInv'
<1> USE DEF OnceInv, TypeOK
<1>0. act[w] \in Actions
  BY BusyActs DEF RunApproved
<1>1. ThreadTypes'
  BY DEF RunApproved, Goto, ThreadTypes, Phases, ApprovalStatuses
<1>2. TableTypes'
  BY DEF RunApproved, TableTypes, tableVars
<1>3. WorldTypes'
  BY DEF RunApproved, WorldTypes, homeVars, historyVars
<1>4. ThreadInv'
  BY <1>0, NoActionIsNone DEF RunApproved, Goto, ThreadInv, ThreadTypes,
     TableTypes, tableVars, historyVars
<1>5. RowInv'
  BY <1>0, NoActionIsNone DEF RunApproved, Goto, RowInv, ThreadTypes,
     TableTypes, tableVars, historyVars
<1>6. CallerInv'
  BY DEF RunApproved, Goto, CallerInv, ThreadTypes, TableTypes, tableVars,
     historyVars, Caller, Decider
<1>7. DeciderInv'
  <2>1. \A v \in Workers \ {w} :
         /\ pc'[v] = pc[v] /\ act'[v] = act[v]
         /\ conf'[v] = conf[v] /\ resolution'[v] = resolution[v]
    BY DEF RunApproved, Goto, ThreadTypes
  <2>2. UNCHANGED <<act, approval>>
    BY DEF RunApproved, tableVars
  <2>3. pc[w] = "approved" /\ pc'[w] \in {"claim", "failing"} /\ Decider(w)
    BY DEF RunApproved, Goto, ThreadTypes, Decider
  <2>4. conf'[w] => resolution'[w] = "APPROVED"
    BY DEF RunApproved, Goto, ThreadTypes, ThreadInv
  <2>5. \A v \in Workers \ {w} : Decider(v)' = Decider(v)
    BY <2>1 DEF Decider
  <2> QED
    BY <2>1, <2>2, <2>3, <2>4, <2>5 DEF DeciderInv
<1>8. DispatchInv'
  BY <1>0, NoActionIsNone DEF RunApproved, Goto, DispatchInv, ThreadTypes,
     TableTypes, WorldTypes, tableVars, historyVars, Decider, Caller
<1> QED
  BY <1>1, <1>2, <1>3, <1>4, <1>5, <1>6, <1>7, <1>8

\* The invariant across one step of RefuseApproved.
LEMMA RefuseApprovedKeepsOnce ==
    ASSUME OnceInv, NEW w \in Workers, RefuseApproved(w)
    PROVE  OnceInv'
<1> USE DEF OnceInv, TypeOK
<1>0. act[w] \in Actions
  BY BusyActs DEF RefuseApproved
<1>1. ThreadTypes'
  BY DEF RefuseApproved, Goto, ThreadTypes, Phases, ApprovalStatuses
<1>2. TableTypes'
  BY DEF RefuseApproved, TableTypes, Statuses
<1>3. WorldTypes'
  BY DEF RefuseApproved, WorldTypes, homeVars, historyVars
<1>4. ThreadInv'
  BY <1>0, NoActionIsNone DEF RefuseApproved, Goto, ThreadInv, ThreadTypes,
     TableTypes, historyVars
<1>5. RowInv'
  <2>1. \A v \in Workers \ {w} :
         pc'[v] = pc[v] /\ act'[v] = act[v] /\ conf'[v] = conf[v]
    BY DEF RefuseApproved, Goto, ThreadTypes
  <2>2. UNCHANGED <<approval, calls, act>> /\ pc'[w] = "complete"
    BY DEF RefuseApproved, Goto, ThreadTypes, historyVars
  <2>3. Decider(w)
    BY DEF RefuseApproved, Decider
  <2>4. status[act[w]] # "ABSENT"
    BY <1>0, <2>3 DEF DeciderInv, RowInv
  <2>5. \A b \in Actions : status'[b] = "ABSENT" <=> status[b] = "ABSENT"
    BY <1>0, <2>4 DEF RefuseApproved, TableTypes
  <2> QED
    BY BusyActs, <2>1, <2>2, <2>5 DEF RowInv
<1>6. CallerInv'
  BY DEF RefuseApproved, Goto, CallerInv, ThreadTypes, TableTypes, historyVars,
     Caller, Decider
<1>7. DeciderInv'
  <2>1. \A v \in Workers \ {w} :
         /\ pc'[v] = pc[v] /\ act'[v] = act[v]
         /\ conf'[v] = conf[v] /\ resolution'[v] = resolution[v]
    BY DEF RefuseApproved, Goto, ThreadTypes
  <2>2. UNCHANGED <<act, approval, conf>>
    BY DEF RefuseApproved
  <2>3. pc[w] \in {"rejected", "failing"} /\ pc'[w] = "complete" /\ Decider(w)
         /\ ~conf[w]
    BY DEF RefuseApproved, Goto, ThreadTypes, Decider, ThreadInv
  <2>4. resolution'[w] = IF pc[w] = "rejected" THEN "REJECTED" ELSE "FAILED"
    BY DEF RefuseApproved, ThreadTypes
  <2>5. \A v \in Workers \ {w} : Decider(v)' = Decider(v)
    BY <2>1 DEF Decider
  <2> QED
    BY <2>1, <2>2, <2>3, <2>4, <2>5 DEF DeciderInv
<1>8. DispatchInv'
  BY <1>0, NoActionIsNone DEF RefuseApproved, Goto, DispatchInv, ThreadTypes,
     TableTypes, WorldTypes, historyVars, Decider, Caller
<1> QED
  BY <1>1, <1>2, <1>3, <1>4, <1>5, <1>6, <1>7, <1>8

\* The invariant across one step of Complete.
LEMMA CompleteKeepsOnce ==
    ASSUME OnceInv, NEW w \in Workers, Complete(w)
    PROVE  OnceInv'
<1> USE DEF OnceInv, TypeOK
<1>0. act[w] \in Actions
  BY BusyActs DEF Complete
<1>1. ThreadTypes'
  BY LeaveTypes DEF Complete
<1>2. TableTypes'
  BY DEF Complete, TableTypes, ThreadTypes
<1>3. WorldTypes'
  BY DEF Complete, WorldTypes, homeVars, historyVars
<1>4. ThreadInv'
  BY <1>0, NoActionIsNone DEF Complete, Leave, ThreadInv, ThreadTypes,
     TableTypes, historyVars
<1>5. RowInv'
  <2>1. \A v \in Workers \ {w} :
         pc'[v] = pc[v] /\ act'[v] = act[v] /\ conf'[v] = conf[v]
    BY DEF Complete, Leave, ThreadTypes
  <2>2. UNCHANGED <<status, calls>>
    BY DEF Complete, historyVars
  <2>3. Decider(w)
    BY DEF Complete, Decider
  <2>4. approval[act[w]] # "NONE"
    BY <1>0, <2>3 DEF DeciderInv
  <2>5. \A b \in Actions : approval'[b] # "NONE" => approval[b] # "NONE"
    BY <1>0, <2>4 DEF Complete, TableTypes
  <2>6. \A v \in Workers : pc'[v] \in {"invoke", "verify"}
                                => status'[act'[v]] # "ABSENT"
    <3>1. pc'[w] = "idle"
      BY DEF Complete, Leave, ThreadTypes
    <3> QED
      BY <2>1, <2>2, <3>1 DEF RowInv
  <2> QED
    BY <2>2, <2>5, <2>6 DEF RowInv
<1>6. CallerInv'
  BY DEF Complete, Leave, CallerInv, ThreadTypes, TableTypes, historyVars,
     Caller, Decider
<1>7. DeciderInv'
  BY DEF Complete, Leave, DeciderInv, ThreadTypes, TableTypes, historyVars,
     Decider
<1>8. DispatchInv'
  <2>1. \A v \in Workers \ {w} :
         pc'[v] = pc[v] /\ act'[v] = act[v] /\ conf'[v] = conf[v]
    BY DEF Complete, Leave, ThreadTypes
  <2>2. UNCHANGED <<submitted, calls>> /\ act'[w] = NoAction
    BY DEF Complete, Leave, ThreadTypes, historyVars
  <2>3. Decider(w) /\ pc[w] = "complete"
    BY DEF Complete, Decider
  <2>4. conf[w] => resolution[w] = "APPROVED"
    BY <2>3 DEF DeciderInv
  <2>5. \A b \in Actions :
            approval'[b] = IF b = act[w] THEN resolution[w] ELSE approval[b]
    BY <1>0 DEF Complete, TableTypes
  <2>6. \A v \in Workers \ {w} : Decider(v)' = Decider(v)
    BY <2>1 DEF Decider
  <2> SUFFICES ASSUME NEW b \in Actions, calls[b] > 0
               PROVE  b \in Confirmed => approval'[b] = "APPROVED"
    BY <1>0, <2>1, <2>2, <2>6, NoActionIsNone DEF DispatchInv
  <2> QED
    BY <2>3, <2>4, <2>5 DEF DispatchInv
<1> QED
  BY <1>1, <1>2, <1>3, <1>4, <1>5, <1>6, <1>7, <1>8

\* The invariant across one step of ExpireApproval.
LEMMA ExpireApprovalKeepsOnce ==
    ASSUME OnceInv, NEW a \in Actions, ExpireApproval(a)
    PROVE  OnceInv'
<1> USE DEF OnceInv, TypeOK
<1>1. ThreadTypes'
  BY DEF ExpireApproval, ThreadTypes, workerVars
<1>2. TableTypes'
  BY DEF ExpireApproval, TableTypes, ApprovalStatuses
<1>3. WorldTypes'
  BY DEF ExpireApproval, WorldTypes, homeVars, historyVars
<1>4. ThreadInv'
  BY NoActionIsNone DEF ExpireApproval, ThreadInv, ThreadTypes, TableTypes,
     workerVars, historyVars
<1>5. RowInv'
  BY NoActionIsNone DEF ExpireApproval, RowInv, ThreadTypes, TableTypes,
     workerVars, historyVars
<1>6. CallerInv'
  BY DEF ExpireApproval, CallerInv, ThreadTypes, TableTypes, workerVars,
     historyVars, Caller, Decider
<1>7. DeciderInv'
  BY DEF ExpireApproval, DeciderInv, ThreadTypes, TableTypes, workerVars,
     historyVars, Decider
<1>8. DispatchInv'
  BY NoActionIsNone DEF ExpireApproval, DispatchInv, ThreadTypes, TableTypes,
     WorldTypes, workerVars, historyVars, Decider, Caller
<1> QED
  BY <1>1, <1>2, <1>3, <1>4, <1>5, <1>6, <1>7, <1>8

\* The invariant across one step of PassExpiry.
LEMMA PassExpiryKeepsOnce ==
    ASSUME OnceInv, NEW a \in Actions, PassExpiry(a)
    PROVE  OnceInv'
<1> USE DEF OnceInv, TypeOK
<1>1. ThreadTypes'
  BY DEF PassExpiry, ThreadTypes, workerVars
<1>2. TableTypes'
  BY DEF PassExpiry, TableTypes
<1>3. WorldTypes'
  BY DEF PassExpiry, WorldTypes, homeVars, historyVars
<1>4. ThreadInv'
  BY NoActionIsNone DEF PassExpiry, ThreadInv, ThreadTypes, TableTypes,
     workerVars, historyVars
<1>5. RowInv'
  BY NoActionIsNone DEF PassExpiry, RowInv, ThreadTypes, TableTypes,
     workerVars, historyVars
<1>6. CallerInv'
  BY DEF PassExpiry, CallerInv, ThreadTypes, TableTypes, workerVars,
     historyVars, Caller, Decider
<1>7. DeciderInv'
  BY DEF PassExpiry, DeciderInv, ThreadTypes, TableTypes, workerVars,
     historyVars, Decider
<1>8. DispatchInv'
  BY NoActionIsNone DEF PassExpiry, DispatchInv, ThreadTypes, TableTypes,
     WorldTypes, workerVars, historyVars, Decider, Caller
<1> QED
  BY <1>1, <1>2, <1>3, <1>4, <1>5, <1>6, <1>7, <1>8

\* The invariant across one step of ArriveLate.
LEMMA ArriveLateKeepsOnce ==
    ASSUME OnceInv, NEW a \in Actions, ArriveLate(a)
    PROVE  OnceInv'
<1> USE DEF OnceInv, TypeOK
<1>1. ThreadTypes'
  BY DEF ArriveLate, ThreadTypes, workerVars
<1>2. TableTypes'
  BY DEF ArriveLate, TableTypes, tableVars
<1>3. WorldTypes'
  BY AppliedType DEF ArriveLate, WorldTypes, historyVars
<1>4. ThreadInv'
  BY NoActionIsNone DEF ArriveLate, ThreadInv, ThreadTypes, TableTypes,
     workerVars, tableVars, historyVars
<1>5. RowInv'
  BY NoActionIsNone DEF ArriveLate, RowInv, ThreadTypes, TableTypes,
     workerVars, tableVars, historyVars
<1>6. CallerInv'
  BY DEF ArriveLate, CallerInv, ThreadTypes, TableTypes, workerVars, tableVars,
     historyVars, Caller, Decider
<1>7. DeciderInv'
  BY DEF ArriveLate, DeciderInv, ThreadTypes, TableTypes, workerVars,
     tableVars, historyVars, Decider
<1>8. DispatchInv'
  BY NoActionIsNone DEF ArriveLate, DispatchInv, ThreadTypes, TableTypes,
     WorldTypes, workerVars, tableVars, historyVars, Decider, Caller
<1> QED
  BY <1>1, <1>2, <1>3, <1>4, <1>5, <1>6, <1>7, <1>8

\* The invariant across one step of Operate.
LEMMA OperateKeepsOnce ==
    ASSUME OnceInv, NEW d \in Devices, Operate(d)
    PROVE  OnceInv'
<1> USE DEF OnceInv, TypeOK
<1>1. ThreadTypes'
  BY DEF Operate, ThreadTypes, workerVars
<1>2. TableTypes'
  BY DEF Operate, TableTypes, tableVars
<1>3. WorldTypes'
  BY DEF Operate, Readings, WorldTypes, historyVars
<1>4. ThreadInv'
  BY NoActionIsNone DEF Operate, ThreadInv, ThreadTypes, TableTypes,
     workerVars, tableVars, historyVars
<1>5. RowInv'
  BY NoActionIsNone DEF Operate, RowInv, ThreadTypes, TableTypes, workerVars,
     tableVars, historyVars
<1>6. CallerInv'
  BY DEF Operate, CallerInv, ThreadTypes, TableTypes, workerVars, tableVars,
     historyVars, Caller, Decider
<1>7. DeciderInv'
  BY DEF Operate, DeciderInv, ThreadTypes, TableTypes, workerVars, tableVars,
     historyVars, Decider
<1>8. DispatchInv'
  BY NoActionIsNone DEF Operate, DispatchInv, ThreadTypes, TableTypes,
     WorldTypes, workerVars, tableVars, historyVars, Decider, Caller
<1> QED
  BY <1>1, <1>2, <1>3, <1>4, <1>5, <1>6, <1>7, <1>8

\* The invariant across one step of Raise.
LEMMA RaiseKeepsOnce ==
    ASSUME OnceInv, NEW w \in Workers, Raise(w)
    PROVE  OnceInv'
<1> USE DEF OnceInv, TypeOK
<1>1. ThreadTypes'
  BY LeaveTypes DEF Raise, Throw
<1>2. TableTypes'
  BY DEF Raise, TableTypes, tableVars
<1>3. WorldTypes'
  BY FreedType DEF Raise, Throw, Fault, WorldTypes, homeVars, historyVars
<1>4. ThreadInv'
  BY NoActionIsNone DEF Raise, Leave, Throw, ThreadInv, ThreadTypes,
     TableTypes, tableVars, historyVars
<1>5. RowInv'
  BY NoActionIsNone DEF Raise, Leave, Throw, RowInv, ThreadTypes, TableTypes,
     tableVars, historyVars
<1>6. CallerInv'
  BY DEF Raise, Leave, Throw, CallerInv, ThreadTypes, TableTypes, tableVars,
     historyVars, Caller, Decider
<1>7. DeciderInv'
  BY DEF Raise, Leave, Throw, DeciderInv, ThreadTypes, TableTypes, tableVars,
     historyVars, Decider
<1>8. DispatchInv'
  BY NoActionIsNone DEF Raise, Leave, Throw, DispatchInv, ThreadTypes,
     TableTypes, WorldTypes, tableVars, historyVars, Decider, Caller
<1> QED
  BY <1>1, <1>2, <1>3, <1>4, <1>5, <1>6, <1>7, <1>8

\* The invariant across one step of Crash.
LEMMA CrashKeepsOnce ==
    ASSUME OnceInv, Crash
    PROVE  OnceInv'
<1> USE DEF OnceInv, TypeOK
<1>1. ThreadTypes'
  BY DEF Crash, ThreadTypes, Phases, Statuses, ApprovalStatuses
<1>2. TableTypes'
  BY DEF Crash, TableTypes, tableVars
<1>3. WorldTypes'
  BY DEF Crash, Fault, WorldTypes, homeVars, historyVars
<1>4. ThreadInv'
  BY NoActionIsNone DEF Crash, ThreadInv, ThreadTypes, TableTypes, tableVars,
     historyVars
<1>5. RowInv'
  BY NoActionIsNone DEF Crash, RowInv, ThreadTypes, TableTypes, tableVars,
     historyVars
<1>6. CallerInv'
  BY DEF Crash, CallerInv, ThreadTypes, TableTypes, tableVars, historyVars,
     Caller, Decider
<1>7. DeciderInv'
  BY DEF Crash, DeciderInv, ThreadTypes, TableTypes, tableVars, historyVars,
     Decider
<1>8. DispatchInv'
  BY NoActionIsNone DEF Crash, DispatchInv, ThreadTypes, TableTypes,
     WorldTypes, tableVars, historyVars, Decider, Caller
<1> QED
  BY <1>1, <1>2, <1>3, <1>4, <1>5, <1>6, <1>7, <1>8

\* The invariant across one step of Restart.
LEMMA RestartKeepsOnce ==
    ASSUME OnceInv, Restart
    PROVE  OnceInv'
<1> USE DEF OnceInv, TypeOK
<1>1. ThreadTypes'
  BY DEF Restart, ThreadTypes, workerVars
<1>2. TableTypes'
  BY DEF Restart, Recovered, Statuses, TableTypes
<1>3. WorldTypes'
  BY DEF Restart, WorldTypes, homeVars, historyVars
<1>4. ThreadInv'
  BY NoActionIsNone DEF Restart, ThreadInv, ThreadTypes, TableTypes,
     workerVars, historyVars
<1>5. RowInv'
  <2>1. UNCHANGED <<pc, act, approval, calls>>
    BY DEF Restart, workerVars, historyVars
  <2>2. \A b \in Actions : status'[b] = "ABSENT" <=> status[b] = "ABSENT"
    BY DEF Restart, Recovered, TableTypes, Statuses
  <2> QED
    BY BusyActs, <2>1, <2>2 DEF RowInv
<1>6. CallerInv'
  BY DEF Restart, CallerInv, ThreadTypes, TableTypes, workerVars, historyVars,
     Caller, Decider
<1>7. DeciderInv'
  BY DEF Restart, DeciderInv, ThreadTypes, TableTypes, workerVars, historyVars,
     Decider
<1>8. DispatchInv'
  BY NoActionIsNone DEF Restart, DispatchInv, ThreadTypes, TableTypes,
     WorldTypes, workerVars, historyVars, Decider, Caller
<1> QED
  BY <1>1, <1>2, <1>3, <1>4, <1>5, <1>6, <1>7, <1>8

\* The invariant across one step of DropSession.
LEMMA DropSessionKeepsOnce ==
    ASSUME OnceInv, NEW w \in Workers, DropSession(w)
    PROVE  OnceInv'
<1> USE DEF OnceInv, TypeOK
<1>1. ThreadTypes'
  BY DEF DropSession, ThreadTypes, workerVars
<1>2. TableTypes'
  BY DEF DropSession, TableTypes, tableVars
<1>3. WorldTypes'
  BY FreedType DEF DropSession, Fault, WorldTypes, homeVars, historyVars
<1>4. ThreadInv'
  BY NoActionIsNone DEF DropSession, ThreadInv, ThreadTypes, TableTypes,
     workerVars, tableVars, historyVars
<1>5. RowInv'
  BY NoActionIsNone DEF DropSession, RowInv, ThreadTypes, TableTypes,
     workerVars, tableVars, historyVars
<1>6. CallerInv'
  BY DEF DropSession, CallerInv, ThreadTypes, TableTypes, workerVars,
     tableVars, historyVars, Caller, Decider
<1>7. DeciderInv'
  BY DEF DropSession, DeciderInv, ThreadTypes, TableTypes, workerVars,
     tableVars, historyVars, Decider
<1>8. DispatchInv'
  BY NoActionIsNone DEF DropSession, DispatchInv, ThreadTypes, TableTypes,
     WorldTypes, workerVars, tableVars, historyVars, Decider, Caller
<1> QED
  BY <1>1, <1>2, <1>3, <1>4, <1>5, <1>6, <1>7, <1>8

-----------------------------------------------------------------------------
(* The invariant holds initially and every step keeps it.                  *)

\* Nothing has been submitted, parked or entered yet.
LEMMA InitOnce == Init => OnceInv
<1> SUFFICES ASSUME Init PROVE OnceInv
  OBVIOUS
<1>1. TypeOK
  BY TypeInit
<1>2. ThreadInv
  BY DEF Init, ThreadInv
<1>3. RowInv
  BY DEF Init, RowInv
<1>4. CallerInv /\ DeciderInv
  BY DEF Init, CallerInv, DeciderInv, Caller, Decider
<1>5. DispatchInv
  BY DEF Init, DispatchInv
<1> QED
  BY <1>1, <1>2, <1>3, <1>4, <1>5 DEF OnceInv

\* The invariant across one step of Stutter.
LEMMA StutterKeepsOnce ==
    ASSUME OnceInv, UNCHANGED vars
    PROVE  OnceInv'
BY DEF OnceInv, TypeOK, ThreadTypes, TableTypes, WorldTypes, ThreadInv, RowInv,
       CallerInv, DeciderInv, DispatchInv, Caller, Decider, vars, workerVars,
       tableVars, homeVars, historyVars

\* One case for every action of Next.
LEMMA NextKeepsOnce == OnceInv /\ [Next]_vars => OnceInv'
<1> SUFFICES ASSUME OnceInv, [Next]_vars PROVE OnceInv'
  OBVIOUS
<1>1. ASSUME NEW w \in Workers, Step(w) PROVE OnceInv'
  BY <1>1, ClaimKeepsOnce, LockScopeKeepsOnce, RefreshKeepsOnce,
     EvaluateKeepsOnce, IssueApprovalKeepsOnce, BeginKeepsOnce,
     InvokeKeepsOnce, VerifyKeepsOnce, TerminalKeepsOnce, UnlockKeepsOnce,
     RunApprovedKeepsOnce, RefuseApprovedKeepsOnce, CompleteKeepsOnce DEF Step
<1>2. ASSUME Environment PROVE OnceInv'
  BY <1>2, ExpireApprovalKeepsOnce, PassExpiryKeepsOnce, ArriveLateKeepsOnce,
     OperateKeepsOnce, RaiseKeepsOnce, DropSessionKeepsOnce, CrashKeepsOnce,
     RestartKeepsOnce DEF Environment
<1> QED
  BY <1>1, <1>2, SubmitKeepsOnce, DecideKeepsOnce, StutterKeepsOnce DEF Next

-----------------------------------------------------------------------------
(* The theorems that hold with lost lock sessions too.                     *)

\* The invariant holds in every reachable state.
THEOREM OnceInvariant == Spec => []OnceInv
<1> QED
  BY InitOnce, NextKeepsOnce, PTL DEF Spec

\* The threads, the tables and the home stay well typed.
THEOREM TypeInvariant == Spec => []TypeOK
<1>1. OnceInv => TypeOK
  BY DEF OnceInv
<1> QED
  BY <1>1, OnceInvariant, PTL

\* A key is dispatched at most once: the row of the key is unique (RowInv),
\* a dispatched action has it, and it was dispatched exactly once.
THEOREM DispatchOnce == Spec => []AtMostOneDispatch
<1>1. OnceInv => AtMostOneDispatch
  <2> SUFFICES ASSUME OnceInv PROVE AtMostOneDispatch
    OBVIOUS
  <2>1. \A a \in Actions : calls[a] \in Nat
    BY DEF OnceInv, TypeOK, WorldTypes
  <2>2. \A a \in Actions : calls[a] > 0 => calls[a] = 1 /\ status[a] # "ABSENT"
    BY DEF OnceInv, DispatchInv, RowInv
  <2> QED
    BY <2>1, <2>2 DEF AtMostOneDispatch, OnceInv, RowInv
<1> QED
  BY <1>1, OnceInvariant, PTL

\* What the policy allows only confirmed is dispatched only under a granted
\* approval, whoever decides, retries or restarts.
THEOREM DispatchConfirmed == Spec => []ConfirmedDispatch
<1>1. OnceInv => ConfirmedDispatch
  BY ActionsAssumption DEF OnceInv, DispatchInv, ConfirmedDispatch
<1> QED
  BY <1>1, OnceInvariant, PTL

-----------------------------------------------------------------------------
(* What rests on the locks: it holds as long as no lock session is cut under  *)
(* a live thread.                                                             *)

-----------------------------------------------------------------------------
(* What a step of one thread leaves to the others.                          *)

\* A thread's step moves no other thread.
Alone(w) ==
    \A v \in Workers \ {w} :
        /\ pc'[v] = pc[v]
        /\ act'[v] = act[v]
        /\ conf'[v] = conf[v]
        /\ idx'[v] = idx[v]
        /\ next'[v] = next[v]
        /\ resolution'[v] = resolution[v]

\* A thread's step takes no scope from another thread.
KeepsOthers(w) ==
    \A s \in Scopes : holder[s] \notin {w, NoWorker} => holder'[s] = holder[s]

\* A thread that leaves moves no other thread.
LEMMA LeaveAlone ==
    ASSUME ThreadTypes, NEW w \in Workers, Leave(w)
    PROVE  Alone(w) /\ pc'[w] = "idle" /\ act'[w] = NoAction /\ idx'[w] = 0
           /\ ~conf'[w]
BY DEF ThreadTypes, Leave, Alone

\* A change of phase moves no other thread.
LEMMA GotoAlone ==
    ASSUME ThreadTypes, NEW w \in Workers, NEW phase, Goto(w, phase),
           UNCHANGED <<act, conf, idx, next, resolution>>
    PROVE  Alone(w) /\ pc'[w] = phase
BY DEF ThreadTypes, Goto, Alone

\* Heading for a terminal write moves no other thread.
LEMMA ConcludeAlone ==
    ASSUME ThreadTypes, NEW w \in Workers, NEW st, Conclude(w, st),
           UNCHANGED <<act, conf, resolution>>
    PROVE  /\ pc'[w] = "conclude" /\ next'[w] = st
           /\ UNCHANGED idx => Alone(w)
BY DEF ThreadTypes, Conclude, Goto, Alone

\* A release takes no scope from another thread.
LEMMA FreedKeepsOthers ==
    ASSUME NEW w \in Workers, holder' = Freed(w)
    PROVE  KeepsOthers(w)
BY DEF Freed, KeepsOthers

\* Threads are not the mark of a free scope, and scopes are listed in LocksOf.
LEMMA WorkersAreNotNone == \A w \in Workers : w # NoWorker
BY ActionsAssumption

\* Every request has at least one scope, and all are scopes.
LEMMA LocksAreScopes ==
    ASSUME NEW a \in Actions
    PROVE  /\ Len(LocksOf[a]) \in Nat /\ Len(LocksOf[a]) > 0
           /\ \A i \in 1 .. Len(LocksOf[a]) : LocksOf[a][i] \in Scopes
<1>1. LocksOf[a] \in Seq(Scopes) /\ LocksOf[a] # <<>>
  BY ActionsAssumption
<1> QED
  BY <1>1

-----------------------------------------------------------------------------
(* The locks.                                                              *)

\* If one thread moves and respects the others, its own locks suffice.
LEMMA OthersKeepLocks ==
    ASSUME TypeOK, LockInv, NEW w \in Workers, Alone(w), KeepsOthers(w),
           Holding(w)'
    PROVE  LockInv'
<1> SUFFICES ASSUME NEW v \in Workers \ {w} PROVE Holding(v)'
  BY DEF LockInv
<1>1. /\ pc'[v] = pc[v] /\ act'[v] = act[v]
      /\ idx'[v] = idx[v] /\ next'[v] = next[v]
  BY DEF Alone
<1>2. Holding(v)
  BY DEF LockInv
<1>3. ASSUME act[v] # NoAction, NEW i \in 1 .. idx[v]
      PROVE  holder'[LocksOf[act[v]][i]] = v
  <2>1. act[v] \in Actions /\ idx[v] \in Nat
    BY <1>3 DEF TypeOK, ThreadTypes
  <2>2. i \in 1 .. Len(LocksOf[act[v]]) /\ holder[LocksOf[act[v]][i]] = v
    BY <1>2, <1>3, <2>1, LocksAreScopes DEF Holding
  <2> QED
    BY <2>1, <2>2, LocksAreScopes, WorkersAreNotNone DEF KeepsOthers
<1> QED
  BY <1>1, <1>2, <1>3 DEF Holding

\* The steps that move a thread without touching its locks.
MovesOnly(w, before, after) ==
    /\ pc[w] \in before /\ pc'[w] \in after
    /\ act'[w] = act[w] /\ idx'[w] = idx[w] /\ UNCHANGED holder

\* Past its locks a thread keeps them until it unlocks.
LEMMA PastKeepsLocks ==
    ASSUME TypeOK, LockInv, NEW w \in Workers, Alone(w),
           \/ MovesOnly(w, {"refresh", "evaluate", "challenge", "begin", "invoke", "verify"},
                           {"evaluate", "challenge", "begin", "invoke", "verify", "conclude"})
           \/ MovesOnly(w, {"conclude"}, {"unlock"})
           \/ MovesOnly(w, {"idle", "approved", "rejected", "failing"},
                           {"approved", "rejected", "failing", "claim", "complete"})
    PROVE  LockInv'
<1>1. Holding(w)
  BY DEF LockInv
<1>2. KeepsOthers(w)
  BY DEF KeepsOthers, MovesOnly
<1>3. Holding(w)'
  BY <1>1 DEF Holding, MovesOnly
<1> QED
  BY <1>2, <1>3, OthersKeepLocks

\* A thread that left holds nothing.
LEMMA LeavingKeepsLocks ==
    ASSUME TypeOK, TypeOK', LockInv, NEW w \in Workers, Alone(w),
           KeepsOthers(w), idx'[w] = 0,
           pc'[w] \in {"idle", "complete", "claim", "approved", "rejected"}
    PROVE  LockInv'
<1>1. act'[w] # NoAction => Len(LocksOf[act'[w]]) \in Nat
  BY LocksAreScopes DEF TypeOK, ThreadTypes
<1>2. Holding(w)'
  BY <1>1 DEF Holding
<1> QED
  BY <1>2, OthersKeepLocks

\* The next scope is taken only when it is free; a refusal gives all back.
LEMMA LockScopeKeepsLocks ==
    ASSUME TypeOK, ThreadInv, LockInv, NEW w \in Workers, LockScope(w)
    PROVE  LockInv'
<1> DEFINE a == act[w]
           s == LocksOf[a][idx[w] + 1]
<1>0. a \in Actions
  BY BusyActs DEF LockScope, TypeOK
<1>1. Len(LocksOf[a]) \in Nat /\ idx[w] \in Nat /\ idx[w] < Len(LocksOf[a])
  BY <1>0, LocksAreScopes DEF LockInv, Holding, LockScope, TypeOK, ThreadTypes
<1>2. s \in Scopes
  BY <1>0, <1>1, LocksAreScopes
<1>3. UNCHANGED act
  BY DEF LockScope
<1>4. CASE holder[s] = NoWorker
  <2>1. /\ holder' = [holder EXCEPT ![s] = w]
        /\ idx' = [idx EXCEPT ![w] = @ + 1]
        /\ Goto(w, IF idx[w] + 1 = Len(LocksOf[a]) THEN "refresh" ELSE "lock")
        /\ UNCHANGED <<act, conf, next, resolution>>
    BY <1>4 DEF LockScope
  <2>2. Alone(w)
    BY <2>1 DEF Alone, Goto, TypeOK, ThreadTypes
  <2>3. KeepsOthers(w)
    BY <1>2, <1>4, <2>1 DEF KeepsOthers, TypeOK, WorldTypes
  <2>4. /\ idx'[w] = idx[w] + 1
        /\ pc'[w] = IF idx[w] + 1 = Len(LocksOf[a]) THEN "refresh" ELSE "lock"
    BY <2>1 DEF Goto, TypeOK, ThreadTypes
  <2>5. \A i \in 1 .. idx'[w] : holder'[LocksOf[a][i]] = w
    <3> SUFFICES ASSUME NEW i \in 1 .. idx'[w]
                 PROVE  holder'[LocksOf[a][i]] = w
      OBVIOUS
    <3>1. LocksOf[a][i] \in Scopes
      BY <1>0, <1>1, <2>4, LocksAreScopes
    <3>2. i = idx[w] + 1 \/ holder[LocksOf[a][i]] = w
      <4>1. i = idx[w] + 1 \/ i \in 1 .. idx[w]
        BY <1>1, <2>4
      <4> QED
        BY <4>1, <1>0, NoActionIsNone DEF LockInv, Holding
    <3> QED
      BY <2>1, <3>1, <3>2 DEF TypeOK, WorldTypes
  <2>6. Holding(w)'
    BY <1>0, <1>1, <1>3, <2>4, <2>5 DEF Holding
  <2> QED
    BY <2>2, <2>3, <2>6, OthersKeepLocks
<1>5. CASE holder[s] # NoWorker
  <2>1. /\ holder' = Freed(w)
        /\ idx' = [idx EXCEPT ![w] = 0]
        /\ Conclude(w, "RESOURCE_BUSY")
        /\ UNCHANGED <<act, conf, resolution>>
    BY <1>5 DEF LockScope
  <2>2. Alone(w)
    BY <2>1 DEF Alone, Conclude, Goto, TypeOK, ThreadTypes
  <2>3. idx'[w] = 0 /\ pc'[w] = "conclude" /\ next'[w] = "RESOURCE_BUSY"
    BY <2>1, ConcludeAlone DEF TypeOK, ThreadTypes
  <2>4. Holding(w)'
    BY <1>0, <1>1, <1>3, <2>3 DEF Holding
  <2> QED
    BY <2>1, <2>2, <2>4, OthersKeepLocks, FreedKeepsOthers
<1> QED
  BY <1>4, <1>5

\* Sessions are never cut under a live thread.
SessionsLast == "session" \notin FaultKinds

\* Every step keeps the locks.
LEMMA NextKeepsLocks ==
    ASSUME SessionsLast, OnceInv, OnceInv', LockInv, [Next]_vars
    PROVE  LockInv'
<1>0. TypeOK /\ TypeOK' /\ ThreadTypes /\ ThreadInv
  BY DEF OnceInv, TypeOK
<1>1. ASSUME NEW w \in Workers, Step(w) PROVE LockInv'
  <2>1. CASE Claim(w)
    <3>1. idx'[w] = 0 /\ UNCHANGED holder /\ Alone(w)
      BY <1>0, <2>1 DEF Claim, LockInv, Holding, Leave, Goto, Alone, ThreadTypes
    <3>2. \/ pc'[w] \in {"idle", "complete"}
          \/ pc'[w] = "lock" /\ UNCHANGED act
      <4>1. \/ Leave(w)
            \/ Goto(w, "complete")
            \/ Goto(w, "lock") /\ UNCHANGED act
        BY <1>0, <2>1 DEF Claim
      <4> QED
        BY <1>0, <4>1 DEF Leave, Goto, ThreadTypes
    <3>3. CASE pc'[w] = "lock" /\ UNCHANGED act
      <4>1. act[w] \in Actions
        BY <1>0, <2>1, BusyActs DEF Claim
      <4>2. Holding(w)'
        BY <1>0, <3>1, <3>3, <4>1, LocksAreScopes DEF Holding
      <4> QED
        BY <1>0, <3>1, <4>2, OthersKeepLocks DEF KeepsOthers
    <3> QED
      BY <1>0, <3>1, <3>2, <3>3, LeavingKeepsLocks DEF KeepsOthers
  <2>2. CASE LockScope(w)
    BY <1>0, <2>2, LockScopeKeepsLocks
  <2>3. CASE Refresh(w) \/ Evaluate(w) \/ Invoke(w) \/ Verify(w)
    <3>1. /\ UNCHANGED <<act, idx, holder>>
          /\ pc[w] \in {"refresh", "evaluate", "invoke", "verify"}
      BY <1>0, <2>3 DEF Refresh, Evaluate, Invoke, Verify
    <3>2. /\ Alone(w)
          /\ pc'[w] \in {"evaluate", "challenge", "begin", "verify", "conclude"}
      BY <1>0, <2>3 DEF Refresh, Evaluate, Invoke, Verify, Conclude, Goto,
         Alone, ThreadTypes
    <3> QED
      BY <1>0, <3>1, <3>2, PastKeepsLocks DEF MovesOnly
  <2>4. CASE IssueApproval(w) \/ Begin(w) \/ Terminal(w)
    <3>1. CASE Throw(w)
      BY <1>0, <3>1, LeaveAlone, FreedKeepsOthers, LeavingKeepsLocks DEF Throw
    <3>2. CASE ~Throw(w)
      <4>1. /\ UNCHANGED <<act, idx, holder>> /\ Alone(w)
            /\ \/ pc[w] \in {"challenge", "begin"}
                   /\ pc'[w] \in {"conclude", "invoke"}
               \/ pc[w] = "conclude" /\ pc'[w] = "unlock"
        BY <1>0, <2>4, <3>2 DEF IssueApproval, Begin, Terminal, Conclude, Goto,
           Alone,
                          ThreadTypes
      <4> QED
        BY <1>0, <4>1, PastKeepsLocks DEF MovesOnly
    <3> QED
      BY <1>0, <3>1, <3>2
  <2>5. CASE Unlock(w)
    <3>1. /\ holder' = Freed(w) /\ Alone(w) /\ idx'[w] = 0
          /\ pc'[w] \in {"idle", "complete"}
      BY <1>0, <2>5 DEF Unlock, Leave, Goto, Alone, ThreadTypes
    <3> QED
      BY <1>0, <3>1, FreedKeepsOthers, LeavingKeepsLocks
  <2>6. CASE RunApproved(w) \/ RefuseApproved(w)
    <3>1. /\ UNCHANGED <<act, idx, holder>> /\ Alone(w)
          /\ pc[w] \in {"approved", "rejected", "failing"}
          /\ pc'[w] \in {"claim", "failing", "complete"}
      BY <1>0, <2>6 DEF RunApproved, RefuseApproved, Goto, Alone, ThreadTypes
    <3> QED
      BY <1>0, <3>1, PastKeepsLocks DEF MovesOnly
  <2>7. CASE Complete(w)
    BY <1>0, <2>7, LeaveAlone, LeavingKeepsLocks DEF Complete, KeepsOthers
  <2> QED
    BY <1>0, <1>1, <2>1, <2>2, <2>3, <2>4, <2>5, <2>6, <2>7 DEF Step
<1>2. ASSUME NEW w \in Workers, NEW a \in Actions,
             \/ Submit(w, a)
             \/ \E choice \in {"APPROVED", "REJECTED"} : Decide(w, a, choice)
      PROVE  LockInv'
  <2>1. /\ UNCHANGED holder /\ Alone(w) /\ idx'[w] = 0
        /\ pc'[w] \in {"claim", "approved", "rejected"}
    BY <1>0, <1>2 DEF Submit, Decide, Goto, Alone, ThreadTypes, LockInv, Holding
  <2> QED
    BY <1>0, <2>1, LeavingKeepsLocks DEF KeepsOthers
<1>3. ASSUME UNCHANGED <<workerVars, holder>> PROVE LockInv'
  BY <1>0, <1>3 DEF LockInv, Holding, workerVars
<1>4. ASSUME Environment PROVE LockInv'
  <2>1. CASE \E w \in Workers : Raise(w)
    BY <1>0, <2>1, LeaveAlone, FreedKeepsOthers, LeavingKeepsLocks DEF Raise,
       Throw
  <2>2. CASE Crash
    BY <1>0, <2>2 DEF Crash, LockInv, Holding
  <2>3. CASE UNCHANGED <<workerVars, holder>>
    BY <1>0, <2>3, <1>3
  <2> QED
    BY <1>0, <1>4, <2>1, <2>2, <2>3
       DEF Environment, ExpireApproval, PassExpiry, ArriveLate, Operate,
           DropSession, Fault, Restart, SessionsLast
<1> QED
  BY <1>0, <1>1, <1>2, <1>3, <1>4 DEF Next, vars

-----------------------------------------------------------------------------
(* Two threads on one action: its caller and its approval's decider.        *)

\* Both threads hold their locks, which is impossible for two of one action.
LEMMA LocksAreExclusive ==
    ASSUME TypeOK, LockInv, NEW v \in Workers, NEW w \in Workers, v # w,
           act[v] \in Actions, act[v] = act[w],
           idx[v] = Len(LocksOf[act[v]])
    PROVE  idx[w] # Len(LocksOf[act[w]])
<1> SUFFICES ASSUME idx[w] = Len(LocksOf[act[w]]) PROVE FALSE
  OBVIOUS
<1>1. act[v] # NoAction /\ 1 \in 1 .. idx[v] /\ 1 \in 1 .. idx[w]
  BY LocksAreScopes, NoActionIsNone
<1>2. holder[LocksOf[act[v]][1]] = v /\ holder[LocksOf[act[w]][1]] = w
  BY <1>1 DEF LockInv, Holding
<1> QED
  BY <1>2

Before == {"approved", "rejected", "failing", "claim", "lock", "complete"}

\* The caller is parking the action, and the decider has not got the locks.
LEMMA CallerParks ==
    ASSUME OnceInv, LockInv, OpenInv, NEW v \in Workers, NEW w \in Workers,
           v # w, act[v] \in Actions, act[v] = act[w], Caller(v)
    PROVE  /\ Decider(w)
           /\ approval[act[v]] # "NONE"
           /\ pc[v] \in {"conclude", "unlock"}
           /\ pc[v] = "conclude" =>
                 /\ next[v] = "REQUIRE_CONFIRMATION"
                 /\ pc[w] \notin {"refresh", "evaluate", "challenge", "begin",
                                  "invoke", "verify"}
                 /\ pc[w] = "conclude" => next[w] = "RESOURCE_BUSY"
<1>1. TypeOK /\ ThreadInv /\ CallerInv /\ DeciderInv
  BY DEF OnceInv
<1>2. pc[w] # "idle"
  BY <1>1, NoActionIsNone DEF ThreadInv
<1>3. Decider(w)
  BY <1>1, <1>2 DEF CallerInv, Caller
<1>4. approval[act[v]] # "NONE"
  BY <1>1, <1>3 DEF DeciderInv
<1>5. /\ pc[v] \in {"conclude", "unlock"}
      /\ pc[v] = "conclude" => next[v] = "REQUIRE_CONFIRMATION"
  BY <1>4 DEF OpenInv, OpenThread
<1>6. ASSUME pc[v] = "conclude" PROVE idx[v] = Len(LocksOf[act[v]])
  BY <1>5, <1>6 DEF LockInv, Holding
<1>7. ASSUME pc[v] = "conclude" PROVE idx[w] # Len(LocksOf[act[w]])
  BY <1>1, <1>6, <1>7, LocksAreExclusive
<1> QED
  BY <1>3, <1>4, <1>5, <1>7 DEF LockInv, Holding

\* One of two threads on an action is the caller that parked it.
LEMMA OneParks ==
    ASSUME OnceInv, NEW v \in Workers, NEW w \in Workers,
           v # w, act[v] \in Actions, act[v] = act[w]
    PROVE  Caller(v) \/ Caller(w)
<1>1. pc[v] # "idle" /\ pc[w] # "idle"
  BY NoActionIsNone DEF OnceInv, ThreadInv
<1> QED
  BY <1>1 DEF OnceInv, DeciderInv, Caller

-----------------------------------------------------------------------------
(* Rows stay open until their outcome.                                     *)

\* What a thread may write over its row: nothing, a status that is open, the
\* start of the dispatch, or its conclusion.
Writes(w) ==
    \/ UNCHANGED status
    \/ \E st \in Statuses :
          /\ status' = [status EXCEPT ![act[w]] = st]
          /\ \/ pc[w] = "claim" /\ status[act[w]] = "ABSENT" /\ st = "PLANNED"
             \/ pc[w] \in {"rejected", "failing"} /\ st = "POLICY_DENIED"
             \/ pc[w] = "begin" /\ st = "EXECUTING"
             \/ pc[w] = "conclude" /\ st = next[w]

\* A step writes at most the status of the action its thread runs.
LEMMA StepWrites ==
    ASSUME OnceInv, NEW w \in Workers, Step(w)
    PROVE  Writes(w)
<1>0. TypeOK /\ act[w] \in Actions \cup {NoAction}
  BY DEF OnceInv, TypeOK, ThreadTypes
<1>1. CASE Claim(w)
  <2>1. RowsWithKey(act[w]) = {} => status[act[w]] = "ABSENT"
    BY <1>1, BusyActs DEF Claim, RowsWithKey, OnceInv, TypeOK
  <2> QED
    BY <1>1, <2>1 DEF Claim, Writes, Statuses
<1>2. CASE RefuseApproved(w)
  BY <1>2 DEF RefuseApproved, Writes, Statuses
<1>3. CASE Begin(w)
  BY <1>3 DEF Begin, Writes, Statuses
<1>4. CASE Terminal(w)
  BY <1>0, <1>4 DEF Terminal, Writes, TypeOK, ThreadTypes
<1>5. CASE UNCHANGED status
  BY <1>5 DEF Writes
<1> QED
  BY <1>1, <1>2, <1>3, <1>4, <1>5
     DEF Step, LockScope, Refresh, Evaluate, IssueApproval, Invoke, Verify,
         Unlock, RunApproved, Complete, tableVars

\* How a thread's step changes approvals: none, its own from NONE to PENDING,
\* or its own once it is decided.
Approves(w) ==
    \/ UNCHANGED approval
    \/ /\ pc[w] = "challenge" /\ approval[act[w]] = "NONE"
       /\ approval' = [approval EXCEPT ![act[w]] = "PENDING"]
       /\ pc'[w] = "conclude" /\ next'[w] = "REQUIRE_CONFIRMATION"
       /\ UNCHANGED act
    \/ /\ Decider(w) /\ pc[w] = "complete"
       /\ approval' = [approval EXCEPT ![act[w]] = resolution[w]]

\* A step changes at most the approval of its own action.
LEMMA StepApproves ==
    ASSUME OnceInv, NEW w \in Workers, Step(w)
    PROVE  Approves(w)
<1>1. CASE IssueApproval(w)
  BY <1>1 DEF IssueApproval, Approves, Conclude, Goto, OnceInv, TypeOK,
     ThreadTypes
<1>2. CASE Complete(w)
  BY <1>2 DEF Complete, Approves, Decider
<1>3. CASE UNCHANGED approval
  BY <1>3 DEF Approves
<1> QED
  BY <1>1, <1>2, <1>3
     DEF Step, Claim, LockScope, Refresh, Evaluate, Begin, Invoke, Verify,
         Terminal, Unlock, RunApproved, RefuseApproved, tableVars

\* Every step of a thread moves that thread only.
LEMMA StepAlone ==
    ASSUME ThreadTypes, NEW w \in Workers, Step(w)
    PROVE  Alone(w)
<1>1. CASE Claim(w) \/ LockScope(w) \/ Refresh(w) \/ Evaluate(w)
  BY <1>1 DEF Claim, LockScope, Refresh, Evaluate, Leave, Conclude, Goto, Alone,
              ThreadTypes
<1>2. CASE IssueApproval(w) \/ Begin(w) \/ Terminal(w)
  BY <1>2 DEF IssueApproval, Begin, Terminal, Throw, Leave, Conclude, Goto,
              Alone, ThreadTypes
<1>3. CASE Invoke(w) \/ Verify(w) \/ Unlock(w)
  BY <1>3 DEF Invoke, Verify, Unlock, Leave, Conclude, Goto, Alone, ThreadTypes
<1>4. CASE RunApproved(w) \/ RefuseApproved(w) \/ Complete(w)
  BY <1>4 DEF RunApproved, RefuseApproved, Complete, Leave, Goto, Alone,
              ThreadTypes
<1> QED
  BY <1>1, <1>2, <1>3, <1>4 DEF Step

\* The other threads keep finding their rows as they need them.
LEMMA OthersStayOpen ==
    ASSUME OnceInv, LockInv, OpenInv, NEW w \in Workers, Step(w),
           NEW v \in Workers \ {w}
    PROVE  OpenThread(v)'
<1>1. TypeOK /\ ThreadTypes /\ ThreadInv /\ TableTypes
  BY DEF OnceInv, TypeOK
<1>2. /\ pc'[v] = pc[v] /\ act'[v] = act[v] /\ conf'[v] = conf[v]
      /\ next'[v] = next[v]
  BY <1>1, StepAlone DEF Alone
<1>3. OpenThread(v) /\ (Caller(v)' <=> Caller(v))
  BY <1>2 DEF OpenInv, Caller, Decider
<1>4. CASE pc[v] = "idle"
  BY <1>2, <1>4 DEF OpenThread, Caller
<1>5. CASE pc[v] # "idle" /\ act[v] # act[w]
  <2>1. act[v] \in Actions
    BY <1>1, <1>5, BusyActs
  <2>2. status'[act[v]] = status[act[v]]
    BY <1>1, <1>5, <2>1, StepWrites DEF Writes, TableTypes
  <2>3. approval'[act[v]] = approval[act[v]]
    BY <1>1, <1>5, <2>1, StepApproves DEF Approves, TableTypes
  <2> QED
    BY <1>2, <1>3, <2>2, <2>3 DEF OpenThread
<1>6. CASE pc[v] # "idle" /\ act[v] = act[w]
  <2>1. act[v] \in Actions
    BY <1>1, <1>6, BusyActs
  <2>2. CASE Caller(v)
    <3>1. /\ approval[act[v]] # "NONE"
          /\ pc[v] \in {"conclude", "unlock"}
          /\ pc[v] = "conclude" =>
                /\ next[v] = "REQUIRE_CONFIRMATION"
                /\ pc[w] # "begin"
                /\ pc[w] = "conclude" => next[w] = "RESOURCE_BUSY"
      BY <1>6, <2>1, <2>2, CallerParks
    <3>2. pc[v] = "conclude" => status'[act[v]] \notin FinalStatuses
      BY <1>1, <1>3, <1>6, <2>1, <3>1, StepWrites
         DEF Writes, OpenThread, FinalStatuses, TableTypes
    <3> QED
      BY <1>2, <3>1, <3>2 DEF OpenThread
  <2>3. CASE ~Caller(v)
    <3>1. Caller(w)
      BY <1>6, <2>1, <2>3, OneParks
    <3>2. /\ pc[w] \in {"conclude", "unlock"}
          /\ pc[w] = "conclude" =>
                /\ next[w] = "REQUIRE_CONFIRMATION"
                /\ pc[v] \notin {"invoke", "verify"}
      BY <1>6, <2>1, <3>1, CallerParks
    <3>3. \/ UNCHANGED status
          \/ /\ status'[act[v]] = "REQUIRE_CONFIRMATION"
             /\ pc[v] \notin {"invoke", "verify"}
      BY <1>1, <1>6, <2>1, <3>2, StepWrites DEF Writes, TableTypes
    <3> QED
      BY <1>2, <1>3, <2>3, <3>3
         DEF OpenThread, OpenStatuses, FinalStatuses, Statuses
  <2> QED
    BY <2>2, <2>3
<1> QED
  BY <1>4, <1>5, <1>6

\* The caller of an action with an approval only parks it.
LEMMA ParkingCaller ==
    ASSUME OnceInv, OpenInv, NEW w \in Workers, Caller(w),
           pc[w] \notin {"conclude", "unlock"}
    PROVE  approval[act[w]] = "NONE"
BY DEF OpenInv, OpenThread

\* The thread that moves finds its row as it needs it.
LEMMA StepStaysOpen ==
    ASSUME OnceInv, LockInv, OpenInv, NEW w \in Workers, Step(w)
    PROVE  OpenThread(w)'
<1>1. TypeOK /\ ThreadTypes /\ ThreadInv /\ TableTypes /\ RowInv
  BY DEF OnceInv, TypeOK
<1>2. act[w] \in Actions
  BY <1>1, BusyActs DEF Step, Claim, LockScope, Refresh, Evaluate,
     IssueApproval, Begin, Invoke, Verify, Terminal, Unlock, RunApproved,
     RefuseApproved, Complete
<1>3. OpenThread(w)
  BY DEF OpenInv
<1>4. ASSUME pc'[w] = "idle" PROVE OpenThread(w)'
  BY <1>4 DEF OpenThread, Caller
<1>5. CASE Claim(w)
  <2>1. UNCHANGED approval
    BY <1>5 DEF Claim
  <2>2. pc[w] = "claim"
    BY <1>5 DEF Claim
  <2>3. CASE RowsWithKey(act[w]) = {}
    <3>1. /\ status'[act[w]] = "PLANNED" /\ pc'[w] = "lock"
          /\ act'[w] = act[w] /\ conf'[w] = conf[w]
      BY <1>1, <1>2, <1>5, <2>3 DEF Claim, Goto, ThreadTypes, TableTypes
    <3>2. Caller(w)' => Caller(w)
      BY <2>2, <3>1 DEF Caller, Decider
    <3> QED
      BY <1>3, <2>1, <2>2, <3>1, <3>2
         DEF OpenThread, OpenStatuses, FinalStatuses, Statuses
  <2>4. CASE RowsWithKey(act[w]) # {}
    <3>1. PICK row \in RowsWithKey(act[w]) :
             /\ UNCHANGED status
             /\ \/ Leave(w)
                \/ /\ UNCHANGED <<act, conf>>
                   /\ \/ Goto(w, "lock") /\ status[row] \in Resumable
                      \/ Goto(w, "complete") /\ conf[w]
      BY <1>5, <2>4 DEF Claim
    <3>2. status[act[w]] \in {"ABSENT", status[row]}
      BY <1>1, <1>2, <3>1 DEF RowInv, RowsWithKey
    <3>3. CASE Leave(w)
      BY <1>1, <1>4, <3>3 DEF Leave, ThreadTypes
    <3>4. CASE UNCHANGED <<act, conf>> /\ Goto(w, "lock")
           /\ status[row] \in Resumable
      <4>1. pc'[w] = "lock" /\ (Caller(w)' => Caller(w))
        BY <1>1, <2>2, <3>4 DEF Goto, ThreadTypes, Caller, Decider
      <4>2. status'[act'[w]] \in OpenStatuses
        BY <3>1, <3>2, <3>4 DEF Resumable, OpenStatuses, FinalStatuses, Statuses
      <4> QED
        BY <1>3, <2>1, <2>2, <3>4, <4>1, <4>2 DEF OpenThread
    <3>5. CASE UNCHANGED <<act, conf>> /\ Goto(w, "complete") /\ conf[w]
      <4>1. pc'[w] = "complete"
        BY <1>1, <3>5 DEF Goto, ThreadTypes
      <4> QED
        BY <4>1 DEF OpenThread, Caller, Decider
    <3> QED
      BY <3>1, <3>3, <3>4, <3>5
  <2> QED
    BY <2>3, <2>4
<1>6. CASE LockScope(w) \/ Refresh(w) \/ Evaluate(w)
  <2>1. /\ UNCHANGED <<status, approval, act, conf>>
        /\ pc[w] \in {"lock", "refresh", "evaluate"}
    BY <1>6 DEF LockScope, Refresh, Evaluate, tableVars
  <2>2. pc'[w] \in {"lock", "refresh", "evaluate", "challenge", "begin", "conclude"}
    BY <1>1, <1>6 DEF LockScope, Refresh, Evaluate, Conclude, Goto, ThreadTypes
  <2>3. Caller(w)' => Caller(w)
    BY <2>1, <2>2 DEF Caller, Decider
  <2> QED
    BY <1>3, <2>1, <2>2, <2>3 DEF OpenThread, OpenStatuses
<1>7. CASE IssueApproval(w)
  <2>1. UNCHANGED status /\ pc[w] = "challenge"
    BY <1>7 DEF IssueApproval
  <2>2. CASE Throw(w)
    BY <1>1, <1>4, <2>2 DEF Throw, Leave, ThreadTypes
  <2>3. CASE ~Throw(w)
    <3>1. /\ pc'[w] = "conclude" /\ UNCHANGED <<act, conf>>
          /\ UNCHANGED approval \/ next'[w] = "REQUIRE_CONFIRMATION"
      BY <1>1, <1>7, <2>3 DEF IssueApproval, Conclude, Goto, ThreadTypes
    <3>2. Caller(w)' => Caller(w)
      BY <2>1, <3>1 DEF Caller, Decider
    <3> QED
      BY <1>3, <2>1, <3>1, <3>2 DEF OpenThread, OpenStatuses
  <2> QED
    BY <2>2, <2>3
<1>8. CASE Begin(w)
  <2>1. UNCHANGED approval /\ pc[w] = "begin"
    BY <1>8 DEF Begin
  <2>2. CASE Throw(w)
    BY <1>1, <1>4, <2>2 DEF Throw, Leave, ThreadTypes
  <2>3. CASE ~Throw(w)
    <3>1. /\ pc'[w] = "invoke" /\ UNCHANGED <<act, conf>>
          /\ status'[act[w]] = "EXECUTING"
      BY <1>1, <1>2, <1>8, <2>3 DEF Begin, Goto, ThreadTypes, TableTypes
    <3>2. Caller(w)' => Caller(w)
      BY <2>1, <3>1 DEF Caller, Decider
    <3> QED
      BY <1>3, <2>1, <3>1, <3>2 DEF OpenThread
  <2> QED
    BY <2>2, <2>3
<1>9. CASE Invoke(w) \/ Verify(w)
  <2>1. /\ UNCHANGED <<status, approval, act, conf>>
        /\ pc[w] \in {"invoke", "verify"}
    BY <1>9 DEF Invoke, Verify, tableVars
  <2>2. pc'[w] \in {"verify", "conclude"}
    BY <1>1, <1>9 DEF Invoke, Verify, Conclude, Goto, ThreadTypes
  <2>3. Caller(w)' => Caller(w)
    BY <2>1, <2>2 DEF Caller, Decider
  <2> QED
    BY <1>3, <2>1, <2>2, <2>3 DEF OpenThread, FinalStatuses
<1>10. CASE Terminal(w) \/ Unlock(w) \/ Complete(w)
  <2>1. \/ pc'[w] \in {"idle", "complete"}
        \/ /\ pc'[w] = "unlock" /\ pc[w] = "conclude"
    BY <1>1, <1>10 DEF Terminal, Unlock, Complete, Throw, Leave, Goto,
       ThreadTypes
  <2> QED
    BY <2>1 DEF OpenThread, Caller, Decider
<1>11. CASE RunApproved(w) \/ RefuseApproved(w)
  <2>1. /\ UNCHANGED <<act, approval>>
        /\ pc[w] \in {"approved", "rejected", "failing"}
        /\ \/ pc'[w] = "claim" /\ conf'[w]
           \/ pc'[w] = "failing" /\ UNCHANGED status
           \/ pc'[w] = "complete"
    BY <1>1, <1>11 DEF RunApproved, RefuseApproved, Goto, ThreadTypes, tableVars
  <2> QED
    BY <1>3, <2>1 DEF OpenThread, Caller, Decider
<1> QED
  BY <1>5, <1>6, <1>7, <1>8, <1>9, <1>10, <1>11 DEF Step

\* A row with a pending approval is open, and its action has a caller.
OpenRows ==
    \A a \in Actions : /\ approval[a] = "PENDING" => status[a] \in OpenStatuses
                       /\ approval[a] # "NONE" => a \in submitted

\* A step leaves the rows of pending approvals open.
LEMMA StepKeepsRowsOpen ==
    ASSUME OnceInv, LockInv, OpenInv, NEW w \in Workers, Step(w)
    PROVE  OpenRows'
<1>1. TypeOK /\ TableTypes /\ ThreadInv
  BY DEF OnceInv, TypeOK
<1>2. act[w] \in Actions
  BY <1>1, BusyActs DEF Step, Claim, LockScope, Refresh, Evaluate,
     IssueApproval, Begin, Invoke, Verify, Terminal, Unlock, RunApproved,
     RefuseApproved, Complete, TypeOK
<1>3. UNCHANGED submitted
  BY DEF Step, Claim, LockScope, Refresh, Evaluate, IssueApproval, Begin,
     Invoke, Verify, Terminal, Unlock, RunApproved, RefuseApproved, Complete
<1> SUFFICES ASSUME NEW a \in Actions
             PROVE  /\ approval'[a] = "PENDING" => status'[a] \in OpenStatuses
                    /\ approval'[a] # "NONE" => a \in submitted
  BY <1>3 DEF OpenRows
<1>4. /\ approval[a] = "PENDING" => status[a] \in OpenStatuses
      /\ approval[a] # "NONE" => a \in submitted
  BY DEF OpenInv
<1>5. CASE a # act[w]
  BY <1>1, <1>2, <1>4, <1>5, StepWrites, StepApproves
     DEF Writes, Approves, TableTypes
<1>6. CASE a = act[w]
  <2>1. Decider(w) => approval[a] \notin {"NONE", "PENDING"}
    BY <1>6 DEF OnceInv, DeciderInv
  <2>2. ~Decider(w) => Caller(w)
    BY DEF Caller, Step, Claim, LockScope, Refresh, Evaluate, IssueApproval,
       Begin, Invoke, Verify, Terminal, Unlock, RunApproved, RefuseApproved,
       Complete
  <2>3. Caller(w) => a \in submitted
    BY <1>6 DEF OnceInv, CallerInv
  <2>4. CASE UNCHANGED approval
    <3>1. ASSUME approval[a] = "PENDING" PROVE status'[a] \in OpenStatuses
      <4>1. Caller(w)
        BY <2>1, <2>2, <3>1
      <4>2. /\ pc[w] \in {"conclude", "unlock"}
            /\ pc[w] = "conclude" => next[w] = "REQUIRE_CONFIRMATION"
        BY <1>6, <3>1, <4>1 DEF OpenInv, OpenThread
      <4>3. \/ UNCHANGED status
            \/ status'[a] = "REQUIRE_CONFIRMATION"
        BY <1>1, <1>6, <4>2, StepWrites DEF Writes, TableTypes
      <4> QED
        BY <1>4, <3>1, <4>3 DEF OpenStatuses, Statuses, FinalStatuses
    <3> QED
      BY <1>4, <2>4, <3>1
  <2>5. CASE /\ pc[w] = "challenge" /\ approval[a] = "NONE"
             /\ approval' = [approval EXCEPT ![a] = "PENDING"]
    <3>1. Caller(w) /\ status[a] \in OpenStatuses
      BY <1>6, <2>1, <2>2, <2>5 DEF OpenInv, OpenThread
    <3>2. UNCHANGED status
      BY <2>5, StepWrites DEF Writes
    <3> QED
      BY <2>3, <3>1, <3>2
  <2>6. CASE /\ Decider(w) /\ pc[w] = "complete"
             /\ approval' = [approval EXCEPT ![a] = resolution[w]]
    <3>1. approval[a] # "NONE" /\ resolution[w] # "PENDING"
      BY <1>6, <2>1, <2>6 DEF OnceInv, DeciderInv
    <3> QED
      BY <1>1, <1>4, <2>6, <3>1 DEF TableTypes
  <2> QED
    BY <1>6, <2>4, <2>5, <2>6, StepApproves DEF Approves
<1> QED
  BY <1>5, <1>6

\* Every step keeps the undecided rows open.
LEMMA NextKeepsOpen ==
    ASSUME OnceInv, OnceInv', LockInv, OpenInv, [Next]_vars
    PROVE  OpenInv'
<1>0. TypeOK /\ ThreadTypes /\ TableTypes /\ ThreadInv
  BY DEF OnceInv, TypeOK
<1>1. ASSUME NEW w \in Workers, Step(w) PROVE OpenInv'
  BY <1>1, StepStaysOpen, OthersStayOpen, StepKeepsRowsOpen DEF OpenInv,
     OpenRows
<1>2. ASSUME NEW w \in Workers, NEW a \in Actions, Submit(w, a) PROVE OpenInv'
  <2>1. /\ UNCHANGED <<status, approval>> /\ submitted \subseteq submitted'
        /\ a \notin submitted /\ pc'[w] = "claim" /\ act'[w] = a
    BY <1>0, <1>2 DEF Submit, Goto, ThreadTypes, tableVars
  <2>2. OpenThread(w)'
    BY <2>1 DEF OpenInv, OpenThread
  <2>3. \A v \in Workers \ {w} : /\ pc'[v] = pc[v] /\ act'[v] = act[v]
                                 /\ conf'[v] = conf[v] /\ next'[v] = next[v]
    BY <1>0, <1>2 DEF Submit, Goto, ThreadTypes
  <2>4. \A v \in Workers \ {w} : OpenThread(v)'
    BY <2>1, <2>3 DEF OpenInv, OpenThread, Caller, Decider
  <2> QED
    BY <2>1, <2>2, <2>4 DEF OpenInv
<1>3. ASSUME NEW w \in Workers, NEW a \in Actions,
             NEW choice \in {"APPROVED", "REJECTED"}, Decide(w, a, choice)
      PROVE  OpenInv'
  <2>1. /\ UNCHANGED <<status, submitted>>
        /\ pc'[w] \in {"approved", "rejected"} /\ act'[w] = a
    BY <1>0, <1>3 DEF Decide, Goto, ThreadTypes
  <2>2. /\ approval[a] = "PENDING"
       
               /\ \A b \in Actions : approval'[b] = IF b = a THEN choice ELSE approval[b]
    BY <1>0, <1>3 DEF Decide, TableTypes
  <2>3. OpenThread(w)'
    BY <2>1, <2>2 DEF OpenInv, OpenThread, Caller, Decider
  <2>4. \A v \in Workers \ {w} : /\ pc'[v] = pc[v] /\ act'[v] = act[v]
                                 /\ conf'[v] = conf[v] /\ next'[v] = next[v]
    BY <1>0, <1>3 DEF Decide, Goto, ThreadTypes
  <2>5. ASSUME NEW v \in Workers \ {w} PROVE OpenThread(v)'
    <3>1. OpenThread(v)
      BY DEF OpenInv
    <3>2. Caller(v) => act[v] \in Actions
      BY <1>0, BusyActs DEF Caller
    <3>3. Caller(v)' <=> Caller(v)
      BY <2>4 DEF Caller, Decider
    <3> QED
      BY <2>1, <2>2, <2>4, <3>1, <3>2, <3>3 DEF OpenThread
  <2>6. OpenRows'
    BY <2>1, <2>2 DEF OpenInv, OpenRows
  <2> QED
    BY <2>3, <2>5, <2>6 DEF OpenInv, OpenRows
<1>4. ASSUME UNCHANGED <<pc, act, conf, next, status, submitted>>,
             \A a \in Actions : \/ approval'[a] = approval[a]
                                \/ /\ approval[a] # "NONE"
                                   /\ approval'[a] \notin {"NONE", "PENDING"}
      PROVE  OpenInv'
  <2>1. ASSUME NEW v \in Workers PROVE OpenThread(v)'
    <3>1. OpenThread(v)
      BY DEF OpenInv
    <3>2. Caller(v) => act[v] \in Actions
      BY <1>0, BusyActs DEF Caller
    <3>3. Caller(v)' <=> Caller(v)
      BY <1>4 DEF Caller, Decider
    <3> QED
      BY <1>4, <3>1, <3>2, <3>3 DEF OpenThread
  <2> QED
    BY <1>4, <2>1 DEF OpenInv
<1>5. ASSUME NEW w \in Workers, Raise(w) PROVE OpenInv'
  <2>1. /\ UNCHANGED <<status, approval, submitted>> /\ pc'[w] = "idle"
        /\ \A v \in Workers \ {w} : /\ pc'[v] = pc[v] /\ act'[v] = act[v]
                                    /\ conf'[v] = conf[v] /\ next'[v] = next[v]
    BY <1>0, <1>5 DEF Raise, Throw, Leave, ThreadTypes, tableVars
  <2>2. OpenThread(w)'
    BY <2>1 DEF OpenThread, Caller
  <2>3. \A v \in Workers \ {w} : OpenThread(v)'
    BY <2>1 DEF OpenInv, OpenThread, Caller, Decider
  <2> QED
    BY <2>1, <2>2, <2>3 DEF OpenInv
<1>6. ASSUME Crash PROVE OpenInv'
  BY <1>6 DEF Crash, OpenInv, OpenThread, Caller, tableVars
<1>7. ASSUME Restart PROVE OpenInv'
  <2>1. /\ UNCHANGED <<approval, submitted>>
        /\ \A v \in Workers : pc'[v] = "idle"
    BY <1>0, <1>7 DEF Restart, ThreadInv, workerVars
  <2>2. \A a \in Actions : status[a] \in OpenStatuses => status'[a] \in OpenStatuses
    BY <1>7 DEF Restart, Recovered, OpenStatuses, FinalStatuses, Statuses
  <2> QED
    BY <2>1, <2>2 DEF OpenInv, OpenThread, Caller
<1>8. ASSUME NEW a \in Actions, ExpireApproval(a) PROVE OpenInv'
  <2>1. /\ UNCHANGED <<pc, act, conf, next, status, submitted>>
        /\ \A b \in Actions : \/ approval'[b] = approval[b]
                              \/ /\ approval[b] = "PENDING"
                                 /\ approval'[b] = "EXPIRED"
    BY <1>0, <1>8 DEF ExpireApproval, workerVars, TableTypes
  <2> QED
    BY <1>4, <2>1
<1>9. ASSUME UNCHANGED <<pc, act, conf, next, status, submitted, approval>>
      PROVE  OpenInv'
  BY <1>4, <1>9
<1>10. ASSUME Environment PROVE OpenInv'
  BY <1>10, <1>5, <1>6, <1>7, <1>8, <1>9
     DEF Environment, PassExpiry, ArriveLate, Operate, DropSession, workerVars,
         tableVars
<1> QED
  BY <1>1, <1>2, <1>3, <1>9, <1>10 DEF Next, vars, workerVars, tableVars

-----------------------------------------------------------------------------
(* Outcomes.                                                               *)

\* A dispatch that is counted: by a thread at invoke, which then concludes
\* with a success or an unknown result, or goes on to verify.
Enters(w) ==
    \/ UNCHANGED calls
    \/ /\ pc[w] = "invoke"
       /\ calls' = [calls EXCEPT ![act[w]] = @ + 1]
       /\ UNCHANGED <<act, status>>
       /\ pc'[w] = "conclude" => next'[w] \in {"SUCCEEDED", "UNKNOWN_RESULT"}

\* Only Invoke enters a connector, and only for its own action.
LEMMA StepEnters ==
    ASSUME OnceInv, NEW w \in Workers, Step(w)
    PROVE  Enters(w)
<1>1. CASE Invoke(w)
  BY <1>1 DEF Invoke, Enters, Conclude, Goto, OnceInv, TypeOK, ThreadTypes,
              tableVars
<1>2. CASE UNCHANGED calls
  BY <1>2 DEF Enters
<1> QED
  BY <1>1, <1>2
     DEF Step, Claim, LockScope, Refresh, Evaluate, IssueApproval, Begin,
         Verify, Terminal, Unlock, RunApproved, RefuseApproved, Complete,
         historyVars

\* The thread that may enter the connector has not entered it yet.
LEMMA NotEnteredYet ==
    ASSUME OnceInv, OpenInv, NEW w \in Workers, act[w] \in Actions,
           pc[w] \in {"lock", "refresh", "evaluate", "challenge", "begin", "invoke"}
    PROVE  ~(calls[act[w]] > 0)
<1> SUFFICES ASSUME calls[act[w]] > 0 PROVE FALSE
  OBVIOUS
<1>1. act[w] \in Confirmed /\ ~Decider(w)
  BY DEF OnceInv, DispatchInv
<1>2. approval[act[w]] = "APPROVED"
  BY <1>1 DEF OnceInv, DispatchInv
<1>3. Caller(w)
  BY <1>1 DEF Caller
<1> QED
  BY <1>2, <1>3 DEF OpenInv, OpenThread

\* What the thread that moves will write over a dispatched row admits it.
LEMMA StepKeepsOutcome ==
    ASSUME OnceInv, OpenInv, OutcomeInv, NEW w \in Workers, Step(w)
    PROVE  pc'[w] = "conclude" /\ calls'[act'[w]] > 0
               => next'[w] \in DispatchStatuses
<1>1. TypeOK /\ ThreadTypes /\ ThreadInv /\ WorldTypes
  BY DEF OnceInv, TypeOK
<1> SUFFICES ASSUME pc'[w] = "conclude", calls'[act'[w]] > 0
             PROVE  next'[w] \in DispatchStatuses
  OBVIOUS
<1>2. pc[w] \in {"lock", "refresh", "evaluate", "challenge", "invoke", "verify"}
  BY <1>1 DEF Step, Claim, LockScope, Refresh, Evaluate, IssueApproval, Begin,
              Invoke, Verify, Terminal, Unlock, RunApproved, RefuseApproved,
              Complete, Throw, Leave, Conclude, Goto, ThreadTypes
<1>3. act[w] \in Actions
  BY <1>1, <1>2, BusyActs
<1>4. act'[w] = act[w]
  BY <1>1, <1>2 DEF Step, Claim, LockScope, Refresh, Evaluate, IssueApproval,
              Begin, Invoke, Verify, Terminal, Unlock, RunApproved,
              RefuseApproved, Complete, Throw, Leave, Conclude, Goto, ThreadTypes
<1>5. CASE UNCHANGED calls
  <2>1. pc[w] = "verify"
    BY <1>2, <1>3, <1>4, <1>5, NotEnteredYet
  <2>2. Verify(w)
    BY <2>1 DEF Step, Claim, LockScope, Refresh, Evaluate, IssueApproval, Begin,
              Invoke, Terminal, Unlock, RunApproved, RefuseApproved, Complete
  <2>3. next'[w] \in {"SUCCEEDED", "PARTIAL", "VERIFICATION_FAILED", "UNKNOWN_RESULT"}
    BY <1>1, <2>2, VerdictStatus DEF Verify, Conclude, ThreadTypes
  <2> QED
    BY <2>3 DEF DispatchStatuses
<1>6. CASE next'[w] \in {"SUCCEEDED", "UNKNOWN_RESULT"}
  BY <1>6 DEF DispatchStatuses
<1> QED
  BY <1>5, <1>6, StepEnters DEF Enters

\* A step that enters no other connector keeps the other outcomes.
LEMMA OthersKeepOutcome ==
    ASSUME OnceInv, LockInv, OpenInv, OutcomeInv, NEW w \in Workers, Step(w),
           NEW v \in Workers \ {w}
    PROVE  pc'[v] = "conclude" /\ calls'[act'[v]] > 0
               => next'[v] \in DispatchStatuses
<1>1. TypeOK /\ ThreadTypes /\ ThreadInv /\ WorldTypes
  BY DEF OnceInv, TypeOK
<1>2. pc'[v] = pc[v] /\ act'[v] = act[v] /\ next'[v] = next[v]
  BY <1>1, StepAlone DEF Alone
<1> SUFFICES ASSUME pc[v] = "conclude", calls'[act[v]] > 0
             PROVE  next[v] \in DispatchStatuses
  BY <1>2
<1>3. act[v] \in Actions
  BY <1>1, BusyActs
<1>4. CASE calls'[act[v]] = calls[act[v]]
  BY <1>4 DEF OutcomeInv
<1>5. CASE calls'[act[v]] # calls[act[v]]
  <2>1. pc[w] = "invoke" /\ act[v] = act[w]
    BY <1>1, <1>3, <1>5, StepEnters DEF Enters, WorldTypes
  <2>2. ~Caller(w)
    BY <1>3, <2>1, CallerParks
  <2>3. Caller(v)
    BY <1>3, <2>1, <2>2, OneParks
  <2> QED
    BY <1>3, <2>1, <2>3, CallerParks
<1> QED
  BY <1>4, <1>5

\* Every step keeps the planned outcomes truthful.
LEMMA NextKeepsOutcome ==
    ASSUME OnceInv, LockInv, OpenInv, OutcomeInv, [Next]_vars
    PROVE  OutcomeInv'
<1>0. TypeOK /\ ThreadTypes /\ ThreadInv
  BY DEF OnceInv, TypeOK
<1>1. ASSUME NEW w \in Workers, Step(w) PROVE OutcomeInv'
  BY <1>1, StepKeepsOutcome, OthersKeepOutcome DEF OutcomeInv
<1>2. ASSUME NEW w \in Workers, UNCHANGED calls, pc'[w] # "conclude",
             \A v \in Workers \ {w} : /\ pc'[v] = pc[v] /\ act'[v] = act[v]
                                      /\ next'[v] = next[v]
      PROVE  OutcomeInv'
  BY <1>2 DEF OutcomeInv
<1>3. ASSUME NEW w \in Workers, NEW a \in Actions, Submit(w, a) PROVE OutcomeInv'
  <2>1. /\ UNCHANGED calls /\ pc'[w] # "conclude"
        /\ \A v \in Workers \ {w} : /\ pc'[v] = pc[v] /\ act'[v] = act[v]
                                    /\ next'[v] = next[v]
    BY <1>0, <1>3 DEF Submit, Goto, ThreadTypes, historyVars
  <2> QED
    BY <1>2, <2>1
<1>4. ASSUME NEW w \in Workers, NEW a \in Actions,
             NEW choice \in {"APPROVED", "REJECTED"}, Decide(w, a, choice)
      PROVE  OutcomeInv'
  <2>1. /\ UNCHANGED calls /\ pc'[w] # "conclude"
        /\ \A v \in Workers \ {w} : /\ pc'[v] = pc[v] /\ act'[v] = act[v]
                                    /\ next'[v] = next[v]
    BY <1>0, <1>4 DEF Decide, Goto, ThreadTypes, historyVars
  <2> QED
    BY <1>2, <2>1
<1>5. ASSUME NEW w \in Workers, Raise(w) PROVE OutcomeInv'
  <2>1. /\ UNCHANGED calls /\ pc'[w] # "conclude"
        /\ \A v \in Workers \ {w} : /\ pc'[v] = pc[v] /\ act'[v] = act[v]
                                    /\ next'[v] = next[v]
    BY <1>0, <1>5 DEF Raise, Throw, Leave, ThreadTypes, historyVars
  <2> QED
    BY <1>2, <2>1
<1>6. ASSUME Crash PROVE OutcomeInv'
  BY <1>6 DEF Crash, OutcomeInv
<1>7. ASSUME UNCHANGED <<pc, act, next, calls>> PROVE OutcomeInv'
  BY <1>7 DEF OutcomeInv
<1>8. ASSUME Environment PROVE OutcomeInv'
  BY <1>5, <1>6, <1>7, <1>8
     DEF Environment, ExpireApproval, PassExpiry, ArriveLate, Operate,
         DropSession, Restart, workerVars, historyVars
<1> QED
  BY <1>1, <1>3, <1>4, <1>7, <1>8 DEF Next, vars, workerVars, historyVars

\* Every step keeps a dispatched row admitting its dispatch.
LEMMA NextKeepsRecord ==
    ASSUME OnceInv, OpenInv, OutcomeInv, DispatchIsRecorded, [Next]_vars
    PROVE  DispatchIsRecorded'
<1>0. TypeOK /\ ThreadTypes /\ TableTypes /\ WorldTypes /\ ThreadInv
  BY DEF OnceInv, TypeOK
<1>1. ASSUME NEW w \in Workers, Step(w) PROVE DispatchIsRecorded'
  <2> SUFFICES ASSUME NEW a \in Actions, calls'[a] > 0
               PROVE  status'[a] \in DispatchStatuses
    BY DEF DispatchIsRecorded
  <2>1. act[w] \in Actions
    BY <1>0, <1>1, BusyActs DEF Step, Claim, LockScope, Refresh, Evaluate,
       IssueApproval, Begin, Invoke, Verify, Terminal, Unlock, RunApproved,
       RefuseApproved, Complete
  <2>2. CASE ~(calls[a] > 0)
    <3>1. pc[w] = "invoke" /\ act[w] = a /\ UNCHANGED status
      BY <1>0, <1>1, <2>1, <2>2, StepEnters DEF Enters, WorldTypes
    <3> QED
      BY <3>1 DEF OpenInv, OpenThread, DispatchStatuses
  <2>3. CASE calls[a] > 0
    <3>1. status[a] \in DispatchStatuses
      BY <2>3 DEF DispatchIsRecorded
    <3>2. CASE a # act[w]
      BY <1>0, <1>1, <2>1, <3>1, <3>2, StepWrites DEF Writes, TableTypes
    <3>3. CASE a = act[w]
      <4>1. pc[w] \notin {"rejected", "failing"}
        BY <3>1, <3>3 DEF OpenInv, OpenThread, OpenStatuses, FinalStatuses,
                          DispatchStatuses
      <4>2. pc[w] = "conclude" => next[w] \in DispatchStatuses
        BY <2>3, <3>3 DEF OutcomeInv
      <4> QED
        BY <1>0, <1>1, <2>1, <3>1, <3>3, <4>1, <4>2, StepWrites
           DEF Writes, DispatchStatuses, TableTypes
    <3> QED
      BY <3>2, <3>3
  <2> QED
    BY <2>2, <2>3
<1>2. ASSUME UNCHANGED calls, \A a \in Actions : \/ status'[a] = status[a]
                                                 \/ status'[a] = "UNKNOWN_RESULT"
                                                 \/ status[a] \notin DispatchStatuses
      PROVE  DispatchIsRecorded'
  BY <1>2 DEF DispatchIsRecorded, DispatchStatuses
<1>3. ASSUME Restart PROVE DispatchIsRecorded'
  <2>1. UNCHANGED calls /\ \A a \in Actions : \/ status'[a] = status[a]
                                               \/ status'[a] = "UNKNOWN_RESULT"
                                               \/ status[a] \notin DispatchStatuses
    BY <1>3 DEF Restart, Recovered, DispatchStatuses, historyVars
  <2> QED
    BY <1>2, <2>1
<1>4. ASSUME UNCHANGED <<calls, status>> PROVE DispatchIsRecorded'
  BY <1>4 DEF DispatchIsRecorded
<1>5. ASSUME Environment PROVE DispatchIsRecorded'
  BY <1>3, <1>4, <1>5
     DEF Environment, ExpireApproval, PassExpiry, ArriveLate, Operate, Raise,
         DropSession, Crash, tableVars, historyVars
<1> QED
  BY <1>1, <1>4, <1>5 DEF Next, Submit, Decide, vars, tableVars, historyVars

\* What a thread observes of its own action, and of no other.
LEMMA StepObserves ==
    ASSUME OnceInv, NEW w \in Workers, Step(w)
    PROVE  \/ UNCHANGED witness
           \/ /\ pc[w] \in {"refresh", "verify"}
              /\ UNCHANGED status
              /\ \A b \in Actions : b # act[w] => witness'[b] = witness[b]
<1>1. CASE Refresh(w) \/ Verify(w)
  BY <1>1 DEF Refresh, Verify, OnceInv, TypeOK, WorldTypes, tableVars
<1> QED
  BY <1>1 DEF Step, Claim, LockScope, Evaluate, IssueApproval, Begin, Invoke,
     Terminal, Unlock, RunApproved, RefuseApproved, Complete, historyVars

\* A snapshot that satisfies or verifies a request is what the devices were.
LEMMA SnapshotObserves ==
    ASSUME NEW a \in Actions, NEW seen \in SUBSET DOMAIN WantOf[a],
           device \in [Devices -> Readings]
    PROVE  /\ Satisfied(a, Snapshot(a, seen))
              => \A d \in DOMAIN WantOf[a] : device[d] = WantOf[a][d]
           /\ Verdict(a, Snapshot(a, seen)) = "SUCCEEDED"
              => \A d \in DOMAIN WantOf[a] : device[d] = WantOf[a][d]
<1>1. \A d \in DOMAIN WantOf[a] :
         Snapshot(a, seen)[d] = WantOf[a][d] => device[d] = WantOf[a][d]
  <2> SUFFICES ASSUME NEW d \in DOMAIN WantOf[a],
                      Snapshot(a, seen)[d] = WantOf[a][d]
               PROVE  device[d] = WantOf[a][d]
    OBVIOUS
  <2>1. WantOf[a][d] # "UNKNOWN"
    BY EffectsAreReadings DEF Readings
  <2> QED
    BY <2>1 DEF Snapshot
<1>2. Verdict(a, Snapshot(a, seen)) = "SUCCEEDED"
         => \A d \in DOMAIN WantOf[a] : Snapshot(a, seen)[d] = WantOf[a][d]
  BY DEF Verdict
<1> QED
  BY <1>1, <1>2 DEF Satisfied

\* The thread that comes to write SUCCEEDED has just observed it.
LEMMA StepHasObserved ==
    ASSUME OnceInv, OpenInv, ObservedInv, NEW w \in Workers, Step(w)
    PROVE  pc'[w] \in {"evaluate", "conclude"} /\ next'[w] = "SUCCEEDED"
               => Observed(act[w])' /\ act'[w] = act[w]
<1>0. TypeOK /\ ThreadTypes /\ WorldTypes /\ ThreadInv
  BY DEF OnceInv, TypeOK
<1> SUFFICES ASSUME pc'[w] \in {"evaluate", "conclude"}, next'[w] = "SUCCEEDED"
             PROVE  Observed(act[w])' /\ act'[w] = act[w]
  OBVIOUS
<1>1. CASE Refresh(w) \/ Verify(w)
  <2>1. act[w] \in Actions /\ UNCHANGED act
    BY <1>0, <1>1, BusyActs DEF Refresh, Verify
  <2>2. PICK seen \in SUBSET DOMAIN WantOf[act[w]] :
           /\ witness' = [witness EXCEPT ![act[w]] = device]
           /\ \/ Satisfied(act[w], Snapshot(act[w], seen))
              \/ Verdict(act[w], Snapshot(act[w], seen)) = "SUCCEEDED"
    BY <1>0, <1>1 DEF Refresh, Verify, Conclude, Goto, ThreadTypes
  <2>3. \A d \in DOMAIN WantOf[act[w]] : device[d] = WantOf[act[w]][d]
    BY <1>0, <2>1, <2>2, SnapshotObserves DEF WorldTypes
  <2> QED
    BY <1>0, <2>1, <2>2, <2>3 DEF Observed, WorldTypes
<1>2. CASE Evaluate(w)
  <2>1. pc[w] = "evaluate" /\ next[w] = "SUCCEEDED"
         /\ UNCHANGED <<act, witness>>
    BY <1>0, <1>2 DEF Evaluate, Conclude, Goto, ThreadTypes, historyVars
  <2> QED
    BY <2>1 DEF ObservedInv, Observed
<1>3. CASE Invoke(w)
  <2>1. DOMAIN WantOf[act[w]] = {} /\ UNCHANGED act
    BY <1>0, <1>3 DEF Invoke, Conclude, Goto, ThreadTypes
  <2> QED
    BY <2>1 DEF Observed
<1>4. CASE ~(Refresh(w) \/ Verify(w) \/ Evaluate(w) \/ Invoke(w))
  BY <1>0, <1>4 DEF Step, Claim, LockScope, IssueApproval, Begin, Terminal,
     Unlock, RunApproved, RefuseApproved, Complete, Throw, Leave, Conclude,
     Goto, ThreadTypes
<1> QED
  BY <1>1, <1>2, <1>3, <1>4

\* The others' observations stand: nobody else observes their action.
LEMMA OthersHaveObserved ==
    ASSUME OnceInv, LockInv, OpenInv, ObservedInv, NEW w \in Workers, Step(w),
           NEW v \in Workers \ {w}
    PROVE  pc'[v] \in {"evaluate", "conclude"} /\ next'[v] = "SUCCEEDED"
               => Observed(act[v])'
<1>0. TypeOK /\ ThreadTypes /\ ThreadInv
  BY DEF OnceInv, TypeOK
<1>1. pc'[v] = pc[v] /\ act'[v] = act[v] /\ next'[v] = next[v]
  BY <1>0, StepAlone DEF Alone
<1> SUFFICES ASSUME pc[v] \in {"evaluate", "conclude"}, next[v] = "SUCCEEDED"
             PROVE  Observed(act[v])'
  BY <1>1
<1>2. act[v] \in Actions /\ Observed(act[v])
  BY <1>0, BusyActs DEF ObservedInv
<1>3. CASE act[v] = act[w] /\ pc[w] \in {"refresh", "verify"}
  <2>1. Caller(v)
    BY <1>2, <1>3, OneParks, CallerParks
  <2> QED
    BY <1>2, <1>3, <2>1, CallerParks
<1>4. CASE witness'[act[v]] = witness[act[v]]
  BY <1>1, <1>2, <1>4 DEF Observed
<1> QED
  BY <1>2, <1>3, <1>4, StepObserves

\* Every step keeps successes observed.
LEMMA NextKeepsObserved ==
    ASSUME OnceInv, LockInv, OpenInv, ObservedInv, SuccessWasObserved, [Next]_vars
    PROVE  ObservedInv' /\ SuccessWasObserved'
<1>0. TypeOK /\ ThreadTypes /\ TableTypes /\ ThreadInv
  BY DEF OnceInv, TypeOK
<1>1. ASSUME NEW w \in Workers, Step(w)
      PROVE  ObservedInv' /\ SuccessWasObserved'
  <2>1. ObservedInv'
    <3> SUFFICES ASSUME NEW v \in Workers, pc'[v] \in {"evaluate", "conclude"},
                        next'[v] = "SUCCEEDED"
                 PROVE  Observed(act[v])'
      BY DEF ObservedInv
    <3>1. CASE v = w
      BY <1>1, <3>1, StepHasObserved DEF Observed
    <3>2. CASE v # w
      BY <1>1, <3>2, OthersHaveObserved
    <3> QED
      BY <3>1, <3>2
  <2>2. SuccessWasObserved'
    <3> SUFFICES ASSUME NEW a \in Actions, status'[a] = "SUCCEEDED"
                 PROVE  Observed(a)'
      BY DEF SuccessWasObserved, Observed
    <3>1. CASE status[a] = "SUCCEEDED"
      <4>1. a = act[w] => pc[w] \notin {"refresh", "verify"}
        BY <3>1 DEF OpenInv, OpenThread, OpenStatuses, FinalStatuses
      <4>2. witness'[a] = witness[a]
        BY <1>1, <4>1, StepObserves
      <4> QED
        BY <3>1, <4>2 DEF SuccessWasObserved, Observed
    <3>2. CASE status[a] # "SUCCEEDED"
      <4>1. act[w] = a /\ pc[w] = "conclude" /\ next[w] = "SUCCEEDED"
        BY <1>0, <1>1, <3>2, StepWrites DEF Writes, TableTypes
      <4>2. UNCHANGED witness
        BY <1>1, <4>1, StepObserves
      <4> QED
        BY <4>1, <4>2 DEF ObservedInv, Observed
    <3> QED
      BY <3>1, <3>2
  <2> QED
    BY <2>1, <2>2
<1>2. ASSUME NEW w \in Workers, UNCHANGED <<status, witness>>,
             pc'[w] \notin {"evaluate", "conclude"},
             \A v \in Workers \ {w} : /\ pc'[v] = pc[v] /\ act'[v] = act[v]
                                      /\ next'[v] = next[v]
      PROVE  ObservedInv' /\ SuccessWasObserved'
  BY <1>2 DEF ObservedInv, SuccessWasObserved, Observed
<1>3. ASSUME NEW w \in Workers, NEW a \in Actions,
             \/ Submit(w, a)
             \/ \E choice \in {"APPROVED", "REJECTED"} : Decide(w, a, choice)
             \/ Raise(w)
      PROVE  ObservedInv' /\ SuccessWasObserved'
  <2>1. /\ UNCHANGED <<status, witness>>
         /\ pc'[w] \notin {"evaluate", "conclude"}
        /\ \A v \in Workers \ {w} : /\ pc'[v] = pc[v] /\ act'[v] = act[v]
                                    /\ next'[v] = next[v]
    BY <1>0, <1>3 DEF Submit, Decide, Raise, Throw, Leave, Goto, ThreadTypes,
       historyVars, tableVars
  <2> QED
    BY <1>2, <2>1
<1>4. ASSUME UNCHANGED <<pc, act, next, witness>>,
             \A a \in Actions : status'[a] = "SUCCEEDED" => status[a] = "SUCCEEDED"
      PROVE  ObservedInv' /\ SuccessWasObserved'
  BY <1>4 DEF ObservedInv, SuccessWasObserved, Observed
<1>5. ASSUME NEW w \in Workers, Raise(w)
      PROVE  ObservedInv' /\ SuccessWasObserved'
  <2>1. /\ UNCHANGED <<status, witness>>
         /\ pc'[w] \notin {"evaluate", "conclude"}
        /\ \A v \in Workers \ {w} : /\ pc'[v] = pc[v] /\ act'[v] = act[v]
                                    /\ next'[v] = next[v]
    BY <1>0, <1>5 DEF Raise, Throw, Leave, ThreadTypes, historyVars, tableVars
  <2> QED
    BY <1>2, <2>1
<1>6. ASSUME Crash PROVE ObservedInv' /\ SuccessWasObserved'
  BY <1>6 DEF Crash, ObservedInv, SuccessWasObserved, tableVars, historyVars
<1>7. ASSUME Restart PROVE ObservedInv' /\ SuccessWasObserved'
  <2>1. /\ UNCHANGED <<pc, act, next, witness>>
       
               /\ \A a \in Actions : status'[a] = "SUCCEEDED" => status[a] = "SUCCEEDED"
    BY <1>7 DEF Restart, Recovered, workerVars, historyVars
  <2> QED
    BY <1>4, <2>1
<1>8. ASSUME Environment PROVE ObservedInv' /\ SuccessWasObserved'
  BY <1>4, <1>5, <1>6, <1>7, <1>8
     DEF Environment, ExpireApproval, PassExpiry, ArriveLate, Operate,
         DropSession, workerVars, historyVars, tableVars
<1> QED
  BY <1>1, <1>3, <1>4, <1>8 DEF Next, vars, workerVars, historyVars, tableVars

-----------------------------------------------------------------------------
(* The theorems that need the lock sessions to last.                       *)

\* Nothing is held, parked or observed initially.
LEMMA InitLocked == Init => LockedInv
<1> SUFFICES ASSUME Init PROVE LockedInv
  OBVIOUS
<1>1. LockInv
  BY NoActionIsNone DEF Init, LockInv, Holding
<1>2. OpenInv
  BY DEF Init, OpenInv, OpenThread, Caller
<1>3. OutcomeInv /\ DispatchIsRecorded /\ ObservedInv /\ SuccessWasObserved
  BY DEF Init, OutcomeInv, DispatchIsRecorded, ObservedInv, SuccessWasObserved
<1> QED
  BY <1>1, <1>2, <1>3, InitOnce DEF LockedInv

\* Every step keeps the whole invariant while the sessions last.
LEMMA NextKeepsLocked ==
    ASSUME SessionsLast, LockedInv, [Next]_vars
    PROVE  LockedInv'
<1>1. OnceInv'
  BY NextKeepsOnce DEF LockedInv
<1> QED
  BY <1>1, NextKeepsLocks, NextKeepsOpen, NextKeepsOutcome, NextKeepsRecord,
     NextKeepsObserved DEF LockedInv

\* The strengthened invariant holds in every reachable state.
THEOREM LockedInvariant ==
    ASSUME SessionsLast
    PROVE  Spec => []LockedInv
<1>1. LockedInv /\ [Next]_vars => LockedInv'
  BY NextKeepsLocked
<1> QED
  BY <1>1, InitLocked, PTL DEF Spec

\* Requests that share a canonical scope are never inside their locks
\* together, whatever is acquired, refused, abandoned or restarted.
THEOREM LockedExclusion ==
    ASSUME SessionsLast
    PROVE  Spec => []ScopeExclusion
<1>1. LockedInv => ScopeExclusion
  <2> SUFFICES ASSUME LockedInv, NEW v \in Workers, NEW w \in Workers, v # w,
                      InsideLock(v), InsideLock(w),
                      NEW i \in 1 .. Len(LocksOf[act[v]]),
                      NEW j \in 1 .. Len(LocksOf[act[w]]),
                      LocksOf[act[v]][i] = LocksOf[act[w]][j]
               PROVE  FALSE
    BY DEF ScopeExclusion, ScopeSet
  <2>1. holder[LocksOf[act[v]][i]] = v /\ holder[LocksOf[act[w]][j]] = w
    BY DEF LockedInv, LockInv, Holding, InsideLock
  <2> QED
    BY <2>1
<1> QED
  BY <1>1, LockedInvariant, PTL

\* A row never says that nothing was executed once its connector was entered.
THEOREM DispatchRecorded ==
    ASSUME SessionsLast
    PROVE  Spec => []DispatchIsRecorded
<1>1. LockedInv => DispatchIsRecorded
  BY DEF LockedInv
<1> QED
  BY <1>1, LockedInvariant, PTL

\* SUCCEEDED is written only over an observation of the wanted state.
THEOREM SuccessObserved ==
    ASSUME SessionsLast
    PROVE  Spec => []SuccessWasObserved
<1>1. LockedInv => SuccessWasObserved
  BY DEF LockedInv
<1> QED
  BY <1>1, LockedInvariant, PTL

\* No step changes an outcome that was decided under the locks.
LEMMA NextKeepsOutcomes ==
    ASSUME LockedInv, [Next]_vars
    PROVE  \A a \in Actions : status[a] \in FinalStatuses => status'[a] = status[a]
<1>0. TypeOK /\ ThreadTypes /\ TableTypes /\ OpenInv /\ OnceInv
  BY DEF LockedInv, OnceInv, TypeOK
<1> SUFFICES ASSUME NEW a \in Actions, status[a] \in FinalStatuses
             PROVE  status'[a] = status[a]
  OBVIOUS
<1>1. ASSUME NEW w \in Workers, Step(w) PROVE status'[a] = status[a]
  <2>1. CASE a = act[w]
    <3>1. pc[w] \notin {"rejected", "failing", "begin", "conclude"}
      BY <1>0, <2>1 DEF OpenInv, OpenThread, OpenStatuses
    <3>2. status[a] # "ABSENT"
      BY DEF FinalStatuses
    <3> QED
      BY <1>0, <1>1, <2>1, <3>1, <3>2, StepWrites DEF Writes, TableTypes
  <2>2. CASE a # act[w]
    BY <1>0, <1>1, <2>2, StepWrites DEF Writes, TableTypes
  <2> QED
    BY <2>1, <2>2
<1>2. ASSUME Restart PROVE status'[a] = status[a]
  BY <1>2 DEF Restart, Recovered, FinalStatuses
<1>3. ASSUME Environment PROVE status'[a] = status[a]
  BY <1>2, <1>3 DEF Environment, ExpireApproval, PassExpiry, ArriveLate,
     Operate, Raise, DropSession, Crash, tableVars
<1> QED
  BY <1>1, <1>3 DEF Next, Submit, Decide, vars, tableVars

\* No later update changes an outcome: neither the thread that parked the
\* action, nor a rejection, a replay or the recovery at start-up.
THEOREM OutcomesAreFinal ==
    ASSUME SessionsLast
    PROVE  Spec => OutcomeIsFinal
<1>1. LockedInv /\ [Next]_vars
         => [\A a \in Actions : status[a] \in FinalStatuses
                                    => status'[a] = status[a]]_vars
  BY NextKeepsOutcomes
<1> QED
  BY <1>1, LockedInvariant, PTL DEF Spec, OutcomeIsFinal

-----------------------------------------------------------------------------
(* The coordinator implements KeyPromise, for every value of the constants    *)
(* without a fault of the lock sessions: the initial states map to its        *)
(* initial state, and every step to one of its steps or to none.              *)

\* A thread writes a row only outside the connector.
LEMMA StepWritesOrEnters ==
    ASSUME OnceInv, NEW w \in Workers, Step(w)
    PROVE  UNCHANGED status \/ UNCHANGED calls
BY DEF Step, Claim, LockScope, Refresh, Evaluate, IssueApproval, Begin, Invoke,
       Verify, Terminal, Unlock, RunApproved, RefuseApproved, Complete,
       tableVars, historyVars

\* What the row of a says changes as its status does, and no other row does.
LEMMA OneRowChanges ==
    ASSUME TypeOK, NEW a \in Actions, NEW st,
           status' = [status EXCEPT ![a] = st]
    PROVE  /\ status'[a] = st
           /\ [b \in Actions |-> RecordedState(b)]'
                 = [[b \in Actions |-> RecordedState(b)] EXCEPT ![a] = RecordedState(a)']
<1>1. status'[a] = st /\ \A b \in Actions \ {a} : status'[b] = status[b]
  BY DEF TypeOK, TableTypes
<1>2. \A b \in Actions \ {a} : RecordedState(b)' = RecordedState(b)
  BY <1>1 DEF RecordedState
<1> QED
  BY <1>1, <1>2

\* What a row says of its request.
LEMMA RecordedStates ==
    ASSUME TypeOK, NEW a \in Actions
    PROVE  /\ RecordedState(a) = "NONE" <=> status[a] = "ABSENT"
           /\ RecordedState(a) = "BEGUN" <=> status[a] = "EXECUTING"
           /\ RecordedState(a) = "OPEN"
                 <=> status[a] \in OpenStatuses /\ status[a] # "ABSENT"
           /\ status[a] \in FinalStatuses <=> RecordedState(a) \in FinalStatuses
           /\ status[a] \in FinalStatuses => RecordedState(a) = status[a]
<1>1. status[a] \in Statuses
  BY DEF TypeOK, TableTypes
<1> QED
  BY <1>1 DEF RecordedState, OpenStatuses, FinalStatuses, Statuses

\* What the rows say of their requests.
Says == [a \in Actions |-> RecordedState(a)]

\* A row that is written is written as the promise allows.
LEMMA WriteIsPromised ==
    ASSUME LockedInv, LockedInv', NEW w \in Workers, Step(w),
           NEW a \in Actions, a = act[w], status' # status
    PROVE  Promise!Next \/ UNCHANGED Promise!vars
<1>0. /\ TypeOK /\ TypeOK' /\ ThreadInv /\ RowInv /\ RowInv' /\ DeciderInv /\ OnceInv
      /\ OpenInv /\ OutcomeInv /\ DispatchIsRecorded /\ calls \in [Actions -> Nat]
  BY DEF LockedInv, OnceInv, TypeOK, WorldTypes
<1>1. UNCHANGED calls
  BY <1>0, StepWritesOrEnters
<1>2. PICK st \in Statuses :
        /\ status' = [status EXCEPT ![a] = st]
        /\ \/ pc[w] = "claim" /\ status[a] = "ABSENT" /\ st = "PLANNED"
           \/ pc[w] \in {"rejected", "failing"} /\ st = "POLICY_DENIED"
           \/ pc[w] = "begin" /\ st = "EXECUTING"
           \/ pc[w] = "conclude" /\ st = next[w]
  BY <1>0, StepWrites DEF Writes
<1>3. status'[a] = st /\ Says' = [Says EXCEPT ![a] = RecordedState(a)']
  BY <1>0, <1>2, OneRowChanges DEF Says
<1>4. Says[a] = RecordedState(a) /\ Says = [Says EXCEPT ![a] = RecordedState(a)]
  BY DEF Says
<1>5. ASSUME NEW s, RecordedState(a)' = s
      PROVE  Promise!Become(a, s)
  BY <1>1, <1>3, <1>5 DEF Promise!Become, Says
<1>6. RecordedState(a)' = RecordedState(a) => UNCHANGED Promise!vars
  BY <1>1, <1>3, <1>4 DEF Promise!vars, Says
<1>7. CASE pc[w] = "claim" /\ status[a] = "ABSENT" /\ st = "PLANNED"
  <2>1. RecordedState(a)' = "OPEN"
    BY <1>3, <1>7 DEF RecordedState, FinalStatuses
  <2>2. ASSUME NEW q \in Actions, KeyOf[q] = KeyOf[a] PROVE RecordedState(q) = "NONE"
    <3>1. status'[q] # "ABSENT" => q = a
      BY <1>0, <1>3, <1>7, <2>2 DEF RowInv
    <3>2. q # a => status'[q] = status[q]
      BY <1>0, <1>2 DEF TypeOK, TableTypes
    <3> QED
      BY <1>7, <3>1, <3>2 DEF RecordedState, FinalStatuses
  <2>3. Promise!Take(a)
    BY <1>5, <2>1, <2>2 DEF Promise!Take
  <2> QED
    BY <2>3 DEF Promise!Next
<1>8. CASE pc[w] \in {"rejected", "failing"} /\ st = "POLICY_DENIED"
  <2>1. Decider(w) /\ status[a] \in OpenStatuses
    BY <1>0, <1>8 DEF OpenInv, OpenThread, Decider
  <2>2. approval[a] \in {"REJECTED", "APPROVED"}
    BY <1>0, <2>1 DEF DeciderInv
  <2>3. status[a] # "ABSENT"
    BY <1>0, <2>2 DEF RowInv
  <2>4. RecordedState(a) = "OPEN"
    BY <1>0, <2>1, <2>3, RecordedStates
  <2>5. RecordedState(a)' = "OPEN"
    BY <1>3, <1>8 DEF RecordedState, FinalStatuses
  <2> QED
    BY <1>6, <2>4, <2>5
<1>9. CASE pc[w] = "begin" /\ st = "EXECUTING"
  <2>1. Begin(w)
    BY <1>9 DEF Step, Claim, LockScope, Refresh, Evaluate, IssueApproval, Invoke,
       Verify, Terminal, Unlock, RunApproved, RefuseApproved, Complete
  <2>2. status[a] # "ABSENT" /\ status[a] \in OpenStatuses
    BY <1>0, <1>9, <2>1 DEF Begin, OpenInv, OpenThread
  <2>3. RecordedState(a) = "OPEN"
    BY <1>0, <2>2, RecordedStates
  <2>4. RecordedState(a)' = "BEGUN"
    BY <1>3, <1>9 DEF RecordedState, FinalStatuses
  <2>5. Promise!Start(a)
    BY <1>4, <1>5, <2>3, <2>4 DEF Promise!Start, Says
  <2> QED
    BY <2>5 DEF Promise!Next
<1>10. CASE pc[w] = "conclude" /\ st = next[w]
  <2>1. st # "ABSENT" /\ status[a] \notin FinalStatuses
    BY <1>0, <1>10 DEF ThreadInv, OpenInv, OpenThread
  <2>2. Terminal(w)
    BY <1>10 DEF Step, Claim, LockScope, Refresh, Evaluate, IssueApproval, Begin,
       Invoke, Verify, Unlock, RunApproved, RefuseApproved, Complete
  <2>3. status[a] # "ABSENT"
    BY <2>2 DEF Terminal
  <2>4. RecordedState(a) \in {"OPEN", "BEGUN"}
    BY <1>0, <2>1, <2>3 DEF RecordedState
  <2>5. calls[a] > 0 => st \in DispatchStatuses
    BY <1>0, <1>10 DEF OutcomeInv
  <2>6. CASE st \in FinalStatuses
    <3>1. RecordedState(a)' = st
      BY <1>3, <2>6 DEF RecordedState, FinalStatuses
    <3>2. Promise!Answer(a, st)
      BY <1>4, <1>5, <2>4, <2>5, <2>6, <3>1 DEF Promise!Answer, Says
    <3> QED
      BY <2>6, <3>2 DEF Promise!Next
  <2>7. CASE st = "EXECUTING"
    <3>1. RecordedState(a)' = "BEGUN"
      BY <1>3, <2>7 DEF RecordedState, FinalStatuses
    <3>2. RecordedState(a) = "OPEN" => Promise!Start(a)
      BY <1>4, <1>5, <3>1 DEF Promise!Start, Says
    <3> QED
      BY <1>6, <2>4, <3>1, <3>2 DEF Promise!Next
  <2>8. CASE st \notin FinalStatuses /\ st # "EXECUTING"
    <3>1. RecordedState(a)' = "OPEN"
      BY <1>3, <2>1, <2>8 DEF RecordedState
    <3>2. calls[a] = 0
      BY <1>0, <2>5, <2>8 DEF DispatchStatuses, FinalStatuses
    <3>3. RecordedState(a) = "BEGUN" => Promise!Withdraw(a)
      BY <1>4, <1>5, <3>1, <3>2 DEF Promise!Withdraw, Says
    <3> QED
      BY <1>6, <2>4, <3>1, <3>3 DEF Promise!Next
  <2> QED
    BY <2>6, <2>7, <2>8
<1> QED
  BY <1>2, <1>7, <1>8, <1>9, <1>10

\* A connector is entered as the promise allows.
LEMMA EntryIsPromised ==
    ASSUME LockedInv, NEW w \in Workers, Step(w),
           NEW a \in Actions, a = act[w], UNCHANGED status
    PROVE  Promise!Next \/ UNCHANGED Promise!vars
<1>0. TypeOK /\ OnceInv /\ OpenInv /\ calls \in [Actions -> Nat]
  BY DEF LockedInv, OnceInv, TypeOK, WorldTypes
<1>1. UNCHANGED Says
  BY DEF Says, RecordedState
<1>2. CASE UNCHANGED calls
  BY <1>1, <1>2 DEF Promise!vars, Says
<1>3. CASE calls' # calls
  <2>1. pc[w] = "invoke" /\ calls' = [calls EXCEPT ![a] = @ + 1]
    BY <1>0, <1>3, StepEnters DEF Enters
  <2>2. calls[a] = 0
    BY <1>0, <2>1, NotEnteredYet
  <2>3. Says[a] = "BEGUN"
    BY <1>0, <2>1 DEF OpenInv, OpenThread, Says, RecordedState, FinalStatuses
  <2>4. Promise!Send(a)
    BY <1>0, <1>1, <2>1, <2>2, <2>3 DEF Promise!Send, Says
  <2> QED
    BY <2>4 DEF Promise!Next
<1> QED
  BY <1>2, <1>3

\* The recovery at start-up answers what the interruption left.
LEMMA RecoveryIsPromised ==
    ASSUME TypeOK, Restart
    PROVE  Promise!Next \/ UNCHANGED Promise!vars
<1>1. UNCHANGED calls
  BY DEF Restart, historyVars
<1>2. CASE UNCHANGED status
  BY <1>1, <1>2 DEF Promise!vars, RecordedState
<1>3. CASE status' = Recovered
  <2>1. ASSUME NEW a \in Actions
        PROVE  RecordedState(a)' = IF RecordedState(a) = "BEGUN" THEN "UNKNOWN_RESULT"
                                   ELSE RecordedState(a)
    <3>1. status'[a] = CASE status[a] = "EXECUTING" -> "UNKNOWN_RESULT"
                         [] status[a] = "PLANNED" -> "RECOVERY_REQUIRED"
                         [] OTHER -> status[a]
      BY <1>3 DEF Recovered
    <3> QED
      BY <3>1, RecordedStates DEF RecordedState, FinalStatuses
  <2>2. Promise!Reconcile
    BY <1>1, <2>1 DEF Promise!Reconcile
  <2> QED
    BY <2>2 DEF Promise!Next
<1> QED
  BY <1>2, <1>3 DEF Restart

\* Every step of the boundary is a step of the promise or changes nothing of it.
LEMMA NextIsPromised ==
    ASSUME LockedInv, LockedInv', [Next]_vars
    PROVE  [Promise!Next]_(Promise!vars)
<1>0. TypeOK /\ ThreadInv /\ ThreadTypes
  BY DEF LockedInv, OnceInv, TypeOK
<1>1. ASSUME NEW w \in Workers, Step(w) PROVE Promise!Next \/ UNCHANGED Promise!vars
  <2>1. act[w] \in Actions
    BY <1>0, <1>1, BusyActs DEF Step, Claim, LockScope, Refresh, Evaluate,
       IssueApproval, Begin, Invoke, Verify, Terminal, Unlock, RunApproved,
       RefuseApproved, Complete
  <2> QED
    BY <1>1, <2>1, WriteIsPromised, EntryIsPromised
<1>2. CASE UNCHANGED <<status, calls>>
  BY <1>2 DEF Promise!vars, RecordedState
<1>3. CASE Restart
  BY <1>0, <1>3, RecoveryIsPromised
<1>4. CASE Environment
  BY <1>2, <1>3, <1>4 DEF Environment, ExpireApproval, PassExpiry, ArriveLate,
     Operate, Raise, DropSession, Crash, tableVars, historyVars
<1> QED
  BY <1>1, <1>2, <1>4 DEF Next, Submit, Decide, vars, tableVars, historyVars

\* The coordinator implements the promise of the idempotency keys: whatever its
\* threads, the approvals, a crash and the recovery do, a key has one request,
\* sent at most once after its start was recorded, and its answer stays.
THEOREM PromiseKept ==
    ASSUME SessionsLast
    PROVE  Spec => PromiseIsKept
<1>1. Init => Promise!Init
  BY DEF Init, Promise!Init, RecordedState, FinalStatuses
<1>2. LockedInv /\ LockedInv' /\ [Next]_vars => [Promise!Next]_(Promise!vars)
  BY NextIsPromised
<1> QED
  BY <1>1, <1>2, LockedInvariant, PTL DEF Spec, PromiseIsKept, Promise!Spec
=============================================================================
