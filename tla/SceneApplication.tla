-------------------------- MODULE SceneApplication --------------------------
(* One saved scene, applied step by step through the action boundary           *)
(* (scene_application.py): what went before is read, the application is        *)
(* claimed under its key, the scene is locked, and each step is a child        *)
(* action.  Meanwhile the owner edits the scene and decides a child that wants *)
(* confirmation, tools and policy contexts change, and the process dies.       *)
EXTENDS Naturals, Sequences, FiniteSetsExt

CONSTANTS Keys, Threads, Steps,
          MaxChanges, None

VARIABLES
    scene,     \* the saved row
    bound,     \* the tools and the policy context that hold now
    root,      \* idempotency key -> the record of the application
    child,     \* key -> the records of its steps
    thread,    \* who applies
    holder,    \* the thread with the scene's advisory lock
    approval,  \* the confirmed child that is being executed
    sent,      \* history: key -> step -> commands sent
    overlap,   \* history: key -> the keys whose applications overlapped its own
    changes    \* edits, rebindings and deaths

sceneVars == <<scene, bound, root, child, thread, holder, approval, sent, overlap, changes>>

Free == [at |-> "free", key |-> None, version |-> 0, created |-> 0, context |-> 0, outcome |-> None]
NoRoot == [status |-> None, version |-> 0, saved |-> None, created |-> 0, steps |-> <<>>]
NoApproval == [key |-> None, at |-> "none", version |-> 0, context |-> 0]

Init ==
    /\ scene = [version |-> 1, enabled |-> TRUE] /\ bound = [tools |-> 0, context |-> 0]
    /\ root = [k \in Keys |-> NoRoot] /\ child = [k \in Keys |-> <<>>]
    /\ thread = [t \in Threads |-> Free] /\ holder = None /\ approval = NoApproval
    /\ sent = [k \in Keys |-> [i \in 1..Steps |-> 0]]
    /\ overlap = [k \in Keys |-> {}] /\ changes = 0

(**************************** What is on record *****************************)
\* latest_scene_application: of the applications that saved their scene, the one
\* whose request was made last.
Applications == {k \in Keys : root[k].saved # None}
Latest == CHOOSE k \in Applications : \A q \in Applications : root[q].created <= root[k].created

\* _response: an approved child's outcome is projected; nothing is continued.
Projected(k) ==
    [i \in DOMAIN root[k].steps |->
        IF root[k].steps[i] = "REQUIRE_CONFIRMATION" THEN child[k][i] ELSE root[k].steps[i]]

Outcome(k) ==
    LET steps == Projected(k)
        Good(i) == steps[i] = "SUCCEEDED"
    IN IF steps # root[k].steps
       THEN IF \A i \in DOMAIN steps : Good(i)
            THEN IF Len(steps) = Steps THEN "SUCCEEDED" ELSE "PARTIAL"
            ELSE IF \E i \in DOMAIN steps : Good(i) THEN "PARTIAL" ELSE steps[Len(steps)]
       ELSE IF root[k].status \in {"PLANNED", "EXECUTING"} THEN "UNKNOWN_RESULT"
       ELSE root[k].status

\* A mutant: an application that ended partly is done with.
UnresolvedWhole == {"PLANNED", "EXECUTING", "UNKNOWN_RESULT", "FAILED",
                    "VERIFICATION_FAILED", "RECOVERY_REQUIRED", "REQUIRE_CONFIRMATION"}

Unresolved == {"PLANNED", "EXECUTING", "UNKNOWN_RESULT", "PARTIAL", "FAILED",
               "VERIFICATION_FAILED", "RECOVERY_REQUIRED", "REQUIRE_CONFIRMATION"}

\* An application of this saved version still stands in the way of another.
Stands(k, version) ==
    root[k].saved # None /\ root[k].saved.version = version /\ Outcome(k) \in Unresolved

\* _check: the scene is enabled at the version that was asked for.
Current(version) == scene.version = version /\ scene.enabled

\* The moment a new request is made.
Stamp == 1 + Max({0} \cup {root[k].created : k \in Keys} \cup {thread[t].created : t \in Threads})

Alive == {thread[t].key : t \in Threads} \ {None}

(******************************* An application ****************************)
\* The request is made and what went before is looked at: not yet under the
\* claim, nor under the lock.
Look(t, k, version) ==
    /\ thread[t] = Free /\ k \notin Alive
    /\ LET created == IF root[k] = NoRoot THEN Stamp ELSE root[k].created
           other == Applications # {} /\ Latest # k
       IN /\ other => Current(version) /\ ~Stands(Latest, version)
          /\ thread' = [thread EXCEPT ![t] = [Free EXCEPT !.at = "claim", !.key = k,
                                                !.version = version, !.created = created]]
    /\ overlap' = [q \in Keys |-> IF root[k] # NoRoot THEN overlap[q]
                                  ELSE IF q = k THEN Alive
                                  ELSE IF q \in Alive THEN overlap[q] \cup {k} ELSE overlap[q]]
    /\ UNCHANGED <<scene, bound, root, child, holder, approval, sent, changes>>

\* A key that was claimed answers with its record, or refuses another version.
Claim(t) ==
    LET k == thread[t].key IN
    /\ thread[t].at = "claim"
    /\ IF root[k] = NoRoot
       THEN /\ root' = [root EXCEPT ![k] = [NoRoot EXCEPT !.status = "PLANNED",
                            !.version = thread[t].version, !.created = thread[t].created]]
            /\ thread' = [thread EXCEPT ![t].at = "start"]
       ELSE root' = root /\ thread' = [thread EXCEPT ![t] = Free]
    /\ UNCHANGED <<scene, bound, child, holder, approval, sent, overlap, changes>>

\* finish, and the lock is released.
Finish(t, status) ==
    /\ root' = [root EXCEPT ![thread[t].key].status = status]
    /\ thread' = [thread EXCEPT ![t] = Free]
    /\ holder' = IF holder = t THEN None ELSE holder

\* The scene's lock, its check and the policy; then the scene, the tools and the
\* capabilities that the application is bound to are saved.
Start(t) ==
    LET k == thread[t].key IN
    /\ thread[t].at = "start"
    /\ IF holder # None THEN Finish(t, "RESOURCE_BUSY")
       ELSE IF ~Current(thread[t].version) THEN Finish(t, "PRECONDITION_FAILED")
       ELSE \/ \E denied \in {"POLICY_DENIED", "REQUIRE_CONFIRMATION"} :
                 Finish(t, denied)
            \/ /\ root' = [root EXCEPT ![k].status = "EXECUTING",
                     ![k].saved = [version |-> scene.version, tools |-> bound.tools]]
               /\ thread' = [thread EXCEPT ![t].at = "next"]
               /\ holder' = t
    /\ UNCHANGED <<scene, bound, child, approval, sent, overlap, changes>>

\* check_binding: the scene and the tools are those the application saved.
Bound(k) == Current(root[k].saved.version) /\ bound.tools = root[k].saved.tools

\* A SceneError ends the application by what its steps came to.
Stopped(k) ==
    LET steps == root[k].steps
    IN IF \E i \in DOMAIN steps : steps[i] = "SUCCEEDED" THEN "PARTIAL"
       ELSE IF steps # <<>> THEN "UNKNOWN_RESULT" ELSE "PRECONDITION_FAILED"

\* A mutant: the status of the last step, whatever came before it.
HaltedByLast(k) == root[k].steps[Len(root[k].steps)]

\* After a step that did not succeed, the rest is not started.
Halted(k) == LET steps == root[k].steps
             IN IF Len(steps) > 1 THEN "PARTIAL" ELSE steps[Len(steps)]

NextStep(t) ==
    LET k == thread[t].key steps == root[k].steps IN
    /\ thread[t].at = "next"
    /\ IF steps # <<>> /\ steps[Len(steps)] # "SUCCEEDED" THEN Finish(t, Halted(k))
       ELSE IF Len(steps) = Steps THEN Finish(t, "SUCCEEDED")
       ELSE IF ~Bound(k) THEN Finish(t, Stopped(k))
       ELSE /\ root' = [root EXCEPT ![k].steps = Append(@, "PLANNED")]
            /\ thread' = [thread EXCEPT ![t].at = "child", ![t].context = bound.context]
            /\ UNCHANGED holder
    /\ UNCHANGED <<scene, bound, child, approval, sent, overlap, changes>>

\* The child action, up to the refresh that checks the binding again: refused,
\* put before the owner, or free to be sent.
Child(t) ==
    LET k == thread[t].key IN
    /\ thread[t].at = "child"
    /\ \/ \E ends \in {"REQUIRE_CONFIRMATION", "RESOURCE_BUSY"} :
            /\ child' = [child EXCEPT ![k] = Append(@, ends)]
            /\ thread' = [thread EXCEPT ![t].at = "note", ![t].outcome = ends]
       \/ IF Bound(k) /\ bound.context = thread[t].context
          THEN /\ child' = [child EXCEPT ![k] = Append(@, "EXECUTING")]
               /\ thread' = [thread EXCEPT ![t].at = "send"]
          ELSE /\ child' = [child EXCEPT ![k] = Append(@, "UNKNOWN_RESULT")]
               /\ thread' = [thread EXCEPT ![t].at = "note", ![t].outcome = "UNKNOWN_RESULT"]
    /\ UNCHANGED <<scene, bound, root, holder, approval, sent, overlap, changes>>

\* The power command and its verification.
Sending(k, ends) ==
    LET i == Len(child[k]) IN
    /\ child' = [child EXCEPT ![k][i] = ends]
    /\ sent' = [sent EXCEPT ![k][i] = @ + 1]

\* Whatever is not verified ends the application in the same way.
Ends == {"SUCCEEDED", "UNKNOWN_RESULT"}

Send(t) ==
    /\ thread[t].at = "send"
    /\ \E ends \in Ends :
         /\ Sending(thread[t].key, ends)
         /\ thread' = [thread EXCEPT ![t].at = "note", ![t].outcome = ends]
    /\ UNCHANGED <<scene, bound, root, holder, approval, overlap, changes>>

\* The outcome execute returned is written down, whatever the owner did since.
Note(t) ==
    LET k == thread[t].key IN
    /\ thread[t].at = "note"
    /\ root' = [root EXCEPT ![k].steps[Len(root[k].steps)] = thread[t].outcome]
    /\ thread' = [thread EXCEPT ![t].at = "next", ![t].outcome = None]
    /\ UNCHANGED <<scene, bound, child, holder, approval, sent, overlap, changes>>

(****************************** The confirmation ***************************)
Waiting(k) == child[k] # <<>> /\ child[k][Len(child[k])] = "REQUIRE_CONFIRMATION"

\* approve_pending executes one child, outside the scene's lock.
Approve(k) ==
    /\ Waiting(k) /\ approval = NoApproval
    /\ approval' = [key |-> k, at |-> "check", version |-> scene.version, context |-> bound.context]
    /\ child' = [child EXCEPT ![k][Len(child[k])] = "EXECUTING"]
    /\ UNCHANGED <<scene, bound, root, thread, holder, sent, overlap, changes>>

Reject(k) ==
    /\ Waiting(k) /\ approval = NoApproval
    /\ child' = [child EXCEPT ![k][Len(child[k])] = "POLICY_DENIED"]
    /\ UNCHANGED <<scene, bound, root, thread, holder, approval, sent, overlap, changes>>

\* A mutant: the tools are compared, the scene is not read again.
StillTools(k) == bound.tools = root[k].saved.tools

\* approval_refresher: the saved scene, principal, context, tools and capability.
StillApproved(k) == Bound(k) /\ bound.context = approval.context

ApprovalChecked ==
    LET k == approval.key IN
    /\ approval.at = "check"
    /\ IF StillApproved(k)
       THEN approval' = [approval EXCEPT !.at = "send"] /\ UNCHANGED child
       ELSE /\ approval' = NoApproval
            /\ child' = [child EXCEPT ![k][Len(child[k])] = "UNKNOWN_RESULT"]
    /\ UNCHANGED <<scene, bound, root, thread, holder, sent, overlap, changes>>

ApprovalSent ==
    /\ approval.at = "send"
    /\ \E ends \in Ends : Sending(approval.key, ends)
    /\ approval' = NoApproval
    /\ UNCHANGED <<scene, bound, root, thread, holder, overlap, changes>>

(******************************* Everything else ***************************)
\* update_scene: under the version that was seen, one up.
Edit ==
    /\ changes < MaxChanges /\ changes' = changes + 1
    /\ \E enabled \in BOOLEAN : scene' = [version |-> scene.version + 1, enabled |-> enabled]
    /\ UNCHANGED <<bound, root, child, thread, holder, approval, sent, overlap>>

Rebind ==
    /\ changes < MaxChanges /\ changes' = changes + 1
    /\ \/ bound' = [bound EXCEPT !.tools = @ + 1]
       \/ bound' = [bound EXCEPT !.context = @ + 1]
    /\ UNCHANGED <<scene, root, child, thread, holder, approval, sent, overlap>>

\* No start-up reconciles what was left PLANNED or EXECUTING.
Die ==
    /\ changes < MaxChanges /\ changes' = changes + 1
    /\ thread' = [t \in Threads |-> Free] /\ holder' = None /\ approval' = NoApproval
    /\ UNCHANGED <<scene, bound, root, child, sent, overlap>>

Next ==
    \/ \E t \in Threads : \/ \E k \in Keys, version \in 1..scene.version : Look(t, k, version)
                          \/ Claim(t) \/ Start(t) \/ NextStep(t) \/ Child(t) \/ Send(t) \/ Note(t)
    \/ \E k \in Keys : Approve(k) \/ Reject(k)
    \/ ApprovalChecked \/ ApprovalSent
    \/ Edit \/ Rebind \/ Die

Spec == Init /\ [][Next]_sceneVars

(******************************** Properties *******************************)
SceneTypeOK ==
    /\ \A k \in Keys : /\ Len(root[k].steps) <= Steps /\ Len(child[k]) <= Len(root[k].steps)
                       /\ root[k].status \in Unresolved \cup
                            {None, "SUCCEEDED", "RESOURCE_BUSY", "PRECONDITION_FAILED",
                             "POLICY_DENIED"}
    /\ holder \in Threads \cup {None}

\* What a request for a key is told is true: success only when every step of the
\* scene was commanded once and verified, a refusal only when none was.
AnswersAreTrue ==
    \A k \in Keys :
        /\ Outcome(k) = "SUCCEEDED" =>
             \A i \in 1..Steps : sent[k][i] = 1 /\ child[k][i] = "SUCCEEDED"
        /\ Outcome(k) \in {"RESOURCE_BUSY", "PRECONDITION_FAILED", "POLICY_DENIED",
                           "REQUIRE_CONFIRMATION"} =>
             \A i \in 1..Steps : sent[k][i] = 0

\* Steps go in order, one command each and each only after the one before it was
\* verified, through crashes and confirmations.
StepsAreOrdered ==
    \A k \in Keys, i \in 1..Steps :
        /\ sent[k][i] <= 1
        /\ sent[k][i] = 1 /\ i > 1 => child[k][i - 1] = "SUCCEEDED"

\* Once an application has sent a command and has not succeeded, no later one of
\* the same saved version sends anything: unless it overlapped the first, or a
\* third one that was requested later hides the first.
Hidden(q) == \E r \in overlap[q] : root[r].saved # None /\ root[r].created > root[q].created

NotRepeatedUnresolved ==
    [][\A k, q \in Keys :
         /\ k # q /\ sent'[k] # sent[k]
         /\ root[q].saved # None /\ root[q].version = root[k].version
         /\ root[q].created < root[k].created
         /\ Outcome(q) # "SUCCEEDED" /\ \E i \in 1..Steps : sent[q][i] > 0
         => q \in overlap[k] \/ Hidden(q)]_sceneVars

\* A confirmed step is commanded only for the scene that the owner saw when it
\* was confirmed: an edit before the confirmation refuses it.
ConfirmedAsSaved ==
    [][\A k \in Keys :
         approval.key = k /\ sent'[k] # sent[k] /\ approval'.key = None
         => approval.version = root[k].saved.version]_sceneVars
=============================================================================
