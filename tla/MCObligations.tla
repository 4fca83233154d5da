--------------------------- MODULE MCObligations ---------------------------
(* What the house owes its people: a hand-off of what was journaled, an         *)
(* announcement, a reply, an action they approved, and to keep what they wrote. *)
(* The components share no state here: a behaviour picks one of them, and the   *)
(* others stay in their initial states.                                         *)
EXTENDS Integers

CONSTANTS
    Events, Durable, Ahead, MaxPosition, MaxFaults,    \* the hand-off
    Speakers, AlertClaims,                             \* the announcement
    Replies, First, Instances, ReplyClaims,            \* the replies
    Resumers, Life, Lease, MaxTime, MaxCrashes,        \* the approved action
    Memories, Perishable, Sessions,                    \* the governed memory
    Requests, Retracts, Threads, MaxSends, MaxDeaths,  \* the vault's note
    Settings, Upserts, Clients, MaxVersion,           \* the owner's settings
    None

VARIABLES part,     \* the component that runs
          head, row, pos, age, cursor, managed, expired, watcher, call,
          consumer, trigger, failed, requests, missed, faults,
          ledger, old, cancelled, speaker, plays,
          replyRow, changed, stale, voice, replyPlays,
          clock, approval, actionRow, holder, cont, episode, parker, pc,
          choice, dispatched, calls, turns, crashes,
          memory, due, index, session,
          note, vaultDue, edited, pending, request, thread, writes, lost,
          deaths,
          settingRow, editor, saved

Handoff == INSTANCE JournalHandoff
handoffVars == <<head, row, pos, age, cursor, managed, expired, watcher,
                 call, consumer, trigger, failed, requests, missed, faults>>

Alert == INSTANCE AlertDelivery
    WITH MaxClaims <- AlertClaims
alertVars == <<ledger, old, cancelled, speaker, plays>>

Reply == INSTANCE ResultDelivery
    WITH row <- replyRow, plays <- replyPlays, MaxClaims <- ReplyClaims
replyVars == <<replyRow, changed, stale, voice, replyPlays>>

Approval == INSTANCE ApprovalContinuation
    WITH row <- actionRow, NoOne <- None
approvalVars == <<clock, approval, actionRow, holder, cont, episode, parker, pc,
                  choice, dispatched, calls, turns, crashes>>

Memory == INSTANCE GovernedMemory
memoryVars == <<memory, due, index, session>>

Vault == INSTANCE KnowledgeVault
    WITH due <- vaultDue
vaultVars == <<note, vaultDue, edited, pending, request, thread, writes, lost,
               deaths>>

Setting == INSTANCE HouseholdSettings
    WITH row <- settingRow,
         Kind <- [s \in Settings |-> IF s \in Upserts THEN "policy" ELSE "scene"]
settingVars == <<settingRow, editor, saved>>

ASSUME ObligationsAssumption ==
    /\ Handoff!HandoffAssumption
    /\ Approval!ContinuationAssumption
    /\ None \notin Handoff!Statuses \cup Speakers \cup Replies \cup Instances
    /\ None \notin Memories \cup Requests \cup Settings
    /\ None \notin BOOLEAN /\ None \notin {"correct", "rebuild"}
    /\ AlertClaims \in Nat \ {0} /\ ReplyClaims \in Nat \ {0} /\ MaxVersion \in Nat

vars == <<part, handoffVars, alertVars, replyVars, approvalVars, memoryVars,
          vaultVars, settingVars>>

Init ==
    /\ part \in {"handoff", "alert", "reply", "approval", "memory", "vault",
                "setting"}
    /\ Handoff!Init /\ Alert!Init /\ Reply!Init /\ Approval!Init
    /\ Memory!Init /\ Vault!Init /\ Setting!Init

Next ==
    \/ part = "handoff" /\ Handoff!Next
       /\ UNCHANGED <<part, alertVars, replyVars, approvalVars, memoryVars,
                      vaultVars, settingVars>>
    \/ part = "alert" /\ Alert!Next
       /\ UNCHANGED <<part, handoffVars, replyVars, approvalVars, memoryVars,
                      vaultVars, settingVars>>
    \/ part = "reply" /\ Reply!Next
       /\ UNCHANGED <<part, handoffVars, alertVars, approvalVars, memoryVars,
                      vaultVars, settingVars>>
    \/ part = "approval" /\ Approval!Next
       /\ UNCHANGED <<part, handoffVars, alertVars, replyVars, memoryVars,
                      vaultVars, settingVars>>
    \/ part = "memory" /\ Memory!Next
       /\ UNCHANGED <<part, handoffVars, alertVars, replyVars, approvalVars,
                      vaultVars, settingVars>>
    \/ part = "vault" /\ Vault!Next
       /\ UNCHANGED <<part, handoffVars, alertVars, replyVars, approvalVars,
                      memoryVars, settingVars>>
    \/ part = "setting" /\ Setting!Next
       /\ UNCHANGED <<part, handoffVars, alertVars, replyVars, approvalVars,
                      memoryVars, vaultVars>>

\* The fairness of the component that runs: the watcher runs and events age;
\* somebody polls, a speaker that plays leaves, leases end and time passes.
Fairness ==
    /\ WF_handoffVars(part = "handoff" /\ Handoff!Watch)
    /\ \A e \in Events : WF_handoffVars(part = "handoff" /\ Handoff!Age(e))
    /\ WF_alertVars(part = "alert" /\ \E s \in Speakers : Alert!Poll(s))
    /\ WF_alertVars(part = "alert" /\ \E s \in Speakers : Alert!Leave(s))
    /\ \A p \in Alert!Phases : /\ WF_alertVars(part = "alert" /\ Alert!LeaseEnds(p))
                              /\ WF_alertVars(part = "alert" /\ Alert!RetryDue(p))
    /\ WF_alertVars(part = "alert" /\ Alert!TenMinutes)

Spec == Init /\ [][Next]_vars /\ Fairness

TypeOK ==
    /\ part = "handoff" => Handoff!TypeOK
    /\ part = "alert" => Alert!TypeOK
    /\ part = "reply" => Reply!TypeOK
    /\ part = "approval" => Approval!TypeOK
    /\ part = "memory" => Memory!MemoryTypeOK
    /\ part = "vault" => Vault!VaultTypeOK
    /\ part = "setting" => Setting!SettingsTypeOK

\* An event the watcher has passed has its request, its expiry record or a trigger
\* whose context failed, unless it committed where the watcher had read already.
PassedIsAccounted == Handoff!PassedIsAccounted

\* An announcement and a reply are each said once, whatever is asked again.
SaidOnce == Alert!SpokenOnce /\ Reply!RepliedOnce

\* An approved action is dispatched once and a rejected one never, whoever decides
\* and resumes, and when.
ApprovedOnce == Approval!AtMostOneDispatch /\ Approval!RejectionIsRespected

\* The model's loop is resumed over the action's recorded result, and by one thread
\* while the first lease could last.
ResumedOnce == Approval!ModelSeesResult /\ Approval!OneModelLoopInTime

\* A record is replaced only by one who saw it: a memory, a note, a setting; but for
\* a note edited by hand behind a call that has read it, which no lock keeps out.
NoLostUpdate ==
    Memory!OneSuccessor /\ Vault!WritesWhatWasSeen /\ Setting!NoLostUpdate

\* An announcement that is due ends, and a committed event is accounted for.
ObligationSettles ==
    /\ part = "alert" => Alert!ObligationSettles
    /\ part = "handoff" => Handoff!CommittedIsAccounted
============================================================================
