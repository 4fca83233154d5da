-------------------------- MODULE LearningSchedule --------------------------
(* How a saved initiative configuration becomes a review that is asked for    *)
(* (src/anima_ha/household_learning.py configure, ensure_review_tasks and     *)
(* create_review_packet, learning_review_runner.py), for one kind of review   *)
(* and the first run of each version's task.  Runners in two processes keep   *)
(* the durable tasks in step with the configuration and dispatch their runs;  *)
(* the watcher of the journal hands the same event off by the same code.      *)
EXTENDS Naturals

CONSTANTS Runners,
          MaxVersions, MaxEvidence, MaxAttempts, MaxFaults,
          None

\* The watcher is no runner, and None is none of the values a row may have.
ScheduleAssumption ==
    /\ MaxVersions \in Nat /\ "watcher" \notin Runners
    /\ None \notin BOOLEAN /\ None \notin {"ACTIVE", "CANCELLED", "COMPLETED"}
    /\ None \notin [evidence : Nat, consent : BOOLEAN]

VARIABLES
    enabled,    \* version -> whether it wants the review, None before it is saved
    task,       \* version -> its durable task
    run,        \* version -> the task's run: its status, its attempt, its claimer
    evidence,   \* what the journal offers as qualified evidence, by its version
    journaled, request, packet,   \* version -> its event, its request, its packet
    hand,       \* runner or watcher -> what it is doing, and what it read
    ensured,    \* history: the version the last reconciliation was for
    crossed,    \* history: two reconciliations that read different versions overlapped
    faults

scheduleVars == <<enabled, task, run, evidence, journaled, request, packet, hand,
                  ensured, crossed, faults>>

Versions == 1..MaxVersions
Hands == Runners \cup {"watcher"}
Idle == [at |-> "idle", saw |-> 0, existing |-> {}, evidence |-> 0, consent |-> None]
Saved == {v \in Versions : enabled[v] # None}
\* _config: the one configuration that no later version replaced.
Config == IF Saved = {} THEN 0 ELSE CHOOSE v \in Saved : \A u \in Saved : u <= v

Init ==
    /\ enabled = [v \in Versions |-> None]
    /\ task = [v \in Versions |-> None]
    /\ run = [v \in Versions |-> [status |-> None, attempt |-> 1, by |-> None]]
    /\ evidence = 1
    /\ journaled = {} /\ request = {} /\ packet = [v \in Versions |-> None]
    /\ hand = [h \in Hands |-> Idle]
    /\ ensured = 0 /\ crossed = FALSE /\ faults = 0

Step(h, at) == hand' = [hand EXCEPT ![h].at = at]
Stop(h) == hand' = [hand EXCEPT ![h] = Idle]

(***************************** The household *******************************)
\* configure: whoever saves saw the standing version.
Save(wanted) ==
    /\ Config < MaxVersions /\ enabled' = [enabled EXCEPT ![Config + 1] = wanted]
    /\ UNCHANGED <<task, run, evidence, journaled, request, packet, hand, ensured, crossed, faults>>

Learn ==
    /\ evidence < MaxEvidence /\ evidence' = evidence + 1
    /\ UNCHANGED <<enabled, task, run, journaled, request, packet, hand, ensured, crossed, faults>>

(*********************** ensure_review_tasks, in a runner ******************)
Wanted(v) == IF enabled[v] = TRUE THEN {v} ELSE {}
Active == {v \in Versions : task[v] = "ACTIVE"}

\* The configuration and the tasks are read once.
Ensure(r) ==
    /\ hand[r] = Idle /\ Config > 0
    /\ hand' = [hand EXCEPT ![r] = [Idle EXCEPT !.at = "cancel", !.saw = Config,
                                    !.existing = {v \in Versions : task[v] # None}]]
    /\ UNCHANGED <<enabled, task, run, evidence, journaled, request, packet, ensured, crossed, faults>>

\* A mutant: a configuration that wants no review leaves the tasks alone.
ObsoleteUnlessNone(r) ==
    IF Wanted(hand[r].saw) = {} THEN {} ELSE hand[r].existing \ Wanted(hand[r].saw)

\* The household's review tasks that are not of the configuration read.
Obsolete(r) == hand[r].existing \ Wanted(hand[r].saw)

Cancel(r) ==
    /\ hand[r].at = "cancel"
    /\ task' = [v \in Versions |-> IF v \in Obsolete(r) /\ task[v] = "ACTIVE"
                                   THEN "CANCELLED" ELSE task[v]]
    /\ Step(r, "create")
    /\ UNCHANGED <<enabled, run, evidence, journaled, request, packet, ensured, crossed, faults>>

\* A task that was listed, whatever its status, is not created again; the
\* creation key makes two creations one.
Create(r) ==
    LET missing == Wanted(hand[r].saw) \ hand[r].existing IN
    /\ hand[r].at = "create"
    /\ task' = [v \in Versions |-> IF v \in missing /\ task[v] = None THEN "ACTIVE" ELSE task[v]]
    /\ ensured' = hand[r].saw
    /\ crossed' = (crossed \/ \E o \in Runners \ {r} : hand[o].at \in {"cancel", "create"}
                                                       /\ hand[o].saw # hand[r].saw)
    /\ Step(r, "claim")
    /\ UNCHANGED <<enabled, run, evidence, journaled, request, packet, faults>>

(************************** The run and its sink ***************************)
FallDue(v) ==
    /\ task[v] = "ACTIVE" /\ run[v].status = None
    /\ run' = [run EXCEPT ![v].status = "DUE"]
    /\ UNCHANGED <<enabled, task, evidence, journaled, request, packet, hand, ensured, crossed, faults>>

\* _tasks: the active task of the standing configuration.
InScope(v) == v = Config /\ v \in Wanted(v) /\ task[v] = "ACTIVE"

Claim(r) ==
    /\ hand[r].at = "claim"
    /\ \/ \E v \in Versions :
            /\ InScope(v) /\ run[v].status = "DUE"
            /\ run' = [run EXCEPT ![v].status = "CLAIMED", ![v].by = r]
            /\ hand' = [hand EXCEPT ![r] = [Idle EXCEPT !.at = "append", !.saw = v]]
       \/ /\ \A v \in Versions : ~(InScope(v) /\ run[v].status = "DUE")
          /\ Stop(r) /\ UNCHANGED run
    /\ UNCHANGED <<enabled, task, evidence, journaled, request, packet, ensured, crossed, faults>>

LeaseEnds(v) ==
    /\ run[v].status = "CLAIMED"
    /\ run' = [run EXCEPT ![v] = IF @.attempt < MaxAttempts
                                 THEN [status |-> "DUE", attempt |-> @.attempt + 1, by |-> None]
                                 ELSE [@ EXCEPT !.status = "FAILED"]]
    /\ UNCHANGED <<enabled, task, evidence, journaled, request, packet, hand, ensured, crossed, faults>>

\* dispatch_journal_event: the watcher comes to the event, again if it raised.
Watch(v) ==
    /\ v \in journaled /\ hand["watcher"] = Idle
    /\ hand' = [hand EXCEPT !["watcher"] = [Idle EXCEPT !.at = "append", !.saw = v]]
    /\ UNCHANGED <<enabled, task, run, evidence, journaled, request, packet, ensured, crossed, faults>>

\* _append_review.  The event is journaled while its task is in scope ...
Append(h) ==
    LET v == hand[h].saw IN
    /\ hand[h].at = "append"
    /\ IF InScope(v) THEN journaled' = journaled \cup {v} /\ Step(h, "recheck")
                     ELSE Stop(h) /\ UNCHANGED journaled
    /\ UNCHANGED <<enabled, task, run, evidence, request, packet, ensured, crossed, faults>>

\* A mutant: out of scope, the journaled event is enough.
Excused(h) == Step(h, "mark")

\* Out of scope: the sink raises, and its caller does not mark the run.
Raise(h) == Stop(h)

\* ... and it is asked for if the configuration did not change meanwhile.
Recheck(h) ==
    /\ hand[h].at = "recheck"
    /\ IF InScope(hand[h].saw) THEN Step(h, "enqueue") ELSE Raise(h)
    /\ UNCHANGED <<enabled, task, run, evidence, journaled, request, packet, ensured, crossed, faults>>

Enqueue(h) ==
    /\ hand[h].at = "enqueue"
    /\ request' = request \cup {hand[h].saw} /\ Step(h, "freeze")
    /\ UNCHANGED <<enabled, task, run, evidence, journaled, packet, ensured, crossed, faults>>

\* _bound_review_consent: only the standing configuration, by its own task's run.
BoundConsent(v) == InScope(v) /\ run[v].status \in {"CLAIMED", "COMPLETED"}

\* create_review_packet reads the evidence and the consent, ...
Read(h) ==
    /\ hand[h].at = "freeze"
    /\ hand' = [hand EXCEPT ![h].at = "insert", ![h].evidence = evidence,
                            ![h].consent = BoundConsent(hand[h].saw)]
    /\ UNCHANGED <<enabled, task, run, evidence, journaled, request, packet, ensured, crossed, faults>>

\* ensure_review_packet: the provider boundary makes up for a packet that is missing.
ReadLazily(h, v) ==
    /\ hand[h] = Idle /\ v \in request /\ packet[v] = None
    /\ hand' = [hand EXCEPT ![h] = [Idle EXCEPT !.at = "insert", !.saw = v, !.evidence = evidence,
                                                !.consent = BoundConsent(v)]]
    /\ UNCHANGED <<enabled, task, run, evidence, journaled, request, packet, ensured, crossed, faults>>

\* ... and freezes them once: other evidence under the same request raises.
Insert(h) ==
    LET v == hand[h].saw IN
    /\ hand[h].at = "insert"
    /\ IF packet[v] = None
       THEN packet' = [packet EXCEPT ![v] = [evidence |-> hand[h].evidence,
                                             consent |-> hand[h].consent]]
       ELSE UNCHANGED packet
    /\ IF packet'[v].evidence = hand[h].evidence THEN Step(h, "mark") ELSE Stop(h)
    /\ UNCHANGED <<enabled, task, run, evidence, journaled, request, ensured, crossed, faults>>

\* mark_dispatched, if the claim still stands.
Mark(h) ==
    LET v == hand[h].saw IN
    /\ hand[h].at = "mark"
    /\ run' = IF run[v].status = "CLAIMED" /\ run[v].by = h
              THEN [run EXCEPT ![v].status = "COMPLETED"] ELSE run
    /\ Stop(h)
    /\ UNCHANGED <<enabled, task, evidence, journaled, request, packet, ensured, crossed, faults>>

Die(h) ==
    /\ hand[h] # Idle /\ faults < MaxFaults
    /\ faults' = faults + 1 /\ Stop(h)
    /\ UNCHANGED <<enabled, task, run, evidence, journaled, request, packet, ensured, crossed>>

Next ==
    \/ \E wanted \in BOOLEAN : Save(wanted)
    \/ Learn
    \/ \E r \in Runners : Ensure(r) \/ Cancel(r) \/ Create(r) \/ Claim(r)
    \/ \E v \in Versions : FallDue(v) \/ LeaseEnds(v) \/ Watch(v) \/ ReadLazily("watcher", v)
    \/ \E h \in Hands : Append(h) \/ Recheck(h) \/ Enqueue(h) \/ Read(h) \/ Insert(h)
                        \/ Mark(h) \/ Die(h)

Spec == Init /\ [][Next]_scheduleVars

ScheduleTypeOK ==
    /\ \A v \in Versions : /\ task[v] \in {None, "ACTIVE", "CANCELLED"}
                           /\ run[v].attempt \in 1..MaxAttempts
    /\ \A h \in Hands : hand[h].saw \in 0..MaxVersions

\* Once the standing configuration has been reconciled, exactly the review it
\* wants is scheduled, unless a runner that had read another version was at the
\* tasks in the same moments.
ScheduleFollowsConfig ==
    /\ Config > 0 /\ ensured = Config /\ ~crossed
    /\ \A r \in Runners : hand[r].at \notin {"cancel", "create"}
    => Active = Wanted(Config)

\* A run that was marked as dispatched has its event, its request and its packet;
\* and a packet carries the evidence of one reading, whoever froze it.
DispatchIsAccounted ==
    \A v \in Versions :
        /\ run[v].status = "COMPLETED" => v \in journaled \cap request /\ packet[v] # None
        /\ packet[v] # None => v \in request
=============================================================================
