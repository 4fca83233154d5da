-------------------------- MODULE TruthProjection --------------------------
(***************************************************************************)
(* The truth projection over the journal (journal.py                       *)
(* PostgresTruthProjection): observations are copied from the rows beyond  *)
(* a checkpoint in one transaction under an advisory lock, a failing row   *)
(* rolls the whole batch back, and a rebuild truncates the tables and      *)
(* resets the checkpoint without taking that lock.                         *)
(***************************************************************************)
EXTENDS Journal

CONSTANTS
    Reading,        \* event -> the observation in it: source, sequence, state, value
    Projectors,     \* the threads that project
    Poison,         \* the events whose row never projects (schema, payload)
    None,
    MaxRebuilds     \* bound: rebuilds an operator asks for

TruthAssumption == MaxPosition \in Nat /\ None \notin Nat

VARIABLES
    checkpoint,     \* last_position of the checkpoint row, None without a row
    observed,       \* events in anima_truth_observations
    truth,          \* the key's row in anima_truth_state, None without one
    proj,           \* projector -> its transaction
    broken,         \* history: what has gone wrong that nothing repairs
    skipped,        \* history: events that committed where a projector had read already
    rebuilds

projection == <<checkpoint, observed, truth, proj, broken, rebuilds>>
vars == <<journal, projection, skipped>>

Positions == 0..MaxPosition
Truths == {None, "CONFLICTING", "UNAVAILABLE", "UNKNOWN"} \cup {Reading[e].value : e \in Events}
Idle == [at |-> "idle", batch |-> {}, done |-> {}, last |-> 0, truth |-> None]

TypeOK ==
    /\ JournalTypeOK
    /\ checkpoint \in Positions \cup {None}
    /\ observed \subseteq Committed /\ truth \in Truths
    /\ proj \in [Projectors -> [at : {"idle", "run", "failed"}, batch : SUBSET Events,
                                done : SUBSET Events, last : Positions, truth : Truths]]
    /\ broken \subseteq {"first_failure", "raced"}
    /\ skipped \subseteq Committed /\ rebuilds \in 0..MaxRebuilds

Init ==
    /\ JournalInit
    /\ checkpoint = None /\ observed = {} /\ truth = None
    /\ broken = {} /\ skipped = {} /\ rebuilds = 0
    /\ proj = [p \in Projectors |-> Idle]

-----------------------------------------------------------------------------
(* TruthReconciler.resolve, for one key. A sequence number, where a source *)
(* supplies one, dominates the time of observation; what comes later in    *)
(* the journal was observed later.                                         *)

Later(x, y) ==
    LET a == Reading[x].sequence
        b == Reading[y].sequence
    IN  IF a # None /\ b # None THEN a > b
        ELSE IF a = None /\ b = None THEN pos[x] > pos[y]
        ELSE a # None

Latest(obs) == {x \in obs : \A y \in obs :
                    Reading[y].source = Reading[x].source => ~Later(y, x)}

(* One value, several that conflict, or none that is known. *)
Resolve(obs) ==
    LET known == {Reading[x].value : x \in {y \in Latest(obs) : Reading[y].state = "KNOWN"}}
    IN  CASE \E v, w \in known : v # w -> "CONFLICTING"
          [] \E v \in known : known = {v} -> CHOOSE v \in known : TRUE
          [] known = {} /\ (\E x \in Latest(obs) : Reading[x].state = "UNAVAILABLE") -> "UNAVAILABLE"
          [] OTHER -> "UNKNOWN"

-----------------------------------------------------------------------------
(* The projection *)

\* Mutant: the advisory lock is not taken.
NoLock == TRUE

(* The advisory lock is held to the end of the transaction. *)
LockFree == \A p \in Projectors : proj[p].at # "run"

(* The checkpoint and the rows beyond it are read under the lock. *)
Begin(p) ==
    LET from == IF checkpoint = None THEN 0 ELSE checkpoint IN
    /\ proj[p].at = "idle" /\ LockFree
    /\ proj' = [proj EXCEPT ![p] = [at |-> "run", batch |-> Beyond(from), done |-> {},
                                    last |-> from, truth |-> truth]]
    /\ UNCHANGED <<journal, skipped, checkpoint, observed, truth, broken, rebuilds>>

Row(p) == CHOOSE e \in proj[p].batch : \A x \in proj[p].batch : pos[e] <= pos[x]

(* The row is copied, and the key resolved from all of its observations.   *)
ProjectOne(p) ==
    /\ proj[p].at = "run" /\ proj[p].batch # {}
    /\ Row(p) \notin Poison
    /\ proj' = [proj EXCEPT ![p].batch = @ \ {Row(p)}, ![p].done = @ \cup {Row(p)},
                            ![p].last = pos[Row(p)],
                            ![p].truth = Resolve(observed \cup proj[p].done \cup {Row(p)})]
    /\ UNCHANGED <<journal, skipped, checkpoint, observed, truth, broken, rebuilds>>

Finish(p) ==
    /\ proj[p].at = "run" /\ proj[p].batch = {}
    /\ observed' = observed \cup proj[p].done
    /\ truth' = proj[p].truth
    /\ checkpoint' = IF proj[p].done = {} THEN checkpoint ELSE proj[p].last
    /\ proj' = [proj EXCEPT ![p] = Idle]
    /\ UNCHANGED <<journal, skipped, broken, rebuilds>>

(* A row raises: the batch is rolled back, and the lock is given up. *)
Rollback(p) ==
    /\ proj[p].at = "run" /\ proj[p].batch # {}
    /\ proj' = [proj EXCEPT ![p].at = "failed", ![p].batch = {}, ![p].done = {},
                            ![p].truth = None]
    /\ UNCHANGED <<journal, skipped, checkpoint, observed, truth, broken, rebuilds>>

(* The failure is recorded in the checkpoint row; an existing one keeps    *)
(* its position, a new one gets the position the lost batch had reached.   *)
RecordFailure(p) ==
    /\ proj[p].at = "failed"
    /\ IF checkpoint = None
       THEN /\ checkpoint' = proj[p].last
            /\ broken' = IF proj[p].last > 0 THEN broken \cup {"first_failure"} ELSE broken
       ELSE UNCHANGED <<checkpoint, broken>>
    /\ proj' = [proj EXCEPT ![p] = Idle]
    /\ UNCHANGED <<journal, skipped, observed, truth, rebuilds>>

(* The truncation waits for the transactions that wrote observations, not  *)
(* for one that has only read the checkpoint. The projection that follows  *)
(* is a projector's, and begins with the first row: what was skipped is    *)
(* read again.                                                             *)
Rebuild ==
    /\ rebuilds < MaxRebuilds
    /\ \A p \in Projectors : proj[p].done = {}
    /\ observed' = {} /\ truth' = None /\ checkpoint' = 0
    /\ broken' = IF LockFree THEN broken ELSE broken \cup {"raced"}
    /\ rebuilds' = rebuilds + 1
    /\ skipped' = {}
    /\ UNCHANGED <<journal, proj>>

Die(p) ==
    /\ proj[p].at # "idle"
    /\ proj' = [proj EXCEPT ![p] = Idle]
    /\ UNCHANGED <<journal, skipped, checkpoint, observed, truth, broken, rebuilds>>

(* The positions that a projection has passed, or will when it ends.       *)
ReadTo(n) ==
    \/ checkpoint # None /\ n <= checkpoint
    \/ \E p \in Projectors :
          /\ proj[p].at = "run"
          /\ \/ n <= proj[p].last
             \/ \E x \in proj[p].batch : n < pos[x]

(* The writers of the journal. A row that commits where a projector has    *)
(* read already is behind every later batch.                               *)
Write ==
    /\ JournalNext
    /\ skipped' = skipped \cup {e \in Events : /\ row[e] # "committed" /\ row'[e] = "committed"
                                            /\ ReadTo(pos[e])}
    /\ UNCHANGED projection

Next ==
    \/ Write
    \/ \E p \in Projectors :
          \/ Begin(p) \/ ProjectOne(p) \/ Finish(p)
          \/ Rollback(p) \/ RecordFailure(p) \/ Die(p)
    \/ Rebuild

Spec == Init /\ [][Next]_vars

(* What the checkpoint has passed is in the truth tables and nothing else  *)
(* is, and the key's row says what its observations resolve to, across     *)
(* rows that commit out of order, failing rows, deaths, a second projector *)
(* and rebuilds: but for a row that commits where a projector has read     *)
(* already, until a rebuild, for a failure before the first checkpoint and *)
(* for a rebuild beside a running projection                               *)
(* (PostgresTruthProjection.project_pending, rebuild).                     *)
CheckpointIsProjected ==
    broken = {} =>
        /\ {e \in Committed : checkpoint # None /\ pos[e] <= checkpoint} \ skipped = observed \ skipped
        /\ truth = IF observed = {} THEN None ELSE Resolve(observed)
=============================================================================
