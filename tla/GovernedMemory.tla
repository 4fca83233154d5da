--------------------------- MODULE GovernedMemory ---------------------------
(* The governed memory (src/anima_ha/memory.py): records that are created,    *)
(* corrected by a successor, retracted or expired, each in one transaction    *)
(* with the rows of the search index, and the explicit preferences on top of  *)
(* them (src/anima_ha/preferences.py), whose updates look at a record before  *)
(* the transaction that changes it.  PostgreSQL runs at READ COMMITTED: a     *)
(* statement sees what was committed before it, a row lock lasts until the    *)
(* commit, and TRUNCATE excludes every other user of the index.               *)
CONSTANTS Memories, Sessions,
          Perishable,   \* the memories with an expires_at
          None

VARIABLES
    memory,     \* memory -> its committed row
    due,        \* memories whose expires_at has passed
    index,      \* the committed rows of the search index
    session     \* session -> its operation and its open transaction

memoryVars == <<memory, due, index, session>>

Absent == [status |-> "absent", supersedes |-> None, by |-> None]
Fresh(old) == [status |-> "ACTIVE", supersedes |-> old, by |-> None]
Outside == [at |-> "idle", op |-> None, on |-> None, new |-> None,
            rows |-> [m \in {} |-> Absent], table |-> "free", refill |-> {}]

Init ==
    /\ memory = [m \in Memories |-> Absent]
    /\ due = {}
    /\ index = {}
    /\ session = [s \in Sessions |-> Outside]

Open(s) == DOMAIN session[s].rows
Unlocked(m) == \A s \in Sessions : m \notin Open(s)
Unused == {m \in Memories : memory[m].status = "absent" /\ Unlocked(m)
                            /\ \A s \in Sessions : session[s].new # m}
Active(m) == memory[m].status = "ACTIVE"
Indexable == {m \in Memories : Active(m) /\ m \notin due}

At(s, at) == [session EXCEPT ![s].at = at]

(******************************* Requests **********************************)
\* create(): the row is inserted first.
Create(s, m) ==
    /\ session[s] = Outside /\ m \in Unused
    /\ session' = [session EXCEPT ![s] =
         [Outside EXCEPT !.at = "index", !.op = "create", !.new = m,
                  !.rows = [x \in {m} |-> Fresh(None)]]]
    /\ UNCHANGED <<memory, due, index>>

\* A preference is read, and must be ACTIVE, before it is corrected or retracted.
Look(s, m, op) ==
    /\ session[s] = Outside /\ Active(m)
    /\ session' = [session EXCEPT ![s] = [Outside EXCEPT !.at = "lock", !.op = op, !.on = m]]
    /\ UNCHANGED <<memory, due, index>>

\* A mutant: what was read before the transaction is believed.
BelieveTheRead(m) == memory[m].status # "absent"

Transitional(m) == Active(m)

\* SELECT ... FOR UPDATE, and the status is looked at again.
Locks(s, op) ==
    /\ session[s].at = "lock" /\ session[s].op = op /\ Unlocked(session[s].on)
    /\ UNCHANGED <<memory, due, index>>

Refuse(s, op) ==
    /\ Locks(s, op) /\ ~Transitional(session[s].on)
    /\ session' = [session EXCEPT ![s] = Outside]

\* The successor is inserted, and the original names it.
Correct(s, m) ==
    LET on == session[s].on IN
    /\ Locks(s, "correct") /\ Transitional(on) /\ m \in Unused
    /\ session' = [session EXCEPT
         ![s].at = "index", ![s].new = m,
         ![s].rows = [x \in {m, on} |->
             IF x = m THEN Fresh(on) ELSE [memory[on] EXCEPT !.status = "SUPERSEDED", !.by = m]]]

Retract(s) ==
    LET on == session[s].on IN
    /\ Locks(s, "retract") /\ Transitional(on)
    /\ session' = [session EXCEPT
         ![s].at = "index",
         ![s].rows = [x \in {on} |-> [memory[on] EXCEPT !.status = "RETRACTED"]]]

\* expire_due(), before every retrieval: the rows that are due are locked, and
\* those another transaction changed meanwhile no longer match.
ExpireDue(s) ==
    LET rows == {m \in due : Active(m)} IN
    /\ session[s] = Outside /\ rows # {} /\ \A m \in rows : Unlocked(m)
    /\ session' = [session EXCEPT ![s] =
         [Outside EXCEPT !.at = "index", !.op = "expire",
                         !.rows = [m \in rows |-> [memory[m] EXCEPT !.status = "EXPIRED"]]]]
    /\ UNCHANGED <<memory, due, index>>

(***************************** The search index ****************************)
Exclusive(t) == session[t].table = "exclusive"
Touched(t) == session[t].table # "free"

\* The transaction deletes the index rows of what it changed, and adds what it made.
TouchIndex(s) ==
    /\ session[s].at = "index"
    /\ \A t \in Sessions \ {s} : ~Exclusive(t)
    /\ session' = [session EXCEPT ![s].at = "commit", ![s].table = "shared"]
    /\ UNCHANGED <<memory, due, index>>

\* rebuild_index(): TRUNCATE waits for every transaction that touched the index,
Truncate(s) ==
    /\ session[s] = Outside
    /\ \A t \in Sessions \ {s} : ~Touched(t)
    /\ session' = [session EXCEPT ![s] =
         [Outside EXCEPT !.at = "refill", !.op = "rebuild", !.table = "exclusive"]]
    /\ UNCHANGED <<memory, due, index>>

\* and the INSERT ... SELECT sees what is committed by then.
Refill(s) ==
    /\ session[s].at = "refill"
    /\ session' = [session EXCEPT ![s].at = "commit", ![s].refill = Indexable]
    /\ UNCHANGED <<memory, due, index>>

Commit(s) ==
    LET t == session[s] IN
    /\ t.at = "commit"
    /\ memory' = [m \in Memories |-> IF m \in Open(s) THEN t.rows[m] ELSE memory[m]]
    /\ index' = IF t.op = "rebuild" THEN t.refill
                ELSE (index \ Open(s)) \cup ({t.new} \ {None})
    /\ session' = [session EXCEPT ![s] = Outside]
    /\ UNCHANGED due

\* An exception, or the end of the process: the transaction is rolled back.
Rollback(s) ==
    /\ session[s] # Outside
    /\ session' = [session EXCEPT ![s] = Outside]
    /\ UNCHANGED <<memory, due, index>>

FallDue(m) ==
    /\ m \in Perishable \ due /\ Active(m)
    /\ due' = due \cup {m}
    /\ UNCHANGED <<memory, index, session>>

Next ==
    \/ \E s \in Sessions :
         \/ \E m \in Memories :
              \/ Create(s, m) \/ Correct(s, m)
              \/ \E op \in {"correct", "retract"} : Look(s, m, op)
         \/ \E op \in {"correct", "retract"} : Refuse(s, op)
         \/ Retract(s) \/ ExpireDue(s) \/ TouchIndex(s)
         \/ Truncate(s) \/ Refill(s) \/ Commit(s) \/ Rollback(s)
    \/ \E m \in Memories : FallDue(m)

Spec == Init /\ [][Next]_memoryVars

MemoryTypeOK ==
    /\ \A m \in Memories :
         memory[m].status \in {"absent", "ACTIVE", "SUPERSEDED", "RETRACTED", "EXPIRED"}
    /\ due \subseteq Perishable
    /\ \A s \in Sessions : session[s].at \in {"idle", "lock", "index", "refill", "commit"}

\* Whatever two owners, the expiry and a rebuild of the index do to the same
\* records at once: a memory has at most one successor and is SUPERSEDED
\* exactly when it has one, and the index holds no memory that is not ACTIVE
\* and every one that is and has not fallen due.
OneSuccessor ==
    /\ \A m \in Memories : memory[m].status = "SUPERSEDED" <=> memory[m].by # None
    /\ \A m, n \in Memories :
         memory[n].supersedes = m => memory[m].status = "SUPERSEDED" /\ memory[m].by = n
    /\ index \subseteq {m \in Memories : Active(m)}
    /\ Indexable \subseteq index
=============================================================================
