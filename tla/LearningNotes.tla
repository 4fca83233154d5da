--------------------------- MODULE LearningNotes ---------------------------
(* What the household has learned, and the note that says so                  *)
(* (src/anima_ha/household_learning.py propose, review, reconcile_reviews and *)
(* their projection to the knowledge vault), for one candidate.  A suggestion *)
(* is a chain of memory rows, each replaced by a later version: a review      *)
(* request proposes, the owner decides, and a receipt records that the        *)
(* version's note was written.  The handlers of the tools, of the owner and   *)
(* of the review worker run in different threads, and the vault knows nothing *)
(* of the memory.                                                             *)
EXTENDS Naturals, Sequences

CONSTANTS Requests,    \* review requests that carry the candidate
          Decisions,   \* of ACKNOWLEDGED, DISMISSED, CORRECTED and RETRACTED
          MaxRows, MaxFaults,
          None

VARIABLES
    row,        \* the versions, in the order they were written
    notes,      \* the candidate's notes in the vault
    lifecycle,  \* request -> where the intelligence queue has it
    thread,     \* handler -> the version it is at work on
    faults      \* deaths of Core, calls of the vault that raise

noteVars == <<row, notes, lifecycle, thread, faults>>

\* A request's tool call, the owner's handler, and the worker: reconcilers
\* exclude each other by an advisory lock.
Handlers == Requests \cup {"owner", "reconciler"}
Rows == 1..Len(row)
Active == {v \in Rows : row[v].active}
Free == [at |-> "idle", row |-> 0, receipt |-> None]

Init ==
    /\ row = <<>> /\ notes = {}
    /\ lifecycle = [q \in Requests |-> "RUNNING"]
    /\ thread = [h \in Handlers |-> Free]
    /\ faults = 0

Fault == faults < MaxFaults /\ faults' = faults + 1
Go(h, at, v) == thread' = [thread EXCEPT ![h] = [Free EXCEPT !.at = at, !.row = v]]
Done(h) == thread' = [thread EXCEPT ![h] = Free]

\* MemoryService.correct: only a version that still stands is replaced.
Correct(v, new) ==
    /\ row[v].active /\ Len(row) < MaxRows
    /\ row' = Append([row EXCEPT ![v].active = FALSE], new)

Withdrawn(v) == row[v].status \in {"DISMISSED", "RETRACTED"}
\* Whether the version's note may be found.
Enabled(v) == ~Withdrawn(v) /\ ~row[v].quarantined

(****************************** The proposal *******************************)
\* propose: the candidate's standing version is read, and replaced or, if there
\* was none, created.  Its note goes over to the new version.
Read(q) ==
    /\ thread[q] = Free /\ lifecycle[q] = "RUNNING"
    /\ \A v \in Rows : row[v].request # q
    /\ \E v \in IF Active = {} THEN {0} ELSE Active : Go(q, "propose", v)
    /\ UNCHANGED <<row, notes, lifecycle, faults>>

Proposed(q, note) ==
    [request |-> q, status |-> "PENDING", decision |-> 0, quarantined |-> FALSE,
     projection |-> "PENDING", note |-> note, active |-> TRUE]

Propose(q) ==
    LET v == thread[q].row IN
    /\ thread[q].at = "propose"
    /\ \/ v = 0 /\ Len(row) < MaxRows /\ row' = Append(row, Proposed(q, None))
       \/ v # 0 /\ Correct(v, Proposed(q, row[v].note))
       \/ v # 0 /\ ~row[v].active /\ UNCHANGED row    \* the call raises
    /\ Done(q)
    /\ UNCHANGED <<notes, lifecycle, faults>>

Settle(q) ==
    /\ lifecycle[q] = "RUNNING" /\ thread[q] = Free
    /\ \E outcome \in {"COMPLETED", "FAILED"} : lifecycle' = [lifecycle EXCEPT ![q] = outcome]
    /\ UNCHANGED <<row, notes, thread, faults>>

(******************************* The owner *********************************)
\* review: a decision about the version the owner saw, if it still stands; the
\* handler goes on to its note.
Review(decision) ==
    /\ thread["owner"] = Free
    /\ \E v \in Active :
        Correct(v, [row[v] EXCEPT !.status = decision, !.decision = Len(row) + 1,
                                  !.quarantined = @ /\ decision # "CORRECTED",
                                  !.projection = "PENDING"])
    /\ Go("owner", "sync", Len(row) + 1)
    /\ UNCHANGED <<notes, lifecycle, faults>>

(***************************** The review worker ***************************)
\* _reconcile_reviews: the notes of a request that failed are quarantined, but
\* not what the owner put in their place.
MustQuarantine(v) ==
    /\ row[v].note # None /\ lifecycle[row[v].request] = "FAILED"
    /\ ~row[v].quarantined /\ row[v].status # "CORRECTED"

Quarantine ==
    /\ thread["reconciler"] = Free
    /\ \E v \in Active :
         /\ MustQuarantine(v)
         /\ Correct(v, [row[v] EXCEPT !.quarantined = TRUE, !.projection = "PENDING"])
    /\ Go("reconciler", "sync", Len(row) + 1)
    /\ UNCHANGED <<notes, lifecycle, faults>>

Retry ==
    /\ thread["reconciler"] = Free
    /\ \E v \in Active : /\ ~MustQuarantine(v) /\ row[v].projection # "SYNCHRONIZED"
                         /\ Go("reconciler", "sync", v)
    /\ UNCHANGED <<row, notes, lifecycle, faults>>

(***************************** The projection ******************************)
\* review_state: the provider's review ended well and has this outcome.
TerminalSuccess(q) ==
    lifecycle[q] = "COMPLETED" /\ \E v \in Active : row[v].request = q

Projectable(v) ==
    \/ row[v].quarantined \/ row[v].status \in {"DISMISSED", "CORRECTED", "RETRACTED"}
    \/ TerminalSuccess(row[v].request)

Begin(h) ==
    LET v == thread[h].row IN
    /\ thread[h].at = "sync"
    /\ IF Projectable(v) THEN Go(h, "write", v) ELSE Done(h)
    /\ UNCHANGED <<row, notes, lifecycle, faults>>

\* The tool_request_id of a write: what the version says, not which version it is.
Signature(v) == [request |-> row[v].request, status |-> row[v].status,
                 decision |-> row[v].decision, quarantined |-> row[v].quarantined]

Got(h, receipt) == thread' = [thread EXCEPT ![h].at = "receipt", ![h].receipt = receipt]

Create(h) ==
    LET v == thread[h].row IN
    /\ row[v].note = None
    /\ \/ \E n \in notes : n.id = Signature(v) /\ Got(h, [id |-> n.id, digest |-> n.digest])
                           /\ UNCHANGED notes
       \/ /\ \A n \in notes : n.id # Signature(v)
          /\ notes' = notes \cup {[id |-> Signature(v), digest |-> 1, by |-> Signature(v),
                                   enabled |-> Enabled(v)]}
          /\ Got(h, [id |-> Signature(v), digest |-> 1])

\* A mutant: the note is written over whatever it has become.
ExpectedAny(v, n) == TRUE

Expected(v, n) == n.digest = row[v].note.digest

Update(h) ==
    LET v == thread[h].row IN
    /\ row[v].note # None
    /\ \E n \in notes :
         /\ n.id = row[v].note.id
         /\ \/ n.by = Signature(v) /\ Got(h, [id |-> n.id, digest |-> n.digest]) /\ UNCHANGED notes
            \/ /\ n.by # Signature(v) /\ Expected(v, n)
               /\ notes' = (notes \ {n}) \cup {[n EXCEPT !.digest = @ + 1, !.by = Signature(v),
                                                         !.enabled = Enabled(v)]}
               /\ Got(h, [id |-> n.id, digest |-> n.digest + 1])
            \/ n.by # Signature(v) /\ ~Expected(v, n) /\ Got(h, None) /\ UNCHANGED notes

Write(h) ==
    /\ thread[h].at = "write"
    /\ \/ (Create(h) \/ Update(h)) /\ UNCHANGED faults
       \/ Fault /\ Got(h, None) /\ UNCHANGED notes
    /\ UNCHANGED <<row, lifecycle>>

\* A mutant: the receipt says only that the call came back.
ReceivedBlindly(v, receipt) ==
    [row[v] EXCEPT !.projection = "SYNCHRONIZED",
                   !.note = IF receipt = None THEN @ ELSE receipt]

Received(v, receipt) ==
    IF receipt = None THEN [row[v] EXCEPT !.projection = "FAILED"]
    ELSE [row[v] EXCEPT !.projection = "SYNCHRONIZED", !.note = receipt]

\* The receipt becomes a version of its own, unless the version it is for was
\* replaced in the meantime: then nothing remembers it.
Record(h) ==
    LET v == thread[h].row IN
    /\ thread[h].at = "receipt"
    /\ \/ Correct(v, Received(v, thread[h].receipt))
       \/ ~row[v].active /\ UNCHANGED row
    /\ Done(h)
    /\ UNCHANGED <<notes, lifecycle, faults>>

Die ==
    /\ \E h \in Handlers : thread[h] # Free
    /\ Fault
    /\ thread' = [h \in Handlers |-> Free]
    /\ UNCHANGED <<row, notes, lifecycle>>

Next ==
    \/ \E q \in Requests : Read(q) \/ Propose(q) \/ Settle(q)
    \/ \E decision \in Decisions : Review(decision)
    \/ Quarantine \/ Retry
    \/ \E h \in Handlers : Begin(h) \/ Write(h) \/ Record(h)
    \/ Die

Spec == Init /\ [][Next]_noteVars

NotesTypeOK ==
    /\ Len(row) \in 0..MaxRows
    /\ \A v \in Rows : /\ row[v].request \in Requests
                       /\ row[v].projection \in {"PENDING", "FAILED", "SYNCHRONIZED"}
    /\ \A m, n \in notes : m.id = n.id => m = n
    /\ \A h \in Handlers : thread[h].at \in {"idle", "propose", "sync", "write", "receipt"}
                           /\ thread[h].row \in 0..Len(row)

\* The note of a standing version that is recorded as synchronized is the one its
\* receipt names, as it was when it was written, and can be found exactly if the
\* owner has not withdrawn the version and its review did not fail.
SynchronizedIsTrue ==
    \A v \in Active : row[v].projection = "SYNCHRONIZED" =>
        \E n \in notes : /\ n.id = row[v].note.id /\ n.digest = row[v].note.digest
                         /\ n.enabled = Enabled(v)

\* Once the owner's dismissal of a suggestion is recorded as synchronized, none of
\* its notes can be found (docs/GOAL-027A-HOUSEHOLD-LEARNING-R3.md:217-218).
DismissalDisablesTheNote ==
    \A v \in Active : Active = {v} /\ Withdrawn(v) /\ row[v].projection = "SYNCHRONIZED" =>
        \A n \in notes : ~n.enabled
=============================================================================
