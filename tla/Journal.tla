------------------------------ MODULE Journal ------------------------------
(***************************************************************************)
(* The append-only event journal of PostgreSQL (journal.py).               *)
(*                                                                         *)
(* A position is drawn from the identity column when the row is INSERTed,  *)
(* outside the transaction: it is not given back on a rollback, a          *)
(* duplicate draws one too, and two writers may commit in the other order. *)
(* Every reader of the journal keeps a position and asks for what lies     *)
(* beyond it.                                                              *)
(***************************************************************************)
EXTENDS Integers, FiniteSets

CONSTANTS
    Events,         \* the logical events (source, source_event_id)
    MaxPosition     \* bound: positions drawn

VARIABLES
    head,   \* the last position drawn
    row,    \* event -> "none", "open" (inserted, not committed), "committed"
    pos     \* event -> the position of its row, 0 without one

journal == <<head, row, pos>>

JournalTypeOK ==
    /\ head \in 0..MaxPosition
    /\ row \in [Events -> {"none", "open", "committed"}]
    /\ pos \in [Events -> 0..MaxPosition]

JournalInit ==
    /\ head = 0
    /\ row = [e \in Events |-> "none"]
    /\ pos = [e \in Events |-> 0]

Committed == {e \in Events : row[e] = "committed"}

(* The committed rows that a statement finds beyond a position. *)
Beyond(p) == {e \in Committed : pos[e] > p}

(* MAX(journal_position) of the committed rows, 0 without any. *)
LastCommitted == CHOOSE p \in 0..MaxPosition :
    /\ p \in {0} \cup {pos[e] : e \in Committed}
    /\ \A e \in Committed : pos[e] <= p

(* INSERT .. ON CONFLICT DO NOTHING RETURNING journal_position *)
Insert(e) ==
    /\ row[e] = "none"
    /\ head < MaxPosition
    /\ head' = head + 1
    /\ row' = [row EXCEPT ![e] = "open"]
    /\ pos' = [pos EXCEPT ![e] = head + 1]

(* The same logical event again: a position is drawn, no row is added and  *)
(* the writer is told the first one.                                       *)
Duplicate(e) ==
    /\ row[e] = "committed"
    /\ head < MaxPosition
    /\ head' = head + 1
    /\ UNCHANGED <<row, pos>>

Commit(e) ==
    /\ row[e] = "open"
    /\ row' = [row EXCEPT ![e] = "committed"]
    /\ UNCHANGED <<head, pos>>

(* The writer's transaction is rolled back; the event may be appended      *)
(* again, at a new position.                                               *)
Abort(e) ==
    /\ row[e] = "open"
    /\ row' = [row EXCEPT ![e] = "none"]
    /\ pos' = [pos EXCEPT ![e] = 0]
    /\ UNCHANGED head

JournalNext == \E e \in Events : Insert(e) \/ Duplicate(e) \/ Commit(e) \/ Abort(e)
============================================================================
