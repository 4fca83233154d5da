--------------------------- MODULE JournalHandoff ---------------------------
(***************************************************************************)
(* From a journaled event to a queued request (ui_runtime.py               *)
(* JournalEventWatcher, intelligence.py SentryAttentionBridge.run_once).   *)
(*                                                                         *)
(* The watcher reads, in one transaction, the guaranteed events beyond its *)
(* cursor and hands each to the dispatcher, which commits in transactions  *)
(* of its own: an isolated attention consumer is primed just before the    *)
(* event and read one event on, the trigger's context is assembled, the    *)
(* request is enqueued. The router that saw the event arrive calls the     *)
(* same dispatcher. All of them die with Core, at any statement.           *)
(***************************************************************************)
EXTENDS Journal

CONSTANTS
    Durable,        \* the events of durable tasks: they never expire
    Ahead,          \* the events whose source's clock is ahead of Core's
    None,           \* no value in a column, no event in a variable
    MaxFaults       \* bound: deaths of Core, and hand-offs of a durable event that raise

HandoffAssumption ==
    /\ Durable \subseteq Events /\ Ahead \subseteq Events \ Durable
    /\ MaxPosition \in Nat /\ MaxFaults \in Nat
    /\ None \notin Events /\ None \notin 0..MaxPosition

VARIABLES
    age,        \* event -> "early" (occurred_at ahead of the clock), "fresh", "old"
    cursor,     \* the watcher's checkpoint row
    managed,    \* its ":managed" row
    expired,    \* events with an ":expired:" row
    watcher,    \* its thread and its open transaction
    call,       \* handler -> the dispatch it is in
    consumer,   \* event -> last_position of its isolated attention consumer
    trigger,    \* event -> the status of its trigger
    failed,     \* history: events for which an assembly of the context failed
    requests,   \* events with a queued request
    missed,     \* history: events that committed where the watcher had read already
    faults

handoff == <<age, cursor, managed, expired, watcher, call, consumer, trigger,
             failed, requests, faults>>
vars == <<journal, handoff, missed>>

Handlers == {"watcher", "router"}
Positions == 0..MaxPosition
Statuses == {"PENDING", "CONTEXT_READY", "FAILED_CONTEXT"}
Idle == [at |-> "idle", event |-> None]
Asleep == [at |-> "idle", batch |-> {}, cursor |-> None, managed |-> None, expired |-> {}]

TypeOK ==
    /\ JournalTypeOK
    /\ age \in [Events -> {"early", "fresh", "old"}]
    /\ cursor \in Positions \cup {None} /\ managed \in Positions \cup {None}
    /\ expired \subseteq Events
    /\ watcher \in [at : {"idle", "next", "waits"}, batch : SUBSET Events,
                    cursor : Positions \cup {None}, managed : Positions \cup {None},
                    expired : SUBSET Events]
    /\ call \in [Handlers -> [at : {"idle", "prime", "process", "context", "assemble", "enqueue"},
                              event : Events \cup {None}]]
    /\ consumer \in [Events -> Positions \cup {None}]
    /\ trigger \in [Events -> Statuses \cup {None}]
    /\ failed \subseteq Events /\ requests \subseteq Events /\ missed \subseteq Events
    /\ faults \in 0..MaxFaults

Init ==
    /\ JournalInit
    /\ age = [e \in Events |-> IF e \in Ahead THEN "early" ELSE "fresh"]
    /\ cursor = None /\ managed = None /\ expired = {}
    /\ watcher = Asleep
    /\ call = [h \in Handlers |-> Idle]
    /\ consumer = [e \in Events |-> None]
    /\ trigger = [e \in Events |-> None]
    /\ failed = {} /\ requests = {} /\ missed = {} /\ faults = 0

-----------------------------------------------------------------------------
(* The watcher's transaction *)

(* Only the recent suffix is adopted: the smallest recent position less    *)
(* one, or everything up to now is left behind.                            *)
FirstCursor ==
    LET recent == {pos[e] : e \in {x \in Committed : age[x] # "old"}}
    IN  IF recent # {} THEN (CHOOSE p \in recent : \A q \in recent : p <= q) - 1
        ELSE LastCommitted

(* Both rows are inserted if absent, the cursor's is locked, and the       *)
(* guaranteed events beyond it are read.                                   *)
Scan ==
    LET from == IF cursor = None THEN FirstCursor ELSE cursor IN
    /\ watcher.at = "idle"
    /\ watcher' = [at |-> "next", batch |-> Beyond(from), expired |-> {}, cursor |-> from,
                   managed |-> IF managed = None THEN LastCommitted ELSE managed]
    /\ UNCHANGED <<journal, missed, age, cursor, managed, expired, call, consumer,
                   trigger, failed, requests, faults>>

(* The event whose turn it is: the batch is in the order of positions. *)
Head == CHOOSE e \in watcher.batch : \A x \in watcher.batch : pos[e] <= pos[x]

\* Mutant: a stale event is handed off, however often that is refused.
DeliverableNow(e) == age[e] # "early"

Deliverable(e) == age[e] = "fresh" \/ (e \in Durable /\ age[e] # "early")

HandOver ==
    /\ watcher.at = "next" /\ watcher.batch # {}
    /\ Deliverable(Head)
    /\ watcher' = [watcher EXCEPT !.at = "waits"]
    /\ call' = [call EXCEPT !["watcher"] = [at |-> "prime", event |-> Head]]
    /\ UNCHANGED <<journal, missed, age, cursor, managed, expired, consumer, trigger,
                   failed, requests, faults>>

(* The transaction's own cursor moves on past the event. *)
Past(e) == [watcher EXCEPT !.at = "next", !.batch = @ \ {e}, !.cursor = pos[e]]

\* Mutant: the cursor moves on, and nothing is recorded.
DisposeSilently ==
    /\ watcher.at = "next" /\ watcher.batch # {}
    /\ ~Deliverable(Head)
    /\ watcher' = Past(Head)
    /\ UNCHANGED <<journal, missed, age, cursor, managed, expired, call, consumer,
                   trigger, failed, requests, faults>>

(* A stale event is recorded under its own key if it was managed, under a  *)
(* common one otherwise.                                                   *)
Dispose ==
    /\ watcher.at = "next" /\ watcher.batch # {}
    /\ ~Deliverable(Head)
    /\ watcher' = [Past(Head) EXCEPT !.expired = IF pos[Head] > watcher.managed
                                                 THEN @ \cup {Head} ELSE @]
    /\ UNCHANGED <<journal, missed, age, cursor, managed, expired, call, consumer,
                   trigger, failed, requests, faults>>

(* What the transaction wrote becomes the rows. *)
Landed ==
    /\ cursor' = watcher.cursor
    /\ managed' = watcher.managed
    /\ expired' = expired \cup watcher.expired
    /\ watcher' = Asleep

CommitScan ==
    /\ watcher.at = "next" /\ watcher.batch = {}
    /\ Landed
    /\ UNCHANGED <<journal, missed, age, call, consumer, trigger, failed, requests,
                   faults>>

-----------------------------------------------------------------------------
(* The dispatcher: every step is a transaction of its own *)

(* The router dispatches an event it has appended until a dispatch of it   *)
(* has returned; the events of durable tasks are left to the watcher.      *)
Route(e) ==
    /\ call["router"].at = "idle"
    /\ row[e] = "committed" /\ e \notin Durable \cup requests
    /\ call' = [call EXCEPT !["router"] = [at |-> "prime", event |-> e]]
    /\ UNCHANGED <<journal, missed, age, cursor, managed, expired, watcher, consumer,
                   trigger, failed, requests, faults>>

Goto(h, where) == call' = [call EXCEPT ![h].at = where]

\* Mutant: a retry starts the consumer over, past the event it stopped at.
PrimeAgain(h) ==
    LET e == call[h].event IN
    /\ call[h].at = "prime"
    /\ consumer' = [consumer EXCEPT ![e] = IF @ = None THEN pos[e] - 1 ELSE @ + 1]
    /\ Goto(h, "process")
    /\ UNCHANGED <<journal, missed, age, cursor, managed, expired, watcher, trigger,
                   failed, requests, faults>>

(* The consumer is put just before the event, unless it exists; a retry    *)
(* must reuse the durable trigger.                                         *)
Prime(h) ==
    LET e == call[h].event IN
    /\ call[h].at = "prime"
    /\ consumer' = [consumer EXCEPT ![e] = IF @ = None THEN pos[e] - 1 ELSE @]
    /\ Goto(h, IF trigger[e] = None THEN "process" ELSE "context")
    /\ UNCHANGED <<journal, missed, age, cursor, managed, expired, watcher, trigger,
                   failed, requests, faults>>

(* attention.process(limit=1): the next event of the journal beyond the    *)
(* isolated consumer, whichever it is, gets its trigger.                   *)
Process(h) ==
    LET e == call[h].event
        rest == Beyond(consumer[e])
        n == CHOOSE x \in rest : \A y \in rest : pos[x] <= pos[y] IN
    /\ call[h].at = "process"
    /\ Goto(h, "context")
    /\ IF rest = {} THEN UNCHANGED <<consumer, trigger>>
       ELSE /\ consumer' = [consumer EXCEPT ![e] = pos[n]]
            /\ trigger' = [trigger EXCEPT ![n] = IF @ = None THEN "PENDING" ELSE @]
    /\ UNCHANGED <<journal, missed, age, cursor, managed, expired, watcher, failed,
                   requests, faults>>

(* The dispatch is over: the watcher goes on, the router is free. *)
Return(h) ==
    /\ call' = [call EXCEPT ![h] = Idle]
    /\ watcher' = IF h = "watcher" THEN Past(call[h].event) ELSE watcher

(* A trigger that is neither PENDING nor CONTEXT_READY is passed over. *)
PassOver(h) ==
    /\ call[h].at = "context"
    /\ trigger[call[h].event] \notin {"PENDING", "CONTEXT_READY"}
    /\ Return(h)
    /\ UNCHANGED <<journal, missed, age, cursor, managed, expired, consumer, trigger,
                   failed, requests, faults>>

(* The packet is loaded, or assembled if there is none. *)
LoadContext(h) ==
    LET e == call[h].event IN
    /\ call[h].at = "context"
    /\ trigger[e] \in {"PENDING", "CONTEXT_READY"}
    /\ Goto(h, IF trigger[e] = "PENDING" THEN "assemble" ELSE "enqueue")
    /\ UNCHANGED <<journal, missed, age, cursor, managed, expired, watcher, consumer,
                   trigger, failed, requests, faults>>

(* The trigger takes the status of the packet assembled last; after a      *)
(* failed one the request is enqueued all the same.                        *)
AssembleContext(h) ==
    /\ call[h].at = "assemble"
    /\ \E s \in {"CONTEXT_READY", "FAILED_CONTEXT"} :
          /\ trigger' = [trigger EXCEPT ![call[h].event] = s]
          /\ failed' = IF s = "FAILED_CONTEXT" THEN failed \cup {call[h].event} ELSE failed
    /\ Goto(h, "enqueue")
    /\ UNCHANGED <<journal, missed, age, cursor, managed, expired, watcher, consumer,
                   requests, faults>>

Enqueue(h) ==
    /\ call[h].at = "enqueue"
    /\ requests' = requests \cup {call[h].event}
    /\ Return(h)
    /\ UNCHANGED <<journal, missed, age, cursor, managed, expired, consumer, trigger,
                   failed, faults>>

(* A step of the dispatch raises: the binding is not qualified, the        *)
(* database fails. What the watcher's transaction has so far is committed. *)
Raise(h) ==
    /\ call[h].at # "idle"
    /\ IF call[h].event \in Durable THEN faults < MaxFaults /\ faults' = faults + 1
       ELSE UNCHANGED faults
    /\ call' = [call EXCEPT ![h] = Idle]
    /\ IF h = "watcher" THEN Landed ELSE UNCHANGED <<cursor, managed, expired, watcher>>
    /\ UNCHANGED <<journal, missed, age, consumer, trigger, failed, requests>>

Dispatch(h) ==
    \/ Prime(h) \/ Process(h) \/ PassOver(h)
    \/ LoadContext(h) \/ AssembleContext(h) \/ Enqueue(h)

-----------------------------------------------------------------------------
(* The environment *)

Crash ==
    /\ faults < MaxFaults
    /\ faults' = faults + 1
    /\ watcher' = Asleep
    /\ call' = [h \in Handlers |-> Idle]
    /\ UNCHANGED <<journal, missed, age, cursor, managed, expired, consumer, trigger,
                   failed, requests>>

Age(e) ==
    /\ row[e] = "committed" /\ age[e] # "old"
    /\ age' = [age EXCEPT ![e] = IF @ = "early" THEN "fresh" ELSE "old"]
    /\ UNCHANGED <<journal, missed, cursor, managed, expired, watcher, call, consumer,
                   trigger, failed, requests, faults>>

(* The watcher has read beyond a position: its row lies there, or its open *)
(* transaction will take it there.                                         *)
ReadTo(p) ==
    \/ cursor # None /\ p <= cursor
    \/ /\ watcher.at # "idle"
       /\ p <= watcher.cursor \/ \E x \in watcher.batch : p < pos[x]

(* The writers of the journal.  An event that commits where the watcher    *)
(* has read already is behind every later scan.                            *)
Write ==
    /\ JournalNext
    /\ missed' = missed \cup {e \in Events : /\ row[e] # "committed" /\ row'[e] = "committed"
                                            /\ ReadTo(pos[e])}
    /\ UNCHANGED handoff

Watch == Scan \/ HandOver \/ Dispose \/ CommitScan \/ Dispatch("watcher")

Next ==
    \/ Write
    \/ Watch
    \/ \E e \in Events : Route(e) \/ Age(e)
    \/ Dispatch("router")
    \/ \E h \in Handlers : Raise(h)
    \/ Crash

(* The watcher's thread is scheduled, and time passes. The router is not   *)
(* asked to run, a writer not to commit, a dispatch not to succeed.        *)
Fairness == WF_vars(Watch) /\ \A e \in Events : WF_vars(Age(e))

Spec == Init /\ [][Next]_vars /\ Fairness

-----------------------------------------------------------------------------
Accounted(e) == e \in requests \cup expired

(* Every managed event that the cursor has passed has a queued request or  *)
(* an expiry record, or a trigger whose context failed: whatever was       *)
(* refused, retried, raced by the router, cut off by a crash or committed  *)
(* out of order (JournalEventWatcher.recover_pending, run_once).  The one  *)
(* exception is an event that commits where the watcher has read already:  *)
(* nothing reads it again.                                                 *)
PassedIsAccounted ==
    \A e \in Committed \ missed :
        (cursor # None /\ pos[e] > managed /\ pos[e] <= cursor)
            => Accounted(e) \/ (e \in failed /\ trigger[e] # None)

(* The comment of recover_pending: the management watermark "makes later   *)
(* outages accountable even when a new event expires unseen". So every     *)
(* managed event the cursor has passed has a request or an expiry record.  *)
OutagesAreAccountable ==
    \A e \in Committed :
        (cursor # None /\ pos[e] > managed /\ pos[e] <= cursor) => Accounted(e)

(* An event that commits ahead of the watcher's reading, after it adopted  *)
(* the journal, is handed off or recorded as expired in the end, or its    *)
(* context failed: no refusal blocks the events behind it for ever.        *)
CommittedIsAccounted ==
    \A e \in Events :
        (row[e] = "committed" /\ e \notin missed /\ managed # None /\ pos[e] > managed)
            ~> (Accounted(e) \/ e \in failed)
=============================================================================
