----------------------------- MODULE Attention -----------------------------
(***************************************************************************)
(* The attention rules (attention.py). Every caller of process has a       *)
(* cursor of its own, the bridge one that runs along the journal and each  *)
(* conversation or alert one that is primed just before its event, and     *)
(* they decide over the same tables of one profile: for each event whether *)
(* it becomes a trigger, is suppressed or joins an aggregate.              *)
(* AttentionReplay evaluates the same rules over a list of events in       *)
(* memory. One household, one subject and one rule of each action; the     *)
(* journal commits in its order (Journal has the other). That a profile is *)
(* active, which process writes, is read by nobody and left out.           *)
(***************************************************************************)
EXTENDS Naturals, Sequences, FiniteSets

CONSTANTS
    Consumers,
    Kinds,          \* kinds of events: records of guaranteed, unchanged, important
                    \* and rule, the action of the first rule that matches, or None
    MaxTime,        \* bound: recorded_at, counted in steps
    MaxEvents,      \* bound: events
    Limits,         \* events a call of process reads
    Window,         \* aggregation_window_seconds
    Cooldown,       \* cooldown_seconds, 0 for none
    RateCount,      \* rate_limit_count, 0 for none
    RateWindow,     \* rate_limit_window_seconds
    MaxFaults,      \* bound: calls that fail
    None

VARIABLES
    log,        \* the journal: [kind, time] by position
    cursor,     \* last_position of a consumer, None without a row
    error,      \* whether last_error is set
    failures,   \* consumer -> position -> retry_count
    tables,     \* the attention tables, as committed
    call,       \* consumer -> its transaction
    writer,     \* the transaction that writes, None
    work,       \* the tables as that transaction sees them
    primed,     \* history: where a consumer's cursor began
    order,      \* history: the positions committed as processed, in order
    overtaken,  \* history: events decided on a reading another commit made stale
    faults      \* history

vars == <<log, cursor, error, failures, tables, call, writer, work, primed, order,
          overtaken, faults>>

Times == 0..MaxTime
Positions == 1..MaxEvents
Start(at, seconds) == at - (at % seconds)

(* What both evaluators keep: the last trigger of the rule, the triggers   *)
(* of each rate window, the events of each aggregate, the reason of the    *)
(* decision about each event, and the triggers.                            *)
Empty == [last |-> None, rates |-> [t \in Times |-> 0], windows |-> [t \in Times |-> <<>>],
          closed |-> {}, reasons |-> [i \in Positions |-> None], triggers |-> {}]

(* Guaranteed first, then duplicate or unchanged, then the first rule that *)
(* matches; without one the importance decides.                            *)
Reason(e, cooling, limited) ==
    IF e.guaranteed THEN "GUARANTEED_CLASS"
    ELSE IF e.unchanged THEN "DUPLICATE"
    ELSE IF e.rule = None
         THEN IF e.important THEN "UNCLASSIFIED_HIGH_IMPORTANCE" ELSE "LOW_SIGNIFICANCE"
    ELSE IF e.rule = "IGNORE" THEN "CONFIGURED_IGNORE"
    ELSE IF e.rule = "AGGREGATE" THEN "AGGREGATED"
    ELSE IF cooling THEN "COOLDOWN"
    ELSE IF limited THEN "RATE_LIMIT" ELSE "RULE"

Reasons == {"GUARANTEED_CLASS", "DUPLICATE", "UNCLASSIFIED_HIGH_IMPORTANCE", "LOW_SIGNIFICANCE",
            "CONFIGURED_IGNORE", "AGGREGATED", "COOLDOWN", "RATE_LIMIT", "RULE"}
AttentionAssumption ==
    /\ MaxEvents \in Nat /\ Limits \subseteq Nat
    /\ None \notin Nat \cup Reasons \cup Consumers

Triggering == {"GUARANTEED_CLASS", "UNCLASSIFIED_HIGH_IMPORTANCE", "RULE"}

-----------------------------------------------------------------------------
(* The live service *)

(* The first decision of an event stays, and the first trigger of an id: a *)
(* trigger is stored even if the decision was taken otherwise before.      *)
PersistDecision(s, i, reason) ==
    [s EXCEPT !.reasons[i] = IF @ = None THEN reason ELSE @,
              !.triggers = IF reason \in Triggering /\ ~\E t \in @ : t.id = <<"source", i>>
                           THEN @ \cup {[id |-> <<"source", i>>, sources |-> <<i>>]} ELSE @]

(* An aggregate's trigger is named for its window. *)
CloseTrigger(s, t) == [id |-> <<"aggregate-close", t>>, sources |-> s.windows[t]]

\* Mutant: a window that ends with the event's second stays open.
DueLate(s, at) == {t \in Times : s.windows[t] # <<>> /\ t \notin s.closed /\ t + Window < at}

Due(s, at) == {t \in Times : s.windows[t] # <<>> /\ t \notin s.closed /\ t + Window <= at}

(* Windows that are open and over are closed before an event is decided.   *)
FlushDue(s, at) ==
    [s EXCEPT !.closed = @ \cup Due(s, at),
              !.triggers = @ \cup {CloseTrigger(s, t) : t \in Due(s, at)}]

(* INSERT .. ON CONFLICT DO UPDATE: a closed aggregate counts on, and an   *)
(* event that is processed again is counted again.                         *)
Aggregate(s, i, at) == [s EXCEPT !.windows[Start(at, Window)] = Append(@, i)]

CooldownActive(s, at) == Cooldown # 0 /\ s.last # None /\ at < s.last + Cooldown
RateLimited(s, at) == RateCount # 0 /\ s.rates[Start(at, RateWindow)] >= RateCount

(* last_trigger_at is the greatest of the two. *)
MarkTriggerState(s, at) ==
    [s EXCEPT !.last = IF Cooldown = 0 THEN @ ELSE IF @ # None /\ @ > at THEN @ ELSE at,
              !.rates[Start(at, RateWindow)] = IF RateCount = 0 THEN @ ELSE @ + 1]

Read(s, i) == Reason(log[i].kind, CooldownActive(s, log[i].time), RateLimited(s, log[i].time))

ProcessEvent(s, i, reason) ==
    LET p == PersistDecision(s, i, reason) IN
    CASE reason = "AGGREGATED" -> Aggregate(p, i, log[i].time)
      [] reason = "RULE" -> MarkTriggerState(p, log[i].time)
      [] OTHER -> p

Idle == [at |-> "idle", next |-> 0, last |-> 0, reason |-> None]

(* process: the transaction takes the consumer's lock and its row and      *)
(* reads its batch. An empty batch leaves the row behind.                  *)
(*                                                                         *)
(* The first decision of a transaction takes rows of anima_attention_      *)
(* metrics that every decision of the profile writes, so transactions      *)
(* write one after another, and what one reads before its first decision   *)
(* may be stale when its turn comes. A flush writes those rows too, so     *)
(* only an event that closes no window is decided on such a reading.       *)
Process(c) ==
    \E limit \in Limits :
      LET from == IF cursor[c] = None THEN 0 ELSE cursor[c]
          to   == IF from + limit < Len(log) THEN from + limit ELSE Len(log)
      IN  /\ call[c] = Idle
          /\ IF from = to
             THEN /\ cursor' = [cursor EXCEPT ![c] = from]
                  /\ primed' = [primed EXCEPT ![c] = IF @ = None THEN from ELSE @]
                  /\ UNCHANGED call
             ELSE /\ call' = [call EXCEPT ![c] =
                         [at |-> "reading", next |-> from + 1, last |-> to,
                          reason |-> IF Due(tables, log[from + 1].time) = {}
                                     THEN Read(tables, from + 1) ELSE None]]
                  /\ UNCHANGED <<cursor, primed>>
    /\ UNCHANGED <<log, error, failures, tables, writer, work, order, overtaken, faults>>

(* The first event: its turn to write has come. *)
ProcessFirst(c) ==
    LET i == call[c].next
        f == FlushDue(tables, log[i].time)
        read == call[c].reason
    IN  /\ call[c].at = "reading" /\ writer = None
        /\ writer' = c
        /\ work' = IF read = None THEN ProcessEvent(f, i, Read(f, i))
                   ELSE ProcessEvent(tables, i, read)
        /\ overtaken' = IF read # None /\ (f # tables \/ Read(f, i) # read)
                        THEN overtaken \cup {i} ELSE overtaken
        /\ call' = [call EXCEPT ![c].at = "writing", ![c].next = i + 1]
        /\ UNCHANGED <<log, cursor, error, failures, tables, primed, order, faults>>

ProcessNext(c) ==
    LET i == call[c].next
        f == FlushDue(work, log[i].time)
    IN  /\ call[c].at = "writing" /\ i <= call[c].last
        /\ work' = ProcessEvent(f, i, Read(f, i))
        /\ call' = [call EXCEPT ![c].next = i + 1]
        /\ UNCHANGED <<log, cursor, error, failures, tables, writer, primed, order,
                       overtaken, faults>>

(* The batch and the cursor, which is moved event by event, are committed  *)
(* together.                                                               *)
Commit(c) ==
    LET from == IF cursor[c] = None THEN 0 ELSE cursor[c]
    IN  /\ call[c].at = "writing" /\ call[c].next > call[c].last
        /\ tables' = work /\ writer' = None
        /\ cursor' = [cursor EXCEPT ![c] = call[c].last]
        /\ primed' = [primed EXCEPT ![c] = IF @ = None THEN 0 ELSE @]
        /\ error' = [error EXCEPT ![c] = FALSE]
        /\ order' = order \o [k \in 1..(call[c].last - from) |-> from + k]
        /\ call' = [call EXCEPT ![c] = Idle]
        /\ UNCHANGED <<log, failures, work, overtaken, faults>>

(* A statement fails, or the server ends the transaction for a deadlock:   *)
(* all of the batch is undone, and the failure is noted at the event of    *)
(* the moment. Without a committed row there is nowhere to put last_error. *)
Fail(c) ==
    LET i == IF call[c].at = "writing" /\ call[c].next > 1 THEN call[c].next - 1
             ELSE call[c].next
    IN  /\ call[c] # Idle /\ faults < MaxFaults
        /\ failures' = [failures EXCEPT ![c][i] = @ + 1]
        /\ error' = [error EXCEPT ![c] = @ \/ cursor[c] # None]
        /\ call' = [call EXCEPT ![c] = Idle]
        /\ writer' = IF writer = c THEN None ELSE writer
        /\ work' = IF writer = c THEN tables ELSE work
        /\ faults' = faults + 1
        /\ UNCHANGED <<log, cursor, tables, primed, order, overtaken>>

(* The process dies: nothing is left behind. *)
Die(c) ==
    /\ call[c] # Idle
    /\ call' = [call EXCEPT ![c] = Idle]
    /\ writer' = IF writer = c THEN None ELSE writer
    /\ work' = IF writer = c THEN tables ELSE work
    /\ UNCHANGED <<log, cursor, error, failures, tables, primed, order, overtaken, faults>>

(* prime_consumer_before a journaled event: a cursor that exists stays.    *)
PrimeConsumerBefore(c, i) ==
    /\ call[c] = Idle /\ i \in 1..Len(log)
    /\ cursor' = [cursor EXCEPT ![c] = IF @ = None THEN i - 1 ELSE @]
    /\ primed' = [primed EXCEPT ![c] = IF @ = None THEN i - 1 ELSE @]
    /\ UNCHANGED <<log, error, failures, tables, call, writer, work, order, overtaken, faults>>

-----------------------------------------------------------------------------
(* AttentionReplay.evaluate *)

(* A closed aggregate is forgotten. *)
Close(s, at) ==
    LET due == {t \in Times : s.windows[t] # <<>> /\ t + Window <= at}
    IN  [s EXCEPT !.windows = [t \in Times |-> IF t \in due THEN <<>> ELSE @[t]],
                  !.closed = @ \cup due,
                  !.triggers = @ \cup {CloseTrigger(s, t) : t \in due}]

Evaluate(s, i) ==
    LET at == log[i].time
        c == Close(s, at)
        limited == RateCount # 0 /\ c.rates[Start(at, RateWindow)] >= RateCount
        reason == Reason(log[i].kind, c.last # None /\ at < c.last + Cooldown, limited)
        d == [c EXCEPT !.reasons[i] = reason,
                       !.triggers = IF reason \in Triggering
                                    THEN @ \cup {[id |-> <<"source", i>>, sources |-> <<i>>]}
                                    ELSE @]
    IN  CASE reason = "AGGREGATED" -> [d EXCEPT !.windows[Start(at, Window)] = Append(@, i)]
          [] reason = "RULE" -> [d EXCEPT !.last = at,
                                    !.rates[Start(at, RateWindow)] =
                                        IF RateCount = 0 THEN @ ELSE @ + 1]
          [] OTHER -> d

(* The replay of the first n events. *)
Replay(n) ==
    LET after[k \in 0..n] == IF k = 0 THEN Empty ELSE Evaluate(after[k - 1], k)
    IN  after[n]

-----------------------------------------------------------------------------
Init ==
    /\ log = <<>>
    /\ cursor = [c \in Consumers |-> None] /\ error = [c \in Consumers |-> FALSE]
    /\ failures = [c \in Consumers |-> [i \in Positions |-> 0]]
    /\ tables = Empty /\ work = Empty /\ writer = None
    /\ call = [c \in Consumers |-> Idle]
    /\ primed = [c \in Consumers |-> None] /\ order = <<>> /\ overtaken = {} /\ faults = 0

Append1(kind, at) ==
    /\ Len(log) < MaxEvents
    /\ log' = Append(log, [kind |-> kind, time |-> at])
    /\ UNCHANGED <<cursor, error, failures, tables, call, writer, work, primed, order,
                   overtaken, faults>>

Next ==
    \/ \E kind \in Kinds, at \in Times : Append1(kind, at)
    \/ \E c \in Consumers :
          \/ Process(c) \/ ProcessFirst(c) \/ ProcessNext(c) \/ Commit(c) \/ Fail(c) \/ Die(c)
          \/ \E i \in Positions : PrimeConsumerBefore(c, i)

Spec == Init /\ [][Next]_vars

TypeOK ==
    /\ log \in Seq([kind : Kinds, time : Times]) /\ Len(log) <= MaxEvents
    /\ \A c \in Consumers : cursor[c] \in (0..Len(log)) \cup {None}
    /\ error \in [Consumers -> BOOLEAN] /\ failures \in [Consumers -> [Positions -> 0..MaxFaults]]
    /\ \A s \in {tables, work} :
          /\ s.last \in Times \cup {None}
          /\ \A t \in s.closed : s.windows[t] # <<>>
    /\ writer # None <=> \E c \in Consumers : call[c].at = "writing"

(* recorded_at follows the journal's order. *)
InOrder == \A i, j \in 1..Len(log) : i < j => log[i].time <= log[j].time

(* As long as consumers take the events one after another, each once and   *)
(* in their order, live and replay decide every event alike and name the   *)
(* same triggers with the same events behind them, however the journal was *)
(* cut into batches and whatever failed on the way                         *)
(* (PostgresAttentionService._process_event, AttentionReplay.evaluate).    *)
LiveMatchesReplay ==
    InOrder /\ overtaken = {} /\ order = [k \in 1..Len(order) |-> k] =>
        LET r == Replay(Len(order)) IN
        /\ r.reasons = tables.reasons /\ r.triggers = tables.triggers
        /\ r.closed = tables.closed

(* An event has a trigger exactly when the decision that was kept about it *)
(* says so, although another consumer may come to it later with other      *)
(* cooldowns and rates, and a trigger is kept apart from its decision. So  *)
(* only a decision on a stale reading may disagree (_persist_decision).    *)
TriggersAreDecided ==
    \A i \in Positions \ overtaken :
        (\E t \in tables.triggers : t.id = <<"source", i>>) <=> tables.reasons[i] \in Triggering

(* Whatever a cursor passed from where it began has its decision, and its  *)
(* trigger when it is guaranteed; with failures noted at events beyond.    *)
PassedIsDecided ==
    \A c \in Consumers : cursor[c] # None =>
        \A i \in (primed[c] + 1)..cursor[c] :
            /\ tables.reasons[i] # None
            /\ log[i].kind.guaranteed =>
                  \E t \in tables.triggers : t.id = <<"source", i>> /\ t.sources = <<i>>

(* The rule triggers no oftener in a window than its limit, unless a       *)
(* reading was overtaken (_rate_limited, _mark_trigger_state).             *)
RateIsKept ==
    RateCount # 0 => \A w \in Times :
        Cardinality({i \in Positions \ overtaken :
            /\ tables.reasons[i] = "RULE" /\ Start(log[i].time, RateWindow) = w}) <= RateCount
=============================================================================
