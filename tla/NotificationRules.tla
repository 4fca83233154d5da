------------------------- MODULE NotificationRules -------------------------
(* Whether one journaled event is told unasked (src/anima_ha/                 *)
(* household_initiative.py, household_event_context.py, and what              *)
(* intelligence.py, alert_delivery.py and sentry_service.py do with the       *)
(* answer).  The owner's rules, their readiness, the alert policy, the map of *)
(* the home and the journal are read one after the other, each on a           *)
(* connection of its own, when the request is queued, at every poll and again *)
(* before the playback; the owner edits in between.  The request is that of   *)
(* an event or of a learning review: what an owner's own task or a direct     *)
(* request is answered before all this (owner_tasks, "not unsolicited") and   *)
(* the follow-up of an announcement are left out, and AlertDelivery has the   *)
(* rest of the ledger.  A tick is two minutes or more, so that a lease and    *)
(* the pause of ten seconds after a closed answer end within one.             *)
EXTENDS Integers, TLC

CONSTANTS Rules,      \* what the owner may ask for the device: records of mode,
                      \* kind, path and window, see Rule
          Events,     \* what the journal may hold, see Init
          Hour,       \* the local hour of the event
          Brief,      \* the freshness bounds of an event, in ticks: 120 s, and
          Long,       \* 600 s for a managed obligation
          MaxTime,
          MaxEdits,
          MaxFaults,
          None

VARIABLES
    event,      \* the journal's row; it occurred at time 0
    config,     \* the saved initiative configuration
    ready,      \* what is observed suffices to speak of one's own accord
    policy,     \* the alert policy the event came from: NONE, WANTS, OFF
    home,       \* the device: one of the household's, with a name to say
    house,      \* sleeping; what the policy service decides of a notification
    clock,
    request,    \* the request's route, and when it was stored
    ledger,     \* the state of required_delivery; LAPSED is CLAIMED, its lease over
    reader,     \* the evaluation that runs
    seen,       \* history: what stood while it ran
    verdict,    \* history: the last evaluation's end, until the next begins
    edited,     \* history: an edit since the route was chosen
    edits,
    faults

settings == <<config, ready, policy, home, house>>
evaluation == <<reader, seen, verdict>>
rulesVars == <<event, settings, clock, request, ledger, evaluation, edited, edits, faults>>

Paths == {"IMMEDIATE", "CONTEXTUAL", "AGGREGATED", "NO_SENTRY"}
Spoken == {"IMMEDIATE", "CONTEXTUAL"}

(****************************** The owner's rules **************************)
\* compatible_sentry_path: the route an alert mode allows.
Compatible(path, mode) ==
    CASE mode = "NEVER" -> "NO_SENTRY"
      [] mode \in {"ALWAYS", "TIME_WINDOW"} -> IF path \in Spoken THEN path ELSE "IMMEDIATE"
      [] mode = "CONTEXTUAL" -> "CONTEXTUAL"

\* DeviceNotificationRule: its route, when it has one, is made to fit; a rule may
\* not ask to aggregate.
Rule(asked) ==
    [asked EXCEPT !.path = IF @ = None THEN None ELSE Compatible(@, asked.mode)]
SavedRules == {Rule(asked) : asked \in {r \in Rules : r.path # "AGGREGATED"}}

\* device_notification_matches: a rule for every event of the device, or for others.
Matches(rule) == rule.kind = "ANY"

\* A window that ends before it starts goes over midnight.
InWindow(window) ==
    IF window[1] <= window[2] THEN window[1] <= Hour /\ Hour < window[2]
    ELSE Hour >= window[1] \/ Hour < window[2]

\* The device's rule (it has at most one), when it speaks of this event.
Own(c) == IF c.rule # None /\ Matches(c.rule) THEN c.rule ELSE None

(****************************** The disposition ****************************)
\* project_event: the row is from the source that owns its type, a vendor's is
\* qualified, it is not a snapshot or a recovery, and its device is the household's.
Qualifies(e, placed) == e.ours /\ (e.via = "vendor" => e.attested) /\ ~e.replayed /\ placed

Requires(mode, rule, c, alert) ==
    \/ mode = "ALWAYS"
    \/ mode = "TIME_WINDOW" /\ InWindow(rule.window)
    \/ mode = None /\ (alert \/ c.always)

\* notification_disposition of an event that is known: the first rule that speaks decides.
Disposition(c, learned, alert, review) ==
    LET rule == Own(c)
        mode == IF rule = None THEN None ELSE rule.mode
        required == ~review /\ Requires(mode, rule, c, alert)
    IN [required |-> required,
        allowed |-> \/ required
                    \/ ~review /\ learned /\ (mode = "CONTEXTUAL" \/ (mode = None /\ c.proactive))]

Closed == [allowed |-> FALSE, required |-> FALSE, revoked |-> FALSE, words |-> FALSE]

\* revocation_confirmed: the rule says never, or the policy that raised the
\* alert no longer does (a policy that is gone revokes nothing).
Revoked(c, stand) == \/ Own(c) # None /\ Own(c).mode = "NEVER"
                     \/ event.via = "policy" /\ stand = "OFF"

\* The event is young enough, at the time the evaluation began.
FreshFor(bound) == reader.since <= bound

\* What HouseholdInitiativeContext returns: words only with what is required, when
\* the device has a name and the event a phrase (_canonical_announcement).
Answer(bound) ==
    IF ~(reader.valid /\ FreshFor(bound)) THEN Closed
    ELSE LET said == Disposition(reader.config, reader.ready,
                                 event.via = "policy" /\ reader.policy = "WANTS",
                                 event.via = "review")
         IN [allowed |-> said.allowed, required |-> said.required,
             words |-> said.required /\ home.named /\ event.phrase,
             revoked |-> Revoked(reader.config, reader.policy)]

(******************************** Histories ********************************)
\* What the household asks for at this moment, whoever reads it.
Speaks == config.rule # None /\ config.rule.kind = "ANY"
Asked ==
    IF Speaks THEN \/ config.rule.mode = "ALWAYS"
                   \/ config.rule.mode = "TIME_WINDOW" /\ InWindow(config.rule.window)
    ELSE config.always \/ (event.via = "policy" /\ policy = "WANTS")
Welcome == Asked \/ (ready /\ IF Speaks THEN config.rule.mode = "CONTEXTUAL" ELSE config.proactive)
Real == /\ event.ours /\ ~event.replayed /\ event.via # "review" /\ home.placed
        /\ event.via = "vendor" => event.attested
Nameable == home.named /\ event.phrase
Withdrawn ==
    \/ Speaks /\ config.rule.mode = "NEVER"
    \/ event.via = "policy" /\ policy = "OFF"
    \/ house.opa = "DENY"
\* What holds at this moment of all that an evaluation's outcome may rest on.
RestsOn == "queue" :> {"asked", "unasked"} @@ "poll" :> {"audible", "withdrawn"}
           @@ "intent" :> {"audible"} @@ "reason" :> {"welcome"}
Moment(purpose) == {w \in RestsOn[purpose] :
             CASE w = "asked" -> Asked /\ Real /\ Nameable
               [] w = "unasked" -> ~(Asked /\ Real /\ Nameable)
               [] w = "audible" -> Asked /\ Real /\ ~house.asleep /\ house.opa = "ALLOW"
               [] w = "welcome" -> Welcome /\ Real
               [] w = "withdrawn" -> Withdrawn}

Idle == [at |-> "idle", purpose |-> None, since |-> 0, config |-> None, ready |-> FALSE,
         policy |-> None, valid |-> FALSE, answer |-> Closed]
Nothing == [held |-> {}, edits |-> 0, failed |-> FALSE]
Unsettled == [purpose |-> None, outcome |-> None, seen |-> Nothing, since |-> 0]

Init ==
    /\ event \in Events   \* [via : {"policy","sensor","vendor","review"}, ours, replayed, attested, phrase]
    /\ config \in [rule : SavedRules \cup {None}, always : BOOLEAN, proactive : {TRUE}]
    /\ config.always => config.rule = None
    /\ ready = FALSE
    /\ policy = IF event.via = "policy" THEN "WANTS" ELSE "NONE"
    /\ home = [placed |-> TRUE, named |-> TRUE] /\ house = [asleep |-> FALSE, opa |-> "ALLOW"]
    /\ clock = 0 /\ request = None /\ ledger = "NONE"
    /\ reader = Idle /\ seen = Nothing
    /\ verdict = Unsettled
    /\ edited = FALSE /\ edits = 0 /\ faults = 0

(******************************** The household ****************************)
\* An edit once the route is chosen, of which the evaluation that runs may see any part.
Edit ==
    /\ request # None /\ edits < MaxEdits /\ edits' = edits + 1
    /\ edited' = TRUE
    /\ UNCHANGED <<event, clock, request, ledger, reader, verdict, faults>>
    /\ seen' = IF reader = Idle THEN seen
               ELSE [seen EXCEPT !.held = @ \cup Moment(reader.purpose)', !.edits = @ + 1]

\* set_device_notification: the device's rule is replaced or, by DEFAULT, taken away.
SetRule ==
    /\ \E r \in SavedRules \cup {None} : r # config.rule /\ config' = [config EXCEPT !.rule = r]
    /\ UNCHANGED <<ready, policy, home, house>> /\ Edit
Configure ==
    /\ \/ config' = [config EXCEPT !.always = ~@]
       \/ config' = [config EXCEPT !.proactive = ~@]
    /\ UNCHANGED <<ready, policy, home, house>> /\ Edit
\* _readiness: days are observed, or leave the window.
Learn == ready' = ~ready /\ UNCHANGED <<config, policy, home, house>> /\ Edit
SwitchPolicy ==
    /\ event.via = "policy" /\ policy' \in {"NONE", "WANTS", "OFF"} \ {policy}
    /\ UNCHANGED <<config, ready, home, house>> /\ Edit
Move ==
    /\ \/ home' = [home EXCEPT !.placed = ~@]
       \/ home' = [home EXCEPT !.named = ~@]
    /\ UNCHANGED <<config, ready, policy, house>> /\ Edit
Quiet ==
    /\ \/ house' = [house EXCEPT !.asleep = ~@]
       \/ \E d \in {"ALLOW", "DENY", "UNAVAILABLE"} \ {house.opa} : house' = [house EXCEPT !.opa = d]
    /\ UNCHANGED <<config, ready, policy, home>> /\ Edit
Tick ==
    /\ clock < MaxTime /\ clock' = clock + 1
    /\ UNCHANGED <<event, settings, request, ledger, evaluation, edited, edits, faults>>

(********************************* The route *******************************)
\* resolve_event_path over the profile's default.
Route(c, default) ==
    LET rule == Own(c) IN
    IF default \notin Spoken THEN default
    ELSE IF c.always THEN "IMMEDIATE"
    ELSE IF rule = None THEN default
    ELSE IF rule.mode = "NEVER" THEN "NO_SENTRY"
    ELSE IF rule.path = None THEN default ELSE rule.path

\* The profiles of the hand-offs have no rules and this default.
Default == "CONTEXTUAL"

\* The bridge asks for the route of a household event; a failure keeps the default,
\* and the review runner's bridge has nobody to ask.
Resolve ==
    /\ request = None
    /\ event.via = "vendor" => event.attested
    /\ \/ /\ request' = [route |-> IF event.via = "review" THEN Default ELSE Route(config, Default),
                          at |-> None]
          /\ UNCHANGED faults
       \/ /\ event.via # "review" /\ faults < MaxFaults /\ faults' = faults + 1
          /\ request' = [route |-> Default, at |-> None]
    /\ UNCHANGED <<event, settings, clock, ledger, evaluation, edited, edits>>

Stored == request # None /\ request.at # None

(******************************* The evaluation ****************************)
\* HouseholdInitiativeContext.__call__ begins with its time and the configuration.
ReadStatus(purpose) ==
    /\ reader = Idle
    /\ reader' = [Idle EXCEPT !.at = "readiness", !.purpose = purpose, !.since = clock,
                              !.config = config]
    /\ seen' = [held |-> Moment(purpose), edits |-> 0, failed |-> FALSE] /\ verdict' = Unsettled
    /\ UNCHANGED <<event, settings, clock, request, ledger, edited, edits, faults>>

\* enqueue asks before it stores the request.
Queue == request # None /\ request.at = None /\ ReadStatus("queue")
\* PostgresRequiredDelivery.next looks at due obligations of a spoken route, whose
\* row stays locked until it has an answer.
Looked == ledger \in {"PENDING", "LAPSED"} /\ request.route \in Spoken
Old == clock - request.at > Long
Poll == Looked /\ ~Old /\ ReadStatus("poll")
\* transition to PLAYBACK_INTENT, by the one who holds the claim.
Intend == ledger = "CLAIMED" /\ ReadStatus("intent")
\* household_reasoning_context, for the model's turn.
Reason == Stored /\ ReadStatus("reason")

\* A read of the evaluation, which takes it from one place to the next.
Read(from, to, field, value) ==
    /\ reader.at = from
    /\ reader' = [reader EXCEPT !.at = to, ![field] = value]
    /\ UNCHANGED <<event, settings, clock, request, ledger, seen, verdict, edited, edits, faults>>

ReadReadiness == Read("readiness", "source", "ready", ready)
ReadSource == Read("source", "evidence", "policy", policy)
\* recent_household_evidence of this one event, ten minutes back from the beginning.
ReadEvidence ==
    Read("evidence", "answer", "valid", Qualifies(event, home.placed) /\ reader.since <= Long)

\* What an evaluation comes to.
Concluded(outcome) ==
    /\ verdict' = [purpose |-> reader.purpose, outcome |-> outcome, seen |-> seen,
                   since |-> reader.since]
    /\ reader' = Idle /\ seen' = Nothing

\* enqueue and initialize_required_delivery: the request is stored, and a required
\* alert with words is owed by one that attention raised.
Owe(a) ==
    LET owed == a.required /\ a.words /\ event.via # "review" IN
    /\ Concluded(IF owed THEN "OWED" ELSE "NOT_OWED")
    /\ ledger' = IF owed THEN "PENDING" ELSE "NONE"
    /\ request' = [request EXCEPT !.at = clock]

\* next: claimed, cancelled by a confirmed revocation, or tried again.
Offer(a) ==
    LET outcome == IF a.required /\ a.words THEN "CLAIMED"
                   ELSE IF a.revoked THEN "CANCELLED" ELSE "PENDING"
    IN Concluded(outcome) /\ ledger' = outcome /\ UNCHANGED request

\* transition: refused, the claim stays as it is.
Permit(a) == /\ Concluded(IF a.required THEN "INTENT" ELSE "REFUSED")
             /\ ledger' = IF a.required THEN "INTENT" ELSE ledger
             /\ UNCHANGED request

\* What the model is told with its context.
Say(a) == Concluded(IF a.allowed THEN "MAY_SPEAK" ELSE "SILENT") /\ UNCHANGED <<ledger, request>>

Conclude(answer) ==
    CASE reader.purpose = "queue" -> Owe(answer)
      [] reader.purpose = "poll" -> Offer(answer)
      [] reader.purpose = "intent" -> Permit(answer)
      [] reader.purpose = "reason" -> Say(answer)

\* The answer of HouseholdInitiativeContext; a poll and an intent go on to the house.
Bound == IF ledger = "NONE" THEN Brief ELSE Long
Decide ==
    /\ reader.at = "answer"
    /\ IF reader.purpose \in {"queue", "reason"} THEN Conclude(Answer(Bound))
       ELSE /\ reader' = [Idle EXCEPT !.at = "sleep", !.purpose = reader.purpose,
                                      !.since = reader.since, !.answer = Answer(Bound)]
            /\ UNCHANGED <<ledger, request, seen, verdict>>
    /\ UNCHANGED <<event, settings, clock, edited, edits, faults>>

Refused(a) == [a EXCEPT !.allowed = FALSE, !.required = FALSE]

\* _alert_disposition: sleep, and then the policy service for what is still required.
AskSleep ==
    /\ reader.at = "sleep"
    /\ IF ~house.asleep /\ reader.answer.required
       THEN /\ reader' = [reader EXCEPT !.at = "policy"]
            /\ UNCHANGED <<ledger, request, seen, verdict>>
       ELSE Conclude(Refused(reader.answer))
    /\ UNCHANGED <<event, settings, clock, edited, edits, faults>>

AskPolicy ==
    /\ reader.at = "policy"
    /\ Conclude(IF house.opa = "ALLOW" THEN reader.answer
                ELSE [Refused(reader.answer) EXCEPT !.revoked = house.opa = "DENY"])
    /\ UNCHANGED <<event, settings, clock, edited, edits, faults>>

\* A read fails: inside the evaluation the answer is closed, and after it the poll's
\* is and the intent is refused; in every case it comes to what Closed comes to.
Fail ==
    /\ reader # Idle /\ faults < MaxFaults /\ faults' = faults + 1
    /\ verdict' = [purpose |-> reader.purpose, seen |-> [seen EXCEPT !.failed = TRUE],
                   since |-> reader.since,
                   outcome |-> CASE reader.purpose = "queue" -> "NOT_OWED"
                                 [] reader.purpose = "poll" -> "PENDING"
                                 [] reader.purpose = "intent" -> "REFUSED"
                                 [] reader.purpose = "reason" -> "SILENT"]
    /\ ledger' = IF reader.purpose = "poll" THEN "PENDING" ELSE ledger
    /\ request' = IF reader.purpose = "queue" THEN [request EXCEPT !.at = clock] ELSE request
    /\ reader' = Idle /\ seen' = Nothing
    /\ UNCHANGED <<event, settings, clock, edited, edits>>

\* What next settles without asking: too old, or its request was cancelled meanwhile.
Expire ==
    /\ reader = Idle /\ Looked /\ \E cancelled \in BOOLEAN : Old \/ cancelled
    /\ ledger' = "ESCALATED"
    /\ UNCHANGED <<event, settings, clock, request, evaluation, edited, edits, faults>>

\* A claim's lease ends; an intent whose lease ended is not known to have been played.
LeaseEnds ==
    /\ reader = Idle
    /\ \/ ledger = "CLAIMED" /\ ledger' = "LAPSED"
       \/ ledger = "INTENT" /\ ledger' = "UNKNOWN"
    /\ UNCHANGED <<event, settings, clock, request, evaluation, edited, edits, faults>>

\* The speaker's receipt within its lease: not begun, played, or it does not know.
Receipt ==
    /\ reader = Idle
    /\ \/ ledger = "CLAIMED" /\ ledger' = "PENDING"
       \/ ledger = "INTENT" /\ ledger' \in {"PENDING", "DELIVERED", "UNKNOWN"}
    /\ UNCHANGED <<event, settings, clock, request, evaluation, edited, edits, faults>>

Next == \/ SetRule \/ Configure \/ Learn \/ SwitchPolicy \/ Move \/ Quiet \/ Tick
        \/ Resolve \/ Queue \/ Poll \/ Intend \/ Reason
        \/ ReadReadiness \/ ReadSource \/ ReadEvidence \/ Decide \/ AskSleep \/ AskPolicy
        \/ Fail \/ Expire \/ LeaseEnds \/ Receipt

Spec == Init /\ [][Next]_rulesVars

(******************************** Properties *******************************)
RulesTypeOK ==
    /\ event \in Events /\ policy \in {"NONE", "WANTS", "OFF"} /\ ready \in BOOLEAN
    /\ home \in [placed : BOOLEAN, named : BOOLEAN]
    /\ config \in [rule : SavedRules \cup {None}, always : BOOLEAN, proactive : BOOLEAN]
    /\ house \in [asleep : BOOLEAN, opa : {"ALLOW", "DENY", "UNAVAILABLE"}]
    /\ clock \in 0..MaxTime
    /\ request = None \/ request \in [route : Paths, at : 0..MaxTime \cup {None}]
    /\ ledger \in {"NONE", "PENDING", "CLAIMED", "LAPSED", "INTENT", "CANCELLED", "ESCALATED",
                   "UNKNOWN", "DELIVERED"}
    /\ reader.at \in {"idle", "readiness", "source", "evidence", "answer", "sleep", "policy"}
    /\ edited \in BOOLEAN /\ edits \in 0..MaxEdits /\ faults \in 0..MaxFaults

\* Words are owed, offered and played only when the household asked for them at a
\* moment of that very evaluation (and, to be offered or played, was awake and the
\* policy service allowed it), unless two edits crossed it, whose parts it may have mixed; the
\* model may speak unasked only when it was welcome to; and of a stale event nothing is
\* said (household_initiative.py __call__; sentry_service.py _alert_disposition).
SpokenWasWanted ==
    verdict.seen.edits < 2 =>
        /\ verdict.outcome = "OWED" => "asked" \in verdict.seen.held
        /\ verdict.outcome \in {"CLAIMED", "INTENT"} => "audible" \in verdict.seen.held
        /\ verdict.outcome = "MAY_SPEAK" => "welcome" \in verdict.seen.held
        /\ verdict.outcome = "OWED" => verdict.since <= Brief
        /\ verdict.outcome \in {"CLAIMED", "INTENT", "MAY_SPEAK"} => verdict.since <= Long

\* What was asked for all along, and fresh, is owed, and no poll withdraws it:
\* a cancelled obligation was withdrawn at a moment of the poll
\* (initialize_required_delivery; revocation_confirmed).
WantedIsOwed ==
    /\ verdict.outcome = "NOT_OWED" =>
           \/ verdict.seen.failed \/ verdict.since > Brief \/ verdict.seen.edits > 1
           \/ "unasked" \in verdict.seen.held
    /\ verdict.outcome = "CANCELLED" => "withdrawn" \in verdict.seen.held

\* An obligation is queued with a route the poll looks at, unless the rules were
\* edited after the route was chosen (resolve_event_path, next).
RouteIsPolled == verdict.outcome = "OWED" /\ ~edited => request.route \in Spoken
=============================================================================
