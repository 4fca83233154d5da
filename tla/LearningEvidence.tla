-------------------------- MODULE LearningEvidence --------------------------
(* What is drawn from the journal and put before the model and the owner      *)
(* (src/anima_ha/household_patterns.py, household_event_context.py,           *)
(* household_situation.py, and household_learning.py evidence, propose,       *)
(* review_state, record_incident_assessment and set_household_mode).          *)
(* Observations reach the journal in any order; candidates are drawn from its *)
(* newest rows and frozen for each review request, which concludes of them    *)
(* one by one; the owner decides about what was concluded.  Requests record   *)
(* what they think of an incident, twice when retried; owners declare the     *)
(* household's mode from two clients.  The versions of one suggestion and its *)
(* note are the subject of LearningNotes.                                     *)
EXTENDS Integers, Sequences, FiniteSets, SequencesExt

CONSTANTS Observations,  \* what may reach the journal: records of id, source, type,
                         \* resource, qualifier, family and at
          Moments,       \* the instants the clock shows
          Day, Slot,     \* ticks of a local day, and of its part of four hours
          Near,          \* the gap of a sequence, 600 s
          Span,          \* the length of an episode, 900 s
          Recent,        \* the window of the situation, ten minutes
          Window,        \* EVIDENCE_WINDOW_DAYS
          MaxEvidence, MaxNearby, MaxSituation,   \* rows of a page: 2000, 24 and 48
          MaxCandidates, MaxRefs,                 \* 6 and 12
          RoutineCount, FullCount,  \* the observations of an eligible routine, 5, and
                                    \* of full support, 10
          Requests, Kind,           \* the requests of reviews, and of which kind each is
          Conclusions, Decisions,   \* what a proposal may conclude, the owner decide
          Threads,                  \* calls of one request to record an assessment
          Texts,
          RequestKey, Actions,      \* its idempotency key; the actions of the household:
                                    \* records of id, key, status and effects
          Clients, Modes, MaxModes,
          None

VARIABLES clock,
          journal,
          packet,      \* request -> the candidates frozen for its review
          ended,       \* request -> how the queue says it ended
          standing,    \* the suggestions that are ACTIVE
          said,        \* every suggestion ever proposed
          completion,  \* request -> the dispositions recorded of its review
          incident,    \* the request's assessment
          thread,      \* thread -> its call
          reported,    \* the actions the worker's result refers to
          mode,        \* the declared modes, version by version
          client       \* client -> the version it was shown, and its call

reviewVars == <<packet, ended, standing, said, completion>>
incidentVars == <<incident, thread, reported>>
modeVars == <<mode, client>>
evidenceVars == <<clock, journal, reviewVars, incidentVars, modeVars>>

(******************************** The evidence *****************************)
Before(o, p) == o.at < p.at \/ (o.at = p.at /\ o.id < p.id)
Ordered(S) == SetToSortSeq(S, Before)
Ids(S) == {o.id : o \in S}

Since(from) == {o \in journal : o.at \in from..clock}
Newest(S, limit) == {o \in S : Cardinality({p \in S : Before(o, p)}) < limit}

\* recent_household_evidence: the newest rows of a window, and of those that repeat
\* one source's event about one resource the newest.
Recorded(from, limit) ==
    LET rows == Newest(Since(from), limit)
        Repeats(o, p) == o.source = p.source /\ o.type = p.type /\ o.resource = p.resource
    IN {o \in rows : \A p \in rows : Repeats(o, p) => ~Before(o, p)}

\* evidence: whatever the type, an event that names one already taken is dropped.
Evidence ==
    LET rows == Ordered(Recorded(clock - Window, MaxEvidence))
        Names(i) == {rows[i].id, rows[i].source}
        taken[i \in DOMAIN rows] == \A j \in 1..(i - 1) : taken[j] => Names(i) \cap Names(j) = {}
    IN {rows[i] : i \in {j \in DOMAIN rows : taken[j]}}

Truncated == Cardinality(Since(clock - Window)) > MaxEvidence

(****************************** The candidates *****************************)
DayOf(o) == o.at \div Day
SlotOf(o) == (o.at % Day) \div Slot
Key(o) == <<o.type, o.resource, o.qualifier>>

\* evidence_score in thousandths, of which a share of the rows in one part of the day
\* gives up to 200.
Score(count, days, elapsed, inSlot) ==
    LET of == FullCount * 7 * (7 * Day) * count
        sum == 300 * Min({count, FullCount}) * 7 * (7 * Day) * count
               + 300 * Min({days, 7}) * FullCount * (7 * Day) * count
               + 200 * Min({elapsed, 7 * Day}) * FullCount * 7 * count
               + 200 * inSlot * FullCount * 7 * (7 * Day)
    IN (2 * sum + of) \div (2 * of)

Maturity(count, days, elapsed, inSlot) ==
    IF count >= RoutineCount /\ days >= 3 /\ elapsed >= 2 * Day /\ 2 * inSlot >= count
    THEN "LEARNED_ROUTINE_ELIGIBLE"
    ELSE IF count >= 3 /\ days >= 2 THEN "TENTATIVE_HYPOTHESIS" ELSE "SUPPORTED_OBSERVATION"

\* A candidate of so many starts, with all the rows that belong to them.
Candidate(class, key, starts, rows) ==
    LET count == Cardinality(starts)
        days == Cardinality({DayOf(o) : o \in starts})
        elapsed == Max({o.at : o \in rows}) - Min({o.at : o \in rows})
        inSlot == IF class = "EVENT_SEQUENCE" THEN count
                  ELSE Max({Cardinality({o \in starts : SlotOf(o) = s}) : s \in 0..Day})
    IN [class |-> class, key |-> key, count |-> count, days |-> days,
        refs |-> Ids(Newest(rows, MaxRefs)),
        score |-> Score(count, days, elapsed, inSlot),
        maturity |-> Maturity(count, days, elapsed, inSlot)]

\* The same thing said of one resource again.
Recurrences(S) ==
    LET rows(k) == {o \in S : Key(o) = k} IN
    {Candidate("RESOURCE_RECURRENCE", <<k>>, rows(k), rows(k)) :
        k \in {Key(o) : o \in {p \in S : Cardinality(rows(Key(p))) > 1}}}

\* The rows are cut into runs of at most Span from their first: where the run of
\* each begins.
Begins(rows) ==
    LET begin[i \in DOMAIN rows] ==
            IF i = 1 THEN 1
            ELSE IF rows[i].at - rows[begin[i - 1]].at > Span THEN i ELSE begin[i - 1]
    IN begin

Runs(rows) ==
    LET begin == Begins(rows) IN
    {SubSeq(rows, b, Max({i \in DOMAIN rows : begin[i] = b})) :
        b \in {begin[i] : i \in DOMAIN rows}}

Signature(run) == [i \in DOMAIN run |-> Key(run[i])]
Mixed(run) == /\ Cardinality({run[i].type : i \in DOMAIN run}) > 1
              /\ Cardinality({run[i].family : i \in DOMAIN run}) > 1

\* One episode for a local day: a burst is not the support of several.
OnePerDay(runs) ==
    {r \in runs : ~\E q \in runs : DayOf(q[1]) = DayOf(r[1]) /\ Before(q[1], r[1])}

Episodes(S) ==
    LET mixed == {r \in Runs(Ordered(S)) : Mixed(r)}
        chosen(g) == OnePerDay({r \in mixed : Signature(r) = g})
    IN {Candidate("MULTI_SIGNAL_EPISODE", g, {r[1] : r \in chosen(g)},
                  UNION {ToSet(r) : r \in chosen(g)}) :
          g \in {h \in {Signature(r) : r \in mixed} : Cardinality(chosen(h)) > 1}}

\* One type soon after another, whatever the resource, on more than one day.
SequencesOf(S) ==
    LET rows == Ordered(S)
        pairs == {i \in 1..(Len(rows) - 1) : rows[i + 1].at - rows[i].at <= Near}
        types(i) == <<<<rows[i].type>>, <<rows[i + 1].type>>>>
        firsts(k) == {rows[i] : i \in {j \in pairs : types(j) = k}}
        seconds(k) == {rows[i + 1] : i \in {j \in pairs : types(j) = k}}
    IN {Candidate("EVENT_SEQUENCE", k, firsts(k), firsts(k) \cup seconds(k)) :
          k \in {t \in {types(i) : i \in pairs} : Cardinality({DayOf(o) : o \in firsts(t)}) > 1}}

\* Episodes first, then by days and by count; the rest of the order is by name.
Stronger(c, d) ==
    LET first(x) == IF x.class = "MULTI_SIGNAL_EPISODE" THEN 0 ELSE 1 IN
    \/ first(c) < first(d)
    \/ first(c) = first(d) /\ c.days > d.days
    \/ first(c) = first(d) /\ c.days = d.days /\ c.count > d.count

AllCandidates(S) == Recurrences(S) \cup Episodes(S) \cup SequencesOf(S)

\* extract_pattern_candidates: as many of the strongest as a packet holds.
Candidates(S) ==
    LET all == AllCandidates(S) IN
    CHOOSE kept \in SUBSET all :
        /\ Cardinality(kept) = Min({Cardinality(all), MaxCandidates})
        /\ \A c \in kept, d \in all \ kept : ~Stronger(d, c)

(******************************** The states *******************************)
Free == [at |-> "idle", text |-> None, ids |-> {}, refs |-> {}, told |-> None]

Init ==
    /\ clock = 0 /\ journal = {}
    /\ packet = [q \in Requests |-> None] /\ ended = [q \in Requests |-> None]
    /\ standing = {} /\ said = {}
    /\ completion = [q \in Requests |-> <<>>]
    /\ incident = None /\ reported = <<>>
    /\ thread = [t \in Threads |-> Free]
    /\ mode = <<>>
    /\ client = [c \in Clients |-> [at |-> "idle", seen |-> None, value |-> None, told |-> None]]

Tick == /\ \E n \in Moments : n > clock /\ clock' = n
        /\ UNCHANGED <<journal, reviewVars, incidentVars, modeVars>>

\* An observation is journaled, then or later; project_event refuses what is yet to be.
Record(o) ==
    /\ o \notin journal /\ o.at <= clock
    /\ journal' = journal \cup {o}
    /\ UNCHANGED <<clock, reviewVars, incidentVars, modeVars>>

(******************************** The review *******************************)
Frozen == {q \in Requests : packet[q] # None}
KeysOf(q) == {c.key : c \in packet[q]}
RowsOf(q) == {s \in standing : s.request = q}

\* review_state: the request ended well and every candidate has its outcome, by the
\* provider's own words.  A later review's suggestion replaces that of an earlier one,
\* whose disposition still says that it had them.
EndedWell(q) == ended[q] = "WELL"

Previous(q) == IF completion[q] = <<>> THEN {} ELSE {Last(completion[q])}
Retained(q) == \E d \in Previous(q) : d.explicit /\ d.success

StateWith(q, rows) ==
    LET complete == \/ {s.key : s \in rows} = KeysOf(q)
                    \/ \E d \in Previous(q) : d.outcomes = Cardinality(KeysOf(q))
        byProvider == {s.key : s \in {r \in rows : r.explicit}}
        explicit == byProvider = KeysOf(q) \/ Retained(q)
    IN [lifecycle |-> ended[q], complete |-> complete, explicit |-> explicit,
        reviewed |-> IF Retained(q) THEN KeysOf(q) ELSE byProvider,
        success |-> EndedWell(q) /\ complete /\ explicit]

ReviewState(q) == StateWith(q, RowsOf(q))

\* _complete_review: a disposition not recorded before replaces the last one, with
\* the number of outcomes.
OutcomesWith(q, rows) ==
    IF StateWith(q, rows).explicit THEN Cardinality(KeysOf(q))
    ELSE IF rows = {} /\ Previous(q) # {} THEN Last(completion[q]).outcomes
    ELSE Cardinality(rows)

CompletedWith(q, rows) ==
    LET state == StateWith(q, rows)
        Says(d) == \A x \in DOMAIN state : d[x] = state[x]
    IN IF \E i \in DOMAIN completion[q] : Says(completion[q][i])
       THEN completion[q]
       ELSE Append(completion[q], state @@ [outcomes |-> OutcomesWith(q, rows)])

\* What the packets of successful reviews were drawn from.
Incorporated ==
    UNION {UNION {c.refs : c \in packet[q]} :
             q \in {r \in Frozen : completion[r] # <<>> /\ ReviewState(r).success}}

\* create_review_packet: a daily review is asked only of what says something new.  A
\* packet without a candidate is recorded as reviewed at once.
Freeze(q) ==
    /\ packet[q] = None /\ ended[q] = None
    /\ LET found == Candidates(Evidence)
           known == Incorporated
       IN packet' = [packet EXCEPT ![q] = IF Kind[q] = "DAILY"
                        THEN {c \in found : ~(c.refs \subseteq known)} ELSE found]
    /\ completion' = IF packet'[q] # {} THEN completion
                     ELSE [completion EXCEPT ![q] = <<
                             [lifecycle |-> None, complete |-> TRUE, explicit |-> TRUE,
                              reviewed |-> {}, success |-> FALSE, outcomes |-> 0]>>]
    /\ UNCHANGED <<clock, journal, ended, standing, said, incidentVars, modeVars>>

\* learning_request_scope, propose: what is concluded of a candidate rests on its
\* observations, all still in evidence; the conclusion is the provider's.
Bound(q) == UNION {c.refs : c \in packet[q]} \subseteq Ids(Evidence)

Suggest(q, c, as, explicit) ==
    [request |-> q, key |-> c.key, candidate |-> c, as |-> as, explicit |-> explicit,
     status |-> "PENDING"]

\* A suggestion repeated word for word is the one on record; another one replaces what
\* stands for the candidate, whichever review it is of.
Propose(q) ==
    /\ q \in Frozen /\ ended[q] = None /\ Bound(q)
    /\ \E c \in packet[q], as \in Conclusions, explicit \in BOOLEAN :
         LET row == Suggest(q, c, as, explicit) IN
         /\ row \notin said
         /\ said' = said \cup {row}
         /\ standing' = {s \in standing : s.key # c.key} \cup {row}
         /\ completion' = [completion EXCEPT ![q] =
               CompletedWith(q, {s \in RowsOf(q) : s.key # c.key} \cup {row})]
    /\ UNCHANGED <<clock, journal, packet, ended, incidentVars, modeVars>>

\* The request ends, well when a provider was started, answered and its result was
\* taken, as COMPLETED or as NO_ACTION.
End(q) ==
    /\ ended[q] = None
    /\ \E how \in {"WELL", "OTHERWISE"} : ended' = [ended EXCEPT ![q] = how]
    /\ UNCHANGED <<clock, journal, packet, standing, said, completion, incidentVars, modeVars>>

\* _reconcile_reviews
Reconcile(q) ==
    /\ q \in Frozen
    /\ completion' = [completion EXCEPT ![q] = CompletedWith(q, RowsOf(q))]
    /\ UNCHANGED <<clock, journal, packet, ended, standing, said, incidentVars, modeVars>>

\* review: the owner decides about the suggestion that stands; a correction concludes
\* something of its own.
Review(d) ==
    /\ \E s \in standing :
         standing' = (standing \ {s}) \cup
             {[s EXCEPT !.status = d, !.as = IF d = "CORRECTED" THEN "OWNER_CORRECTION" ELSE @]}
    /\ UNCHANGED <<clock, journal, packet, ended, said, completion, incidentVars, modeVars>>

\* _learned_routine
Threshold == 650
Learned(s) ==
    /\ s.status \notin {"DISMISSED", "CORRECTED", "RETRACTED"}
    /\ s.as = "LEARNED_ROUTINE_SUGGESTION"
    /\ ReviewState(s.request).success
    /\ s.candidate.score >= Threshold

\* _learning_gaps: what the candidates of a page cannot say.
Gaps ==
    {gap \in {"TRUNCATED", "NO_SEQUENCE", "NO_PRESENCE"} :
        \/ gap = "TRUNCATED" /\ Truncated
        \/ gap = "NO_SEQUENCE" /\ \A c \in Candidates(Evidence) : c.class = "RESOURCE_RECURRENCE"
        \/ gap = "NO_PRESENCE" /\ \A o \in Evidence : o.type # "presence"}

\* status: the candidates of now, what they cannot say, and what was learned.
Status == [candidates |-> Candidates(Evidence), gaps |-> Gaps,
           learned |-> {s \in standing : Learned(s)},
           reviews |-> {q \in Frozen : ReviewState(q).success}]

(***************************** The assessment ******************************)
\* The worker's result refers to actions, whatever they are.
Report(a) ==
    /\ Len(reported) < Cardinality(Actions) /\ ~Contains(reported, a)
    /\ reported' = Append(reported, a)
    /\ UNCHANGED <<clock, journal, reviewVars, incident, thread, modeVars>>

\* public_action: only an action whose key was derived from the request's is its own,
\* and it is verified only when every effect of it is.
Own(a) == a.key[1] = RequestKey
Shown(a) == [id |-> a.id, status |-> a.status,
             verified |-> a.status = "SUCCEEDED" /\ a.effects = {"VERIFIED"}]

\* HouseholdSituation: the observations of the last ten minutes, and the incident with
\* what is known to have been done about it.
Situation ==
    [observations |-> Recorded(clock - Recent, MaxSituation),
     incident     |-> IF incident = None THEN {} ELSE {incident},
     actions      |-> {Shown(a) : a \in {b \in ToSet(SubSeq(reported, 1,
                                              Min({Len(reported), MaxRefs}))) : Own(b)}}]

\* The call's scope is bound to the observations near it as it begins.
Call(t) ==
    /\ thread[t].at = "idle" /\ thread[t].told = None
    /\ \E text \in Texts, ids \in SUBSET Ids(Recorded(clock - Recent, MaxNearby)) :
         /\ Cardinality(ids) \in 1..MaxRefs
         /\ thread' = [thread EXCEPT ![t] = [Free EXCEPT !.at = "look", !.text = text, !.ids = ids]]
    /\ UNCHANGED <<clock, journal, reviewVars, incident, reported, modeVars>>

\* record_incident_assessment: what is recorded already is the answer when it says
\* the same; otherwise the references must be in the situation as it is now.
Answer(t) == IF incident.text = thread[t].text /\ Ids(incident.refs) = thread[t].ids
             THEN "SUCCEEDED" ELSE "REFUSED"

Look(t) ==
    LET refs == {o \in Situation.observations : o.id \in thread[t].ids}
        told == IF incident # None THEN Answer(t)
                ELSE IF Ids(refs) # thread[t].ids THEN "REFUSED" ELSE None
    IN /\ thread[t].at = "look"
       /\ thread' = [thread EXCEPT ![t].at = IF told = None THEN "create" ELSE "idle",
                                   ![t].refs = refs, ![t].told = told]
       /\ UNCHANGED <<clock, journal, reviewVars, incident, reported, modeVars>>

\* The record has one identifier for the request: the second to come finds the
\* first one's and asks again.
Vacant == incident = None

Create(t) ==
    /\ thread[t].at = "create"
    /\ IF Vacant
       THEN /\ incident' = [text |-> thread[t].text, refs |-> thread[t].refs]
            /\ thread' = [thread EXCEPT ![t].at = "idle", ![t].told = "SUCCEEDED"]
       ELSE /\ UNCHANGED incident
            /\ thread' = [thread EXCEPT ![t].at = "idle", ![t].told = Answer(t)]
    /\ UNCHANGED <<clock, journal, reviewVars, reported, modeVars>>

(******************************* The mode **********************************)
LookAtMode(c) ==
    /\ client[c].at = "idle" /\ client[c].seen = None
    /\ client' = [client EXCEPT ![c].seen = Len(mode)]
    /\ UNCHANGED <<clock, journal, reviewVars, incidentVars, mode>>

Now(c, at, told) == [client EXCEPT ![c].at = at, ![c].told = told,
                                   ![c].seen = IF at = "idle" THEN None ELSE @]

\* set_household_mode: the version shown must be the current one; declaring it again
\* changes nothing.
AskMode(c) ==
    /\ client[c].at = "idle" /\ client[c].seen # None /\ Len(mode) < MaxModes
    /\ \E value \in Modes :
         client' = IF client[c].seen # Len(mode) THEN Now(c, "idle", "RELOAD")
                   ELSE IF mode # <<>> /\ Last(mode).value = value THEN Now(c, "idle", value)
                   ELSE [Now(c, "write", None) EXCEPT ![c].value = value]
    /\ UNCHANGED <<clock, journal, reviewVars, incidentVars, mode>>

\* The new version's identifier is made from the one replaced, which must still stand.
Takes(c) == client[c].seen = Len(mode)

WriteMode(c) ==
    /\ client[c].at = "write"
    /\ IF Takes(c)
       THEN /\ mode' = Append(mode, [value |-> client[c].value, by |-> c, over |-> client[c].seen])
            /\ client' = Now(c, "answer", None)
       ELSE UNCHANGED mode /\ client' = Now(c, "idle", "RELOAD")
    /\ UNCHANGED <<clock, journal, reviewVars, incidentVars>>

\* declared_mode, read again for the answer.
AnswerMode(c) ==
    /\ client[c].at = "answer"
    /\ client' = Now(c, "idle", Last(mode).value)
    /\ UNCHANGED <<clock, journal, reviewVars, incidentVars, mode>>

Next ==
    \/ Tick
    \/ \E o \in Observations : Record(o)
    \/ \E q \in Requests : Freeze(q) \/ Propose(q) \/ End(q) \/ Reconcile(q)
    \/ \E d \in Decisions : Review(d)
    \/ \E a \in Actions : Report(a)
    \/ \E t \in Threads : Call(t) \/ Look(t) \/ Create(t)
    \/ \E c \in Clients : LookAtMode(c) \/ AskMode(c) \/ WriteMode(c) \/ AnswerMode(c)

Spec == Init /\ [][Next]_evidenceVars

(******************************* Properties ********************************)
EvidenceTypeOK ==
    /\ clock \in Moments \cup {0} /\ journal \subseteq Observations
    /\ \A s \in standing : s.request \in Frozen /\ s.candidate \in packet[s.request]
    /\ \A s, r \in standing : s.key = r.key => s = r
    /\ \A t \in Threads : thread[t].at \in {"idle", "look", "create"}
                          /\ thread[t].told \in {None, "SUCCEEDED", "REFUSED"}
    /\ Len(mode) <= MaxModes

\* An episode is counted once for each of its days, and on every one of them its
\* signals were really journaled within one Span (extract_pattern_candidates).
SupportIsReal ==
    \A q \in Frozen : \A c \in packet[q] : c.class = "MULTI_SIGNAL_EPISODE" =>
        /\ c.count = c.days
        /\ \E ds \in SUBSET {DayOf(o) : o \in journal} : Cardinality(ds) = c.count /\ \A d \in ds :
             \E first \in journal : DayOf(first) = d /\ \A k \in DOMAIN c.key :
                \E o \in journal : Key(o) = c.key[k] /\ o.at \in first.at..(first.at + Span)

\* "One day is not a learned routine": what the status shows as learned was seen on
\* several days, was in the packet of a review that ended well (_learned_routine, evidence_score; household_patterns.py:242).
LearnedIsEarned ==
    \A s \in {r \in standing : Learned(r)} :
        /\ s \in Status.learned
        /\ s.candidate.days > 1
        /\ s.candidate \in packet[s.request] /\ EndedWell(s.request)

\* A review recorded as a success stays one, also when a later review's suggestions
\* have replaced all of its own (review_state, _complete_review).
SuccessIsKept ==
    \A q \in Requests : (\E i \in DOMAIN completion[q] : completion[q][i].success)
                            => ReviewState(q).success

\* Who is told that an assessment is recorded finds it, with these words and these
\* observations; each declared mode replaced the one its owner had been shown, and who
\* waits for the answer has his own among them; what is shown as done about an
\* incident was done by its request (record_incident_assessment, set_household_mode,
\* public_action).
ToldIsKept ==
    /\ \A t \in Threads : thread[t].told = "SUCCEEDED" =>
          /\ incident.text = thread[t].text /\ Ids(incident.refs) = thread[t].ids
          /\ incident.refs \subseteq journal
    /\ \A v \in DOMAIN mode : mode[v].over = v - 1
    /\ \A c \in Clients : client[c].at = "answer" =>
          \E v \in DOMAIN mode : /\ mode[v].by = c /\ mode[v].value = client[c].value
                                 /\ mode[v].over = client[c].seen
    /\ \A x \in Situation.actions : \E a \in Actions :
          a.id = x.id /\ a.key[1] = RequestKey /\ (x.verified => a.effects = {"VERIFIED"})
=============================================================================
