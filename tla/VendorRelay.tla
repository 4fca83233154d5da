----------------------------- MODULE VendorRelay -----------------------------
(* A vendor's notification on its way into the journal: the relay's private    *)
(* outbox (scripts/waydroid_vendor_relay.py), Core's intake                    *)
(* (vendor_event_ingress.py, android_notifications.py) and the one hand-off of *)
(* an event that may wake SENTRY.  A post may be lost, or may go on after the  *)
(* relay has given it up; both sides may die at any step.                      *)
EXTENDS Naturals, Sequences, SequencesExt

CONSTANTS Deliveries, Text, Rules, Mapped, Handlers, Capacity, MaxEdits, MaxFaults, None

VARIABLES
    disk,      \* the outbox's snapshot
    outbox,    \* the outbox of the relay that runs
    relay,     \* what the relay is doing, and for which delivery
    known,     \* history: the notifications that were taken in
    handler,   \* Core's threads that serve a post
    config,    \* Core's configuration of the source
    journal,   \* the recorded deliveries
    queued,    \* the deliveries whose hand-off made a request
    revoked,   \* history: recorded while the configuration did not let it wake
    edits, faults

relayVars == <<disk, outbox, relay, known>>
coreVars == <<handler, config, journal, queued, revoked>>
vendorVars == <<disk, outbox, relay, known, handler, config, journal, queued, revoked, edits, faults>>

Ready == [at |-> "ready", id |-> None]
Free == [at |-> "free", id |-> None, eligible |-> FALSE, reply |-> None]

Init ==
    /\ disk = <<>> /\ outbox = <<>> /\ relay = Ready /\ known = {}
    /\ handler = [h \in Handlers |-> Free] /\ config \in [wake : BOOLEAN, producer : {1}]
    /\ journal = {} /\ queued = {} /\ revoked = {} /\ edits = 0 /\ faults = 0

(******************************** The outbox *******************************)
\* match_report: the first rule of the package whose words the text has.
Report(d) ==
    LET Fits(r) == r.package = Text[d].package /\ r.words \subseteq Text[d].words
        fitting == {i \in DOMAIN Rules : Fits(Rules[i])}
    IN IF fitting = {} THEN None
       ELSE LET rule == Rules[CHOOSE i \in fitting : \A j \in fitting : i <= j]
            IN [package |-> rule.package, alias |-> rule.alias, kind |-> rule.kind]

Row(d) == [id |-> d, state |-> "PENDING", sent |-> FALSE, due |-> TRUE, late |-> FALSE]

Open(row) == row.state # "ACKNOWLEDGED"
Done(row) == row.state = "ACKNOWLEDGED"

\* _compact_receipts: the receipts come last and displace nothing.
Compacted(rows) == SelectSeq(rows, Open) \o SelectSeq(rows, Done)

\* _persist replaces the snapshot, or fails and leaves it.
Persist(rows) ==
    \/ disk' = rows /\ UNCHANGED faults
    \/ faults < MaxFaults /\ faults' = faults + 1 /\ UNCHANGED disk

Saved == disk' = outbox'

\* Notify: a full outbox refuses, whether or not its rows can still be sent;
\* else the row is saved before the phone is answered.
Notify(d) ==
    /\ relay.at = "ready" /\ d \notin known
    /\ Report(d) # None
    /\ LET rows == Compacted(outbox)
       IN IF Len(SelectSeq(rows, Open)) >= Capacity
          THEN outbox' = rows /\ Persist(rows) /\ UNCHANGED <<relay, known>>
          ELSE /\ outbox' = Append(rows, Row(d)) /\ Persist(outbox')
               /\ known' = IF Saved THEN known \cup {d} ELSE known
               /\ relay' = IF Saved THEN [Ready EXCEPT !.at = "drain"] ELSE relay
    /\ ~\E i \in DOMAIN outbox : outbox[i].id = d
    /\ UNCHANGED <<coreVars, edits>>

Timer ==
    /\ relay.at = "ready" /\ outbox # <<>> /\ relay' = [Ready EXCEPT !.at = "drain"]
    /\ UNCHANGED <<disk, outbox, known, coreVars, edits, faults>>

\* What is too old to be sent is given up, and told apart by whether it was sent.
Expired(row) ==
    IF row.state = "PENDING" /\ row.late
    THEN [row EXCEPT !.state = IF row.sent THEN "UNKNOWN" ELSE "ESCALATED"] ELSE row

Sendable(rows) == {i \in DOMAIN rows : rows[i].state = "PENDING" /\ rows[i].due}

\* drain: one row at a time, the first that is due.
Drain ==
    /\ relay.at = "drain"
    /\ outbox' = [i \in DOMAIN outbox |-> Expired(outbox[i])]
    /\ Persist(outbox')
    /\ relay' = IF Sendable(outbox') = {} \/ ~Saved THEN Ready
                ELSE [at |-> "mark", id |-> outbox'[CHOOSE i \in Sendable(outbox') :
                                                     \A j \in Sendable(outbox') : i <= j].id]
    /\ UNCHANGED <<known, coreVars, edits>>

Setting(d, change(_)) == [i \in DOMAIN outbox |-> IF outbox[i].id = d THEN change(outbox[i]) ELSE outbox[i]]

\* A mutant: the attempt is noted with its outcome.
MarkLater ==
    /\ relay.at = "mark" /\ relay' = [relay EXCEPT !.at = "post"]
    /\ UNCHANGED <<disk, outbox, known, coreVars, edits, faults>>

\* The attempt is saved before the post goes out.
MarkSent ==
    /\ relay.at = "mark"
    /\ outbox' = Setting(relay.id, LAMBDA row : [row EXCEPT !.sent = TRUE])
    /\ Persist(outbox')
    /\ relay' = IF Saved THEN [relay EXCEPT !.at = "post"] ELSE Ready
    /\ UNCHANGED <<known, coreVars, edits>>

Post ==
    /\ relay.at = "post"
    /\ relay' = [relay EXCEPT !.at = "wait"]
    /\ \/ UNCHANGED handler
       \/ \E h \in Handlers : /\ handler[h] = Free
                              /\ handler' = [handler EXCEPT ![h] = [Free EXCEPT !.at = "append", !.id = relay.id]]
    /\ UNCHANGED <<disk, outbox, known, config, journal, queued, revoked, edits, faults>>

\* The receipt names the delivery and says what became of it.
Acknowledged(h) ==
    /\ relay.at = "wait" /\ handler[h].id = relay.id /\ handler[h].reply = "RECORDED"
    /\ outbox' = Compacted(Setting(relay.id, LAMBDA row : [row EXCEPT !.state = "ACKNOWLEDGED"]))
    /\ Persist(outbox') /\ relay' = Ready
    /\ handler' = [handler EXCEPT ![h] = Free]
    /\ UNCHANGED <<known, config, journal, queued, revoked, edits>>

\* Refused, unreachable or late: the row waits for its next time.
Failed ==
    /\ relay.at = "wait"
    /\ outbox' = Setting(relay.id, LAMBDA row : [row EXCEPT !.due = FALSE])
    /\ Persist(outbox') /\ relay' = Ready
    /\ UNCHANGED <<known, coreVars, edits>>

\* Time: a row is due again, and an hour makes it late.
RowDue ==
    /\ \E i \in DOMAIN outbox :
         \/ /\ ~outbox[i].due /\ outbox' = [outbox EXCEPT ![i].due = TRUE]
         \/ /\ ~outbox[i].late /\ outbox' = [outbox EXCEPT ![i].late = TRUE]
    /\ relay.at = "ready"
    /\ disk' = [i \in DOMAIN disk |->
                 IF \E j \in DOMAIN outbox' : outbox'[j].id = disk[i].id /\ outbox'[j].late
                 THEN [disk[i] EXCEPT !.late = TRUE] ELSE disk[i]]
    /\ UNCHANGED <<relay, known, coreVars, edits, faults>>

RelayDies ==
    /\ faults < MaxFaults /\ faults' = faults + 1
    /\ relay' = Ready /\ outbox' = disk
    /\ UNCHANGED <<disk, known, coreVars, edits>>

(****************************** Core's intake ******************************)
\* _normalize_report: the registered package, a report that is a motion or a
\* lock's state, a camera that is mapped.
Disposition(report) ==
    IF report.package # Mapped.package THEN "PACKAGE_REJECTED"
    ELSE IF report.kind \notin {"motion_reported", "locked", "unlocked"} THEN "NON_MOTION_IGNORED"
    ELSE IF report.alias \notin Mapped.aliases THEN "CAMERA_UNMAPPED"
    ELSE "NORMALIZED"

Recorded(d) == CHOOSE row \in journal : row.id = d
IsRecorded(d) == \E row \in journal : row.id = d

\* authenticate_relay and receive: too many, disabled, not qualified, not mapped.
Refuse(h) ==
    /\ handler[h].at = "append"
    /\ handler' = [handler EXCEPT ![h] = Free]
    /\ UNCHANGED <<relayVars, config, journal, queued, revoked, edits, faults>>

\* A mutant: today's configuration decides for an event of yesterday.
Promoted(d) == config.wake

\* What was recorded bounds what may wake; the configuration can only revoke.
MayWake(d) == config.wake /\ (IsRecorded(d) => Recorded(d).wake)

\* _record: the append is unique by the delivery; a duplicate must be the same
\* report of the same producer.
Record(h) ==
    LET d == handler[h].id
    IN /\ handler[h].at = "append" /\ Disposition(Report(d)) = "NORMALIZED"
       /\ IF IsRecorded(d) /\ Recorded(d).producer # config.producer
          THEN handler' = [handler EXCEPT ![h] = Free] /\ UNCHANGED journal
          ELSE /\ journal' = IF IsRecorded(d) THEN journal
                             ELSE journal \cup {[id |-> d, wake |-> config.wake, producer |-> config.producer]}
               /\ handler' = [handler EXCEPT ![h].at = "dispatch", ![h].eligible = MayWake(d)]
       /\ UNCHANGED <<relayVars, config, queued, revoked, edits, faults>>

\* A mutant: only the first post of a delivery is handed off.
HandsOffOnce(h) == handler[h].eligible /\ handler[h].id \notin {row.id : row \in journal}

HandsOff(h) == handler[h].eligible

\* The one hand-off of this event, whether or not it was recorded before; it may
\* fail, and then nothing is acknowledged.
Dispatch(h) ==
    /\ handler[h].at = "dispatch"
    /\ \/ /\ handler' = [handler EXCEPT ![h].at = "reply", ![h].reply = "RECORDED"]
          /\ queued' = IF HandsOff(h) THEN queued \cup {handler[h].id} ELSE queued
          /\ revoked' = IF handler[h].eligible THEN revoked ELSE revoked \cup {handler[h].id}
       \/ /\ handler[h].eligible /\ handler' = [handler EXCEPT ![h] = Free]
          /\ UNCHANGED <<queued, revoked>>
    /\ UNCHANGED <<relayVars, config, journal, edits, faults>>

\* Nobody waits for the answer any more.
ReplyIsLost(h) ==
    /\ handler[h].at = "reply" /\ handler' = [handler EXCEPT ![h] = Free]
    /\ UNCHANGED <<relayVars, config, journal, queued, revoked, edits, faults>>

\* The configuration is read when Core starts.
Restart ==
    /\ edits < MaxEdits /\ edits' = edits + 1
    /\ config' \in [wake : BOOLEAN, producer : {config.producer, config.producer + 1}]
    /\ handler' = [h \in Handlers |-> Free]
    /\ UNCHANGED <<relayVars, journal, queued, revoked, faults>>

Next ==
    \/ \E d \in Deliveries : Notify(d)
    \/ Timer \/ Drain \/ MarkSent \/ Post \/ Failed \/ RowDue \/ RelayDies
    \/ \E h \in Handlers : Acknowledged(h) \/ Refuse(h) \/ Record(h) \/ Dispatch(h) \/ ReplyIsLost(h)
    \/ Restart

Spec == Init /\ [][Next]_vendorVars

VendorTypeOK ==
    /\ known \subseteq Deliveries /\ queued \subseteq Deliveries /\ revoked \subseteq Deliveries
    /\ relay.at \in {"ready", "drain", "mark", "post", "wait"}
    /\ \A i \in DOMAIN outbox :
         outbox[i].state \in {"PENDING", "ACKNOWLEDGED", "UNKNOWN", "ESCALATED"}

Rows == {outbox[i] : i \in DOMAIN outbox} \cup {disk[i] : i \in DOMAIN disk}

\* The outbox tells the truth about each notification it answered for: it is
\* there until it is acknowledged; acknowledged, it is journaled and was handed
\* off if it could wake; given up as unsent, it was never sent.
OutboxIsTrue ==
    /\ \A d \in known : \E i \in DOMAIN disk : disk[i].id = d
    /\ \A row \in Rows :
         /\ row.state = "ACKNOWLEDGED" =>
              /\ IsRecorded(row.id)
              /\ Recorded(row.id).wake => row.id \in queued \cup revoked
         /\ row.state = "ESCALATED" =>
              /\ ~IsRecorded(row.id)
              /\ \A h \in Handlers : handler[h].id # row.id

\* No later configuration lets an event wake that was recorded as one that may not.
NeverPromoted == \A d \in queued : IsRecorded(d) /\ Recorded(d).wake
=============================================================================
