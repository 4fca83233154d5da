--------------------------- MODULE TrackerPresence ---------------------------
(* What is told from Home Assistant's live observations: the edges of a        *)
(* person's tracker (household_presence.py, household_presence_runtime.py) and *)
(* the rings of a doorbell (ring_events.py).  Both compare what arrives with   *)
(* what they remember of this connection, since its last synchronisation.      *)
(* Meanwhile owners assign the tracker to a person, and presence is read.      *)
EXTENDS Naturals, Sequences

CONSTANTS People, Owners,
          Signals,      \* the tracker's capabilities; the edges are of the first
          First,
          Kind,         \* "ROUTER_WIFI" or "GEOFENCE"
          Freshness,    \* of a binding, and of a ring
          MaxTime, MaxEvents, MaxFaults, None

TrackerAssumption == Freshness \in Nat /\ None \notin People

VARIABLES
    clock,
    device,    \* what is installed: an assigned tracker, one nobody has yet, a doorbell
    link,      \* the connection: its state, its epoch, its last synchronisation
    truth,     \* the tracker's newest observation
    base,      \* the router's volatile baseline, and its epoch
    edges,     \* the journaled edges
    broken,    \* history: epochs in which an edge was not told or not handed off
    ring,      \* the ring router's epoch, newest ring and pending ring
    rings,     \* the journaled rings
    failed,    \* history: epochs in which the hand-off of a ring failed
    deaf,      \* history: epochs in which a fresh ring met no fault and was not journaled
    owned,     \* capability -> the person its binding names
    linked,    \* the people the tracker is associated with
    owner,     \* who assigns it, and how far he is
    crossed,   \* history: two assignments overlapped
    events, faults

linkVars == <<clock, device, link, events, faults>>
edgeVars == <<truth, base, edges, broken>>
ringVars == <<ring, rings, failed, deaf>>
bindVars == <<owned, linked, owner, crossed>>
trackerVars == <<linkVars, edgeVars, ringVars, bindVars>>

Away == [at |-> "away", person |-> None, signal |-> None]

Init ==
    /\ clock = 0 /\ device \in {"tracker", "unassigned", "doorbell"}
    /\ link = [state |-> "online", epoch |-> 1, ready |-> 0]
    /\ truth = [value |-> None, stamp |-> 0]
    /\ base = [epoch |-> 0, seen |-> None] /\ edges = <<>> /\ broken = {}
    /\ ring = [epoch |-> 0, latest |-> 0, pending |-> None] /\ rings = {} /\ failed = {} /\ deaf = {}
    /\ IF device # "tracker" THEN owned = [s \in Signals |-> None] /\ linked = {}
       ELSE \E person \in People : /\ owned = [s \in Signals |-> IF s = First THEN person ELSE None]
                                  /\ linked = {person}
    /\ owner = [o \in Owners |-> Away] /\ crossed = FALSE
    /\ events = 0 /\ faults = 0

\* The instance's bound on what is heard: little while owners still assign.
Heard == IF device = "unassigned" THEN 1 ELSE MaxEvents

(******************************* The connection ****************************)
\* continuity: online, and nothing has gone wrong since the last snapshot.
Continuous == link.state = "online"

TimePasses ==
    /\ clock < MaxTime /\ clock' = clock + 1
    /\ UNCHANGED <<device, link, events, faults, edgeVars, ringVars, bindVars>>

\* A failed registry reconciliation leaves an error category: events still
\* arrive, and nothing is told of them.
Degrade ==
    /\ link.state = "online" /\ faults < MaxFaults /\ faults' = faults + 1
    /\ link' = [link EXCEPT !.state = "degraded"]
    /\ UNCHANGED <<clock, device, events, edgeVars, ringVars, bindVars>>

Drop ==
    /\ link.state # "offline" /\ faults < MaxFaults /\ faults' = faults + 1
    /\ link' = [link EXCEPT !.state = "offline"]
    /\ UNCHANGED <<clock, device, events, edgeVars, ringVars, bindVars>>

\* A reconnection or a reconciliation: another epoch from another snapshot, which
\* tells the truth and no edge.
Synchronize ==
    /\ events < Heard /\ events' = events + 1
    /\ link' = [state |-> "online", epoch |-> link.epoch + 1, ready |-> clock]
    /\ \E value \in {"home", "not_home"} : truth' = IF device = "doorbell" THEN truth ELSE [value |-> value, stamp |-> clock]
    /\ UNCHANGED <<clock, device, faults, base, edges, broken, ringVars, bindVars>>

(****************************** Presence is read ***************************)
\* presence_signal: the age is that of the observation; Wi-Fi that does not see
\* a phone says only that.
Signal(seen) ==
    [status |-> IF seen.value = None THEN "UNKNOWN"
                ELSE IF clock - seen.stamp >= Freshness THEN "STALE"
                ELSE IF seen.value \notin {"home", "not_home"} THEN "UNKNOWN" ELSE "CURRENT_KNOWN",
     value |-> CASE seen.value = "home" -> "HOME"
                 [] seen.value = "not_home" -> IF Kind = "GEOFENCE" THEN "AWAY" ELSE "NOT_DETECTED"
                 [] OTHER -> "UNKNOWN"]

\* reduce_presence, for a person with one independent tracker.
Reduced(signal) ==
    IF signal.status # "CURRENT_KNOWN" THEN [status |-> signal.status, value |-> "UNKNOWN"]
    ELSE IF signal.value = "NOT_DETECTED" THEN [status |-> "UNKNOWN", value |-> "UNKNOWN"]
    ELSE signal

\* _bindings: an association whose binding names somebody else is an error, for
\* this person and so for whoever reads or follows the household.
Readable == \A s \in Signals : owned[s] # None => linked \subseteq {owned[s]}

Followed == owned[First] # None /\ Readable /\ Kind = "ROUTER_WIFI"

(******************************** The edges ********************************)
\* A mutant: the baseline outlives its connection.
RememberedAcross == base.seen

\* The baseline of this epoch.
Remembered == IF base.epoch = link.epoch THEN base.seen ELSE None

\* A mutant: a delayed observation becomes the baseline.
StaleMovesBack(stamp) == FALSE

\* Duplicate or delayed data cannot move a baseline backwards.
Stale(stamp) == Remembered # None /\ stamp <= Remembered.stamp

\* router_connection_transition: both observations are fresh, and differ.
IsEdge(value, stamp) ==
    LET was == Remembered IN
    /\ was # None /\ stamp > was.stamp
    /\ Signal(was).status = "CURRENT_KNOWN"
    /\ was.value # value

\* For the history: the observation is known, and a change of a remembered one
\* is an edge; one that has outlived the binding by then makes none.
Told(value, stamp) ==
    /\ Signal([value |-> value, stamp |-> stamp]).status = "CURRENT_KNOWN"
    /\ Remembered # None /\ ~Stale(stamp) => Remembered.value = value \/ IsEdge(value, stamp)

Taken(value, stamp) == [value |-> value, stamp |-> stamp, epoch |-> link.epoch]

\* An edge is journaled and handed off under the router's lock; a fault of
\* either leaves the earlier baseline.
Observe(value, stamp) ==
    LET known == Signal([value |-> value, stamp |-> stamp]).status = "CURRENT_KNOWN"
        edge == [value |-> value, stamp |-> stamp, epoch |-> link.epoch, from |-> Remembered]
        seen == IF ~known THEN None ELSE IF Stale(stamp) THEN Remembered ELSE Taken(value, stamp)
    IN /\ device # "doorbell" /\ link.state # "offline" /\ events < Heard /\ events' = events + 1
       /\ truth' = IF stamp >= truth.stamp THEN [value |-> value, stamp |-> stamp] ELSE truth
       /\ IF ~Continuous
          THEN /\ base' = [epoch |-> link.epoch, seen |-> None]
               /\ UNCHANGED <<edges, broken, faults>>
          ELSE IF ~Followed
          THEN /\ base' = [epoch |-> link.epoch, seen |-> Remembered]
               /\ UNCHANGED <<edges, broken, faults>>
          ELSE \/ /\ base' = [epoch |-> link.epoch, seen |-> seen]
                  /\ edges' = IF known /\ IsEdge(value, stamp) THEN Append(edges, edge) ELSE edges
                  /\ broken' = IF Told(value, stamp) THEN broken ELSE broken \cup {link.epoch}
                  /\ UNCHANGED faults
               \/ /\ known /\ IsEdge(value, stamp)
                  /\ faults < MaxFaults /\ faults' = faults + 1
                  /\ edges' \in {edges, Append(edges, edge)}
                  /\ broken' = broken \cup {link.epoch}
                  /\ base' = [epoch |-> link.epoch, seen |-> Remembered]
       /\ UNCHANGED <<clock, device, link, ringVars, bindVars>>

(********************************* The rings *******************************)
\* A mutant: a ring that was not handed off is kept for ever.
ListeningOn == [epoch |-> link.epoch, latest |-> 0, pending |-> ring.pending]

\* The rings of another epoch are forgotten.
Listening == IF ring.epoch = link.epoch /\ Continuous THEN ring
             ELSE [epoch |-> link.epoch, latest |-> 0, pending |-> None]

\* A ring is of this connection, new and not of the future.
Qualified(occurred) ==
    /\ Continuous
    /\ occurred > link.ready /\ occurred <= clock /\ clock - occurred <= Freshness
    /\ occurred > Listening.latest

Ring(occurred) ==
    /\ device = "doorbell" /\ link.state # "offline" /\ events < Heard /\ events' = events + 1
    /\ IF ~Qualified(occurred)
       THEN ring' = Listening /\ UNCHANGED <<rings, deaf, failed, faults>>
       ELSE IF Listening.pending \notin {None, occurred}
       THEN /\ ring' = Listening /\ deaf' = deaf \cup {link.epoch}
            /\ UNCHANGED <<rings, failed, faults>>
       ELSE \/ /\ ring' = [Listening EXCEPT !.latest = occurred, !.pending = None]
               /\ rings' = rings \cup {occurred}
               /\ UNCHANGED <<deaf, failed, faults>>
            \/ /\ faults < MaxFaults /\ faults' = faults + 1
               /\ ring' = [Listening EXCEPT !.pending = occurred]
               /\ rings' \in {rings, rings \cup {occurred}}
               /\ failed' = failed \cup {link.epoch} /\ UNCHANGED deaf
    /\ UNCHANGED <<clock, device, link, edgeVars, bindVars>>

(****************************** The assignment *****************************)
\* A mutant: only the capability is looked at.
UnclaimedAlone(person, signal) == owned[signal] \in {None, person}

\* Nobody else has the tracker, and the capability has no binding or this one.
Unclaimed(person, signal) == linked \subseteq {person} /\ owned[signal] \in {None, person}

\* bind_source looks first: a binding that is there already is the answer.
Assign(o, person, signal) ==
    /\ device = "unassigned" /\ owner[o] = Away
    /\ Unclaimed(person, signal) /\ owned[signal] = None
    /\ owner' = [owner EXCEPT ![o] = [at |-> "checked", person |-> person, signal |-> signal]]
    /\ crossed' = (crossed \/ \E other \in Owners : owner[other] # Away)
    /\ UNCHANGED <<owned, linked, linkVars, edgeVars, ringVars>>

\* commission adds the association, and keeps a binding that is there.
Commission(o) ==
    LET person == owner[o].person signal == owner[o].signal IN
    /\ owner[o].at = "checked"
    /\ linked' = linked \cup {person}
    /\ owned' = [owned EXCEPT ![signal] = IF @ = None THEN person ELSE @]
    /\ owner' = [owner EXCEPT ![o] = Away]
    /\ UNCHANGED <<crossed, linkVars, edgeVars, ringVars>>

Next ==
    \/ TimePasses \/ Degrade \/ Drop \/ Synchronize
    \/ \E value \in {"home", "not_home", "cellar"}, stamp \in 0..clock :
         stamp + 1 >= clock /\ Observe(value, stamp)
    \/ \E occurred \in 1..MaxTime + 1 :
         occurred \in {clock, clock + 1} /\ Ring(occurred)
    \/ \E o \in Owners : Commission(o) \/ \E person \in People, signal \in Signals : Assign(o, person, signal)

Spec == Init /\ [][Next]_trackerVars

(******************************** Properties *******************************)
TrackerTypeOK ==
    /\ clock \in 0..MaxTime /\ link.state \in {"online", "degraded", "offline"}
    /\ link.epoch <= 1 + MaxEvents /\ failed \subseteq 1..link.epoch /\ deaf \subseteq 1..link.epoch
    /\ ring.latest \in 0..clock /\ linked \subseteq People

\* An edge is told of two observations of one connection, and the edges of a
\* connection alternate, in the order they were observed: unless a hand-off
\* failed there, or a change could not be told: from or to something that is
\* neither home nor away, or that was last seen too long ago.
EdgesAlternate ==
    /\ \A i \in DOMAIN edges : edges[i].from.epoch = edges[i].epoch
    /\ \A i \in 1..Len(edges) - 1 :
         LET e == edges[i] f == edges[i + 1] IN
         e.epoch = f.epoch /\ e.epoch \notin broken => e.value # f.value /\ e.stamp < f.stamp

\* A fresh ring goes unheard only in a connection in which an earlier hand-off
\* failed.
FreshRingsAreHeard == deaf \subseteq failed

\* Presence can be read and edges followed, whatever the owners assign one after
\* the other; and a person is told at home or away only on an observation that
\* its binding still allows, away never on Wi-Fi alone.
PresenceIsReadable ==
    LET report == Reduced(Signal(truth)) IN
    /\ ~crossed => Readable
    /\ report.value \in {"HOME", "AWAY"} => clock - truth.stamp < Freshness
    /\ report.value = "AWAY" => Kind = "GEOFENCE" /\ truth.value = "not_home"
=============================================================================
