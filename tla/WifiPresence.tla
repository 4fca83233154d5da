---------------------------- MODULE WifiPresence -----------------------------
(* The observer of the local network (src/anima_ha/wifi_presence.py), for one  *)
(* person: a process of its own sweeps the neighbour table, compares what it   *)
(* finds with the status file of its last sweep, journals an event for every   *)
(* change and then replaces the file.  Its only memory is that file: it may be *)
(* too old to go by, the network may be out of sight, the owner may give the   *)
(* person another phone, and the process may die between any two steps.        *)
EXTENDS Naturals, Sequences

CONSTANTS Confirmation,   \* ABSENCE_CONFIRMATION_SWEEPS
          MaxEvents, MaxEdits, MaxFaults,
          None

\* A number, of which "unknown" is none, as it is no presence and no state of the file.
WifiAssumption ==
    Confirmation \in Nat /\ None \notin Nat \cup BOOLEAN \cup {"READY", "DEGRADED"}

VARIABLES
    phone,     \* its MAC is in the neighbour table, or fresh in Home Assistant
    binding,   \* which phone is bound to the person
    file,      \* the status file: its state, its age, the person's record
    sweep,     \* the sweep under way
    journal,   \* the person's events: the transitions
    missed,    \* history: sweeps in a row, each written, that did not find the phone
    broken,    \* history: the next event need not follow from the last one
    faults     \* deaths, outages and long pauses so far

wifiVars == <<phone, binding, file, sweep, journal, missed, broken, faults>>

NoRecord == [active |-> None, sweeps |-> 0, finger |-> None]
Idle == [at |-> "idle", raw |-> None, was |-> None, found |-> NoRecord]

Init ==
    /\ phone \in BOOLEAN /\ binding = 0
    /\ file = [state |-> None, old |-> FALSE, person |-> NoRecord]
    /\ sweep = Idle
    /\ journal = <<>>
    /\ missed = 0 /\ broken = TRUE /\ faults = 0

Fault == faults < MaxFaults /\ faults' = faults + 1

(******************************* A sweep ***********************************)
\* _read_previous: a file that is not of the last two minutes, or not of a sweep
\* that saw the network, keeps its history but tells nothing of the present.
Usable == file.state \in {"READY", "DEGRADED"} /\ ~file.old
Unknown(person) == [person EXCEPT !.active = None, !.sweeps = 0]

\* A change of the bound phone is no change of presence.
Previous ==
    IF file.person.finger # binding THEN NoRecord
    ELSE IF Usable THEN file.person ELSE Unknown(file.person)

\* A mutant: a single sweep without the phone is a departure.
ProjectAtOnce(was, raw) == [active |-> raw, sweeps |-> 0, finger |-> binding]

\* A mutant: it counts on while the phone is away.
ProjectCountingOn(was, raw) ==
    LET misses == IF raw \/ was.active = None THEN 0 ELSE was.sweeps + 1 IN
    [active |-> raw \/ (was.active = TRUE /\ misses < Confirmation),
     sweeps |-> misses, finger |-> binding]

\* project_wifi_presence: a found phone is home at once; one that was home is
\* gone after so many sweeps without it.
Project(was, raw) ==
    LET misses == IF raw \/ was.active = None THEN 0
                  ELSE IF was.active THEN was.sweeps + 1 ELSE was.sweeps
    IN [active |-> raw \/ (was.active = TRUE /\ misses < Confirmation),
        sweeps |-> IF misses < Confirmation THEN misses ELSE Confirmation,
        finger |-> binding]

\* The network is looked at, and what it shows is compared with the file.
Sweep ==
    /\ sweep.at = "idle"
    /\ sweep' = [at |-> "found", raw |-> phone, was |-> Previous.active,
                  found |-> Project(Previous, phone)]
    /\ broken' = (broken \/ Previous.active = None)
    /\ UNCHANGED <<phone, binding, file, journal, missed, faults>>

Edge == {sweep.was, sweep.found.active} = BOOLEAN

\* presence_transition_event, appended with the instant of the change as identity.
Announce ==
    /\ sweep.at = "found" /\ Edge
    /\ Len(journal) < MaxEvents
    /\ journal' = Append(journal, IF sweep.found.active THEN "RECONNECTED" ELSE "DISCONNECTED")
    /\ sweep' = [sweep EXCEPT !.at = "told"]
    /\ broken' = FALSE
    /\ UNCHANGED <<phone, binding, file, missed, faults>>

Write ==
    /\ sweep.at = "told" \/ (sweep.at = "found" /\ ~Edge)
    /\ file' = [state |-> "READY", old |-> FALSE, person |-> sweep.found]
    /\ sweep' = Idle
    /\ missed' = IF sweep.raw THEN 0 ELSE IF missed < Confirmation THEN missed + 1 ELSE missed
    /\ UNCHANGED <<phone, binding, journal, broken, faults>>

\* A mutant: an outage leaves the records as they were.
KeptThrough == [state |-> "READY", old |-> FALSE, person |-> file.person]

\* No default route, or no neighbour table: NOT_READY, and the records, with their
\* history, are put out of use.
Withheld == [state |-> "NOT_READY", old |-> FALSE, person |-> Unknown(file.person)]

Outage ==
    /\ sweep.at = "idle" /\ Fault
    /\ file' = Withheld
    /\ missed' = 0
    /\ UNCHANGED <<phone, binding, sweep, journal, broken>>

(******************************* The rest **********************************)
\* The process dies: an exception of a query or of the journal is not caught.
\* What it had told is told again, under another instant, when it sweeps again.
Die ==
    /\ sweep.at # "idle" /\ Fault
    /\ sweep' = Idle
    /\ broken' = (broken \/ sweep.at = "told")
    /\ UNCHANGED <<phone, binding, file, journal, missed>>

\* Two minutes pass without a sweep.
GrowOld ==
    /\ sweep.at = "idle" /\ file.state # None /\ ~file.old /\ Fault
    /\ file' = [file EXCEPT !.old = TRUE]
    /\ missed' = 0
    /\ UNCHANGED <<phone, binding, sweep, journal, broken>>

Move == phone' = ~phone /\ UNCHANGED <<binding, file, sweep, journal, missed, broken, faults>>

\* The owner binds another phone.  A sweep reads the bindings once, when it begins.
Rebind ==
    /\ sweep.at = "idle" /\ binding < MaxEdits
    /\ binding' = binding + 1
    /\ missed' = 0
    /\ UNCHANGED <<phone, file, sweep, journal, broken, faults>>

Next == Sweep \/ Announce \/ Write \/ Outage \/ Die \/ GrowOld \/ Move \/ Rebind

Spec == Init /\ [][Next]_wifiVars

WifiTypeOK ==
    /\ file.state \in {None, "READY", "DEGRADED", "NOT_READY"}
    /\ file.person.active \in BOOLEAN \cup {None} /\ file.person.sweeps \in 0..Confirmation
    /\ sweep.at \in {"idle", "found", "told"}
    /\ journal \in Seq({"RECONNECTED", "DISCONNECTED"})

\* A departure is told only after the phone that is bound was missed by as many
\* written sweeps in a row as it takes, this one included, of a network that was
\* in sight all along; and an
\* event repeats the one before only if the observer lost its baseline, or died
\* between telling and writing, in between.
EdgeIsEarned ==
    journal' # journal =>
        LET told == journal'[Len(journal')] IN
        /\ told = "DISCONNECTED" => ~sweep.raw /\ missed + 1 >= Confirmation
        /\ journal # <<>> /\ ~broken => told # journal[Len(journal)]
PresenceEdgesAreEarned == [][EdgeIsEarned]_wifiVars
=============================================================================
