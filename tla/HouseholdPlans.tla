--------------------------- MODULE HouseholdPlans ---------------------------
(* What the people of a house have planned: the local calendar                 *)
(* (src/anima_ha/calendar.py) and the owner's routine expectations             *)
(* (src/anima_ha/family_routines.py), whose versions are memories and whose    *)
(* members and places stand in the household graph.  Requests come from        *)
(* several threads; each reads, decides and writes in transactions of its own, *)
(* and tells the journal, or its caller, afterwards.                           *)
EXTENDS Integers, Sequences, FiniteSets

CONSTANTS Threads,
          Keys,                 \* creation keys, which name the calendar's events
          People, Places, Names,
          MaxCalls, MaxVersions, MaxDeaths, None

VARIABLES
    row,        \* key -> its row of the calendar
    audits,     \* key -> the calendar's events in the journal
    memories,   \* the routine versions, in the order they were written
    standing,   \* the members and places that are not retired
    named,      \* the names given to members that were added
    call,       \* thread -> its request
    agreed,     \* history: key -> what each accepted request made of the event
    silent,     \* history: what was committed by a thread that then died
    crossed,    \* history: two threads were adding a member at once
    misled,     \* history: told of a failure although it was done, and nobody was retired
    calls, retired, deaths

planVars == <<row, audits, memories, standing, named, call, agreed, silent, crossed,
              misled, calls, retired, deaths>>

Absent == [version |-> 0, active |-> FALSE, when |-> <<0, 0>>, first |-> <<0, 0>>]
Idle == [at |-> "idle", op |-> None, key |-> None, expected |-> 0, end |-> 0,
         read |-> Absent, who |-> None, place |-> None, enabled |-> FALSE, id |-> 0, since |-> 0]

Init ==
    /\ row = [k \in Keys |-> Absent] /\ audits = [k \in Keys |-> <<>>]
    /\ memories = <<>> /\ standing = People \cup Places /\ named = <<>>
    /\ call = [t \in Threads |-> Idle]
    /\ agreed = [k \in Keys |-> <<>>] /\ silent = {} /\ crossed = FALSE /\ misled = FALSE
    /\ calls = 0 /\ retired = 0 /\ deaths = 0

Starts(t, c) ==
    /\ call[t] = Idle /\ calls < MaxCalls /\ calls' = calls + 1
    /\ call' = [call EXCEPT ![t] = [c EXCEPT !.since = retired]]
Goes(t, c) == call' = [call EXCEPT ![t] = c] /\ UNCHANGED calls

\* The thread dies with its process; what it had committed stays.
Die(t) ==
    LET c == call[t] IN
    /\ c # Idle /\ deaths < MaxDeaths /\ deaths' = deaths + 1
    /\ Goes(t, Idle)
    /\ silent' = IF c.at = "told" THEN silent \cup {<<c.key, c.read.version>>} ELSE silent
    /\ UNCHANGED <<row, audits, memories, standing, named, agreed, crossed, misled, retired>>

(******************************* The calendar ******************************)
homeVars == <<memories, standing, named, crossed, misled, retired>>

\* An event starts before it ends.
Proper(when) == when[1] < when[2]
Moments == {<<0, 1>>, <<0, 2>>}

\* A mutant: whoever finds the row tells of it.
AnnouncedAlways(mine) == TRUE

\* Only who inserted the row tells of it.
Announced(mine) == mine

\* create inserts its row unless the key is taken, and refuses the key when it
\* was used for something else; who inserted goes on to tell the journal.
Create(t, k, when) ==
    LET mine == row[k] = Absent
        fresh == [version |-> 1, active |-> TRUE, when |-> when, first |-> when]
        c == [Idle EXCEPT !.at = "told", !.op = "created", !.key = k] IN
    /\ IF mine
       THEN /\ row' = [row EXCEPT ![k] = fresh]
            /\ agreed' = [agreed EXCEPT ![k] = <<when>>]
       ELSE UNCHANGED <<row, agreed>>
    /\ Starts(t, IF Announced(mine) THEN [c EXCEPT !.read = row'[k]] ELSE Idle)
    /\ UNCHANGED <<audits, silent, deaths, homeVars>>

\* update and cancel read the row, check it against the version their caller
\* has seen, and work out what will stand in its place.
\* A request moves the event's beginning or its end to the hour between.
Moved(when, c) == [when EXCEPT ![c.end] = 1]
Acceptable(c, r) == CASE c.op = "updated" -> r.active /\ r.version = c.expected /\ Proper(Moved(r.when, c))
                      [] c.op = "cancelled" -> r.active /\ r.version = c.expected
Get(t, c) ==
    LET r == row[c.key] IN
    /\ r # Absent
    /\ Starts(t, CASE Acceptable(c, r) -> [c EXCEPT !.at = "got", !.read = r]
                   [] c.op = "cancelled" /\ ~r.active /\ r.version = c.expected + 1 ->
                        [c EXCEPT !.at = "told", !.read = r]
                   [] OTHER -> Idle)
    /\ UNCHANGED <<row, audits, agreed, silent, deaths, homeVars>>

\* A mutant: any row that was not cancelled is replaced.
UnlessCancelled(now, c) == now.active

Unchanged(now, c) == now.active /\ now.version = c.expected

\* The row is replaced if it still is the one that was expected.
Write(t) ==
    LET c == call[t] now == row[c.key]
        when == IF c.op = "updated" THEN Moved(c.read.when, c) ELSE c.read.when
        next == [c.read EXCEPT !.version = @ + 1, !.active = c.op = "updated", !.when = when] IN
    /\ c.at = "got"
    /\ IF Unchanged(now, c)
       THEN /\ row' = [row EXCEPT ![c.key] = next]
            /\ agreed' = [agreed EXCEPT ![c.key] =
                 Append(@, IF c.op = "updated" THEN Moved(now.when, c) ELSE now.when)]
            /\ Goes(t, [c EXCEPT !.at = "told", !.read = next])
       ELSE Goes(t, Idle) /\ UNCHANGED <<row, agreed>>
    /\ UNCHANGED <<audits, silent, deaths, homeVars>>

\* _audit, once the row is committed.
Tell(t) ==
    LET c == call[t] IN
    /\ c.at = "told"
    /\ audits' = [audits EXCEPT ![c.key] = Append(@, [kind |-> c.op, version |-> c.read.version])]
    /\ Goes(t, Idle)
    /\ UNCHANGED <<row, agreed, silent, deaths, homeVars>>

(******************************* The routines ******************************)
calendarVars == <<row, audits, agreed, silent, deaths>>

Current(id) == memories[id].status = "ACTIVE"
\* family_routine_payload: the member and the place of a routine must stand.
Readable(c) == c.who \in standing /\ (c.place = None \/ c.place \in standing)

\* A mutant: a version in force is taken as it is.
CheckedHead(id) == Current(id)

Checked(id) == Current(id) /\ Readable(memories[id])

\* A change of a routine begins by reading the version it names, which must be
\* in force and readable; it is disabled, retracted or replaced by new fields.
Read(t, op, id, who, place, enabled) ==
    LET m == memories[id]
        c == [Idle EXCEPT !.op = op, !.id = id, !.enabled = IF op = "edit" THEN enabled ELSE FALSE,
                          !.who = IF op = "edit" THEN who ELSE m.who,
                          !.place = IF op = "edit" THEN place ELSE m.place] IN
    /\ Starts(t, CASE ~Checked(id) -> Idle
                   [] op = "disable" /\ ~m.enabled -> Idle
                   [] op # "retract" /\ ~Readable(c) -> Idle
                   [] OTHER -> [c EXCEPT !.at = "read"])
    /\ UNCHANGED <<homeVars, calendarVars>>

\* A new routine names no earlier version.
Propose(t, who, place, enabled) ==
    LET c == [Idle EXCEPT !.at = "read", !.op = "create", !.who = who, !.place = place, !.enabled = enabled] IN
    /\ Starts(t, IF Readable(c) THEN c ELSE Idle)
    /\ UNCHANGED <<homeVars, calendarVars>>

InForce(c) == c.op = "create" \/ Current(c.id)

\* The memory service writes or retracts under the row's lock, and only while
\* the version it was given is in force.
Save(t) ==
    LET c == call[t]
        new == [who |-> c.who, place |-> c.place, enabled |-> c.enabled, status |-> "ACTIVE", of |-> c.id]
        old(status) == [memories EXCEPT ![c.id].status = status] IN
    /\ c.at = "read" /\ Len(memories) < MaxVersions
    /\ IF InForce(c)
       THEN /\ memories' = CASE c.op = "create" -> Append(memories, new)
                             [] c.op = "retract" -> old("RETRACTED")
                             [] OTHER -> Append(old("SUPERSEDED"), new)
            /\ Goes(t, [c EXCEPT !.at = "saved"])
       ELSE Goes(t, Idle) /\ UNCHANGED memories
    /\ UNCHANGED <<standing, named, crossed, misled, retired, calendarVars>>

\* The answer is the saved version's payload, or the failure to make one.
Show(t) ==
    LET c == call[t] IN
    /\ c.at = "saved" /\ Goes(t, Idle)
    /\ misled' = (misled \/ (~Readable(c) /\ c.since = retired))
    /\ UNCHANGED <<memories, standing, named, crossed, retired, calendarVars>>

\* add_member looks for the name among the members, and commissions one.
NewMember(t, name) ==
    LET c == [Idle EXCEPT !.at = "naming", !.op = "member", !.who = name] IN
    /\ Starts(t, IF \E i \in 1..Len(named) : named[i] = name THEN Idle ELSE c)
    /\ crossed' = (crossed \/ \E u \in Threads \ {t} : call[u].at = "naming")
    /\ UNCHANGED <<memories, standing, named, misled, retired, calendarVars>>
Commission(t) ==
    /\ call[t].at = "naming" /\ Goes(t, Idle)
    /\ named' = Append(named, call[t].who)
    /\ UNCHANGED <<memories, standing, crossed, misled, retired, calendarVars>>

\* A place or a member is retired; nobody looks at the routines.
Retire(x) ==
    /\ x \in standing /\ retired < 1 /\ retired' = retired + 1
    /\ standing' = standing \ {x}
    /\ UNCHANGED <<memories, named, crossed, misled, call, calls, calendarVars>>

Next ==
    \/ \E t \in Threads :
         \/ Write(t) \/ Tell(t) \/ Save(t) \/ Show(t) \/ Commission(t) \/ Die(t)
         \/ \E k \in Keys :
              \/ \E when \in Moments : Create(t, k, when)
              \/ \E expected \in 1..2 :
                   \/ Get(t, [Idle EXCEPT !.op = "cancelled", !.key = k, !.expected = expected])
                   \/ \E end \in 1..2 :
                        Get(t, [Idle EXCEPT !.op = "updated", !.key = k, !.expected = expected, !.end = end])
         \/ \E name \in Names : NewMember(t, name)
         \/ \E who \in People, place \in Places \cup {None}, enabled \in BOOLEAN :
              \/ Propose(t, who, place, enabled)
              \/ \E id \in 1..Len(memories) : Read(t, "edit", id, who, place, enabled)
         \/ \E id \in 1..Len(memories), op \in {"disable", "retract"} : Read(t, op, id, None, None, FALSE)
    \/ \E x \in People \cup Places : Retire(x)

Spec == Init /\ [][Next]_planVars

(******************************** Properties *******************************)
PlansTypeOK ==
    /\ \A k \in Keys : row[k].version \in 0..MaxCalls /\ Len(audits[k]) <= MaxCalls
    /\ \A id \in 1..Len(memories) : memories[id].of < id

\* An event of the calendar is what its accepted requests made of it, one on
\* the other: no request is lost under another's, and however they cross, an
\* event starts before it ends.
CalendarIsReplay ==
    \A k \in Keys : row[k] # Absent =>
        /\ row[k].version = Len(agreed[k])
        /\ row[k].when = agreed[k][row[k].version]
        /\ Proper(row[k].when)

\* The journal tells of an event's creation and of each update once, tells of
\* nothing that was not done, and lacks only what a thread is still to tell or
\* died with.
AuditsAreTrue ==
    \A k \in Keys :
        LET told(v) == {i \in 1..Len(audits[k]) : audits[k][i].version = v} IN
        /\ \A i \in 1..Len(audits[k]) : LET a == audits[k][i] IN
             /\ a.version \in 1..row[k].version
             /\ a.kind = "created" <=> a.version = 1
             /\ a.kind = "cancelled" <=> (a.version = row[k].version /\ ~row[k].active)
             /\ a.kind # "cancelled" => Cardinality(told(a.version)) = 1
        /\ \A v \in 1..row[k].version :
             \/ told(v) # {} \/ <<k, v>> \in silent
             \/ \E t \in Threads : call[t].at = "told" /\ call[t].key = k /\ call[t].read.version = v

\* A routine has at most one version in force, and a version at most one that
\* replaced it; a change that its caller is told has failed has not been done,
\* unless somebody was retired meanwhile; members that were not added at once
\* have different names.
RoutinesAreSettled ==
    /\ \A i, j \in 1..Len(memories) : (i # j /\ memories[i].of = memories[j].of) => memories[i].of = 0
    /\ \A i \in 1..Len(memories) : memories[i].of # 0 => memories[memories[i].of].status = "SUPERSEDED"
    /\ ~misled
    /\ ~crossed => \A i, j \in 1..Len(named) : i # j => named[i] # named[j]
=============================================================================
