---------------------------- MODULE ContextWindow ----------------------------
(* What a trigger's request may know (context.py, and the hand-off of           *)
(* intelligence.py): sections read one after another, each on a connection of   *)
(* its own while the house goes on changing; cut by count, pruned to the bytes  *)
(* of a packet, stored once per trigger and named by the request.               *)
EXTENDS Naturals, FiniteSets, SequencesExt

CONSTANTS Threads, Nodes, Name, Direct, Payload, Near, Memories, About, Earlier, Later,
          Limit, Bytes, MaxChanges, MaxFaults

VARIABLES
    standing, bound, live,  \* nodes in the graph, nodes with a truth binding,
                            \* memories that may be used
    journal,                \* the events near the trigger, and those after it
    changes, faults,        \* bounds: what changed, what failed
    stored, trigger,        \* the trigger's packet, if it has one, and its status
    request,                \* the packet whose digest the request carries, if it is there
    run, seen               \* the hand-offs, and what was there since each began

houseVars == <<standing, bound, live, journal, changes>>
keptVars == <<stored, trigger, request>>
contextVars == <<houseVars, keptVars, faults, run, seen>>

Sections == {"source", "graph", "truth", "recent", "memories", "tools"}
\* An item of the trigger's event, of a node, of a memory, or a tool.
ItemSize == 2
OmissionSize == 1

Away == [at |-> "idle", loaded |-> {}, rows |-> {}, ready |-> TRUE, kept |-> [s \in Sections |-> <<>>],
         read |-> [s \in Sections |-> {}], counted |-> [s \in Sections |-> {}],
         sized |-> [s \in Sections |-> {}]]

Init ==
    /\ standing = Nodes /\ bound = Nodes /\ live = Memories /\ journal = Earlier
    /\ changes = 0 /\ faults = 0
    /\ stored = {} /\ trigger = "PENDING" /\ request = {}
    /\ run = [t \in Threads |-> Away] /\ seen = [t \in Threads |-> {}]

Of(kind, S) == {kind} \X S
Present == Of("node", standing) \cup Of("truth", bound) \cup Of("memory", live)
Witnessed == seen' = [t \in Threads |-> IF run[t].at = "idle" THEN {} ELSE seen[t] \cup Present']

\* The graph, the bindings, the memories and the journal change at any time.
House ==
    /\ changes < MaxChanges /\ changes' = changes + 1
    /\ \/ \E n \in standing : standing' = standing \ {n} /\ UNCHANGED <<bound, live, journal>>
       \/ \E n \in bound : bound' = bound \ {n} /\ UNCHANGED <<standing, live, journal>>
       \/ \E m \in live : live' = live \ {m} /\ UNCHANGED <<standing, bound, journal>>
       \/ \E e \in Later \ journal : journal' = journal \cup {e} /\ UNCHANGED <<standing, bound, live>>
    /\ UNCHANGED <<keptVars, faults, run>>
    /\ Witnessed

(******************************** The sections *******************************)
Prefix(s, n) == SubSeq(s, 1, IF Len(s) < n THEN Len(s) ELSE n)

\* A mutant: what the section cannot hold is not named.
CutSilently(r, s, sorted) ==
    [r EXCEPT !.kept[s] = Prefix(sorted, Limit), !.read[s] = ToSet(sorted)]

\* A section keeps its best items, as many as its budget, and names the others.
Section(r, s, sorted) ==
    LET kept == Prefix(sorted, Limit) IN
    [r EXCEPT !.kept[s] = kept, !.read[s] = ToSet(sorted),
              !.counted[s] = ToSet(sorted) \ ToSet(kept)]

ById(x, y) == x < y
ByName(x, y) == Name[x] < Name[y]
\* What the trigger is about comes first, in the query as in the section; but the
\* query orders the rest by name, the section by identifier.
ByRank(x, y) == IF (x \in Direct) # (y \in Direct) THEN x \in Direct ELSE ById(x, y)
Seeds(r) == Direct \cup (IF r.read["source"] # {} THEN Payload ELSE {})
ByQuery(r, x, y) == IF (x \in Seeds(r)) # (y \in Seeds(r)) THEN x \in Seeds(r) ELSE ByName(x, y)

Goes(t, r, at) == run' = [run EXCEPT ![t] = [r EXCEPT !.at = at]]
Reading(t, at) == run[t].at = at /\ UNCHANGED <<houseVars, keptVars, seen>>

\* A read that fails leaves its section without items.
Reads(t, at, next, done) ==
    /\ Reading(t, at)
    /\ \/ Goes(t, done, next) /\ UNCHANGED faults
       \/ /\ faults < MaxFaults /\ faults' = faults + 1
          /\ Goes(t, [run[t] EXCEPT !.ready = @ /\ at # "source"], next)

\* The trigger's own events; without them the context has failed.
Source(t) == Reads(t, "source", "graph", Section(run[t], "source", <<1>>))

\* A mutant: retired nodes are related too.
AnyNode == Nodes
Standing == standing

\* The nodes the trigger and its event name, and those next to them.
GraphRead(t) ==
    LET r == run[t]
        related == (Seeds(r) \cup UNION {Near[n] : n \in Seeds(r)}) \cap Standing
        rows == Prefix(SetToSortSeq(related, LAMBDA x, y : ByQuery(r, x, y)), 2 * Limit)
    IN [Section(r, "graph", SetToSortSeq(ToSet(rows), ByRank)) EXCEPT !.rows = ToSet(Prefix(rows, Limit))]
Graph(t) == Reads(t, "graph", "truth", GraphRead(t))

\* The truths of the rows the query put first, not of those the section shows.
TruthRead(t) ==
    LET keys == run[t].rows \cap bound
    IN Section(run[t], "truth", Prefix(SetToSortSeq(keys, ById), 2 * Limit))
Truth(t) == Reads(t, "truth", "recent", TruthRead(t))

\* A mutant: the newest events are read, whenever they came.
UpToNow == journal
\* No event beyond the trigger's last journal position.
UpToTrigger == journal \cap Earlier

RecentRead(t) ==
    LET about == {e \in UpToTrigger : About[e] \in run[t].rows}
        newest == Prefix(SetToSortSeq(about, LAMBDA x, y : ById(y, x)), 2 * Limit)
    IN Section(run[t], "recent", SetToSortSeq(ToSet(newest), ById))
Recent(t) == Reads(t, "recent", "memories", RecentRead(t))

\* Memories that stand, about the rows; the newest are those of higher number.
MemoryRead(t) ==
    LET about == {m \in live : About[m] \in run[t].rows}
    IN Section(run[t], "memories", Prefix(SetToSortSeq(about, LAMBDA x, y : ById(y, x)), 2 * Limit))
Memory(t) == Reads(t, "memories", "tools", MemoryRead(t))

\* The tools that apply to the rows, handed in by the caller.
Tools(t) ==
    /\ Reading(t, "tools") /\ UNCHANGED faults
    /\ Goes(t, Section(run[t], "tools", <<1, 2>>), "prune")

(********************************* The packet ********************************)
PruneOrder == <<"tools", "memories", "recent", "graph">>
Minimum(s) == IF s = "graph" THEN 1 ELSE 0

Size(r) ==
    LET Items(s) == ItemSize * Len(r.kept[s])
                    + OmissionSize * Cardinality(r.counted[s] \cup r.sized[s])
    IN FoldFunctionOnSet(+, 0, [s \in Sections |-> Items(s)], Sections)

Spare(r) == {i \in DOMAIN PruneOrder : Len(r.kept[PruneOrder[i]]) > Minimum(PruneOrder[i])}

\* A mutant: the section that can spare most is pruned from the end of the order.
LastSpare(r) == CHOOSE i \in Spare(r) : \A j \in Spare(r) : j <= i

\* The first section that can spare an item.
FirstSpare(r) == CHOOSE i \in Spare(r) : \A j \in Spare(r) : i <= j

Pruned(r) ==
    LET s == PruneOrder[FirstSpare(r)]  kept == r.kept[s] IN
    [r EXCEPT !.kept[s] = Front(kept), !.sized[s] = @ \cup {kept[Len(kept)]}]

\* The packet is pruned until it fits; one that cannot fit is refused.
Prune(t) ==
    LET r == run[t] IN
    /\ Reading(t, "prune") /\ UNCHANGED faults
    /\ IF Size(r) <= Bytes THEN Goes(t, r, "persist")
       ELSE IF Spare(r) # {} THEN Goes(t, Pruned(r), "prune") ELSE Goes(t, Away, "idle")

Packet(r) == [kept |-> r.kept, read |-> r.read, omitted |-> [s \in Sections |->
                  r.counted[s] \cup r.sized[s]], ready |-> r.ready]

\* A mutant: the last packet is kept.
Overwritten(packet) == {packet}

\* ON CONFLICT (trigger_id) DO NOTHING.
Kept(packet) == IF stored = {} THEN {packet} ELSE stored

\* The packet goes in if there is none; the status is that of the newest.
Persist(t) ==
    LET r == run[t] IN
    /\ r.at = "persist"
    /\ stored' = Kept(Packet(r))
    /\ trigger' = IF r.ready THEN "CONTEXT_READY" ELSE "FAILED_CONTEXT"
    /\ Goes(t, r, "enqueue")
    /\ UNCHANGED <<houseVars, faults, request, seen>>

(******************************** The hand-off *******************************)
\* A trigger whose context failed is passed over; a packet that is there is used.
Begin(t) ==
    /\ run[t].at = "idle" /\ request = {} /\ trigger \in {"PENDING", "CONTEXT_READY"}
    /\ Goes(t, [Away EXCEPT !.loaded = stored], IF stored = {} THEN "source" ELSE "enqueue")
    /\ seen' = [seen EXCEPT ![t] = Present]
    /\ UNCHANGED <<houseVars, keptVars, faults>>

\* One request per trigger.
Enqueue(t) ==
    /\ run[t].at = "enqueue"
    /\ request' = IF request # {} THEN request
                  ELSE IF run[t].loaded # {} THEN run[t].loaded ELSE {Packet(run[t])}
    /\ Goes(t, Away, "idle") /\ seen' = [seen EXCEPT ![t] = {}]
    /\ UNCHANGED <<houseVars, stored, trigger, faults>>

Die(t) ==
    /\ run[t].at # "idle" /\ faults < MaxFaults /\ faults' = faults + 1
    /\ Goes(t, Away, "idle") /\ seen' = [seen EXCEPT ![t] = {}]
    /\ UNCHANGED <<houseVars, keptVars>>

HandOff(t) ==
    \/ Begin(t) \/ Source(t) \/ Graph(t) \/ Truth(t) \/ Recent(t)
    \/ Memory(t) \/ Tools(t) \/ Prune(t) \/ Persist(t) \/ Enqueue(t) \/ Die(t)

Next == House \/ \E t \in Threads : HandOff(t)

Spec == Init /\ [][Next]_contextVars

(******************************** Properties *********************************)
ContextTypeOK ==
    /\ standing \subseteq Nodes /\ bound \subseteq Nodes /\ live \subseteq Memories
    /\ trigger \in {"PENDING", "CONTEXT_READY", "FAILED_CONTEXT"}
    /\ \A t \in Threads : run[t].rows \subseteq Nodes /\ run[t].ready \in BOOLEAN

\* What a packet leaves out it names: every item that was selected is shown or
\* listed as omitted, by count or by size (_section, _packet_with_size).
NothingVanishes ==
    \A packet \in stored, s \in Sections :
        packet.read[s] = ToSet(packet.kept[s]) \cup packet.omitted[s]

\* An item gives way for size only when all that is less important has: tools
\* first, then memories and recent events, then the graph, whose first node always stays, and
\* never the trigger's own event or a truth.
LeastFirst ==
    \A t \in Threads :
        LET r == run[t] IN
        /\ r.sized["source"] = {} /\ r.sized["truth"] = {}
        /\ r.sized["graph"] # {} => r.kept["graph"] # <<>>
        /\ \A i, j \in DOMAIN PruneOrder :
             i < j /\ r.sized[PruneOrder[j]] # {} => r.kept[PruneOrder[i]] = <<>>

\* What is shown was there at some time since the reading began, however the
\* house changed between the reads, and no event is shown that came after the
\* trigger.
NothingWithdrawnIsShown ==
    \A t \in Threads :
        LET r == run[t] IN
        /\ ToSet(r.kept["recent"]) \subseteq Earlier
        /\ Of("node", ToSet(r.kept["graph"])) \subseteq seen[t]
        /\ Of("truth", ToSet(r.kept["truth"])) \subseteq seen[t]
        /\ Of("memory", ToSet(r.kept["memories"])) \subseteq seen[t]

\* A packet is never replaced, so that what a request was decided on can be read
\* again after any retry, and a request comes only after its packet.
PacketStays == (stored # {} => stored' = stored) /\ (request' # {} => stored # {})
PacketIsKept == [][PacketStays]_contextVars
=============================================================================
