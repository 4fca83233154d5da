--------------------------- MODULE HouseholdGraph ----------------------------
(* The map of the home (src/anima_ha/graph.py): rooms and zones under their    *)
(* household, and the devices installed in them.  Every operation is one       *)
(* transaction at PostgreSQL's default isolation: it reads and checks, then    *)
(* writes by the identifiers it read, and locks nothing in between.  The       *)
(* owner's UI, and the tool calls of the intelligence, run in different        *)
(* threads.  Aliases and audit events follow these writes and are left out.    *)
EXTENDS Naturals

CONSTANTS Household,  \* the root
          Floors,     \* containers of the commissioning document, never moved here
          Spaces,     \* the rooms and zones that can exist
          Standing,   \* the ones of the commissioning document
          Names, FirstName,
          Devices, Clients,
          MaxWrites,  \* transactions that commit
          None

VARIABLES
    name,       \* place -> its name, None before its row exists
    live,       \* nodes that are not retired
    contains,   \* active CONTAINS rows, <<parent, child>>
    installed,  \* active INSTALLED_IN rows, <<device, place>>
    rows,       \* primary keys of the INSTALLED_IN rows a commissioning made
    job,        \* client -> its transaction
    excused,    \* history: what has gone beyond one operation at a time
    writes      \* transactions committed

mapVars == <<name, live, contains, installed, rows, job, excused, writes>>

Places == {Household} \cup Floors \cup Spaces
MapAssumption ==
    /\ Household \notin Floors \cup Spaces /\ Floors \cap Spaces = {} /\ Standing \subseteq Spaces
    /\ None \notin Places /\ Devices \cap Places = {} /\ "overtaken" \notin Devices
    /\ FirstName \in Names /\ None \notin Names
    /\ None \notin {"create", "rename", "move", "retire", "commission", "reassign", "remove"}
Free == [op |-> None, node |-> None, to |-> None, name |-> None, from |-> None, overtaken |-> FALSE]
\* The commissioned home: standing spaces under the household, names apart.
Init ==
    /\ name \in [Places -> Names \cup {None}]
    /\ \A p \in Places : name[p] = None <=> p \in Spaces \ Standing
    /\ \A p \in Floors : name[p] = FirstName
    /\ name[Household] = FirstName
    /\ \A p, q \in Standing : p # q => name[p] # name[q]
    /\ live = Places \ (Spaces \ Standing)
    /\ contains = {<<Household, p>> : p \in Floors \cup Standing}
    /\ installed = {} /\ rows = {}
    /\ job = [c \in Clients |-> Free]
    /\ excused = {}
    /\ writes = 0

\* The query of the descendants, through active rows, whatever the nodes are: the
\* least set with the place in it that every row leads from into itself.
Closed(S, edges) == \A e \in edges : e[1] \in S => e[2] \in S
Under(p, edges) ==
    LET closed == {S \in SUBSET Places : p \in S /\ Closed(S, edges)} IN
    {q \in Places : \A S \in closed : q \in S}
Descendants(p) == Under(p, contains)
Home == live \cap Descendants(Household)
Siblings(parent) == {p \in live : <<parent, p>> \in contains}
NameTaken(parent, new, self) == \E p \in Siblings(parent) \ {self} : name[p] = new

(****************************** The readings *******************************)
\* A mutant: only the place itself is refused, not what lies under it.
ItselfOnly(place, parent) == parent = place

\* move_place: the destination must not be the place or a descendant of it.
Inside(place, parent) == parent \in Descendants(place)

\* The bound of the instance.
Begins(c) == job[c] = Free /\ writes < MaxWrites
Plan(c, j) ==
    /\ job' = [job EXCEPT ![c] = j]
    /\ UNCHANGED <<name, live, contains, installed, rows, excused, writes>>

PlanCreate(c) == Begins(c) /\ \E p \in Spaces, parent \in Home, n \in Names :
    /\ name[p] = None /\ ~NameTaken(parent, n, None)
    /\ Plan(c, [Free EXCEPT !.op = "create", !.node = p, !.to = parent, !.name = n])

\* A space of the household and the parent row it was found with.
OwnSpaces == LET home == Spaces \cap Home IN {e \in contains : e[2] \in home}

PlanRename(c) == Begins(c) /\ \E e \in OwnSpaces, n \in Names :
    /\ ~NameTaken(e[1], n, e[2]) /\ n # name[e[2]]
    /\ Plan(c, [Free EXCEPT !.op = "rename", !.node = e[2], !.name = n])

PlanMove(c) == Begins(c) /\ \E e \in OwnSpaces, parent \in Home :
    /\ ~Inside(e[2], parent) /\ parent # e[1] /\ ~NameTaken(parent, name[e[2]], e[2])
    /\ Plan(c, [Free EXCEPT !.op = "move", !.node = e[2], !.to = parent, !.from = e[1]])

PlanRetire(c) == Begins(c) /\ \E e \in OwnSpaces :
    /\ \A r \in contains \ {e} : e[2] \notin {r[1], r[2]}
    /\ \A r \in installed : r[2] # e[2]
    /\ Plan(c, [Free EXCEPT !.op = "retire", !.node = e[2], !.from = e[1]])

\* commission_device reads the place and writes the whole document later.
PlanCommission(c) == Begins(c) /\ \E d \in Devices, p \in Home \ {Household} :
    Plan(c, [Free EXCEPT !.op = "commission", !.node = d, !.to = p, !.name = name[p]])

PlanReassign(c) == Begins(c) /\ \E e \in installed, p \in Spaces \cap Home :
    /\ e[1] \in live /\ e[2] # p
    /\ \A r \in installed : r[1] = e[1] => r = e
    /\ Plan(c, [Free EXCEPT !.op = "reassign", !.node = e[1], !.to = p, !.from = e[2]])

PlanRemove(c) == Begins(c) /\ \E d \in Devices \cap live :
    Plan(c, [Free EXCEPT !.op = "remove", !.node = d])

(******************************* The writes ********************************)
\* Whoever is between its reading and its writing has been overtaken.
Commit(c) ==
    /\ writes' = writes + 1
    /\ job' = [d \in Clients |->
                  IF d = c \/ job[d] = Free THEN Free ELSE [job[d] EXCEPT !.overtaken = TRUE]]
Excuse(c, also) == excused' = excused \cup also \cup IF job[c].overtaken THEN {"overtaken"} ELSE {}

Create(c) ==
    LET j == job[c] IN
    /\ j.op = "create" /\ name[j.node] = None
    /\ name' = [name EXCEPT ![j.node] = j.name]
    /\ live' = live \cup {j.node}
    /\ contains' = contains \cup {<<j.to, j.node>>}
    /\ Excuse(c, {}) /\ Commit(c)
    /\ UNCHANGED <<installed, rows>>

Rename(c) ==
    /\ job[c].op = "rename"
    /\ name' = [name EXCEPT ![job[c].node] = job[c].name]
    /\ Excuse(c, {}) /\ Commit(c)
    /\ UNCHANGED <<live, contains, installed, rows>>

\* The row that was read is retired, and a new one is inserted unless an equal
\* one is active: that violates the unique index, and nothing is written.
Move(c) ==
    LET j == job[c] left == contains \ {<<j.from, j.node>>} IN
    /\ j.op = "move" /\ <<j.to, j.node>> \notin left
    /\ contains' = left \cup {<<j.to, j.node>>}
    /\ Excuse(c, {}) /\ Commit(c)
    /\ UNCHANGED <<name, live, installed, rows>>

Retire(c) ==
    LET j == job[c] IN
    /\ j.op = "retire"
    /\ contains' = contains \ {<<j.from, j.node>>}
    /\ live' = live \ {j.node}
    /\ Excuse(c, {}) /\ Commit(c)
    /\ UNCHANGED <<name, installed, rows>>

\* The identifiers of a commissioning are derived from the device and the place:
\* an active row is left alone, a retired one with the same key is a violation.
\* The nodes of the document are upserted, the place with the name that was read.
Commission(c) ==
    LET j == job[c] edge == <<j.node, j.to>> IN
    /\ j.op = "commission"
    /\ edge \in installed \/ edge \notin rows
    /\ j.node \notin live => \A e \in rows : e[1] # j.node
    /\ installed' = installed \cup {edge}
    /\ rows' = IF edge \in installed THEN rows ELSE rows \cup {edge}
    /\ live' = live \cup {j.node}
    /\ name' = [name EXCEPT ![j.to] = j.name]
    /\ Excuse(c, IF j.node \in live THEN {j.node} ELSE {}) /\ Commit(c)
    /\ UNCHANGED contains

Reassign(c) ==
    LET j == job[c] left == installed \ {<<j.node, j.from>>} IN
    /\ j.op = "reassign" /\ <<j.node, j.to>> \notin left
    /\ installed' = left \cup {<<j.node, j.to>>}
    /\ Excuse(c, {}) /\ Commit(c)
    /\ UNCHANGED <<name, live, contains, rows>>

Remove(c) ==
    LET d == job[c].node IN
    /\ job[c].op = "remove"
    /\ live' = live \ {d}
    /\ installed' = {e \in installed : e[1] # d}
    /\ Excuse(c, {}) /\ Commit(c)
    /\ UNCHANGED <<name, contains, rows>>

\* A violated constraint or a lost connection: the transaction is rolled back.
RollBack(c) ==
    /\ job[c] # Free
    /\ job' = [job EXCEPT ![c] = Free]
    /\ UNCHANGED <<name, live, contains, installed, rows, excused, writes>>

Next == \E c \in Clients :
    \/ PlanCreate(c) \/ PlanRename(c) \/ PlanMove(c) \/ PlanRetire(c)
    \/ PlanCommission(c) \/ PlanReassign(c) \/ PlanRemove(c)
    \/ Create(c) \/ Rename(c) \/ Move(c) \/ Retire(c)
    \/ Commission(c) \/ Reassign(c) \/ Remove(c) \/ RollBack(c)

Spec == Init /\ [][Next]_mapVars

MapTypeOK ==
    /\ name \in [Places -> Names \cup {None}]
    /\ live \subseteq Places \cup Devices
    /\ contains \subseteq Places \X Places
    /\ installed \subseteq Devices \X Places /\ rows \subseteq Devices \X Places

Parents(p) == {q \in Places : <<q, p>> \in contains}

\* The spaces of a home are one tree: each lies under exactly one standing parent
\* and is reached from the household, whatever is moved where.
HomeIsOneTree ==
    /\ live \cap Places \subseteq Home
    /\ \A p \in live \cap (Floors \cup Spaces) : \E q \in live : Parents(p) = {q}

\* No space comes to lie inside itself, as move_place's docstring says.
NoSpaceIsInsideItself ==
    \A p \in Spaces : \A q \in Places : <<p, q>> \in contains => p \notin Descendants(q)

\* Whatever overlaps, what stands stays attached: the household is never retired, a
\* standing space keeps a row above it, a standing device a row that places it.
NothingIsUprooted ==
    /\ Household \in live
    /\ \A p \in live \cap (Floors \cup Spaces) : Parents(p) # {}
    /\ \A d \in live \cap Devices : \E p \in Places : <<d, p>> \in installed

\* Until a transaction writes on what another had overtaken, the spaces of the home
\* are one tree as well, no two siblings have a name, and every device is installed
\* in a standing space, in one only if it was commissioned once.
HomeIsWhole ==
    /\ NothingIsUprooted
    /\ "overtaken" \notin excused =>
        /\ HomeIsOneTree
        /\ \A p, q \in live \cap Spaces :
              name[p] = name[q] /\ Parents(p) = Parents(q) => p = q
        /\ \A d \in live \cap Devices :
              LET at == {p \in Places : <<d, p>> \in installed} IN
              /\ at \subseteq live
              /\ d \notin excused => \E p \in at : at = {p}
=============================================================================
