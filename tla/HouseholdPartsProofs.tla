------------------------ MODULE HouseholdPartsProofs ------------------------
(* What each component of HouseholdParts keeps to itself: an inductive        *)
(* invariant, that it begins with it, that its steps keep it and what it says. *)
EXTENDS HouseholdParts, Sequences, TLAPS, WellFoundedInduction, SequenceTheorems

LEMMA MapNames ==
    /\ None \notin Map!Places
    /\ Household \notin Floors \cup Spaces /\ Floors \cap Spaces = {} /\ FirstSpaces \subseteq Spaces
    /\ Devices \cap Map!Places = {} /\ "overtaken" \notin Devices
    /\ FirstName \in SpaceNames /\ None \notin SpaceNames
    /\ None \notin {"create", "rename", "move", "retire", "commission", "reassign", "remove"}
BY HouseholdAssumption DEF Map!MapAssumption

-----------------------------------------------------------------------------
(* What lies under a place.                                                 *)

LEMMA UnderIsLeast ==
    ASSUME NEW R, NEW p, NEW S \in SUBSET Map!Places, p \in S, Map!Closed(S, R)
    PROVE  Map!Under(p, R) \subseteq S
BY DEF Map!Under

LEMMA UnderHasRoot ==
    ASSUME NEW R, NEW p \in Map!Places
    PROVE  p \in Map!Under(p, R)
BY DEF Map!Under

LEMMA UnderIsClosed ==
    ASSUME NEW R \in SUBSET (Map!Places \X Map!Places), NEW p
    PROVE  Map!Closed(Map!Under(p, R), R)
<1> SUFFICES ASSUME NEW e \in R, e[1] \in Map!Under(p, R) PROVE e[2] \in Map!Under(p, R)
  BY DEF Map!Closed
<1>1. e[2] \in Map!Places
  OBVIOUS
<1>2. ASSUME NEW S \in SUBSET Map!Places, p \in S, Map!Closed(S, R) PROVE e[2] \in S
  <2>1. e[1] \in S
    BY <1>2 DEF Map!Under
  <2> QED
    BY <1>2, <2>1 DEF Map!Closed
<1> QED
  BY <1>1, <1>2 DEF Map!Under

\* Whatever lies under a place, but the place itself, has a row from there.
LEMMA UnderHasParents ==
    ASSUME NEW R \in SUBSET (Map!Places \X Map!Places), NEW p \in Map!Places,
           NEW q \in Map!Under(p, R), q # p
    PROVE  \E u \in Map!Under(p, R) : <<u, q>> \in R
<1> DEFINE D == Map!Under(p, R)
<1> SUFFICES ASSUME \A u \in D : <<u, q>> \notin R PROVE FALSE
  OBVIOUS
<1>1. D \ {q} \in SUBSET Map!Places /\ p \in D \ {q}
  BY UnderHasRoot DEF Map!Under
<1>2. Map!Closed(D \ {q}, R)
  <2> SUFFICES ASSUME NEW e \in R, e[1] \in D \ {q} PROVE e[2] \in D \ {q}
    BY DEF Map!Closed
  <2>1. e[2] \in D
    BY UnderIsClosed DEF Map!Closed
  <2>2. e = <<e[1], e[2]>>
    OBVIOUS
  <2>3. e[2] # q
    BY <2>2
  <2> QED
    BY <2>1, <2>3
<1>3. D \subseteq D \ {q}
  <2> HIDE DEF D
  <2>1. Map!Under(p, R) \subseteq D \ {q}
    BY <1>1, <1>2, UnderIsLeast
  <2> QED
    BY <2>1 DEF D
<1> QED
  BY <1>3

-----------------------------------------------------------------------------
(* The map of the home.                                                     *)

Ops == {"create", "rename", "move", "retire", "commission", "reassign", "remove"}

Job == [op : Ops \cup {None}, node : Map!Places \cup Devices \cup {None},
        to : Map!Places \cup {None}, name : SpaceNames \cup {None},
        from : Map!Places \cup {None}, overtaken : BOOLEAN]

Formed(j) ==
    /\ j.op \in {"create", "rename", "move", "retire"} => j.node \in Spaces
    /\ j.op \in {"create", "move", "commission", "reassign"} => j.to \in Map!Places
    /\ j.op \in {"create", "rename"} => j.name \in SpaceNames
    /\ j.op \in {"commission", "reassign", "remove"} => j.node \in Devices

MapShape ==
    /\ name \in [Map!Places -> SpaceNames \cup {None}]
    /\ live \subseteq Map!Places \cup Devices
    /\ contains \subseteq Map!Places \X Map!Places
    /\ installed \subseteq Devices \X Map!Places /\ rows \subseteq Devices \X Map!Places
    /\ job \in [Clients -> Job] /\ \A c \in Clients : Formed(job[c])

\* What a client read still holds, until another transaction commits.
Sound(j) ==
    /\ j.op = "create" =>
         /\ j.to \in Map!Home
         /\ name[j.node] = None /\ ~Map!NameTaken(j.to, j.name, None)
    /\ j.op = "rename" =>
         /\ \E u \in Map!Places : /\ <<u, j.node>> \in contains
                                 /\ ~Map!NameTaken(u, j.name, j.node)
    /\ j.op = "move" =>
         /\ <<j.from, j.node>> \in contains
         /\ j.to \in Map!Home /\ ~Map!Inside(j.node, j.to)
         /\ ~Map!NameTaken(j.to, name[j.node], j.node)
    /\ j.op = "retire" =>
         /\ <<j.from, j.node>> \in contains
         /\ \A r \in contains \ {<<j.from, j.node>>} : j.node \notin {r[1], r[2]}
         /\ \A r \in installed : r[2] # j.node
    /\ j.op = "commission" =>
         /\ j.to \in Map!Home /\ j.name = name[j.to]
    /\ j.op = "reassign" =>
         /\ j.node \in live /\ <<j.node, j.from>> \in installed
         /\ j.to \in Map!Home
         /\ \A r \in installed : r[1] = j.node => r = <<j.node, j.from>>
    /\ j.op = "remove" => j.node \in live

PlansAreSound == \A c \in Clients : ~job[c].overtaken => Sound(job[c])

\* One tree of standing places, each under one, siblings by different names.
Tree ==
    /\ Household \in live
    /\ contains \subseteq (live \cap Map!Places) \X (live \cap (Floors \cup Spaces))
    /\ \A p \in live \cap (Floors \cup Spaces) : \E u \in Map!Places : <<u, p>> \in contains
    /\ \A u, v, p \in Map!Places : <<u, p>> \in contains /\ <<v, p>> \in contains => u = v
    /\ live \cap Map!Places \subseteq Map!Under(Household, contains)
    /\ \A p \in Map!Places : name[p] = None => p \notin live
    /\ \A u \in Map!Places, p, q \in Spaces :
         <<u, p>> \in contains /\ <<u, q>> \in contains /\ name[p] = name[q] => p = q

Placed ==
    /\ installed \subseteq live \X live
    /\ \A d \in live \cap Devices : \E p \in Map!Places : <<d, p>> \in installed
    /\ \A d \in Devices \ mapExcused, p, q \in Map!Places :
         <<d, p>> \in installed /\ <<d, q>> \in installed => p = q

\* Whatever overlaps, nothing that stands loses its last row.
Attached ==
    /\ Household \in live
    /\ \A p \in live \cap (Floors \cup Spaces) : \E u \in Map!Places : <<u, p>> \in contains
    /\ \A d \in live \cap Devices : \E p \in Map!Places : <<d, p>> \in installed

MapInv ==
    /\ MapShape
    /\ PlansAreSound
    /\ Attached
    /\ "overtaken" \notin mapExcused => Tree /\ Placed

LEMMA FreeIsSound == Map!Free \in Job /\ Formed(Map!Free) /\ Sound(Map!Free) /\ Sound(Map!Free)'
<1>1. None \notin Ops
  BY MapNames DEF Ops
<1> QED
  BY <1>1 DEF Map!Free, Job, Formed, Sound, Ops

LEMMA MapStart == Map!Init => MapInv
<1> SUFFICES ASSUME Map!Init PROVE MapInv
  OBVIOUS
<1> USE DEF Map!Init
<1>1. MapShape
  <2>1. Household \in Map!Places /\ Floors \cup FirstSpaces \subseteq Map!Places
    BY MapNames DEF Map!Places
  <2> QED
    BY <2>1, FreeIsSound DEF MapShape
<1>2. PlansAreSound
  BY FreeIsSound DEF PlansAreSound
<1>3. Tree
  <2>1. Household \in live
    BY MapNames DEF Map!Places
  <2>2. Floors \cup FirstSpaces = live \cap (Floors \cup Spaces)
    BY MapNames DEF Map!Places
  <2>3. contains \subseteq (live \cap Map!Places) \X (live \cap (Floors \cup Spaces))
    BY <2>1, <2>2 DEF Map!Places
  <2>4. \A p \in live \cap (Floors \cup Spaces) : \E u \in Map!Places : <<u, p>> \in contains
    BY <2>2 DEF Map!Places
  <2>5. \A u, v, p \in Map!Places : <<u, p>> \in contains /\ <<v, p>> \in contains => u = v
    OBVIOUS
  <2>6. live \cap Map!Places \subseteq Map!Under(Household, contains)
    <3> SUFFICES ASSUME NEW p \in live \cap Map!Places, NEW S \in SUBSET Map!Places,
                        Household \in S, Map!Closed(S, contains)
                 PROVE  p \in S
      BY DEF Map!Under
    <3>1. p = Household \/ p \in Floors \cup FirstSpaces
      BY <2>2 DEF Map!Places
    <3>2. ASSUME p \in Floors \cup FirstSpaces PROVE p \in S
      <4>1. <<Household, p>> \in contains
        BY <3>2
      <4> QED
        BY <4>1 DEF Map!Closed
    <3> QED
      BY <3>1, <3>2
  <2>7. \A p \in Map!Places : name[p] = None => p \notin live
    OBVIOUS
  <2>8. \A u \in Map!Places, p, q \in Spaces :
          <<u, p>> \in contains /\ <<u, q>> \in contains /\ name[p] = name[q] => p = q
    BY MapNames
  <2> QED
    BY <2>1, <2>3, <2>4, <2>5, <2>6, <2>7, <2>8 DEF Tree
<1>4. Placed
  BY MapNames DEF Placed, Map!Places
<1> QED
  BY <1>1, <1>2, <1>3, <1>4 DEF MapInv, Tree, Placed, Attached

-----------------------------------------------------------------------------
(* The readings.                                                            *)

LEMMA PlanKeeps ==
    ASSUME MapInv, NEW c \in Clients, NEW j \in Job, Formed(j), Sound(j), Map!Plan(c, j)
    PROVE  MapInv'
<1>1. job' = [job EXCEPT ![c] = j]
      /\ UNCHANGED <<name, live, contains, installed, rows, mapExcused>>
  BY DEF Map!Plan
<1>2. MapShape'
  BY <1>1 DEF MapInv, MapShape
<1>3. PlansAreSound'
  <2> SUFFICES ASSUME NEW d \in Clients, ~job'[d].overtaken PROVE Sound(job[d])'
    BY DEF PlansAreSound
  <2>1. Sound(job'[d])
    BY <1>1 DEF MapInv, MapShape, PlansAreSound
  <2> QED
    BY <1>1, <2>1 DEF Sound, Map!Home, Map!Descendants, Map!NameTaken, Map!Siblings, Map!Inside
<1>4. Tree' = Tree /\ Placed' = Placed /\ Attached' = Attached
  BY <1>1 DEF Tree, Placed, Attached
<1> QED
  BY <1>1, <1>2, <1>3, <1>4 DEF MapInv

LEMMA HomeIsLive == Map!Home \subseteq Map!Places \cap live
BY DEF Map!Home, Map!Descendants, Map!Under

LEMMA ReadingsKeep ==
    ASSUME MapInv, NEW c \in Clients,
           \/ Map!PlanCreate(c) \/ Map!PlanRename(c) \/ Map!PlanMove(c) \/ Map!PlanRetire(c)
           \/ Map!PlanCommission(c) \/ Map!PlanReassign(c) \/ Map!PlanRemove(c)
    PROVE  MapInv'
<1> USE HomeIsLive DEF MapInv, MapShape, Map!Free, Job, Ops
<1>0. None \notin Ops /\ Spaces \subseteq Map!Places
  BY MapNames DEF Map!Places
<1>1. CASE Map!PlanCreate(c)
  <2> PICK p \in Spaces, parent \in Map!Home, n \in SpaceNames :
        /\ name[p] = None /\ ~Map!NameTaken(parent, n, None)
        /\ Map!Plan(c, [Map!Free EXCEPT !.op = "create", !.node = p, !.to = parent, !.name = n])
    BY <1>1 DEF Map!PlanCreate
  <2> DEFINE j == [Map!Free EXCEPT !.op = "create", !.node = p, !.to = parent, !.name = n]
  <2>1. j \in Job
    BY <1>0
  <2>2. Formed(j) /\ Sound(j)
    BY <1>0 DEF Formed, Sound
  <2> QED
    BY <2>1, <2>2, PlanKeeps
<1>2. CASE Map!PlanRename(c)
  <2> PICK e \in Map!OwnSpaces, n \in SpaceNames :
        /\ ~Map!NameTaken(e[1], n, e[2])
        /\ Map!Plan(c, [Map!Free EXCEPT !.op = "rename", !.node = e[2], !.name = n])
    BY <1>2 DEF Map!PlanRename
  <2> DEFINE j == [Map!Free EXCEPT !.op = "rename", !.node = e[2], !.name = n]
  <2>0. e \in contains /\ e[2] \in Spaces /\ e[1] \in Map!Places /\ e = <<e[1], e[2]>>
    BY DEF Map!OwnSpaces
  <2>1. j \in Job
    BY <1>0, <2>0
  <2>2. Formed(j) /\ Sound(j)
    BY <1>0, <2>0 DEF Formed, Sound
  <2> QED
    BY <2>1, <2>2, PlanKeeps
<1>3. CASE Map!PlanMove(c)
  <2> PICK e \in Map!OwnSpaces, parent \in Map!Home :
        /\ ~Map!Inside(e[2], parent) /\ parent # e[1]
        /\ ~Map!NameTaken(parent, name[e[2]], e[2])
        /\ Map!Plan(c, [Map!Free EXCEPT !.op = "move", !.node = e[2], !.to = parent,
                                        !.from = e[1]])
    BY <1>3 DEF Map!PlanMove
  <2> DEFINE j == [Map!Free EXCEPT !.op = "move", !.node = e[2], !.to = parent, !.from = e[1]]
  <2>0. e \in contains /\ e[2] \in Spaces /\ e[1] \in Map!Places /\ e = <<e[1], e[2]>>
    BY DEF Map!OwnSpaces
  <2>1. j \in Job
    BY <1>0, <2>0
  <2>2. Formed(j) /\ Sound(j)
    BY <1>0, <2>0 DEF Formed, Sound
  <2> QED
    BY <2>1, <2>2, PlanKeeps
<1>4. CASE Map!PlanRetire(c)
  <2> PICK e \in Map!OwnSpaces :
        /\ \A r \in contains \ {e} : e[2] \notin {r[1], r[2]}
        /\ \A r \in installed : r[2] # e[2]
        /\ Map!Plan(c, [Map!Free EXCEPT !.op = "retire", !.node = e[2], !.from = e[1]])
    BY <1>4 DEF Map!PlanRetire
  <2> DEFINE j == [Map!Free EXCEPT !.op = "retire", !.node = e[2], !.from = e[1]]
  <2>0. e \in contains /\ e[2] \in Spaces /\ e[1] \in Map!Places /\ e = <<e[1], e[2]>>
    BY DEF Map!OwnSpaces
  <2>1. j \in Job
    BY <1>0, <2>0
  <2>2. Formed(j) /\ Sound(j)
    BY <1>0, <2>0 DEF Formed, Sound
  <2> QED
    BY <2>1, <2>2, PlanKeeps
<1>5. CASE Map!PlanCommission(c)
  <2> PICK d \in Devices, p \in Map!Home \ {Household} :
        Map!Plan(c, [Map!Free EXCEPT !.op = "commission", !.node = d, !.to = p, !.name = name[p]])
    BY <1>5 DEF Map!PlanCommission
  <2> DEFINE j == [Map!Free EXCEPT !.op = "commission", !.node = d, !.to = p, !.name = name[p]]
  <2>1. j \in Job
    BY <1>0
  <2>2. Formed(j) /\ Sound(j)
    BY <1>0 DEF Formed, Sound
  <2> QED
    BY <2>1, <2>2, PlanKeeps
<1>6. CASE Map!PlanReassign(c)
  <2> PICK e \in installed, p \in Spaces \cap Map!Home :
        /\ e[1] \in live /\ e[2] # p
        /\ \A r \in installed : r[1] = e[1] => r = e
        /\ Map!Plan(c, [Map!Free EXCEPT !.op = "reassign", !.node = e[1], !.to = p, !.from = e[2]])
    BY <1>6 DEF Map!PlanReassign
  <2> DEFINE j == [Map!Free EXCEPT !.op = "reassign", !.node = e[1], !.to = p, !.from = e[2]]
  <2>0. e[1] \in Devices /\ e[2] \in Map!Places /\ e = <<e[1], e[2]>>
    OBVIOUS
  <2>1. j \in Job
    BY <1>0, <2>0
  <2>2. Formed(j) /\ Sound(j)
    BY <1>0, <2>0 DEF Formed, Sound
  <2> QED
    BY <2>1, <2>2, PlanKeeps
<1>7. CASE Map!PlanRemove(c)
  <2> PICK d \in Devices \cap live :
        Map!Plan(c, [Map!Free EXCEPT !.op = "remove", !.node = d])
    BY <1>7 DEF Map!PlanRemove
  <2> DEFINE j == [Map!Free EXCEPT !.op = "remove", !.node = d]
  <2>1. j \in Job
    BY <1>0
  <2>2. Formed(j) /\ Sound(j)
    BY <1>0 DEF Formed, Sound
  <2> QED
    BY <2>1, <2>2, PlanKeeps
<1> QED
  BY <1>1, <1>2, <1>3, <1>4, <1>5, <1>6, <1>7

-----------------------------------------------------------------------------
(* The writes.                                                              *)

LEMMA CommitKeeps ==
    ASSUME MapShape, NEW c \in Clients, Map!Commit(c)
    PROVE  /\ job' \in [Clients -> Job] /\ \A d \in Clients : Formed(job'[d])
           /\ PlansAreSound'
<1>1. \A d \in Clients : job'[d] = IF d = c \/ job[d] = Map!Free THEN Map!Free
                                   ELSE [job[d] EXCEPT !.overtaken = TRUE]
  BY DEF Map!Commit
<1>2. \A d \in Clients : /\ [job[d] EXCEPT !.overtaken = TRUE] \in Job
                         /\ Formed([job[d] EXCEPT !.overtaken = TRUE])
                         /\ [job[d] EXCEPT !.overtaken = TRUE].overtaken
  BY DEF MapShape, Job, Formed
<1>3. job' \in [Clients -> Job] /\ \A d \in Clients : Formed(job'[d])
  BY <1>1, <1>2, FreeIsSound DEF Map!Commit
<1>4. PlansAreSound'
  <2> SUFFICES ASSUME NEW d \in Clients, ~job'[d].overtaken PROVE Sound(job[d])'
    BY DEF PlansAreSound
  <2>1. job'[d] = Map!Free
    BY <1>1, <1>2
  <2> QED
    BY <2>1, FreeIsSound DEF Sound
<1> QED
  BY <1>3, <1>4

LEMMA WriteKeeps ==
    ASSUME MapInv, NEW c \in Clients, Map!Commit(c), NEW also, Map!Excuse(c, also),
           MapShape', Attached', ~job[c].overtaken /\ Tree /\ Placed /\ Sound(job[c]) => Tree' /\ Placed'
    PROVE  MapInv'
<1>1. mapExcused \subseteq mapExcused'
      /\ (job[c].overtaken => "overtaken" \in mapExcused')
  BY DEF Map!Excuse
<1>2. PlansAreSound'
  BY CommitKeeps DEF MapInv
<1>3. "overtaken" \notin mapExcused' => Tree' /\ Placed'
  BY <1>1 DEF MapInv, PlansAreSound
<1> QED
  BY <1>2, <1>3 DEF MapInv

LEMMA CreateKeeps ==
    ASSUME MapInv, NEW c \in Clients, Map!Create(c)
    PROVE  MapInv'
<1> DEFINE j == job[c]  n == job[c].node  u == job[c].to
<1>1. /\ name[n] = None /\ j.op = "create"
      /\ name' = [name EXCEPT ![n] = j.name]
      /\ live' = live \cup {n} /\ contains' = contains \cup {<<u, n>>}
      /\ installed' = installed /\ rows' = rows
      /\ Map!Excuse(c, {}) /\ Map!Commit(c)
  BY DEF Map!Create
<1>2. j \in Job /\ n \in Spaces /\ n \in Map!Places /\ u \in Map!Places /\ j.name \in SpaceNames
  BY <1>1 DEF MapInv, MapShape, Formed, Map!Places
<1>3. MapShape'
  BY <1>1, <1>2, CommitKeeps DEF MapInv, MapShape
<1>5. Attached'
  <2>1. n \notin Devices
    BY <1>2, MapNames
  <2> QED
    BY <1>1, <1>2, <2>1 DEF MapInv, Attached
<1>4. ASSUME Tree, Placed, Sound(j) PROVE Tree' /\ Placed'
  <2>1. u \in live /\ ~Map!NameTaken(u, j.name, None) /\ n \notin live /\ n # Household
    BY <1>1, <1>2, <1>4, HomeIsLive, MapNames DEF Sound, Tree
  <2>2. \A v \in Map!Places : <<v, n>> \notin contains /\ <<n, v>> \notin contains
    BY <1>4, <2>1 DEF Tree
  <2>3. live' \cap Map!Places \subseteq Map!Under(Household, contains')
    <3> SUFFICES ASSUME NEW S \in SUBSET Map!Places, Household \in S, Map!Closed(S, contains')
                 PROVE  live' \cap Map!Places \subseteq S
      BY DEF Map!Under
    <3>1. Map!Closed(S, contains)
      BY <1>1 DEF Map!Closed
    <3>2. live \cap Map!Places \subseteq S
      BY <1>4, <3>1, UnderIsLeast DEF Tree
    <3>3. n \in S
      <4>1. u \in S /\ <<u, n>> \in contains'
        BY <1>1, <1>2, <2>1, <3>2
      <4> QED
        BY <4>1 DEF Map!Closed
    <3> QED
      BY <1>1, <3>2, <3>3
  <2>4. \A p \in Spaces : <<u, p>> \in contains => name[p] # j.name
    <3> SUFFICES ASSUME NEW p \in Spaces, <<u, p>> \in contains, name[p] = j.name PROVE FALSE
      OBVIOUS
    <3>1. p \in live /\ p # None
      BY <1>4, MapNames DEF Tree, Map!Places
    <3> QED
      BY <2>1, <3>1 DEF Map!NameTaken, Map!Siblings
  <2>5. Tree'
    <3>1. Household \in live' /\ n \in live' \cap (Floors \cup Spaces)
      BY <1>1, <1>2, <1>4 DEF Tree
    <3>2. contains' \subseteq (live' \cap Map!Places) \X (live' \cap (Floors \cup Spaces))
      BY <1>1, <1>2, <1>4, <2>1 DEF Tree
    <3>3. \A p \in live' \cap (Floors \cup Spaces) : \E v \in Map!Places : <<v, p>> \in contains'
      BY <1>1, <1>2, <1>4 DEF Tree
    <3>4. \A v, w, p \in Map!Places : <<v, p>> \in contains' /\ <<w, p>> \in contains' => v = w
      BY <1>1, <1>2, <1>4, <2>2 DEF Tree
    <3>5. \A p \in Map!Places : name'[p] = None => p \notin live'
      BY <1>1, <1>2, <1>4, MapNames DEF Tree, MapInv, MapShape
    <3>6. \A v \in Map!Places, p, q \in Spaces :
            <<v, p>> \in contains' /\ <<v, q>> \in contains' /\ name'[p] = name'[q] => p = q
      <4> SUFFICES ASSUME NEW v \in Map!Places, NEW p \in Spaces, NEW q \in Spaces,
                          <<v, p>> \in contains', <<v, q>> \in contains', name'[p] = name'[q]
                   PROVE  p = q
        OBVIOUS
      <4>1. name'[n] = j.name
            /\ \A r \in Spaces : r # n => name'[r] = name[r]
        BY <1>1, <1>2 DEF MapInv, MapShape, Map!Places
      <4>2. \A r \in Spaces : <<v, r>> \in contains' => <<v, r>> \in contains \/ (v = u /\ r = n)
        BY <1>1
      <4>3. CASE p # n /\ q # n
        BY <1>4, <4>1, <4>2, <4>3 DEF Tree
      <4>4. CASE p = n /\ q # n
        BY <2>2, <2>4, <4>1, <4>2, <4>4
      <4>5. CASE p # n /\ q = n
        BY <2>2, <2>4, <4>1, <4>2, <4>5
      <4> QED
        BY <4>3, <4>4, <4>5
    <3> QED
      BY <2>3, <3>1, <3>2, <3>3, <3>4, <3>5, <3>6 DEF Tree
  <2>6. Placed'
    <3>1. n \notin Devices
      BY <1>2, MapNames DEF Map!Places
    <3>2. mapExcused \subseteq mapExcused'
      BY <1>1 DEF Map!Excuse
    <3> QED
      BY <1>1, <1>4, <3>1, <3>2 DEF Placed
  <2> QED
    BY <2>5, <2>6
<1> QED
  BY <1>1, <1>3, <1>4, <1>5, WriteKeeps

LEMMA RenameKeeps ==
    ASSUME MapInv, NEW c \in Clients, Map!Rename(c)
    PROVE  MapInv'
<1> DEFINE j == job[c]  n == job[c].node
<1>1. /\ j.op = "rename" /\ name' = [name EXCEPT ![n] = j.name]
      /\ UNCHANGED <<live, contains, installed, rows>>
      /\ Map!Excuse(c, {}) /\ Map!Commit(c)
  BY DEF Map!Rename
<1>2. n \in Spaces /\ n \in Map!Places /\ j.name \in SpaceNames
  BY <1>1 DEF MapInv, MapShape, Formed, Map!Places
<1>3. MapShape'
  BY <1>1, <1>2, CommitKeeps DEF MapInv, MapShape
<1>5. Attached'
  BY <1>1 DEF MapInv, Attached
<1>4. ASSUME Tree, Placed, Sound(j) PROVE Tree' /\ Placed'
  <2>1. PICK u \in Map!Places : <<u, n>> \in contains /\ ~Map!NameTaken(u, j.name, n)
    BY <1>1, <1>4 DEF Sound
  <2>2. name'[n] = j.name /\ \A r \in Map!Places : r # n => name'[r] = name[r]
    BY <1>1, <1>2 DEF MapInv, MapShape
  <2>3. \A p \in Spaces : <<u, p>> \in contains /\ p # n => name[p] # j.name
    BY <1>4, <2>1 DEF Tree, Map!NameTaken, Map!Siblings
  <2>4. \A v \in Map!Places, p, q \in Spaces :
          <<v, p>> \in contains /\ <<v, q>> \in contains /\ name'[p] = name'[q] => p = q
    <3> SUFFICES ASSUME NEW v \in Map!Places, NEW p \in Spaces, NEW q \in Spaces,
                        <<v, p>> \in contains, <<v, q>> \in contains, name'[p] = name'[q]
                 PROVE  p = q
      OBVIOUS
    <3>1. p \in Map!Places /\ q \in Map!Places
      BY DEF Map!Places
    <3>2. CASE p # n /\ q # n
      BY <1>4, <2>2, <3>1, <3>2 DEF Tree
    <3>3. CASE p = n \/ q = n
      <4>1. v = u
        BY <1>4, <2>1, <3>1, <3>3 DEF Tree
      <4> QED
        BY <2>2, <2>3, <3>1, <3>3, <4>1
    <3> QED
      BY <3>2, <3>3
  <2>5. \A p \in Map!Places : name'[p] = None => p \notin live
    BY <1>2, <1>4, <2>2, MapNames DEF Tree
  <2>6. Tree'
    BY <1>1, <1>4, <2>4, <2>5 DEF Tree
  <2>7. Placed'
    BY <1>1, <1>4 DEF Placed, Map!Excuse
  <2> QED
    BY <2>6, <2>7
<1> QED
  BY <1>1, <1>3, <1>4, <1>5, WriteKeeps

\* A place that is moved takes what lies under it along, and nothing is cut off.
LEMMA MoveKeepsReach ==
    ASSUME MapInv, Tree, NEW n \in Spaces, NEW u, <<u, n>> \in contains,
           NEW t \in Map!Home, ~Map!Inside(n, t)
    PROVE  live \cap Map!Places
             \subseteq Map!Under(Household, (contains \ {<<u, n>>}) \cup {<<t, n>>})
<1> DEFINE R == (contains \ {<<u, n>>}) \cup {<<t, n>>}
           D == Map!Under(n, contains)
<1>1. /\ n \in Map!Places /\ u \in Map!Places /\ t \in live \cap Map!Places
      /\ contains \in SUBSET (Map!Places \X Map!Places)
  BY HomeIsLive DEF MapInv, MapShape, Map!Places
<1>2. /\ D \subseteq Map!Places /\ n \in D /\ t \notin D
      /\ Map!Closed(D, contains)
  <2>1. t \notin D
    BY DEF Map!Inside, Map!Descendants
  <2> QED
    BY <1>1, <2>1, UnderHasRoot, UnderIsClosed DEF Map!Under
<1>3. \A q \in D : q # n => \E v \in D : <<v, q>> \in contains
  BY <1>1, UnderHasParents
<1> HIDE DEF D
<1> SUFFICES ASSUME NEW S \in SUBSET Map!Places, Household \in S, Map!Closed(S, R)
             PROVE  live \cap Map!Places \subseteq S
  BY DEF Map!Under
<1>4. \A a, b : <<a, b>> \in contains /\ a \in S => b \in S \/ b = n
  BY DEF Map!Closed
<1>5. live \cap Map!Places \subseteq S \cup D
  <2>1. Map!Closed(S \cup D, contains)
    <3> SUFFICES ASSUME NEW e \in contains, e[1] \in S \cup D PROVE e[2] \in S \cup D
      BY DEF Map!Closed
    <3>1. e = <<e[1], e[2]>>
      BY <1>1
    <3>2. CASE e[1] \in D
      BY <1>2, <3>2 DEF Map!Closed
    <3>3. CASE e[1] \in S
      BY <1>2, <1>4, <3>1, <3>3
    <3> QED
      BY <3>2, <3>3
  <2>2. S \cup D \in SUBSET Map!Places /\ Household \in S \cup D
    BY <1>2
  <2>3. Map!Under(Household, contains) \subseteq S \cup D
    BY <2>1, <2>2, UnderIsLeast
  <2> QED
    BY <2>3 DEF Tree
<1>6. n \in S
  <2>1. t \in S /\ <<t, n>> \in R
    BY <1>1, <1>2, <1>5
  <2> QED
    BY <2>1 DEF Map!Closed
<1>7. D \subseteq S
  <2> DEFINE V == S \cup (Map!Places \ D)
  <2>1. V \in SUBSET Map!Places /\ n \in V
    BY <1>6
  <2>2. Map!Closed(V, contains)
    <3> SUFFICES ASSUME NEW e \in contains, e[1] \in V, e[2] \notin V PROVE FALSE
      BY DEF Map!Closed
    <3>1. e = <<e[1], e[2]>> /\ e[1] \in Map!Places /\ e[2] \in Map!Places
      BY <1>1
    <3>2. e[2] \in D /\ e[2] \notin S /\ e[2] # n
      BY <1>6, <3>1
    <3>3. PICK v \in D : <<v, e[2]>> \in contains
      BY <1>3, <3>2
    <3>4. v = e[1]
      BY <1>2, <3>1, <3>3 DEF Tree
    <3>5. e[1] \in S
      BY <3>3, <3>4
    <3> QED
      BY <1>4, <3>1, <3>2, <3>5
  <2>3. Map!Under(n, contains) \subseteq V
    <3> HIDE DEF V
    <3> QED
      BY <2>1, <2>2, UnderIsLeast
  <2> QED
    BY <2>3 DEF D
<1> QED
  BY <1>5, <1>7

LEMMA MoveKeeps ==
    ASSUME MapInv, NEW c \in Clients, Map!Move(c)
    PROVE  MapInv'
<1> DEFINE j == job[c]  n == job[c].node  u == job[c].from  t == job[c].to
<1>1. /\ j.op = "move" /\ contains' = (contains \ {<<u, n>>}) \cup {<<t, n>>}
      /\ UNCHANGED <<name, live, installed, rows>>
      /\ Map!Excuse(c, {}) /\ Map!Commit(c)
  BY DEF Map!Move
<1>2. n \in Spaces /\ n \in Map!Places /\ t \in Map!Places
  BY <1>1 DEF MapInv, MapShape, Formed, Map!Places
<1>3. MapShape'
  BY <1>1, <1>2, CommitKeeps DEF MapInv, MapShape
<1>5. Attached'
  <2>1. ASSUME NEW p \in live \cap (Floors \cup Spaces)
        PROVE  \E v \in Map!Places : <<v, p>> \in contains'
    <3>1. CASE p = n
      BY <1>1, <1>2, <3>1
    <3>2. CASE p # n
      <4>1. PICK v \in Map!Places : <<v, p>> \in contains
        BY DEF MapInv, Attached
      <4> QED
        BY <1>1, <3>2, <4>1
    <3> QED
      BY <3>1, <3>2
  <2> QED
    BY <1>1, <2>1 DEF MapInv, Attached
<1>4. ASSUME Tree, Placed, Sound(j) PROVE Tree' /\ Placed'
  <2>1. /\ <<u, n>> \in contains /\ t \in Map!Home /\ ~Map!Inside(n, t)
        /\ ~Map!NameTaken(t, name[n], n)
    BY <1>1, <1>4 DEF Sound
  <2>2. u \in Map!Places /\ n \in live /\ t \in live
    BY <1>4, <2>1, HomeIsLive DEF Tree
  <2>3. live \cap Map!Places \subseteq Map!Under(Household, contains')
    BY <1>1, <1>2, <1>4, <2>1, MoveKeepsReach
  <2>4. \A v \in Map!Places : <<v, n>> \in contains' <=> v = t
    <3>1. \A v \in Map!Places : <<v, n>> \in contains => v = u
      BY <1>2, <1>4, <2>1, <2>2 DEF Tree
    <3> QED
      BY <1>1, <1>2, <3>1
  <2>5. \A v \in Map!Places, p \in Map!Places :
          p # n => (<<v, p>> \in contains' <=> <<v, p>> \in contains)
    BY <1>1
  <2>6. \A v \in Map!Places, p, q \in Spaces :
          <<v, p>> \in contains' /\ <<v, q>> \in contains' /\ name'[p] = name'[q] => p = q
    <3> SUFFICES ASSUME NEW v \in Map!Places, NEW p \in Spaces, NEW q \in Spaces,
                        <<v, p>> \in contains', <<v, q>> \in contains', name[p] = name[q]
                 PROVE  p = q
      BY <1>1
    <3>1. p \in Map!Places /\ q \in Map!Places
      BY DEF Map!Places
    <3>2. \A r \in Spaces : <<t, r>> \in contains /\ r # n => name[r] # name[n]
      BY <1>4, <2>1 DEF Tree, Map!NameTaken, Map!Siblings
    <3>3. CASE p # n /\ q # n
      BY <1>4, <2>5, <3>1, <3>3 DEF Tree
    <3>4. CASE p = n \/ q = n
      <4>1. v = t
        BY <2>4, <3>4
      <4> QED
        BY <2>5, <3>1, <3>2, <3>4, <4>1
    <3> QED
      BY <3>3, <3>4
  <2>7. contains' \subseteq (live' \cap Map!Places) \X (live' \cap (Floors \cup Spaces))
    BY <1>1, <1>2, <1>4, <2>2 DEF Tree
  <2>8. \A p \in live' \cap (Floors \cup Spaces) : \E v \in Map!Places : <<v, p>> \in contains'
    <3> SUFFICES ASSUME NEW p \in live \cap (Floors \cup Spaces)
                 PROVE  \E v \in Map!Places : <<v, p>> \in contains'
      BY <1>1
    <3>1. p \in Map!Places
      BY DEF Map!Places
    <3> QED
      BY <1>2, <1>4, <2>4, <2>5, <3>1 DEF Tree
  <2>9. \A v, w, p \in Map!Places : <<v, p>> \in contains' /\ <<w, p>> \in contains' => v = w
    BY <1>4, <2>4, <2>5 DEF Tree
  <2>10. Tree'
    BY <1>1, <1>4, <2>3, <2>6, <2>7, <2>8, <2>9 DEF Tree
  <2>11. Placed'
    BY <1>1, <1>4 DEF Placed, Map!Excuse
  <2> QED
    BY <2>10, <2>11
<1> QED
  BY <1>1, <1>3, <1>4, <1>5, WriteKeeps

LEMMA RetireKeeps ==
    ASSUME MapInv, NEW c \in Clients, Map!Retire(c)
    PROVE  MapInv'
<1> DEFINE j == job[c]  n == job[c].node  u == job[c].from
<1>1. /\ j.op = "retire" /\ contains' = contains \ {<<u, n>>} /\ live' = live \ {n}
      /\ UNCHANGED <<name, installed, rows>>
      /\ Map!Excuse(c, {}) /\ Map!Commit(c)
  BY DEF Map!Retire
<1>2. n \in Spaces /\ n \in Map!Places /\ n \notin Devices /\ n # Household
  BY <1>1, MapNames DEF MapInv, MapShape, Formed, Map!Places
<1>3. MapShape'
  BY <1>1, <1>2, CommitKeeps DEF MapInv, MapShape
<1>5. Attached'
  <2>1. ASSUME NEW p \in live \cap (Floors \cup Spaces), p # n
        PROVE  \E v \in Map!Places : <<v, p>> \in contains'
    <3>1. PICK v \in Map!Places : <<v, p>> \in contains
      BY DEF MapInv, Attached
    <3> QED
      BY <1>1, <2>1, <3>1
  <2> QED
    BY <1>1, <1>2, <2>1 DEF MapInv, Attached
<1>4. ASSUME Tree, Placed, Sound(j) PROVE Tree' /\ Placed'
  <2>1. /\ \A r \in contains' : r[1] # n /\ r[2] # n
        /\ \A r \in installed : r[2] # n
    BY <1>1, <1>4 DEF Sound
  <2>2. live' \cap Map!Places \subseteq Map!Under(Household, contains')
    <3> SUFFICES ASSUME NEW S \in SUBSET Map!Places, Household \in S, Map!Closed(S, contains')
                 PROVE  live' \cap Map!Places \subseteq S
      BY DEF Map!Under
    <3>1. Map!Closed(S \cup {n}, contains)
      <4> SUFFICES ASSUME NEW e \in contains, e[1] \in S \cup {n} PROVE e[2] \in S \cup {n}
        BY DEF Map!Closed
      <4>1. CASE e \in contains'
        BY <2>1, <4>1 DEF Map!Closed
      <4>2. CASE e = <<u, n>>
        BY <4>2
      <4> QED
        BY <1>1, <4>1, <4>2
    <3>2. Map!Under(Household, contains) \subseteq S \cup {n}
      BY <1>2, <3>1, UnderIsLeast
    <3> QED
      BY <1>1, <1>4, <3>2 DEF Tree
  <2>3. contains' \subseteq (live' \cap Map!Places) \X (live' \cap (Floors \cup Spaces))
    <3> SUFFICES ASSUME NEW r \in contains'
                 PROVE  r \in (live' \cap Map!Places) \X (live' \cap (Floors \cup Spaces))
      OBVIOUS
    <3>1. r \in (live \cap Map!Places) \X (live \cap (Floors \cup Spaces))
      BY <1>1, <1>4 DEF Tree
    <3> QED
      BY <1>1, <2>1, <3>1
  <2>4. \A p \in live' \cap (Floors \cup Spaces) : \E v \in Map!Places : <<v, p>> \in contains'
    <3> SUFFICES ASSUME NEW p \in live \cap (Floors \cup Spaces), p # n
                 PROVE  \E v \in Map!Places : <<v, p>> \in contains'
      BY <1>1
    <3>1. PICK v \in Map!Places : <<v, p>> \in contains
      BY <1>4 DEF Tree
    <3> QED
      BY <1>1, <3>1
  <2>5. Tree'
    BY <1>1, <1>2, <1>4, <2>2, <2>3, <2>4 DEF Tree
  <2>6. Placed'
    <3>1. installed' \subseteq live' \X live'
      <4> SUFFICES ASSUME NEW r \in installed PROVE r \in live' \X live'
        BY <1>1
      <4>1. r \in live \X live /\ r[1] \in Devices /\ r[2] # n
        BY <1>4, <2>1 DEF Placed, MapInv, MapShape
      <4> QED
        BY <1>1, <1>2, <4>1
    <3> QED
      BY <1>1, <1>4, <3>1 DEF Placed, Map!Excuse
  <2> QED
    BY <2>5, <2>6
<1> QED
  BY <1>1, <1>3, <1>4, <1>5, WriteKeeps

\* What leaves the places and their rows alone keeps the tree.
LEMMA TreeStays ==
    ASSUME MapInv, Tree, UNCHANGED <<name, contains>>, live' \cap Map!Places = live \cap Map!Places
    PROVE  Tree'
<1>1. /\ Household \in Map!Places /\ Floors \cup Spaces \subseteq Map!Places
  BY DEF Map!Places
<1>2. /\ Household \in live' /\ live' \cap (Floors \cup Spaces) = live \cap (Floors \cup Spaces)
      /\ \A p \in Map!Places : p \in live' <=> p \in live
  BY <1>1 DEF Tree
<1> QED
  BY <1>2 DEF Tree

LEMMA CommissionKeeps ==
    ASSUME MapInv, NEW c \in Clients, Map!Commission(c)
    PROVE  MapInv'
<1> DEFINE j == job[c]  d == job[c].node  t == job[c].to
           also == IF d \in live THEN {d} ELSE {}
<1>1. /\ j.op = "commission" /\ installed' = installed \cup {<<d, t>>}
      /\ rows' \subseteq rows \cup {<<d, t>>}
      /\ live' = live \cup {d} /\ name' = [name EXCEPT ![t] = j.name]
      /\ contains' = contains
      /\ Map!Excuse(c, also) /\ Map!Commit(c)
  BY DEF Map!Commission
<1>2. j \in Job /\ d \in Devices /\ t \in Map!Places /\ d \notin Map!Places
  BY <1>1, MapNames DEF MapInv, MapShape, Formed
<1>3. MapShape'
  <2>1. name' \in [Map!Places -> SpaceNames \cup {None}]
    BY <1>1, <1>2 DEF MapInv, MapShape, Job
  <2> QED
    BY <1>1, <1>2, <2>1, CommitKeeps DEF MapInv, MapShape
<1>5. Attached'
  <2>1. d \notin Floors \cup Spaces
    BY <1>2 DEF Map!Places
  <2> QED
    BY <1>1, <1>2, <2>1 DEF MapInv, Attached
<1>4. ASSUME Tree, Placed, Sound(j) PROVE Tree' /\ Placed'
  <2>1. t \in live /\ name' = name
    BY <1>1, <1>2, <1>4, HomeIsLive DEF Sound, MapInv, MapShape
  <2>2. Tree'
    BY <1>1, <1>2, <1>4, <2>1, TreeStays
  <2>3. installed' \subseteq live' \X live'
    BY <1>1, <1>4, <2>1 DEF Placed
  <2>4. \A e \in live' \cap Devices : \E p \in Map!Places : <<e, p>> \in installed'
    BY <1>1, <1>2, <1>4 DEF Placed
  <2>5. \A e \in Devices \ mapExcused', p, q \in Map!Places :
          <<e, p>> \in installed' /\ <<e, q>> \in installed' => p = q
    <3> SUFFICES ASSUME NEW e \in Devices \ mapExcused', NEW p \in Map!Places, NEW q \in Map!Places,
                        <<e, p>> \in installed', <<e, q>> \in installed'
                 PROVE  p = q
      OBVIOUS
    <3>1. e \notin mapExcused /\ (e = d => d \notin live)
      BY <1>1 DEF Map!Excuse
    <3>2. CASE e # d
      BY <1>1, <1>4, <3>1, <3>2 DEF Placed
    <3>3. CASE e = d
      <4>1. \A r \in installed : r[1] # d
        BY <1>4, <3>1, <3>3 DEF Placed
      <4>2. p = t /\ q = t
        BY <1>1, <3>3, <4>1
      <4> QED
        BY <4>2
    <3> QED
      BY <3>2, <3>3
  <2>6. Placed'
    BY <2>3, <2>4, <2>5 DEF Placed
  <2> QED
    BY <2>2, <2>6
<1> QED
  BY <1>1, <1>3, <1>4, <1>5, WriteKeeps

LEMMA ReassignKeeps ==
    ASSUME MapInv, NEW c \in Clients, Map!Reassign(c)
    PROVE  MapInv'
<1> DEFINE j == job[c]  d == job[c].node  u == job[c].from  t == job[c].to
<1>1. /\ j.op = "reassign" /\ installed' = (installed \ {<<d, u>>}) \cup {<<d, t>>}
      /\ UNCHANGED <<name, live, contains, rows>>
      /\ Map!Excuse(c, {}) /\ Map!Commit(c)
  BY DEF Map!Reassign
<1>2. d \in Devices /\ t \in Map!Places
  BY <1>1 DEF MapInv, MapShape, Formed
<1>3. MapShape'
  BY <1>1, <1>2, CommitKeeps DEF MapInv, MapShape
<1>5. Attached'
  <2>1. ASSUME NEW e \in live \cap Devices
        PROVE  \E p \in Map!Places : <<e, p>> \in installed'
    <3>1. CASE e = d
      BY <1>1, <1>2, <3>1
    <3>2. CASE e # d
      <4>1. PICK p \in Map!Places : <<e, p>> \in installed
        BY DEF MapInv, Attached
      <4> QED
        BY <1>1, <3>2, <4>1
    <3> QED
      BY <3>1, <3>2
  <2> QED
    BY <1>1, <2>1 DEF MapInv, Attached
<1>4. ASSUME Tree, Placed, Sound(j) PROVE Tree' /\ Placed'
  <2>1. t \in live /\ d \in live /\ \A r \in installed : r[1] = d => r = <<d, u>>
    BY <1>1, <1>4, HomeIsLive DEF Sound
  <2>2. Tree'
    BY <1>1, <1>4, TreeStays
  <2>3. installed' \subseteq live' \X live'
    BY <1>1, <1>4, <2>1 DEF Placed
  <2>4. \A p \in Map!Places : <<d, p>> \in installed' <=> p = t
    <3>1. \A p \in Map!Places : <<d, p>> \in installed => <<d, p>> = <<d, u>>
      BY <2>1
    <3> QED
      BY <1>1, <1>2, <3>1
  <2>5. \A e \in Devices, p \in Map!Places :
          e # d => (<<e, p>> \in installed' <=> <<e, p>> \in installed)
    BY <1>1
  <2>6. \A e \in live' \cap Devices : \E p \in Map!Places : <<e, p>> \in installed'
    BY <1>1, <1>2, <1>4, <2>4, <2>5 DEF Placed
  <2>7. \A e \in Devices \ mapExcused', p, q \in Map!Places :
          <<e, p>> \in installed' /\ <<e, q>> \in installed' => p = q
    BY <1>1, <1>4, <2>4, <2>5 DEF Placed, Map!Excuse
  <2>8. Placed'
    BY <2>3, <2>6, <2>7 DEF Placed
  <2> QED
    BY <2>2, <2>8
<1> QED
  BY <1>1, <1>3, <1>4, <1>5, WriteKeeps

LEMMA RemoveKeeps ==
    ASSUME MapInv, NEW c \in Clients, Map!Remove(c)
    PROVE  MapInv'
<1> DEFINE j == job[c]  d == job[c].node
<1>1. /\ j.op = "remove" /\ live' = live \ {d} /\ installed' = {e \in installed : e[1] # d}
      /\ UNCHANGED <<name, contains, rows>>
      /\ Map!Excuse(c, {}) /\ Map!Commit(c)
  BY DEF Map!Remove
<1>2. d \in Devices /\ d \notin Map!Places
  BY <1>1, MapNames DEF MapInv, MapShape, Formed
<1>3. MapShape'
  BY <1>1, CommitKeeps DEF MapInv, MapShape
<1>5. Attached'
  <2>1. Household # d /\ d \notin Floors \cup Spaces
    BY <1>2 DEF Map!Places
  <2>2. ASSUME NEW e \in live \cap Devices, e # d
        PROVE  \E p \in Map!Places : <<e, p>> \in installed'
    <3>1. PICK p \in Map!Places : <<e, p>> \in installed
      BY DEF MapInv, Attached
    <3> QED
      BY <1>1, <2>2, <3>1
  <2> QED
    BY <1>1, <2>1, <2>2 DEF MapInv, Attached
<1>4. ASSUME Tree, Placed, Sound(j) PROVE Tree' /\ Placed'
  <2>1. Tree'
    BY <1>1, <1>2, <1>4, TreeStays
  <2>2. installed' \subseteq live' \X live'
    <3> SUFFICES ASSUME NEW r \in installed, r[1] # d PROVE r \in live' \X live'
      BY <1>1
    <3>1. r \in live \X live /\ r[2] # d
      BY <1>2, <1>4 DEF Placed, MapInv, MapShape
    <3> QED
      BY <1>1, <3>1
  <2>3. \A e \in live' \cap Devices : \E p \in Map!Places : <<e, p>> \in installed'
    BY <1>1, <1>4 DEF Placed
  <2>4. Placed'
    BY <1>1, <1>4, <2>2, <2>3 DEF Placed, Map!Excuse
  <2> QED
    BY <2>1, <2>4
<1> QED
  BY <1>1, <1>3, <1>4, <1>5, WriteKeeps

LEMMA MapStep == MapInv /\ [Map!Next]_mapVars => MapInv'
<1> SUFFICES ASSUME MapInv, [Map!Next]_mapVars PROVE MapInv'
  OBVIOUS
<1>1. CASE UNCHANGED mapVars
  <2>1. UNCHANGED <<name, live, contains, installed, rows, job, mapExcused>>
    BY <1>1 DEF mapVars
  <2>2. MapShape'
    BY <2>1 DEF MapInv, MapShape
  <2>3. PlansAreSound'
    <3> SUFFICES ASSUME NEW d \in Clients, ~job'[d].overtaken PROVE Sound(job[d])'
      BY DEF PlansAreSound
    <3>1. Sound(job'[d])
      BY <2>1 DEF MapInv, PlansAreSound
    <3> QED
      BY <2>1, <3>1 DEF Sound, Map!Home, Map!Descendants, Map!NameTaken, Map!Siblings, Map!Inside
  <2>4. Tree' = Tree /\ Placed' = Placed /\ Attached' = Attached
    BY <2>1 DEF Tree, Placed, Attached
  <2> QED
    BY <2>1, <2>2, <2>3, <2>4 DEF MapInv
<1>2. ASSUME NEW c \in Clients, Map!RollBack(c) PROVE MapInv'
  <2>1. /\ UNCHANGED <<name, live, contains, installed, rows, mapExcused>>
        /\ job' = [job EXCEPT ![c] = Map!Free]
    BY <1>2 DEF Map!RollBack
  <2>2. MapShape'
    BY <2>1, FreeIsSound DEF MapInv, MapShape
  <2>3. PlansAreSound'
    <3> SUFFICES ASSUME NEW d \in Clients, ~job'[d].overtaken PROVE Sound(job[d])'
      BY DEF PlansAreSound
    <3>1. Sound(job'[d])
      BY <2>1, FreeIsSound DEF MapInv, MapShape, PlansAreSound
    <3> QED
      BY <2>1, <3>1 DEF Sound, Map!Home, Map!Descendants, Map!NameTaken, Map!Siblings, Map!Inside
  <2>4. Tree' = Tree /\ Placed' = Placed /\ Attached' = Attached
    BY <2>1 DEF Tree, Placed, Attached
  <2> QED
    BY <2>1, <2>2, <2>3, <2>4 DEF MapInv
<1>3. CASE Map!Next
  BY <1>2, <1>3, ReadingsKeep, CreateKeeps, RenameKeeps, MoveKeeps, RetireKeeps, CommissionKeeps,
     ReassignKeeps, RemoveKeeps DEF Map!Next
<1> QED
  BY <1>1, <1>3

LEMMA MapHolds == MapInv => Map!HomeIsWhole
<1>0. ASSUME MapInv PROVE Map!NothingIsUprooted
  <2>1. ASSUME NEW p \in live \cap (Floors \cup Spaces) PROVE Map!Parents(p) # {}
    BY <1>0 DEF MapInv, Attached, Map!Parents
  <2> QED
    BY <1>0, <2>1 DEF MapInv, Attached, Map!NothingIsUprooted
<1> SUFFICES ASSUME MapInv, "overtaken" \notin mapExcused PROVE Map!HomeIsWhole
  BY <1>0 DEF Map!HomeIsWhole
<1>1. Tree /\ Placed
  BY DEF MapInv
<1>2. Map!HomeIsOneTree
  <2>1. live \cap Map!Places \subseteq Map!Home
    BY <1>1 DEF Tree, Map!Home, Map!Descendants
  <2>2. ASSUME NEW p \in live \cap (Floors \cup Spaces)
        PROVE  \E q \in live : Map!Parents(p) = {q}
    <3>1. p \in Map!Places
      BY DEF Map!Places
    <3>2. PICK u \in Map!Places : <<u, p>> \in contains
      BY <1>1 DEF Tree
    <3>3. u \in Map!Parents(p) /\ \A v \in Map!Parents(p) : v = u /\ v \in live
      BY <1>1, <3>1, <3>2 DEF Tree, Map!Parents
    <3> QED
      BY <3>3
  <2> QED
    BY <2>1, <2>2, Zenon DEF Map!HomeIsOneTree
<1>3. ASSUME NEW p \in live \cap Spaces, NEW q \in live \cap Spaces, name[p] = name[q],
             Map!Parents(p) = Map!Parents(q)
      PROVE  p = q
  <2>1. PICK u \in Map!Places : <<u, p>> \in contains
    BY <1>1 DEF Tree
  <2>2. <<u, q>> \in contains
    BY <1>3, <2>1 DEF Map!Parents
  <2> QED
    BY <1>1, <1>3, <2>1, <2>2 DEF Tree
<1>4. ASSUME NEW d \in live \cap Devices
      PROVE  LET at == {p \in Map!Places : <<d, p>> \in installed} IN
             /\ at \subseteq live
             /\ d \notin mapExcused => \E p \in at : at = {p}
  <2> DEFINE at == {p \in Map!Places : <<d, p>> \in installed}
  <2>1. PICK p \in Map!Places : <<d, p>> \in installed
    BY <1>1 DEF Placed
  <2>2. at # {} /\ at \subseteq live
    BY <1>1, <2>1 DEF Placed
  <2>3. ASSUME d \notin mapExcused PROVE \E q \in at : at = {q}
    <3>1. p \in at /\ \A q \in at : q = p
      BY <1>1, <2>1, <2>3 DEF Placed
    <3> QED
      BY <3>1
  <2> QED
    BY <2>2, <2>3
<1> QED
  BY <1>0, <1>2, <1>3, <1>4, Zenon DEF Map!HomeIsWhole

-----------------------------------------------------------------------------
(* The tracker of a person.                                                 *)

Signals == {"person", "wifi"}

Assigning == [at : {"away", "checked"}, person : People \cup {None}, signal : Signals \cup {None}]

TrackerShape ==
    /\ trackerClock \in Nat
    /\ trackerTruth.stamp \in Nat
    /\ owned \in [Signals -> People \cup {None}] /\ linked \subseteq People
    /\ owner \in [Owners -> Assigning]
    /\ \A o \in Owners : owner[o].at = "checked" => owner[o].person \in People
                                                    /\ owner[o].signal \in Signals

\* Unless two assignments overlapped: whoever a capability's binding names is the
\* one person linked, and what the one owner looked at still holds.
OneAssigns ==
    /\ \A s \in Signals : owned[s] # None => linked = {owned[s]}
    /\ \A o, p \in Owners : owner[o] # Tracker!Away /\ owner[p] # Tracker!Away => o = p
    /\ \A o \in Owners : owner[o].at = "checked" => linked \subseteq {owner[o].person}

TrackerInv ==
    /\ TrackerShape
    /\ ~trackerCrossed => OneAssigns

LEMMA TrackerNames == Freshness \in Nat /\ None \notin People
BY HouseholdAssumption DEF Tracker!TrackerAssumption

LEMMA TrackerStart == Tracker!Init => TrackerInv
<1> SUFFICES ASSUME Tracker!Init PROVE TrackerInv
  OBVIOUS
<1> USE DEF Tracker!Init
<1>1. Tracker!Away \in Assigning /\ Tracker!Away.at = "away"
  BY DEF Tracker!Away, Assigning
<1>2. /\ owned \in [Signals -> People \cup {None}] /\ linked \subseteq People
      /\ \A s \in Signals : owned[s] # None => linked = {owned[s]}
  <2>1. CASE device # "tracker"
    BY <2>1 DEF Signals
  <2>2. CASE device = "tracker"
    <3>1. PICK person \in People : /\ owned = [s \in Signals |-> IF s = "wifi" THEN person ELSE None]
                                  /\ linked = {person}
      BY <2>2 DEF Signals
    <3> QED
      BY <3>1
  <2> QED
    BY <2>1, <2>2
<1>3. TrackerShape
  BY <1>1, <1>2 DEF TrackerShape
<1>4. OneAssigns
  BY <1>1, <1>2 DEF OneAssigns
<1> QED
  BY <1>3, <1>4 DEF TrackerInv

LEMMA AssignKeeps ==
    ASSUME TrackerInv, NEW o \in Owners, NEW person \in People, NEW signal \in Signals,
           Tracker!Assign(o, person, signal)
    PROVE  TrackerInv'
<1> DEFINE new == [at |-> "checked", person |-> person, signal |-> signal]
<1>1. /\ owner[o] = Tracker!Away /\ linked \subseteq {person}
      /\ owner' = [owner EXCEPT ![o] = new]
      /\ trackerCrossed' = (trackerCrossed \/ \E other \in Owners : owner[other] # Tracker!Away)
      /\ UNCHANGED <<owned, linked, trackerClock, trackerTruth>>
  BY DEF Tracker!Assign, Tracker!Unclaimed, Tracker!linkVars, Tracker!edgeVars
<1>2. \A p \in Owners : owner'[p] = IF p = o THEN new ELSE owner[p]
  BY <1>1 DEF TrackerInv, TrackerShape
<1>3. TrackerShape'
  <2>1. new \in Assigning
    BY DEF Assigning
  <2> QED
    BY <1>1, <1>2, <2>1 DEF TrackerInv, TrackerShape
<1>4. ASSUME ~trackerCrossed' PROVE OneAssigns'
  <2>1. OneAssigns /\ \A p \in Owners : owner[p] = Tracker!Away
    BY <1>1, <1>4 DEF TrackerInv
  <2>2. \A p \in Owners : p # o => owner'[p] = Tracker!Away
    BY <1>2, <2>1
  <2>3. Tracker!Away.at # "checked"
    BY DEF Tracker!Away
  <2> QED
    BY <1>1, <1>2, <2>1, <2>2, <2>3 DEF OneAssigns, Tracker!Away
<1> QED
  BY <1>3, <1>4 DEF TrackerInv

LEMMA BindKeeps ==
    ASSUME TrackerInv, NEW o \in Owners, Tracker!Commission(o)
    PROVE  TrackerInv'
<1> DEFINE person == owner[o].person  signal == owner[o].signal
<1>1. /\ owner[o].at = "checked" /\ person \in People /\ signal \in Signals
      /\ linked' = linked \cup {person}
      /\ owned' = [owned EXCEPT ![signal] = IF owned[signal] = None THEN person ELSE owned[signal]]
      /\ owner' = [owner EXCEPT ![o] = Tracker!Away]
      /\ UNCHANGED <<trackerCrossed, trackerClock, trackerTruth>>
  BY DEF Tracker!Commission, Tracker!linkVars, Tracker!edgeVars, TrackerInv, TrackerShape
<1>2. \A p \in Owners : owner'[p] = IF p = o THEN Tracker!Away ELSE owner[p]
  BY <1>1 DEF TrackerInv, TrackerShape
<1>3. Tracker!Away \in Assigning /\ Tracker!Away.at = "away"
  BY DEF Tracker!Away, Assigning
<1>4. TrackerShape'
  BY <1>1, <1>2, <1>3 DEF TrackerInv, TrackerShape
<1>5. ASSUME ~trackerCrossed' PROVE OneAssigns'
  <2>1. OneAssigns
    BY <1>1, <1>5 DEF TrackerInv
  <2>2. linked' = {person}
    BY <1>1, <2>1 DEF OneAssigns
  <2>3. \A s \in Signals : owned[s] # None => owned[s] = person
    BY <1>1, <2>1 DEF OneAssigns
  <2>4. \A s \in Signals : owned'[s] \in {owned[s], person}
    BY <1>1 DEF TrackerInv, TrackerShape
  <2>5. \A s \in Signals : owned'[s] # None => linked' = {owned'[s]}
    BY <2>2, <2>3, <2>4
  <2>6. \A p \in Owners : owner'[p] = Tracker!Away
    <3>1. owner[o] # Tracker!Away
      BY <1>1, <1>3
    <3> QED
      BY <1>2, <2>1, <3>1 DEF OneAssigns
  <2> QED
    BY <1>3, <2>5, <2>6 DEF OneAssigns
<1> QED
  BY <1>4, <1>5 DEF TrackerInv

\* What is heard of the tracker leaves its assignment alone.
LEMMA HearingKeeps ==
    ASSUME TrackerInv, UNCHANGED <<owned, linked, owner, trackerCrossed>>,
           trackerClock' \in Nat, trackerTruth'.stamp \in Nat
    PROVE  TrackerInv'
BY DEF TrackerInv, TrackerShape, OneAssigns

LEMMA TrackerStep == TrackerInv /\ [Tracker!Next]_trackerVars => TrackerInv'
<1> SUFFICES ASSUME TrackerInv, [Tracker!Next]_trackerVars PROVE TrackerInv'
  OBVIOUS
<1> USE DEF Tracker!linkVars, Tracker!edgeVars, Tracker!ringVars, Tracker!bindVars
<1>0. trackerClock \in Nat /\ trackerTruth.stamp \in Nat
  BY DEF TrackerInv, TrackerShape
<1>1. CASE UNCHANGED trackerVars
  BY <1>0, <1>1, HearingKeeps DEF trackerVars
<1>2. CASE Tracker!TimePasses
  BY <1>0, <1>2, HearingKeeps DEF Tracker!TimePasses
<1>3. CASE Tracker!Degrade \/ Tracker!Drop
  BY <1>0, <1>3, HearingKeeps DEF Tracker!Degrade, Tracker!Drop
<1>4. CASE Tracker!Synchronize
  BY <1>0, <1>4, HearingKeeps DEF Tracker!Synchronize
<1>5. ASSUME NEW value, NEW stamp \in 0..trackerClock, Tracker!Observe(value, stamp)
      PROVE  TrackerInv'
  <2>1. /\ trackerTruth' = IF stamp >= trackerTruth.stamp THEN [value |-> value, stamp |-> stamp]
                           ELSE trackerTruth
        /\ UNCHANGED <<owned, linked, owner, trackerCrossed, trackerClock>>
    BY <1>5 DEF Tracker!Observe
  <2> QED
    BY <1>0, <2>1, HearingKeeps
<1>6. ASSUME NEW occurred, Tracker!Ring(occurred) PROVE TrackerInv'
  BY <1>0, <1>6, HearingKeeps DEF Tracker!Ring
<1>7. ASSUME NEW o \in Owners, Tracker!Commission(o) PROVE TrackerInv'
  BY <1>7, BindKeeps
<1>8. ASSUME NEW o \in Owners, NEW person \in People, NEW signal \in Signals,
             Tracker!Assign(o, person, signal)
      PROVE  TrackerInv'
  BY <1>8, AssignKeeps
<1> QED
  BY <1>1, <1>2, <1>3, <1>4, <1>5, <1>6, <1>7, <1>8 DEF Tracker!Next, Signals

LEMMA TrackerHolds == TrackerInv => Tracker!PresenceIsReadable
<1> SUFFICES ASSUME TrackerInv PROVE Tracker!PresenceIsReadable
  OBVIOUS
<1>1. ~trackerCrossed => Tracker!Readable
  BY DEF TrackerInv, OneAssigns, Tracker!Readable, Signals
<1>2. ASSUME Tracker!Reduced(Tracker!Signal(trackerTruth)).value \in {"HOME", "AWAY"}
      PROVE  /\ Tracker!Signal(trackerTruth).status = "CURRENT_KNOWN"
             /\ Tracker!Reduced(Tracker!Signal(trackerTruth)) = Tracker!Signal(trackerTruth)
  BY <1>2 DEF Tracker!Reduced
<1>3. Tracker!Signal(trackerTruth).status = "CURRENT_KNOWN"
        => trackerClock - trackerTruth.stamp < Freshness
  BY TrackerNames DEF TrackerInv, TrackerShape, Tracker!Signal
<1>4. Tracker!Signal(trackerTruth).value = "AWAY"
        => Kind = "GEOFENCE" /\ trackerTruth.value = "not_home"
  BY DEF Tracker!Signal
<1> QED
  BY <1>1, <1>2, <1>3, <1>4 DEF Tracker!PresenceIsReadable

-----------------------------------------------------------------------------
(* What is commissioned.                                                    *)

Objects == Commissioning!Objects
Rooms == FirstSpaces \cup {Household, None}

Request ==
    [at : {"idle", "reconcile", "apply", "enable", "zone", "makezone", "commit", "seed", "power",
           "verify", "continue", "project"},
     op : {None, "commission", "refresh", "power", "setup"},
     object : Objects \cup {None}, place : Rooms,
     seen : [Objects -> Nat], step : Nat, applied : BOOLEAN, then : {None, "zone", "seed", "done"}]

SetupShape ==
    /\ setup = [open |-> setup.open, seen |-> setup.seen, step |-> setup.step]
    /\ setup.seen \in Nat /\ setup.step \in Nat

CommissioningShape ==
    /\ state \in [Objects -> Nat]
    /\ node \in [Objects -> {"none", "standing", "retired"}]
    /\ rooms \in [Objects -> SUBSET Rooms]
    /\ SetupShape
    /\ commissioningCall \in [Threads -> Request]
    /\ \A t \in Threads : /\ commissioningCall[t].op = "setup"
                               <=> commissioningCall[t].at \in {"continue", "project"}
                          /\ commissioningCall[t].at = "reconcile" => commissioningCall[t].then # None
                          /\ commissioningCall[t].at = "apply" => commissioningCall[t].then # None

\* Unless requests of the flow overlapped or an answer was lost: one request of it
\* at a time, for the step that was shown or the one Home Assistant has reached.
OneFlow ==
    /\ \A t, u \in Threads :
         commissioningCall[t].op = "setup" /\ commissioningCall[u].op = "setup" => t = u
    /\ \A t \in Threads :
         /\ commissioningCall[t].op = "setup" => setup.open
         /\ commissioningCall[t].at = "continue"
              => commissioningCall[t].step = setup.seen /\ setup.seen = setup.step
         /\ commissioningCall[t].at = "project" => commissioningCall[t].step = setup.step
    /\ setup.open /\ (\A t \in Threads : commissioningCall[t].op # "setup") => setup.seen = setup.step

CommissioningInv ==
    /\ CommissioningShape
    /\ Commissioning!DeviceIsPlaced
    /\ ~unsure => OneFlow

LEMMA CommissioningNames == None \notin {"setup", "continue", "project", "zone", "seed", "done"}
BY HouseholdAssumption DEF Commissioning!CommissioningAssumption

LEMMA IdleIsRequest ==
    /\ Commissioning!Idle \in Request
    /\ Commissioning!Idle.op = None /\ Commissioning!Idle.at = "idle"
    /\ Commissioning!Idle.then = None
BY DEF Commissioning!Idle, Request, Objects, Rooms

LEMMA CommissioningStart == Commissioning!Init => CommissioningInv
<1> SUFFICES ASSUME Commissioning!Init PROVE CommissioningInv
  OBVIOUS
<1> USE DEF Commissioning!Init, Objects
<1>1. CommissioningShape
  BY IdleIsRequest, CommissioningNames DEF CommissioningShape, SetupShape
<1>2. Commissioning!DeviceIsPlaced
  BY DEF Commissioning!DeviceIsPlaced
<1>3. OneFlow
  BY IdleIsRequest, CommissioningNames DEF OneFlow
<1> QED
  BY <1>1, <1>2, <1>3 DEF CommissioningInv

\* A step that moves one thread's request, leaves the graph alone and has nothing
\* to do with the flow.
LEMMA OtherRequestKeeps ==
    ASSUME CommissioningInv, NEW t \in Threads, NEW c \in Request,
           commissioningCall' = [commissioningCall EXCEPT ![t] = c],
           commissioningCall[t].op # "setup", c.op # "setup",
           c.at \notin {"continue", "project"},
           c.at \in {"reconcile", "apply"} => c.then # None,
           UNCHANGED <<node, rooms, setup, unsure>>, again \subseteq again',
           state' \in [Objects -> Nat]
    PROVE  CommissioningInv'
<1>1. \A u \in Threads : commissioningCall'[u] = IF u = t THEN c ELSE commissioningCall[u]
  BY DEF CommissioningInv, CommissioningShape, SetupShape
<1>2. CommissioningShape'
  BY <1>1 DEF CommissioningInv, CommissioningShape, SetupShape
<1>3. Commissioning!DeviceIsPlaced'
  BY DEF CommissioningInv, Commissioning!DeviceIsPlaced
<1>4. ASSUME ~unsure' PROVE OneFlow'
  BY <1>1, <1>4 DEF CommissioningInv, CommissioningShape, SetupShape, OneFlow
<1> QED
  BY <1>2, <1>3, <1>4 DEF CommissioningInv

\* A step of the world, or one that only changes the graph.
LEMMA NoRequestKeeps ==
    ASSUME CommissioningInv, UNCHANGED <<commissioningCall, setup, unsure>>,
           state' \in [Objects -> Nat],
           node' \in [Objects -> {"none", "standing", "retired"}],
           rooms' \in [Objects -> SUBSET Rooms],
           Commissioning!DeviceIsPlaced'
    PROVE  CommissioningInv'
BY DEF CommissioningInv, CommissioningShape, SetupShape, OneFlow


\* Where a request may go on.
LEMMA ResumedIsRequest ==
    ASSUME CommissioningInv, NEW t \in Threads, commissioningCall[t].at \in {"reconcile", "apply"}
    PROVE  /\ Commissioning!Resumed(commissioningCall[t]) \in Request
           /\ Commissioning!Resumed(commissioningCall[t]).op # "setup"
           /\ Commissioning!Resumed(commissioningCall[t]).at \notin {"continue", "project", "reconcile", "apply"}
<1> DEFINE c == commissioningCall[t]
<1>1. c \in Request /\ c.then # None /\ c.op # "setup"
  BY DEF CommissioningInv, CommissioningShape, SetupShape
<1>2. CASE c.then = "done"
  BY <1>2, IdleIsRequest, CommissioningNames DEF Commissioning!Resumed
<1>3. CASE c.then # "done"
  <2>1. c.then \in {"zone", "seed"} /\ Commissioning!Idle.seen \in [Objects -> Nat]
    BY <1>1, <1>3 DEF Request, Commissioning!Idle, Objects
  <2>2. Commissioning!Resumed(c) = [c EXCEPT !.at = c.then, !.seen = Commissioning!Idle.seen]
    BY <1>3 DEF Commissioning!Resumed
  <2>3. /\ [c EXCEPT !.at = c.then, !.seen = Commissioning!Idle.seen] \in Request
        /\ [c EXCEPT !.at = c.then, !.seen = Commissioning!Idle.seen].op = c.op
        /\ [c EXCEPT !.at = c.then, !.seen = Commissioning!Idle.seen].at = c.then
    <3> HIDE DEF c
    <3> QED
      BY <1>1, <2>1 DEF Request
  <2> QED
    BY <1>1, <2>1, <2>2, <2>3
<1> QED
  BY <1>2, <1>3

LEMMA ReconcileKeeps ==
    ASSUME CommissioningInv, NEW t \in Threads,
           Commissioning!Reconcile(t) \/ Commissioning!Apply(t)
    PROVE  CommissioningInv'
<1> DEFINE c == commissioningCall[t]
<1>1. c \in Request /\ state \in [Objects -> Nat]
      /\ (c.at \in {"reconcile", "apply"} => c.then # None /\ c.op # "setup")
  BY DEF CommissioningInv, CommissioningShape, SetupShape
<1> USE DEF Commissioning!linkVars, Commissioning!heardVars, Commissioning!graphVars,
            Commissioning!noteVars, Commissioning!Goes
<1>2. CASE Commissioning!Apply(t)
  <2>1. /\ c.at = "apply"
        /\ \/ commissioningCall' = [commissioningCall EXCEPT ![t] = Commissioning!Resumed(c)]
           \/ commissioningCall' = [commissioningCall EXCEPT ![t] = Commissioning!Idle]
        /\ UNCHANGED <<node, rooms, setup, unsure, again, state>>
    BY <1>2 DEF Commissioning!Apply
  <2> QED
    BY <1>1, <2>1, OtherRequestKeeps, ResumedIsRequest, IdleIsRequest, CommissioningNames
<1>3. CASE Commissioning!Reconcile(t)
  <2>1. c.at = "reconcile" /\ UNCHANGED <<node, rooms, setup, unsure, again, state>>
    BY <1>3 DEF Commissioning!Reconcile
  <2> DEFINE looked == [o \in Objects |-> IF o \in commissioningEnabled THEN state[o] ELSE 0]
             next == [c EXCEPT !.at = "apply", !.seen = looked]
  <2>2. \/ commissioningCall' = [commissioningCall EXCEPT ![t] = Commissioning!Resumed(c)]
        \/ commissioningCall' = [commissioningCall EXCEPT ![t] = Commissioning!Idle]
        \/ commissioningCall' = [commissioningCall EXCEPT ![t] = next]
    BY <1>3 DEF Commissioning!Reconcile, Objects
  <2>3. looked \in [Objects -> Nat]
    BY <1>1
  <2>4. next \in Request /\ next.op = c.op /\ next.at = "apply" /\ next.then = c.then
    <3> HIDE DEF c, looked
    <3> QED
      BY <1>1, <2>3 DEF Request
  <2> QED
    BY <1>1, <2>1, <2>2, <2>4, OtherRequestKeeps, ResumedIsRequest, IdleIsRequest,
       CommissioningNames
<1> QED
  BY <1>2, <1>3

\* One of the requests that begin while their thread is idle.
LEMMA BeginKeeps ==
    ASSUME CommissioningInv, NEW t \in Threads, NEW c \in Request,
           Commissioning!Starts(t, c), c.op # "setup", c.at \notin {"continue", "project"},
           c.at \in {"reconcile", "apply"} => c.then # None,
           UNCHANGED <<node, rooms, setup, unsure, again, state>>
    PROVE  CommissioningInv'
<1>1. commissioningCall[t].op # "setup" /\ commissioningCall' = [commissioningCall EXCEPT ![t] = c]
      /\ state' \in [Objects -> Nat]
  BY IdleIsRequest, CommissioningNames DEF Commissioning!Starts, CommissioningInv, CommissioningShape
<1> QED
  BY <1>1, OtherRequestKeeps

LEMMA RefreshKeeps ==
    ASSUME CommissioningInv, NEW t \in Threads, Commissioning!Refresh(t)
    PROVE  CommissioningInv'
<1> DEFINE c == [Commissioning!Idle EXCEPT !.at = "reconcile", !.op = "refresh", !.then = "done"]
<1>1. c \in Request /\ c.op = "refresh" /\ c.at = "reconcile" /\ c.then = "done"
  BY IdleIsRequest DEF Request
<1>2. Commissioning!Starts(t, c) /\ UNCHANGED <<node, rooms, setup, unsure, again, state>>
  BY DEF Commissioning!Refresh, Commissioning!linkVars, Commissioning!graphVars,
         Commissioning!noteVars
<1> QED
  BY <1>1, <1>2, BeginKeeps, CommissioningNames

LEMMA RequestKeeps ==
    ASSUME CommissioningInv, NEW t \in Threads, NEW o \in Objects,
           \/ Commissioning!Power(t, o)
           \/ \E place \in Rooms : Commissioning!Commission(t, o, place)
    PROVE  CommissioningInv'
<1> USE DEF Commissioning!linkVars, Commissioning!heardVars, Commissioning!graphVars,
            Commissioning!noteVars
<1>1. CASE Commissioning!Power(t, o)
  <2> DEFINE c == [Commissioning!Idle EXCEPT !.at = "power", !.op = "power", !.object = o]
  <2>1. c \in Request /\ c.op = "power" /\ c.at = "power"
    BY IdleIsRequest DEF Request
  <2>2. UNCHANGED <<node, rooms, setup, unsure, again, state>>
        /\ (Commissioning!Starts(t, c) \/ Commissioning!Starts(t, Commissioning!Idle))
    BY <1>1 DEF Commissioning!Power
  <2> QED
    BY <2>1, <2>2, BeginKeeps, IdleIsRequest, CommissioningNames
<1>2. ASSUME NEW place \in Rooms, Commissioning!Commission(t, o, place) PROVE CommissioningInv'
  <2> DEFINE c == [Commissioning!Idle EXCEPT !.op = "commission", !.object = o, !.place = place]
             At(at) == [c EXCEPT !.at = at]
  <2>1. /\ c \in Request /\ c.op = "commission"
        /\ \A at \in {"commit", "zone", "enable"} :
             At(at) \in Request /\ At(at).op = "commission" /\ At(at).at = at
    BY IdleIsRequest DEF Request
  <2>2. /\ UNCHANGED <<node, rooms, setup, unsure, again, state>>
        /\ \/ Commissioning!Starts(t, At("commit"))
           \/ Commissioning!Starts(t, At("zone"))
           \/ Commissioning!Starts(t, At("enable"))
    BY <1>2 DEF Commissioning!Commission
  <2> HIDE DEF c, At
  <2> QED
    BY <2>1, <2>2, BeginKeeps
<1> QED
  BY <1>1, <1>2

\* Finding a tracker enabled, its zone found or made.
LEMMA TrackerGoesOn ==
    ASSUME CommissioningInv, NEW t \in Threads,
           \/ Commissioning!Enable(t) \/ Commissioning!FindZone(t) \/ Commissioning!MakeZone(t)
    PROVE  CommissioningInv'
<1> DEFINE c == commissioningCall[t]
           At(at) == [c EXCEPT !.at = at]
           wait == [c EXCEPT !.at = "reconcile", !.then = "zone"]
<1> USE DEF Commissioning!linkVars, Commissioning!heardVars, Commissioning!graphVars,
            Commissioning!noteVars, Commissioning!Goes
<1>1. c \in Request /\ state \in [Objects -> Nat]
      /\ (c.op = "setup" <=> c.at \in {"continue", "project"})
  BY DEF CommissioningInv, CommissioningShape, SetupShape
<1>2. /\ c.at \in {"enable", "zone", "makezone"}
      /\ UNCHANGED <<node, rooms, setup, unsure, again, state>>
      /\ \/ commissioningCall' = [commissioningCall EXCEPT ![t] = Commissioning!Idle]
         \/ commissioningCall' = [commissioningCall EXCEPT ![t] = wait]
         \/ commissioningCall' = [commissioningCall EXCEPT ![t] = At("commit")]
         \/ commissioningCall' = [commissioningCall EXCEPT ![t] = At("makezone")]
  BY DEF Commissioning!Enable, Commissioning!FindZone, Commissioning!MakeZone
<1>3. /\ wait \in Request /\ wait.op = c.op /\ wait.at = "reconcile" /\ wait.then = "zone"
      /\ \A at \in {"commit", "makezone"} :
           At(at) \in Request /\ At(at).op = c.op /\ At(at).at = at
  <2> HIDE DEF c
  <2> QED
    BY <1>1 DEF Request
<1>4. c.op # "setup"
  BY <1>1, <1>2
<1> HIDE DEF At, wait
<1> QED
  BY <1>1, <1>2, <1>3, <1>4, OtherRequestKeeps, IdleIsRequest, CommissioningNames

\* A switch is asked for, and read again.
LEMMA PowerKeeps ==
    ASSUME CommissioningInv, NEW t \in Threads,
           Commissioning!Serve(t) \/ Commissioning!Verify(t) \/ Commissioning!Seed(t)
    PROVE  CommissioningInv'
<1> DEFINE c == commissioningCall[t]
           Sent(applied) == [c EXCEPT !.at = "verify", !.applied = applied]
<1> USE DEF Commissioning!linkVars, Commissioning!heardVars, Commissioning!graphVars,
            Commissioning!noteVars, Commissioning!Goes
<1>1. c \in Request /\ state \in [Objects -> Nat]
      /\ (c.op = "setup" <=> c.at \in {"continue", "project"})
  BY DEF CommissioningInv, CommissioningShape, SetupShape
<1>2. /\ c.at \in {"power", "verify", "seed"}
      /\ UNCHANGED <<node, rooms, setup, unsure, again, state>>
      /\ \/ commissioningCall' = [commissioningCall EXCEPT ![t] = Commissioning!Idle]
         \/ \E applied \in BOOLEAN :
              commissioningCall' = [commissioningCall EXCEPT ![t] = Sent(applied)]
  BY DEF Commissioning!Serve, Commissioning!Verify, Commissioning!Seed
<1>3. \A applied \in BOOLEAN :
        Sent(applied) \in Request /\ Sent(applied).op = c.op /\ Sent(applied).at = "verify"
  <2> HIDE DEF c
  <2> QED
    BY <1>1 DEF Request
<1>4. c.op # "setup"
  BY <1>1, <1>2
<1> HIDE DEF Sent
<1> QED
  BY <1>1, <1>2, <1>3, <1>4, OtherRequestKeeps, IdleIsRequest, CommissioningNames

\* The mapping's one transaction: what stands is somewhere, and what stood
\* elsewhere is remembered.
LEMMA CommitMapKeeps ==
    ASSUME CommissioningInv, NEW t \in Threads, Commissioning!Commit(t)
    PROVE  CommissioningInv'
<1> DEFINE c == commissioningCall[t]
           o == c.object
           next == [c EXCEPT !.at = "reconcile", !.then = "seed"]
<1> USE DEF Commissioning!linkVars, Commissioning!heardVars, Commissioning!Goes
<1>1. /\ c \in Request /\ state \in [Objects -> Nat]
      /\ (c.op = "setup" <=> c.at \in {"continue", "project"})
      /\ node \in [Objects -> {"none", "standing", "retired"}]
      /\ rooms \in [Objects -> SUBSET Rooms]
      /\ Commissioning!DeviceIsPlaced
  BY DEF CommissioningInv, CommissioningShape, SetupShape
<1>2. c.at = "commit" /\ c.op # "setup" /\ UNCHANGED <<setup, unsure, state>>
  BY <1>1 DEF Commissioning!Commit
<1>3. CASE ~Commissioning!Inserts(c)
  <2>1. /\ commissioningCall' = [commissioningCall EXCEPT ![t] = Commissioning!Idle]
        /\ UNCHANGED <<node, rooms, again>>
    BY <1>3 DEF Commissioning!Commit
  <2> QED
    BY <1>1, <1>2, <2>1, OtherRequestKeeps, IdleIsRequest, CommissioningNames
<1>4. CASE Commissioning!Inserts(c)
  <2>1. /\ node' = [node EXCEPT ![o] = "standing"]
        /\ rooms' = [rooms EXCEPT ![o] = @ \cup {c.place}]
        /\ again' = IF rooms[o] \subseteq {c.place} THEN again ELSE again \cup {o}
        /\ commissioningCall' = [commissioningCall EXCEPT ![t] = next]
    BY <1>4 DEF Commissioning!Commit, Commissioning!After
  <2>2. next \in Request /\ next.op = c.op /\ next.at = "reconcile" /\ next.then = "seed"
        /\ c.place \in Rooms
    <3> HIDE DEF c
    <3> QED
      BY <1>1 DEF Request
  <2>3. \A u \in Threads : commissioningCall'[u] = IF u = t THEN next ELSE commissioningCall[u]
    BY <2>1 DEF CommissioningInv, CommissioningShape, SetupShape
  <2>4. /\ node' \in [Objects -> {"none", "standing", "retired"}]
        /\ rooms' \in [Objects -> SUBSET Rooms]
        /\ \A p \in Objects : /\ node'[p] = IF p = o THEN "standing" ELSE node[p]
                              /\ rooms'[p] = IF p = o THEN rooms[p] \cup {c.place} ELSE rooms[p]
    <3> HIDE DEF c, o
    <3> QED
      BY <1>1, <2>1, <2>2
  <2> HIDE DEF c, o, next
  <2>5. CommissioningShape'
    BY <1>1, <1>2, <2>1, <2>2, <2>3, <2>4, CommissioningNames
    DEF CommissioningInv, CommissioningShape, SetupShape, c
  <2>6. Commissioning!DeviceIsPlaced'
    BY <1>1, <2>1, <2>4 DEF Commissioning!DeviceIsPlaced, Objects
  <2>7. ASSUME ~unsure' PROVE OneFlow'
    BY <1>1, <1>2, <2>2, <2>3, <2>7 DEF CommissioningInv, CommissioningShape, SetupShape, OneFlow, c
  <2> QED
    BY <2>5, <2>6, <2>7 DEF CommissioningInv
<1> QED
  BY <1>3, <1>4

LEMMA PlaceKeeps ==
    ASSUME CommissioningInv, NEW t \in Threads, NEW o \in Objects,
           Commissioning!Remove(t, o)
             \/ \E place \in FirstSpaces \cup {Household} : Commissioning!Move(t, o, place)
    PROVE  CommissioningInv'
<1> USE DEF Commissioning!linkVars, Commissioning!heardVars, Objects
<1>1. /\ state \in [Objects -> Nat]
      /\ node \in [Objects -> {"none", "standing", "retired"}]
      /\ rooms \in [Objects -> SUBSET Rooms]
      /\ Commissioning!DeviceIsPlaced
  BY DEF CommissioningInv, CommissioningShape, SetupShape
<1>2. CASE Commissioning!Remove(t, o)
  <2>1. /\ node' = [node EXCEPT ![o] = "retired"] /\ rooms' = [rooms EXCEPT ![o] = {}]
        /\ UNCHANGED <<commissioningCall, setup, unsure, again, state>>
    BY <1>2 DEF Commissioning!Remove
  <2>2. Commissioning!DeviceIsPlaced'
    BY <1>1, <2>1 DEF Commissioning!DeviceIsPlaced
  <2> QED
    BY <1>1, <2>1, <2>2, NoRequestKeeps
<1>3. ASSUME NEW place \in FirstSpaces \cup {Household}, Commissioning!Move(t, o, place)
      PROVE  CommissioningInv'
  <2>1. /\ node[o] = "standing" /\ rooms' = [rooms EXCEPT ![o] = {place}]
        /\ UNCHANGED <<node, commissioningCall, setup, unsure, again, state>>
    BY <1>3 DEF Commissioning!Move, Commissioning!Mapped, Commissioning!noteVars
  <2>2. Commissioning!DeviceIsPlaced'
    BY <1>1, <2>1 DEF Commissioning!DeviceIsPlaced
  <2>3. rooms' \in [Objects -> SUBSET Rooms]
    BY <1>1, <2>1 DEF Rooms
  <2> QED
    BY <1>1, <2>1, <2>2, <2>3, NoRequestKeeps
<1> QED
  BY <1>2, <1>3

\* The flow of several requests: what the plugin has seen last and where Home
\* Assistant waits part only while one request is under way.
LEMMA SetupKeeps ==
    ASSUME CommissioningInv, NEW t \in Threads,
           \/ Commissioning!StartSetup(t) \/ Commissioning!Continue(t)
           \/ Commissioning!Advance(t) \/ Commissioning!Project(t)
    PROVE  CommissioningInv'
<1> DEFINE c == commissioningCall[t]
<1> USE DEF Commissioning!linkVars, Commissioning!heardVars, Commissioning!graphVars,
            Commissioning!noteVars, Commissioning!Goes, Commissioning!Starts
<1>1. /\ c \in Request /\ commissioningCall \in [Threads -> Request]
      /\ SetupShape
      /\ \A u \in Threads :
           commissioningCall[u].op = "setup" <=> commissioningCall[u].at \in {"continue", "project"}
  BY DEF CommissioningInv, CommissioningShape
<1>2. Commissioning!DeviceIsPlaced' /\ UNCHANGED <<node, rooms, state>>
  <2>1. UNCHANGED <<node, rooms, again, state>>
    BY DEF Commissioning!StartSetup, Commissioning!Continue, Commissioning!Advance,
           Commissioning!Project
  <2> QED
    BY <2>1 DEF CommissioningInv, Commissioning!DeviceIsPlaced
<1>3. CASE Commissioning!StartSetup(t)
  <2>1. /\ ~setup.open /\ c = Commissioning!Idle
        /\ commissioningCall' = [commissioningCall EXCEPT ![t] = Commissioning!Idle]
        /\ setup' = [open |-> TRUE, seen |-> 1, step |-> 1] /\ unsure' = unsure
    BY <1>3 DEF Commissioning!StartSetup
  <2>2. commissioningCall' = commissioningCall
    BY <1>1, <2>1
  <2> QED
    BY <1>1, <1>2, <2>1, <2>2 DEF CommissioningInv, CommissioningShape, SetupShape, OneFlow
<1>4. CASE Commissioning!Continue(t)
  <2> DEFINE next == [Commissioning!Idle EXCEPT !.at = "continue", !.op = "setup", !.step = setup.seen]
  <2>1. /\ setup.open /\ setup' = setup
        /\ commissioningCall' = [commissioningCall EXCEPT ![t] = next]
        /\ unsure' = (unsure \/ \E u \in Threads : commissioningCall[u].op = "setup")
    BY <1>4 DEF Commissioning!Continue
  <2>2. next \in Request /\ next.op = "setup" /\ next.at = "continue" /\ next.step = setup.seen
    BY <1>1, IdleIsRequest DEF Request, SetupShape
  <2> HIDE DEF next
  <2>3. \A u \in Threads : commissioningCall'[u] = IF u = t THEN next ELSE commissioningCall[u]
    BY <1>1, <2>1
  <2>4. CommissioningShape'
    BY <1>2, <2>1, <2>2, <2>3 DEF CommissioningInv, CommissioningShape, SetupShape
  <2>5. ASSUME ~unsure' PROVE OneFlow'
    <3>1. OneFlow /\ \A u \in Threads : commissioningCall[u].op # "setup"
      BY <2>1, <2>5 DEF CommissioningInv
    <3>2. setup.seen = setup.step
      BY <2>1, <3>1 DEF OneFlow
    <3> QED
      BY <1>1, <2>1, <2>2, <2>3, <3>1, <3>2 DEF OneFlow
  <2> QED
    BY <1>2, <2>4, <2>5 DEF CommissioningInv
<1>5. CASE Commissioning!Advance(t)
  <2> DEFINE step == IF c.step = setup.step THEN setup.step + 1 ELSE setup.step
             next == [c EXCEPT !.at = "project", !.step = step]
  <2>1. /\ c.at = "continue" /\ setup' = [setup EXCEPT !.step = step]
        /\ \/ commissioningCall' = [commissioningCall EXCEPT ![t] = next] /\ unsure' = unsure
           \/ commissioningCall' = [commissioningCall EXCEPT ![t] = Commissioning!Idle] /\ unsure'
    BY <1>5 DEF Commissioning!Advance
  <2>2. step \in Nat
    BY <1>1 DEF SetupShape
  <2>3. /\ SetupShape'
        /\ setup'.open = setup.open /\ setup'.step = step
    <3> HIDE DEF step
    <3> QED
      BY <1>1, <2>1, <2>2 DEF SetupShape
  <2>4. next \in Request /\ next.op = c.op /\ next.at = "project" /\ next.step = step
    <3> HIDE DEF step, c
    <3> QED
      BY <1>1, <2>2 DEF Request
  <2> HIDE DEF step, next
  <2>5. CASE unsure'
    <3>1. \E new \in {next, Commissioning!Idle} :
            \A u \in Threads : commissioningCall'[u] = IF u = t THEN new ELSE commissioningCall[u]
      BY <1>1, <2>1
    <3>2. commissioningCall' \in [Threads -> Request]
      BY <1>1, <2>1, <2>4, IdleIsRequest
    <3>3. CommissioningShape'
      BY <1>1, <1>2, <2>1, <2>3, <2>4, <3>1, <3>2, IdleIsRequest, CommissioningNames
      DEF CommissioningInv, CommissioningShape, SetupShape
    <3> QED
      BY <1>2, <2>5, <3>3 DEF CommissioningInv
  <2>6. CASE ~unsure'
    <3>1. /\ commissioningCall' = [commissioningCall EXCEPT ![t] = next] /\ ~unsure
          /\ \A u \in Threads : commissioningCall'[u] = IF u = t THEN next ELSE commissioningCall[u]
      BY <1>1, <2>1, <2>6
    <3>2. CommissioningShape'
      BY <1>1, <1>2, <2>1, <2>3, <2>4, <3>1 DEF CommissioningInv, CommissioningShape, SetupShape
    <3>3. OneFlow /\ c.op = "setup"
      BY <1>1, <2>1, <3>1 DEF CommissioningInv
    <3>4. \A u \in Threads : u # t => commissioningCall[u].op # "setup"
      BY <3>3 DEF OneFlow
    <3>5. OneFlow'
      BY <1>1, <2>1, <2>3, <2>4, <3>1, <3>3, <3>4 DEF OneFlow
    <3> QED
      BY <1>2, <3>2, <3>5 DEF CommissioningInv
  <2> QED
    BY <2>5, <2>6
<1>6. CASE Commissioning!Project(t)
  <2> DEFINE wait == [Commissioning!Idle EXCEPT !.at = "reconcile", !.then = "done"]
  <2>1. /\ c.at = "project" /\ unsure' = unsure
        /\ setup' = IF setup.open THEN Commissioning!Projected(c.step) ELSE setup
        /\ \/ commissioningCall' = [commissioningCall EXCEPT ![t] = wait]
           \/ commissioningCall' = [commissioningCall EXCEPT ![t] = Commissioning!Idle]
    BY <1>6 DEF Commissioning!Project
  <2>2. PICK new \in {wait, Commissioning!Idle} :
             commissioningCall' = [commissioningCall EXCEPT ![t] = new]
    BY <2>1
  <2>3. new \in Request /\ new.op # "setup" /\ new.at \notin {"continue", "project", "apply"}
        /\ (new.at = "reconcile" => new.then # None)
    BY <2>2, IdleIsRequest, CommissioningNames DEF Request
  <2>4. \A u \in Threads : commissioningCall'[u] = IF u = t THEN new ELSE commissioningCall[u]
    BY <1>1, <2>2
  <2>5. c.step \in Nat
    BY <1>1 DEF Request
  <2>6. /\ SetupShape'
        /\ setup'.step = setup.step
        /\ setup.open => setup'.seen = c.step
        /\ setup'.open => setup.open
    <3> HIDE DEF c
    <3> QED
      BY <1>1, <2>1, <2>5 DEF Commissioning!Projected, SetupShape
  <2>7. CommissioningShape'
    BY <1>1, <1>2, <2>2, <2>3, <2>4, <2>6 DEF CommissioningInv, CommissioningShape, SetupShape
  <2>8. ASSUME ~unsure' PROVE OneFlow'
    <3>1. OneFlow /\ c.op = "setup"
      BY <1>1, <2>1, <2>8 DEF CommissioningInv
    <3>2. setup.open /\ c.step = setup.step
          /\ \A u \in Threads : u # t => commissioningCall[u].op # "setup"
      BY <2>1, <3>1 DEF OneFlow
    <3> QED
      BY <1>1, <2>3, <2>4, <2>6, <3>1, <3>2 DEF OneFlow
  <2> QED
    BY <1>2, <2>7, <2>8 DEF CommissioningInv
<1> QED
  BY <1>3, <1>4, <1>5, <1>6

\* What is heard, and what the connection does.
LEMMA HeardKeeps ==
    ASSUME CommissioningInv,
           \/ Commissioning!TakeIn \/ Commissioning!Drop \/ Commissioning!Return
           \/ \E o \in Objects : Commissioning!Change(o)
    PROVE  CommissioningInv'
<1> USE DEF Commissioning!linkVars, Commissioning!heardVars, Commissioning!graphVars,
            Commissioning!noteVars
<1>1. /\ state \in [Objects -> Nat] /\ node \in [Objects -> {"none", "standing", "retired"}]
      /\ rooms \in [Objects -> SUBSET Rooms]
  BY DEF CommissioningInv, CommissioningShape, SetupShape
<1>2. UNCHANGED <<commissioningCall, setup, unsure, node, rooms, again>>
  BY DEF Commissioning!TakeIn, Commissioning!Drop, Commissioning!Return, Commissioning!Change
<1>3. state' \in [Objects -> Nat]
  BY <1>1 DEF Commissioning!TakeIn, Commissioning!Drop, Commissioning!Return, Commissioning!Change
<1>4. Commissioning!DeviceIsPlaced'
  BY <1>2 DEF CommissioningInv, Commissioning!DeviceIsPlaced
<1> QED
  BY <1>1, <1>2, <1>3, <1>4, NoRequestKeeps

LEMMA CommissioningStep ==
    CommissioningInv /\ [Commissioning!Next]_commissioningVars => CommissioningInv'
<1> SUFFICES ASSUME CommissioningInv, [Commissioning!Next]_commissioningVars
             PROVE  CommissioningInv'
  OBVIOUS
<1>1. CASE UNCHANGED commissioningVars
  <2>1. UNCHANGED <<state, commissioningCall, setup, unsure, node, rooms, again>>
    BY <1>1 DEF commissioningVars
  <2> QED
    BY <2>1 DEF CommissioningInv, CommissioningShape, SetupShape, OneFlow, Commissioning!DeviceIsPlaced
<1>2. CASE \/ Commissioning!TakeIn \/ Commissioning!Drop \/ Commissioning!Return
           \/ \E o \in Objects : Commissioning!Change(o)
  BY <1>2, HeardKeeps
<1>3. ASSUME NEW t \in Threads,
             \/ Commissioning!Reconcile(t) \/ Commissioning!Apply(t) \/ Commissioning!Refresh(t)
             \/ Commissioning!Enable(t) \/ Commissioning!FindZone(t) \/ Commissioning!MakeZone(t)
             \/ Commissioning!Commit(t) \/ Commissioning!Seed(t) \/ Commissioning!Serve(t)
             \/ Commissioning!Verify(t) \/ Commissioning!StartSetup(t)
             \/ Commissioning!Continue(t) \/ Commissioning!Advance(t) \/ Commissioning!Project(t)
      PROVE  CommissioningInv'
  BY <1>3, ReconcileKeeps, RefreshKeeps, TrackerGoesOn, PowerKeeps, CommitMapKeeps, SetupKeeps
<1>4. ASSUME NEW t \in Threads, NEW o \in Objects,
             \/ Commissioning!Remove(t, o) \/ Commissioning!Power(t, o)
             \/ \E place \in FirstSpaces \cup {Household} :
                  Commissioning!Commission(t, o, place) \/ Commissioning!Move(t, o, place)
      PROVE  CommissioningInv'
  BY <1>4, RequestKeeps, PlaceKeeps DEF Rooms
<1> QED
  BY <1>1, <1>2, <1>3, <1>4 DEF Commissioning!Next, Objects

LEMMA CommissioningHolds ==
    CommissioningInv => Commissioning!DeviceIsPlaced /\ Commissioning!StepIsKnown
BY DEF CommissioningInv, OneFlow, Commissioning!StepIsKnown

-----------------------------------------------------------------------------
(* The observer of the network.                                             *)

Record == [active : BOOLEAN \cup {None}, sweeps : Nat, finger : Nat \cup {None}]
Told == IF journal[Len(journal)] = "RECONNECTED" THEN TRUE ELSE FALSE

WifiShape ==
    /\ phone \in BOOLEAN /\ binding \in Nat /\ missed \in Nat
    /\ file \in [state : {None, "READY", "NOT_READY"}, old : BOOLEAN, person : Record]
    /\ file.person.finger # None => file.person.finger <= binding
    /\ sweep \in [at : {"idle", "found", "told"}, raw : BOOLEAN \cup {None},
                  was : BOOLEAN \cup {None}, found : Record]
    /\ journal \in Seq({"RECONNECTED", "DISCONNECTED"})

\* The sweeps that did not find a phone that counts as home are all among those
\* that were written in a row without it.
MissesAreCounted ==
    /\ Wifi!Previous.active = TRUE => Wifi!Previous.sweeps <= missed
    /\ sweep.at # "idle" =>
         /\ sweep.raw \in BOOLEAN /\ sweep.found.active \in BOOLEAN
         /\ sweep.found.finger = binding
         /\ sweep.found.active = TRUE =>
              sweep.found.sweeps <= IF sweep.raw THEN 0
                                    ELSE IF missed < Confirmation THEN missed + 1 ELSE missed
         /\ sweep.was = TRUE /\ sweep.found.active = FALSE => ~sweep.raw /\ missed + 1 >= Confirmation

\* While nothing broke the row of events, the last of them is the baseline.
BaselineIsTold ==
    /\ sweep.at # "told" /\ Wifi!Previous.active # None => Wifi!Previous.active = Told
    /\ sweep.at = "found" => sweep.was # None /\ sweep.was = Told
    /\ sweep.at = "told" => sweep.found.active = Told

WifiInv ==
    /\ WifiShape
    /\ MissesAreCounted
    /\ ~wifiBroken /\ journal # <<>> => BaselineIsTold

LEMMA WifiNames == Confirmation \in Nat /\ None \notin Nat \cup BOOLEAN \cup {"READY", "DEGRADED"}
BY HouseholdAssumption DEF Wifi!WifiAssumption

LEMMA NoRecordIsRecord ==
    Wifi!NoRecord \in Record /\ Wifi!NoRecord.active = None /\ Wifi!NoRecord.finger = None
BY DEF Wifi!NoRecord, Record

LEMMA UnknownIsRecord ==
    ASSUME NEW r \in Record
    PROVE  /\ Wifi!Unknown(r) \in Record /\ Wifi!Unknown(r).active = None
           /\ Wifi!Unknown(r).finger = r.finger
BY DEF Wifi!Unknown, Record

LEMMA PreviousIsRecord ==
    ASSUME WifiShape
    PROVE  /\ Wifi!Previous \in Record
           /\ Wifi!Previous.active # None
                => Wifi!Previous = file.person /\ Wifi!Usable /\ file.person.finger = binding
BY NoRecordIsRecord, UnknownIsRecord DEF Wifi!Previous, WifiShape

\* What a sweep finds, of what was known before it.
LEMMA ProjectIsRecord ==
    ASSUME NEW was \in Record, NEW raw \in BOOLEAN, binding \in Nat
    PROVE  LET found == Wifi!Project(was, raw) IN
           /\ found \in Record /\ found.active \in BOOLEAN /\ found.finger = binding
           /\ found.active = TRUE /\ ~raw => was.active = TRUE /\ found.sweeps = was.sweeps + 1
                                             /\ found.sweeps < Confirmation
           /\ found.active = TRUE /\ raw => found.sweeps = 0
           /\ was.active = TRUE /\ found.active = FALSE => ~raw /\ was.sweeps + 1 >= Confirmation
<1> DEFINE misses == IF raw \/ was.active = None THEN 0
                     ELSE IF was.active THEN was.sweeps + 1 ELSE was.sweeps
<1>0. was.active \in {TRUE, FALSE, None} /\ was.sweeps \in Nat /\ raw \in {TRUE, FALSE}
  BY DEF Record
<1>1. misses \in Nat /\ (raw => misses = 0) /\ (~raw /\ was.active = TRUE => misses = was.sweeps + 1)
  <2>1. CASE raw = TRUE
    <3>1. misses = 0
      BY <1>0, <2>1, WifiNames
    <3> HIDE DEF misses
    <3> QED
      BY <2>1, <3>1
  <2>2. CASE raw = FALSE /\ was.active = None
    <3>1. misses = 0
      BY <1>0, <2>2, WifiNames
    <3> HIDE DEF misses
    <3> QED
      BY <2>2, <3>1, WifiNames
  <2>3. CASE raw = FALSE /\ was.active = TRUE
    <3>1. misses = was.sweeps + 1
      BY <1>0, <2>3, WifiNames
    <3> HIDE DEF misses
    <3> QED
      BY <1>0, <2>3, <3>1
  <2>4. CASE raw = FALSE /\ was.active = FALSE
    <3>1. misses = was.sweeps
      BY <1>0, <2>4, WifiNames
    <3> HIDE DEF misses
    <3> QED
      BY <1>0, <2>4, <3>1
  <2> QED
    BY <1>0, <2>1, <2>2, <2>3, <2>4
<1> HIDE DEF misses
<1>2. Wifi!Project(was, raw) =
        [active |-> raw \/ (was.active = TRUE /\ misses < Confirmation),
         sweeps |-> IF misses < Confirmation THEN misses ELSE Confirmation,
         finger |-> binding]
  BY DEF Wifi!Project, misses
<1> DEFINE found == Wifi!Project(was, raw)
<1>3. found.finger = binding /\ found.sweeps = IF misses < Confirmation THEN misses ELSE Confirmation
  BY <1>2
<1>4. found.active = (raw \/ (was.active = TRUE /\ misses < Confirmation))
  BY <1>2
<1>5. found \in Record
  <2>1. (raw \/ (was.active = TRUE /\ misses < Confirmation)) \in BOOLEAN
    OBVIOUS
  <2>2. (IF misses < Confirmation THEN misses ELSE Confirmation) \in Nat
    BY <1>1, WifiNames
  <2> QED
    BY <1>2, <2>1, <2>2 DEF Record
<1> HIDE DEF found
<1>6. found.active = TRUE /\ ~raw => was.active = TRUE /\ found.sweeps = was.sweeps + 1
                                      /\ found.sweeps < Confirmation
  <2> SUFFICES ASSUME found.active = TRUE, ~raw
               PROVE  was.active = TRUE /\ found.sweeps = was.sweeps + 1 /\ found.sweeps < Confirmation
    OBVIOUS
  <2>1. was.active = TRUE /\ misses < Confirmation
    BY <1>4
  <2> QED
    BY <1>1, <1>3, <2>1
<1>7. found.active = TRUE /\ raw => found.sweeps = 0
  BY <1>1, <1>3, WifiNames
<1>8. was.active = TRUE /\ found.active = FALSE => ~raw /\ was.sweeps + 1 >= Confirmation
  <2> SUFFICES ASSUME was.active = TRUE, found.active = FALSE
               PROVE  ~raw /\ was.sweeps + 1 >= Confirmation
    OBVIOUS
  <2>1. ~raw /\ ~(misses < Confirmation)
    BY <1>4
  <2> QED
    BY <1>0, <1>1, <2>1, WifiNames
<1>9. found.active \in BOOLEAN
  BY <1>4
<1> QED
  BY <1>3, <1>5, <1>6, <1>7, <1>8, <1>9 DEF found

LEMMA IdleIsSweep ==
    /\ Wifi!Idle \in [at : {"idle", "found", "told"}, raw : BOOLEAN \cup {None},
                      was : BOOLEAN \cup {None}, found : Record]
    /\ Wifi!Idle.at = "idle"
BY NoRecordIsRecord DEF Wifi!Idle

LEMMA WifiStart == Wifi!Init => WifiInv
<1> SUFFICES ASSUME Wifi!Init PROVE WifiInv
  OBVIOUS
<1> USE DEF Wifi!Init
<1>1. WifiShape
  BY IdleIsSweep, NoRecordIsRecord DEF WifiShape
<1>2. Wifi!Previous.active = None
  BY <1>1, NoRecordIsRecord, WifiNames, PreviousIsRecord DEF Wifi!Usable
<1>3. MissesAreCounted
  BY <1>2, IdleIsSweep, WifiNames DEF MissesAreCounted
<1> QED
  BY <1>1, <1>3 DEF WifiInv

\* A step that begins and ends between sweeps keeps what the file is worth, or
\* makes it worth nothing.
LEMMA BetweenSweeps ==
    ASSUME WifiInv, WifiShape', sweep.at = "idle", sweep' = sweep,
           UNCHANGED journal, wifiBroken' = wifiBroken,
           Wifi!Previous.active' = None \/ UNCHANGED <<file, binding, missed>>
    PROVE  WifiInv'
<1>1. CASE Wifi!Previous.active' = None
  <2>1. MissesAreCounted'
    BY <1>1, WifiNames DEF WifiInv, MissesAreCounted
  <2>2. BaselineIsTold'
    BY <1>1 DEF BaselineIsTold
  <2> QED
    BY <2>1, <2>2 DEF WifiInv
<1>2. CASE UNCHANGED <<file, binding, missed>>
  <2>1. Wifi!Previous' = Wifi!Previous
    BY <1>2 DEF Wifi!Previous, Wifi!Usable, Wifi!Unknown
  <2> QED
    BY <1>2, <2>1 DEF WifiInv, MissesAreCounted, BaselineIsTold, Told
<1> QED
  BY <1>1, <1>2

LEMMA SweepKeeps == ASSUME WifiInv, Wifi!Sweep PROVE WifiInv'
<1> DEFINE was == Wifi!Previous
           found == Wifi!Project(was, phone)
<1>1. /\ sweep.at = "idle"
      /\ sweep' = [at |-> "found", raw |-> phone, was |-> was.active, found |-> found]
      /\ wifiBroken' = (wifiBroken \/ was.active = None)
      /\ UNCHANGED <<phone, binding, file, journal, missed>>
  BY DEF Wifi!Sweep
<1>2. WifiShape /\ was \in Record /\ phone \in BOOLEAN /\ binding \in Nat /\ missed \in Nat
  BY PreviousIsRecord DEF WifiInv, WifiShape
<1>3. /\ found \in Record /\ found.active \in BOOLEAN /\ found.finger = binding
      /\ found.active = TRUE /\ ~phone => was.active = TRUE /\ found.sweeps = was.sweeps + 1
                                          /\ found.sweeps < Confirmation
      /\ found.active = TRUE /\ phone => found.sweeps = 0
      /\ was.active = TRUE /\ found.active = FALSE => ~phone /\ was.sweeps + 1 >= Confirmation
  BY <1>2, ProjectIsRecord
<1>4. Wifi!Previous' = was
  BY <1>1 DEF Wifi!Previous, Wifi!Usable, Wifi!Unknown
<1> HIDE DEF was, found
<1>5. /\ sweep'.at = "found" /\ sweep'.raw = phone /\ sweep'.was = was.active /\ sweep'.found = found
  BY <1>1
<1>6. was.active \in BOOLEAN \cup {None} /\ was.sweeps \in Nat
  BY <1>2 DEF Record
<1>7. WifiShape'
  BY <1>1, <1>2, <1>3, <1>6 DEF WifiShape
<1>8. was.active = TRUE => was.sweeps <= missed
  BY DEF WifiInv, MissesAreCounted, was
<1>9. MissesAreCounted'
  <2>1. phone => (sweep'.found.active = TRUE => sweep'.found.sweeps <= 0)
    BY <1>3, <1>5
  <2>2. ~phone => (sweep'.found.active = TRUE
                     => sweep'.found.sweeps <= IF missed < Confirmation THEN missed + 1 ELSE missed)
    BY <1>2, <1>3, <1>5, <1>6, <1>8, WifiNames
  <2>3. sweep'.was = TRUE /\ sweep'.found.active = FALSE => ~phone /\ missed + 1 >= Confirmation
    BY <1>2, <1>3, <1>5, <1>6, <1>8, WifiNames
  <2> QED
    BY <1>1, <1>2, <1>3, <1>4, <1>5, <1>8, <2>1, <2>2, <2>3 DEF MissesAreCounted
<1>10. ASSUME ~wifiBroken', journal' # <<>> PROVE BaselineIsTold'
  <2>1. was.active # None /\ BaselineIsTold
    BY <1>1, <1>10 DEF WifiInv
  <2>2. was.active = Told
    BY <1>1, <2>1 DEF BaselineIsTold, was
  <2>3. Told' = Told
    BY <1>1 DEF Told
  <2> QED
    BY <1>4, <1>5, <2>1, <2>2, <2>3 DEF BaselineIsTold
<1> QED
  BY <1>7, <1>9, <1>10 DEF WifiInv

\* An event is appended where what the sweep found differs from what was known.
LEMMA AnnounceKeeps == ASSUME WifiInv, Wifi!Announce PROVE WifiInv'
<1> DEFINE event == IF sweep.found.active THEN "RECONNECTED" ELSE "DISCONNECTED"
<1>1. /\ sweep.at = "found" /\ journal' = Append(journal, event)
      /\ sweep' = [sweep EXCEPT !.at = "told"]
      /\ UNCHANGED <<phone, binding, file, missed>>
  BY DEF Wifi!Announce
<1>2. /\ sweep \in [at : {"idle", "found", "told"}, raw : BOOLEAN \cup {None},
                    was : BOOLEAN \cup {None}, found : Record]
      /\ journal \in Seq({"RECONNECTED", "DISCONNECTED"})
      /\ sweep.found.active \in BOOLEAN
  BY <1>1 DEF WifiInv, WifiShape, MissesAreCounted
<1>3. /\ sweep'.at = "told" /\ sweep'.raw = sweep.raw /\ sweep'.was = sweep.was
      /\ sweep'.found = sweep.found
      /\ sweep' \in [at : {"idle", "found", "told"}, raw : BOOLEAN \cup {None},
                     was : BOOLEAN \cup {None}, found : Record]
  BY <1>1, <1>2
<1>4. journal' \in Seq({"RECONNECTED", "DISCONNECTED"}) /\ journal'[Len(journal')] = event
  BY <1>1, <1>2
<1>5. Told' = sweep.found.active
  <2>1. CASE sweep.found.active = TRUE
    BY <1>4, <2>1 DEF Told
  <2>2. CASE sweep.found.active = FALSE
    BY <1>4, <2>2 DEF Told
  <2> QED
    BY <1>2, <2>1, <2>2
<1>6. WifiShape'
  BY <1>1, <1>3, <1>4 DEF WifiInv, WifiShape
<1>7. Wifi!Previous' = Wifi!Previous
  BY <1>1 DEF Wifi!Previous, Wifi!Usable, Wifi!Unknown
<1>8. MissesAreCounted'
  BY <1>1, <1>3, <1>7 DEF WifiInv, MissesAreCounted
<1>9. BaselineIsTold'
  BY <1>3, <1>5 DEF BaselineIsTold
<1> QED
  BY <1>6, <1>8, <1>9 DEF WifiInv

\* The file that is written holds what was told, and counts what was missed.
LEMMA WriteKeepsWifi == ASSUME WifiInv, Wifi!Write PROVE WifiInv'
<1>1. /\ sweep.at = "told" \/ (sweep.at = "found" /\ ~Wifi!Edge)
      /\ file' = [state |-> "READY", old |-> FALSE, person |-> sweep.found]
      /\ sweep' = Wifi!Idle
      /\ missed' = IF sweep.raw THEN 0 ELSE IF missed < Confirmation THEN missed + 1 ELSE missed
      /\ UNCHANGED <<phone, binding, journal, wifiBroken>>
  BY DEF Wifi!Write
<1>2. /\ WifiShape /\ MissesAreCounted /\ sweep.raw \in BOOLEAN /\ missed \in Nat
      /\ sweep.found \in Record /\ sweep.found.finger = binding /\ binding \in Nat
      /\ sweep.found.active \in BOOLEAN /\ sweep.was \in BOOLEAN \cup {None}
  BY <1>1 DEF WifiInv, WifiShape, MissesAreCounted
<1>3. missed' \in Nat
  BY <1>1, <1>2
<1>4. WifiShape'
  BY <1>1, <1>2, <1>3, IdleIsSweep DEF WifiShape
<1>5. Wifi!Previous' = sweep.found
  BY <1>1, <1>2 DEF Wifi!Previous, Wifi!Usable
<1>6. sweep'.at = "idle"
  BY <1>1, IdleIsSweep
<1>7. sweep.found.active = TRUE => sweep.found.sweeps <= missed'
  BY <1>1, <1>2 DEF MissesAreCounted
<1>8. MissesAreCounted'
  BY <1>5, <1>6, <1>7 DEF MissesAreCounted
<1>9. ASSUME ~wifiBroken', journal' # <<>> PROVE BaselineIsTold'
  <2>1. BaselineIsTold
    BY <1>1, <1>9 DEF WifiInv
  <2>2. sweep.found.active = Told
    <3>1. CASE sweep.at = "told"
      BY <2>1, <3>1 DEF BaselineIsTold
    <3>2. CASE sweep.at = "found" /\ ~Wifi!Edge
      <4>1. sweep.was # None /\ sweep.was = Told
        BY <2>1, <3>2 DEF BaselineIsTold
      <4>2. sweep.was \in {TRUE, FALSE} /\ sweep.found.active \in {TRUE, FALSE}
        BY <1>2, <4>1
      <4>3. sweep.found.active = sweep.was
        <5>1. {sweep.was, sweep.found.active} # {TRUE, FALSE}
          BY <3>2 DEF Wifi!Edge
        <5>2. ASSUME sweep.was = TRUE, sweep.found.active = FALSE PROVE FALSE
          BY <5>1, <5>2
        <5>3. ASSUME sweep.was = FALSE, sweep.found.active = TRUE PROVE FALSE
          <6>1. {FALSE, TRUE} = {TRUE, FALSE}
            OBVIOUS
          <6> QED
            BY <5>1, <5>3, <6>1
        <5>4. CASE sweep.was = TRUE
          <6>1. sweep.found.active # FALSE
            BY <5>2, <5>4
          <6> QED
            BY <4>2, <5>4, <6>1
        <5>5. CASE sweep.was = FALSE
          <6>1. sweep.found.active # TRUE
            BY <5>3, <5>5
          <6> QED
            BY <4>2, <5>5, <6>1
        <5> QED
          BY <4>2, <5>4, <5>5
      <4> QED
        BY <4>1, <4>3
    <3> QED
      BY <1>1, <3>1, <3>2
  <2>3. Told' = Told
    BY <1>1 DEF Told
  <2> QED
    BY <1>5, <1>6, <2>2, <2>3 DEF BaselineIsTold
<1> QED
  BY <1>4, <1>8, <1>9 DEF WifiInv

LEMMA WifiStep == WifiInv /\ [Wifi!Next]_wifiVars => WifiInv'
<1> SUFFICES ASSUME WifiInv, [Wifi!Next]_wifiVars PROVE WifiInv'
  OBVIOUS
<1>0. WifiShape /\ file.person \in Record /\ binding \in Nat
  BY DEF WifiInv, WifiShape
<1>1. ASSUME UNCHANGED <<binding, file, sweep, journal, missed, wifiBroken>>, phone' \in BOOLEAN
      PROVE  WifiInv'
  <2>1. Wifi!Previous' = Wifi!Previous /\ Told' = Told
    BY <1>1 DEF Wifi!Previous, Wifi!Usable, Wifi!Unknown, Told
  <2> QED
    BY <1>1, <2>1 DEF WifiInv, WifiShape, MissesAreCounted, BaselineIsTold
<1>2. CASE UNCHANGED wifiVars \/ Wifi!Move
  <2>1. UNCHANGED <<binding, file, sweep, journal, missed, wifiBroken>> /\ phone' \in BOOLEAN
    BY <1>0, <1>2 DEF wifiVars, Wifi!Move, WifiShape
  <2> QED
    BY <1>1, <2>1
<1>3. CASE Wifi!Outage
  <2>1. /\ sweep.at = "idle" /\ file' = Wifi!Withheld /\ missed' = 0
        /\ UNCHANGED <<phone, binding, sweep, journal, wifiBroken>>
    BY <1>3 DEF Wifi!Outage
  <2>2. WifiShape'
    BY <1>0, <2>1, UnknownIsRecord DEF WifiShape, Wifi!Withheld
  <2>3. Wifi!Previous'.active = None
    <3>1. file'.state = "NOT_READY" /\ file'.person.finger = file.person.finger
          /\ file'.person = Wifi!Unknown(file.person)
      BY <1>0, <2>1, UnknownIsRecord DEF Wifi!Withheld
    <3>2. file'.person.active = None
      BY <1>0, <3>1, UnknownIsRecord
    <3> QED
      BY <2>2, <3>1, <3>2, PreviousIsRecord, UnknownIsRecord, NoRecordIsRecord
      DEF Wifi!Previous, Wifi!Usable, WifiShape
  <2> QED
    BY <2>1, <2>2, <2>3, BetweenSweeps
<1>4. CASE Wifi!GrowOld
  <2>1. /\ sweep.at = "idle" /\ file' = [file EXCEPT !.old = TRUE] /\ missed' = 0
        /\ UNCHANGED <<phone, binding, sweep, journal, wifiBroken>>
    BY <1>4 DEF Wifi!GrowOld
  <2>2. WifiShape'
    BY <1>0, <2>1 DEF WifiShape
  <2>3. file'.old = TRUE /\ file'.person \in Record
    BY <1>0, <2>1 DEF WifiShape
  <2>4. Wifi!Previous'.active = None
    BY <2>3, UnknownIsRecord, NoRecordIsRecord DEF Wifi!Previous, Wifi!Usable
  <2> QED
    BY <2>1, <2>2, <2>4, BetweenSweeps
<1>5. CASE Wifi!Rebind
  <2>1. /\ sweep.at = "idle" /\ binding' = binding + 1 /\ missed' = 0
        /\ UNCHANGED <<phone, file, sweep, journal, wifiBroken>>
    BY <1>5 DEF Wifi!Rebind
  <2>2. WifiShape'
    BY <1>0, <2>1 DEF WifiShape, Record
  <2>3. file'.person.finger # binding'
    BY <1>0, <2>1, WifiNames DEF WifiShape, Record
  <2>4. Wifi!Previous'.active = None
    BY <2>3, NoRecordIsRecord DEF Wifi!Previous
  <2> QED
    BY <2>1, <2>2, <2>4, BetweenSweeps
<1>6. CASE Wifi!Die
  <2>1. /\ sweep.at # "idle" /\ sweep' = Wifi!Idle
        /\ wifiBroken' = (wifiBroken \/ sweep.at = "told")
        /\ UNCHANGED <<phone, binding, file, journal, missed>>
    BY <1>6 DEF Wifi!Die
  <2>2. WifiShape' /\ sweep'.at = "idle"
    BY <1>0, <2>1, IdleIsSweep DEF WifiShape
  <2>3. Wifi!Previous' = Wifi!Previous /\ Told' = Told
    BY <2>1 DEF Wifi!Previous, Wifi!Usable, Wifi!Unknown, Told
  <2>4. MissesAreCounted'
    BY <2>1, <2>2, <2>3 DEF WifiInv, MissesAreCounted
  <2>5. ASSUME ~wifiBroken', journal' # <<>> PROVE BaselineIsTold'
    BY <2>1, <2>2, <2>3, <2>5 DEF WifiInv, BaselineIsTold
  <2> QED
    BY <2>2, <2>4, <2>5 DEF WifiInv
<1> QED
  BY <1>2, <1>3, <1>4, <1>5, <1>6, SweepKeeps, AnnounceKeeps, WriteKeepsWifi DEF Wifi!Next

LEMMA WifiHolds == WifiInv /\ [Wifi!Next]_wifiVars => [Wifi!EdgeIsEarned]_(Wifi!wifiVars)
<1> SUFFICES ASSUME WifiInv, Wifi!Next, journal' # journal PROVE Wifi!EdgeIsEarned
  BY DEF wifiVars, Wifi!wifiVars, Wifi!EdgeIsEarned
<1> DEFINE event == IF sweep.found.active THEN "RECONNECTED" ELSE "DISCONNECTED"
<1>1. Wifi!Announce
  BY DEF Wifi!Next, Wifi!Sweep, Wifi!Write, Wifi!Outage, Wifi!Die, Wifi!GrowOld, Wifi!Move,
         Wifi!Rebind
<1>2. /\ sweep.at = "found" /\ Wifi!Edge /\ journal' = Append(journal, event)
      /\ journal \in Seq({"RECONNECTED", "DISCONNECTED"})
      /\ sweep.found.active \in BOOLEAN /\ sweep.was \in BOOLEAN \cup {None}
  BY <1>1 DEF Wifi!Announce, WifiInv, WifiShape, MissesAreCounted
<1>3. journal'[Len(journal')] = event
  BY <1>2
<1>4. /\ sweep.found.active = TRUE => sweep.was = FALSE
      /\ sweep.found.active = FALSE => sweep.was = TRUE
  <2>1. {sweep.was, sweep.found.active} = {TRUE, FALSE}
    BY <1>2 DEF Wifi!Edge
  <2>2. TRUE \in {sweep.was, sweep.found.active} /\ FALSE \in {sweep.was, sweep.found.active}
    BY <2>1
  <2>3. TRUE # FALSE
    OBVIOUS
  <2> QED
    BY <2>2, <2>3
<1>5. event = "DISCONNECTED" => ~sweep.raw /\ missed + 1 >= Confirmation
  <2>1. CASE sweep.found.active = TRUE
    BY <2>1
  <2>2. CASE sweep.found.active = FALSE
    BY <1>2, <1>4, <2>2 DEF WifiInv, MissesAreCounted
  <2> QED
    BY <1>2, <2>1, <2>2
<1>6. ASSUME journal # <<>>, ~wifiBroken PROVE event # journal[Len(journal)]
  <2>1. sweep.was = Told
    BY <1>2, <1>6 DEF WifiInv, BaselineIsTold
  <2>2. CASE sweep.found.active = TRUE
    BY <1>4, <2>1, <2>2 DEF Told
  <2>3. CASE sweep.found.active = FALSE
    BY <1>4, <2>1, <2>3 DEF Told
  <2> QED
    BY <1>2, <2>2, <2>3
<1> QED
  BY <1>3, <1>5, <1>6 DEF Wifi!EdgeIsEarned

-----------------------------------------------------------------------------
(* The forecast, of a review or of the owner.                               *)

Forecasts == Forecast!Forecasts
Final == Forecast!Final

ForecastShape ==
    /\ clock \in Nat /\ version \in Nat /\ shadow \in Forecasts \cup {None}
    /\ DOMAIN reviewedThread = Threads
    /\ \A t \in Threads : {"at", "report"} \subseteq DOMAIN reviewedThread[t]

\* What an evaluator has read is the version it says, and was not final.
ReadersAreBound ==
    \A t \in Threads : reviewedThread[t].at = "judge" =>
        /\ reviewedThread[t].shadow \in Forecasts /\ reviewedThread[t].shadow.disposition \notin Final
        /\ reviewedThread[t].version \in Nat /\ reviewedThread[t].version <= version
        /\ reviewedThread[t].version = version => reviewedThread[t].shadow = shadow

\* A review's forecast is the review's, and "frozen" is said of one that is there;
\* the owner's forecast has no review.
AsOrdered(origin) ==
    /\ origin = "REVIEW" => /\ shadow # None => shadow.by = "REVIEW"
                            /\ \A t \in Threads : reviewedThread[t].at # "write"
    /\ origin = "OWNER" => /\ completions = {}
                           /\ \A t \in Threads : reviewedThread[t].at \notin {"freeze", "complete"}
    /\ "FROZEN" \in completions => shadow # None
    /\ \A t \in Threads :
         reviewedThread[t].at = "complete" /\ reviewedThread[t].report = "FROZEN" => shadow # None

ForecastInv(origin) == ForecastShape /\ ReadersAreBound /\ AsOrdered(origin)

LEMMA ForecastNames == Count \in Nat /\ Grace \in Nat /\ None \notin Forecasts
BY HouseholdAssumption DEF Forecast!ForecastAssumption, Forecasts

LEMMA FreeIsIdle == {"at", "report"} \subseteq DOMAIN Forecast!Free /\ Forecast!Free.at = "idle"
BY DEF Forecast!Free

LEMMA ForecastStart ==
    ASSUME NEW origin, Forecast!Init \/ Ordered!Init
    PROVE  ForecastInv(origin)
BY FreeIsIdle DEF Forecast!Init, Ordered!Init, Ordered!Free, Forecast!Free, ForecastInv,
                  ForecastShape, ReadersAreBound, AsOrdered

\* Both have the same steps but for who begins.
LEMMA SameSteps ==
    Ordered!Next =>
        \/ Forecast!Tick \/ Forecast!Observe \/ Forecast!Revoke \/ Forecast!Decide \/ Forecast!Retire
        \/ \E t \in Threads : \/ Ordered!Choose(t) \/ Ordered!Look(t)
                              \/ Forecast!Freeze(t) \/ Forecast!Complete(t)
                              \/ Forecast!WriteChosen(t) \/ Forecast!Judge(t)
<1> SUFFICES ASSUME Ordered!Next
             PROVE  \/ Forecast!Tick \/ Forecast!Observe \/ Forecast!Revoke \/ Forecast!Decide
                    \/ Forecast!Retire
                    \/ \E t \in Threads : \/ Ordered!Choose(t) \/ Ordered!Look(t)
                                          \/ Forecast!Freeze(t) \/ Forecast!Complete(t)
                                          \/ Forecast!WriteChosen(t) \/ Forecast!Judge(t)
  OBVIOUS
<1>1. \A t \in Threads : ~Ordered!Commission(t)
  BY DEF Ordered!Commission
<1>2. /\ Ordered!Tick => Forecast!Tick
      /\ Ordered!Observe => Forecast!Observe
      /\ Ordered!Revoke => Forecast!Revoke
      /\ Ordered!Decide => Forecast!Decide
      /\ Ordered!Retire => Forecast!Retire
  BY DEF Ordered!Tick, Ordered!Observe, Ordered!Revoke, Ordered!Decide, Ordered!Retire,
         Ordered!Edit, Ordered!reviewVars,
         Forecast!Tick, Forecast!Observe, Forecast!Revoke, Forecast!Decide, Forecast!Retire,
         Forecast!Edit, Forecast!reviewVars
<1>3. ASSUME NEW t \in Threads
      PROVE  /\ Ordered!Freeze(t) => Forecast!Freeze(t)
             /\ Ordered!Complete(t) => Forecast!Complete(t)
             /\ Ordered!WriteChosen(t) => Forecast!WriteChosen(t)
  BY DEF Ordered!Freeze, Ordered!Complete, Ordered!WriteChosen, Ordered!ConsentStands, Ordered!Ahead,
         Ordered!Write, Ordered!Replaced, Ordered!Standing, Ordered!Free,
         Forecast!Freeze, Forecast!Complete, Forecast!WriteChosen, Forecast!ConsentStands,
         Forecast!Ahead, Forecast!Write, Forecast!Replaced, Forecast!Standing, Forecast!Free
<1>4. ASSUME NEW t \in Threads PROVE Ordered!Judge(t) => Forecast!Judge(t)
  <2>1. \A covered : Ordered!Judged(t, covered) = Forecast!Judged(t, covered)
    BY DEF Ordered!Judged, Ordered!ClosedByNow, Ordered!Closed, Ordered!Reviewed, Ordered!Score,
           Ordered!InTime, Ordered!Late, Ordered!Start,
           Forecast!Judged, Forecast!ClosedByNow, Forecast!Closed, Forecast!Reviewed, Forecast!Score,
           Forecast!InTime, Forecast!Late, Forecast!Start
  <2> QED
    BY <2>1 DEF Ordered!Judge, Forecast!Judge, Ordered!Free, Forecast!Free
<1> QED
  BY <1>1, <1>2, <1>3, <1>4 DEF Ordered!Next

\* The windows that have closed since are those up to one of them.
LEMMA DueHasLast ==
    ASSUME NEW s \in Forecasts, clock \in Nat, NEW n \in Nat, NEW due, due # {},
           \A i : i \in due <=> i \in Forecast!ClosedByNow(s) /\ i > n
    PROVE  \E k \in due : k \in Nat /\ k > n /\ \A j \in due : j <= k
<1> DEFINE most == clock - s.frozen - Grace
           bound == IF Count <= most THEN Count ELSE most
<1>1. s.frozen \in Nat /\ Count \in Nat /\ Grace \in Nat
  BY ForecastNames DEF Forecasts, Forecast!Forecasts
<1>2. \A i : i \in due <=> i \in 1..Count /\ i <= most /\ i > n
  BY <1>1 DEF Forecast!ClosedByNow, Forecast!Closed
<1>3. most \in Int
  BY <1>1
<1>4. \A i \in due : i <= bound
  BY <1>1, <1>2, <1>3
<1> HIDE DEF most
<1>5. bound \in due /\ bound \in Nat /\ bound > n
  BY <1>1, <1>2, <1>3, <1>4
<1> QED
  BY <1>4, <1>5

\* What an evaluation makes of the forecast it has read.
LEMMA JudgedIsForecast ==
    ASSUME NEW t \in Threads, reviewedThread[t].shadow \in Forecasts, clock \in Nat, NEW covered
    PROVE  LET s == reviewedThread[t].shadow
               new == Forecast!Judged(t, covered)
           IN /\ new \in Forecasts /\ new.by = s.by
              /\ \A i \in 1..Len(s.windows) :
                   new.windows[i] = s.windows[i] \/ new.windows[i] = "UNKNOWN"
<1> DEFINE s == reviewedThread[t].shadow
           page == reviewedThread[t].page
           due == {i \in Forecast!ClosedByNow(s) : i > Len(s.windows)}
           n == Len(s.windows)
           k == IF due = {} THEN n ELSE CHOOSE k \in due : \A j \in due : j <= k
           Verdict(i) == IF i <= n THEN Forecast!Reviewed(s, i, page)
                         ELSE Forecast!Score(s, i, page, i \in covered)
           windows == [i \in 1..k |-> Verdict(i)]
<1>1. s \in Forecasts /\ n \in Nat /\ s.windows \in Seq(Forecast!Verdicts)
  BY DEF Forecasts, Forecast!Forecasts
<1>2. k \in Nat /\ k >= n
  <2>1. CASE due = {}
    BY <1>1, <2>1
  <2>2. CASE due # {}
    <3>1. \E m \in due : m \in Nat /\ m > n /\ \A j \in due : j <= m
      BY <1>1, <2>2, DueHasLast
    <3> HIDE DEF due, n
    <3>2. k \in due /\ \A j \in due : j <= k
      BY <2>2, <3>1
    <3> HIDE DEF k
    <3>3. k \in Nat /\ k > n
      BY <3>2, ForecastNames DEF due, n, Forecast!ClosedByNow
    <3> QED
      BY <1>1, <3>3 DEF n
  <2> QED
    BY <2>1, <2>2
<1> HIDE DEF k
<1>3. \A i \in 1..k : Verdict(i) \in Forecast!Verdicts
  BY <1>1 DEF Forecast!Verdicts, Forecast!Reviewed, Forecast!Score
<1>4. windows \in Seq(Forecast!Verdicts)
  <2> HIDE DEF Verdict
  <2> QED
    BY <1>2, <1>3
<1>5. \A i \in 1..n : windows[i] = s.windows[i] \/ windows[i] = "UNKNOWN"
  <2> SUFFICES ASSUME NEW i \in 1..n
               PROVE  windows[i] = s.windows[i] \/ windows[i] = "UNKNOWN"
    OBVIOUS
  <2>1. i \in 1..k /\ i <= n
    BY <1>1, <1>2
  <2>2. windows[i] = Forecast!Reviewed(s, i, page)
    BY <2>1
  <2> QED
    BY <2>2 DEF Forecast!Reviewed
<1> DEFINE new == Forecast!Judged(t, covered)
<1>6. \/ \E d \in {"INVALIDATED_SOURCE", "CANCELLED_SAVED_REVIEW", "SUPERSEDED_HYPOTHESIS"} :
           new = [s EXCEPT !.disposition = d]
      \/ \E d \in {"EVIDENCE_PENDING", "WINDOW_CLOSED_UNKNOWN_COVERAGE", "WINDOW_SCORED"} :
           new = [s EXCEPT !.windows = windows, !.disposition = d]
  BY DEF Forecast!Judged, k
<1> HIDE DEF new, windows, s, n
<1>7. CASE \E d \in {"INVALIDATED_SOURCE", "CANCELLED_SAVED_REVIEW", "SUPERSEDED_HYPOTHESIS"} :
             new = [s EXCEPT !.disposition = d]
  <2>1. new \in Forecasts /\ new.by = s.by /\ new.windows = s.windows
    BY <1>1, <1>7 DEF Forecasts, Forecast!Forecasts, Forecast!Final
  <2> QED
    BY <2>1 DEF new, s
<1>8. CASE \E d \in {"EVIDENCE_PENDING", "WINDOW_CLOSED_UNKNOWN_COVERAGE", "WINDOW_SCORED"} :
             new = [s EXCEPT !.windows = windows, !.disposition = d]
  <2>1. new \in Forecasts /\ new.by = s.by /\ new.windows = windows
    BY <1>1, <1>4, <1>8 DEF Forecasts, Forecast!Forecasts
  <2> QED
    BY <1>5, <2>1 DEF new, s, n
<1> QED
  BY <1>6, <1>7, <1>8

\* Each step that keeps the forecast.
LEMMA ForecastStays ==
    ASSUME NEW origin \in {"REVIEW", "OWNER"}, ForecastInv(origin), clock' \in Nat,
           UNCHANGED <<completions, shadow, version, reviewedThread>>
    PROVE  ForecastInv(origin)' /\ Forecast!ForecastStep
<1>1. ForecastInv(origin)'
  BY DEF ForecastInv, ForecastShape, ReadersAreBound, AsOrdered
<1>2. "FROZEN" \in completions' => shadow' # None /\ shadow'.by = "REVIEW"
  BY DEF ForecastInv, AsOrdered
<1> QED
  BY <1>1, <1>2 DEF Forecast!ForecastStep

LEMMA FreezeKeeps ==
    ASSUME NEW origin \in {"REVIEW", "OWNER"}, ForecastInv(origin), NEW t \in Threads,
           Forecast!Freeze(t)
    PROVE  ForecastInv(origin)' /\ Forecast!ForecastStep
<1> DEFINE answer == IF ~consent THEN "NOT_ELIGIBLE"
                     ELSE IF shadow' # None THEN "FROZEN" ELSE "INSUFFICIENT_SUPPORTED_PREDICTION"
           new == [reviewedThread[t] EXCEPT !.at = "complete", !.report = answer]
<1>1. /\ reviewedThread[t].at = "freeze"
      /\ \/ consent /\ shadow = None /\ Forecast!Write("REVIEW")
         \/ UNCHANGED <<shadow, version>>
      /\ UNCHANGED <<clock, completions>>
  BY DEF Forecast!Freeze, Forecast!ConsentStands
<1>2. reviewedThread' = [reviewedThread EXCEPT ![t] = new]
  BY DEF Forecast!Freeze, Forecast!ConsentStands, ForecastInv, ForecastShape
<1>3. origin = "REVIEW" /\ DOMAIN reviewedThread = Threads
  BY <1>1 DEF ForecastInv, AsOrdered, ForecastShape
<1>4. {"at", "report"} \subseteq DOMAIN new /\ new.at = "complete" /\ new.report = answer
  BY DEF ForecastInv, ForecastShape
<1> HIDE DEF new
<1>5. \A u \in Threads : reviewedThread'[u] = IF u = t THEN new ELSE reviewedThread[u]
  BY <1>2, <1>3
<1>6. /\ shadow' \in Forecasts \cup {None} /\ version' \in Nat
      /\ shadow # None => shadow' = shadow
      /\ shadow' # None => shadow'.by = "REVIEW"
      /\ shadow' # shadow => version' = version + 1 /\ consent
      /\ version' # version => version' = version + 1
  <2>1. CASE UNCHANGED <<shadow, version>>
    BY <1>3, <2>1 DEF ForecastInv, ForecastShape, AsOrdered
  <2>2. CASE consent /\ shadow = None /\ Forecast!Write("REVIEW")
    <3>1. /\ shadow' = [by |-> "REVIEW", frozen |-> clock, disposition |-> "EVIDENCE_PENDING", windows |-> <<>>]
          /\ version' = version + 1 /\ clock \in Nat /\ version \in Nat
      BY <2>2 DEF Forecast!Write, ForecastInv, ForecastShape
    <3>2. shadow' \in Forecasts
      BY <3>1 DEF Forecasts, Forecast!Forecasts
    <3> QED
      BY <2>2, <3>1, <3>2
  <2> QED
    BY <1>1, <2>1, <2>2
<1>7. ForecastShape'
  BY <1>1, <1>2, <1>3, <1>4, <1>5, <1>6 DEF ForecastInv, ForecastShape
<1>8. ReadersAreBound'
  BY <1>1, <1>4, <1>5, <1>6 DEF ForecastInv, ForecastShape, ReadersAreBound
<1>9. AsOrdered(origin)'
  BY <1>1, <1>3, <1>4, <1>5, <1>6 DEF ForecastInv, AsOrdered
<1>10. Forecast!ForecastStep
  BY <1>1, <1>3, <1>6 DEF Forecast!ForecastStep, ForecastInv, AsOrdered
<1> QED
  BY <1>7, <1>8, <1>9, <1>10 DEF ForecastInv

LEMMA CompleteKeeps ==
    ASSUME NEW origin \in {"REVIEW", "OWNER"}, ForecastInv(origin), NEW t \in Threads,
           Forecast!Complete(t)
    PROVE  ForecastInv(origin)' /\ Forecast!ForecastStep
<1>1. /\ reviewedThread[t].at = "complete"
      /\ completions' \subseteq completions \cup {reviewedThread[t].report}
      /\ reviewedThread' = [reviewedThread EXCEPT ![t] = Forecast!Free]
      /\ UNCHANGED <<clock, shadow, version>>
  BY DEF Forecast!Complete, Forecast!Replaced
<1>2. origin = "REVIEW" /\ DOMAIN reviewedThread = Threads
  BY <1>1 DEF ForecastInv, AsOrdered, ForecastShape
<1>3. \A u \in Threads : reviewedThread'[u] = IF u = t THEN Forecast!Free ELSE reviewedThread[u]
  BY <1>1, <1>2
<1>4. "FROZEN" \in completions' => shadow # None /\ shadow.by = "REVIEW"
  BY <1>1, <1>2 DEF ForecastInv, AsOrdered
<1>5. ForecastShape' /\ ReadersAreBound' /\ AsOrdered(origin)'
  BY <1>1, <1>2, <1>3, <1>4, FreeIsIdle
  DEF ForecastInv, ForecastShape, ReadersAreBound, AsOrdered
<1>6. Forecast!ForecastStep
  BY <1>1, <1>4 DEF Forecast!ForecastStep
<1> QED
  BY <1>5, <1>6 DEF ForecastInv

\* A request of the review, or of the owner, begins.
LEMMA BeginsKeeps ==
    ASSUME NEW origin \in {"REVIEW", "OWNER"}, ForecastInv(origin), NEW t \in Threads, NEW new,
           {"at", "report"} \subseteq DOMAIN new,
           \/ origin = "REVIEW" /\ new.at \in {"freeze", "complete"} /\ new.report # "FROZEN"
           \/ origin = "OWNER" /\ new.at = "write",
           reviewedThread' = [reviewedThread EXCEPT ![t] = new],
           UNCHANGED <<clock, completions, shadow, version>>
    PROVE  ForecastInv(origin)' /\ Forecast!ForecastStep
<1>1. DOMAIN reviewedThread = Threads
  BY DEF ForecastInv, ForecastShape
<1>2. \A u \in Threads : reviewedThread'[u] = IF u = t THEN new ELSE reviewedThread[u]
  BY <1>1
<1>3. ForecastShape' /\ ReadersAreBound' /\ AsOrdered(origin)'
  BY <1>1, <1>2 DEF ForecastInv, ForecastShape, ReadersAreBound, AsOrdered
<1>4. Forecast!ForecastStep
  BY DEF Forecast!ForecastStep, ForecastInv, AsOrdered
<1> QED
  BY <1>3, <1>4 DEF ForecastInv

LEMMA ChosenKeeps ==
    ASSUME NEW origin \in {"REVIEW", "OWNER"}, ForecastInv(origin), NEW t \in Threads,
           Forecast!WriteChosen(t)
    PROVE  ForecastInv(origin)' /\ Forecast!ForecastStep
<1>1. /\ reviewedThread[t].at = "write"
      /\ \/ shadow = None /\ Forecast!Write("OWNER")
         \/ UNCHANGED <<shadow, version>>
      /\ reviewedThread' = [reviewedThread EXCEPT ![t] = Forecast!Free]
      /\ UNCHANGED <<clock, completions>>
  BY DEF Forecast!WriteChosen
<1>2. origin = "OWNER" /\ DOMAIN reviewedThread = Threads /\ completions = {}
  BY <1>1 DEF ForecastInv, AsOrdered, ForecastShape
<1>3. \A u \in Threads : reviewedThread'[u] = IF u = t THEN Forecast!Free ELSE reviewedThread[u]
  BY <1>1, <1>2
<1>4. /\ shadow' \in Forecasts \cup {None} /\ version' \in Nat
      /\ shadow # None => shadow' = shadow
      /\ shadow' # shadow => version' = version + 1 /\ shadow'.by = "OWNER"
      /\ version' # version => version' = version + 1
  <2>1. CASE UNCHANGED <<shadow, version>>
    BY <2>1 DEF ForecastInv, ForecastShape
  <2>2. CASE shadow = None /\ Forecast!Write("OWNER")
    <3>1. /\ shadow' = [by |-> "OWNER", frozen |-> clock, disposition |-> "EVIDENCE_PENDING", windows |-> <<>>]
          /\ version' = version + 1 /\ clock \in Nat /\ version \in Nat
      BY <2>2 DEF Forecast!Write, ForecastInv, ForecastShape
    <3>2. shadow' \in Forecasts
      BY <3>1 DEF Forecasts, Forecast!Forecasts
    <3> QED
      BY <2>2, <3>1, <3>2
  <2> QED
    BY <1>1, <2>1, <2>2
<1>5. ForecastShape'
  BY <1>1, <1>2, <1>3, <1>4, FreeIsIdle DEF ForecastInv, ForecastShape
<1>6. ReadersAreBound'
  BY <1>1, <1>3, <1>4, FreeIsIdle DEF ForecastInv, ForecastShape, ReadersAreBound
<1>7. AsOrdered(origin)'
  BY <1>1, <1>2, <1>3, <1>4, FreeIsIdle DEF ForecastInv, AsOrdered
<1>8. Forecast!ForecastStep
  BY <1>1, <1>2, <1>4 DEF Forecast!ForecastStep
<1> QED
  BY <1>5, <1>6, <1>7, <1>8 DEF ForecastInv

LEMMA LookKeeps ==
    ASSUME NEW origin \in {"REVIEW", "OWNER"}, ForecastInv(origin), NEW t \in Threads, NEW new,
           shadow # None, shadow.disposition \notin Final,
           {"at", "report"} \subseteq DOMAIN new, new.at = "judge", new.shadow = shadow,
           new.version = version,
           reviewedThread' = [reviewedThread EXCEPT ![t] = new],
           UNCHANGED <<clock, completions, shadow, version>>
    PROVE  ForecastInv(origin)' /\ Forecast!ForecastStep
<1>1. DOMAIN reviewedThread = Threads
  BY DEF ForecastInv, ForecastShape
<1>2. \A u \in Threads : reviewedThread'[u] = IF u = t THEN new ELSE reviewedThread[u]
  BY <1>1
<1>3. ForecastShape' /\ ReadersAreBound' /\ AsOrdered(origin)'
  BY <1>1, <1>2 DEF ForecastInv, ForecastShape, ReadersAreBound, AsOrdered
<1>4. Forecast!ForecastStep
  BY DEF Forecast!ForecastStep, ForecastInv, AsOrdered
<1> QED
  BY <1>3, <1>4 DEF ForecastInv

\* A verdict replaces only the version it was made of, and no window of it gets
\* more certain.
LEMMA JudgeKeeps ==
    ASSUME NEW origin \in {"REVIEW", "OWNER"}, ForecastInv(origin), NEW t \in Threads,
           Forecast!Judge(t)
    PROVE  ForecastInv(origin)' /\ Forecast!ForecastStep
<1>1. PICK covered \in SUBSET (1..Count) :
           IF reviewedThread[t].version = version /\ Forecast!Judged(t, covered) # shadow
           THEN shadow' = Forecast!Judged(t, covered) /\ version' = version + 1
           ELSE UNCHANGED <<shadow, version>>
  BY DEF Forecast!Judge
<1>2. /\ reviewedThread[t].at = "judge"
      /\ reviewedThread' = [reviewedThread EXCEPT ![t] = Forecast!Free]
      /\ UNCHANGED <<clock, completions>>
  BY DEF Forecast!Judge
<1>3. /\ DOMAIN reviewedThread = Threads /\ clock \in Nat /\ version \in Nat
      /\ reviewedThread[t].shadow \in Forecasts
      /\ reviewedThread[t].version = version => reviewedThread[t].shadow = shadow
      /\ reviewedThread[t].shadow.disposition \notin Final
  BY <1>2 DEF ForecastInv, ForecastShape, ReadersAreBound
<1>4. \A u \in Threads : reviewedThread'[u] = IF u = t THEN Forecast!Free ELSE reviewedThread[u]
  BY <1>2, <1>3
<1>5. /\ shadow' # shadow =>
           /\ version' = version + 1 /\ shadow \in Forecasts /\ shadow.disposition \notin Final
           /\ shadow' \in Forecasts /\ shadow'.by = shadow.by
           /\ \A i \in 1..Len(shadow.windows) :
                shadow'.windows[i] = shadow.windows[i] \/ shadow'.windows[i] = "UNKNOWN"
      /\ version' # version => version' = version + 1
      /\ shadow' = shadow => version' = version
  <2> DEFINE new == Forecast!Judged(t, covered)
  <2>1. /\ new \in Forecasts /\ new.by = reviewedThread[t].shadow.by
        /\ \A i \in 1..Len(reviewedThread[t].shadow.windows) :
             \/ new.windows[i] = reviewedThread[t].shadow.windows[i]
             \/ new.windows[i] = "UNKNOWN"
    BY <1>3, JudgedIsForecast
  <2> HIDE DEF new
  <2>2. CASE reviewedThread[t].version = version /\ new # shadow
    <3>1. shadow' = new /\ version' = version + 1 /\ reviewedThread[t].shadow = shadow
      BY <1>1, <1>3, <2>2 DEF new
    <3> QED
      BY <1>3, <2>1, <2>2, <3>1
  <2>3. CASE ~(reviewedThread[t].version = version /\ new # shadow)
    BY <1>1, <2>3 DEF new
  <2> QED
    BY <2>2, <2>3
<1>6. shadow' \in Forecasts \cup {None} /\ version' \in Nat
  BY <1>3, <1>5 DEF ForecastInv, ForecastShape
<1>7. ForecastShape'
  BY <1>2, <1>3, <1>4, <1>6, FreeIsIdle DEF ForecastInv, ForecastShape
<1>8. ReadersAreBound'
  <2> SUFFICES ASSUME NEW u \in Threads, reviewedThread'[u].at = "judge"
               PROVE  /\ reviewedThread'[u].shadow \in Forecasts
                      /\ reviewedThread'[u].shadow.disposition \notin Final
                      /\ reviewedThread'[u].version \in Nat /\ reviewedThread'[u].version <= version'
                      /\ reviewedThread'[u].version = version' => reviewedThread'[u].shadow = shadow'
    BY DEF ReadersAreBound, Final, Forecast!Final
  <2>1. reviewedThread'[u] = reviewedThread[u] /\ reviewedThread[u].at = "judge"
    BY <1>4, FreeIsIdle
  <2> QED
    BY <1>3, <1>5, <2>1 DEF ForecastInv, ReadersAreBound
<1>9. shadow # None => shadow' # None /\ shadow'.by = shadow.by
  BY <1>5, ForecastNames
<1>10. shadow = None => shadow' = None
  BY <1>5, ForecastNames
<1>11. AsOrdered(origin)'
  BY <1>2, <1>4, <1>9, <1>10, FreeIsIdle DEF ForecastInv, AsOrdered
<1>12. Forecast!ForecastStep
  <2>1. "FROZEN" \in completions' => shadow' # None /\ shadow'.by = "REVIEW"
    BY <1>2, <1>9 DEF ForecastInv, AsOrdered
  <2> QED
    BY <1>5, <1>10, <2>1 DEF Forecast!ForecastStep, Final
<1> QED
  BY <1>7, <1>8, <1>11, <1>12 DEF ForecastInv

\* What the household does, and the steps that both have.
LEMMA CommonKeeps ==
    ASSUME NEW origin \in {"REVIEW", "OWNER"}, ForecastInv(origin),
           \/ Forecast!Tick \/ Forecast!Observe \/ Forecast!Revoke \/ Forecast!Decide
           \/ Forecast!Retire
           \/ \E t \in Threads : \/ Forecast!Freeze(t) \/ Forecast!Complete(t)
                                 \/ Forecast!WriteChosen(t) \/ Forecast!Judge(t)
    PROVE  ForecastInv(origin)' /\ Forecast!ForecastStep
<1>1. clock \in Nat
  BY DEF ForecastInv, ForecastShape
<1>2. CASE Forecast!Tick \/ Forecast!Revoke \/ Forecast!Decide \/ Forecast!Retire
  BY <1>1, <1>2, ForecastStays
  DEF Forecast!Tick, Forecast!Revoke, Forecast!Decide, Forecast!Retire, Forecast!reviewVars
<1>3. CASE Forecast!Observe
  BY <1>1, <1>3, ForecastStays DEF Forecast!Observe
<1> QED
  BY <1>2, <1>3, FreezeKeeps, CompleteKeeps, ChosenKeeps, JudgeKeeps

LEMMA ReviewedStep ==
    ForecastInv("REVIEW") /\ [Forecast!Next]_reviewedVars
        => ForecastInv("REVIEW")' /\ [Forecast!ForecastStep]_(Forecast!forecastVars)
<1> SUFFICES ASSUME ForecastInv("REVIEW"), [Forecast!Next]_reviewedVars
             PROVE  ForecastInv("REVIEW")' /\ [Forecast!ForecastStep]_(Forecast!forecastVars)
  OBVIOUS
<1>1. CASE UNCHANGED reviewedVars
  BY <1>1 DEF reviewedVars, Forecast!forecastVars, ForecastInv, ForecastShape, ReadersAreBound,
              AsOrdered
<1>2. ASSUME NEW t \in Threads, Forecast!Commission(t)
      PROVE  ForecastInv("REVIEW")' /\ Forecast!ForecastStep
  <2>1. PICK previous :
          reviewedThread' = [reviewedThread EXCEPT ![t] =
              [Forecast!Free EXCEPT !.at = IF consent THEN "freeze" ELSE "complete",
                                    !.report = "NOT_ELIGIBLE", !.hypothesis = hypothesis,
                                    !.previous = previous]]
    BY <1>2 DEF Forecast!Commission
  <2> DEFINE new == [Forecast!Free EXCEPT !.at = IF consent THEN "freeze" ELSE "complete",
                                          !.report = "NOT_ELIGIBLE", !.hypothesis = hypothesis,
                                          !.previous = previous]
  <2>2. /\ {"at", "report"} \subseteq DOMAIN new /\ new.at \in {"freeze", "complete"}
        /\ new.report # "FROZEN"
    BY DEF Forecast!Free
  <2>3. UNCHANGED <<clock, completions, shadow, version>>
    BY <1>2 DEF Forecast!Commission
  <2> HIDE DEF new
  <2>4. reviewedThread' = [reviewedThread EXCEPT ![t] = new]
    BY <2>1 DEF new
  <2> QED
    BY <2>2, <2>3, <2>4, BeginsKeeps
<1>3. ASSUME NEW t \in Threads, Forecast!Look(t)
      PROVE  ForecastInv("REVIEW")' /\ Forecast!ForecastStep
  <2> DEFINE new == [Forecast!Free EXCEPT
                       !.at = "judge", !.consent = consent \/ "REVIEW" = "OWNER",
                       !.source = source \/ "REVIEW" = "OWNER", !.hypothesis = hypothesis,
                       !.shadow = shadow, !.version = version, !.page = recorded]
  <2>1. /\ shadow # None /\ shadow.disposition \notin Final
        /\ reviewedThread' = [reviewedThread EXCEPT ![t] = new]
        /\ UNCHANGED <<clock, completions, shadow, version>>
    BY <1>3 DEF Forecast!Look, Final
  <2>2. /\ {"at", "report"} \subseteq DOMAIN new /\ new.at = "judge" /\ new.shadow = shadow
        /\ new.version = version
    BY DEF Forecast!Free
  <2> HIDE DEF new
  <2> QED
    BY <2>1, <2>2, LookKeeps
<1>4. ASSUME NEW t \in Threads PROVE ~Forecast!Choose(t)
  BY DEF Forecast!Choose
<1> QED
  BY <1>1, <1>2, <1>3, <1>4, CommonKeeps DEF Forecast!Next

LEMMA OwnedStep ==
    ForecastInv("OWNER") /\ [Ordered!Next]_reviewedVars
        => ForecastInv("OWNER")' /\ [Forecast!ForecastStep]_(Forecast!forecastVars)
<1> SUFFICES ASSUME ForecastInv("OWNER"), [Ordered!Next]_reviewedVars
             PROVE  ForecastInv("OWNER")' /\ [Forecast!ForecastStep]_(Forecast!forecastVars)
  OBVIOUS
<1>1. CASE UNCHANGED reviewedVars
  BY <1>1 DEF reviewedVars, Forecast!forecastVars, ForecastInv, ForecastShape, ReadersAreBound,
              AsOrdered
<1>2. ASSUME NEW t \in Threads, Ordered!Choose(t)
      PROVE  ForecastInv("OWNER")' /\ Forecast!ForecastStep
  <2> DEFINE new == [Ordered!Free EXCEPT !.at = "write"]
  <2>1. /\ reviewedThread' = [reviewedThread EXCEPT ![t] = new]
        /\ UNCHANGED <<clock, completions, shadow, version>>
    BY <1>2 DEF Ordered!Choose
  <2>2. {"at", "report"} \subseteq DOMAIN new /\ new.at = "write"
    BY DEF Ordered!Free
  <2> HIDE DEF new
  <2> QED
    BY <2>1, <2>2, BeginsKeeps
<1>3. ASSUME NEW t \in Threads, Ordered!Look(t)
      PROVE  ForecastInv("OWNER")' /\ Forecast!ForecastStep
  <2> DEFINE new == [Ordered!Free EXCEPT
                       !.at = "judge", !.consent = consent \/ "OWNER" = "OWNER",
                       !.source = source \/ "OWNER" = "OWNER", !.hypothesis = hypothesis,
                       !.shadow = shadow, !.version = version, !.page = recorded]
  <2>1. /\ shadow # None /\ shadow.disposition \notin Final
        /\ reviewedThread' = [reviewedThread EXCEPT ![t] = new]
        /\ UNCHANGED <<clock, completions, shadow, version>>
    BY <1>3 DEF Ordered!Look, Final, Ordered!Final, Forecast!Final
  <2>2. /\ {"at", "report"} \subseteq DOMAIN new /\ new.at = "judge" /\ new.shadow = shadow
        /\ new.version = version
    BY DEF Ordered!Free
  <2> HIDE DEF new
  <2> QED
    BY <2>1, <2>2, LookKeeps
<1> QED
  BY <1>1, <1>2, <1>3, CommonKeeps, SameSteps

-----------------------------------------------------------------------------
(* What a trigger's request may know.                                       *)

\* A request is there only with its packet, and a hand-off that is about to make
\* one has stored its packet or found one.
ContextInv ==
    /\ DOMAIN contextRun = Threads
    /\ \A t \in Threads : /\ "at" \in DOMAIN contextRun[t]
                          /\ contextRun[t].at = "enqueue" => contextStored # {}
    /\ contextRequest # {} => contextStored # {}

LEMMA AwayIsIdle == "at" \in DOMAIN Context!Away /\ Context!Away.at = "idle"
BY DEF Context!Away

LEMMA ContextStart == Context!Init => ContextInv
BY AwayIsIdle DEF Context!Init, ContextInv

\* A hand-off that goes on to anything but its request.
LEMMA GoesElsewhere ==
    ASSUME ContextInv, NEW t \in Threads, NEW r, NEW at, "at" \in DOMAIN r, at # "enqueue",
           Context!Goes(t, r, at), UNCHANGED <<contextStored, contextRequest>>
    PROVE  ContextInv'
<1>1. contextRun' = [contextRun EXCEPT ![t] = [r EXCEPT !.at = at]]
  BY DEF Context!Goes
<1>2. [r EXCEPT !.at = at].at = at /\ "at" \in DOMAIN [r EXCEPT !.at = at]
  OBVIOUS
<1>3. \A u \in Threads : contextRun'[u] = IF u = t THEN [r EXCEPT !.at = at] ELSE contextRun[u]
  BY <1>1 DEF ContextInv
<1> QED
  BY <1>1, <1>2, <1>3 DEF ContextInv

LEMMA SectionIsRun ==
    ASSUME NEW r, NEW s, NEW sorted, "at" \in DOMAIN r
    PROVE  "at" \in DOMAIN Context!Section(r, s, sorted)
BY DEF Context!Section

LEMMA ReadsKeep ==
    ASSUME ContextInv, NEW t \in Threads, NEW at, NEW next, NEW done, next # "enqueue",
           "at" \in DOMAIN done, Context!Reads(t, at, next, done)
    PROVE  ContextInv'
<1>1. UNCHANGED <<contextStored, contextRequest>>
  BY DEF Context!Reads, Context!Reading, Context!keptVars
<1>2. CASE Context!Goes(t, done, next)
  BY <1>1, <1>2, GoesElsewhere
<1>3. CASE Context!Goes(t, [contextRun[t] EXCEPT !.ready = @ /\ at # "source"], next)
  <2>1. "at" \in DOMAIN [contextRun[t] EXCEPT !.ready = @ /\ at # "source"]
    BY DEF ContextInv
  <2> QED
    BY <1>1, <1>3, <2>1, GoesElsewhere
<1> QED
  BY <1>2, <1>3 DEF Context!Reads

LEMMA HandOffKeeps ==
    ASSUME ContextInv, NEW t \in Threads, Context!HandOff(t)
    PROVE  ContextInv'
<1> DEFINE r == contextRun[t]
<1>0. "at" \in DOMAIN r
  BY DEF ContextInv
<1>1. CASE Context!Source(t) \/ Context!Graph(t) \/ Context!Truth(t) \/ Context!Recent(t)
           \/ Context!Memory(t)
  <2>1. "at" \in DOMAIN Context!GraphRead(t)
    BY <1>0, SectionIsRun DEF Context!GraphRead
  <2> QED
    BY <1>0, <1>1, <2>1, SectionIsRun, ReadsKeep
    DEF Context!Source, Context!Graph, Context!Truth, Context!Recent, Context!Memory,
        Context!TruthRead, Context!RecentRead, Context!MemoryRead
<1>2. CASE Context!Tools(t)
  BY <1>0, <1>2, SectionIsRun, GoesElsewhere
  DEF Context!Tools, Context!Reading, Context!keptVars
<1>3. CASE Context!Prune(t)
  <2>1. "at" \in DOMAIN Context!Pruned(r)
    BY <1>0 DEF Context!Pruned
  <2> QED
    BY <1>0, <1>3, <2>1, AwayIsIdle, GoesElsewhere
    DEF Context!Prune, Context!Reading, Context!keptVars
<1>4. CASE Context!Die(t)
  BY <1>4, AwayIsIdle, GoesElsewhere DEF Context!Die, Context!keptVars
<1>5. CASE Context!Persist(t)
  <2>1. /\ contextStored' # {} /\ contextRequest' = contextRequest
        /\ contextRun' = [contextRun EXCEPT ![t] = [r EXCEPT !.at = "enqueue"]]
    BY <1>5 DEF Context!Persist, Context!Kept, Context!Goes
  <2>2. "at" \in DOMAIN [r EXCEPT !.at = "enqueue"]
    BY <1>0
  <2> QED
    BY <2>1, <2>2 DEF ContextInv
<1>6. CASE Context!Begin(t)
  <2> DEFINE at == IF contextStored = {} THEN "source" ELSE "enqueue"
             new == [[Context!Away EXCEPT !.loaded = contextStored] EXCEPT !.at = at]
  <2>1. /\ contextRun' = [contextRun EXCEPT ![t] = new]
        /\ UNCHANGED <<contextStored, contextRequest>>
    BY <1>6 DEF Context!Begin, Context!Goes, Context!keptVars
  <2>2. "at" \in DOMAIN new /\ new.at = at
    BY AwayIsIdle
  <2> HIDE DEF new
  <2>3. \A u \in Threads : contextRun'[u] = IF u = t THEN new ELSE contextRun[u]
    BY <2>1 DEF ContextInv
  <2>4. DOMAIN contextRun' = Threads
    BY <2>1 DEF ContextInv
  <2> QED
    BY <2>1, <2>2, <2>3, <2>4 DEF ContextInv
<1>7. CASE Context!Enqueue(t)
  <2> DEFINE new == [Context!Away EXCEPT !.at = "idle"]
  <2>1. /\ r.at = "enqueue" /\ contextStored' = contextStored
        /\ contextRun' = [contextRun EXCEPT ![t] = new]
    BY <1>7 DEF Context!Enqueue, Context!Goes
  <2>2. "at" \in DOMAIN new /\ new.at = "idle"
    BY AwayIsIdle
  <2> HIDE DEF new
  <2>3. \A u \in Threads : contextRun'[u] = IF u = t THEN new ELSE contextRun[u]
    BY <2>1 DEF ContextInv
  <2>4. DOMAIN contextRun' = Threads
    BY <2>1 DEF ContextInv
  <2> QED
    BY <2>1, <2>2, <2>3, <2>4 DEF ContextInv
<1> QED
  BY <1>1, <1>2, <1>3, <1>4, <1>5, <1>6, <1>7 DEF Context!HandOff

LEMMA ContextStep == ContextInv /\ [Context!Next]_contextVars => ContextInv'
<1> SUFFICES ASSUME ContextInv, [Context!Next]_contextVars PROVE ContextInv'
  OBVIOUS
<1>1. CASE UNCHANGED contextVars
  BY <1>1 DEF contextVars, ContextInv
<1>2. CASE Context!House
  BY <1>2 DEF Context!House, Context!keptVars, ContextInv
<1> QED
  BY <1>1, <1>2, HandOffKeeps DEF Context!Next

LEMMA ContextHolds ==
    ContextInv /\ [Context!Next]_contextVars => [Context!PacketStays]_(Context!contextVars)
<1> SUFFICES ASSUME ContextInv, Context!Next PROVE Context!PacketStays
  BY DEF contextVars, Context!contextVars, Context!houseVars, Context!keptVars
<1>1. CASE UNCHANGED <<contextStored, contextRequest>>
  BY <1>1 DEF ContextInv, Context!PacketStays
<1>2. ASSUME NEW t \in Threads, Context!Persist(t) PROVE Context!PacketStays
  BY <1>2 DEF ContextInv, Context!PacketStays, Context!Persist, Context!Kept
<1>3. ASSUME NEW t \in Threads, Context!Enqueue(t) PROVE Context!PacketStays
  BY <1>3 DEF ContextInv, Context!PacketStays, Context!Enqueue
<1>4. ASSUME NEW t \in Threads,
             \/ Context!Begin(t) \/ Context!Source(t) \/ Context!Graph(t) \/ Context!Truth(t)
             \/ Context!Recent(t) \/ Context!Memory(t) \/ Context!Tools(t) \/ Context!Prune(t)
             \/ Context!Die(t)
      PROVE  Context!PacketStays
  BY <1>1, <1>4
  DEF Context!Begin, Context!Source, Context!Graph, Context!Truth, Context!Recent,
      Context!Memory, Context!Tools, Context!Prune, Context!Die, Context!Reads,
      Context!Reading, Context!keptVars
<1>5. CASE Context!House
  BY <1>1, <1>5 DEF Context!House, Context!keptVars
<1> QED
  BY <1>2, <1>3, <1>4, <1>5 DEF Context!Next, Context!HandOff

-----------------------------------------------------------------------------
(* The truth of what is commissioned.                                       *)

\* An event of the object is on its way under the provider's key.
StaleLive(o) ==
    commissioningLive # None /\ commissioningLive.object = o /\ ~commissioningLive.home

\* Nothing is on its way under the provider's key that the journal does not have.
LiveIsKnown(o) == StaleLive(o) => commissioningLive.n \in commissioningJournaled[o]

HeardShape ==
    /\ \A o \in Objects : state[o] > 0
    /\ commissioningJournaled \in [Objects -> SUBSET Nat]
    /\ heard \in [Objects -> Nat] /\ known \in [Objects -> Nat]
    /\ \A o \in Objects : \A n \in commissioningJournaled[o] : n <= known[o] \/ n <= heard[o]
    /\ commissioningLive # None =>
         /\ commissioningLive.object \in Objects \cap commissioningEnabled
         /\ commissioningLive.n = state[commissioningLive.object]
         /\ commissioningLive.home \in BOOLEAN

\* A commissioning goes on from the mapping of its object. The snapshot it takes then
\* has what is still on its way under the provider's key; once it was applied, the
\* journal has it.
CallIsBound(t) ==
    LET c == commissioningCall[t] o == c.object IN
    /\ c.at \in {"enable", "zone", "makezone", "commit", "seed", "power", "verify"}
         \/ c.then \in {"zone", "seed"} => o \in Objects
    /\ c.at = "seed" => c.then = "seed"
    /\ c.then = "seed" => c.at \in {"reconcile", "apply", "seed"}
    /\ c.then = "seed" => node[o] # "none"
    /\ c.at = "apply" /\ c.then = "seed" /\ node[o] = "standing" /\ StaleLive(o)
         => c.seen[o] = commissioningLive.n
    /\ c.at = "seed" /\ o \notin blind /\ node[o] = "standing" => LiveIsKnown(o)

ReadyIsBound(o) ==
    /\ o \in Objects /\ node[o] = "standing"
    /\ o \notin blind => LiveIsKnown(o) /\ \A n \in commissioningJournaled[o] : n <= known[o]

BindingInv ==
    /\ HeardShape
    /\ \A t \in Threads : CallIsBound(t)
    /\ \A o \in ready : ReadyIsBound(o)

\* A request that is not that of a mapped object.
Plain(c) ==
    /\ c.at # "seed" /\ c.then # "seed"
    /\ c.at \in {"enable", "zone", "makezone", "commit", "power", "verify"} \/ c.then = "zone"
         => c.object \in Objects

\* What is heard is only added to.
HearsMore ==
    /\ commissioningJournaled' \in [Objects -> SUBSET Nat]
    /\ heard' \in [Objects -> Nat] /\ known' \in [Objects -> Nat]
    /\ \A o \in Objects : /\ commissioningJournaled[o] \subseteq commissioningJournaled'[o]
                          /\ heard[o] <= heard'[o] /\ known[o] <= known'[o]

LEMMA IngestedHears ==
    ASSUME HeardShape, NEW o \in Objects, NEW n \in Nat, NEW home \in BOOLEAN,
           Commissioning!Ingested(o, n, home)
    PROVE  /\ HearsMore
           /\ \A p \in Objects : \A m \in commissioningJournaled'[p] \ commissioningJournaled[p] :
                p = o /\ m = n /\ (home => n <= known'[o]) /\ (~home => n <= heard'[o])
<1> USE DEF Objects
<1>1. /\ commissioningJournaled \in [Objects -> SUBSET Nat]
      /\ heard \in [Objects -> Nat] /\ known \in [Objects -> Nat]
  BY DEF HeardShape
<1>2. CASE n = 0 \/ n \in commissioningJournaled[o]
  BY <1>1, <1>2 DEF HearsMore, Commissioning!Ingested, Commissioning!heardVars
<1>3. CASE ~(n = 0 \/ n \in commissioningJournaled[o])
  <2>1. /\ commissioningJournaled' = [commissioningJournaled EXCEPT ![o] = @ \cup {n}]
        /\ home => known' = [known EXCEPT ![o] = IF known[o] > n THEN known[o] ELSE n] /\ heard' = heard
        /\ ~home => heard' = [heard EXCEPT ![o] = IF heard[o] > n THEN heard[o] ELSE n] /\ known' = known
    BY <1>3 DEF Commissioning!Ingested, Commissioning!Newer
  <2>2. CASE home
    BY <1>1, <2>1, <2>2 DEF HearsMore
  <2>3. CASE ~home
    BY <1>1, <2>1, <2>3 DEF HearsMore
  <2> QED
    BY <2>2, <2>3
<1> QED
  BY <1>2, <1>3

LEMMA MergedHears ==
    ASSUME HeardShape, NEW snapshot \in [Objects -> Nat], NEW objects,
           Commissioning!Merged(snapshot, objects)
    PROVE  /\ HearsMore
           /\ \A p \in Objects : \A m \in commissioningJournaled'[p] \ commissioningJournaled[p] :
                /\ node[p] = "standing" => m <= known'[p]
                /\ node[p] # "standing" => m <= heard'[p]
           /\ \A p \in Objects \cap objects : snapshot[p] # 0 => snapshot[p] \in commissioningJournaled'[p]
<1> DEFINE new == {o \in objects : snapshot[o] # 0 /\ snapshot[o] \notin commissioningJournaled[o]}
           Higher(i, j) == IF i > j THEN i ELSE j
<1>1. /\ commissioningJournaled \in [Objects -> SUBSET Nat]
      /\ heard \in [Objects -> Nat] /\ known \in [Objects -> Nat]
  BY DEF HeardShape
<1>2. /\ commissioningJournaled' = [o \in Objects |-> IF o \in new THEN commissioningJournaled[o] \cup {snapshot[o]}
                                                       ELSE commissioningJournaled[o]]
      /\ heard' = [o \in Objects |-> IF o \in new /\ node[o] # "standing" THEN Higher(heard[o], snapshot[o])
                                     ELSE heard[o]]
      /\ known' = [o \in Objects |-> IF o \in new /\ node[o] = "standing" THEN Higher(known[o], snapshot[o])
                                     ELSE known[o]]
  BY DEF Commissioning!Merged, Commissioning!Mapped, Commissioning!Newer, Objects
<1>3. \A p \in Objects : p \in new <=> p \in objects /\ snapshot[p] # 0 /\ snapshot[p] \notin commissioningJournaled[p]
  OBVIOUS
<1> HIDE DEF new
<1>4. HearsMore
  BY <1>1, <1>2 DEF HearsMore
<1>5. \A p \in Objects : \A m \in commissioningJournaled'[p] \ commissioningJournaled[p] :
        /\ node[p] = "standing" => m <= known'[p]
        /\ node[p] # "standing" => m <= heard'[p]
  BY <1>1, <1>2
<1>6. \A p \in Objects \cap objects : snapshot[p] # 0 => snapshot[p] \in commissioningJournaled'[p]
  BY <1>1, <1>2, <1>3
<1> QED
  BY <1>4, <1>5, <1>6

\* While the mapping and what is commissioned stay, more is heard, what was on its
\* way may arrive, and requests go on bound.
LEMMA BindingKept ==
    ASSUME BindingInv, HearsMore, UNCHANGED <<state, node, ready>>,
           commissioningEnabled \subseteq commissioningEnabled', blind \subseteq blind',
           commissioningLive' \in {commissioningLive, None},
           \A o \in Objects : \A n \in commissioningJournaled'[o] \ commissioningJournaled[o] :
             /\ n <= known'[o] \/ n <= heard'[o]
             /\ o \in ready \ blind => n <= known'[o],
           \A u \in Threads : commissioningCall'[u] = commissioningCall[u] \/ CallIsBound(u)'
    PROVE  BindingInv'
<1>1. HeardShape'
  BY DEF BindingInv, HeardShape, HearsMore
<1>2. ASSUME NEW o \in Objects, LiveIsKnown(o) PROVE LiveIsKnown(o)'
  BY <1>2 DEF LiveIsKnown, StaleLive, HearsMore
<1>3. ASSUME NEW u \in Threads, commissioningCall'[u] = commissioningCall[u] PROVE CallIsBound(u)'
  <2>1. CallIsBound(u)
    BY DEF BindingInv
  <2>2. \A o : StaleLive(o)' => StaleLive(o) /\ commissioningLive' = commissioningLive
    BY DEF StaleLive
  <2> QED
    BY <1>2, <1>3, <2>1, <2>2 DEF CallIsBound
<1>4. ASSUME NEW o \in ready' PROVE ReadyIsBound(o)'
  <2>1. ReadyIsBound(o)
    BY <1>4 DEF BindingInv
  <2>2. ASSUME o \notin blind', NEW n \in commissioningJournaled'[o] PROVE n <= known'[o]
    <3>1. CASE n \in commissioningJournaled[o]
      BY <2>1, <2>2, <3>1 DEF ReadyIsBound, HearsMore, BindingInv, HeardShape
    <3>2. CASE n \notin commissioningJournaled[o]
      BY <1>4, <2>1, <2>2, <3>2 DEF ReadyIsBound
    <3> QED
      BY <3>1, <3>2
  <2> QED
    BY <1>2, <2>1, <2>2 DEF ReadyIsBound
<1> QED
  BY <1>1, <1>3, <1>4 DEF BindingInv

LEMMA HearsNothing ==
    ASSUME BindingInv, UNCHANGED <<commissioningJournaled, heard, known>>
    PROVE  HearsMore
BY DEF BindingInv, HeardShape, HearsMore

\* One thread goes on with something else, and nothing is heard.
LEMMA PlainBinds ==
    ASSUME CommissioningInv, BindingInv, NEW t \in Threads, NEW c, Plain(c),
           commissioningCall' = [commissioningCall EXCEPT ![t] = c],
           UNCHANGED <<state, node, ready, commissioningJournaled, heard, known, commissioningLive>>,
           commissioningEnabled \subseteq commissioningEnabled', blind \subseteq blind'
    PROVE  BindingInv'
<1>1. \A u \in Threads : commissioningCall'[u] = IF u = t THEN c ELSE commissioningCall[u]
  BY DEF CommissioningInv, CommissioningShape
<1>2. CallIsBound(t)'
  BY <1>1 DEF CallIsBound, Plain
<1> QED
  BY <1>1, <1>2, HearsNothing, BindingKept

LEMMA IdleIsPlain == Plain(Commissioning!Idle)
BY CommissioningNames DEF Plain, Commissioning!Idle


\* The requests of a tracker, of the power and of the flow hear nothing.
LEMMA RequestsBind ==
    ASSUME CommissioningInv, BindingInv, NEW t \in Threads,
           \/ Commissioning!Refresh(t) \/ Commissioning!Enable(t) \/ Commissioning!FindZone(t)
           \/ Commissioning!MakeZone(t) \/ Commissioning!Serve(t)
           \/ Commissioning!StartSetup(t) \/ Commissioning!Continue(t)
           \/ Commissioning!Advance(t) \/ Commissioning!Project(t)
    PROVE  BindingInv'
<1> DEFINE c == commissioningCall[t]
           At(at) == [c EXCEPT !.at = at]
           wait == [c EXCEPT !.at = "reconcile", !.then = "zone"]
           looks == [Commissioning!Idle EXCEPT !.at = "reconcile", !.then = "done"]
           refresh == [Commissioning!Idle EXCEPT !.at = "reconcile", !.op = "refresh", !.then = "done"]
           continue == [Commissioning!Idle EXCEPT !.at = "continue", !.op = "setup", !.step = setup.seen]
           Stepped(step) == [c EXCEPT !.at = "project", !.step = step]
           Sent(applied) == [c EXCEPT !.at = "verify", !.applied = applied]
<1> USE DEF Commissioning!linkVars, Commissioning!heardVars, Commissioning!graphVars,
            Commissioning!noteVars, Commissioning!Goes, Commissioning!Starts
<1>1. c \in Request /\ CallIsBound(t)
  BY DEF CommissioningInv, CommissioningShape, BindingInv
<1>2. /\ UNCHANGED <<state, node, ready, commissioningJournaled, heard, known, commissioningLive>>
      /\ commissioningEnabled \subseteq commissioningEnabled' /\ blind \subseteq blind'
  BY DEF Commissioning!Refresh, Commissioning!Enable, Commissioning!FindZone,
         Commissioning!MakeZone, Commissioning!Serve, Commissioning!StartSetup,
         Commissioning!Continue, Commissioning!Advance, Commissioning!Project
<1>3. /\ c.at \in {"enable", "zone", "makezone", "power", "continue"} => c.then # "seed"
      /\ c.at \in {"enable", "zone", "makezone", "power"} \/ c.then = "zone" => c.object \in Objects
  BY <1>1 DEF CallIsBound
<1>4. /\ \A at \in {"commit", "makezone"} :
           c.at \in {"zone", "makezone"} => Plain(At(at))
      /\ c.at = "enable" => Plain(wait)
      /\ \A applied : c.at = "power" => Plain(Sent(applied))
      /\ \A step : c.at = "continue" => Plain(Stepped(step))
  <2> HIDE DEF c
  <2> QED
    BY <1>1, <1>3 DEF Plain, Request
<1>5. Plain(looks) /\ Plain(refresh) /\ Plain(continue)
  BY CommissioningNames, IdleIsRequest DEF Plain, Request
<1>6. PICK next : Plain(next) /\ commissioningCall' = [commissioningCall EXCEPT ![t] = next]
  <2>1. CASE Commissioning!Refresh(t)
    BY <1>5, <2>1 DEF Commissioning!Refresh
  <2>2. CASE Commissioning!Enable(t)
    BY <1>4, <2>2, IdleIsPlain DEF Commissioning!Enable
  <2>3. CASE Commissioning!FindZone(t)
    <3>1. c.at = "zone" /\ \E at \in {"commit", "makezone"} :
             commissioningCall' = [commissioningCall EXCEPT ![t] = At(at)]
      BY <2>3 DEF Commissioning!FindZone
    <3> HIDE DEF c, At
    <3> QED
      BY <1>4, <3>1
  <2>4. CASE Commissioning!MakeZone(t)
    <3>1. c.at = "makezone" /\ \/ commissioningCall' = [commissioningCall EXCEPT ![t] = At("commit")]
                               \/ commissioningCall' = [commissioningCall EXCEPT ![t] = Commissioning!Idle]
      BY <2>4 DEF Commissioning!MakeZone
    <3> HIDE DEF c, At
    <3> QED
      BY <1>4, <3>1, IdleIsPlain
  <2>5. CASE Commissioning!Serve(t)
    <3>1. c.at = "power" /\ \/ \E applied : commissioningCall' = [commissioningCall EXCEPT ![t] = Sent(applied)]
                            \/ commissioningCall' = [commissioningCall EXCEPT ![t] = Commissioning!Idle]
      BY <2>5 DEF Commissioning!Serve
    <3> HIDE DEF c, Sent
    <3> QED
      BY <1>4, <3>1, IdleIsPlain
  <2>6. CASE Commissioning!StartSetup(t)
    BY <2>6, IdleIsPlain DEF Commissioning!StartSetup
  <2>7. CASE Commissioning!Continue(t)
    BY <1>5, <2>7 DEF Commissioning!Continue
  <2>8. CASE Commissioning!Advance(t)
    <3>1. c.at = "continue" /\ \/ \E step : commissioningCall' = [commissioningCall EXCEPT ![t] = Stepped(step)]
                               \/ commissioningCall' = [commissioningCall EXCEPT ![t] = Commissioning!Idle]
      BY <2>8 DEF Commissioning!Advance
    <3> HIDE DEF c, Stepped
    <3> QED
      BY <1>4, <3>1, IdleIsPlain
  <2>9. CASE Commissioning!Project(t)
    <3>1. \/ commissioningCall' = [commissioningCall EXCEPT ![t] = looks]
          \/ commissioningCall' = [commissioningCall EXCEPT ![t] = Commissioning!Idle]
      BY <2>9 DEF Commissioning!Project
    <3> QED
      BY <1>5, <3>1, IdleIsPlain
  <2> QED
    BY <2>1, <2>2, <2>3, <2>4, <2>5, <2>6, <2>7, <2>8, <2>9
<1> QED
  BY <1>2, <1>6, PlainBinds

\* Commissioning and power are asked for, a device is moved, the connection drops.
LEMMA AsksBind ==
    ASSUME CommissioningInv, BindingInv,
           \/ Commissioning!Drop
           \/ \E t \in Threads, o \in Objects :
                \/ Commissioning!Power(t, o)
                \/ \E place : Commissioning!Commission(t, o, place) \/ Commissioning!Move(t, o, place)
    PROVE  BindingInv'
<1> USE DEF Commissioning!linkVars, Commissioning!heardVars, Commissioning!graphVars,
            Commissioning!noteVars, Commissioning!Starts
<1>1. CASE Commissioning!Drop
  BY <1>1, HearsNothing, BindingKept DEF Commissioning!Drop
<1>2. ASSUME NEW t \in Threads, NEW o \in Objects, Commissioning!Power(t, o) PROVE BindingInv'
  <2> DEFINE c == [Commissioning!Idle EXCEPT !.at = "power", !.op = "power", !.object = o]
  <2>1. Plain(c)
    BY CommissioningNames, IdleIsRequest DEF Plain, Request
  <2>2. UNCHANGED <<state, node, ready, commissioningJournaled, heard, known, commissioningLive,
                    commissioningEnabled, blind>>
    BY <1>2 DEF Commissioning!Power
  <2>3. \/ commissioningCall' = [commissioningCall EXCEPT ![t] = c]
        \/ commissioningCall' = [commissioningCall EXCEPT ![t] = Commissioning!Idle]
    BY <1>2 DEF Commissioning!Power
  <2> HIDE DEF c
  <2> QED
    BY <2>1, <2>2, <2>3, PlainBinds, IdleIsPlain
<1>3. ASSUME NEW t \in Threads, NEW o \in Objects, NEW place, Commissioning!Commission(t, o, place)
      PROVE  BindingInv'
  <2> DEFINE c == [Commissioning!Idle EXCEPT !.op = "commission", !.object = o, !.place = place]
             At(at) == [c EXCEPT !.at = at]
  <2>1. \A at \in {"commit", "zone", "enable"} : Plain(At(at))
    BY CommissioningNames, IdleIsRequest DEF Plain, Request
  <2>2. UNCHANGED <<state, node, ready, commissioningJournaled, heard, known, commissioningLive,
                    commissioningEnabled, blind>>
    BY <1>3 DEF Commissioning!Commission
  <2>3. \E at \in {"commit", "zone", "enable"} :
          commissioningCall' = [commissioningCall EXCEPT ![t] = At(at)]
    BY <1>3 DEF Commissioning!Commission
  <2> HIDE DEF c, At
  <2> QED
    BY <2>1, <2>2, <2>3, PlainBinds
<1>4. ASSUME NEW t \in Threads, NEW o \in Objects, NEW place, Commissioning!Move(t, o, place)
      PROVE  BindingInv'
  BY <1>4, HearsNothing, BindingKept DEF Commissioning!Move
<1> QED
  BY <1>1, <1>2, <1>3, <1>4

\* What was on its way, a new connection's snapshot, and what is read of a switch.
LEMMA HearingBinds ==
    ASSUME CommissioningInv, BindingInv,
           \/ Commissioning!TakeIn \/ Commissioning!Return
           \/ \E t \in Threads : Commissioning!Verify(t)
    PROVE  BindingInv'
<1> USE DEF Commissioning!graphVars, Commissioning!noteVars, Commissioning!Goes
<1>1. HeardShape /\ state \in [Objects -> Nat]
      /\ \A o \in ready : ReadyIsBound(o)
  BY DEF BindingInv, CommissioningInv, CommissioningShape
<1>2. CASE Commissioning!TakeIn
  <2> DEFINE o == commissioningLive.object n == commissioningLive.n home == commissioningLive.home
  <2>1. /\ commissioningLive # None /\ Commissioning!Ingested(o, n, home)
        /\ commissioningLive' = None
        /\ UNCHANGED <<state, node, ready, blind, commissioningEnabled, commissioningCall>>
    BY <1>2 DEF Commissioning!TakeIn
  <2>2. o \in Objects /\ n \in Nat /\ home \in BOOLEAN
    BY <1>1, <2>1 DEF HeardShape
  <2>3. StaleLive(o) <=> ~home
    BY <2>1 DEF StaleLive
  <2> HIDE DEF o, n, home
  <2>4. /\ HearsMore
        /\ \A p \in Objects : \A m \in commissioningJournaled'[p] \ commissioningJournaled[p] :
             p = o /\ m = n /\ (home => n <= known'[o]) /\ (~home => n <= heard'[o])
    BY <1>1, <2>1, <2>2, IngestedHears
  <2>5. ASSUME NEW p \in Objects, NEW m \in commissioningJournaled'[p] \ commissioningJournaled[p],
               p \in ready \ blind
        PROVE  m <= known'[p]
    <3>1. p = o /\ m = n /\ (home => n <= known'[o])
      BY <2>4, <2>5
    <3>2. LiveIsKnown(p)
      BY <1>1, <2>5 DEF ReadyIsBound
    <3> QED
      BY <2>3, <2>5, <3>1, <3>2 DEF LiveIsKnown, n
  <2>6. \A p \in Objects : \A m \in commissioningJournaled'[p] \ commissioningJournaled[p] :
          m <= known'[p] \/ m <= heard'[p]
    BY <2>2, <2>4
  <2> QED
    BY <2>1, <2>4, <2>5, <2>6, BindingKept
<1>3. CASE Commissioning!Return
  <2>1. /\ Commissioning!Merged(state, commissioningEnabled)
        /\ UNCHANGED <<state, node, ready, blind, commissioningEnabled, commissioningCall, commissioningLive>>
    BY <1>3 DEF Commissioning!Return
  <2>2. /\ HearsMore
        /\ \A p \in Objects : \A m \in commissioningJournaled'[p] \ commissioningJournaled[p] :
             /\ node[p] = "standing" => m <= known'[p]
             /\ node[p] # "standing" => m <= heard'[p]
    BY <1>1, <2>1, MergedHears
  <2>3. \A o \in ready : node[o] = "standing"
    BY <1>1 DEF ReadyIsBound
  <2> QED
    BY <2>1, <2>2, <2>3, BindingKept
<1>4. ASSUME NEW t \in Threads, Commissioning!Verify(t) PROVE BindingInv'
  <2> DEFINE c == commissioningCall[t] o == c.object home == Commissioning!Mapped(o)
  <2>1. /\ c.at = "verify"
        /\ commissioningCall' = [commissioningCall EXCEPT ![t] = Commissioning!Idle]
        /\ UNCHANGED <<state, node, ready, blind, commissioningEnabled, commissioningLive>>
        /\ \/ Commissioning!Ingested(o, state[o], home)
           \/ UNCHANGED <<commissioningJournaled, heard, known>>
    BY <1>4 DEF Commissioning!Verify, Commissioning!linkVars, Commissioning!heardVars
  <2>2. o \in Objects /\ state[o] \in Nat /\ home \in BOOLEAN /\ (home <=> node[o] = "standing")
    BY <1>1, <2>1 DEF BindingInv, CallIsBound, Commissioning!Mapped
  <2>3. CASE UNCHANGED <<commissioningJournaled, heard, known>>
    BY <2>1, <2>3, PlainBinds, IdleIsPlain
  <2>4. CASE Commissioning!Ingested(o, state[o], home)
    <3> HIDE DEF c, o, home
    <3>1. /\ HearsMore
          /\ \A p \in Objects : \A m \in commissioningJournaled'[p] \ commissioningJournaled[p] :
               p = o /\ m = state[o] /\ (home => state[o] <= known'[o]) /\ (~home => state[o] <= heard'[o])
      BY <1>1, <2>2, <2>4, IngestedHears
    <3>2. \A p \in ready : node[p] = "standing"
      BY <1>1 DEF ReadyIsBound
    <3>3. \A u \in Threads : commissioningCall'[u] = IF u = t THEN Commissioning!Idle ELSE commissioningCall[u]
      BY <2>1 DEF CommissioningInv, CommissioningShape
    <3>4. CallIsBound(t)'
      BY <3>3, IdleIsPlain DEF CallIsBound, Plain
    <3> QED
      BY <2>1, <2>2, <3>1, <3>2, <3>3, <3>4, BindingKept
  <2> QED
    BY <2>1, <2>3, <2>4
<1> QED
  BY <1>2, <1>3, <1>4


\* A reconcile gives way, fails or takes its snapshot; what it took is merged.
LEMMA ReconcileBinds ==
    ASSUME CommissioningInv, BindingInv, NEW t \in Threads,
           Commissioning!Reconcile(t) \/ Commissioning!Apply(t)
    PROVE  BindingInv'
<1> DEFINE c == commissioningCall[t]
           o == c.object
           resumed == Commissioning!Resumed(c)
           looked == [p \in Objects |-> IF p \in commissioningEnabled THEN state[p] ELSE 0]
           applies == [c EXCEPT !.at = "apply", !.seen = looked]
<1> USE DEF Commissioning!linkVars, Commissioning!heardVars, Commissioning!graphVars,
            Commissioning!noteVars, Commissioning!Goes
<1>1. /\ c \in Request /\ CallIsBound(t) /\ HeardShape /\ state \in [Objects -> Nat]
      /\ \A p \in ready : ReadyIsBound(p)
      /\ c.at \in {"reconcile", "apply"} => c.then \in {"zone", "seed", "done"}
  BY DEF CommissioningInv, CommissioningShape, BindingInv, Request
<1>2. c.then \in {"zone", "seed"} => o \in Objects
  BY <1>1 DEF CallIsBound
<1>3. /\ c.then = "done" => resumed = Commissioning!Idle
      /\ c.then \in {"zone", "seed"} => resumed.at = c.then /\ resumed.then = c.then /\ resumed.object = o
  <2>1. CASE c.then = "done"
    BY <2>1 DEF Commissioning!Resumed
  <2>2. CASE c.then # "done"
    <3>1. resumed = [c EXCEPT !.at = c.then, !.seen = Commissioning!Idle.seen]
      BY <2>2 DEF Commissioning!Resumed
    <3> HIDE DEF c, resumed
    <3> QED
      BY <1>1, <2>2, <3>1 DEF Request
  <2> QED
    BY <2>1, <2>2
<1>4. applies.at = "apply" /\ applies.then = c.then /\ applies.object = o /\ applies.seen = looked
  <2> HIDE DEF c, looked
  <2> QED
    BY <1>1 DEF Request
<1>5. c.then # "seed" /\ c.at \in {"reconcile", "apply"} => Plain(resumed)
  BY <1>1, <1>2, <1>3, IdleIsPlain, CommissioningNames DEF Plain
<1> HIDE DEF resumed, applies
<1>6. ASSUME NEW next PROVE commissioningCall' = [commissioningCall EXCEPT ![t] = next]
        => \A u \in Threads : commissioningCall'[u] = IF u = t THEN next ELSE commissioningCall[u]
  BY DEF CommissioningInv, CommissioningShape
<1>7. CASE Commissioning!Reconcile(t)
  <2>1. /\ c.at = "reconcile"
        /\ UNCHANGED <<state, node, ready, commissioningJournaled, heard, known, commissioningLive,
                       commissioningEnabled>>
    BY <1>7 DEF Commissioning!Reconcile
  <2>2. CASE /\ commissioningCall' = [commissioningCall EXCEPT ![t] = Commissioning!Idle]
             /\ blind' = blind
    BY <2>1, <2>2, PlainBinds, IdleIsPlain
  <2>3. CASE /\ commissioningCall' = [commissioningCall EXCEPT ![t] = applies]
             /\ blind' = blind
    <3>1. CallIsBound(t)'
      <4>1. commissioningCall'[t] = applies
        BY <1>6, <2>3
      <4>2. c.then = "seed" /\ StaleLive(o) => looked[o] = commissioningLive.n /\ node[o] # "none"
        BY <1>1, <1>2 DEF StaleLive, HeardShape, CallIsBound
      <4>3. c.then = "seed" => node[o] # "none"
        BY <1>1 DEF CallIsBound
      <4> HIDE DEF looked, c, o
      <4> QED
        BY <1>2, <1>4, <2>1, <2>3, <4>1, <4>2, <4>3 DEF CallIsBound, StaleLive, o
    <3> QED
      BY <1>6, <2>1, <2>3, <3>1, HearsNothing, BindingKept
  <2>4. CASE /\ commissioningCall' = [commissioningCall EXCEPT ![t] = resumed]
             /\ blind' = blind \cup (IF c.then = "seed" THEN {o} ELSE {})
    <3>1. CASE c.then # "seed"
      BY <1>5, <2>1, <2>4, <3>1, PlainBinds
    <3>2. CASE c.then = "seed"
      <4>1. commissioningCall'[t] = resumed /\ o \in blind'
        BY <1>6, <2>4, <3>2
      <4>2. CallIsBound(t)'
        BY <1>1, <1>2, <1>3, <2>1, <3>2, <4>1 DEF CallIsBound
      <4> QED
        BY <1>6, <2>1, <2>4, <4>2, HearsNothing, BindingKept
    <3> QED
      BY <3>1, <3>2
  <2>5. \/ /\ commissioningCall' = [commissioningCall EXCEPT ![t] = Commissioning!Idle]
           /\ blind' = blind
        \/ /\ commissioningCall' = [commissioningCall EXCEPT ![t] = applies]
           /\ blind' = blind
        \/ /\ commissioningCall' = [commissioningCall EXCEPT ![t] = resumed]
           /\ blind' = blind \cup (IF c.then = "seed" THEN {o} ELSE {})
    BY <1>7 DEF Commissioning!Reconcile, Objects, resumed, applies
  <2> QED
    BY <2>2, <2>3, <2>4, <2>5
<1>8. CASE Commissioning!Apply(t)
  <2>1. /\ c.at = "apply"
        /\ UNCHANGED <<state, node, ready, commissioningLive, commissioningEnabled, blind>>
    BY <1>8 DEF Commissioning!Apply
  <2>2. CASE /\ commissioningCall' = [commissioningCall EXCEPT ![t] = Commissioning!Idle]
             /\ UNCHANGED <<commissioningJournaled, heard, known>>
    BY <2>1, <2>2, PlainBinds, IdleIsPlain
  <2>3. CASE /\ commissioningCall' = [commissioningCall EXCEPT ![t] = resumed]
             /\ Commissioning!Merged(c.seen, commissioningEnabled)
    <3>1. c.seen \in [Objects -> Nat]
      BY <1>1 DEF Request
    <3>2. /\ HearsMore
          /\ \A p \in Objects : \A m \in commissioningJournaled'[p] \ commissioningJournaled[p] :
               /\ node[p] = "standing" => m <= known'[p]
               /\ node[p] # "standing" => m <= heard'[p]
          /\ \A p \in Objects \cap commissioningEnabled :
               c.seen[p] # 0 => c.seen[p] \in commissioningJournaled'[p]
      BY <1>1, <2>3, <3>1, MergedHears
    <3>3. \A p \in ready : node[p] = "standing"
      BY <1>1 DEF ReadyIsBound
    <3>4. commissioningCall'[t] = resumed
      BY <1>6, <2>3
    <3>5. CallIsBound(t)'
      <4>1. CASE c.then # "seed"
        BY <1>5, <2>1, <3>4, <4>1 DEF CallIsBound, Plain
      <4>2. CASE c.then = "seed"
        <5>1. node[o] = "standing" /\ StaleLive(o) => commissioningLive.n \in commissioningJournaled'[o]
          <6> SUFFICES ASSUME node[o] = "standing", StaleLive(o)
                       PROVE  commissioningLive.n \in commissioningJournaled'[o]
            OBVIOUS
          <6>1. o \in Objects /\ c.seen[o] = commissioningLive.n
            BY <1>1, <1>2, <2>1, <4>2 DEF CallIsBound
          <6>2. o \in commissioningEnabled /\ commissioningLive.n = state[o] /\ state[o] > 0
            BY <1>1, <6>1 DEF StaleLive, HeardShape
          <6>3. c.seen[o] # 0
            BY <1>1, <6>1, <6>2
          <6>4. \A p \in Objects \cap commissioningEnabled :
                  c.seen[p] # 0 => c.seen[p] \in commissioningJournaled'[p]
            BY <3>2
          <6>5. c.seen[o] \in commissioningJournaled'[o]
            BY <6>1, <6>2, <6>3, <6>4
          <6> QED
            BY <6>1, <6>5
        <5>2. \A p : StaleLive(p)' <=> StaleLive(p)
          BY <2>1 DEF StaleLive
        <5>3. node[o] # "none"
          BY <1>1, <4>2 DEF CallIsBound
        <5> QED
          BY <1>2, <1>3, <2>1, <3>4, <4>2, <5>1, <5>2, <5>3 DEF CallIsBound, LiveIsKnown
      <4> QED
        BY <4>1, <4>2
    <3> QED
      BY <1>6, <2>1, <2>3, <3>2, <3>3, <3>5, BindingKept
  <2>4. \/ /\ commissioningCall' = [commissioningCall EXCEPT ![t] = Commissioning!Idle]
           /\ UNCHANGED <<commissioningJournaled, heard, known>>
        \/ /\ commissioningCall' = [commissioningCall EXCEPT ![t] = resumed]
           /\ Commissioning!Merged(c.seen, commissioningEnabled)
    BY <1>8 DEF Commissioning!Apply, resumed
  <2> QED
    BY <2>2, <2>3, <2>4
<1> QED
  BY <1>7, <1>8

\* An object changes: the event goes under the key of the time, the home's for what
\* is mapped.
LEMMA ChangeBinds ==
    ASSUME CommissioningInv, BindingInv, NEW o \in Objects, Commissioning!Change(o)
    PROVE  BindingInv'
<1>1. /\ HeardShape /\ state \in [Objects -> Nat]
      /\ \A t \in Threads : CallIsBound(t)
      /\ \A p \in ready : ReadyIsBound(p)
  BY DEF BindingInv, CommissioningInv, CommissioningShape
<1> DEFINE home == Commissioning!Mapped(o)
<1>2. /\ o \in commissioningEnabled /\ state' = [state EXCEPT ![o] = @ + 1]
      /\ commissioningLive = None
      /\ commissioningLive' \in {[object |-> o, n |-> state[o] + 1, home |-> home], None}
      /\ UNCHANGED <<node, ready, blind, commissioningEnabled, commissioningCall, commissioningJournaled,
                     heard, known>>
  BY DEF Commissioning!Change, Commissioning!heardVars,
         Commissioning!graphVars, Commissioning!noteVars
<1>8. home \in BOOLEAN /\ (home <=> node[o] = "standing")
  BY DEF Commissioning!Mapped
<1> HIDE DEF home
<1>9. commissioningLive' # None => /\ commissioningLive'.object = o
                                  /\ commissioningLive'.n = state[o] + 1
                                  /\ commissioningLive'.home = home
  BY <1>2
<1>3. /\ \A p \in Objects : state'[p] > 0
      /\ state'[o] = state[o] + 1
  BY <1>1, <1>2 DEF HeardShape
<1>4. HeardShape'
  BY <1>1, <1>2, <1>3, <1>8, <1>9 DEF HeardShape
<1>5. \A p : node[p] = "standing" => ~StaleLive(p)'
  BY <1>8, <1>9 DEF StaleLive
<1>6. \A t \in Threads : CallIsBound(t)'
  BY <1>1, <1>2, <1>5 DEF CallIsBound, LiveIsKnown
<1>7. \A p \in ready' : ReadyIsBound(p)'
  BY <1>1, <1>2, <1>5 DEF ReadyIsBound, LiveIsKnown
<1> QED
  BY <1>4, <1>6, <1>7 DEF BindingInv


\* What is mapped for the first time has no commissioning yet that went on, and
\* none that was told done.
LEMMA CommitBinds ==
    ASSUME CommissioningInv, BindingInv, NEW t \in Threads, Commissioning!Commit(t)
    PROVE  BindingInv'
<1> DEFINE c == commissioningCall[t]
           o == c.object
           next == [c EXCEPT !.at = "reconcile", !.then = "seed"]
<1> USE DEF Commissioning!linkVars, Commissioning!heardVars, Commissioning!Goes
<1>1. /\ c \in Request /\ HeardShape
      /\ node \in [Objects -> {"none", "standing", "retired"}]
      /\ \A u \in Threads : CallIsBound(u)
      /\ \A p \in ready : ReadyIsBound(p)
  BY DEF CommissioningInv, CommissioningShape, BindingInv
<1>2. /\ c.at = "commit"
      /\ UNCHANGED <<state, ready, commissioningJournaled, heard, known, commissioningLive,
                     commissioningEnabled>>
  BY DEF Commissioning!Commit
<1>3. o \in Objects
  BY <1>1, <1>2 DEF CallIsBound
<1>4. CASE ~Commissioning!Inserts(c)
  <2>1. /\ commissioningCall' = [commissioningCall EXCEPT ![t] = Commissioning!Idle]
        /\ UNCHANGED <<node, blind>>
    BY <1>4 DEF Commissioning!Commit
  <2> QED
    BY <1>2, <2>1, PlainBinds, IdleIsPlain
<1>5. CASE Commissioning!Inserts(c)
  <2>1. /\ node' = [node EXCEPT ![o] = "standing"] /\ node[o] # "retired"
        /\ blind' = IF node[o] = "none" THEN blind \ {o} ELSE blind
        /\ commissioningCall' = [commissioningCall EXCEPT ![t] = next]
    BY <1>5 DEF Commissioning!Commit, Commissioning!After, Commissioning!Inserts, Commissioning!Insertable
  <2>2. next.at = "reconcile" /\ next.then = "seed" /\ next.object = o
    <3> HIDE DEF c
    <3> QED
      BY <1>1 DEF Request, o
  <2> HIDE DEF c, o, next
  <2>3. \A u \in Threads : commissioningCall'[u] = IF u = t THEN next ELSE commissioningCall[u]
    BY <2>1 DEF CommissioningInv, CommissioningShape
  <2>4. CASE node[o] = "standing"
    <3>1. node' = node /\ blind' = blind
      BY <1>1, <1>3, <2>1, <2>4
    <3>2. CallIsBound(t)'
      BY <1>3, <2>2, <2>3, <2>4, <3>1 DEF CallIsBound
    <3> QED
      BY <1>2, <2>3, <3>1, <3>2, HearsNothing, BindingKept
  <2>5. CASE node[o] = "none"
    <3>1. /\ \A p \in Objects : node'[p] = IF p = o THEN "standing" ELSE node[p]
          /\ blind' = blind \ {o}
      BY <1>1, <1>3, <2>1, <2>5
    <3>2. HeardShape'
      BY <1>1, <1>2 DEF HeardShape
    <3>3. CallIsBound(t)'
      BY <1>3, <2>2, <2>3, <3>1 DEF CallIsBound
    <3>4. ASSUME NEW u \in Threads, u # t PROVE CallIsBound(u)'
      <4> DEFINE d == commissioningCall[u]
      <4>1. CallIsBound(u) /\ commissioningCall'[u] = d
        BY <1>1, <2>3, <3>4
      <4>2. d.then = "seed" => d.object \in Objects /\ d.object # o
        BY <2>5, <4>1 DEF CallIsBound
      <4>3. \A p : LiveIsKnown(p)' <=> LiveIsKnown(p)
        BY <1>2 DEF LiveIsKnown, StaleLive
      <4>4. \A p : StaleLive(p)' <=> StaleLive(p)
        BY <1>2 DEF StaleLive
      <4> QED
        BY <1>2, <3>1, <4>1, <4>2, <4>3, <4>4 DEF CallIsBound
    <3>5. ASSUME NEW p \in ready PROVE ReadyIsBound(p)'
      <4>1. ReadyIsBound(p) /\ p # o
        BY <1>1, <2>5, <3>5 DEF ReadyIsBound
      <4>2. LiveIsKnown(p)' <=> LiveIsKnown(p)
        BY <1>2 DEF LiveIsKnown, StaleLive
      <4> QED
        BY <1>2, <3>1, <4>1, <4>2 DEF ReadyIsBound
    <3> QED
      BY <1>2, <3>2, <3>3, <3>4, <3>5 DEF BindingInv
  <2> QED
    BY <1>1, <1>3, <2>1, <2>4, <2>5
<1> QED
  BY <1>4, <1>5

\* What the provider was told of the object becomes the home's.
LEMMA SeedBinds ==
    ASSUME CommissioningInv, BindingInv, NEW t \in Threads, Commissioning!Seed(t)
    PROVE  BindingInv'
<1> DEFINE c == commissioningCall[t]
           o == c.object
           attributed == Commissioning!Attributed(o)
<1>1. /\ HeardShape /\ CallIsBound(t)
      /\ \A u \in Threads : CallIsBound(u)
      /\ \A p \in ready : ReadyIsBound(p)
  BY DEF BindingInv
<1>2. /\ c.at = "seed"
      /\ commissioningCall' = [commissioningCall EXCEPT ![t] = Commissioning!Idle]
      /\ known' = [known EXCEPT ![o] = attributed]
      /\ ready' \subseteq ready \cup (IF node[o] = "standing" THEN {o} ELSE {})
      /\ UNCHANGED <<state, node, blind, commissioningJournaled, heard, commissioningLive,
                     commissioningEnabled>>
  BY DEF Commissioning!Seed, Commissioning!Goes, Commissioning!Mapped, Commissioning!linkVars,
         Commissioning!graphVars
<1>3. o \in Objects
  BY <1>1, <1>2 DEF CallIsBound
<1>4. /\ attributed \in Nat /\ known[o] <= attributed
      /\ node[o] = "standing" => heard[o] <= attributed
  BY <1>1, <1>3 DEF HeardShape, Commissioning!Attributed, Commissioning!Newer, Commissioning!Mapped
<1>5. \A u \in Threads : u # t => commissioningCall'[u] = commissioningCall[u]
  BY <1>2 DEF CommissioningInv, CommissioningShape
<1>6. commissioningCall'[t] = Commissioning!Idle
  BY <1>2 DEF CommissioningInv, CommissioningShape
<1>7. node[o] = "standing" /\ o \notin blind => LiveIsKnown(o)
  BY <1>1, <1>2 DEF CallIsBound
<1> HIDE DEF c, o, attributed
<1>8. /\ known' \in [Objects -> Nat]
      /\ \A p \in Objects : known'[p] = IF p = o THEN attributed ELSE known[p]
  BY <1>1, <1>2, <1>3, <1>4 DEF HeardShape
<1>9. HearsMore
  BY <1>1, <1>2, <1>4, <1>8 DEF HeardShape, HearsMore
<1>10. HeardShape'
  BY <1>1, <1>2, <1>9 DEF HeardShape, HearsMore
<1>11. \A u \in Threads : CallIsBound(u)'
  BY <1>1, <1>2, <1>5, <1>6, IdleIsPlain DEF CallIsBound, LiveIsKnown, StaleLive, Plain
<1>12. ASSUME NEW p \in ready' PROVE ReadyIsBound(p)'
  <2>1. LiveIsKnown(p)' <=> LiveIsKnown(p)
    BY <1>2 DEF LiveIsKnown, StaleLive
  <2>2. CASE p = o /\ node[o] = "standing"
    <3>1. ASSUME NEW n \in commissioningJournaled[o] PROVE n <= known'[o]
      <4>1. n \in Nat /\ (n <= known[o] \/ n <= heard[o]) /\ known[o] \in Nat /\ heard[o] \in Nat
        BY <1>1, <1>3, <3>1 DEF HeardShape
      <4> QED
        BY <1>3, <1>4, <1>8, <2>2, <4>1
    <3> QED
      BY <1>2, <1>3, <1>7, <2>1, <2>2, <3>1 DEF ReadyIsBound
  <2>3. CASE p \in ready
    <3>1. ReadyIsBound(p) /\ p \in Objects
      BY <1>1, <2>3 DEF ReadyIsBound
    <3>2. ASSUME NEW n \in commissioningJournaled[p], p \notin blind PROVE n <= known'[p]
      <4>1. n \in Nat /\ n <= known[p] /\ known[p] \in Nat /\ known'[p] \in Nat /\ known[p] <= known'[p]
        BY <1>1, <1>9, <3>1, <3>2 DEF HeardShape, HearsMore, ReadyIsBound
      <4> QED
        BY <4>1
    <3> QED
      BY <1>2, <2>1, <3>1, <3>2 DEF ReadyIsBound
  <2> QED
    BY <1>2, <1>12, <2>2, <2>3
<1> QED
  BY <1>10, <1>11, <1>12 DEF BindingInv

\* What is retired is no more among what was told done.
LEMMA RemoveBinds ==
    ASSUME CommissioningInv, BindingInv, NEW t \in Threads, NEW o \in Objects, Commissioning!Remove(t, o)
    PROVE  BindingInv'
<1>1. /\ HeardShape
      /\ node \in [Objects -> {"none", "standing", "retired"}]
      /\ \A u \in Threads : CallIsBound(u)
      /\ \A p \in ready : ReadyIsBound(p)
  BY DEF CommissioningInv, CommissioningShape, BindingInv
<1>2. /\ \A p \in Objects : node'[p] = IF p = o THEN "retired" ELSE node[p]
      /\ ready' = ready \ {o}
      /\ UNCHANGED <<state, blind, commissioningJournaled, heard, known, commissioningLive,
                     commissioningEnabled, commissioningCall>>
  BY <1>1 DEF Commissioning!Remove, Commissioning!linkVars, Commissioning!heardVars
<1>3. \A p : /\ LiveIsKnown(p)' <=> LiveIsKnown(p)
             /\ StaleLive(p)' <=> StaleLive(p)
  BY <1>2 DEF LiveIsKnown, StaleLive
<1>4. HeardShape'
  BY <1>1, <1>2 DEF HeardShape
<1>5. ASSUME NEW u \in Threads PROVE CallIsBound(u)'
  <2>1. CallIsBound(u) /\ commissioningCall'[u] = commissioningCall[u]
    BY <1>1, <1>2
  <2> QED
    BY <1>2, <1>3, <2>1 DEF CallIsBound
<1>6. ASSUME NEW p \in ready' PROVE ReadyIsBound(p)'
  <2>1. ReadyIsBound(p) /\ p # o
    BY <1>1, <1>2, <1>6
  <2> QED
    BY <1>2, <1>3, <2>1 DEF ReadyIsBound
<1> QED
  BY <1>4, <1>5, <1>6 DEF BindingInv

LEMMA BindingStart == Commissioning!Init => BindingInv
<1> SUFFICES ASSUME Commissioning!Init PROVE BindingInv
  OBVIOUS
<1>1. HeardShape
  BY DEF Commissioning!Init, HeardShape, Objects
<1>2. \A t \in Threads : CallIsBound(t)
  <2>1. \A t \in Threads : commissioningCall[t] = Commissioning!Idle
    BY DEF Commissioning!Init
  <2> QED
    BY <2>1, IdleIsPlain DEF CallIsBound, Plain
<1>3. ready = {}
  BY DEF Commissioning!Init
<1> QED
  BY <1>1, <1>2, <1>3 DEF BindingInv

LEMMA BindingStep ==
    CommissioningInv /\ BindingInv /\ [Commissioning!Next]_commissioningVars => BindingInv'
<1> SUFFICES ASSUME CommissioningInv, BindingInv, [Commissioning!Next]_commissioningVars
             PROVE  BindingInv'
  OBVIOUS
<1>1. CASE UNCHANGED commissioningVars
  <2>1. UNCHANGED <<state, node, ready, blind, commissioningJournaled, heard, known,
                    commissioningLive, commissioningEnabled, commissioningCall>>
    BY <1>1 DEF commissioningVars
  <2> QED
    BY <2>1, HearsNothing, BindingKept
<1>2. CASE Commissioning!TakeIn \/ Commissioning!Drop \/ Commissioning!Return
  BY <1>2, HearingBinds, AsksBind
<1>3. ASSUME NEW o \in Objects, Commissioning!Change(o) PROVE BindingInv'
  BY <1>3, ChangeBinds
<1>4. ASSUME NEW t \in Threads,
             \/ Commissioning!Reconcile(t) \/ Commissioning!Apply(t) \/ Commissioning!Refresh(t)
             \/ Commissioning!Enable(t) \/ Commissioning!FindZone(t) \/ Commissioning!MakeZone(t)
             \/ Commissioning!Commit(t) \/ Commissioning!Seed(t) \/ Commissioning!Serve(t)
             \/ Commissioning!Verify(t) \/ Commissioning!StartSetup(t)
             \/ Commissioning!Continue(t) \/ Commissioning!Advance(t) \/ Commissioning!Project(t)
      PROVE  BindingInv'
  BY <1>4, ReconcileBinds, RequestsBind, CommitBinds, SeedBinds, HearingBinds
<1>5. ASSUME NEW t \in Threads, NEW o \in Objects,
             \/ Commissioning!Remove(t, o) \/ Commissioning!Power(t, o)
             \/ \E place \in FirstSpaces \cup {Household} :
                  Commissioning!Commission(t, o, place) \/ Commissioning!Move(t, o, place)
      PROVE  BindingInv'
  BY <1>5, RemoveBinds, AsksBind
<1> QED
  BY <1>1, <1>2, <1>3, <1>4, <1>5 DEF Commissioning!Next, Objects

LEMMA BindingHolds == BindingInv => Commissioning!TruthFollowsBinding
BY DEF BindingInv, ReadyIsBound, Commissioning!TruthFollowsBinding

-----------------------------------------------------------------------------
(* The rings.                                                               *)

\* A pending ring is one of a connection in which a hand-off failed.
RingsInv ==
    /\ {"epoch", "latest", "pending"} \subseteq DOMAIN ring
    /\ ring.pending # None => ring.epoch \in failed
    /\ deaf \subseteq failed

LEMMA RingsStart == Tracker!Init => RingsInv
BY DEF Tracker!Init, RingsInv

LEMMA RingKeeps == ASSUME RingsInv, NEW occurred, Tracker!Ring(occurred) PROVE RingsInv'
<1>1. /\ {"epoch", "latest", "pending"} \subseteq DOMAIN Tracker!Listening
      /\ Tracker!Listening.epoch = link.epoch
      /\ Tracker!Listening.pending # None => link.epoch \in failed
  BY DEF RingsInv, Tracker!Listening
<1>2. CASE ring' = Tracker!Listening /\ UNCHANGED <<deaf, failed>>
  BY <1>1, <1>2 DEF RingsInv
<1>3. CASE /\ ring' = Tracker!Listening /\ deaf' = deaf \cup {link.epoch} /\ UNCHANGED failed
           /\ Tracker!Listening.pending \notin {None, occurred}
  BY <1>1, <1>3 DEF RingsInv
<1>4. CASE /\ ring' = [Tracker!Listening EXCEPT !.latest = occurred, !.pending = None]
           /\ UNCHANGED <<deaf, failed>>
  <2> DEFINE told1 == [Tracker!Listening EXCEPT !.latest = occurred, !.pending = None]
  <2>1. {"epoch", "latest", "pending"} \subseteq DOMAIN told1 /\ told1.pending = None
    BY <1>1
  <2>2. ring' = told1
    BY <1>4
  <2> HIDE DEF told1
  <2> QED
    BY <1>4, <2>1, <2>2 DEF RingsInv
<1>5. CASE /\ ring' = [Tracker!Listening EXCEPT !.pending = occurred]
           /\ failed' = failed \cup {link.epoch} /\ UNCHANGED deaf
  <2> DEFINE kept == [Tracker!Listening EXCEPT !.pending = occurred]
  <2>1. {"epoch", "latest", "pending"} \subseteq DOMAIN kept /\ kept.epoch = link.epoch
    BY <1>1
  <2>2. ring' = kept
    BY <1>5
  <2> HIDE DEF kept
  <2> QED
    BY <1>5, <2>1, <2>2 DEF RingsInv
<1> QED
  BY <1>2, <1>3, <1>4, <1>5 DEF Tracker!Ring

LEMMA RingsStep == RingsInv /\ [Tracker!Next]_trackerVars => RingsInv'
<1> SUFFICES ASSUME RingsInv, [Tracker!Next]_trackerVars PROVE RingsInv'
  OBVIOUS
<1>1. ASSUME UNCHANGED <<ring, deaf, failed>> PROVE RingsInv'
  BY <1>1 DEF RingsInv
<1>2. ASSUME NEW occurred, Tracker!Ring(occurred) PROVE RingsInv'
  BY <1>2, RingKeeps
<1>3. CASE UNCHANGED trackerVars
  BY <1>1, <1>3 DEF trackerVars
<1>4. CASE Tracker!TimePasses \/ Tracker!Degrade \/ Tracker!Drop \/ Tracker!Synchronize
  BY <1>1, <1>4 DEF Tracker!TimePasses, Tracker!Degrade, Tracker!Drop, Tracker!Synchronize, Tracker!ringVars
<1>5. ASSUME NEW value, NEW stamp, Tracker!Observe(value, stamp) PROVE RingsInv'
  BY <1>1, <1>5 DEF Tracker!Observe, Tracker!ringVars
<1>6. ASSUME NEW o, Tracker!Commission(o) PROVE RingsInv'
  BY <1>1, <1>6 DEF Tracker!Commission, Tracker!ringVars
<1>7. ASSUME NEW o, NEW person, NEW signal, Tracker!Assign(o, person, signal) PROVE RingsInv'
  BY <1>1, <1>7 DEF Tracker!Assign, Tracker!ringVars
<1> QED
  BY <1>2, <1>3, <1>4, <1>5, <1>6, <1>7 DEF Tracker!Next

LEMMA RingsHold == RingsInv => Tracker!FreshRingsAreHeard
BY DEF RingsInv, Tracker!FreshRingsAreHeard

-----------------------------------------------------------------------------
(* The projection of truths.                                                *)

Running(p) == proj[p].at = "run"
From == IF checkpoint = None THEN 0 ELSE checkpoint

\* Where a projector can have come to.
Reached == {0} \cup {pos[e] : e \in Truth!Committed}

TruthShape ==
    /\ head \in Nat
    /\ row \in [Events -> {"none", "open", "committed"}] /\ pos \in [Events -> Nat]
    /\ checkpoint \in Nat \cup {None}
    /\ observed \subseteq Truth!Committed
    /\ \A p \in Projectors :
         /\ {"at", "batch", "done", "last", "truth"} \subseteq DOMAIN proj[p]
         /\ proj[p].at \in {"idle", "run", "failed"} /\ proj[p].last \in Nat
         /\ ~Running(p) => proj[p].done = {}
         /\ proj[p].done \cup proj[p].batch \subseteq Truth!Committed
    /\ DOMAIN proj = Projectors
    /\ From \in Reached /\ \A p \in Projectors : proj[p].last \in Reached

\* A row has a position of its own, and only a row that was inserted has one.
RowsAreApart ==
    /\ \A e \in Events : IF row[e] = "none" THEN pos[e] = 0 ELSE pos[e] \in 1..head
    /\ \A e, f \in Events : row[e] # "none" /\ pos[e] = pos[f] => e = f
    /\ skipped \subseteq Truth!Committed

OneProjects == \A p, q \in Projectors : Running(p) /\ Running(q) => p = q

\* What a running projector has copied lies between the checkpoint it read and where
\* it stands; what it has yet to copy, and what came meanwhile in order, beyond.
BatchIsSound(p) ==
    /\ From <= proj[p].last
    /\ proj[p].done = {} => proj[p].last = From
    /\ \A e \in proj[p].done : From < pos[e] /\ pos[e] <= proj[p].last
    /\ \A e \in proj[p].batch : proj[p].last < pos[e]
    /\ \A e \in Truth!Committed \ skipped :
         From < pos[e] /\ e \notin proj[p].done \cup proj[p].batch =>
           /\ proj[p].last < pos[e]
           /\ \A x \in proj[p].batch : pos[x] < pos[e]
    /\ proj[p].truth = IF proj[p].done = {} THEN truth ELSE Truth!Resolve(observed \cup proj[p].done)

TruthInv ==
    /\ TruthShape /\ RowsAreApart /\ OneProjects
    /\ Truth!CheckpointIsProjected
    /\ broken = {} => \A p \in Projectors : Running(p) => BatchIsSound(p)

LEMMA TruthValues == None \notin Nat
BY HouseholdAssumption DEF Truth!TruthAssumption

LEMMA SetHasLeast ==
    ASSUME NEW T \in SUBSET Nat, T # {}
    PROVE  \E x \in T : \A y \in T : x <= y
<1>1. PICK x \in T : \A y \in T : <<y, x>> \notin OpToRel(<, Nat)
  BY WFMin, NatLessThanWellFounded, Zenon
<1>2. \A y \in T : ~(y < x)
  BY <1>1, Zenon DEF OpToRel
<1> QED
  BY <1>2

LEMMA TruthStart == Truth!Init => TruthInv
<1> SUFFICES ASSUME Truth!Init PROVE TruthInv
  OBVIOUS
<1> USE DEF Truth!Init, Truth!JournalInit
<1>1. \A p \in Projectors : proj[p] = Truth!Idle
  OBVIOUS
<1>2. Truth!Committed = {}
  BY DEF Truth!Committed
<1>3. TruthShape
  BY <1>1, <1>2 DEF TruthShape, Running, Truth!Idle, From, Reached
<1>4. RowsAreApart
  BY <1>2 DEF RowsAreApart
<1>5. \A p \in Projectors : ~Running(p)
  BY <1>1 DEF Running, Truth!Idle
<1>6. Truth!CheckpointIsProjected
  BY <1>2 DEF Truth!CheckpointIsProjected
<1> QED
  BY <1>3, <1>4, <1>5, <1>6 DEF TruthInv, OneProjects

\* What observations resolve to depends on their positions alone.
LEMMA ResolvesAlike ==
    ASSUME NEW obs, \A e \in obs : pos'[e] = pos[e]
    PROVE  Truth!Resolve(obs)' = Truth!Resolve(obs)
<1>1. \A x, y \in obs : Truth!Later(x, y)' <=> Truth!Later(x, y)
  BY DEF Truth!Later
<1>2. Truth!Latest(obs)' = Truth!Latest(obs)
  BY <1>1 DEF Truth!Latest
<1> QED
  BY <1>2 DEF Truth!Resolve

\* The journal goes on: what is committed keeps its position, and a row that commits
\* where a projector has read already is skipped.
LEMMA JournalKeepsTruth ==
    ASSUME TruthInv, NEW e \in Events,
           \/ Truth!Insert(e) \/ Truth!Duplicate(e) \/ Truth!Commit(e) \/ Truth!Abort(e),
           skipped' = skipped \cup {f \in Events : /\ row[f] # "committed" /\ row'[f] = "committed"
                                                   /\ Truth!ReadTo(pos[f])},
           UNCHANGED <<checkpoint, observed, truth, proj, broken>>
    PROVE  TruthInv'
<1> USE DEF Truth!Insert, Truth!Duplicate, Truth!Commit, Truth!Abort
<1>0. TruthShape /\ RowsAreApart /\ OneProjects
  BY DEF TruthInv
<1>1. /\ head' \in Nat /\ head <= head'
      /\ row' \in [Events -> {"none", "open", "committed"}] /\ pos' \in [Events -> Nat]
      /\ \A f \in Events : f # e => row'[f] = row[f] /\ pos'[f] = pos[f]
      /\ IF row'[e] = "none" THEN pos'[e] = 0 ELSE pos'[e] \in 1..head'
      /\ row[e] # "none" /\ row'[e] # "none" => pos'[e] = pos[e]
      /\ row[e] = "none" /\ row'[e] # "none" => pos'[e] = head + 1
      /\ row[e] = "committed" => row'[e] = "committed" /\ pos'[e] = pos[e]
      /\ pos'[e] \in {0, pos[e], head + 1}
      /\ pos'[e] = head + 1 => row[e] = "none"
  BY <1>0 DEF TruthShape, RowsAreApart
<1>2. Truth!Committed \subseteq Truth!Committed' /\ \A f \in Truth!Committed : pos'[f] = pos[f]
  BY <1>1 DEF Truth!Committed
<1>3. ASSUME NEW f \in Truth!Committed', f \notin Truth!Committed
      PROVE  /\ f = e /\ pos'[f] = pos[f]
             /\ pos[f] \in Nat /\ \A x \in Truth!Committed : pos[x] # pos[f]
             /\ f \notin skipped' => ~Truth!ReadTo(pos[f])
  <2>1. f = e /\ row[e] # "committed" /\ row'[e] = "committed"
    BY <1>1, <1>3 DEF Truth!Committed
  <2>2. Truth!Commit(e)
    BY <1>0, <2>1 DEF TruthShape
  <2>3. \A x \in Truth!Committed : pos[x] # pos[e]
    BY <1>0, <2>1, <2>2 DEF RowsAreApart, Truth!Committed
  <2>4. pos[e] \in Nat
    BY <1>0 DEF TruthShape
  <2> QED
    BY <2>1, <2>2, <2>3, <2>4
<1>4. TruthShape'
  <2>1. From' = From /\ Reached \subseteq Reached'
    BY <1>2 DEF From, Reached
  <2>2. observed \subseteq Truth!Committed'
    BY <1>0, <1>2 DEF TruthShape
  <2> QED
    BY <1>0, <1>1, <1>2, <2>1, <2>2 DEF TruthShape, Running
<1>5. /\ skipped \subseteq skipped' /\ skipped' \subseteq Truth!Committed'
      /\ skipped' \cap Truth!Committed = skipped
  BY <1>0, <1>1, <1>2 DEF RowsAreApart, Truth!Committed
<1>6. RowsAreApart'
  <2>1. \A f \in Events : IF row'[f] = "none" THEN pos'[f] = 0 ELSE pos'[f] \in 1..head'
    BY <1>0, <1>1 DEF RowsAreApart, TruthShape
  <2>2. ASSUME NEW f \in Events, NEW g \in Events, row'[f] # "none", pos'[f] = pos'[g]
        PROVE  f = g
    <3>1. CASE f # e /\ g # e
      BY <1>0, <1>1, <2>2, <3>1 DEF RowsAreApart
    <3>2. CASE f = e /\ g # e
      <4>1. pos'[g] = pos[g]
        BY <1>1, <3>2
      <4>2. CASE row[e] = "none"
        <5>1. pos[g] = head + 1 /\ head \in Nat
          BY <1>0, <1>1, <2>2, <3>2, <4>1, <4>2 DEF TruthShape
        <5> QED
          BY <1>0, <2>2, <3>2, <4>1, <4>2, <5>1 DEF RowsAreApart, TruthShape
      <4>3. CASE row[e] # "none"
        BY <1>0, <1>1, <2>2, <3>2, <4>1, <4>3 DEF RowsAreApart
      <4> QED
        BY <4>2, <4>3
    <3>3. CASE f # e /\ g = e
      <4>1. pos'[f] = pos[f] /\ row[f] # "none" /\ pos[f] \in 1..head /\ head \in Nat
        BY <1>0, <1>1, <2>2, <3>3 DEF RowsAreApart, TruthShape
      <4>2. pos'[e] = pos[e]
        BY <1>1, <2>2, <3>3, <4>1
      <4> QED
        BY <1>0, <2>2, <3>3, <4>1, <4>2 DEF RowsAreApart
    <3> QED
      BY <3>1, <3>2, <3>3
  <2> QED
    BY <1>5, <2>1, <2>2 DEF RowsAreApart
<1>7. OneProjects'
  BY <1>0 DEF OneProjects, Running
<1>8. ASSUME broken = {} PROVE Truth!CheckpointIsProjected'
  <2>1. /\ {f \in Truth!Committed : checkpoint # None /\ pos[f] <= checkpoint} \ skipped = observed \ skipped
        /\ truth = IF observed = {} THEN None ELSE Truth!Resolve(observed)
    BY <1>8 DEF TruthInv, Truth!CheckpointIsProjected
  <2>2. Truth!Resolve(observed)' = Truth!Resolve(observed)
    BY <1>0, <1>2, ResolvesAlike DEF TruthShape
  <2>3. ASSUME NEW f \in Truth!Committed', f \notin Truth!Committed, f \notin skipped',
               checkpoint # None
        PROVE  ~(pos'[f] <= checkpoint)
    BY <1>3, <2>3 DEF Truth!ReadTo
  <2>4. {f \in Truth!Committed' : checkpoint # None /\ pos'[f] <= checkpoint} \ skipped' = observed \ skipped'
    BY <1>0, <1>2, <1>5, <2>1, <2>3 DEF TruthShape
  <2> QED
    BY <2>1, <2>2, <2>4 DEF Truth!CheckpointIsProjected
<1>9. ASSUME broken = {}, NEW p \in Projectors, Running(p) PROVE BatchIsSound(p)'
  <2>1. BatchIsSound(p) /\ From' = From
    BY <1>9 DEF TruthInv, From
  <2>2. Truth!Resolve(observed \cup proj[p].done)' = Truth!Resolve(observed \cup proj[p].done)
    BY <1>0, <1>2, ResolvesAlike DEF TruthShape
  <2>4. proj[p].done \cup proj[p].batch \subseteq Truth!Committed
    BY <1>0 DEF TruthShape
  <2>3. ASSUME NEW f \in Truth!Committed' \ skipped', From < pos'[f], f \notin proj[p].done \cup proj[p].batch
        PROVE  proj[p].last < pos'[f] /\ \A x \in proj[p].batch : pos'[x] < pos'[f]
    <3>1. CASE f \in Truth!Committed
      BY <1>2, <1>5, <2>1, <2>3, <2>4, <3>1 DEF BatchIsSound
    <3>2. CASE f \notin Truth!Committed
      <4>1. ~Truth!ReadTo(pos[f]) /\ proj[p].at = "run"
        BY <1>3, <1>9, <2>3, <3>2 DEF Running
      <4>2. /\ ~(pos[f] <= proj[p].last)
            /\ \A x \in proj[p].batch : ~(pos[f] < pos[x])
        BY <4>1 DEF Truth!ReadTo
      <4>3. /\ pos'[f] = pos[f] /\ pos[f] \in Nat /\ proj[p].last \in Nat
            /\ \A x \in proj[p].batch : pos'[x] = pos[x] /\ pos[x] \in Nat /\ pos[x] # pos[f]
        BY <1>0, <1>2, <1>3, <2>3, <2>4, <3>2 DEF TruthShape, Truth!Committed
      <4> QED
        BY <4>2, <4>3
    <3> QED
      BY <3>1, <3>2
  <2> QED
    BY <1>2, <2>1, <2>2, <2>3, <2>4 DEF BatchIsSound
<1>10. CASE broken # {}
  BY <1>4, <1>6, <1>7, <1>10 DEF TruthInv, Truth!CheckpointIsProjected
<1>11. CASE broken = {}
  BY <1>4, <1>6, <1>7, <1>8, <1>9, <1>11 DEF TruthInv, Running
<1> QED
  BY <1>10, <1>11


\* What a projector's step leaves alone.
LEMMA SameJournal ==
    ASSUME UNCHANGED <<head, row, pos, skipped>>
    PROVE  /\ Truth!Committed' = Truth!Committed
           /\ RowsAreApart => RowsAreApart'
           /\ \A obs : Truth!Resolve(obs)' = Truth!Resolve(obs)
<1>1. Truth!Committed' = Truth!Committed
  BY DEF Truth!Committed
<1>2. RowsAreApart => RowsAreApart'
  BY <1>1 DEF RowsAreApart
<1>3. ASSUME NEW obs PROVE Truth!Resolve(obs)' = Truth!Resolve(obs)
  BY DEF Truth!Resolve, Truth!Latest, Truth!Later
<1> QED
  BY <1>1, <1>2, <1>3

\* A step of one projector that leaves the tables alone.
LEMMA ProjectorKeeps ==
    ASSUME TruthInv, NEW p \in Projectors, NEW r, proj' = [proj EXCEPT ![p] = r],
           {"at", "batch", "done", "last", "truth"} \subseteq DOMAIN r,
           UNCHANGED <<head, row, pos, skipped, checkpoint, observed, truth, broken>>,
           r.at \in {"idle", "run", "failed"}, r.done \cup r.batch \subseteq Truth!Committed,
           r.last \in Reached, r.last \in Nat, r.at # "run" => r.done = {},
           r.at = "run" => \A q \in Projectors : Running(q) => q = p,
           broken = {} /\ r.at = "run" => BatchIsSound(p)'
    PROVE  TruthInv'
<1>0. TruthShape /\ RowsAreApart /\ OneProjects
  BY DEF TruthInv
<1>1. /\ DOMAIN proj' = Projectors
      /\ \A q \in Projectors : proj'[q] = IF q = p THEN r ELSE proj[q]
  BY <1>0 DEF TruthShape
<1>2. From' = From /\ Reached' = Reached /\ Truth!Committed' = Truth!Committed /\ RowsAreApart'
  BY <1>0, SameJournal DEF From, Reached
<1>3. TruthShape'
  BY <1>0, <1>1, <1>2 DEF TruthShape, Running
<1>4. OneProjects'
  BY <1>0, <1>1 DEF OneProjects, Running
<1>5. Truth!CheckpointIsProjected'
  BY <1>2, SameJournal DEF TruthInv, Truth!CheckpointIsProjected
<1>6. ASSUME broken = {}, NEW q \in Projectors, Running(q)' PROVE BatchIsSound(q)'
  <2>1. CASE q = p
    BY <1>1, <1>6, <2>1 DEF Running
  <2>2. CASE q # p
    <3>1. proj'[q] = proj[q] /\ BatchIsSound(q)
      BY <1>1, <1>6, <2>2 DEF TruthInv, Running
    <3> QED
      BY <1>2, <3>1, SameJournal DEF BatchIsSound
  <2> QED
    BY <2>1, <2>2
<1> QED
  BY <1>2, <1>3, <1>4, <1>5, <1>6 DEF TruthInv

LEMMA BeginKeepsTruth ==
    ASSUME TruthInv, NEW p \in Projectors, Truth!Begin(p)
    PROVE  TruthInv'
<1>0. TruthShape /\ RowsAreApart
  BY DEF TruthInv
<1>1. /\ \A q \in Projectors : ~Running(q)
      /\ proj' = [proj EXCEPT ![p] = [at |-> "run", batch |-> Truth!Beyond(From), done |-> {},
                                      last |-> From, truth |-> truth]]
      /\ UNCHANGED <<head, row, pos, skipped, checkpoint, observed, truth, broken>>
  BY DEF Truth!Begin, Truth!LockFree, Running, From, Truth!journal
<1>2. From \in Reached /\ From \in Nat
  BY <1>0 DEF TruthShape, From
<1>3. proj'[p] = [at |-> "run", batch |-> Truth!Beyond(From), done |-> {}, last |-> From, truth |-> truth]
  BY <1>0, <1>1 DEF TruthShape
<1>4. From' = From /\ Truth!Committed' = Truth!Committed
  BY <1>1, SameJournal DEF From
<1>5. BatchIsSound(p)'
  BY <1>0, <1>1, <1>2, <1>3, <1>4 DEF BatchIsSound, Truth!Beyond, TruthShape
<1> DEFINE r == [at |-> "run", batch |-> Truth!Beyond(From), done |-> {}, last |-> From, truth |-> truth]
<1>6. /\ r.at = "run" /\ r.done = {} /\ r.last = From /\ r.batch \subseteq Truth!Committed
      /\ {"at", "batch", "done", "last", "truth"} \subseteq DOMAIN r
      /\ proj' = [proj EXCEPT ![p] = r]
  BY <1>1 DEF Truth!Beyond
<1> HIDE DEF r
<1>7. \A q \in Projectors : Running(q) => q = p
  BY <1>1
<1> QED
  BY <1>1, <1>2, <1>5, <1>6, <1>7, ProjectorKeeps

\* The row of the lowest position is copied.
LEMMA ProjectOneKeeps ==
    ASSUME TruthInv, NEW p \in Projectors, Truth!ProjectOne(p)
    PROVE  TruthInv'
<1> DEFINE e == Truth!Row(p)
           resolved == Truth!Resolve(observed \cup proj[p].done \cup {e})
<1>0. TruthShape /\ RowsAreApart /\ OneProjects
  BY DEF TruthInv
<1> DEFINE r == [proj[p] EXCEPT !.batch = @ \ {e}, !.done = @ \cup {e}, !.last = pos[e], !.truth = resolved]
<1>1. /\ Running(p) /\ proj[p].batch # {} /\ proj' = [proj EXCEPT ![p] = r]
      /\ UNCHANGED <<head, row, pos, skipped, checkpoint, observed, truth, broken>>
  BY DEF Truth!ProjectOne, Truth!journal, Running
<1> HIDE DEF resolved
<1>2. /\ r.at = "run" /\ r.batch = proj[p].batch \ {e} /\ r.done = proj[p].done \cup {e}
      /\ r.last = pos[e] /\ r.truth = resolved
      /\ {"at", "batch", "done", "last", "truth"} \subseteq DOMAIN r
  <2> HIDE DEF e
  <2> QED
    BY <1>0, <1>1 DEF TruthShape, Running
<1> HIDE DEF r
<1>11. proj'[p] = r
  BY <1>0, <1>1 DEF TruthShape
<1>3. proj[p].batch \subseteq Truth!Committed /\ proj[p].done \subseteq Truth!Committed
      /\ Truth!Committed \subseteq Events /\ \A x \in Events : pos[x] \in Nat
  BY <1>0 DEF TruthShape, Truth!Committed
<1>4. e \in proj[p].batch /\ \A x \in proj[p].batch : pos[e] <= pos[x]
  <2> DEFINE T == {pos[x] : x \in proj[p].batch}
  <2>1. T \in SUBSET Nat /\ T # {}
    BY <1>1, <1>3
  <2> HIDE DEF T
  <2>3. PICK n \in T : \A m \in T : n <= m
    BY <2>1, SetHasLeast
  <2>2. \E x \in proj[p].batch : \A y \in proj[p].batch : pos[x] <= pos[y]
    BY <2>3 DEF T
  <2> QED
    BY <2>2 DEF Truth!Row
<1> HIDE DEF e
<1>5. From' = From /\ Truth!Committed' = Truth!Committed
      /\ \A obs : Truth!Resolve(obs)' = Truth!Resolve(obs)
  BY <1>1, SameJournal DEF From
<1>6. pos[e] \in Reached /\ pos[e] \in Nat
  BY <1>3, <1>4 DEF Reached
<1>7. \A x \in proj[p].batch : x # e => pos[e] < pos[x]
  BY <1>0, <1>3, <1>4 DEF RowsAreApart, Truth!Committed
<1>8. ASSUME broken = {} PROVE BatchIsSound(p)'
  <2>1. BatchIsSound(p)
    BY <1>1, <1>8 DEF TruthInv
  <2>2. From <= proj[p].last /\ proj[p].last < pos[e] /\ From \in Nat /\ proj[p].last \in Nat
    BY <1>0, <1>4, <2>1 DEF BatchIsSound, TruthShape, From
  <2>3. ASSUME NEW x \in r.done PROVE From < pos[x] /\ pos[x] <= pos[e]
    <3>1. CASE x = e
      BY <1>6, <2>2, <3>1
    <3>2. CASE x \in proj[p].done
      <4>1. From < pos[x] /\ pos[x] <= proj[p].last /\ pos[x] \in Nat
        BY <1>3, <2>1, <3>2 DEF BatchIsSound
      <4> QED
        BY <1>6, <2>2, <4>1
    <3> QED
      BY <1>2, <3>1, <3>2
  <2>4. ASSUME NEW x \in Truth!Committed \ skipped, From < pos[x],
               x \notin r.done \cup r.batch
        PROVE  pos[e] < pos[x] /\ \A y \in r.batch : pos[y] < pos[x]
    BY <1>2, <1>4, <2>1, <2>4 DEF BatchIsSound
  <2>5. resolved = Truth!Resolve(observed \cup r.done)
    <3>1. observed \cup r.done = observed \cup proj[p].done \cup {e}
      BY <1>2
    <3> QED
      BY <3>1 DEF resolved
  <2>6. /\ r.done # {} /\ r.last = pos[e] /\ r.truth = resolved
        /\ \A x \in r.batch : pos[e] < pos[x]
    BY <1>2, <1>7
  <2>7. BatchIsSound(p)' <=>
          /\ From <= r.last
          /\ r.done = {} => r.last = From
          /\ \A x \in r.done : From < pos[x] /\ pos[x] <= r.last
          /\ \A x \in r.batch : r.last < pos[x]
          /\ \A x \in Truth!Committed \ skipped :
               From < pos[x] /\ x \notin r.done \cup r.batch =>
                 /\ r.last < pos[x]
                 /\ \A y \in r.batch : pos[y] < pos[x]
          /\ r.truth = IF r.done = {} THEN truth ELSE Truth!Resolve(observed \cup r.done)
    BY <1>1, <1>5, <1>11 DEF BatchIsSound
  <2>8. From <= r.last
    BY <1>6, <2>2, <2>6
  <2> QED
    BY <2>3, <2>4, <2>5, <2>6, <2>7, <2>8
<1>9. \A q \in Projectors : Running(q) => q = p
  BY <1>0, <1>1 DEF OneProjects
<1>10. r.done \cup r.batch \subseteq Truth!Committed
  BY <1>2, <1>3, <1>4
<1> QED
  BY <1>1, <1>2, <1>6, <1>8, <1>9, <1>10, ProjectorKeeps

LEMMA PositionsArePositive ==
    TruthShape /\ RowsAreApart => \A e \in Truth!Committed : pos[e] \in Nat /\ pos[e] > 0
<1> SUFFICES ASSUME TruthShape, RowsAreApart, NEW e \in Truth!Committed
             PROVE  pos[e] \in Nat /\ pos[e] > 0
  OBVIOUS
<1>1. e \in Events /\ row[e] # "none"
  BY DEF Truth!Committed
<1>2. pos[e] \in 1..head /\ head \in Nat
  BY <1>1 DEF RowsAreApart, TruthShape
<1> QED
  BY <1>2

LEMMA FinishKeepsTruth ==
    ASSUME TruthInv, NEW p \in Projectors, Truth!Finish(p)
    PROVE  TruthInv'
<1>0. TruthShape /\ RowsAreApart /\ OneProjects
  BY DEF TruthInv
<1>1. /\ Running(p) /\ proj[p].batch = {} /\ proj' = [proj EXCEPT ![p] = Truth!Idle]
      /\ observed' = observed \cup proj[p].done /\ truth' = proj[p].truth
      /\ checkpoint' = IF proj[p].done = {} THEN checkpoint ELSE proj[p].last
      /\ UNCHANGED <<head, row, pos, skipped, broken>>
  BY DEF Truth!Finish, Truth!journal, Running
<1>2. /\ DOMAIN proj' = Projectors
      /\ \A q \in Projectors : proj'[q] = IF q = p THEN Truth!Idle ELSE proj[q]
  BY <1>0, <1>1 DEF TruthShape
<1>3. \A q \in Projectors : ~Running(q)'
  BY <1>0, <1>1, <1>2 DEF OneProjects, Running, Truth!Idle
<1>4. Truth!Committed' = Truth!Committed /\ Reached' = Reached /\ RowsAreApart'
      /\ \A obs : Truth!Resolve(obs)' = Truth!Resolve(obs)
  BY <1>0, <1>1, SameJournal DEF Reached
<1>10. /\ Truth!Idle.at = "idle" /\ Truth!Idle.batch = {} /\ Truth!Idle.done = {} /\ Truth!Idle.last = 0
       /\ {"at", "batch", "done", "last", "truth"} \subseteq DOMAIN Truth!Idle
  BY DEF Truth!Idle
<1>5. TruthShape'
  <2>1. From' \in Reached' /\ checkpoint' \in Nat \cup {None}
    BY <1>0, <1>1, <1>4, TruthValues DEF TruthShape, From
  <2>2. observed' \subseteq Truth!Committed'
    BY <1>0, <1>1, <1>4 DEF TruthShape
  <2>3. ASSUME NEW q \in Projectors
        PROVE  /\ {"at", "batch", "done", "last", "truth"} \subseteq DOMAIN proj'[q]
               /\ proj'[q].at \in {"idle", "run", "failed"} /\ proj'[q].last \in Nat
               /\ ~Running(q)' => proj'[q].done = {}
               /\ proj'[q].done \cup proj'[q].batch \subseteq Truth!Committed'
               /\ proj'[q].last \in Reached'
    <3>1. CASE q = p
      <4>1. proj'[q] = Truth!Idle /\ 0 \in Reached'
        BY <1>0, <1>2, <1>4, <3>1 DEF Reached
      <4> QED
        BY <4>1, <1>10 DEF Running
    <3>2. CASE q # p
      <4>1. proj'[q] = proj[q]
        BY <1>0, <1>2, <1>4, <3>2
      <4> QED
        BY <1>0, <1>2, <1>4, <4>1 DEF TruthShape, Running
    <3> QED
      BY <3>1, <3>2
  <2>4. head' \in Nat /\ row' \in [Events -> {"none", "open", "committed"}] /\ pos' \in [Events -> Nat]
    BY <1>0, <1>1 DEF TruthShape
  <2> QED
    BY <1>2, <2>1, <2>2, <2>3, <2>4 DEF TruthShape
<1>6. ASSUME broken = {} PROVE Truth!CheckpointIsProjected'
  <2>1. BatchIsSound(p)
    BY <1>1, <1>6 DEF TruthInv
  <2>2. /\ {e \in Truth!Committed : checkpoint # None /\ pos[e] <= checkpoint} \ skipped = observed \ skipped
        /\ truth = IF observed = {} THEN None ELSE Truth!Resolve(observed)
    BY <1>6 DEF TruthInv, Truth!CheckpointIsProjected
  <2>3. CASE proj[p].done = {}
    <3>1. UNCHANGED <<observed, truth, checkpoint>>
      BY <1>1, <2>1, <2>3 DEF BatchIsSound
    <3> QED
      BY <1>1, <1>4, <2>2, <3>1 DEF Truth!CheckpointIsProjected
  <2>4. CASE proj[p].done # {}
    <3>1. checkpoint' = proj[p].last /\ proj[p].last \in Nat /\ From \in Nat /\ From <= proj[p].last
      BY <1>0, <1>1, <2>1, <2>4 DEF BatchIsSound, TruthShape, From
    <3>2. \A e \in Truth!Committed : pos[e] \in Nat /\ pos[e] > 0
      BY <1>0, PositionsArePositive
    <3>3. ASSUME NEW e \in Truth!Committed \ skipped
          PROVE  pos[e] <= proj[p].last <=> e \in observed \cup proj[p].done
      <4>1. pos[e] <= From <=> e \in observed
        BY <2>2, <3>2, <3>3 DEF From
      <4>2. e \in proj[p].done => pos[e] <= proj[p].last
        BY <2>1 DEF BatchIsSound
      <4>3. From < pos[e] /\ e \notin proj[p].done => proj[p].last < pos[e]
        BY <1>1, <2>1, <3>3 DEF BatchIsSound
      <4> QED
        BY <3>1, <3>2, <4>1, <4>2, <4>3
    <3>4. observed \cup proj[p].done \subseteq Truth!Committed
      BY <1>0 DEF TruthShape
    <3>5. {e \in Truth!Committed : proj[p].last # None /\ pos[e] <= proj[p].last} \ skipped
            = (observed \cup proj[p].done) \ skipped
      BY <3>1, <3>3, <3>4, TruthValues
    <3>6. proj[p].truth = Truth!Resolve(observed \cup proj[p].done)
      BY <2>1, <2>4 DEF BatchIsSound
    <3> QED
      BY <1>1, <1>4, <2>4, <3>1, <3>5, <3>6 DEF Truth!CheckpointIsProjected
  <2> QED
    BY <2>3, <2>4
<1>7. OneProjects'
  BY <1>3 DEF OneProjects
<1>8. Truth!CheckpointIsProjected'
  BY <1>1, <1>6 DEF Truth!CheckpointIsProjected
<1> QED
  BY <1>3, <1>4, <1>5, <1>7, <1>8 DEF TruthInv

LEMMA RollbackKeepsTruth ==
    ASSUME TruthInv, NEW p \in Projectors, Truth!Rollback(p) \/ Truth!Die(p)
    PROVE  TruthInv'
<1>0. TruthShape
  BY DEF TruthInv
<1>1. UNCHANGED <<head, row, pos, skipped, checkpoint, observed, truth, broken>>
  BY DEF Truth!Rollback, Truth!Die, Truth!journal
<1>2. CASE Truth!Rollback(p)
  <2> DEFINE r == [proj[p] EXCEPT !.at = "failed", !.batch = {}, !.done = {}, !.truth = None]
  <2>1. proj' = [proj EXCEPT ![p] = r]
    BY <1>2 DEF Truth!Rollback
  <2>2. /\ r.at = "failed" /\ r.batch = {} /\ r.done = {} /\ r.last = proj[p].last
        /\ {"at", "batch", "done", "last", "truth"} \subseteq DOMAIN r
    BY <1>0 DEF TruthShape
  <2> HIDE DEF r
  <2>3. r.last \in Nat /\ r.last \in Reached
    BY <1>0, <2>2 DEF TruthShape
  <2> QED
    BY <1>1, <2>1, <2>2, <2>3, ProjectorKeeps
<1>3. CASE Truth!Die(p)
  <2>1. proj' = [proj EXCEPT ![p] = Truth!Idle]
    BY <1>3 DEF Truth!Die
  <2>2. /\ Truth!Idle.at = "idle" /\ Truth!Idle.batch = {} /\ Truth!Idle.done = {} /\ Truth!Idle.last = 0
        /\ {"at", "batch", "done", "last", "truth"} \subseteq DOMAIN Truth!Idle
    BY DEF Truth!Idle
  <2>3. 0 \in Nat /\ 0 \in Reached
    BY DEF Reached
  <2> QED
    BY <1>1, <2>1, <2>2, <2>3, ProjectorKeeps
<1> QED
  BY <1>2, <1>3

LEMMA RecordFailureKeepsTruth ==
    ASSUME TruthInv, NEW p \in Projectors, Truth!RecordFailure(p)
    PROVE  TruthInv'
<1>0. TruthShape /\ RowsAreApart /\ OneProjects
  BY DEF TruthInv
<1>1. /\ proj[p].at = "failed" /\ proj' = [proj EXCEPT ![p] = Truth!Idle]
      /\ UNCHANGED <<head, row, pos, skipped, observed, truth>>
  BY DEF Truth!RecordFailure, Truth!journal
<1>2. /\ Truth!Idle.at = "idle" /\ Truth!Idle.batch = {} /\ Truth!Idle.done = {} /\ Truth!Idle.last = 0
      /\ {"at", "batch", "done", "last", "truth"} \subseteq DOMAIN Truth!Idle
  BY DEF Truth!Idle
<1>3. CASE checkpoint # None
  <2>1. UNCHANGED <<checkpoint, broken>>
    BY <1>3 DEF Truth!RecordFailure
  <2>2. 0 \in Nat /\ 0 \in Reached
    BY DEF Reached
  <2> QED
    BY <1>1, <1>2, <2>1, <2>2, ProjectorKeeps
<1>4. CASE checkpoint = None
  <2>1. /\ checkpoint' = proj[p].last
        /\ broken' = IF proj[p].last > 0 THEN broken \cup {"first_failure"} ELSE broken
    BY <1>4 DEF Truth!RecordFailure
  <2>2. /\ DOMAIN proj' = Projectors
        /\ \A q \in Projectors : proj'[q] = IF q = p THEN Truth!Idle ELSE proj[q]
    BY <1>0, <1>1 DEF TruthShape
  <2>3. Truth!Committed' = Truth!Committed /\ Reached' = Reached /\ RowsAreApart'
        /\ \A obs : Truth!Resolve(obs)' = Truth!Resolve(obs)
    BY <1>0, <1>1, SameJournal DEF Reached
  <2>4. checkpoint' \in Nat /\ From' = proj[p].last /\ From' \in Reached'
    BY <1>0, <2>1, <2>3, TruthValues DEF TruthShape, From
  <2>5. TruthShape'
    <3>1. ASSUME NEW q \in Projectors
          PROVE  /\ {"at", "batch", "done", "last", "truth"} \subseteq DOMAIN proj'[q]
                 /\ proj'[q].at \in {"idle", "run", "failed"} /\ proj'[q].last \in Nat
                 /\ ~Running(q)' => proj'[q].done = {}
                 /\ proj'[q].done \cup proj'[q].batch \subseteq Truth!Committed'
                 /\ proj'[q].last \in Reached'
      <4>1. CASE q = p
        <5>1. proj'[q] = Truth!Idle /\ 0 \in Reached'
          BY <1>0, <2>2, <2>3, <4>1 DEF Reached
        <5> QED
          BY <5>1, <1>2 DEF Running
      <4>2. CASE q # p
        <5>1. proj'[q] = proj[q]
          BY <1>0, <2>2, <2>3, <4>2
        <5> QED
          BY <1>0, <2>2, <2>3, <5>1 DEF TruthShape, Running
      <4> QED
        BY <4>1, <4>2
    <3> QED
      BY <1>0, <1>1, <2>2, <2>3, <2>4, <3>1 DEF TruthShape
  <2>6. OneProjects'
    BY <1>0, <1>2, <2>2 DEF OneProjects, Running
  <2>7. ASSUME broken' = {}
        PROVE  /\ Truth!CheckpointIsProjected'
               /\ \A q \in Projectors : Running(q)' => BatchIsSound(q)'
    <3>1. broken = {} /\ proj[p].last = 0 /\ From' = From
      BY <1>0, <1>4, <2>1, <2>4, <2>7 DEF TruthShape, From
    <3>2. \A e \in Truth!Committed : pos[e] \in Nat /\ pos[e] > 0
      BY <1>0, PositionsArePositive
    <3>3. {e \in Truth!Committed : checkpoint' # None /\ pos[e] <= checkpoint'} \ skipped = {}
      BY <2>1, <3>1, <3>2
    <3>4. observed \ skipped = {} /\ truth = IF observed = {} THEN None ELSE Truth!Resolve(observed)
      BY <1>4, <3>1 DEF TruthInv, Truth!CheckpointIsProjected
    <3>5. Truth!CheckpointIsProjected'
      BY <1>1, <2>3, <3>3, <3>4 DEF Truth!CheckpointIsProjected
    <3>6. ASSUME NEW q \in Projectors, Running(q)' PROVE BatchIsSound(q)'
      <4>1. q # p /\ proj'[q] = proj[q] /\ Running(q)
        BY <1>2, <2>2, <3>6 DEF Running
      <4>2. BatchIsSound(q)
        BY <3>1, <4>1 DEF TruthInv
      <4> QED
        BY <1>1, <2>3, <3>1, <4>1, <4>2 DEF BatchIsSound
    <3> QED
      BY <3>5, <3>6
  <2> QED
    BY <2>3, <2>5, <2>6, <2>7 DEF TruthInv, Truth!CheckpointIsProjected
<1> QED
  BY <1>3, <1>4

LEMMA RebuildKeepsTruth == ASSUME TruthInv, Truth!Rebuild PROVE TruthInv'
<1>0. TruthShape /\ RowsAreApart /\ OneProjects
  BY DEF TruthInv
<1>1. /\ observed' = {} /\ truth' = None /\ checkpoint' = 0
      /\ broken' = IF Truth!LockFree THEN broken ELSE broken \cup {"raced"}
      /\ skipped' = {} /\ UNCHANGED <<head, row, pos, proj>>
  BY DEF Truth!Rebuild, Truth!journal
<1>2. Truth!Committed' = Truth!Committed /\ Reached' = Reached /\ RowsAreApart'
  <2>1. Truth!Committed' = Truth!Committed
    BY <1>1 DEF Truth!Committed
  <2> QED
    BY <1>0, <1>1, <2>1 DEF Reached, RowsAreApart
<1>3. checkpoint' \in Nat /\ From' = 0 /\ 0 \in Reached'
  BY <1>1, TruthValues DEF From, Reached
<1>4. TruthShape'
  BY <1>0, <1>1, <1>2, <1>3 DEF TruthShape, Running
<1>5. OneProjects'
  BY <1>0, <1>1 DEF OneProjects, Running
<1>6. Truth!CheckpointIsProjected'
  <2>1. \A e \in Truth!Committed : pos[e] \in Nat /\ pos[e] > 0
    BY <1>0, PositionsArePositive
  <2> QED
    BY <1>1, <1>2, <2>1 DEF Truth!CheckpointIsProjected
<1>7. broken' = {} => \A q \in Projectors : ~Running(q)'
  BY <1>1 DEF Truth!LockFree, Running
<1> QED
  BY <1>2, <1>4, <1>5, <1>6, <1>7 DEF TruthInv

LEMMA TruthStep == TruthInv /\ [Truth!Next]_truthsVars => TruthInv'
<1> SUFFICES ASSUME TruthInv, [Truth!Next]_truthsVars PROVE TruthInv'
  OBVIOUS
<1>1. CASE UNCHANGED truthsVars
  <2>1. UNCHANGED <<head, row, pos, skipped, checkpoint, observed, truth, proj, broken>>
    BY <1>1 DEF truthsVars
  <2>2. Truth!Committed' = Truth!Committed /\ Reached' = Reached /\ From' = From
        /\ \A obs : Truth!Resolve(obs)' = Truth!Resolve(obs)
    BY <2>1, SameJournal DEF Reached, From
  <2>3. TruthShape' /\ RowsAreApart' /\ OneProjects'
    BY <2>1, <2>2, SameJournal DEF TruthInv, TruthShape, OneProjects, Running
  <2>4. Truth!CheckpointIsProjected'
    BY <2>1, <2>2 DEF TruthInv, Truth!CheckpointIsProjected
  <2>5. broken' = {} => \A p \in Projectors : Running(p)' => BatchIsSound(p)'
    BY <2>1, <2>2 DEF TruthInv, BatchIsSound, Running
  <2> QED
    BY <2>3, <2>4, <2>5 DEF TruthInv
<1>2. CASE Truth!Write
  BY <1>2, JournalKeepsTruth DEF Truth!Write, Truth!JournalNext, Truth!projection
<1>3. ASSUME NEW p \in Projectors,
             \/ Truth!Begin(p) \/ Truth!ProjectOne(p) \/ Truth!Finish(p)
             \/ Truth!Rollback(p) \/ Truth!RecordFailure(p) \/ Truth!Die(p)
      PROVE  TruthInv'
  BY <1>3, BeginKeepsTruth, ProjectOneKeeps, FinishKeepsTruth, RollbackKeepsTruth,
     RecordFailureKeepsTruth
<1>4. CASE Truth!Rebuild
  BY <1>4, RebuildKeepsTruth
<1> QED
  BY <1>1, <1>2, <1>3, <1>4 DEF Truth!Next, Truth!projection

LEMMA TruthHolds == TruthInv => Truth!CheckpointIsProjected
BY DEF TruthInv

-----------------------------------------------------------------------------
(* What attention decides, for the parameters k of either household.        *)

IsSource(t, i) == t.id = <<"source", i>>

\* The tables of attention: a trigger named for an event holds that event alone.
TablesAreSound(k, s) ==
    /\ {"last", "rates", "windows", "closed", "reasons", "triggers"} \subseteq DOMAIN s
    /\ DOMAIN s.reasons = Attending(k)!Positions
    /\ \A t \in s.triggers, i \in Nat : IsSource(t, i) => t.sources = <<i>>

EventIsDecided(s, i) ==
    /\ s.reasons[i] # None
    /\ log[i].kind.guaranteed => \E t \in s.triggers : IsSource(t, i) /\ t.sources = <<i>>

\* Decisions and triggers are added, never taken back.
DecidesOn(k, s, t) ==
    /\ s.triggers \subseteq t.triggers
    /\ \A i \in Attending(k)!Positions : s.reasons[i] # None => t.reasons[i] # None

\* A reading takes no guaranteed event for another.
ReadingIsFair(i, reason) ==
    /\ reason # None
    /\ log[i].kind.guaranteed => reason = "GUARANTEED_CLASS"

Behind(c) == IF cursor[c] = None THEN 0 ELSE cursor[c]

CallIsSound(k, c) ==
    /\ {"at", "next", "last", "reason"} \subseteq DOMAIN call[c]
    /\ call[c].at \in {"idle", "reading", "writing"}
    /\ call[c].at = "reading" =>
         /\ call[c].next = Behind(c) + 1 /\ call[c].last \in Behind(c) + 1..Len(log)
         /\ call[c].reason = None \/ ReadingIsFair(call[c].next, call[c].reason)
    /\ call[c].at = "writing" =>
         /\ writer = c
         /\ call[c].last \in Behind(c) + 1..Len(log)
         /\ call[c].next \in Behind(c) + 1..call[c].last + 1
         /\ \A i \in Behind(c) + 1..call[c].next - 1 : EventIsDecided(work, i)

CursorIsSound(c) ==
    /\ cursor[c] \in (0..Len(log)) \cup {None} /\ primed[c] \in Nat \cup {None}
    /\ cursor[c] = None <=> primed[c] = None
    /\ cursor[c] # None => \A i \in (primed[c] + 1)..cursor[c] : EventIsDecided(tables, i)

AttentionInv(k) ==
    /\ log \in Seq([kind : Kinds, time : Attending(k)!Times]) /\ Len(log) <= k.events
    /\ DOMAIN cursor = k.consumers /\ DOMAIN primed = k.consumers /\ DOMAIN call = k.consumers
    /\ TablesAreSound(k, tables) /\ TablesAreSound(k, work)
    /\ writer # None => DecidesOn(k, tables, work)
    /\ \A c \in k.consumers : CallIsSound(k, c) /\ CursorIsSound(c)

LEMMA AttentionHolds == ASSUME NEW k PROVE AttentionInv(k) => Attending(k)!PassedIsDecided
BY DEF AttentionInv, CursorIsSound, EventIsDecided, IsSource, Attending!PassedIsDecided

LEMMA AttentionStart ==
    ASSUME NEW k, Attending(k)!AttentionAssumption PROVE Attending(k)!Init => AttentionInv(k)
<1> SUFFICES ASSUME Attending(k)!Init PROVE AttentionInv(k)
  OBVIOUS
<1> USE DEF Attending!Init, Attending!AttentionAssumption
<1>1. TablesAreSound(k, Attending(k)!Empty)
  BY DEF TablesAreSound, Attending!Empty
<1>2. ASSUME NEW c \in k.consumers PROVE CallIsSound(k, c) /\ CursorIsSound(c)
  <2>1. call[c] = Attending(k)!Idle
    BY <1>2
  <2>2. CallIsSound(k, c)
    BY <2>1 DEF CallIsSound, Attending!Idle
  <2> QED
    BY <1>2, <2>2 DEF CursorIsSound
<1>3. log \in Seq([kind : Kinds, time : Attending(k)!Times]) /\ Len(log) = 0
  OBVIOUS
<1> QED
  BY <1>1, <1>2, <1>3 DEF AttentionInv

LEMMA DecidedStays ==
    ASSUME NEW k, NEW s, NEW t, DecidesOn(k, s, t), NEW i \in Attending(k)!Positions, EventIsDecided(s, i)
    PROVE  EventIsDecided(t, i)
BY DEF DecidesOn, EventIsDecided

LEMMA DecidesOnward ==
    ASSUME NEW k, NEW s, NEW t, NEW u, DecidesOn(k, s, t), DecidesOn(k, t, u)
    PROVE  DecidesOn(k, s, u)
BY DEF DecidesOn

LEMMA PersistDecides ==
    ASSUME NEW k, Attending(k)!AttentionAssumption, NEW s, TablesAreSound(k, s),
           NEW i \in Attending(k)!Positions, NEW reason, ReadingIsFair(i, reason)
    PROVE  LET p == Attending(k)!PersistDecision(s, i, reason)
           IN  TablesAreSound(k, p) /\ DecidesOn(k, s, p) /\ EventIsDecided(p, i)
<1> DEFINE new == [id |-> <<"source", i>>, sources |-> <<i>>]
           p == Attending(k)!PersistDecision(s, i, reason)
<1>1. /\ \A f \in {"last", "rates", "windows", "closed", "reasons", "triggers"} : f \in DOMAIN p
      /\ p.reasons = [s.reasons EXCEPT ![i] = IF @ = None THEN reason ELSE @]
      /\ p.triggers = IF reason \in Attending(k)!Triggering /\ ~\E t \in s.triggers : IsSource(t, i)
                      THEN s.triggers \cup {new} ELSE s.triggers
  BY DEF Attending!PersistDecision, TablesAreSound, IsSource
<1>2. new.id = <<"source", i>> /\ new.sources = <<i>>
  OBVIOUS
<1> HIDE DEF new, p
<1>3. i \in Nat
  BY DEF Attending!Positions
<1>4. \A t \in p.triggers, j \in Nat : IsSource(t, j) => t.sources = <<j>>
  <2> SUFFICES ASSUME NEW t \in p.triggers, NEW j \in Nat, IsSource(t, j)
               PROVE  t.sources = <<j>>
    OBVIOUS
  <2>1. CASE t \in s.triggers
    BY <2>1 DEF TablesAreSound
  <2>2. CASE t = new
    BY <1>2, <2>2 DEF IsSource
  <2> QED
    BY <1>1, <2>1, <2>2
<1>5. DOMAIN p.reasons = DOMAIN s.reasons
      /\ \A j \in DOMAIN s.reasons :
           p.reasons[j] = IF j = i /\ s.reasons[i] = None THEN reason ELSE s.reasons[j]
  BY <1>1
<1>6. TablesAreSound(k, p)
  BY <1>1, <1>4, <1>5 DEF TablesAreSound
<1>7. DecidesOn(k, s, p)
  BY <1>1, <1>5 DEF DecidesOn, TablesAreSound, ReadingIsFair
<1>8. reason = "GUARANTEED_CLASS" => \E t \in p.triggers : IsSource(t, i) /\ t.sources = <<i>>
  BY <1>1, <1>2, <1>3 DEF Attending!Triggering, TablesAreSound, IsSource
<1>9. EventIsDecided(p, i)
  BY <1>5, <1>8 DEF EventIsDecided, ReadingIsFair, TablesAreSound
<1> QED
  BY <1>6, <1>7, <1>9 DEF p

LEMMA FlushDecides ==
    ASSUME NEW k, NEW s, TablesAreSound(k, s), NEW at
    PROVE  LET f == Attending(k)!FlushDue(s, at) IN TablesAreSound(k, f) /\ DecidesOn(k, s, f)
<1> DEFINE f == Attending(k)!FlushDue(s, at)
           closed == {Attending(k)!CloseTrigger(s, t) : t \in Attending(k)!Due(s, at)}
<1>1. /\ \A x \in {"last", "rates", "windows", "closed", "reasons", "triggers"} : x \in DOMAIN f
      /\ f.reasons = s.reasons /\ f.triggers = s.triggers \cup closed
  BY DEF Attending!FlushDue, TablesAreSound
<1> HIDE DEF f
<1>2. ASSUME NEW t \in closed, NEW j \in Nat PROVE ~IsSource(t, j)
  <2>1. PICK w \in Attending(k)!Due(s, at) : t = Attending(k)!CloseTrigger(s, w)
    OBVIOUS
  <2>2. t.id = <<"aggregate-close", w>>
    BY <2>1 DEF Attending!CloseTrigger
  <2> QED
    BY <2>2 DEF IsSource
<1> HIDE DEF closed
<1>3. TablesAreSound(k, f) /\ DecidesOn(k, s, f)
  BY <1>1, <1>2 DEF TablesAreSound, DecidesOn
<1> QED
  BY <1>3 DEF f

LEMMA ProcessDecides ==
    ASSUME NEW k, Attending(k)!AttentionAssumption, NEW s, TablesAreSound(k, s),
           NEW i \in Attending(k)!Positions, NEW reason, ReadingIsFair(i, reason)
    PROVE  LET p == Attending(k)!ProcessEvent(s, i, reason)
           IN  TablesAreSound(k, p) /\ DecidesOn(k, s, p) /\ EventIsDecided(p, i)
<1> DEFINE d == Attending(k)!PersistDecision(s, i, reason)
           at == log[i].time
<1>1. TablesAreSound(k, d) /\ DecidesOn(k, s, d) /\ EventIsDecided(d, i)
  BY PersistDecides
<1> HIDE DEF d
<1>2. ASSUME NEW p, {"last", "rates", "windows", "closed", "reasons", "triggers"} \subseteq DOMAIN p,
             p.reasons = d.reasons, p.triggers = d.triggers
      PROVE  TablesAreSound(k, p) /\ DecidesOn(k, s, p) /\ EventIsDecided(p, i)
  BY <1>1, <1>2 DEF TablesAreSound, DecidesOn, EventIsDecided
<1>3. /\ {"last", "rates", "windows", "closed", "reasons", "triggers"}
           \subseteq DOMAIN Attending(k)!Aggregate(d, i, at)
      /\ Attending(k)!Aggregate(d, i, at).reasons = d.reasons
      /\ Attending(k)!Aggregate(d, i, at).triggers = d.triggers
  BY <1>1 DEF Attending!Aggregate, TablesAreSound
<1>4. /\ {"last", "rates", "windows", "closed", "reasons", "triggers"}
           \subseteq DOMAIN Attending(k)!MarkTriggerState(d, at)
      /\ Attending(k)!MarkTriggerState(d, at).reasons = d.reasons
      /\ Attending(k)!MarkTriggerState(d, at).triggers = d.triggers
  BY <1>1 DEF Attending!MarkTriggerState, TablesAreSound
<1>5. Attending(k)!ProcessEvent(s, i, reason)
        \in {d, Attending(k)!Aggregate(d, i, at), Attending(k)!MarkTriggerState(d, at)}
  BY DEF Attending!ProcessEvent, d
<1> QED
  BY <1>1, <1>2, <1>3, <1>4, <1>5

LEMMA ReadIsFair ==
    ASSUME NEW k, Attending(k)!AttentionAssumption, NEW s, NEW i
    PROVE  ReadingIsFair(i, Attending(k)!Read(s, i))
BY DEF ReadingIsFair, Attending!Read, Attending!Reason, Attending!AttentionAssumption, Attending!Reasons

LEMMA AttentionTypes ==
    ASSUME NEW k, Attending(k)!AttentionAssumption, AttentionInv(k)
    PROVE  /\ Len(log) \in Nat /\ k.events \in Nat /\ Len(log) <= k.events
           /\ \A i \in 1..Len(log) : i \in Attending(k)!Positions /\ i \in Nat
           /\ None \notin Nat /\ None \notin k.consumers
           /\ \A c \in k.consumers : Behind(c) \in Nat /\ Behind(c) <= Len(log)
<1>1. Len(log) \in Nat /\ Len(log) <= k.events
  BY DEF AttentionInv
<1>2. k.events \in Nat /\ None \notin Nat /\ None \notin k.consumers
  BY DEF Attending!AttentionAssumption
<1>3. \A c \in k.consumers : Behind(c) \in Nat /\ Behind(c) <= Len(log)
  BY <1>1, <1>2 DEF AttentionInv, CursorIsSound, Behind
<1> QED
  BY <1>1, <1>2, <1>3 DEF Attending!Positions

\* A step of one consumer, of which the tables and its own cursor and call must be shown.
LEMMA ConsumerKeeps ==
    ASSUME NEW k, Attending(k)!AttentionAssumption, AttentionInv(k), NEW c \in k.consumers,
           UNCHANGED log, DOMAIN cursor' = k.consumers, DOMAIN primed' = k.consumers,
           DOMAIN call' = k.consumers,
           \A d \in k.consumers \ {c} :
               cursor'[d] = cursor[d] /\ primed'[d] = primed[d] /\ call'[d] = call[d],
           TablesAreSound(k, tables'), TablesAreSound(k, work'), DecidesOn(k, tables, tables'),
           writer' # None => DecidesOn(k, tables', work'),
           \A d \in k.consumers \ {c} :
               call[d].at = "writing" => UNCHANGED <<writer, work>>,
           CallIsSound(k, c)', CursorIsSound(c)'
    PROVE  AttentionInv(k)'
<1>1. ASSUME NEW d \in k.consumers, d # c PROVE CallIsSound(k, d)' /\ CursorIsSound(d)'
  <2>1. CallIsSound(k, d) /\ CursorIsSound(d) /\ Behind(d)' = Behind(d)
        /\ cursor'[d] = cursor[d] /\ primed'[d] = primed[d] /\ call'[d] = call[d]
    BY <1>1 DEF AttentionInv, Behind
  <2>3. CallIsSound(k, d)'
    <3>1. call[d].at = "writing" =>
            \A i \in Behind(d) + 1..call[d].next - 1 : EventIsDecided(work, i)'
      BY <1>1, <2>1 DEF CallIsSound, EventIsDecided, IsSource
    <3> QED
      BY <1>1, <2>1, <3>1 DEF CallIsSound, ReadingIsFair
  <2>4. CursorIsSound(d)'
    <3> SUFFICES ASSUME cursor[d] # None, NEW i \in (primed[d] + 1)..cursor[d]
                 PROVE  EventIsDecided(tables, i)'
      BY <2>1 DEF CursorIsSound
    <3>1. EventIsDecided(tables, i) /\ i \in Attending(k)!Positions
      BY <1>1, <2>1, AttentionTypes DEF CursorIsSound
    <3>2. EventIsDecided(tables', i)
      BY <3>1, DecidedStays
    <3> QED
      BY <3>2 DEF EventIsDecided, IsSource
  <2> QED
    BY <2>3, <2>4
<1>2. \A d \in k.consumers : CallIsSound(k, d)' /\ CursorIsSound(d)'
  BY <1>1
<1> QED
  BY <1>2 DEF AttentionInv, TablesAreSound, DecidesOn, IsSource

LEMMA AppendKeepsAttention ==
    ASSUME NEW k, Attending(k)!AttentionAssumption, AttentionInv(k),
           NEW kind \in Kinds, NEW at \in Attending(k)!Times, Attending(k)!Append1(kind, at)
    PROVE  AttentionInv(k)'
<1> DEFINE e == [kind |-> kind, time |-> at]
           Events1 == [kind : Kinds, time : Attending(k)!Times]
<1>1. /\ Len(log) < k.events /\ log' = Append(log, e)
      /\ UNCHANGED <<cursor, tables, call, writer, work, primed>>
  BY DEF Attending!Append1
<1>2. log \in Seq(Events1) /\ e \in Events1
  BY DEF AttentionInv
<1>3. log' \in Seq(Events1) /\ Len(log') = Len(log) + 1 /\ \A i \in 1..Len(log) : log'[i] = log[i]
  <2> HIDE DEF e, Events1
  <2> QED
    BY <1>1, <1>2, AppendProperties
<1>4. /\ Len(log) \in Nat /\ k.events \in Nat
      /\ \A c \in k.consumers : Behind(c) \in Nat /\ Behind(c)' = Behind(c)
  BY <1>1, AttentionTypes DEF Behind
<1>6. ASSUME NEW c \in k.consumers PROVE CallIsSound(k, c)' /\ CursorIsSound(c)'
  <2>1. CallIsSound(k, c) /\ CursorIsSound(c) /\ Behind(c) \in Nat /\ Behind(c)' = Behind(c)
    BY <1>4 DEF AttentionInv
  <2>2. CallIsSound(k, c)'
    <3>1. ASSUME call[c].at = "writing", NEW i \in Behind(c) + 1..call[c].next - 1
          PROVE  EventIsDecided(work, i)'
      <4>1. i \in 1..Len(log) /\ EventIsDecided(work, i)
        BY <1>4, <2>1, <3>1 DEF CallIsSound
      <4> QED
        BY <1>1, <1>3, <4>1 DEF EventIsDecided, IsSource
    <3>2. ASSUME call[c].at = "reading", call[c].reason # None
          PROVE  ReadingIsFair(call[c].next, call[c].reason)'
      <4>1. call[c].next \in 1..Len(log) /\ ReadingIsFair(call[c].next, call[c].reason)
        BY <1>4, <2>1, <3>2 DEF CallIsSound
      <4> QED
        BY <1>1, <1>3, <4>1 DEF ReadingIsFair
    <3> QED
      BY <1>1, <1>3, <1>4, <2>1, <3>1, <3>2 DEF CallIsSound
  <2>3. CursorIsSound(c)'
    <3>1. ASSUME cursor[c] # None, NEW i \in (primed[c] + 1)..cursor[c]
          PROVE  EventIsDecided(tables, i)'
      <4>1. i \in 1..Len(log) /\ EventIsDecided(tables, i)
        BY <1>4, <2>1, <3>1 DEF CursorIsSound
      <4> QED
        BY <1>1, <1>3, <4>1 DEF EventIsDecided, IsSource
    <3> QED
      BY <1>1, <1>3, <1>4, <2>1, <3>1 DEF CursorIsSound
  <2> QED
    BY <2>2, <2>3
<1>7. TablesAreSound(k, tables)' /\ TablesAreSound(k, work)'
  BY <1>1 DEF AttentionInv, TablesAreSound, IsSource
<1>8. (writer # None => DecidesOn(k, tables, work))'
  BY <1>1 DEF AttentionInv, DecidesOn
<1>9. Len(log') <= k.events
  BY <1>1, <1>3, <1>4
<1> QED
  BY <1>1, <1>3, <1>6, <1>7, <1>8, <1>9 DEF AttentionInv

LEMMA ProcessKeepsAttention ==
    ASSUME NEW k, Attending(k)!AttentionAssumption, AttentionInv(k),
           NEW c \in k.consumers, Attending(k)!Process(c)
    PROVE  AttentionInv(k)'
<1>1. PICK limit \in k.limits :
        LET from == Behind(c)
            to == IF from + limit < Len(log) THEN from + limit ELSE Len(log)
        IN  /\ call[c] = Attending(k)!Idle
            /\ IF from = to
               THEN /\ cursor' = [cursor EXCEPT ![c] = from]
                    /\ primed' = [primed EXCEPT ![c] = IF @ = None THEN from ELSE @]
                    /\ UNCHANGED call
               ELSE /\ call' = [call EXCEPT ![c] =
                           [at |-> "reading", next |-> from + 1, last |-> to,
                            reason |-> IF Attending(k)!Due(tables, log[from + 1].time) = {}
                                       THEN Attending(k)!Read(tables, from + 1) ELSE None]]
                    /\ UNCHANGED <<cursor, primed>>
  BY DEF Attending!Process, Behind
<1>2. UNCHANGED <<log, tables, writer, work>>
  BY DEF Attending!Process
<1> DEFINE to == IF Behind(c) + limit < Len(log) THEN Behind(c) + limit ELSE Len(log)
<1>3. /\ limit \in Nat /\ Behind(c) \in Nat /\ Behind(c) <= Len(log) /\ Len(log) \in Nat
      /\ to \in Nat /\ Behind(c) <= to /\ to <= Len(log)
  BY AttentionTypes DEF Attending!AttentionAssumption
<1>4. /\ CallIsSound(k, c) /\ CursorIsSound(c) /\ TablesAreSound(k, tables) /\ TablesAreSound(k, work)
      /\ DOMAIN cursor = k.consumers /\ DOMAIN primed = k.consumers /\ DOMAIN call = k.consumers
      /\ (writer # None => DecidesOn(k, tables, work))
  BY DEF AttentionInv
<1>5. None \notin Nat
  BY AttentionTypes
<1>6. DecidesOn(k, tables, tables)
  BY DEF DecidesOn
<1>7. CASE Behind(c) = to
  <2>1. /\ UNCHANGED call /\ cursor' = [cursor EXCEPT ![c] = Behind(c)]
        /\ primed' = [primed EXCEPT ![c] = IF @ = None THEN Behind(c) ELSE @]
        /\ call[c].at = "idle"
    BY <1>1, <1>7 DEF Attending!Idle
  <2>2. /\ cursor'[c] = Behind(c)
        /\ primed'[c] = IF primed[c] = None THEN Behind(c) ELSE primed[c]
    BY <1>4, <2>1
  <2>3. CursorIsSound(c)'
    <3>1. ASSUME NEW i \in (primed'[c] + 1)..cursor'[c] PROVE EventIsDecided(tables, i)
      <4>1. CASE primed[c] = None
        BY <1>3, <2>2, <3>1, <4>1
      <4>2. CASE primed[c] # None
        BY <1>4, <2>2, <3>1, <4>2 DEF CursorIsSound, Behind
      <4> QED
        BY <4>1, <4>2
    <3>2. \A i \in (primed'[c] + 1)..cursor'[c] : EventIsDecided(tables, i)'
      BY <1>2, <3>1 DEF EventIsDecided, IsSource
    <3> QED
      BY <1>2, <1>3, <1>4, <1>5, <2>2, <3>2 DEF CursorIsSound
  <2>4. CallIsSound(k, c)'
    BY <1>2, <1>4, <2>1 DEF CallIsSound
  <2>5. \A d \in k.consumers \ {c} :
            cursor'[d] = cursor[d] /\ primed'[d] = primed[d] /\ call'[d] = call[d]
    BY <1>4, <2>1
  <2>6. DOMAIN cursor' = k.consumers /\ DOMAIN primed' = k.consumers /\ DOMAIN call' = k.consumers
    BY <1>4, <2>1
  <2> QED
    BY <1>2, <1>4, <1>6, <2>3, <2>4, <2>5, <2>6, ConsumerKeeps
<1>8. CASE Behind(c) # to
  <2> DEFINE reason == IF Attending(k)!Due(tables, log[Behind(c) + 1].time) = {}
                       THEN Attending(k)!Read(tables, Behind(c) + 1) ELSE None
             r == [at |-> "reading", next |-> Behind(c) + 1, last |-> to, reason |-> reason]
  <2>1. UNCHANGED <<cursor, primed>> /\ call' = [call EXCEPT ![c] = r]
    BY <1>1, <1>8
  <2>2. reason = None \/ ReadingIsFair(Behind(c) + 1, reason)
    BY ReadIsFair
  <2>3. /\ r.at = "reading" /\ r.next = Behind(c) + 1 /\ r.last = to /\ r.reason = reason
        /\ {"at", "next", "last", "reason"} \subseteq DOMAIN r
    OBVIOUS
  <2> HIDE DEF r, reason
  <2>4. call'[c] = r /\ Behind(c)' = Behind(c)
    BY <1>4, <2>1 DEF Behind
  <2>5. CallIsSound(k, c)'
    BY <1>2, <1>3, <1>8, <2>2, <2>3, <2>4 DEF CallIsSound, ReadingIsFair
  <2>6. CursorIsSound(c)'
    BY <1>2, <1>4, <2>1 DEF CursorIsSound, EventIsDecided, IsSource
  <2>7. \A d \in k.consumers \ {c} :
            cursor'[d] = cursor[d] /\ primed'[d] = primed[d] /\ call'[d] = call[d]
    BY <1>4, <2>1
  <2>8. DOMAIN cursor' = k.consumers /\ DOMAIN primed' = k.consumers /\ DOMAIN call' = k.consumers
    BY <1>4, <2>1
  <2> QED
    BY <1>2, <1>4, <1>6, <2>5, <2>6, <2>7, <2>8, ConsumerKeeps
<1> QED
  BY <1>7, <1>8

LEMMA ProcessFirstKeepsAttention ==
    ASSUME NEW k, Attending(k)!AttentionAssumption, AttentionInv(k),
           NEW c \in k.consumers, Attending(k)!ProcessFirst(c)
    PROVE  AttentionInv(k)'
<1> DEFINE i == call[c].next
           f == Attending(k)!FlushDue(tables, log[i].time)
           read == call[c].reason
<1>1. /\ call[c].at = "reading" /\ writer = None /\ writer' = c
      /\ work' = IF read = None THEN Attending(k)!ProcessEvent(f, i, Attending(k)!Read(f, i))
                 ELSE Attending(k)!ProcessEvent(tables, i, read)
      /\ call' = [call EXCEPT ![c].at = "writing", ![c].next = i + 1]
      /\ UNCHANGED <<log, cursor, tables, primed>>
  BY DEF Attending!ProcessFirst
<1>2. /\ \A d \in k.consumers : CallIsSound(k, d) /\ CursorIsSound(d)
      /\ TablesAreSound(k, tables)
      /\ DOMAIN cursor = k.consumers /\ DOMAIN primed = k.consumers /\ DOMAIN call = k.consumers
  BY DEF AttentionInv
<1>3. /\ i = Behind(c) + 1 /\ call[c].last \in i..Len(log)
      /\ read = None \/ ReadingIsFair(i, read)
      /\ i \in Attending(k)!Positions /\ Behind(c) \in Nat /\ Len(log) \in Nat
  BY <1>1, <1>2, AttentionTypes DEF CallIsSound
<1>4. TablesAreSound(k, f) /\ DecidesOn(k, tables, f)
  BY <1>2, FlushDecides
<1> HIDE DEF f
<1>5. TablesAreSound(k, work') /\ DecidesOn(k, tables, work') /\ EventIsDecided(work', i)
  <2>1. CASE read = None
    <3>1. ReadingIsFair(i, Attending(k)!Read(f, i))
      BY ReadIsFair
    <3> DEFINE p == Attending(k)!ProcessEvent(f, i, Attending(k)!Read(f, i))
    <3>2. TablesAreSound(k, p) /\ DecidesOn(k, f, p) /\ EventIsDecided(p, i)
      BY <1>3, <1>4, <3>1, ProcessDecides
    <3>3. work' = p
      BY <1>1, <2>1
    <3> HIDE DEF p
    <3> QED
      BY <1>4, <3>2, <3>3, DecidesOnward
  <2>2. CASE read # None
    <3> DEFINE p == Attending(k)!ProcessEvent(tables, i, read)
    <3>1. TablesAreSound(k, p) /\ DecidesOn(k, tables, p) /\ EventIsDecided(p, i)
      BY <1>2, <1>3, <2>2, ProcessDecides
    <3>2. work' = p
      BY <1>1, <2>2
    <3> HIDE DEF p
    <3> QED
      BY <3>1, <3>2
  <2> QED
    BY <2>1, <2>2
<1> HIDE DEF read
<1>6. /\ call'[c].at = "writing" /\ call'[c].next = i + 1 /\ call'[c].last = call[c].last
      /\ {"at", "next", "last", "reason"} \subseteq DOMAIN call'[c]
      /\ DOMAIN call' = k.consumers /\ \A d \in k.consumers \ {c} : call'[d] = call[d]
  <2> HIDE DEF i
  <2> QED
    BY <1>1, <1>2 DEF CallIsSound
<1>7. Behind(c)' = Behind(c) /\ EventIsDecided(work, i)'
  BY <1>1, <1>5, <1>6 DEF Behind, EventIsDecided, IsSource
<1> HIDE DEF i
<1>8. CallIsSound(k, c)'
  <2>1. \A j \in Behind(c) + 1..call'[c].next - 1 : j = i
    BY <1>3, <1>6
  <2>2. \A j \in Behind(c) + 1..call'[c].next - 1 : EventIsDecided(work, j)'
    BY <1>1, <1>5, <2>1 DEF EventIsDecided, IsSource
  <2> QED
    BY <1>1, <1>3, <1>6, <1>7, <2>2 DEF CallIsSound
<1>9. CursorIsSound(c)'
  BY <1>1, <1>2 DEF CursorIsSound, EventIsDecided, IsSource
<1>10. \A d \in k.consumers \ {c} : call[d].at # "writing"
  BY <1>1, <1>2, AttentionTypes DEF CallIsSound
<1>11. DecidesOn(k, tables, tables)
  BY DEF DecidesOn
<1> QED
  BY <1>1, <1>2, <1>5, <1>6, <1>8, <1>9, <1>10, <1>11, ConsumerKeeps

LEMMA ProcessNextKeepsAttention ==
    ASSUME NEW k, Attending(k)!AttentionAssumption, AttentionInv(k),
           NEW c \in k.consumers, Attending(k)!ProcessNext(c)
    PROVE  AttentionInv(k)'
<1> DEFINE i == call[c].next
           f == Attending(k)!FlushDue(work, log[i].time)
           p == Attending(k)!ProcessEvent(f, i, Attending(k)!Read(f, i))
<1>1. /\ call[c].at = "writing" /\ i <= call[c].last /\ work' = p
      /\ call' = [call EXCEPT ![c].next = i + 1]
      /\ UNCHANGED <<log, cursor, tables, primed, writer>>
  BY DEF Attending!ProcessNext
<1>2. /\ \A d \in k.consumers : CallIsSound(k, d) /\ CursorIsSound(d)
      /\ TablesAreSound(k, tables) /\ TablesAreSound(k, work)
      /\ writer # None => DecidesOn(k, tables, work)
      /\ DOMAIN cursor = k.consumers /\ DOMAIN primed = k.consumers /\ DOMAIN call = k.consumers
  BY DEF AttentionInv
<1>13. /\ Behind(c) \in Nat /\ Len(log) \in Nat /\ None \notin k.consumers
       /\ \A j \in 1..Len(log) : j \in Attending(k)!Positions
  BY AttentionTypes
<1>14. /\ writer = c /\ call[c].last \in Behind(c) + 1..Len(log)
       /\ i \in Behind(c) + 1..call[c].last + 1
       /\ \A j \in Behind(c) + 1..i - 1 : EventIsDecided(work, j)
  BY <1>1, <1>2 DEF CallIsSound
<1>3. /\ writer = c /\ writer # None /\ call[c].last \in Behind(c) + 1..Len(log)
      /\ i \in Behind(c) + 1..call[c].last
      /\ \A j \in Behind(c) + 1..i - 1 : EventIsDecided(work, j) /\ j \in Attending(k)!Positions
      /\ i \in Attending(k)!Positions /\ Behind(c) \in Nat /\ Len(log) \in Nat
  <2>1. i <= call[c].last
    BY <1>1
  <2> HIDE DEF i
  <2> QED
    BY <1>13, <1>14, <2>1
<1>4. TablesAreSound(k, f) /\ DecidesOn(k, work, f)
  BY <1>2, FlushDecides
<1> HIDE DEF f
<1>5. TablesAreSound(k, p) /\ DecidesOn(k, f, p) /\ EventIsDecided(p, i)
  BY <1>3, <1>4, ReadIsFair, ProcessDecides
<1> HIDE DEF p
<1>6. DecidesOn(k, work, p) /\ DecidesOn(k, tables, p)
  BY <1>2, <1>3, <1>4, <1>5, DecidesOnward
<1>7. /\ call'[c].at = "writing" /\ call'[c].next = i + 1 /\ call'[c].last = call[c].last
      /\ {"at", "next", "last", "reason"} \subseteq DOMAIN call'[c]
      /\ DOMAIN call' = k.consumers /\ \A d \in k.consumers \ {c} : call'[d] = call[d]
  <2> HIDE DEF i
  <2> QED
    BY <1>1, <1>2 DEF CallIsSound
<1>8. Behind(c)' = Behind(c)
  BY <1>1 DEF Behind
<1>9. CallIsSound(k, c)'
  <2>1. ASSUME NEW j \in Behind(c) + 1..i PROVE EventIsDecided(p, j)
    <3>1. CASE j = i
      BY <1>5, <3>1
    <3>2. CASE j # i
      <4>1. j \in Behind(c) + 1..i - 1
        BY <1>3, <2>1, <3>2
      <4> QED
        BY <1>3, <1>6, <4>1, DecidedStays
    <3> QED
      BY <3>1, <3>2
  <2>2. \A j \in Behind(c) + 1..i : EventIsDecided(work, j)'
    BY <1>1, <2>1 DEF EventIsDecided, IsSource
  <2> HIDE DEF i
  <2>3. call'[c].next - 1 = i
    BY <1>3, <1>7
  <2> QED
    BY <1>1, <1>3, <1>7, <1>8, <2>2, <2>3 DEF CallIsSound
<1> HIDE DEF i
<1>10. CursorIsSound(c)'
  BY <1>1, <1>2 DEF CursorIsSound, EventIsDecided, IsSource
<1>11. \A d \in k.consumers \ {c} : call[d].at # "writing"
  BY <1>2, <1>3 DEF CallIsSound
<1>12. DecidesOn(k, tables, tables)
  BY DEF DecidesOn
<1> QED
  BY <1>1, <1>2, <1>5, <1>6, <1>7, <1>9, <1>10, <1>11, <1>12, ConsumerKeeps

LEMMA CommitKeepsAttention ==
    ASSUME NEW k, Attending(k)!AttentionAssumption, AttentionInv(k),
           NEW c \in k.consumers, Attending(k)!Commit(c)
    PROVE  AttentionInv(k)'
<1>1. /\ call[c].at = "writing" /\ call[c].next > call[c].last
      /\ tables' = work /\ writer' = None
      /\ cursor' = [cursor EXCEPT ![c] = call[c].last]
      /\ primed' = [primed EXCEPT ![c] = IF @ = None THEN 0 ELSE @]
      /\ call' = [call EXCEPT ![c] = Attending(k)!Idle]
      /\ UNCHANGED <<log, work>>
  BY DEF Attending!Commit
<1>2. /\ \A d \in k.consumers : CallIsSound(k, d) /\ CursorIsSound(d)
      /\ TablesAreSound(k, tables) /\ TablesAreSound(k, work)
      /\ writer # None => DecidesOn(k, tables, work)
      /\ DOMAIN cursor = k.consumers /\ DOMAIN primed = k.consumers /\ DOMAIN call = k.consumers
  BY DEF AttentionInv
<1>3. /\ writer = c /\ writer # None /\ call[c].last \in Behind(c) + 1..Len(log)
      /\ \A j \in Behind(c) + 1..call[c].last : EventIsDecided(work, j)
      /\ Behind(c) \in Nat /\ Len(log) \in Nat /\ None \notin Nat
  BY <1>1, <1>2, AttentionTypes DEF CallIsSound
<1>4. /\ cursor'[c] = call[c].last /\ primed'[c] = IF primed[c] = None THEN 0 ELSE primed[c]
      /\ call'[c] = Attending(k)!Idle
      /\ DOMAIN cursor' = k.consumers /\ DOMAIN primed' = k.consumers /\ DOMAIN call' = k.consumers
      /\ \A d \in k.consumers \ {c} :
            cursor'[d] = cursor[d] /\ primed'[d] = primed[d] /\ call'[d] = call[d]
  BY <1>1, <1>2
<1>5. DecidesOn(k, tables, work)
  BY <1>2, <1>3
<1>6. CallIsSound(k, c)'
  BY <1>4 DEF CallIsSound, Attending!Idle
<1>7. CursorIsSound(c)'
  <2>1. ASSUME NEW i \in (primed'[c] + 1)..cursor'[c] PROVE EventIsDecided(work, i)
    <3>1. CASE i \in Behind(c) + 1..call[c].last
      BY <1>3, <3>1
    <3>2. CASE i \notin Behind(c) + 1..call[c].last
      <4>1. /\ primed[c] # None /\ cursor[c] # None
            /\ i \in (primed[c] + 1)..cursor[c] /\ EventIsDecided(tables, i)
        BY <1>2, <1>3, <1>4, <2>1, <3>2 DEF CursorIsSound, Behind
      <4>2. i \in Attending(k)!Positions
        BY <1>2, <4>1, AttentionTypes DEF CursorIsSound
      <4> QED
        BY <1>5, <4>1, <4>2, DecidedStays
    <3> QED
      BY <3>1, <3>2
  <2>2. \A i \in (primed'[c] + 1)..cursor'[c] : EventIsDecided(tables, i)'
    BY <1>1, <2>1 DEF EventIsDecided, IsSource
  <2> QED
    BY <1>1, <1>2, <1>3, <1>4, <2>2 DEF CursorIsSound
<1>8. \A d \in k.consumers \ {c} : call[d].at # "writing"
  BY <1>2, <1>3 DEF CallIsSound
<1> QED
  BY <1>1, <1>2, <1>4, <1>5, <1>6, <1>7, <1>8, ConsumerKeeps

LEMMA EndKeepsAttention ==
    ASSUME NEW k, Attending(k)!AttentionAssumption, AttentionInv(k),
           NEW c \in k.consumers, Attending(k)!Fail(c) \/ Attending(k)!Die(c)
    PROVE  AttentionInv(k)'
<1>1. /\ call' = [call EXCEPT ![c] = Attending(k)!Idle]
      /\ writer' = IF writer = c THEN None ELSE writer
      /\ work' = IF writer = c THEN tables ELSE work
      /\ UNCHANGED <<log, cursor, tables, primed>>
  BY DEF Attending!Fail, Attending!Die
<1>2. /\ \A d \in k.consumers : CallIsSound(k, d) /\ CursorIsSound(d)
      /\ TablesAreSound(k, tables) /\ TablesAreSound(k, work)
      /\ writer # None => DecidesOn(k, tables, work)
      /\ DOMAIN cursor = k.consumers /\ DOMAIN primed = k.consumers /\ DOMAIN call = k.consumers
  BY DEF AttentionInv
<1>3. /\ call'[c] = Attending(k)!Idle /\ DOMAIN call' = k.consumers
      /\ \A d \in k.consumers \ {c} : call'[d] = call[d]
  BY <1>1, <1>2
<1>4. CallIsSound(k, c)'
  BY <1>3 DEF CallIsSound, Attending!Idle
<1>5. CursorIsSound(c)'
  BY <1>1, <1>2 DEF CursorIsSound, EventIsDecided, IsSource
<1>6. \A d \in k.consumers \ {c} : call[d].at = "writing" => UNCHANGED <<writer, work>>
  BY <1>1, <1>2 DEF CallIsSound
<1>7. DecidesOn(k, tables, tables)
  BY DEF DecidesOn
<1>8. TablesAreSound(k, work') /\ (writer' # None => DecidesOn(k, tables, work'))
  BY <1>1, <1>2
<1> QED
  BY <1>1, <1>2, <1>3, <1>4, <1>5, <1>6, <1>7, <1>8, ConsumerKeeps

LEMMA PrimeKeepsAttention ==
    ASSUME NEW k, Attending(k)!AttentionAssumption, AttentionInv(k),
           NEW c \in k.consumers, NEW i, Attending(k)!PrimeConsumerBefore(c, i)
    PROVE  AttentionInv(k)'
<1>1. /\ call[c] = Attending(k)!Idle /\ i \in 1..Len(log)
      /\ cursor' = [cursor EXCEPT ![c] = IF @ = None THEN i - 1 ELSE @]
      /\ primed' = [primed EXCEPT ![c] = IF @ = None THEN i - 1 ELSE @]
      /\ UNCHANGED <<log, tables, call, writer, work>>
  BY DEF Attending!PrimeConsumerBefore
<1>2. /\ \A d \in k.consumers : CallIsSound(k, d) /\ CursorIsSound(d)
      /\ TablesAreSound(k, tables) /\ TablesAreSound(k, work)
      /\ writer # None => DecidesOn(k, tables, work)
      /\ DOMAIN cursor = k.consumers /\ DOMAIN primed = k.consumers /\ DOMAIN call = k.consumers
  BY DEF AttentionInv
<1>3. /\ cursor'[c] = IF cursor[c] = None THEN i - 1 ELSE cursor[c]
      /\ primed'[c] = IF primed[c] = None THEN i - 1 ELSE primed[c]
      /\ DOMAIN cursor' = k.consumers /\ DOMAIN primed' = k.consumers
      /\ \A d \in k.consumers \ {c} : cursor'[d] = cursor[d] /\ primed'[d] = primed[d]
  BY <1>1, <1>2
<1>4. CallIsSound(k, c)'
  BY <1>1 DEF CallIsSound, Attending!Idle
<1>5. CursorIsSound(c)'
  <2>0. CursorIsSound(c) /\ Len(log) \in Nat /\ None \notin Nat
    BY <1>2, AttentionTypes
  <2>1. CASE cursor[c] = None
    <3>1. cursor'[c] = i - 1 /\ primed'[c] = i - 1 /\ i - 1 \in Nat /\ i - 1 <= Len(log)
      BY <1>1, <1>3, <2>0, <2>1 DEF CursorIsSound
    <3>2. (primed'[c] + 1)..cursor'[c] = {}
      BY <3>1
    <3> QED
      BY <1>1, <2>0, <3>1, <3>2 DEF CursorIsSound
  <2>2. CASE cursor[c] # None
    <3>1. cursor'[c] = cursor[c] /\ primed'[c] = primed[c]
      BY <1>3, <2>0, <2>2 DEF CursorIsSound
    <3> QED
      BY <1>1, <2>0, <3>1 DEF CursorIsSound, EventIsDecided, IsSource
  <2> QED
    BY <2>1, <2>2
<1>6. DecidesOn(k, tables, tables)
  BY DEF DecidesOn
<1> QED
  BY <1>1, <1>2, <1>3, <1>4, <1>5, <1>6, ConsumerKeeps

LEMMA AttentionStep ==
    ASSUME NEW k, Attending(k)!AttentionAssumption
    PROVE  AttentionInv(k) /\ [Attending(k)!Next]_attentionVars => AttentionInv(k)'
<1> SUFFICES ASSUME AttentionInv(k), [Attending(k)!Next]_attentionVars PROVE AttentionInv(k)'
  OBVIOUS
<1>1. CASE UNCHANGED attentionVars
  <2>1. UNCHANGED <<log, cursor, tables, call, writer, work, primed>>
    BY <1>1 DEF attentionVars
  <2>2. \A c \in k.consumers : CallIsSound(k, c)'
    BY <2>1 DEF AttentionInv, CallIsSound, EventIsDecided, ReadingIsFair, Behind, IsSource
  <2>3. \A c \in k.consumers : CursorIsSound(c)'
    BY <2>1 DEF AttentionInv, CursorIsSound, EventIsDecided, IsSource
  <2> QED
    BY <2>1, <2>2, <2>3 DEF AttentionInv, TablesAreSound, DecidesOn, IsSource
<1>2. ASSUME NEW kind \in Kinds, NEW at \in Attending(k)!Times, Attending(k)!Append1(kind, at)
      PROVE  AttentionInv(k)'
  BY <1>2, AppendKeepsAttention
<1>3. ASSUME NEW c \in k.consumers,
             \/ Attending(k)!Process(c) \/ Attending(k)!ProcessFirst(c)
             \/ Attending(k)!ProcessNext(c) \/ Attending(k)!Commit(c)
             \/ Attending(k)!Fail(c) \/ Attending(k)!Die(c)
      PROVE  AttentionInv(k)'
  BY <1>3, ProcessKeepsAttention, ProcessFirstKeepsAttention, ProcessNextKeepsAttention,
     CommitKeepsAttention, EndKeepsAttention
<1>4. ASSUME NEW c \in k.consumers, NEW i, Attending(k)!PrimeConsumerBefore(c, i)
      PROVE  AttentionInv(k)'
  BY <1>4, PrimeKeepsAttention
<1> QED
  BY <1>1, <1>2, <1>3, <1>4 DEF Attending!Next

-----------------------------------------------------------------------------
(* The review's schedule and its dispatch.                                  *)

HandFields == {"at", "saw", "existing", "evidence", "consent"}

ScheduleShape ==
    /\ DOMAIN enabled = Schedule!Versions /\ DOMAIN task = Schedule!Versions
    /\ DOMAIN run = Schedule!Versions /\ DOMAIN packet = Schedule!Versions
    /\ DOMAIN hand = Schedule!Hands /\ evidence \in Nat
    /\ \A v \in Schedule!Versions :
         /\ {"status", "attempt", "by"} \subseteq DOMAIN run[v]
         /\ task[v] \in {None, "ACTIVE", "CANCELLED"}
    /\ \A h \in Schedule!Hands : HandFields \subseteq DOMAIN hand[h]

\* The configurations were saved one after another.
SavedInOrder == \E n \in 0..MaxVersions : Schedule!Saved = 1..n

Reconciles(r) == hand[r].at \in {"cancel", "create"}

\* Tasks are those of saved configurations that wanted the review, and only a
\* replaced one is cancelled. A runner that reconciles misses only the task of the
\* version it read, unless two that read different versions overlapped; and once
\* the standing version was reconciled, whoever is at the tasks read that version.
TasksAreWanted ==
    /\ \A v \in Schedule!Versions : task[v] # None => v <= Schedule!Config /\ enabled[v] = TRUE
    /\ \A v \in Schedule!Versions : task[v] = "CANCELLED" => v < Schedule!Config
    /\ ensured \in 0..Schedule!Config
    /\ \A r \in Runners : Reconciles(r) =>
         /\ hand[r].saw \in 1..Schedule!Config
         /\ \A v \in hand[r].existing : v \in Schedule!Versions /\ v <= hand[r].saw /\ task[v] # None
    /\ ~crossed => \A r \in Runners :
         /\ Reconciles(r) => \A v \in Schedule!Versions :
              task[v] # None /\ v \notin hand[r].existing => v = hand[r].saw
         /\ hand[r].at = "create" => Schedule!Active \subseteq Schedule!Wanted(hand[r].saw)
         /\ Reconciles(r) /\ ensured = Schedule!Config => hand[r].saw = Schedule!Config
    /\ ~crossed /\ ensured = Schedule!Config /\ ensured > 0
         => Schedule!Active = Schedule!Wanted(Schedule!Config)

\* What a hand does to a review, that much of it is there.
DispatchIsBacked ==
    /\ request \subseteq journaled /\ journaled \subseteq Schedule!Versions
    /\ \A v \in Schedule!Versions :
         /\ packet[v] # None => v \in request
         /\ run[v].status = "COMPLETED" => v \in request /\ packet[v] # None
    /\ \A h \in Schedule!Hands :
         /\ hand[h].at \in {"append", "recheck", "enqueue", "freeze", "insert", "mark"}
              => hand[h].saw \in Schedule!Versions
         /\ hand[h].at \in {"recheck", "enqueue"} => hand[h].saw \in journaled
         /\ hand[h].at \in {"freeze", "insert", "mark"} => hand[h].saw \in request
         /\ hand[h].at = "insert" => hand[h].evidence \in Nat /\ hand[h].consent \in BOOLEAN
         /\ hand[h].at = "mark" => packet[hand[h].saw] # None

ScheduleInv == ScheduleShape /\ SavedInOrder /\ TasksAreWanted /\ DispatchIsBacked

LEMMA ScheduleValues == MaxVersions \in Nat /\ "watcher" \notin Runners /\ None \notin BOOLEAN
                        /\ None \notin {"ACTIVE", "CANCELLED", "COMPLETED"} /\ None \notin [evidence : Nat, consent : BOOLEAN]
BY HouseholdAssumption DEF Schedule!ScheduleAssumption

LEMMA LastOfRange ==
    ASSUME NEW S, NEW n \in Nat, S = 1..n
    PROVE  (IF S = {} THEN 0 ELSE CHOOSE v \in S : \A u \in S : u <= v) = n
<1>1. CASE n = 0
  BY <1>1
<1>2. CASE n # 0
  <2>1. n \in S /\ \A u \in S : u <= n
    BY <1>2
  <2>2. \A w \in S : (\A u \in S : u <= w) => w = n
    BY <2>1
  <2>3. \E v \in S : \A u \in S : u <= v
    BY <2>1
  <2>4. S # {}
    BY <2>1
  <2>5. (CHOOSE v \in S : \A u \in S : u <= v) = n
    BY <2>2, <2>3
  <2> QED
    BY <2>4, <2>5
<1> QED
  BY <1>1, <1>2

LEMMA ConfigIsLast == SavedInOrder => Schedule!Config \in 0..MaxVersions /\ Schedule!Saved = 1..Schedule!Config
<1> SUFFICES ASSUME NEW n \in 0..MaxVersions, Schedule!Saved = 1..n
             PROVE  Schedule!Config = n
  BY DEF SavedInOrder
<1>1. n \in Nat
  BY ScheduleValues
<1> QED
  BY <1>1, LastOfRange DEF Schedule!Config

LEMMA ConfigStays == UNCHANGED enabled => /\ Schedule!Saved' = Schedule!Saved
                                         /\ Schedule!Config' = Schedule!Config
                                         /\ \A v : Schedule!Wanted(v)' = Schedule!Wanted(v)
BY DEF Schedule!Saved, Schedule!Config, Schedule!Wanted

LEMMA HandSteps ==
    ASSUME ScheduleShape, NEW h \in Schedule!Hands, NEW at, Schedule!Step(h, at)
    PROVE  /\ DOMAIN hand' = Schedule!Hands /\ \A o \in Schedule!Hands \ {h} : hand'[o] = hand[o]
           /\ HandFields \subseteq DOMAIN hand'[h]
           /\ hand'[h].at = at /\ hand'[h].saw = hand[h].saw /\ hand'[h].existing = hand[h].existing
BY DEF ScheduleShape, HandFields, Schedule!Step

LEMMA HandStops ==
    ASSUME ScheduleShape, NEW h \in Schedule!Hands, Schedule!Stop(h)
    PROVE  /\ DOMAIN hand' = Schedule!Hands /\ \A o \in Schedule!Hands \ {h} : hand'[o] = hand[o]
           /\ HandFields \subseteq DOMAIN hand'[h]
           /\ hand'[h].at = "idle"
BY DEF ScheduleShape, HandFields, Schedule!Stop, Schedule!Idle

LEMMA ScheduleStart == Schedule!Init => ScheduleInv
<1> SUFFICES ASSUME Schedule!Init PROVE ScheduleInv
  OBVIOUS
<1> USE DEF Schedule!Init
<1>1. Schedule!Saved = 1..0
  BY DEF Schedule!Saved
<1>2. SavedInOrder
  BY <1>1, ScheduleValues DEF SavedInOrder
<1>3. Schedule!Config \in Nat
  BY <1>2, ConfigIsLast, ScheduleValues
<1>4. \A h \in Schedule!Hands : hand[h] = Schedule!Idle
  OBVIOUS
<1>5. ScheduleShape
  BY <1>4 DEF ScheduleShape, HandFields, Schedule!Idle
<1>6. \A h \in Schedule!Hands : hand[h].at = "idle"
  BY <1>4 DEF Schedule!Idle
<1>7. TasksAreWanted
  <2>1. \A v \in Schedule!Versions : task[v] = None
    OBVIOUS
  <2>2. \A r \in Runners : ~Reconciles(r) /\ hand[r].at = "idle"
    BY <1>6 DEF Reconciles, Schedule!Hands
  <2>3. ensured = 0
    OBVIOUS
  <2>4. ensured \in 0..Schedule!Config /\ ~(ensured > 0)
    BY <1>3, <2>3
  <2>5. \A v \in Schedule!Versions : task[v] # "CANCELLED"
    BY <2>1, ScheduleValues
  <2> QED
    BY <2>1, <2>2, <2>4, <2>5 DEF TasksAreWanted
<1>8. DispatchIsBacked
  <2>1. \A v \in Schedule!Versions : packet[v] = None /\ run[v].status # "COMPLETED"
    BY ScheduleValues
  <2>2. request = {} /\ journaled = {}
    OBVIOUS
  <2> QED
    BY <1>6, <2>1, <2>2 DEF DispatchIsBacked
<1> QED
  BY <1>2, <1>5, <1>7, <1>8 DEF ScheduleInv

\* Whatever is at the tasks next goes on as it was.
LEMMA TasksStay ==
    ASSUME TasksAreWanted, UNCHANGED <<enabled, task, ensured, crossed>>,
           \A r \in Runners : hand'[r] = hand[r] \/ hand'[r].at \notin {"cancel", "create"}
    PROVE  TasksAreWanted'
<1>1. /\ Schedule!Config' = Schedule!Config
      /\ \A v : Schedule!Wanted(v)' = Schedule!Wanted(v)
      /\ Schedule!Active' = Schedule!Active
  BY ConfigStays DEF Schedule!Active
<1>2. \A r \in Runners :
        /\ Reconciles(r)' => hand'[r] = hand[r] /\ Reconciles(r)
        /\ hand'[r].at = "create" => hand'[r] = hand[r]
  BY DEF Reconciles
<1> QED
  BY <1>1, <1>2 DEF TasksAreWanted, Schedule!Wanted

LEMMA SaveKeepsSchedule ==
    ASSUME ScheduleInv, NEW wanted \in BOOLEAN, Schedule!Save(wanted)
    PROVE  ScheduleInv'
<1> DEFINE n == Schedule!Config
<1>1. /\ n < MaxVersions /\ enabled' = [enabled EXCEPT ![n + 1] = wanted]
      /\ UNCHANGED <<task, run, evidence, journaled, request, packet, hand, ensured, crossed>>
  BY DEF Schedule!Save
<1>2. n \in 0..MaxVersions /\ Schedule!Saved = 1..n /\ MaxVersions \in Nat /\ wanted # None
  BY ConfigIsLast, ScheduleValues DEF ScheduleInv
<1>3. ScheduleShape /\ TasksAreWanted /\ DispatchIsBacked
  BY DEF ScheduleInv
<1> HIDE DEF n
<1>4. /\ DOMAIN enabled' = Schedule!Versions /\ enabled'[n + 1] = wanted
      /\ \A v \in Schedule!Versions : v # n + 1 => enabled'[v] = enabled[v]
  BY <1>1, <1>2, <1>3 DEF ScheduleShape, Schedule!Versions
<1>5. Schedule!Saved' = 1..(n + 1)
  <2>1. ASSUME NEW v \in Schedule!Versions PROVE enabled'[v] # None <=> v \in 1..(n + 1)
    <3>1. enabled[v] # None <=> v \in 1..n
      BY <1>2 DEF Schedule!Saved
    <3>2. v \in 1..(n + 1) <=> v \in 1..n \/ v = n + 1
      BY <1>2 DEF Schedule!Versions
    <3>3. CASE v = n + 1
      BY <1>2, <1>4, <3>2, <3>3
    <3>4. CASE v # n + 1
      BY <1>4, <3>1, <3>2, <3>4
    <3> QED
      BY <3>3, <3>4
  <2>2. 1..(n + 1) \subseteq Schedule!Versions
    BY <1>1, <1>2 DEF Schedule!Versions
  <2> QED
    BY <2>1, <2>2 DEF Schedule!Saved
<1>6. SavedInOrder' /\ Schedule!Config' = n + 1
  <2>1. n + 1 \in 0..MaxVersions /\ n + 1 \in Nat
    BY <1>1, <1>2
  <2> QED
    BY <1>5, <2>1, LastOfRange DEF SavedInOrder, Schedule!Config
<1>7. ScheduleShape'
  BY <1>1, <1>3, <1>4 DEF ScheduleShape
<1>8. DispatchIsBacked'
  BY <1>1, <1>3 DEF DispatchIsBacked
<1>9. TasksAreWanted'
  <2>0. Schedule!Config = n
    BY DEF n
  <2>1. \A v \in Schedule!Versions : task[v] # None => v <= n /\ v # n + 1 /\ enabled'[v] = TRUE
    BY <1>2, <1>3, <1>4, <2>0 DEF TasksAreWanted, Schedule!Versions
  <2>2. Schedule!Active' = Schedule!Active
    BY <1>1 DEF Schedule!Active
  <2>3. \A v \in 1..n : Schedule!Wanted(v)' = Schedule!Wanted(v)
    BY <1>2, <1>4 DEF Schedule!Wanted, Schedule!Versions
  <2>4. \A r \in Runners : Reconciles(r)' <=> Reconciles(r)
    BY <1>1 DEF Reconciles
  <2>5. \A v \in Schedule!Versions : task'[v] = "CANCELLED" => v < n + 1
    BY <1>1, <1>2, <1>3, <2>0 DEF TasksAreWanted, Schedule!Versions
  <2>6. ensured' \in 0..n
    BY <1>1, <1>3, <2>0 DEF TasksAreWanted
  <2>7. ASSUME NEW r \in Runners, Reconciles(r)'
        PROVE  /\ hand'[r].saw \in 1..(n + 1)
               /\ \A v \in hand'[r].existing : v \in Schedule!Versions /\ v <= hand'[r].saw /\ task'[v] # None
               /\ ~crossed' => \A v \in Schedule!Versions :
                    task'[v] # None /\ v \notin hand'[r].existing => v = hand'[r].saw
    BY <1>1, <1>2, <1>3, <2>0, <2>4, <2>7 DEF TasksAreWanted
  <2>8. ASSUME NEW r \in Runners, ~crossed', hand'[r].at = "create"
        PROVE  Schedule!Active' \subseteq Schedule!Wanted(hand[r].saw)'
    <3>1. hand[r].saw \in 1..n /\ Schedule!Active \subseteq Schedule!Wanted(hand[r].saw)
      BY <1>1, <1>3, <2>0, <2>8 DEF TasksAreWanted, Reconciles
    <3>2. enabled'[hand[r].saw] = enabled[hand[r].saw]
      BY <1>2, <1>4, <3>1 DEF Schedule!Versions
    <3>3. hand'[r].saw = hand[r].saw
      BY <1>1
    <3> QED
      BY <2>2, <3>1, <3>2, <3>3 DEF Schedule!Wanted
  <2>9. ensured' # n + 1
    BY <1>2, <2>6
  <2>10. ensured' \in 0..(n + 1)
    BY <1>2, <2>6
  <2>11. \A v \in Schedule!Versions : task'[v] # None => v <= n + 1 /\ enabled'[v] = TRUE
    BY <1>1, <1>2, <2>1 DEF Schedule!Versions
  <2> QED
    BY <1>6, <2>5, <2>7, <2>8, <2>9, <2>10, <2>11 DEF TasksAreWanted
<1> QED
  BY <1>6, <1>7, <1>8, <1>9 DEF ScheduleInv

\* A hand is at nothing of the tasks, and what it is at is backed.
LEMMA HandKeepsDispatch ==
    ASSUME DispatchIsBacked, NEW h \in Schedule!Hands, UNCHANGED <<journaled, request, packet, run>>,
           \A o \in Schedule!Hands \ {h} : hand'[o] = hand[o],
           hand'[h].at \notin {"append", "recheck", "enqueue", "freeze", "insert", "mark"}
    PROVE  DispatchIsBacked'
BY DEF DispatchIsBacked

LEMMA EnsureKeepsSchedule ==
    ASSUME ScheduleInv, NEW r \in Runners, Schedule!Ensure(r)
    PROVE  ScheduleInv'
<1> DEFINE new == [Schedule!Idle EXCEPT !.at = "cancel", !.saw = Schedule!Config,
                                       !.existing = {v \in Schedule!Versions : task[v] # None}]
<1>1. /\ Schedule!Config > 0 /\ hand' = [hand EXCEPT ![r] = new]
      /\ UNCHANGED <<enabled, task, run, evidence, journaled, request, packet, ensured, crossed>>
  BY DEF Schedule!Ensure
<1>2. /\ new.at = "cancel" /\ new.saw = Schedule!Config
      /\ new.existing = {v \in Schedule!Versions : task[v] # None} /\ HandFields \subseteq DOMAIN new
  BY DEF Schedule!Idle, HandFields
<1> HIDE DEF new
<1>3. ScheduleShape /\ TasksAreWanted /\ DispatchIsBacked /\ SavedInOrder /\ r \in Schedule!Hands
  BY DEF ScheduleInv, Schedule!Hands
<1>4. /\ DOMAIN hand' = Schedule!Hands /\ hand'[r] = new
      /\ \A o \in Schedule!Hands \ {r} : hand'[o] = hand[o]
  BY <1>1, <1>3 DEF ScheduleShape
<1>5. ScheduleShape'
  BY <1>1, <1>2, <1>3, <1>4 DEF ScheduleShape
<1>6. DispatchIsBacked'
  BY <1>1, <1>2, <1>3, <1>4, HandKeepsDispatch
<1>7. SavedInOrder' /\ Schedule!Config' = Schedule!Config /\ Schedule!Active' = Schedule!Active
      /\ Schedule!Config \in Nat
  BY <1>1, <1>3, ConfigStays, ConfigIsLast, ScheduleValues DEF SavedInOrder, Schedule!Active
<1>8. TasksAreWanted'
  <2>1. \A o \in Runners : o # r => hand'[o] = hand[o]
    BY <1>4 DEF Schedule!Hands
  <2>2. ASSUME NEW o \in Runners, Reconciles(o)'
        PROVE  /\ hand'[o].saw \in 1..Schedule!Config
               /\ \A v \in hand'[o].existing : v \in Schedule!Versions /\ v <= hand'[o].saw /\ task'[v] # None
               /\ ~crossed' => \A v \in Schedule!Versions :
                    task'[v] # None /\ v \notin hand'[o].existing => v = hand'[o].saw
               /\ ~crossed' /\ ensured' = Schedule!Config => hand'[o].saw = Schedule!Config
    <3>1. CASE o = r
      BY <1>1, <1>2, <1>3, <1>4, <1>7, <3>1 DEF TasksAreWanted
    <3>2. CASE o # r
      BY <1>1, <1>3, <2>1, <2>2, <3>2 DEF TasksAreWanted, Reconciles
    <3> QED
      BY <3>1, <3>2
  <2>3. ASSUME NEW o \in Runners, ~crossed', hand'[o].at = "create"
        PROVE  Schedule!Active' \subseteq Schedule!Wanted(hand[o].saw)'
    <3>1. o # r /\ hand'[o] = hand[o]
      BY <1>2, <1>4, <2>1, <2>3
    <3> QED
      BY <1>1, <1>3, <1>7, <2>3, <3>1 DEF TasksAreWanted, Schedule!Wanted
  <2>4. \A v \in Schedule!Versions :
          /\ task'[v] # None => v <= Schedule!Config' /\ enabled'[v] = TRUE
          /\ task'[v] = "CANCELLED" => v < Schedule!Config'
    BY <1>1, <1>3, <1>7 DEF TasksAreWanted
  <2>5. /\ ensured' \in 0..Schedule!Config'
        /\ ~crossed' /\ ensured' = Schedule!Config' /\ ensured' > 0
             => Schedule!Active' = Schedule!Wanted(Schedule!Config)'
    BY <1>1, <1>3, <1>7 DEF TasksAreWanted, Schedule!Wanted
  <2> QED
    BY <1>7, <2>2, <2>3, <2>4, <2>5 DEF TasksAreWanted
<1> QED
  BY <1>5, <1>6, <1>7, <1>8 DEF ScheduleInv

LEMMA CancelKeepsSchedule ==
    ASSUME ScheduleInv, NEW r \in Runners, Schedule!Cancel(r)
    PROVE  ScheduleInv'
<1>1. /\ hand[r].at = "cancel" /\ Schedule!Step(r, "create")
      /\ task' = [v \in Schedule!Versions |-> IF v \in Schedule!Obsolete(r) /\ task[v] = "ACTIVE"
                                             THEN "CANCELLED" ELSE task[v]]
      /\ UNCHANGED <<enabled, run, evidence, journaled, request, packet, ensured, crossed>>
  BY DEF Schedule!Cancel
<1>2. ScheduleShape /\ TasksAreWanted /\ DispatchIsBacked /\ SavedInOrder /\ r \in Schedule!Hands
  BY DEF ScheduleInv, Schedule!Hands
<1>3. /\ DOMAIN hand' = Schedule!Hands /\ \A o \in Schedule!Hands \ {r} : hand'[o] = hand[o]
      /\ HandFields \subseteq DOMAIN hand'[r]
      /\ hand'[r].at = "create" /\ hand'[r].saw = hand[r].saw /\ hand'[r].existing = hand[r].existing
  BY <1>1, <1>2, HandSteps
<1>4. /\ DOMAIN task' = Schedule!Versions
      /\ \A v \in Schedule!Versions :
           /\ task'[v] \in {None, "ACTIVE", "CANCELLED"}
           /\ task'[v] # None <=> task[v] # None
           /\ task'[v] = "ACTIVE" => task[v] = "ACTIVE" /\ v \notin Schedule!Obsolete(r)
           /\ task'[v] # task[v] => task[v] = "ACTIVE" /\ v \in Schedule!Obsolete(r)
  BY <1>1, <1>2, ScheduleValues DEF ScheduleShape
<1>5. ScheduleShape'
  BY <1>1, <1>2, <1>3, <1>4 DEF ScheduleShape
<1>6. DispatchIsBacked'
  BY <1>1, <1>2, <1>3, HandKeepsDispatch
<1>7. SavedInOrder' /\ Schedule!Config' = Schedule!Config /\ Schedule!Config \in Nat
      /\ \A v : Schedule!Wanted(v)' = Schedule!Wanted(v)
  BY <1>1, <1>2, ConfigStays, ConfigIsLast, ScheduleValues DEF SavedInOrder
<1>8. /\ hand[r].saw \in 1..Schedule!Config
      /\ \A v \in hand[r].existing : v \in Schedule!Versions /\ v <= hand[r].saw /\ task[v] # None
  BY <1>1, <1>2 DEF TasksAreWanted, Reconciles
<1>9. \A v \in Schedule!Versions : task'[v] = "CANCELLED" => v < Schedule!Config
  <2> SUFFICES ASSUME NEW v \in Schedule!Versions, task'[v] = "CANCELLED" PROVE v < Schedule!Config
    OBVIOUS
  <2>1. CASE task[v] = "CANCELLED"
    BY <1>2, <2>1 DEF TasksAreWanted
  <2>2. CASE task[v] # "CANCELLED"
    <3>1. v \in hand[r].existing /\ v \notin Schedule!Wanted(hand[r].saw) /\ task[v] = "ACTIVE"
      BY <1>4, <2>2 DEF Schedule!Obsolete
    <3>2. v <= hand[r].saw /\ enabled[v] = TRUE
      BY <1>2, <1>8, <3>1 DEF TasksAreWanted
    <3>3. v # hand[r].saw
      BY <3>1, <3>2 DEF Schedule!Wanted
    <3> QED
      BY <1>7, <1>8, <3>2, <3>3 DEF Schedule!Versions
  <2> QED
    BY <2>1, <2>2
<1>10. Schedule!Active' \subseteq Schedule!Active
  BY <1>4 DEF Schedule!Active
<1>11. ASSUME ~crossed PROVE Schedule!Active' \subseteq Schedule!Wanted(hand[r].saw)
  <2> SUFFICES ASSUME NEW v \in Schedule!Versions, task'[v] = "ACTIVE"
               PROVE  v \in Schedule!Wanted(hand[r].saw)
    BY DEF Schedule!Active
  <2>1. CASE v \in hand[r].existing
    BY <1>4, <2>1 DEF Schedule!Obsolete
  <2>2. CASE v \notin hand[r].existing
    <3>1. task[v] # None /\ v = hand[r].saw
      BY <1>1, <1>2, <1>4, <1>11, <2>2, ScheduleValues DEF TasksAreWanted, Reconciles
    <3> QED
      BY <1>2, <3>1 DEF TasksAreWanted, Schedule!Wanted
  <2> QED
    BY <2>1, <2>2
<1>12. ASSUME ~crossed, ensured = Schedule!Config, ensured > 0
       PROVE  Schedule!Active' = Schedule!Wanted(Schedule!Config)
  <2>1. hand[r].saw = Schedule!Config /\ Schedule!Active = Schedule!Wanted(Schedule!Config)
    BY <1>1, <1>2, <1>12 DEF TasksAreWanted, Reconciles
  <2>2. ASSUME NEW v \in Schedule!Active PROVE v \in Schedule!Active'
    <3>1. v \notin Schedule!Obsolete(r) /\ v \in Schedule!Versions /\ task[v] = "ACTIVE"
      BY <2>1, <2>2 DEF Schedule!Obsolete, Schedule!Active
    <3> QED
      BY <1>4, <3>1 DEF Schedule!Active
  <2> QED
    BY <1>10, <2>1, <2>2
<1>13. TasksAreWanted'
  <2>1. \A o \in Runners : o # r => hand'[o] = hand[o]
    BY <1>3 DEF Schedule!Hands
  <2>2. ASSUME NEW o \in Runners, Reconciles(o)'
        PROVE  /\ hand'[o].saw \in 1..Schedule!Config
               /\ \A v \in hand'[o].existing : v \in Schedule!Versions /\ v <= hand'[o].saw /\ task'[v] # None
               /\ ~crossed' => \A v \in Schedule!Versions :
                    task'[v] # None /\ v \notin hand'[o].existing => v = hand'[o].saw
               /\ ~crossed' /\ ensured' = Schedule!Config => hand'[o].saw = Schedule!Config
    <3>1. Reconciles(o) /\ hand'[o].saw = hand[o].saw /\ hand'[o].existing = hand[o].existing
      BY <1>1, <1>3, <2>1, <2>2 DEF Reconciles
    <3> QED
      BY <1>1, <1>2, <1>4, <3>1 DEF TasksAreWanted
  <2>3. ASSUME NEW o \in Runners, ~crossed', hand'[o].at = "create"
        PROVE  Schedule!Active' \subseteq Schedule!Wanted(hand'[o].saw)
    <3>1. CASE o = r
      BY <1>1, <1>3, <1>11, <2>3, <3>1
    <3>2. CASE o # r
      BY <1>1, <1>2, <1>10, <2>1, <2>3, <3>2 DEF TasksAreWanted
    <3> QED
      BY <3>1, <3>2
  <2>4. \A o \in Runners : Schedule!Wanted(hand[o].saw)' = Schedule!Wanted(hand'[o].saw)
    BY <1>1 DEF Schedule!Wanted
  <2>5. \A v \in Schedule!Versions : task'[v] # None => v <= Schedule!Config' /\ enabled'[v] = TRUE
    BY <1>1, <1>2, <1>4, <1>7 DEF TasksAreWanted
  <2>6. /\ ensured' \in 0..Schedule!Config'
        /\ ~crossed' /\ ensured' = Schedule!Config' /\ ensured' > 0
             => Schedule!Active' = Schedule!Wanted(Schedule!Config)'
    BY <1>1, <1>2, <1>7, <1>12 DEF TasksAreWanted, Schedule!Wanted
  <2> QED
    BY <1>7, <1>9, <2>2, <2>3, <2>4, <2>5, <2>6 DEF TasksAreWanted
<1> QED
  BY <1>5, <1>6, <1>7, <1>13 DEF ScheduleInv

LEMMA CreateKeepsSchedule ==
    ASSUME ScheduleInv, NEW r \in Runners, Schedule!Create(r)
    PROVE  ScheduleInv'
<1> DEFINE saw == hand[r].saw
           missing == Schedule!Wanted(saw) \ hand[r].existing
<1>1. /\ hand[r].at = "create" /\ Schedule!Step(r, "claim") /\ ensured' = saw
      /\ task' = [v \in Schedule!Versions |-> IF v \in missing /\ task[v] = None
                                             THEN "ACTIVE" ELSE task[v]]
      /\ crossed' = (crossed \/ \E o \in Runners \ {r} : hand[o].at \in {"cancel", "create"}
                                                         /\ hand[o].saw # saw)
      /\ UNCHANGED <<enabled, run, evidence, journaled, request, packet>>
  BY DEF Schedule!Create
<1>2. ScheduleShape /\ TasksAreWanted /\ DispatchIsBacked /\ SavedInOrder /\ r \in Schedule!Hands
  BY DEF ScheduleInv, Schedule!Hands
<1>3. /\ DOMAIN hand' = Schedule!Hands /\ \A o \in Schedule!Hands \ {r} : hand'[o] = hand[o]
      /\ HandFields \subseteq DOMAIN hand'[r] /\ hand'[r].at = "claim"
  BY <1>1, <1>2, HandSteps
<1>4. /\ saw \in 1..Schedule!Config
      /\ \A v \in hand[r].existing : v \in Schedule!Versions /\ v <= saw /\ task[v] # None
  BY <1>1, <1>2 DEF TasksAreWanted, Reconciles
<1>5. /\ DOMAIN task' = Schedule!Versions
      /\ \A v \in Schedule!Versions :
           /\ task'[v] \in {None, "ACTIVE", "CANCELLED"}
           /\ task[v] # None => task'[v] = task[v]
           /\ task'[v] # task[v] => task[v] = None /\ task'[v] = "ACTIVE" /\ v = saw /\ enabled[v] = TRUE
           /\ v \in Schedule!Wanted(saw) /\ task[v] = None => task'[v] = "ACTIVE"
  BY <1>1, <1>2, <1>4, ScheduleValues DEF ScheduleShape, Schedule!Wanted
<1> HIDE DEF saw, missing
<1>6. ScheduleShape'
  BY <1>1, <1>2, <1>3, <1>5 DEF ScheduleShape
<1>7. DispatchIsBacked'
  BY <1>1, <1>2, <1>3, HandKeepsDispatch
<1>8. SavedInOrder' /\ Schedule!Config' = Schedule!Config /\ Schedule!Config \in Nat
      /\ \A v : Schedule!Wanted(v)' = Schedule!Wanted(v)
      /\ Schedule!Config <= MaxVersions /\ MaxVersions \in Nat
  BY <1>1, <1>2, ConfigStays, ConfigIsLast, ScheduleValues DEF SavedInOrder
<1>9. \A v \in Schedule!Versions :
        /\ task'[v] # None => v <= Schedule!Config /\ enabled[v] = TRUE
        /\ task'[v] = "CANCELLED" => v < Schedule!Config
  <2> SUFFICES ASSUME NEW v \in Schedule!Versions
               PROVE  /\ task'[v] # None => v <= Schedule!Config /\ enabled[v] = TRUE
                      /\ task'[v] = "CANCELLED" => v < Schedule!Config
    OBVIOUS
  <2>1. CASE task'[v] = task[v]
    BY <1>2, <2>1 DEF TasksAreWanted
  <2>2. CASE task'[v] # task[v]
    BY <1>4, <1>5, <1>8, <2>2
  <2> QED
    BY <2>1, <2>2
<1>10. ASSUME ~crossed'
       PROVE  /\ ~crossed
              /\ \A o \in Runners : Reconciles(o) => hand[o].saw = saw
              /\ Schedule!Active' \subseteq Schedule!Wanted(saw)
  <2>1. ~crossed /\ \A o \in Runners : Reconciles(o) => hand[o].saw = saw
    BY <1>1, <1>10 DEF Reconciles, saw
  <2>2. Schedule!Active \subseteq Schedule!Wanted(saw)
    BY <1>1, <1>2, <2>1 DEF TasksAreWanted, saw
  <2>3. ASSUME NEW v \in Schedule!Active' PROVE v \in Schedule!Wanted(saw)
    <3>1. v \in Schedule!Versions /\ task'[v] = "ACTIVE"
      BY <2>3 DEF Schedule!Active
    <3>2. CASE task'[v] = task[v]
      BY <2>2, <3>1, <3>2 DEF Schedule!Active
    <3>3. CASE task'[v] # task[v]
      BY <1>5, <3>1, <3>3 DEF Schedule!Wanted
    <3> QED
      BY <3>2, <3>3
  <2> QED
    BY <2>1, <2>3
<1>11. ASSUME ~crossed', saw = Schedule!Config PROVE Schedule!Active' = Schedule!Wanted(saw)
  <2>1. ASSUME NEW v \in Schedule!Wanted(saw) PROVE v \in Schedule!Active'
    <3>1. v = saw /\ v \in Schedule!Versions
      BY <1>4, <1>8, <2>1 DEF Schedule!Wanted, Schedule!Versions
    <3>2. CASE task[v] = None
      BY <1>5, <2>1, <3>1, <3>2 DEF Schedule!Active
    <3>3. CASE task[v] # None
      <4>1. task[v] # "CANCELLED"
        BY <1>2, <1>8, <1>11, <3>1 DEF TasksAreWanted
      <4>2. task'[v] = "ACTIVE"
        BY <1>2, <1>5, <3>1, <3>3, <4>1 DEF ScheduleShape
      <4> QED
        BY <3>1, <4>2 DEF Schedule!Active
    <3> QED
      BY <3>2, <3>3
  <2> QED
    BY <1>10, <1>11, <2>1
<1>12. TasksAreWanted'
  <2>1. \A o \in Runners : o # r => hand'[o] = hand[o]
    BY <1>3 DEF Schedule!Hands
  <2>2. ASSUME NEW o \in Runners, Reconciles(o)'
        PROVE  /\ hand'[o].saw \in 1..Schedule!Config
               /\ \A v \in hand'[o].existing : v \in Schedule!Versions /\ v <= hand'[o].saw /\ task'[v] # None
               /\ ~crossed' => \A v \in Schedule!Versions :
                    task'[v] # None /\ v \notin hand'[o].existing => v = hand'[o].saw
               /\ ~crossed' /\ ensured' = Schedule!Config => hand'[o].saw = Schedule!Config
               /\ ~crossed' /\ hand'[o].at = "create"
                    => Schedule!Active' \subseteq Schedule!Wanted(hand'[o].saw)
    <3>1. o # r /\ hand'[o] = hand[o] /\ Reconciles(o)
      BY <1>3, <2>1, <2>2 DEF Reconciles
    <3>2. /\ hand[o].saw \in 1..Schedule!Config
          /\ \A v \in hand[o].existing : v \in Schedule!Versions /\ v <= hand[o].saw /\ task[v] # None
          /\ ~crossed => \A v \in Schedule!Versions :
               task[v] # None /\ v \notin hand[o].existing => v = hand[o].saw
      BY <1>2, <3>1 DEF TasksAreWanted
    <3>3. \A v \in Schedule!Versions : task[v] # None => task'[v] # None
      BY <1>5
    <3>4. ASSUME ~crossed', NEW v \in Schedule!Versions, task'[v] # None, v \notin hand[o].existing
          PROVE  v = hand[o].saw
      <4>1. hand[o].saw = saw /\ ~crossed
        BY <1>10, <3>1, <3>4
      <4> QED
        BY <1>5, <3>2, <3>4, <4>1
    <3>5. ~crossed' /\ ensured' = Schedule!Config => hand[o].saw = Schedule!Config
      BY <1>1, <1>10, <3>1
    <3>6. ~crossed' => Schedule!Active' \subseteq Schedule!Wanted(hand[o].saw)
      BY <1>10, <3>1
    <3> QED
      BY <3>1, <3>2, <3>3, <3>4, <3>5, <3>6
  <2>3. \A o \in Runners : Schedule!Wanted(hand[o].saw)' = Schedule!Wanted(hand'[o].saw)
    BY <1>1 DEF Schedule!Wanted
  <2>4. \A o \in Runners : hand'[o].at = "create" => Reconciles(o)'
    BY DEF Reconciles
  <2>5. /\ ensured' \in 0..Schedule!Config'
        /\ ~crossed' /\ ensured' = Schedule!Config' /\ ensured' > 0
             => Schedule!Active' = Schedule!Wanted(Schedule!Config)'
    <3>1. ensured' \in 0..Schedule!Config'
      BY <1>1, <1>4, <1>8
    <3>2. ASSUME ~crossed', ensured' = Schedule!Config'
          PROVE  Schedule!Active' = Schedule!Wanted(Schedule!Config)'
      <4>1. saw = Schedule!Config
        BY <1>1, <1>8, <3>2
      <4>2. Schedule!Active' = Schedule!Wanted(Schedule!Config)
        BY <1>11, <3>2, <4>1
      <4>3. Schedule!Wanted(Schedule!Config)' = Schedule!Wanted(Schedule!Config)
        BY <1>1, <1>8 DEF Schedule!Wanted
      <4> QED
        BY <4>2, <4>3
    <3> QED
      BY <3>1, <3>2
  <2> QED
    BY <1>1, <1>8, <1>9, <2>2, <2>3, <2>4, <2>5 DEF TasksAreWanted
<1> QED
  BY <1>6, <1>7, <1>8, <1>12 DEF ScheduleInv

\* The steps that leave configurations, tasks and reconciliations alone.
TasksAlone ==
    /\ UNCHANGED <<enabled, task, ensured, crossed>>
    /\ \A r \in Runners : hand'[r] = hand[r] \/ hand'[r].at \notin {"cancel", "create"}

LEMMA TasksAloneKeeps ==
    ASSUME ScheduleInv, TasksAlone, ScheduleShape', DispatchIsBacked'
    PROVE  ScheduleInv'
<1>1. TasksAreWanted'
  BY TasksStay DEF ScheduleInv, TasksAlone
<1>2. SavedInOrder'
  BY ConfigStays DEF ScheduleInv, SavedInOrder, TasksAlone
<1> QED
  BY <1>1, <1>2 DEF ScheduleInv

\* A run changes, and does not become complete.
LEMMA RunKeepsSchedule ==
    ASSUME ScheduleInv, TasksAlone, UNCHANGED <<evidence, journaled, request, packet>>,
           DOMAIN hand' = Schedule!Hands, \A h \in Schedule!Hands : HandFields \subseteq DOMAIN hand'[h],
           NEW v \in Schedule!Versions, NEW new, run' = [run EXCEPT ![v] = new],
           {"status", "attempt", "by"} \subseteq DOMAIN new, new.status # "COMPLETED",
           \A h \in Schedule!Hands : hand'[h] = hand[h] \/ (hand'[h].at = "append" /\ hand'[h].saw = v)
    PROVE  ScheduleInv'
<1>1. ScheduleShape /\ DispatchIsBacked
  BY DEF ScheduleInv
<1>2. /\ DOMAIN run' = Schedule!Versions /\ run'[v] = new
      /\ \A u \in Schedule!Versions : u # v => run'[u] = run[u]
  BY <1>1 DEF ScheduleShape
<1>3. ScheduleShape'
  BY <1>1, <1>2 DEF ScheduleShape, TasksAlone
<1>4. DispatchIsBacked'
  <2>1. \A h \in Schedule!Hands :
         /\ hand'[h].at \in {"append", "recheck", "enqueue", "freeze", "insert", "mark"}
              => hand'[h].saw \in Schedule!Versions
         /\ hand'[h].at \in {"recheck", "enqueue", "freeze", "insert", "mark"} => hand'[h] = hand[h]
    BY <1>1 DEF DispatchIsBacked
  <2>2. \A h \in Schedule!Hands :
         /\ hand'[h].at \in {"recheck", "enqueue"} => hand'[h].saw \in journaled
         /\ hand'[h].at \in {"freeze", "insert", "mark"} => hand'[h].saw \in request
         /\ hand'[h].at = "insert" => hand'[h].evidence \in Nat /\ hand'[h].consent \in BOOLEAN
         /\ hand'[h].at = "mark" => packet[hand'[h].saw] # None
    BY <1>1, <2>1 DEF DispatchIsBacked
  <2>3. \A u \in Schedule!Versions : run'[u].status = "COMPLETED" => run[u].status = "COMPLETED"
    BY <1>2
  <2> QED
    BY <1>1, <2>1, <2>2, <2>3 DEF DispatchIsBacked
<1> QED
  BY <1>3, <1>4, TasksAloneKeeps

LEMMA LearnKeepsSchedule == ASSUME ScheduleInv, Schedule!Learn PROVE ScheduleInv'
<1>1. TasksAlone /\ UNCHANGED <<run, journaled, request, packet, hand>> /\ evidence' = evidence + 1
  BY DEF Schedule!Learn, TasksAlone
<1>2. ScheduleShape' /\ DispatchIsBacked'
  BY <1>1 DEF ScheduleInv, ScheduleShape, DispatchIsBacked, TasksAlone
<1> QED
  BY <1>1, <1>2, TasksAloneKeeps

LEMMA FallDueKeepsSchedule ==
    ASSUME ScheduleInv, NEW v \in Schedule!Versions, Schedule!FallDue(v) \/ Schedule!LeaseEnds(v)
    PROVE  ScheduleInv'
<1>1. TasksAlone /\ UNCHANGED <<evidence, journaled, request, packet, hand>>
  BY DEF Schedule!FallDue, Schedule!LeaseEnds, TasksAlone
<1>2. ScheduleShape
  BY DEF ScheduleInv
<1>3. DOMAIN hand' = Schedule!Hands /\ \A h \in Schedule!Hands : HandFields \subseteq DOMAIN hand'[h]
  BY <1>1, <1>2 DEF ScheduleShape
<1>4. \E new : /\ run' = [run EXCEPT ![v] = new]
               /\ {"status", "attempt", "by"} \subseteq DOMAIN new /\ new.status # "COMPLETED"
  <2>1. CASE Schedule!FallDue(v)
    <3> DEFINE new == [run[v] EXCEPT !.status = "DUE"]
    <3>1. run' = [run EXCEPT ![v] = new]
      BY <2>1 DEF Schedule!FallDue
    <3>2. {"status", "attempt", "by"} \subseteq DOMAIN new /\ new.status = "DUE"
      BY <1>2 DEF ScheduleShape
    <3> HIDE DEF new
    <3> QED
      BY <3>1, <3>2
  <2>2. CASE Schedule!LeaseEnds(v)
    <3> DEFINE retried == [status |-> "DUE", attempt |-> run[v].attempt + 1, by |-> None]
               lost == [run[v] EXCEPT !.status = "FAILED"]
               new == IF run[v].attempt < MaxAttempts THEN retried ELSE lost
    <3>1. run' = [run EXCEPT ![v] = new]
      BY <2>2 DEF Schedule!LeaseEnds
    <3>2. {"status", "attempt", "by"} \subseteq DOMAIN retried /\ retried.status = "DUE"
      OBVIOUS
    <3>3. {"status", "attempt", "by"} \subseteq DOMAIN lost /\ lost.status = "FAILED"
      BY <1>2 DEF ScheduleShape
    <3> HIDE DEF retried, lost
    <3>4. {"status", "attempt", "by"} \subseteq DOMAIN new /\ new.status # "COMPLETED"
      BY <3>2, <3>3
    <3> HIDE DEF new
    <3> QED
      BY <3>1, <3>4
  <2> QED
    BY <2>1, <2>2
<1>5. PICK new : /\ run' = [run EXCEPT ![v] = new]
                 /\ {"status", "attempt", "by"} \subseteq DOMAIN new /\ new.status # "COMPLETED"
  BY <1>4
<1>6. \A h \in Schedule!Hands : hand'[h] = hand[h] \/ (hand'[h].at = "append" /\ hand'[h].saw = v)
  <2>1. hand' = hand
    BY <1>1
  <2> QED
    BY <2>1
<1>7. UNCHANGED <<evidence, journaled, request, packet>> /\ TasksAlone
  BY <1>1
<1> QED
  BY <1>3, <1>5, <1>6, <1>7, RunKeepsSchedule

LEMMA ClaimKeepsSchedule ==
    ASSUME ScheduleInv, NEW r \in Runners, Schedule!Claim(r) PROVE ScheduleInv'
<1>0. ScheduleShape /\ DispatchIsBacked /\ r \in Schedule!Hands
  BY DEF ScheduleInv, Schedule!Hands
<1>1. UNCHANGED <<enabled, task, evidence, journaled, request, packet, ensured, crossed>>
  BY DEF Schedule!Claim
<1>2. ASSUME NEW v \in Schedule!Versions,
             run' = [run EXCEPT ![v].status = "CLAIMED", ![v].by = r],
             hand' = [hand EXCEPT ![r] = [Schedule!Idle EXCEPT !.at = "append", !.saw = v]]
      PROVE  ScheduleInv'
  <2> DEFINE new == [run[v] EXCEPT !.status = "CLAIMED", !.by = r]
             taken == [Schedule!Idle EXCEPT !.at = "append", !.saw = v]
  <2>1. run' = [run EXCEPT ![v] = new] /\ hand' = [hand EXCEPT ![r] = taken]
    BY <1>2
  <2>2. {"status", "attempt", "by"} \subseteq DOMAIN new /\ new.status = "CLAIMED"
    BY <1>0 DEF ScheduleShape
  <2>3. HandFields \subseteq DOMAIN taken /\ taken.at = "append" /\ taken.saw = v
    BY DEF Schedule!Idle, HandFields
  <2> HIDE DEF new, taken
  <2>4. /\ DOMAIN hand' = Schedule!Hands /\ hand'[r] = taken
        /\ \A h \in Schedule!Hands : h # r => hand'[h] = hand[h]
    BY <1>0, <2>1 DEF ScheduleShape
  <2>5. \A h \in Schedule!Hands : hand'[h] = hand[h] \/ (hand'[h].at = "append" /\ hand'[h].saw = v)
    <3> SUFFICES ASSUME NEW h \in Schedule!Hands
                 PROVE  hand'[h] = hand[h] \/ (hand'[h].at = "append" /\ hand'[h].saw = v)
      OBVIOUS
    <3>0. h # r => hand'[h] = hand[h]
      BY <2>4
    <3>1. CASE h = r
      BY <2>3, <2>4, <3>1
    <3>2. CASE h # r
      BY <3>0, <3>2
    <3> QED
      BY <3>1, <3>2
  <2>6. \A h \in Schedule!Hands : HandFields \subseteq DOMAIN hand'[h]
    BY <1>0, <2>3, <2>4 DEF ScheduleShape
  <2>7. TasksAlone
    BY <1>1, <2>5 DEF TasksAlone, Schedule!Hands
  <2> QED
    BY <1>1, <2>1, <2>2, <2>4, <2>5, <2>6, <2>7, RunKeepsSchedule
<1>3. CASE Schedule!Stop(r) /\ UNCHANGED run
  <2>1. /\ DOMAIN hand' = Schedule!Hands /\ \A o \in Schedule!Hands \ {r} : hand'[o] = hand[o]
        /\ HandFields \subseteq DOMAIN hand'[r] /\ hand'[r].at = "idle"
    BY <1>0, <1>3, HandStops
  <2>2. TasksAlone
    BY <1>1, <2>1 DEF TasksAlone, Schedule!Hands
  <2>3. ScheduleShape'
    BY <1>0, <1>1, <1>3, <2>1 DEF ScheduleShape
  <2>4. DispatchIsBacked'
    BY <1>0, <1>1, <1>3, <2>1, HandKeepsDispatch
  <2> QED
    BY <2>2, <2>3, <2>4, TasksAloneKeeps
<1> QED
  BY <1>2, <1>3 DEF Schedule!Claim

\* A step of one hand that leaves the runs alone.
LEMMA HandKeepsSchedule ==
    ASSUME ScheduleInv, NEW h \in Schedule!Hands,
           UNCHANGED <<enabled, task, run, evidence, ensured, crossed>>,
           DOMAIN hand' = Schedule!Hands, \A o \in Schedule!Hands \ {h} : hand'[o] = hand[o],
           HandFields \subseteq DOMAIN hand'[h], hand'[h].at \notin {"cancel", "create"},
           DOMAIN packet' = Schedule!Versions,
           \A v \in Schedule!Versions : packet[v] # None => packet'[v] # None,
           \A v \in Schedule!Versions : packet'[v] # None => v \in request',
           journaled \subseteq journaled', journaled' \subseteq Schedule!Versions,
           request \subseteq request', request' \subseteq journaled',
           hand'[h].at \in {"append", "recheck", "enqueue", "freeze", "insert", "mark"}
              => hand'[h].saw \in Schedule!Versions,
           hand'[h].at \in {"recheck", "enqueue"} => hand'[h].saw \in journaled',
           hand'[h].at \in {"freeze", "insert", "mark"} => hand'[h].saw \in request',
           hand'[h].at = "insert" => hand'[h].evidence \in Nat /\ hand'[h].consent \in BOOLEAN,
           hand'[h].at = "mark" => packet'[hand'[h].saw] # None
    PROVE  ScheduleInv'
<1>1. ScheduleShape /\ DispatchIsBacked
  BY DEF ScheduleInv
<1>2. \A o \in Schedule!Hands : o = h \/ hand'[o] = hand[o]
  OBVIOUS
<1>3. TasksAlone
  BY <1>2 DEF TasksAlone, Schedule!Hands
<1>4. ScheduleShape'
  BY <1>1, <1>2 DEF ScheduleShape
<1>5. ASSUME NEW o \in Schedule!Hands, o # h
      PROVE  /\ hand'[o].at \in {"append", "recheck", "enqueue", "freeze", "insert", "mark"}
                  => hand'[o].saw \in Schedule!Versions
             /\ hand'[o].at \in {"recheck", "enqueue"} => hand'[o].saw \in journaled'
             /\ hand'[o].at \in {"freeze", "insert", "mark"} => hand'[o].saw \in request'
             /\ hand'[o].at = "insert" => hand'[o].evidence \in Nat /\ hand'[o].consent \in BOOLEAN
             /\ hand'[o].at = "mark" => packet'[hand'[o].saw] # None
  BY <1>1, <1>2, <1>5 DEF DispatchIsBacked
<1>6. DispatchIsBacked'
  BY <1>1, <1>5 DEF DispatchIsBacked
<1> QED
  BY <1>3, <1>4, <1>6, TasksAloneKeeps

\* A hand gives up.
LEMMA StopKeepsSchedule ==
    ASSUME ScheduleInv, NEW h \in Schedule!Hands, Schedule!Stop(h),
           UNCHANGED <<enabled, task, run, evidence, journaled, request, packet, ensured, crossed>>
    PROVE  ScheduleInv'
<1>1. ScheduleShape /\ DispatchIsBacked
  BY DEF ScheduleInv
<1> QED
  BY <1>1, HandStops, HandKeepsSchedule DEF ScheduleShape, DispatchIsBacked

LEMMA WatchKeepsSchedule ==
    ASSUME ScheduleInv, NEW v \in Schedule!Versions,
           Schedule!Watch(v) \/ Schedule!ReadLazily("watcher", v)
    PROVE  ScheduleInv'
<1>0. ScheduleShape /\ DispatchIsBacked /\ "watcher" \in Schedule!Hands
  BY DEF ScheduleInv, Schedule!Hands
<1>1. UNCHANGED <<enabled, task, run, evidence, journaled, request, packet, ensured, crossed>>
  BY DEF Schedule!Watch, Schedule!ReadLazily
<1>2. CASE Schedule!Watch(v)
  <2> DEFINE new == [Schedule!Idle EXCEPT !.at = "append", !.saw = v]
  <2>1. hand' = [hand EXCEPT !["watcher"] = new]
    BY <1>2 DEF Schedule!Watch
  <2>2. new.at = "append" /\ new.saw = v /\ HandFields \subseteq DOMAIN new
    BY DEF Schedule!Idle, HandFields
  <2> HIDE DEF new
  <2>3. /\ DOMAIN hand' = Schedule!Hands /\ hand'["watcher"] = new
        /\ \A o \in Schedule!Hands \ {"watcher"} : hand'[o] = hand[o]
    BY <1>0, <2>1 DEF ScheduleShape
  <2> QED
    BY <1>0, <1>1, <2>2, <2>3, HandKeepsSchedule DEF ScheduleShape, DispatchIsBacked
<1>3. CASE Schedule!ReadLazily("watcher", v)
  <2> DEFINE consent1 == Schedule!BoundConsent(v)
             new == [Schedule!Idle EXCEPT !.at = "insert", !.saw = v, !.evidence = evidence,
                                          !.consent = consent1]
  <2>1. hand' = [hand EXCEPT !["watcher"] = new] /\ v \in request
    BY <1>3 DEF Schedule!ReadLazily
  <2>2. consent1 \in BOOLEAN
    BY DEF Schedule!BoundConsent
  <2> HIDE DEF consent1
  <2>3. /\ new.at = "insert" /\ new.saw = v /\ new.evidence = evidence /\ new.consent = consent1
        /\ HandFields \subseteq DOMAIN new
    BY DEF Schedule!Idle, HandFields
  <2> HIDE DEF new
  <2>4. /\ DOMAIN hand' = Schedule!Hands /\ hand'["watcher"] = new
        /\ \A o \in Schedule!Hands \ {"watcher"} : hand'[o] = hand[o]
    BY <1>0, <2>1 DEF ScheduleShape
  <2> QED
    BY <1>0, <1>1, <2>1, <2>2, <2>3, <2>4, HandKeepsSchedule DEF ScheduleShape, DispatchIsBacked
<1> QED
  BY <1>2, <1>3

\* A hand goes on to the next thing with what it had seen.
LEMMA StepKeepsSchedule ==
    ASSUME ScheduleInv, NEW h \in Schedule!Hands, NEW at, Schedule!Step(h, at),
           at \in {"recheck", "enqueue", "freeze", "mark"}, hand[h].saw \in Schedule!Versions,
           UNCHANGED <<enabled, task, run, evidence, ensured, crossed>>,
           DOMAIN packet' = Schedule!Versions,
           \A v \in Schedule!Versions : packet[v] # None => packet'[v] # None,
           \A v \in Schedule!Versions : packet'[v] # None => v \in request',
           journaled \subseteq journaled', journaled' \subseteq Schedule!Versions,
           request \subseteq request', request' \subseteq journaled',
           hand[h].saw \in journaled', at \in {"freeze", "mark"} => hand[h].saw \in request',
           at = "mark" => packet'[hand[h].saw] # None
    PROVE  ScheduleInv'
<1>1. ScheduleShape
  BY DEF ScheduleInv
<1> QED
  BY <1>1, HandSteps, HandKeepsSchedule

LEMMA SinkKeepsSchedule ==
    ASSUME ScheduleInv, NEW h \in Schedule!Hands,
           Schedule!Append(h) \/ Schedule!Recheck(h) \/ Schedule!Enqueue(h)
    PROVE  ScheduleInv'
<1>0. ScheduleShape /\ DispatchIsBacked
  BY DEF ScheduleInv
<1>1. UNCHANGED <<enabled, task, run, evidence, ensured, crossed, packet>>
      /\ hand[h].at \in {"append", "recheck", "enqueue"}
  BY DEF Schedule!Append, Schedule!Recheck, Schedule!Enqueue
<1>2. hand[h].saw \in Schedule!Versions /\ DOMAIN packet' = Schedule!Versions
      /\ (\A v \in Schedule!Versions : packet[v] # None => packet'[v] # None /\ v \in request)
      /\ request \subseteq journaled /\ journaled \subseteq Schedule!Versions
  BY <1>0, <1>1 DEF DispatchIsBacked, ScheduleShape
<1>3. CASE Schedule!Append(h)
  <2>1. CASE Schedule!Stop(h) /\ UNCHANGED journaled
    <3>1. UNCHANGED request
      BY <1>3 DEF Schedule!Append
    <3> QED
      BY <1>1, <2>1, <3>1, StopKeepsSchedule
  <2>2. CASE Schedule!Step(h, "recheck") /\ journaled' = journaled \cup {hand[h].saw}
    <3>1. UNCHANGED request
      BY <1>3 DEF Schedule!Append
    <3> QED
      BY <1>1, <1>2, <2>2, <3>1, StepKeepsSchedule
  <2> QED
    BY <1>3, <2>1, <2>2 DEF Schedule!Append
<1>4. CASE Schedule!Recheck(h)
  <2>0. UNCHANGED <<journaled, request>> /\ hand[h].saw \in journaled
    BY <1>0, <1>4 DEF Schedule!Recheck, DispatchIsBacked
  <2>1. CASE Schedule!Stop(h)
    BY <1>1, <2>0, <2>1, StopKeepsSchedule
  <2>2. CASE Schedule!Step(h, "enqueue")
    BY <1>1, <1>2, <2>0, <2>2, StepKeepsSchedule
  <2> QED
    BY <1>4, <2>1, <2>2 DEF Schedule!Recheck, Schedule!Raise
<1>5. CASE Schedule!Enqueue(h)
  <2>1. /\ request' = request \cup {hand[h].saw} /\ Schedule!Step(h, "freeze") /\ UNCHANGED journaled
        /\ hand[h].saw \in journaled
    BY <1>0, <1>5 DEF Schedule!Enqueue, DispatchIsBacked
  <2> QED
    BY <1>1, <1>2, <2>1, StepKeepsSchedule
<1> QED
  BY <1>3, <1>4, <1>5

LEMMA ReadKeepsSchedule ==
    ASSUME ScheduleInv, NEW h \in Schedule!Hands, Schedule!Read(h) PROVE ScheduleInv'
<1>0. ScheduleShape /\ DispatchIsBacked
  BY DEF ScheduleInv
<1> DEFINE consent1 == Schedule!BoundConsent(hand[h].saw)
           new == [hand[h] EXCEPT !.at = "insert", !.evidence = evidence, !.consent = consent1]
<1>1. /\ hand[h].at = "freeze" /\ hand' = [hand EXCEPT ![h] = new]
      /\ UNCHANGED <<enabled, task, run, evidence, journaled, request, packet, ensured, crossed>>
  BY DEF Schedule!Read
<1>2. consent1 \in BOOLEAN
  BY DEF Schedule!BoundConsent
<1> HIDE DEF consent1
<1>3. /\ new.at = "insert" /\ new.saw = hand[h].saw /\ new.evidence = evidence /\ new.consent = consent1
      /\ HandFields \subseteq DOMAIN new
  BY <1>0 DEF ScheduleShape, HandFields
<1> HIDE DEF new
<1>4. /\ DOMAIN hand' = Schedule!Hands /\ hand'[h] = new
      /\ \A o \in Schedule!Hands \ {h} : hand'[o] = hand[o]
  BY <1>0, <1>1 DEF ScheduleShape
<1>5. hand[h].saw \in request /\ hand[h].saw \in Schedule!Versions
  BY <1>0, <1>1 DEF DispatchIsBacked
<1> QED
  BY <1>0, <1>1, <1>2, <1>3, <1>4, <1>5, HandKeepsSchedule DEF ScheduleShape, DispatchIsBacked

LEMMA InsertKeepsSchedule ==
    ASSUME ScheduleInv, NEW h \in Schedule!Hands, Schedule!Insert(h) PROVE ScheduleInv'
<1>0. ScheduleShape /\ DispatchIsBacked
  BY DEF ScheduleInv
<1> DEFINE v == hand[h].saw
           new == [evidence |-> hand[h].evidence, consent |-> hand[h].consent]
<1>1. /\ hand[h].at = "insert"
      /\ packet' = IF packet[v] = None THEN [packet EXCEPT ![v] = new] ELSE packet
      /\ Schedule!Step(h, "mark") \/ Schedule!Stop(h)
      /\ UNCHANGED <<enabled, task, run, evidence, journaled, request, ensured, crossed>>
  BY DEF Schedule!Insert
<1>2. v \in request /\ v \in Schedule!Versions /\ hand[h].evidence \in Nat /\ hand[h].consent \in BOOLEAN
      /\ request \subseteq journaled /\ journaled \subseteq Schedule!Versions
      /\ \A u \in Schedule!Versions : packet[u] # None => u \in request
  BY <1>0, <1>1 DEF DispatchIsBacked
<1>3. new # None
  BY <1>2, ScheduleValues
<1> HIDE DEF v, new
<1>4. /\ DOMAIN packet' = Schedule!Versions /\ packet'[v] # None
      /\ \A u \in Schedule!Versions : u # v => packet'[u] = packet[u]
  BY <1>0, <1>1, <1>2, <1>3 DEF ScheduleShape
<1>5. \A u \in Schedule!Versions :
        /\ packet[u] # None => packet'[u] # None
        /\ packet'[u] # None => u \in request'
  BY <1>1, <1>2, <1>4
<1>6. CASE Schedule!Step(h, "mark")
  BY <1>1, <1>2, <1>4, <1>5, <1>6, StepKeepsSchedule DEF v
<1>7. CASE Schedule!Stop(h)
  BY <1>0, <1>1, <1>2, <1>4, <1>5, <1>7, HandStops, HandKeepsSchedule
<1> QED
  BY <1>1, <1>6, <1>7

LEMMA MarkKeepsSchedule ==
    ASSUME ScheduleInv, NEW h \in Schedule!Hands, Schedule!Mark(h) PROVE ScheduleInv'
<1>0. ScheduleShape /\ DispatchIsBacked
  BY DEF ScheduleInv
<1> DEFINE v == hand[h].saw
           new == [run[v] EXCEPT !.status = "COMPLETED"]
<1>1. /\ hand[h].at = "mark" /\ Schedule!Stop(h)
      /\ run' = IF run[v].status = "CLAIMED" /\ run[v].by = h
                THEN [run EXCEPT ![v] = new] ELSE run
      /\ UNCHANGED <<enabled, task, evidence, journaled, request, packet, ensured, crossed>>
  BY DEF Schedule!Mark
<1>2. v \in request /\ v \in Schedule!Versions /\ packet[v] # None
  BY <1>0, <1>1 DEF DispatchIsBacked
<1>3. {"status", "attempt", "by"} \subseteq DOMAIN new
  BY <1>0, <1>2 DEF ScheduleShape
<1> HIDE DEF v, new
<1>4. /\ DOMAIN run' = Schedule!Versions
      /\ \A u \in Schedule!Versions :
           /\ {"status", "attempt", "by"} \subseteq DOMAIN run'[u]
           /\ u # v => run'[u] = run[u]
  BY <1>0, <1>1, <1>2, <1>3 DEF ScheduleShape
<1>5. /\ DOMAIN hand' = Schedule!Hands /\ \A o \in Schedule!Hands \ {h} : hand'[o] = hand[o]
      /\ HandFields \subseteq DOMAIN hand'[h] /\ hand'[h].at = "idle"
  BY <1>0, <1>1, HandStops
<1>6. TasksAlone
  BY <1>1, <1>5 DEF TasksAlone, Schedule!Hands
<1>7. ScheduleShape'
  BY <1>0, <1>1, <1>4, <1>5 DEF ScheduleShape
<1>8. DispatchIsBacked'
  <2>1. \A u \in Schedule!Versions : run'[u].status = "COMPLETED" => u \in request /\ packet[u] # None
    BY <1>0, <1>2, <1>4 DEF DispatchIsBacked
  <2> QED
    BY <1>0, <1>1, <1>5, <2>1 DEF DispatchIsBacked
<1> QED
  BY <1>6, <1>7, <1>8, TasksAloneKeeps

LEMMA ScheduleStep == ScheduleInv /\ [Schedule!Next]_scheduleVars => ScheduleInv'
<1> SUFFICES ASSUME ScheduleInv, [Schedule!Next]_scheduleVars PROVE ScheduleInv'
  OBVIOUS
<1>1. CASE UNCHANGED scheduleVars
  <2>1. /\ UNCHANGED <<enabled, task, run, evidence, journaled, request, packet, hand, ensured, crossed>>
        /\ TasksAlone
    BY <1>1 DEF scheduleVars, TasksAlone
  <2>2. ScheduleShape' /\ DispatchIsBacked'
    BY <2>1 DEF ScheduleInv, ScheduleShape, DispatchIsBacked
  <2> QED
    BY <2>1, <2>2, TasksAloneKeeps
<1>2. ASSUME NEW wanted \in BOOLEAN, Schedule!Save(wanted) PROVE ScheduleInv'
  BY <1>2, SaveKeepsSchedule
<1>3. CASE Schedule!Learn
  BY <1>3, LearnKeepsSchedule
<1>4. ASSUME NEW r \in Runners,
             Schedule!Ensure(r) \/ Schedule!Cancel(r) \/ Schedule!Create(r) \/ Schedule!Claim(r)
      PROVE  ScheduleInv'
  BY <1>4, EnsureKeepsSchedule, CancelKeepsSchedule, CreateKeepsSchedule, ClaimKeepsSchedule
<1>5. ASSUME NEW v \in Schedule!Versions,
             \/ Schedule!FallDue(v) \/ Schedule!LeaseEnds(v)
             \/ Schedule!Watch(v) \/ Schedule!ReadLazily("watcher", v)
      PROVE  ScheduleInv'
  BY <1>5, FallDueKeepsSchedule, WatchKeepsSchedule
<1>6. ASSUME NEW h \in Schedule!Hands,
             \/ Schedule!Append(h) \/ Schedule!Recheck(h) \/ Schedule!Enqueue(h)
             \/ Schedule!Read(h) \/ Schedule!Insert(h) \/ Schedule!Mark(h) \/ Schedule!Die(h)
      PROVE  ScheduleInv'
  <2>1. CASE Schedule!Die(h)
    BY <2>1, StopKeepsSchedule DEF Schedule!Die
  <2> QED
    BY <1>6, <2>1, SinkKeepsSchedule, ReadKeepsSchedule, InsertKeepsSchedule, MarkKeepsSchedule
<1> QED
  BY <1>1, <1>2, <1>3, <1>4, <1>5, <1>6 DEF Schedule!Next

LEMMA ScheduleHolds ==
    ScheduleInv => Schedule!DispatchIsAccounted /\ Schedule!ScheduleFollowsConfig
<1> SUFFICES ASSUME ScheduleInv
             PROVE  Schedule!DispatchIsAccounted /\ Schedule!ScheduleFollowsConfig
  OBVIOUS
<1>1. Schedule!DispatchIsAccounted
  BY DEF ScheduleInv, DispatchIsBacked, Schedule!DispatchIsAccounted
<1>2. Schedule!ScheduleFollowsConfig
  BY DEF ScheduleInv, TasksAreWanted, Schedule!ScheduleFollowsConfig
<1> QED
  BY <1>1, <1>2
=============================================================================
