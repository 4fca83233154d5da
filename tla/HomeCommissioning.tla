-------------------------- MODULE HomeCommissioning --------------------------
(* How a found device, or a phone's tracker, becomes part of the home, and     *)
(* what is then done with it (src/anima_ha/home_assistant.py over the graph of *)
(* src/anima_ha/graph.py): commissioning maps its entity, so that what is      *)
(* heard of it is truth of the home and no longer only of the provider; it is  *)
(* moved, retired and switched; and ZHA is set up through a flow of several    *)
(* requests that Home Assistant keeps.  An object here has one entity.         *)
EXTENDS Integers, Sequences

CONSTANTS Threads,
          Devices, Trackers,    \* the objects that can be commissioned
          Places,               \* the rooms, and among them
          Zone,                 \* the zone of the trackers
          MaxCalls, MaxChanges, MaxFaults, None

\* What stands for none is not the name of a request or of where it is.
CommissioningAssumption == None \notin {"setup", "continue", "project", "zone", "seed", "done"}

VARIABLES
    state,      \* object -> the number of its last change at Home Assistant
    enabled,    \* the objects Home Assistant reports
    online,
    journaled,  \* object -> the changes in the journal
    heard,      \* object -> the newest change under the provider's truth key
    known,      \* object -> the newest change under the home's truth key
    node,       \* object -> its node of the graph
    rooms,      \* object -> where it is installed
    once,       \* object -> where its commissioning has installed it
    zoned,      \* the zone of the trackers stands
    reconciling,\* who holds the lock of reconcile
    live,       \* the event on its way through the connection's own thread
    setup,      \* the ZHA flow: the step the plugin has seen, and Home Assistant's
    call,       \* thread -> its request
    ready,      \* history: the objects whose commissioning was told done
    blind,      \* history: those whose commissioning did not reconcile
    again,      \* history: those commissioned while they stood elsewhere
    told,       \* the last answer to a power request, and what had become of it
    unsure,     \* history: requests of the flow have overlapped, or one was lost
    calls, faults

heardVars == <<journaled, heard, known>>
graphVars == <<node, rooms, once, zoned>>
linkVars == <<state, enabled, online, live>>
noteVars == <<ready, blind, again, told, unsure>>
homeVars == <<linkVars, heardVars, graphVars, reconciling, setup, call, noteVars, calls, faults>>

Objects == Devices \cup Trackers
Steps == <<"choose_serial_port", "manual_port_config", "confirm", "create_entry">>
Idle == [at |-> "idle", op |-> None, object |-> None, place |-> None, seen |-> [o \in Objects |-> 0],
         step |-> 0, applied |-> FALSE, then |-> None]

Init ==
    /\ state = [o \in Objects |-> 1] /\ enabled = Devices /\ online = TRUE
    /\ journaled = [o \in Objects |-> IF o \in Devices THEN {1} ELSE {}]
    /\ heard = [o \in Objects |-> IF o \in Devices THEN 1 ELSE 0]
    /\ known = [o \in Objects |-> 0]
    /\ node = [o \in Objects |-> "none"] /\ rooms = [o \in Objects |-> {}]
    /\ once = [o \in Objects |-> {}] /\ zoned = FALSE
    /\ reconciling = None /\ live = None
    /\ setup = [open |-> FALSE, seen |-> 0, step |-> 0]
    /\ call = [t \in Threads |-> Idle]
    /\ ready = {} /\ blind = {} /\ again = {} /\ unsure = FALSE
    /\ told = [outcome |-> None, applied |-> FALSE, broken |-> FALSE]
    /\ calls = 0 /\ faults = 0

Starts(t, c) == call[t] = Idle /\ calls < MaxCalls /\ calls' = calls + 1 /\ call' = [call EXCEPT ![t] = c]
Goes(t, c) == call' = [call EXCEPT ![t] = c] /\ UNCHANGED calls
Fault == faults < MaxFaults /\ faults' = faults + 1
Newer(i, j) == IF i > j THEN i ELSE j

(**************************** What is heard of it **************************)
\* _truth_key: a mapped entity's truth is the home's.
Mapped(o) == node[o] = "standing"

\* The journal names an observation by what was observed, not by where it goes:
\* what is known already is not projected again.
Ingested(o, n, home) ==
    IF n = 0 \/ n \in journaled[o] THEN UNCHANGED heardVars
    ELSE /\ journaled' = [journaled EXCEPT ![o] = @ \cup {n}]
         /\ heard' = IF home THEN heard ELSE [heard EXCEPT ![o] = Newer(@, n)]
         /\ known' = IF home THEN [known EXCEPT ![o] = Newer(@, n)] ELSE known

\* A reported object changes, and the connection's thread normalises the event
\* under the key it has now; it is taken in afterwards.
Change(o) ==
    /\ o \in enabled /\ state[o] < MaxChanges /\ live = None
    /\ state' = [state EXCEPT ![o] = @ + 1]
    /\ live' = IF online THEN [object |-> o, n |-> state[o] + 1, home |-> Mapped(o)] ELSE None
    /\ UNCHANGED <<enabled, online, heardVars, graphVars, reconciling, setup, call, noteVars, calls, faults>>
TakeIn ==
    /\ live # None /\ live' = None
    /\ Ingested(live.object, live.n, live.home)
    /\ UNCHANGED <<state, enabled, online, graphVars, reconciling, setup, call, noteVars, calls, faults>>

\* The connection drops; a new one begins with a snapshot.
Drop ==
    /\ online /\ Fault /\ online' = FALSE
    /\ UNCHANGED <<state, enabled, live, heardVars, graphVars, reconciling, setup, call, noteVars, calls>>
Merged(seen, objects) ==
    LET new == {o \in objects : seen[o] # 0 /\ seen[o] \notin journaled[o]} IN
    /\ journaled' = [o \in Objects |-> IF o \in new THEN journaled[o] \cup {seen[o]} ELSE journaled[o]]
    /\ heard' = [o \in Objects |-> IF o \in new /\ ~Mapped(o) THEN Newer(heard[o], seen[o]) ELSE heard[o]]
    /\ known' = [o \in Objects |-> IF o \in new /\ Mapped(o) THEN Newer(known[o], seen[o]) ELSE known[o]]
Return ==
    /\ ~online /\ online' = TRUE
    /\ Merged(state, enabled)
    /\ UNCHANGED <<state, enabled, live, graphVars, reconciling, setup, call, noteVars, calls, faults>>

\* What a request goes on with when its reconcile returns.
Resumed(c) == IF c.then = "done" THEN Idle ELSE [c EXCEPT !.at = c.then, !.seen = Idle.seen]

\* reconcile gives way to another that runs, fails offline, and takes in a
\* snapshot, under the keys of the time it does.
Reconcile(t) ==
    LET c == call[t] IN
    /\ c.at = "reconcile"
    /\ \/ /\ reconciling # None
          /\ Goes(t, Resumed(c))
          /\ blind' = blind \cup (IF c.then = "seed" THEN {c.object} ELSE {})
          /\ UNCHANGED reconciling
       \/ /\ reconciling = None /\ ~online /\ Goes(t, Idle) /\ UNCHANGED <<reconciling, blind>>
       \/ /\ reconciling = None /\ online /\ reconciling' = t
          /\ Goes(t, [c EXCEPT !.at = "apply", !.seen = [o \in Objects |-> IF o \in enabled THEN state[o] ELSE 0]])
          /\ UNCHANGED blind
    /\ UNCHANGED <<linkVars, heardVars, graphVars, setup, ready, again, told, unsure, faults>>
Apply(t) ==
    LET c == call[t] IN
    /\ c.at = "apply" /\ reconciling' = None
    /\ IF online THEN Merged(c.seen, enabled) /\ Goes(t, Resumed(c))
       ELSE Goes(t, Idle) /\ UNCHANGED heardVars
    /\ UNCHANGED <<linkVars, graphVars, setup, noteVars, faults>>

(******************************* Commissioning *****************************)
\* The place stands and the object is in the inventory; a tracker is enabled
\* first, and its zone found or made.
Commission(t, o, place) ==
    LET c == [Idle EXCEPT !.op = "commission", !.object = o, !.place = place] IN
    /\ online \/ o \in Trackers
    /\ o \in Devices <=> place # Zone
    /\ Starts(t, IF o \in Devices THEN [c EXCEPT !.at = "commit"]
                 ELSE IF o \in enabled THEN [c EXCEPT !.at = "zone"]
                 ELSE [c EXCEPT !.at = "enable"])
    /\ UNCHANGED <<linkVars, heardVars, graphVars, reconciling, setup, noteVars, faults>>
Enable(t) ==
    /\ call[t].at = "enable"
    /\ IF online THEN /\ enabled' = enabled \cup {call[t].object}
                      /\ Goes(t, [call[t] EXCEPT !.at = "reconcile", !.then = "zone"])
       ELSE Goes(t, Idle) /\ UNCHANGED enabled
    /\ UNCHANGED <<state, online, live, heardVars, graphVars, reconciling, setup, noteVars, faults>>
FindZone(t) ==
    /\ call[t].at = "zone"
    /\ Goes(t, [call[t] EXCEPT !.at = IF zoned THEN "commit" ELSE "makezone"])
    /\ UNCHANGED <<linkVars, heardVars, graphVars, reconciling, setup, noteVars, faults>>
MakeZone(t) ==
    /\ call[t].at = "makezone" /\ zoned' = TRUE
    /\ Goes(t, IF zoned THEN Idle ELSE [call[t] EXCEPT !.at = "commit"])
    /\ UNCHANGED <<linkVars, heardVars, node, rooms, once, reconciling, setup, noteVars, faults>>

\* A mutant: what is commissioned needs no look at the home.
Afterwards == "seed"

\* What follows the mapping.
After == "reconcile"

\* graph.commission is one transaction.  The document's rows have the names of
\* the object and the place: what was retired is not inserted again.
Insertable(o) == node[o] # "retired"
Inserts(c) == Insertable(c.object) /\ (c.place \in rooms[c.object] \/ c.place \notin once[c.object])
Commit(t) ==
    LET c == call[t] o == c.object IN
    /\ c.at = "commit"
    /\ IF Inserts(c)
       THEN /\ node' = [node EXCEPT ![o] = "standing"]
            /\ rooms' = [rooms EXCEPT ![o] = @ \cup {c.place}] /\ once' = [once EXCEPT ![o] = @ \cup {c.place}]
            /\ again' = IF rooms[o] \subseteq {c.place} THEN again ELSE again \cup {o}
            /\ blind' = IF node[o] = "none" THEN blind \ {o} ELSE blind
            /\ Goes(t, [c EXCEPT !.at = After, !.then = "seed"])
       ELSE Goes(t, Idle) /\ UNCHANGED <<node, rooms, once, again, blind>>
    /\ UNCHANGED <<linkVars, heardVars, zoned, reconciling, setup, ready, told, unsure, faults>>

\* A mutant: the provider's observation stays where it is.
Unattributed(o) == known[o]

\* seed_commissioned_truth: the provider's observation becomes the home's too.
Attributed(o) == IF Mapped(o) THEN Newer(known[o], heard[o]) ELSE known[o]

\* The last of the request is an inspection, which needs the connection.
Seed(t) ==
    LET c == call[t] IN
    /\ c.at = "seed" /\ Goes(t, Idle)
    /\ known' = [known EXCEPT ![c.object] = Attributed(c.object)]
    /\ ready' = IF (online \/ c.object \in Trackers) /\ Mapped(c.object) THEN ready \cup {c.object} ELSE ready
    /\ UNCHANGED <<linkVars, journaled, heard, graphVars, reconciling, setup, blind, again, told, unsure, faults>>

\* A device installed in two places cannot be moved.
Single(o) == \E place \in Places : rooms[o] = {place}

\* move_resource and retire_resource, each one transaction.
Move(t, o, place) ==
    /\ calls < MaxCalls /\ calls' = calls + 1 /\ call[t] = Idle
    /\ Mapped(o) /\ Single(o) /\ place \notin rooms[o] \cup {Zone}
    /\ rooms' = [rooms EXCEPT ![o] = {place}]
    /\ UNCHANGED <<linkVars, heardVars, node, once, zoned, reconciling, setup, call, noteVars, faults>>
Remove(t, o) ==
    /\ calls < MaxCalls /\ calls' = calls + 1 /\ call[t] = Idle
    /\ Mapped(o) /\ node' = [node EXCEPT ![o] = "retired"] /\ rooms' = [rooms EXCEPT ![o] = {}]
    /\ ready' = ready \ {o}
    /\ UNCHANGED <<linkVars, heardVars, once, zoned, reconciling, setup, call, blind, again, told, unsure, faults>>

\* refresh_inventory.
Refresh(t) ==
    /\ Starts(t, [Idle EXCEPT !.at = "reconcile", !.op = "refresh", !.then = "done"])
    /\ UNCHANGED <<linkVars, heardVars, graphVars, reconciling, setup, noteVars, faults>>

(********************************** Power **********************************)
\* set_power finds the one entity and sends, unless it cannot.
Power(t, o) ==
    /\ Mapped(o) /\ o \in Devices
    /\ Starts(t, IF online THEN [Idle EXCEPT !.at = "power", !.op = "power", !.object = o] ELSE Idle)
    /\ told' = IF online THEN told ELSE [outcome |-> "UNKNOWN_RESULT", applied |-> FALSE, broken |-> FALSE]
    /\ UNCHANGED <<linkVars, heardVars, graphVars, reconciling, setup, ready, blind, again, unsure, faults>>

\* A mutant: whatever the call raises is a failure of the service.
FailedOf(answer) == IF answer = "ok" THEN None ELSE "SERVICE_FAILED"

\* What the answer of the service call, or its lack, is told as.
OutcomeOf(answer) == CASE answer = "ok" -> None
                       [] answer = "late" -> "UNKNOWN_RESULT"
                       [] OTHER -> "SERVICE_FAILED"

\* Home Assistant switches it or refuses; the answer may come late, or not at
\* all when the connection breaks meanwhile.
Serve(t) ==
    LET c == call[t] IN
    /\ c.at = "power"
    /\ \E answer \in {"ok", "late", "refused", "broken"}, applied \in BOOLEAN :
         /\ answer = "ok" => applied
         /\ answer = "refused" => ~applied
         /\ IF answer \in {"late", "broken"} THEN Fault ELSE UNCHANGED faults
         /\ LET outcome == OutcomeOf(answer) IN
            /\ Goes(t, IF outcome = None THEN [c EXCEPT !.at = "verify", !.applied = applied] ELSE Idle)
            /\ told' = IF outcome = None THEN told
                       ELSE [outcome |-> outcome, applied |-> applied, broken |-> answer = "broken"]
    /\ UNCHANGED <<linkVars, heardVars, graphVars, reconciling, setup, ready, blind, again, unsure>>

\* It is read until it is as requested, or the time for that is over.
Verify(t) ==
    LET c == call[t] IN
    /\ c.at = "verify" /\ Goes(t, Idle)
    /\ \/ /\ told' = [outcome |-> "SUCCESS", applied |-> TRUE, broken |-> FALSE]
          /\ Ingested(c.object, state[c.object], Mapped(c.object))
       \/ /\ told' = [outcome |-> "VERIFICATION_FAILED", applied |-> TRUE, broken |-> FALSE]
          /\ UNCHANGED heardVars
    /\ UNCHANGED <<linkVars, graphVars, reconciling, setup, ready, blind, again, unsure, faults>>

(****************************** The ZHA set-up *****************************)
StartSetup(t) ==
    /\ online /\ ~setup.open /\ Starts(t, Idle)
    /\ setup' = [open |-> TRUE, seen |-> 1, step |-> 1]
    /\ UNCHANGED <<linkVars, heardVars, graphVars, reconciling, noteVars, faults>>

\* The input is checked against the step the plugin has seen last.
Continue(t) ==
    /\ setup.open /\ online
    /\ Starts(t, [Idle EXCEPT !.at = "continue", !.op = "setup", !.step = setup.seen])
    /\ unsure' = (unsure \/ \E u \in Threads : call[u].op = "setup")
    /\ UNCHANGED <<linkVars, heardVars, graphVars, reconciling, setup, ready, blind, again, told, faults>>

\* Home Assistant goes on when the input is its step's, and shows its step anew
\* when not; its answer may be lost.
Advance(t) ==
    LET c == call[t] step == IF c.step = setup.step THEN setup.step + 1 ELSE setup.step IN
    /\ c.at = "continue" /\ setup.step < Len(Steps)
    /\ setup' = [setup EXCEPT !.step = step]
    /\ \/ Goes(t, [c EXCEPT !.at = "project", !.step = step]) /\ UNCHANGED <<unsure, faults>>
       \/ Fault /\ unsure' = TRUE /\ Goes(t, Idle)
    /\ UNCHANGED <<linkVars, heardVars, graphVars, reconciling, ready, blind, again, told>>

\* A mutant: the step of the first form is kept.
KeepsStep(step) == [setup EXCEPT !.open = step < Len(Steps)]

\* _project_zha_flow remembers the step, or forgets the flow at its end.
Projected(step) == [setup EXCEPT !.open = step < Len(Steps), !.seen = step]

Project(t) ==
    /\ call[t].at = "project"
    /\ Goes(t, IF call[t].step = Len(Steps) THEN [Idle EXCEPT !.at = "reconcile", !.then = "done"] ELSE Idle)
    /\ setup' = IF setup.open THEN Projected(call[t].step) ELSE setup
    /\ UNCHANGED <<linkVars, heardVars, graphVars, reconciling, noteVars, faults>>

Next ==
    \/ TakeIn \/ Drop \/ Return
    \/ \E o \in Objects : Change(o)
    \/ \E t \in Threads :
         \/ Reconcile(t) \/ Apply(t) \/ Refresh(t)
         \/ Enable(t) \/ FindZone(t) \/ MakeZone(t) \/ Commit(t) \/ Seed(t)
         \/ Serve(t) \/ Verify(t) \/ StartSetup(t) \/ Continue(t) \/ Advance(t) \/ Project(t)
         \/ \E o \in Objects :
              \/ Remove(t, o) \/ Power(t, o)
              \/ \E place \in Places : Commission(t, o, place) \/ Move(t, o, place)

Spec == Init /\ [][Next]_homeVars

(******************************** Properties *******************************)
HomeTypeOK ==
    /\ \A o \in Objects : node[o] \in {"none", "standing", "retired"} /\ rooms[o] \subseteq Places
    /\ \A o \in Objects : known[o] \in {0} \cup journaled[o] /\ heard[o] \in {0} \cup journaled[o]
    /\ reconciling \in Threads \cup {None} /\ setup.step \in 0..Len(Steps)

\* Once an object's commissioning is told done, the home knows the newest of
\* what the journal has of it, though what was heard before and during it went
\* to the provider's key; unless another reconciliation ran, and its own did not.
TruthFollowsBinding ==
    \A o \in ready \ blind : \A n \in journaled[o] : n <= known[o]

\* A device that stands is somewhere, and in one place, unless it was
\* commissioned elsewhere while it stood; what is retired is nowhere.
DeviceIsPlaced ==
    \A o \in Objects :
        /\ node[o] = "standing" => rooms[o] # {}
        /\ node[o] # "standing" => rooms[o] = {}
        /\ o \notin again => \A p, q \in rooms[o] : p = q

\* A request to switch that is told as failed has not switched anything, unless
\* the connection broke under it.
NotDoneIsNotDone ==
    told.outcome = "SERVICE_FAILED" => ~told.applied \/ told.broken

\* Between requests the step the owner is asked for is the step at which Home
\* Assistant waits, unless two requests overlapped or an answer was lost.
StepIsKnown ==
    (setup.open /\ ~unsure /\ \A t \in Threads : call[t].op # "setup") => setup.seen = setup.step
=============================================================================
