------------------------- MODULE HomeAssistantLink -------------------------
(* The adapter of Home Assistant: its connection, whose events are handled on *)
(* one event loop thread, and the threads that use it - the one that starts   *)
(* or reconnects it, the health monitor, the worker that follows registry     *)
(* changes, and an owner who refreshes the inventory                          *)
(* (src/anima_ha/home_assistant.py).  A state change that matches an          *)
(* automation runs its action on the thread that handles the event            *)
(* (src/anima_ha/automations.py, ui_runtime.py).                              *)
EXTENDS Naturals, Sequences

CONSTANTS MaxChanges,   \* registry changes in Home Assistant
          MaxTriggers,  \* state changes that match an automation
          MaxStarts,    \* connections: the first and the reconnects
          MaxDrops,     \* connections lost
          MaxRefreshes  \* refresh_inventory calls of the owner

VARIABLES
    home,      \* Home Assistant: its registry's version, what it has sent
    link,      \* the connection: open, buffering, its wire and its buffer
    loop,      \* the connection's thread: "free" or "blocked" in a callback
    adapter,   \* health, _enabled, _transport_online, monitor, connections
    starter,   \* the thread in start(): its phase, snapshot and buffered events
    rec,       \* reconcile() of the worker and of the owner
    registry,  \* _registry_dirty, threads started for it, the worker lock
    inventory, \* the version of the registry the inventory store holds
    missed,    \* a reconciliation failed or was passed over since the last one done
    outcomes   \* what the actions of the automations came to

haVars == <<home, link, loop, adapter, starter, rec, registry, inventory, missed, outcomes>>

Users == {"worker", "owner"}
Idle == [phase |-> "idle", snap |-> 0, conn |-> 0]
Closed == [open |-> FALSE, lost |-> FALSE, buffering |-> TRUE, wire |-> <<>>, buffer |-> <<>>]

Init ==
    /\ home = [version |-> 0, triggers |-> 0, drops |-> 0, refreshes |-> 0]
    /\ link = Closed
    /\ loop = "free"
    /\ adapter = [health |-> "STARTING", enabled |-> FALSE, online |-> FALSE,
                  monitor |-> FALSE, conn |-> 0]
    /\ starter = [phase |-> "idle", snap |-> 0, drain |-> <<>>]
    /\ rec = [u \in Users |-> Idle]
    /\ registry = [dirty |-> FALSE, spawned |-> 0, tails |-> 0, worker |-> "none"]
    /\ inventory = 0
    /\ missed = FALSE
    /\ outcomes = {}

(****************************** Home Assistant *****************************)
Send(event) == link' = IF link.open THEN [link EXCEPT !.wire = Append(@, event)] ELSE link

ChangeRegistry ==
    /\ home.version < MaxChanges
    /\ home' = [home EXCEPT !.version = @ + 1]
    /\ Send("registry")
    /\ UNCHANGED <<loop, adapter, starter, rec, registry, inventory, missed, outcomes>>

ChangeState ==
    /\ home.triggers < MaxTriggers /\ link.open
    /\ home' = [home EXCEPT !.triggers = @ + 1]
    /\ Send("trigger")
    /\ UNCHANGED <<loop, adapter, starter, rec, registry, inventory, missed, outcomes>>

Drop ==
    /\ link.open /\ home.drops < MaxDrops
    /\ home' = [home EXCEPT !.drops = @ + 1]
    /\ link' = [link EXCEPT !.open = FALSE, !.lost = TRUE, !.wire = <<>>]
    /\ UNCHANGED <<loop, adapter, starter, rec, registry, inventory, missed, outcomes>>

(************************* Handling one event ******************************)
Health(h) == [adapter EXCEPT !.health = h]

\* The tail of _handle_event.
Received == IF adapter.online /\ link.open THEN Health("ONLINE") ELSE adapter

\* A registry event sets the flag and starts a thread for it.
Dirtied(r) == [r EXCEPT !.dirty = TRUE, !.spawned = @ + 1]

Heard == adapter.enabled /\ adapter.online

\* The loop takes an event off the wire: into the buffer until activate().
Buffer ==
    /\ loop = "free" /\ link.wire # <<>> /\ link.buffering
    /\ link' = [link EXCEPT !.wire = Tail(@), !.buffer = Append(@, Head(link.wire))]
    /\ UNCHANGED <<home, loop, adapter, starter, rec, registry, inventory, missed, outcomes>>

\* The action of an automation starts with a read of the latest state: the
\* callback blocks the loop that would have to serve it.
HandleOnLoop ==
    /\ loop = "free" /\ link.wire # <<>> /\ ~link.buffering
    /\ link' = [link EXCEPT !.wire = Tail(@)]
    /\ IF ~Heard THEN UNCHANGED <<loop, adapter, registry>>
       ELSE IF Head(link.wire) = "registry"
       THEN /\ registry' = Dirtied(registry) /\ adapter' = Received
            /\ UNCHANGED loop
       ELSE /\ loop' = "blocked"
            /\ UNCHANGED <<adapter, registry>>
    /\ UNCHANGED <<home, starter, rec, inventory, missed, outcomes>>

\* The read times out: the action is recorded UNKNOWN_RESULT and the callback returns.
Unblock ==
    /\ loop = "blocked"
    /\ loop' = "free"
    /\ outcomes' = outcomes \cup {"UNKNOWN_RESULT"}
    /\ adapter' = Received
    /\ UNCHANGED <<home, link, starter, rec, registry, inventory, missed>>

(********************** Losing the connection ******************************)
\* disconnected(): ignored when disabled or already offline.
NoticesLoss == adapter.enabled /\ (adapter.online \/ adapter.health # "OFFLINE")
Offline == [adapter EXCEPT !.online = FALSE, !.health = "OFFLINE"]

ListenerDone ==
    /\ link.lost /\ loop = "free"
    /\ link' = [link EXCEPT !.lost = FALSE]
    /\ IF NoticesLoss
       THEN /\ adapter' = Offline
            /\ registry' = [registry EXCEPT !.dirty = FALSE]
       ELSE UNCHANGED <<adapter, registry>>
    /\ UNCHANGED <<home, loop, starter, rec, inventory, missed, outcomes>>

\* The monitor's ping fails on a lost connection, and behind a blocked loop.
PingFails ==
    /\ adapter.monitor /\ adapter.enabled
    /\ ~link.open \/ loop = "blocked"
    /\ adapter' = [(IF NoticesLoss THEN Offline ELSE adapter) EXCEPT !.monitor = FALSE]
    /\ registry' = IF NoticesLoss THEN [registry EXCEPT !.dirty = FALSE] ELSE registry
    /\ UNCHANGED <<home, link, loop, starter, rec, inventory, missed, outcomes>>

(************************* start() and reconnect() *************************)
\* reconnect() stops the monitor and the old connection first.
Start ==
    /\ starter.phase = "idle" /\ adapter.conn < MaxStarts
    /\ loop = "free" /\ ~link.lost
    /\ adapter' = [health |-> "CONNECTING", enabled |-> TRUE, online |-> FALSE,
                   monitor |-> FALSE, conn |-> adapter.conn + 1]
    /\ link' = Closed
    /\ starter' = [starter EXCEPT !.phase = "connecting"]
    /\ UNCHANGED <<home, loop, rec, registry, inventory, missed, outcomes>>

\* Connected and subscribed; the snapshot follows.
Connect ==
    /\ starter.phase = "connecting"
    /\ link' = [link EXCEPT !.open = TRUE]
    /\ starter' = [starter EXCEPT !.phase = "subscribed"]
    /\ UNCHANGED <<home, loop, adapter, rec, registry, inventory, missed, outcomes>>

\* No connection, an authentication failure, or the link lost before the snapshot.
StartFails ==
    /\ \/ starter.phase = "connecting"
       \/ starter.phase = "subscribed" /\ ~link.open
    /\ \E health \in {"OFFLINE", "AUTH_FAILED"} :
         adapter' = [adapter EXCEPT !.online = FALSE, !.health = health]
    /\ starter' = [starter EXCEPT !.phase = "idle"]
    /\ UNCHANGED <<home, link, loop, rec, registry, inventory, missed, outcomes>>

FirstSnapshot ==
    /\ starter.phase = "subscribed" /\ link.open
    /\ starter' = [starter EXCEPT !.phase = "applying", !.snap = home.version]
    /\ UNCHANGED <<home, link, loop, adapter, rec, registry, inventory, missed, outcomes>>

\* _apply_snapshot: the inventory, then the status unless it went OFFLINE meanwhile.
Reconciling == IF adapter.online \/ adapter.health = "CONNECTING"
               THEN Health("RECONCILING") ELSE adapter

FirstApply ==
    /\ starter.phase = "applying"
    /\ inventory' = starter.snap
    /\ missed' = FALSE
    /\ adapter' = Reconciling
    /\ starter' = [starter EXCEPT !.phase = "activating"]
    /\ UNCHANGED <<home, link, loop, rec, registry, outcomes>>

Activate ==
    /\ starter.phase = "activating"
    /\ adapter' = [adapter EXCEPT !.online = TRUE]
    /\ link' = [link EXCEPT !.buffering = FALSE, !.buffer = <<>>]
    /\ starter' = [starter EXCEPT !.phase = "draining", !.drain = link.buffer]
    /\ UNCHANGED <<home, loop, rec, registry, inventory, missed, outcomes>>

\* The buffered events are handled by the thread in start(): here the loop is
\* another thread, and the read of an action is served unless the link is lost
\* or the loop is blocked.
Drain ==
    /\ starter.phase = "draining" /\ starter.drain # <<>>
    /\ starter' = [starter EXCEPT !.drain = Tail(@)]
    /\ IF ~Heard THEN UNCHANGED <<adapter, registry, outcomes>>
       ELSE /\ adapter' = Received
            /\ IF Head(starter.drain) = "registry"
               THEN registry' = Dirtied(registry) /\ UNCHANGED outcomes
               ELSE /\ outcomes' = outcomes \cup
                         (IF link.open /\ loop = "free" THEN {"OBSERVED"} ELSE {"UNKNOWN_RESULT"})
                    /\ UNCHANGED registry
    /\ UNCHANGED <<home, link, loop, rec, inventory, missed>>

Started ==
    /\ starter.phase = "draining" /\ starter.drain = <<>>
    /\ adapter' = [adapter EXCEPT !.health = "ONLINE", !.monitor = TRUE]
    /\ starter' = [starter EXCEPT !.phase = "idle"]
    /\ UNCHANGED <<home, link, loop, rec, registry, inventory, missed, outcomes>>

\* stop() waits for start(); its own close is served by the loop.
Stop ==
    /\ starter.phase = "idle" /\ adapter.enabled /\ loop = "free" /\ ~link.lost
    /\ adapter' = [adapter EXCEPT !.enabled = FALSE, !.online = FALSE, !.monitor = FALSE,
                                  !.health = "OFFLINE"]
    /\ link' = Closed
    /\ registry' = [registry EXCEPT !.dirty = FALSE]
    /\ UNCHANGED <<home, loop, starter, rec, inventory, missed, outcomes>>

(************************** Registry changes *******************************)
\* A started thread takes the worker lock or returns: another one is at work.
WorkerEnters ==
    /\ registry.spawned > 0
    /\ registry' = [registry EXCEPT !.spawned = @ - 1,
                                    !.worker = IF @ = "none" THEN "loop" ELSE @]
    /\ UNCHANGED <<home, link, loop, adapter, starter, rec, inventory, missed, outcomes>>

WorkerClears ==
    /\ registry.worker = "loop" /\ registry.dirty
    /\ registry' = [registry EXCEPT !.dirty = FALSE, !.worker = "asleep"]
    /\ UNCHANGED <<home, link, loop, adapter, starter, rec, inventory, missed, outcomes>>

WorkerLeaves ==
    /\ registry.worker = "loop" /\ ~registry.dirty
    /\ registry' = [registry EXCEPT !.worker = "leaving"]
    /\ UNCHANGED <<home, link, loop, adapter, starter, rec, inventory, missed, outcomes>>

\* It releases its lock, then looks at the flag once more.
WorkerReleases ==
    /\ registry.worker = "leaving"
    /\ registry' = [registry EXCEPT !.worker = "none", !.tails = @ + 1]
    /\ UNCHANGED <<home, link, loop, adapter, starter, rec, inventory, missed, outcomes>>

\* A mutant: a worker that trusts its last look at the flag.
NeverAgain == FALSE

Again == registry.dirty

WorkerLooksAgain ==
    /\ registry.tails > 0
    /\ registry' = [registry EXCEPT !.tails = @ - 1,
                                    !.spawned = IF Again THEN @ + 1 ELSE @]
    /\ UNCHANGED <<home, link, loop, adapter, starter, rec, inventory, missed, outcomes>>

(****************************** reconcile() ********************************)
Locked == \E u \in Users : rec[u].phase # "idle"
Called(u) == IF u = "worker" THEN registry.worker = "asleep"
             ELSE adapter.enabled /\ home.refreshes < MaxRefreshes /\ rec[u] = Idle
Count(u) == home' = IF u = "owner" THEN [home EXCEPT !.refreshes = @ + 1] ELSE home

\* What the worker does after reconcile(), returned or raised.
Resume(u) == registry' = IF u = "worker" THEN [registry EXCEPT !.worker = "loop"] ELSE registry

\* The worker reports a failure unless the adapter is OFFLINE; an owner gets the exception.
Fail(u) ==
    /\ rec' = [rec EXCEPT ![u] = Idle]
    /\ Resume(u)
    /\ IF u = "worker" /\ adapter.enabled /\ adapter.health # "OFFLINE"
       THEN adapter' = Health("DEGRADED") /\ missed' = TRUE
       ELSE UNCHANGED adapter /\ missed' = (missed \/ u = "owner")

\* Another reconciliation holds the lock: this one returns as if it were done.
Skip(u) ==
    /\ Called(u) /\ Locked
    /\ Count(u) /\ Resume(u)
    /\ missed' = (missed \/ u = "worker")
    /\ UNCHANGED <<link, loop, adapter, starter, rec, inventory, outcomes>>

Begin(u) ==
    /\ Called(u) /\ ~Locked
    /\ Count(u)
    /\ IF link.open /\ adapter.online
       THEN /\ rec' = [rec EXCEPT ![u] = [phase |-> "taking", snap |-> 0, conn |-> adapter.conn]]
            /\ adapter' = Health("RECONCILING")
            /\ registry' = IF u = "worker" THEN [registry EXCEPT !.worker = "busy"] ELSE registry
            /\ UNCHANGED missed
       ELSE Fail(u)
    /\ UNCHANGED <<link, loop, starter, inventory, outcomes>>

Usable(u) == adapter.enabled /\ adapter.online /\ rec[u].conn = adapter.conn /\ link.open

\* connection.snapshot(): of a connection that was stopped or lost, or whose
\* loop is blocked, it raises.
Snapshot(u) ==
    /\ rec[u].phase = "taking"
    /\ \/ /\ rec[u].conn = adapter.conn /\ link.open /\ loop = "free"
          /\ rec' = [rec EXCEPT ![u].phase = "taken", ![u].snap = home.version]
          /\ UNCHANGED <<adapter, registry, missed>>
       \/ /\ rec[u].conn # adapter.conn \/ ~link.open \/ loop = "blocked"
          /\ Fail(u)
    /\ UNCHANGED <<home, link, loop, starter, inventory, outcomes>>

\* Each check is followed by work that takes its time.
Check(u, from, to) ==
    /\ rec[u].phase = from
    /\ IF Usable(u)
       THEN /\ rec' = [rec EXCEPT ![u].phase = to]
            /\ UNCHANGED <<adapter, registry, missed>>
       ELSE Fail(u)
    /\ UNCHANGED <<home, link, loop, starter, inventory, outcomes>>

Apply(u) ==
    /\ rec[u].phase = "checked"
    /\ inventory' = rec[u].snap
    /\ adapter' = Reconciling
    /\ rec' = [rec EXCEPT ![u].phase = "applied"]
    /\ UNCHANGED <<home, link, loop, starter, registry, missed, outcomes>>

Reconciled(u) ==
    /\ rec[u].phase = "audited"
    /\ adapter' = Health("ONLINE")
    /\ missed' = (missed /\ u # "worker")
    /\ rec' = [rec EXCEPT ![u] = Idle]
    /\ Resume(u)
    /\ UNCHANGED <<home, link, loop, starter, inventory, outcomes>>

Reconcile(u) ==
    \/ Skip(u) \/ Begin(u) \/ Snapshot(u) \/ Check(u, "taken", "checked")
    \/ Apply(u) \/ Check(u, "applied", "audited") \/ Reconciled(u)

Next ==
    \/ ChangeRegistry \/ ChangeState \/ Drop
    \/ Buffer \/ HandleOnLoop \/ Unblock \/ ListenerDone \/ PingFails
    \/ Start \/ Connect \/ StartFails \/ FirstSnapshot \/ FirstApply \/ Activate
    \/ Drain \/ Started \/ Stop
    \/ WorkerEnters \/ WorkerClears \/ WorkerLeaves \/ WorkerReleases \/ WorkerLooksAgain
    \/ \E u \in Users : Reconcile(u)

Spec == Init /\ [][Next]_haVars

(******************************* Properties ********************************)
\* Nothing that would still change the inventory is under way.
Quiet ==
    /\ starter.phase = "idle" /\ link.wire = <<>> /\ ~link.lost /\ loop = "free"
    /\ registry.worker = "none" /\ registry.spawned = 0 /\ registry.tails = 0
    /\ rec["owner"] = Idle

\* A registry change is followed by the inventory unless a reconciliation
\* failed, which is journaled or raised, or was passed over for an owner's: also
\* for a change that arrives while the worker reconciles, while it releases its
\* lock, while the connection starts, and while a connection is lost and
\* replaced (_reconcile_registry_changes).
ChangesAreFollowed ==
    Quiet /\ adapter.health = "ONLINE" /\ adapter.online /\ link.open =>
        inventory = home.version \/ missed

\* An automation's action starts from a fresh observation of Home Assistant
\* while Home Assistant answers (docs/GOAL-AUTOMATION-MANAGEMENT-017A.md:7-13).
TriggersAreObserved == home.drops = 0 => "UNKNOWN_RESULT" \notin outcomes

LinkTypeOK ==
    /\ home \in [version : 0..MaxChanges, triggers : 0..MaxTriggers, drops : 0..MaxDrops,
                 refreshes : 0..MaxRefreshes]
    /\ adapter \in [health : {"STARTING", "CONNECTING", "AUTH_FAILED", "RECONCILING", "ONLINE",
                              "DEGRADED", "OFFLINE"},
                    enabled : BOOLEAN, online : BOOLEAN, monitor : BOOLEAN, conn : 0..MaxStarts]
    /\ loop \in {"free", "blocked"}
    /\ inventory \in 0..MaxChanges
    /\ \A u \in Users : rec[u].phase \in
         {"idle", "taking", "taken", "checked", "applied", "audited"}
    /\ registry.worker \in {"none", "loop", "asleep", "busy", "leaving"}
=============================================================================
