--------------------------- MODULE PluginLifecycle ---------------------------
(* The life of one optional integration (src/anima_ha/plugins.py              *)
(* PluginManager, capability_management.py): Core registers it at its start   *)
(* and enables it unless the owner disabled it, the owner enables and         *)
(* disables it, and callers invoke its tools.  Handlers run in threads, and   *)
(* nothing but the database serialises them.  The assignments between two     *)
(* calls out of the manager (to the connector, the store, the journal) are    *)
(* one step.                                                                  *)
EXTENDS Naturals

CONSTANTS Threads,
          MaxAttempts,    \* restart_policy.max_attempts, at most 3
          MaxFaults,      \* calls that raise, and deaths of Core
          MaxRequests,    \* enable and disable requests of the owner
          None

VARIABLES
    plugin,     \* the RegisteredPlugin: state, enabled, whether it has its tools
    published,  \* its tools are in the manager's registry
    running,    \* its connector is started
    stored,     \* its row: the persisted enabled, None before the first save
    thread,     \* thread -> the operation it is in
    choice,     \* history: the owner's last answered choice
    excused,    \* history: what has come between the choice and the row
    bound       \* faults and requests so far

lifeVars == <<plugin, published, running, stored, thread, choice, excused, bound>>

Free == [at |-> "idle", op |-> None, attempt |-> 0, saving |-> None, wanted |-> None]

Init ==
    /\ plugin = [state |-> "REGISTERED", enabled |-> FALSE, tools |-> FALSE]
    /\ published = FALSE /\ running = FALSE
    /\ stored = None
    /\ thread = [t \in Threads |-> Free]
    /\ choice = TRUE /\ excused = {}
    /\ bound = [faults |-> 0, requests |-> 0, core |-> "down"]

Goto(t, at) == thread' = [thread EXCEPT ![t].at = at]
Quiet == \A t \in Threads : thread[t] = Free
Alone(t) == \A u \in Threads \ {t} : thread[u].op \notin {"enable", "disable"}
\* A call raises.
Fault == bound.faults < MaxFaults /\ bound' = [bound EXCEPT !.faults = @ + 1]

(******************************* The start *********************************)
\* A mutant: the choice is read after the registration has saved the plugin.
PersistedAfter == FALSE

\* register_and_enable: the persisted choice is read before the registration.
Persisted == stored

\* register() saves the plugin as REGISTERED and not enabled.
Register(t) ==
    /\ bound.core = "down" /\ thread[t] = Free
    /\ plugin' = [state |-> "REGISTERED", enabled |-> FALSE, tools |-> TRUE]
    /\ stored' = FALSE
    /\ thread' = IF Persisted = FALSE THEN thread
                 ELSE [thread EXCEPT ![t] = [Free EXCEPT !.at = "start", !.op = "enable",
                                                         !.attempt = 1]]
    /\ bound' = [bound EXCEPT !.core = "up"]
    /\ UNCHANGED <<published, running, choice, excused>>

\* set_integration_enabled, once the start is over.
Request(t, wanted) ==
    /\ bound.core = "up" /\ thread[t] = Free /\ bound.requests < MaxRequests
    /\ \A u \in Threads : thread[u].op # None => thread[u].wanted # None
    /\ bound' = [bound EXCEPT !.requests = @ + 1]
    /\ thread' = [thread EXCEPT ![t] = [Free EXCEPT !.wanted = wanted, !.attempt = 1,
                      !.op = IF wanted THEN "enable" ELSE "disable",
                      !.at = IF wanted THEN "start" ELSE "stop"]]
    /\ plugin' = [plugin EXCEPT !.state = IF wanted THEN "STARTING" ELSE "STOPPING"]
    \* disable() withdraws the tools that the plugin has, first of all.
    /\ published' = IF ~wanted /\ plugin.tools THEN FALSE ELSE published
    /\ excused' = IF Alone(t) THEN excused ELSE excused \cup {"overlap"}
    /\ UNCHANGED <<running, stored, choice>>

(******************************** enable() *********************************)
StartConnector(t) ==
    /\ thread[t].op = "enable" /\ thread[t].at = "start"
    /\ running' = TRUE
    /\ Goto(t, "publish")
    /\ UNCHANGED <<plugin, published, stored, choice, excused, bound>>

\* The tools it lists are validated, published, and the plugin is healthy.
Publish(t) ==
    /\ thread[t].at = "publish"
    /\ published' = TRUE
    /\ plugin' = [state |-> "HEALTHY", enabled |-> TRUE, tools |-> TRUE]
    /\ Goto(t, "save")
    /\ UNCHANGED <<running, stored, choice, excused, bound>>

\* The values of the row are taken from the object; the statement comes later.
TakeValues(t) ==
    /\ thread[t].at = "save"
    /\ thread' = [thread EXCEPT ![t].at = "write", ![t].saving = plugin.enabled]
    /\ UNCHANGED <<plugin, published, running, stored, choice, excused, bound>>

Save(t) ==
    /\ thread[t].at = "write"
    /\ stored' = thread[t].saving
    /\ Goto(t, "audit")
    /\ UNCHANGED <<plugin, published, running, choice, excused, bound>>

\* The audit event is journaled, and the owner is answered SUCCEEDED when the
\* plugin is as it was wanted.
Audit(t) ==
    LET answered == thread[t].wanted = plugin.enabled IN
    /\ thread[t].at = "audit"
    /\ thread' = [thread EXCEPT ![t] = Free]
    /\ choice' = IF answered THEN thread[t].wanted ELSE choice
    /\ excused' = IF answered /\ Alone(t) THEN excused \cap {"leaked", "overlap"}
                  ELSE IF thread[t].wanted = None THEN excused ELSE excused \cup {"refused"}
    /\ UNCHANGED <<plugin, published, running, stored, bound>>

\* A step of an attempt raises.  The plugin forgets its tools, but what was
\* published stays published; the connector is stopped; after the last attempt
\* the failure is saved.
AttemptFails(t) ==
    LET final == thread[t].attempt = MaxAttempts IN
    /\ thread[t].op = "enable" /\ thread[t].attempt > 0
    /\ Fault
    /\ plugin' = [state |-> IF final THEN "FAILED" ELSE "STARTING", enabled |-> FALSE, tools |-> FALSE]
    /\ running' = FALSE
    /\ excused' = excused \cup {"failed"} \cup IF published THEN {"leaked"} ELSE {}
    /\ thread' = [thread EXCEPT ![t].at = IF final THEN "save" ELSE "start",
                                ![t].attempt = IF final THEN 0 ELSE @ + 1]
    /\ UNCHANGED <<published, stored, choice>>

(******************************** disable() ********************************)
\* The connector's stop() may raise; the rest is in a finally.
StopConnector(t) ==
    /\ thread[t].at = "stop"
    /\ running' = FALSE
    /\ plugin' = [state |-> "DISABLED", enabled |-> FALSE, tools |-> FALSE]
    /\ Goto(t, "save")
    /\ UNCHANGED <<published, stored, choice, excused, bound>>

\* The store or the journal raises outside of an attempt: the handler fails.
SaveFails(t) ==
    /\ thread[t].at \in {"save", "write", "audit"}
    /\ thread[t].op = "disable" \/ thread[t].attempt = 0
    /\ Fault
    /\ thread' = [thread EXCEPT ![t] = Free]
    /\ excused' = excused \cup {"failed"}
    /\ UNCHANGED <<plugin, published, running, stored, choice>>

(******************************** The end **********************************)
\* Core dies or is stopped.  A start cut short leaves the row that register() wrote.
Die ==
    /\ bound.core = "up" /\ bound.faults < MaxFaults
    /\ bound' = [bound EXCEPT !.faults = @ + 1, !.core = "down"]
    /\ thread' = [t \in Threads |-> Free]
    /\ published' = FALSE /\ running' = FALSE
    /\ excused' = (excused \ {"leaked"}) \cup IF Quiet THEN {} ELSE {"died"}
    /\ UNCHANGED <<plugin, stored, choice>>

Next ==
    \/ \E t \in Threads :
         \/ Register(t) \/ \E wanted \in BOOLEAN : Request(t, wanted)
         \/ StartConnector(t) \/ Publish(t) \/ TakeValues(t) \/ Save(t) \/ Audit(t)
         \/ AttemptFails(t) \/ StopConnector(t) \/ SaveFails(t)
    \/ Die

Spec == Init /\ [][Next]_lifeVars

LifeTypeOK ==
    /\ plugin.state \in {"REGISTERED", "STARTING", "HEALTHY", "FAILED", "STOPPING", "DISABLED"}
    /\ stored \in BOOLEAN \cup {None}
    /\ \A t \in Threads : thread[t].at \in {"idle", "start", "publish", "save", "write", "audit", "stop"}
                          /\ thread[t].attempt \in 0..MaxAttempts

\* Across restarts an optional integration is as the owner last had it answered,
\* enabled if never asked, and its tools can be invoked exactly while it is
\* enabled: unless an attempt failed, Core died within a start or a request, or
\* two requests overlapped.
ChoiceSurvives ==
    bound.core = "up" /\ Quiet =>
        /\ excused = {} => plugin.enabled = choice /\ stored = choice
        /\ excused \cap {"leaked", "overlap"} = {} => (published <=> plugin.enabled)
=============================================================================
