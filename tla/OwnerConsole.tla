---------------------------- MODULE OwnerConsole ----------------------------
(* The owner's browser against the interface's process (ui/src/main.tsx,      *)
(* ui/src/SentryChat.tsx; src/anima_ha/ui_api.py UIEventBroadcaster, the      *)
(* events route, JournalConversationIngress and conversation_result;          *)
(* live_results.py; approval_results.py; ui_runtime.py                        *)
(* SentryConversationPipeline).                                               *)
(* A question is journaled and queued; its answer's words reach the interface *)
(* only through a bus that keeps nothing for long, while its lifecycle is     *)
(* durable and an approval may conclude it later; the browser asks again and  *)
(* again, and each answer is put together from up to four reads.  Meanwhile   *)
(* the page shows a snapshot, read section by section, and a stream of short  *)
(* life tells it when to take another.                                        *)
EXTENDS Naturals, Sequences, FiniteSets

CONSTANTS Chats,       \* questions that the owner may ask, one after the other
          Tabs,        \* tabs of the one session
          Sections,    \* what a snapshot is made of, besides "session"
          Results,     \* statuses of a worker's result
          Actions,     \* statuses in which an approved action may be found
          Capacity,    \* live connections of a session, 2
          Buffer,      \* MAX_SSE_BUFFER
          Names,       \* names of events
          Heard,       \* those that the page listens to
          Patience,    \* 30 s for the words of a completed answer
          Lifetime,    \* LIVE_RESULT_TTL_SECONDS
          MaxTime, MaxPolls, MaxFaults, MaxChanges,
          None

VARIABLES
    clock, faults,
    request,   \* chat -> its durable request
    unsaid,    \* chat -> the publications of it that are still to be made
    bus,       \* the interface's listener, and chat -> what it holds of it
    chat,      \* chat -> the browser's side, and the reply being put together
    missed,    \* history: chats whose words could not be heard, or not in time
    data,      \* the version of what the household looks like
    orphans,   \* subscriptions whose page is gone, and which nobody has noticed yet
    tab        \* tab -> the page

chatVars == <<request, unsaid, bus, chat, missed>>
pageVars == <<data, orphans, tab>>
consoleVars == <<clock, faults, request, unsaid, bus, chat, missed, data, orphans, tab>>

Fault == faults < MaxFaults /\ faults' = faults + 1

Tick ==
    /\ clock < MaxTime /\ (\E c \in Chats : chat[c].deadline # None \/ bus.held[c] # None)
    /\ clock' = clock + 1
    /\ UNCHANGED <<faults, chatVars, pageVars>>

(****************************** The stream *********************************)
\* Mutation: the queue is never full.
QueuedAnyway(q, n) == Append(q, n)

\* UIEventBroadcaster.publish: a full queue is replaced by the word that everything
\* may have changed.
Queued(q, n) == IF Len(q) >= Buffer THEN <<"refresh.required">> ELSE Append(q, n)

Announced(n) ==
    [t \in Tabs |-> IF tab[t].stream = "open" THEN [tab[t] EXCEPT !.queue = Queued(@, n)]
                    ELSE tab[t]]

(****************************** The question *******************************)
NoReply == [life |-> None, says |-> None, from |-> None]

Ask(c) ==
    /\ chat[c].at = "typing" /\ \A d \in Chats : chat[d].at \in {"typing", "ended", "failed"}
    /\ chat' = [chat EXCEPT ![c].at = "posting"]
    /\ UNCHANGED <<clock, faults, request, unsaid, bus, missed, pageVars>>

Enqueued(c) == [request EXCEPT ![c] = [life |-> "PENDING", status |-> None, outcome |-> None]]

\* JournalConversationIngress.submit, SentryConversationPipeline.run: the event is
\* journaled, attention, context and the queue take it, and the pages are told.
Submit(c) ==
    /\ chat[c].at = "posting"
    /\ request' = Enqueued(c)
    /\ chat' = [chat EXCEPT ![c].at = "waiting"]
    /\ tab' = Announced("conversation.completed")
    /\ UNCHANGED <<clock, faults, unsaid, bus, missed, data, orphans>>

\* The pipeline fails after the event was journaled, or its answer is lost on the
\* way: the chat says that it failed, whatever becomes of the request.
SubmitFails(c) ==
    /\ chat[c].at = "posting" /\ Fault
    /\ request' \in {request, Enqueued(c)}
    /\ chat' = [chat EXCEPT ![c].at = "failed"]
    /\ UNCHANGED <<clock, unsaid, bus, missed, pageVars>>

(******************************* The answer ********************************)
Waiting == {"WAITING_CONFIRMATION", "WAITING_STRONGER_AUTH"}
Terminal == {"COMPLETED", "NO_ACTION", "FAILED", "UNKNOWN_RESULT", "RECOVERY_REQUIRED", "CANCELLED"}

LifeOf(status) ==
    CASE status \in {"RESPONSE", "TOOL_ACTIVITY_COMPLETED"} -> "COMPLETED"
      [] status \in {"PARTIAL", "FAILED"} -> "FAILED"
      [] status = "UNAVAILABLE" -> "RECOVERY_REQUIRED"
      [] OTHER -> status

\* finalize_result, record_result: the worker's result is recorded under its lease;
\* its words are published afterwards.
Finish(c) ==
    /\ request[c] # None /\ request[c].life = "PENDING"
    /\ \E status \in Results :
          /\ request' = [request EXCEPT ![c].life = LifeOf(status), ![c].status = status]
          /\ unsaid' = [unsaid EXCEPT ![c].worker = status]
    /\ UNCHANGED <<clock, faults, bus, chat, missed, pageVars>>

\* The lease of a running provider ends, and the next claim concludes the request.
LeaseEnds(c) ==
    /\ request[c] # None /\ request[c].life = "PENDING" /\ Fault
    /\ request' = [request EXCEPT ![c].life = "UNKNOWN_RESULT", ![c].status = "UNKNOWN_RESULT"]
    /\ UNCHANGED <<clock, unsaid, bus, chat, missed, pageVars>>

\* What a concluded action says of the request that asked for it; a step of a scene
\* that was stopped for it leaves the scene incomplete.
Concluded(action, stopped) ==
    CASE action = "SUCCEEDED" -> IF stopped THEN "PARTIAL" ELSE "TOOL_ACTIVITY_COMPLETED"
      [] action = "REQUIRE_CONFIRMATION" -> "WAITING_CONFIRMATION"
      [] action = "REQUIRE_STRONGER_AUTH" -> "WAITING_STRONGER_AUTH"
      [] action = "UNKNOWN_RESULT" -> "UNKNOWN_RESULT"
      [] action = "RECOVERY_REQUIRED" -> "UNAVAILABLE"
      [] action = "PARTIAL" -> "PARTIAL"
      [] OTHER -> "FAILED"

\* ApprovalResults.resolve, from the approval's end or from reconcile_request when the
\* approval came first: the outcome, the status and the lifecycle in one transaction,
\* once; then its own publication, which may come before the worker's.
Resolve(c) ==
    /\ request[c] # None /\ request[c].outcome = None /\ request[c].life \in Waiting
    /\ \E action \in Actions, stopped \in BOOLEAN :
         LET said == Concluded(action, stopped) IN
          /\ request' = [request EXCEPT ![c] = [life |-> LifeOf(said), status |-> said,
                                               outcome |-> said]]
          /\ unsaid' = [unsaid EXCEPT ![c].core = said]
    /\ UNCHANGED <<clock, faults, bus, chat, missed, pageVars>>

\* pg_notify: who does not listen never hears of it; who does keeps it for a while, in
\* place of what it had of the same request, and tells the pages.
Publish(c, who) ==
    /\ unsaid[c][who] # None
    /\ unsaid' = [unsaid EXCEPT ![c][who] = None]
    /\ IF bus.listener = "listening"
       THEN /\ bus' = [bus EXCEPT !.held[c] = [says |-> unsaid[c][who], until |-> clock + Lifetime]]
            /\ tab' = Announced("conversation.completed")
            /\ UNCHANGED missed
       ELSE UNCHANGED <<bus, tab>> /\ missed' = missed \cup {c}
    /\ UNCHANGED <<clock, faults, request, chat, data, orphans>>

\* The service dies before it publishes, or the notification fails.
PublishFails(c, who) ==
    /\ unsaid[c][who] # None /\ Fault
    /\ unsaid' = [unsaid EXCEPT ![c][who] = None] /\ missed' = missed \cup {c}
    /\ UNCHANGED <<clock, request, bus, chat, pageVars>>

\* The listener's thread connects some time after the process has started.
Listen ==
    /\ bus.listener = "starting"
    /\ bus' = [bus EXCEPT !.listener = "listening"]
    /\ UNCHANGED <<clock, faults, request, unsaid, chat, missed, pageVars>>

\* It ends with its connection, and nothing starts it again.
ListenerEnds ==
    /\ bus.listener # "ended" /\ Chats # {} /\ Fault
    /\ bus' = [bus EXCEPT !.listener = "ended"]
    /\ UNCHANGED <<clock, request, unsaid, chat, missed, pageVars>>

Polling == {"outcome", "live", "recorded", "show"}

\* The interface's process starts again with nothing in memory: a poll that is under
\* way breaks, which ends the chat.
Restart ==
    /\ Chats # {} /\ Fault
    /\ bus' = [listener |-> "starting", held |-> [c \in Chats |-> None]]
    /\ missed' = missed \cup {c \in Chats : bus.held[c] # None}
    /\ chat' = [c \in Chats |-> IF chat[c].at \in Polling
                                THEN [chat[c] EXCEPT !.at = "failed", !.reply = NoReply]
                                ELSE chat[c]]
    /\ UNCHANGED <<clock, request, unsaid, pageVars>>

(******************************* The polling *******************************)
\* conversation_result reads the request's row, then the approval's outcome, then the
\* bus, then the recorded status, each by itself, and stops at the first that answers.
ReadRequest(c) ==
    /\ chat[c].at = "waiting" /\ chat[c].polls < MaxPolls
    /\ chat' = [chat EXCEPT ![c].at = "outcome", ![c].polls = @ + 1,
                            ![c].reply.life = request[c].life]
    /\ UNCHANGED <<clock, faults, request, unsaid, bus, missed, pageVars>>

Answered(c, from, says) ==
    [chat EXCEPT ![c].at = "show", ![c].reply.from = from, ![c].reply.says = says]

ReadOutcome(c) ==
    /\ chat[c].at = "outcome"
    /\ chat' = IF request[c].outcome # None THEN Answered(c, "outcome", request[c].outcome)
               ELSE [chat EXCEPT ![c].at = "live"]
    /\ UNCHANGED <<clock, faults, request, unsaid, bus, missed, pageVars>>

Alive(c) == bus.held[c] # None /\ clock < bus.held[c].until

\* PostgresSentryLiveResultBus.get: what is too old is dropped.
ReadLive(c) ==
    /\ chat[c].at = "live"
    /\ IF Alive(c) THEN chat' = Answered(c, "live", bus.held[c].says) /\ UNCHANGED bus
       ELSE /\ chat' = [chat EXCEPT ![c].at = "recorded"]
            /\ bus' = [bus EXCEPT !.held[c] = None]
    /\ UNCHANGED <<clock, faults, request, unsaid, missed, pageVars>>

ReadRecorded(c) ==
    /\ chat[c].at = "recorded"
    /\ chat' = Answered(c, "record", IF request[c].status # None THEN request[c].status
                                     ELSE chat[c].reply.life)
    /\ UNCHANGED <<clock, faults, request, unsaid, bus, missed, pageVars>>

\* Mutation: whatever has ended is not waited for.
NothingToAwait(r) == FALSE

\* Only the words of a completed answer are waited for, when they are not there yet.
Wordless(r) == r.life = "COMPLETED" /\ r.from = "record" /\ r.says = "RESPONSE"

\* SentryChat: what was said is shown; a lifecycle that has ended ends the asking,
\* but for the words that may still come.  Only what is shown in the end is kept.
Show(c) ==
    /\ chat[c].at = "show"
    /\ LET r == chat[c].reply
           over == r.life \in Terminal
           until == IF chat[c].deadline # None \/ ~over \/ ~Wordless(r) THEN chat[c].deadline
                    ELSE clock + Patience
           ends == over /\ ~(Wordless(r) /\ clock < until)
       IN /\ chat' = [chat EXCEPT ![c] =
                        [at |-> IF ends THEN "ended" ELSE "waiting", polls |-> chat[c].polls,
                         reply |-> NoReply, deadline |-> until,
                         shown |-> IF ends THEN [from |-> r.from, says |-> r.says] ELSE None]]
          /\ missed' = IF Wordless(r) /\ clock >= until THEN missed \cup {c} ELSE missed
    /\ UNCHANGED <<clock, faults, request, unsaid, bus, pageVars>>

\* The interface refuses to answer, and is asked again.
PollRefused(c) ==
    /\ chat[c].at = "waiting" /\ chat[c].polls < MaxPolls /\ Fault
    /\ chat' = [chat EXCEPT ![c].polls = @ + 1]
    /\ UNCHANGED <<clock, request, unsaid, bus, missed, pageVars>>

\* The chat has asked as often as it may, or its poll breaks, or the owner leaves it.
PollEnds(c) ==
    /\ chat[c].at \in Polling \cup {"waiting"}
    /\ \/ chat[c].at = "waiting" /\ chat[c].polls = MaxPolls /\ UNCHANGED faults
       \/ Fault
    /\ chat' = [chat EXCEPT ![c].at = "failed", ![c].reply = NoReply]
    /\ UNCHANGED <<clock, request, unsaid, bus, missed, pageVars>>

(******************************** The page *********************************)
Parts == Sections \cup {"session"}

\* A section that was asked for and not answered, and one that failed.
Asked == [done |-> FALSE, got |-> 0]
Failed == [done |-> TRUE, got |-> 0]

Change ==
    /\ Tabs # {} /\ data <= MaxChanges /\ data' = data + 1
    /\ UNCHANGED <<clock, faults, chatVars, orphans, tab>>

PublishEvent(n) ==
    /\ data > 1 /\ tab' = Announced(n) /\ tab' # tab
    /\ UNCHANGED <<clock, faults, chatVars, data, orphans>>

Subscribed == Cardinality({t \in Tabs : tab[t].stream = "open"}) + orphans

\* close: a subscription that is made, or on its way, stays with the server until it
\* notices that nobody reads.
Closed(b) == [b EXCEPT !.stream = "closed", !.queue = <<>>, !.timer = FALSE, !.fallback = FALSE]

Leaves(b) ==
    CASE b.stream = "open" -> {orphans + 1}
      [] b.stream = "opening" -> {orphans} \cup (IF Subscribed < Capacity THEN {orphans + 1} ELSE {})
      [] OTHER -> {orphans}

MayLoad(b) == b.window = "front" \/ (b.window = "behind" /\ ~b.started)

\* refresh: one load at a time, and the stream makes room for it; what cannot be
\* loaded now is remembered.
Refreshed(b) ==
    IF ~MayLoad(b) \/ b.load # None THEN [b EXCEPT !.pending = TRUE]
    ELSE [Closed(b) EXCEPT !.pending = FALSE, !.started = TRUE, !.load = [s \in Parts |-> Asked]]

Refresh(t, b) ==
    /\ tab' = [tab EXCEPT ![t] = Refreshed(b)]
    /\ orphans' \in IF Refreshed(b).stream = "closed" THEN Leaves(b) ELSE {orphans}

\* synchronize: only the window in front has a stream, once the session is known and
\* while no load is under way.
Synchronized(b) ==
    IF b.window # "front" THEN [Closed(b) EXCEPT !.pending = TRUE]
    ELSE IF b.ready /\ b.stream = "closed" /\ b.load = None THEN [b EXCEPT !.stream = "opening"]
    ELSE b

\* The page as it is mounted: it loads at once unless it is hidden.
FreshTab(window) ==
    Refreshed([window |-> window, started |-> FALSE, ready |-> FALSE, pending |-> FALSE,
               load |-> None, shown |-> [s \in Parts |-> 0], stream |-> "closed", queue |-> <<>>,
               timer |-> FALSE, fallback |-> FALSE])

\* The server puts one section together.
Read(t, s) ==
    /\ tab[t].load # None /\ tab[t].load[s] = Asked
    /\ tab' = [tab EXCEPT ![t].load[s] = [done |-> TRUE, got |-> data]]
    /\ UNCHANGED <<clock, faults, chatVars, data, orphans>>

\* It fails, or ten seconds are over without it.
ReadFails(t, s) ==
    /\ tab[t].load # None /\ tab[t].load[s] = Asked /\ Fault
    /\ tab' = [tab EXCEPT ![t].load[s] = Failed]
    /\ UNCHANGED <<clock, chatVars, data, orphans>>

\* loadSnapshot: a section that failed keeps what it showed, and without the session
\* nothing is applied.
Applied(b) ==
    IF b.load["session"].got = 0 THEN b.shown
    ELSE [s \in Parts |-> IF b.load[s].got = 0 THEN b.shown[s] ELSE b.load[s].got]

\* Every section is settled: another load if one was asked for meanwhile, and
\* otherwise the stream again.
Land(t) ==
    LET b == [tab[t] EXCEPT !.shown = Applied(tab[t]), !.load = None,
                            !.ready = @ \/ tab[t].load["session"].got # 0]
    IN /\ tab[t].load # None /\ \A s \in Parts : tab[t].load[s].done
       /\ tab' = [tab EXCEPT ![t] = IF b.pending /\ b.window = "front" THEN Refreshed(b)
                                    ELSE Synchronized(b)]
       /\ UNCHANGED <<clock, faults, chatVars, data, orphans>>

\* UIEventBroadcaster.subscribe: a third connection of the session is refused, and
\* the page falls back to asking again later.
Subscribe(t) ==
    /\ tab[t].stream = "opening"
    /\ tab' = [tab EXCEPT ![t] = IF Subscribed >= Capacity
                                 THEN [@ EXCEPT !.stream = "closed", !.fallback = TRUE]
                                 ELSE [@ EXCEPT !.stream = "open"]]
    /\ UNCHANGED <<clock, faults, chatVars, data, orphans>>

\* What the stream has is handed to the page: a name it listens to arms the timer.
Deliver(t) ==
    /\ tab[t].queue # <<>>
    /\ tab' = [tab EXCEPT ![t].queue = <<>>,
                          ![t].timer = @ \/ \E i \in DOMAIN tab[t].queue :
                                              tab[t].queue[i] \in Heard \cup {"refresh.required"}]
    /\ UNCHANGED <<clock, faults, chatVars, data, orphans>>

\* The server ends the stream after its fifteen seconds; what it had not handed over
\* is dropped for its last word.
EndStream(t) ==
    /\ tab[t].stream = "open"
    /\ tab' = [tab EXCEPT ![t].stream = "ending", ![t].queue = <<>>]
    /\ UNCHANGED <<clock, faults, chatVars, data, orphans>>

\* The page hears "refresh.required", and then that the connection is over.
LastWord(t) ==
    /\ tab[t].stream = "ending"
    /\ tab' = [tab EXCEPT ![t].stream = "closed", ![t].timer = TRUE, ![t].fallback = TRUE]
    /\ UNCHANGED <<clock, faults, chatVars, data, orphans>>

OrphanEnds ==
    /\ orphans > 0 /\ orphans' = orphans - 1
    /\ UNCHANGED <<clock, faults, chatVars, data, tab>>

\* onerror: the connection breaks under the page.
Break(t) ==
    /\ tab[t].stream # "closed" /\ Fault
    /\ tab' = [tab EXCEPT ![t].stream = "closed", ![t].queue = <<>>, ![t].fallback = TRUE]
    /\ orphans' \in {orphans} \cup Leaves(tab[t])
    /\ UNCHANGED <<clock, chatVars, data>>

TimerFires(t) ==
    /\ tab[t].timer /\ Refresh(t, [tab[t] EXCEPT !.timer = FALSE])
    /\ UNCHANGED <<clock, faults, chatVars, data>>

FallbackFires(t) ==
    /\ tab[t].fallback /\ Refresh(t, [tab[t] EXCEPT !.fallback = FALSE])
    /\ UNCHANGED <<clock, faults, chatVars, data>>

\* A command of the owner's was answered, or the owner asks to try again.
Press(t) ==
    /\ tab[t].window = "front" /\ ~tab[t].pending /\ Refresh(t, tab[t])
    /\ UNCHANGED <<clock, faults, chatVars, data>>

\* Another window comes to the front, or the page is hidden and its load given up.
Leave(t, window) ==
    /\ tab[t].window # window
    /\ tab' = [tab EXCEPT ![t] = [Closed(@) EXCEPT !.window = window, !.pending = TRUE,
                 !.load = IF window = "hidden" /\ @ # None THEN [s \in Parts |-> Failed] ELSE @]]
    /\ orphans' \in Leaves(tab[t])
    /\ UNCHANGED <<clock, faults, chatVars, data>>

\* synchronize(true): what it opens is closed again by the load.
Focus(t) ==
    /\ tab[t].window # "front"
    /\ Refresh(t, Synchronized([tab[t] EXCEPT !.window = "front"]))
    /\ UNCHANGED <<clock, faults, chatVars, data>>

Init ==
    /\ clock = 0 /\ faults = 0
    /\ request = [c \in Chats |-> None]
    /\ unsaid = [c \in Chats |-> [worker |-> None, core |-> None]]
    /\ bus = [listener |-> "starting", held |-> [c \in Chats |-> None]]
    /\ chat = [c \in Chats |-> [at |-> "typing", polls |-> 0, reply |-> NoReply,
                                shown |-> None, deadline |-> None]]
    /\ missed = {}
    /\ data = 1 /\ orphans = 0
    /\ tab \in [Tabs -> {FreshTab(window) : window \in {"front", "behind", "hidden"}}]

Next ==
    \/ Tick \/ Listen \/ ListenerEnds \/ Restart \/ Change \/ OrphanEnds
    \/ \E c \in Chats : \/ Ask(c) \/ Submit(c) \/ SubmitFails(c) \/ Finish(c) \/ LeaseEnds(c)
                        \/ Resolve(c)
                        \/ \E who \in {"worker", "core"} : Publish(c, who) \/ PublishFails(c, who)
                        \/ ReadRequest(c) \/ ReadOutcome(c) \/ ReadLive(c) \/ ReadRecorded(c)
                        \/ Show(c) \/ PollRefused(c) \/ PollEnds(c)
    \/ \E n \in Names : PublishEvent(n)
    \/ \E t \in Tabs : \/ \E s \in Parts : Read(t, s) \/ ReadFails(t, s)
                       \/ Land(t) \/ Subscribe(t) \/ Deliver(t) \/ EndStream(t) \/ LastWord(t)
                       \/ Break(t) \/ TimerFires(t) \/ FallbackFires(t) \/ Press(t) \/ Focus(t)
                       \/ \E window \in {"behind", "hidden"} : Leave(t, window)

Spec == Init /\ [][Next]_consoleVars

(******************************* Properties ********************************)
ConsoleTypeOK ==
    /\ clock \in 0..MaxTime /\ faults \in 0..MaxFaults /\ data \in 1..(MaxChanges + 1)
    /\ bus.listener \in {"starting", "listening", "ended"}
    /\ \A c \in Chats : chat[c].at \in Polling \cup {"typing", "posting", "waiting", "ended", "failed"}
    /\ Subscribed <= Capacity
    /\ \A t \in Tabs : /\ Len(tab[t].queue) <= Buffer
                       /\ \A s \in Parts : tab[t].shown[s] \in 0..data

\* A chat that ends by itself shows the last word: what the approval came to, or else
\* the status that was recorded, and the words of an answer unless they could not be
\* heard, or not in time (conversation_result, SentryChat).
LastWordIsShown ==
    \A c \in Chats : chat[c].at = "ended" =>
        /\ request[c].life \in Terminal
        /\ chat[c].shown.says = request[c].status
        /\ request[c].outcome # None => chat[c].shown.from = "outcome"
        /\ request[c].status = "RESPONSE" /\ c \notin missed => chat[c].shown.from = "live"

\* A page in front that knows its session will take another snapshot, whatever event
\* it missed: it is loading, or its stream lives, or a timer is armed, and what was
\* put off while it was not in front is under way (main.tsx refresh, synchronize; the
\* events route).
PageIsNotForgotten ==
    \A t \in Tabs : tab[t].window = "front" =>
        /\ tab[t].ready => tab[t].load # None \/ tab[t].stream # "closed" \/ tab[t].timer \/ tab[t].fallback
        /\ tab[t].pending => tab[t].load # None

\* A page never goes back to an older reading of a section (refreshInFlight).
PageGoesForward ==
    [][\A t \in Tabs, s \in Parts : tab'[t].shown[s] >= tab[t].shown[s]]_consoleVars
=============================================================================
