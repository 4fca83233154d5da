---------------------------- MODULE MCExchanges ----------------------------
(* The exchanges of the Core with those it acts for and through: the owner and  *)
(* his browser, the agent's model, SENTRY and its worker, Home Assistant,       *)
(* vendors' applications and outside providers, each on a small instance.  They *)
(* share no state here: a behaviour picks one of them, and the others stay in   *)
(* their initial states.                                                        *)
EXTENDS Integers, TLC

CONSTANTS t1, t2, k1, k2, p1, p2, i1, i2, q1, o1, o2, w1, w2, l1, None

VARIABLES part,     \* the component that runs
          status, counts, marked, turnRow, toolRow, interruption, loop,
          executed, response,
          core, turn, clock, submissions,
          disk, outbox, relay, known, handler, config, journal, queued,
          revoked, edits, faults,
          scene, bound, root, child, thread, holder, approval, sent, overlap,
          changes,
          outsideClock, started, searches, blocked, headers, call, shown,
          made, quiet, raced, rude, calls, outsideFaults,
          now, login, session, born, person, gone, face, row, audited,
          authorityCall, did, torn, crossed, authorityCalls, authorityFaults,
          lock, path, listening, host, file, socketRow, socketRevoked,
          permission, access, tool, socketChanges, direct, request, bindings,
          job, seen, acts, said,
          serviceLock, servicePath, serviceListening, serviceHost,
          serviceFile, serviceRow, serviceRevoked, servicePermission,
          serviceAccess, serviceTool, serviceChanges, serviceDirect,
          serviceRequest, serviceBindings, serviceJob, serviceSeen,
          serviceActs, serviceSaid,
          chatsClock, chatsFaults, chatsRequest, unsaid, bus, chat, missed,
          data, orphans, tab,
          pageClock, pageFaults, pageRequest, pageUnsaid, pageBus, pageChat,
          pageMissed, pageData, pageOrphans, pageTab,
          event, rulesConfig, ready, policy, home, house, rulesClock,
          rulesRequest, ledger, reader, rulesSeen, verdict, edited,
          rulesEdits, rulesFaults,
          haHome, link, haLoop, adapter, starter, rec, registry, inventory,
          haMissed, outcomes

\* Two notifications of a vendor's application, of which one rule tells one.
Text == [d \in {"d1", "d2"} |->
    [package |-> "tapo", words |-> IF d = "d2" THEN {"door"} ELSE {"door", "open"}]]
Rules == <<[package |-> "tapo", words |-> {"door", "open"}, alias |-> "front", kind |-> "unlocked"]>>
Mapped == [package |-> "tapo", aliases |-> {"front"}]

\* Three lists of a catalogue: none, one with doubles and without a name, and one
\* that is not all that was asked for.
Item(ref, named, sale, regular) ==
    [ref |-> ref, named |-> named, sale |-> sale, regular |-> regular]
Lists ==
    {<<>>,
     <<Item(i1, TRUE, 1, 2), Item(i1, TRUE, None, 2), Item(None, TRUE, 1, 1), Item(i2, TRUE, None, 2)>>,
     <<Item(i1, FALSE, 1, 1), Item(i2, TRUE, 2, 2)>>}

\* What the owner may ask for a device, and the events that may be told.
Asking(mode, kind, way, window) == [mode |-> mode, kind |-> kind, path |-> way, window |-> window]
Asked == {Asking("NEVER", "ANY", None, <<0, 0>>), Asking("ALWAYS", "OTHER", None, <<0, 0>>),
          Asking("TIME_WINDOW", "ANY", "NO_SENTRY", <<1, 0>>)}
Alert == [via |-> "policy", ours |-> TRUE, replayed |-> FALSE, attested |-> FALSE, phrase |-> TRUE]
Old == [via |-> "sensor", ours |-> TRUE, replayed |-> TRUE, attested |-> FALSE, phrase |-> TRUE]
Unsaved == [rule |-> None, always |-> FALSE, proactive |-> TRUE]

Episode == INSTANCE AgentEpisode
    WITH MaxTurns <- 3, MaxTools <- 2
episodeVars == <<status, counts, marked, turnRow, toolRow, interruption, loop,
                 executed, response>>

Worker == INSTANCE SentryWorker
    WITH Candidates <- {"k1", "k2"},
         Outcomes <- {"SUCCEEDED", "UNKNOWN_RESULT", "UNAVAILABLE", "VERIFICATION_FAILED"},
         MaxRounds <- 2, MaxCalls <- 3, BatchSize <- 2
workerVars == <<core, turn, clock, submissions>>

Vendor == INSTANCE VendorRelay
    WITH Deliveries <- {"d1", "d2"}, Handlers <- {t1, t2}, Capacity <- 1,
         MaxEdits <- 1, MaxFaults <- 1
vendorVars == <<disk, outbox, relay, known, handler, config, journal, queued,
                revoked, edits, faults>>

Scenes == INSTANCE SceneApplication
    WITH Keys <- {k1, k2}, Threads <- {t1, t2}, Steps <- 2, MaxChanges <- 1
scenesVars == <<scene, bound, root, child, thread, holder, approval, sent,
                overlap, changes>>

Outside == INSTANCE ExternalProviders
    WITH clock <- outsideClock, faults <- outsideFaults, Threads <- {t1, t2},
         Providers <- {"upc", "walmart", "weather"}, Pace <- 1, Window <- 2,
         Quota <- 1, Answers <- Lists, Count <- 2, MaxTime <- 2,
         MaxCalls <- 2, MaxStarts <- 2, MaxFaults <- 1
outsideVars == <<outsideClock, started, searches, blocked, headers, call,
                 shown, made, quiet, raced, rude, calls, outsideFaults>>

Authority == INSTANCE OwnerAuthority
    WITH call <- authorityCall, calls <- authorityCalls,
         faults <- authorityFaults, Threads <- {t1, t2}, People <- {p1, p2},
         First <- p1, Sessions <- {l1}, Idle <- 1, Absolute <- 2,
         MaxTime <- 2, MaxCalls <- 2, MaxFaults <- 1
authorityVars == <<now, login, session, born, person, gone, face, row,
                   audited, authorityCall, did, torn, crossed, authorityCalls,
                   authorityFaults>>

Socket == INSTANCE SentryCore
    WITH row <- socketRow, revoked <- socketRevoked, changes <- socketChanges,
         Owners <- {o1, o2}, Threads <- {w1}, Requests <- {}, Tools <- {},
         Given <- {}, MaxStarts <- 2, MaxTokens <- 2, MaxClaims <- 2,
         MaxChanges <- 1
socketVars == <<lock, path, listening, host, file, socketRow, socketRevoked,
                permission, access, tool, socketChanges, direct, request,
                bindings, job, seen, acts, said>>

Service == INSTANCE SentryCore
    WITH lock <- serviceLock, path <- servicePath,
         listening <- serviceListening, host <- serviceHost,
         file <- serviceFile, row <- serviceRow, revoked <- serviceRevoked,
         permission <- servicePermission, access <- serviceAccess,
         tool <- serviceTool, changes <- serviceChanges,
         direct <- serviceDirect, request <- serviceRequest,
         bindings <- serviceBindings, job <- serviceJob, seen <- serviceSeen,
         acts <- serviceActs, said <- serviceSaid, Owners <- {o1},
         Threads <- {w1}, Requests <- {q1}, Tools <- {"notify"},
         Given <- {"RESPONSE", "NO_ACTION", "PARTIAL"}, MaxStarts <- 1,
         MaxTokens <- 1, MaxClaims <- 2, MaxChanges <- 1
serviceVars == <<serviceLock, servicePath, serviceListening, serviceHost,
                 serviceFile, serviceRow, serviceRevoked, servicePermission,
                 serviceAccess, serviceTool, serviceChanges, serviceDirect,
                 serviceRequest, serviceBindings, serviceJob, serviceSeen,
                 serviceActs, serviceSaid>>

Handlers == INSTANCE SentryCore
    WITH lock <- serviceLock, path <- servicePath,
         listening <- serviceListening, host <- serviceHost,
         file <- serviceFile, row <- serviceRow, revoked <- serviceRevoked,
         permission <- servicePermission, access <- serviceAccess,
         tool <- serviceTool, changes <- serviceChanges,
         direct <- serviceDirect, request <- serviceRequest,
         bindings <- serviceBindings, job <- serviceJob, seen <- serviceSeen,
         acts <- serviceActs, said <- serviceSaid, Owners <- {o1},
         Threads <- {w1, w2}, Requests <- {q1}, Tools <- {},
         Given <- {"RESPONSE"}, MaxStarts <- 1, MaxTokens <- 2,
         MaxClaims <- 1, MaxChanges <- 1

Chat == INSTANCE OwnerConsole
    WITH clock <- chatsClock, faults <- chatsFaults, request <- chatsRequest,
         Chats <- {"c"}, Tabs <- {}, Sections <- {},
         Results <- {"RESPONSE", "UNAVAILABLE", "WAITING_CONFIRMATION"},
         Actions <- {"SUCCEEDED", "UNKNOWN_RESULT", "REQUIRE_CONFIRMATION"},
         Capacity <- 2, Buffer <- 1, Names <- {}, Heard <- {}, Patience <- 1,
         Lifetime <- 1, MaxTime <- 2, MaxPolls <- 3, MaxFaults <- 2,
         MaxChanges <- 1
chatsVars == <<chatsClock, chatsFaults, chatsRequest, unsaid, bus, chat,
               missed, data, orphans, tab>>

Page == INSTANCE OwnerConsole
    WITH clock <- pageClock, faults <- pageFaults, request <- pageRequest,
         unsaid <- pageUnsaid, bus <- pageBus, chat <- pageChat,
         missed <- pageMissed, data <- pageData, orphans <- pageOrphans,
         tab <- pageTab, Chats <- {}, Tabs <- {t1}, Sections <- {"home"},
         Results <- {}, Actions <- {}, Capacity <- 2, Buffer <- 1,
         Names <- {"home.invalidated", "household.changed"},
         Heard <- {"home.invalidated"}, Patience <- 1, Lifetime <- 2,
         MaxTime <- 3, MaxPolls <- 4, MaxFaults <- 2, MaxChanges <- 2
pageVars == <<pageClock, pageFaults, pageRequest, pageUnsaid, pageBus,
              pageChat, pageMissed, pageData, pageOrphans, pageTab>>

Told == INSTANCE NotificationRules
    WITH config <- rulesConfig, clock <- rulesClock, request <- rulesRequest,
         seen <- rulesSeen, edits <- rulesEdits, faults <- rulesFaults,
         Rules <- Asked, Events <- {Alert, Old}, Hour <- 1, Brief <- 0,
         Long <- 1, MaxTime <- 2, MaxEdits <- 1, MaxFaults <- 1
rulesVars == <<event, rulesConfig, ready, policy, home, house, rulesClock,
               rulesRequest, ledger, reader, rulesSeen, verdict, edited,
               rulesEdits, rulesFaults>>

Link == INSTANCE HomeAssistantLink
    WITH home <- haHome, loop <- haLoop, missed <- haMissed, MaxChanges <- 2,
         MaxTriggers <- 0, MaxStarts <- 2, MaxDrops <- 1, MaxRefreshes <- 1
haVars == <<haHome, link, haLoop, adapter, starter, rec, registry, inventory,
            haMissed, outcomes>>

vars == <<part, episodeVars, workerVars, vendorVars, scenesVars, outsideVars,
          authorityVars, socketVars, serviceVars, chatsVars, pageVars,
          rulesVars, haVars>>

Init ==
    /\ part \in {"episode", "worker", "vendor", "scenes", "outside",
               "authority", "socket", "service", "handlers", "chats", "page",
               "rules", "ha"}
    /\ Episode!Init /\ Worker!Init /\ Vendor!Init
    /\ Scenes!Init /\ Outside!Init /\ Authority!Init
    /\ Socket!Init /\ Chat!Init /\ Page!Init
    /\ Told!Init /\ Link!Init
    /\ CASE part = "handlers" -> Handlers!Init
         [] OTHER -> Service!Init
    /\ part # "vendor" => config.wake
    /\ part # "service" => serviceDirect = {q1}
    /\ part # "handlers" => serviceDirect = {q1}
    /\ part # "page" => pageTab[t1].window = "front"
    /\ part # "rules" => (event = Alert /\ rulesConfig = Unsaved)

Next ==
    \/ part = "episode" /\ Episode!Next
       /\ UNCHANGED <<part, workerVars, vendorVars, scenesVars, outsideVars,
                     authorityVars, socketVars, serviceVars, chatsVars,
                     pageVars, rulesVars, haVars>>
    \/ part = "worker" /\ Worker!Next
       /\ UNCHANGED <<part, episodeVars, vendorVars, scenesVars, outsideVars,
                     authorityVars, socketVars, serviceVars, chatsVars,
                     pageVars, rulesVars, haVars>>
    \/ part = "vendor" /\ Vendor!Next
       /\ UNCHANGED <<part, episodeVars, workerVars, scenesVars, outsideVars,
                     authorityVars, socketVars, serviceVars, chatsVars,
                     pageVars, rulesVars, haVars>>
    \/ part = "scenes" /\ Scenes!Next
       /\ UNCHANGED <<part, episodeVars, workerVars, vendorVars, outsideVars,
                     authorityVars, socketVars, serviceVars, chatsVars,
                     pageVars, rulesVars, haVars>>
    \/ part = "outside" /\ Outside!Next
       /\ UNCHANGED <<part, episodeVars, workerVars, vendorVars, scenesVars,
                     authorityVars, socketVars, serviceVars, chatsVars,
                     pageVars, rulesVars, haVars>>
    \/ part = "authority" /\ Authority!Next
       /\ UNCHANGED <<part, episodeVars, workerVars, vendorVars, scenesVars,
                     outsideVars, socketVars, serviceVars, chatsVars,
                     pageVars, rulesVars, haVars>>
    \/ part = "socket" /\ Socket!Next
       /\ UNCHANGED <<part, episodeVars, workerVars, vendorVars, scenesVars,
                     outsideVars, authorityVars, serviceVars, chatsVars,
                     pageVars, rulesVars, haVars>>
    \/ part = "service" /\ Service!Next
       /\ UNCHANGED <<part, episodeVars, workerVars, vendorVars, scenesVars,
                     outsideVars, authorityVars, socketVars, chatsVars,
                     pageVars, rulesVars, haVars>>
    \/ part = "handlers" /\ Handlers!Next
       /\ UNCHANGED <<part, episodeVars, workerVars, vendorVars, scenesVars,
                     outsideVars, authorityVars, socketVars, chatsVars,
                     pageVars, rulesVars, haVars>>
    \/ part = "chats" /\ Chat!Next
       /\ UNCHANGED <<part, episodeVars, workerVars, vendorVars, scenesVars,
                     outsideVars, authorityVars, socketVars, serviceVars,
                     pageVars, rulesVars, haVars>>
    \/ part = "page" /\ Page!Next
       /\ UNCHANGED <<part, episodeVars, workerVars, vendorVars, scenesVars,
                     outsideVars, authorityVars, socketVars, serviceVars,
                     chatsVars, rulesVars, haVars>>
    \/ part = "rules" /\ Told!Next
       /\ UNCHANGED <<part, episodeVars, workerVars, vendorVars, scenesVars,
                     outsideVars, authorityVars, socketVars, serviceVars,
                     chatsVars, pageVars, haVars>>
    \/ part = "ha" /\ Link!Next
       /\ UNCHANGED <<part, episodeVars, workerVars, vendorVars, scenesVars,
                     outsideVars, authorityVars, socketVars, serviceVars,
                     chatsVars, pageVars, rulesVars>>

Spec == Init /\ [][Next]_vars

TypeOK ==
    /\ part = "episode" => Episode!EpisodeTypeOK
    /\ part = "worker" => Worker!WorkerTypeOK
    /\ part = "vendor" => Vendor!VendorTypeOK
    /\ part = "scenes" => Scenes!SceneTypeOK
    /\ part = "outside" => Outside!ProvidersTypeOK
    /\ part = "authority" => Authority!AuthorityTypeOK
    /\ part = "socket" => Socket!CoreTypeOK
    /\ part = "service" => Service!CoreTypeOK
    /\ part = "handlers" => Handlers!CoreTypeOK
    /\ part = "chats" => Chat!ConsoleTypeOK
    /\ part = "page" => Page!ConsoleTypeOK
    /\ part = "rules" => Told!RulesTypeOK
    /\ part = "ha" => Link!LinkTypeOK

\* What is to be done once is done once, and within its bounds: a dispatch, a call, a
\* step, a model's loop, a search, a login; and a delivery wakes nobody by itself.
OnceAndInOrder ==
    /\ part = "episode" => Episode!CallsAreDistinct
    /\ part = "worker" => Worker!CallsFollowSuccess
    /\ part = "scenes" => Scenes!StepsAreOrdered
    /\ part = "outside" => Outside!SearchesArePaced
    /\ part = "authority" => Authority!LoginsAreSpent
    /\ part = "vendor" => Vendor!NeverPromoted
    /\ part = "service" => Service!CalledOnce

\* What somebody is told is what was decided, what happened and what was offered.
OutcomeIsTrue ==
    /\ part = "episode" => Episode!RowsTellTheEpisode
    /\ part = "worker" => Worker!ResultIsHonest
    /\ part = "scenes" => Scenes!AnswersAreTrue
    /\ part = "outside" => Outside!ShownIsOffered
    /\ part = "vendor" => Vendor!OutboxIsTrue
    /\ part = "service" => Service!AuthorityHeld
    /\ part = "handlers" => Handlers!AuthorityHeld
    /\ part = "chats" => Chat!LastWordIsShown
    /\ part = "rules" => Told!SpokenWasWanted

\* Two records of one thing agree, and what one was relied on for stays reachable: the
\* inventory follows the last change of the home, an event that a rule asks for is owed
\* to somebody, by a route that is polled.
RecordsAgree ==
    /\ part = "authority" => Authority!DecisionsAreKept
    /\ part = "authority" => Authority!ProfilesAgree
    /\ part = "worker" => Worker!NoteAgrees
    /\ part = "socket" => Socket!OwnerIsReached
    /\ part = "socket" => Socket!RevocationStands
    /\ part = "page" => Page!PageIsNotForgotten
    /\ part = "ha" => Link!ChangesAreFollowed
    /\ part = "rules" => Told!WantedIsOwed
    /\ part = "rules" => Told!RouteIsPolled

\* What is over stays over: an unresolved scene is not sent again, another scene than
\* the confirmed one is not sent, who signed out stays out, a page does not go back.
NothingIsReopened ==
    /\ Scenes!NotRepeatedUnresolved
    /\ Scenes!ConfirmedAsSaved
    /\ Authority!SignedOutStaysOut
    /\ Page!PageGoesForward
============================================================================
