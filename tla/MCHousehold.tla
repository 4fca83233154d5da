---------------------------- MODULE MCHousehold ----------------------------
(* The components that keep what the home is believed to be and what its people *)
(* have settled, each on a small instance.  They share no state here: a         *)
(* behaviour picks one of them, and the others stay in their initial states.    *)
EXTENDS HouseholdParts, TLC

CONSTANTS e1, e2, e3, c1, c2, kitchen, n1, n2, x1, k1, q1, q2

VARIABLES part,     \* the component that runs
          plugin, published, running, stored, thread, choice, excused, bound,
          learnedRow, notes, lifecycle, learnedThread, learnedFaults,
          habitsClock, habitsJournal, habitsPacket, ended, standing,
          habitsSaid, completion, incident, habitsThread, reported, mode,
          client,
          plansRow, audits, memories, plansStanding, named, plansCall, agreed,
          silent, plansCrossed, misled, calls, retired, deaths

\* Two readings of one sensor that arrive against their order, and a row that
\* never projects.
Readings == [x \in {e1, e2, e3} |->
    [source |-> IF x = e3 THEN "b" ELSE "a",
     sequence |-> CASE x = e1 -> 2 [] x = e2 -> 1 [] x = e3 -> None,
     state |-> "KNOWN", value |-> IF x = e2 THEN "open" ELSE "shut"]]

\* Events for most ways to decide: one consumer goes through three of them, two race
\* for two.
DecidedBy(guaranteed, unchanged, important, rule) ==
    [guaranteed |-> guaranteed, unchanged |-> unchanged, important |-> important, rule |-> rule]
Deciding ==
    {DecidedBy(TRUE, FALSE, FALSE, "AGGREGATE"), DecidedBy(FALSE, FALSE, FALSE, "AGGREGATE"),
     DecidedBy(FALSE, FALSE, TRUE, "TRIGGER")}
OneConsumer == [consumers |-> {c1}, time |-> 2, events |-> 3, limits |-> {2}, faults |-> 1]
TwoConsumers == [consumers |-> {c1, c2}, time |-> 1, events |-> 2, limits |-> {1, 2}, faults |-> 0]

\* Arrivals of a phone followed by a door, on three days and out of order, and the
\* actions of one request and of another.
Seen(id, type, resource, qualifier, group, at) ==
    [id |-> id, source |-> id, type |-> type, resource |-> resource, qualifier |-> qualifier,
     family |-> group, at |-> at]
Phone(id, at) == Seen(id, "presence", "p", "HOME", "wifi", at)
Door(id, at) == Seen(id, "door", "d", "OPENED", "contact", at)
Habit == {Phone(1, 0), Door(2, 0), Phone(3, 2), Door(4, 2), Phone(5, 12), Door(6, 12)}
Calls == {Phone(1, 0), Phone(2, 1), Phone(4, 6)}
Evening == {Phone(1, 0), Phone(3, 1), Door(4, 1)}
Done(id, key) == [id |-> id, key |-> <<key, 1>>, status |-> "SUCCEEDED", effects |-> {"VERIFIED"}]
Reviews == q1 :> "INITIAL_CATCH_UP" @@ q2 :> "DAILY"

Plugins == INSTANCE PluginLifecycle
    WITH MaxAttempts <- 2, MaxFaults <- 2, MaxRequests <- 2
pluginVars == <<plugin, published, running, stored, thread, choice, excused,
                bound>>

Notes == INSTANCE LearningNotes
    WITH row <- learnedRow, thread <- learnedThread, faults <- learnedFaults,
         Requests <- {q1, q2}, Decisions <- {"DISMISSED"}, MaxRows <- 3,
         MaxFaults <- 1
learnedVars == <<learnedRow, notes, lifecycle, learnedThread, learnedFaults>>

Habits == INSTANCE LearningEvidence
    WITH clock <- habitsClock, journal <- habitsJournal,
         packet <- habitsPacket, said <- habitsSaid, thread <- habitsThread,
         Day <- 4, Slot <- 2, Near <- 1, Span <- 1, Window <- 28,
         MaxRefs <- 3, RoutineCount <- 2, FullCount <- 2, RequestKey <- "rk",
         MaxNearby <- 2, MaxSituation <- 3, Observations <- Habit,
         Moments <- {2, 12}, Recent <- 3, MaxEvidence <- 5,
         MaxCandidates <- 1, Requests <- {q1}, Kind <- Reviews,
         Conclusions <- {"LEARNED_ROUTINE_SUGGESTION"},
         Decisions <- {"DISMISSED"}, Threads <- {}, Texts <- {},
         Actions <- {}, Clients <- {}, Modes <- {}, MaxModes <- 0
habitsVars == <<habitsClock, habitsJournal, habitsPacket, ended, standing,
                habitsSaid, completion, incident, habitsThread, reported,
                mode, client>>

Reviewing == INSTANCE LearningEvidence
    WITH clock <- habitsClock, journal <- habitsJournal,
         packet <- habitsPacket, said <- habitsSaid, thread <- habitsThread,
         Day <- 2, Slot <- 1, Near <- 1, Span <- 1, Window <- 28,
         MaxRefs <- 3, RoutineCount <- 2, FullCount <- 2, RequestKey <- "rk",
         MaxNearby <- 2, MaxSituation <- 3, Observations <- Calls,
         Moments <- {6}, Recent <- 3, MaxEvidence <- 4, MaxCandidates <- 1,
         Requests <- {q1, q2}, Kind <- Reviews,
         Conclusions <- {"LEARNED_ROUTINE_SUGGESTION"}, Decisions <- {},
         Threads <- {}, Texts <- {}, Actions <- {}, Clients <- {},
         Modes <- {}, MaxModes <- 0

Incident == INSTANCE LearningEvidence
    WITH clock <- habitsClock, journal <- habitsJournal,
         packet <- habitsPacket, said <- habitsSaid, thread <- habitsThread,
         Day <- 2, Slot <- 1, Near <- 1, Span <- 1, Window <- 28,
         MaxRefs <- 3, RoutineCount <- 2, FullCount <- 2, RequestKey <- "rk",
         MaxNearby <- 2, MaxSituation <- 3, Observations <- Evening,
         Moments <- {1, 2, 3}, Recent <- 1, MaxEvidence <- 4,
         MaxCandidates <- 1, Requests <- {}, Kind <- <<>>, Conclusions <- {},
         Decisions <- {}, Threads <- Threads, Texts <- {x1},
         Actions <- {Done(1, "rk"), Done(2, "other")}, Clients <- {},
         Modes <- {}, MaxModes <- 0

Modes == INSTANCE LearningEvidence
    WITH clock <- habitsClock, journal <- habitsJournal,
         packet <- habitsPacket, said <- habitsSaid, thread <- habitsThread,
         Day <- 2, Slot <- 1, Near <- 1, Span <- 1, Window <- 28,
         MaxRefs <- 3, RoutineCount <- 2, FullCount <- 2, RequestKey <- "rk",
         MaxNearby <- 2, MaxSituation <- 3, Observations <- {}, Moments <- {},
         Recent <- 1, MaxEvidence <- 1, MaxCandidates <- 1, Requests <- {},
         Kind <- <<>>, Conclusions <- {}, Decisions <- {}, Threads <- {},
         Texts <- {}, Actions <- {}, Clients <- {c1, c2},
         Modes <- {"HOME", "AWAY"}, MaxModes <- 3

Plans == INSTANCE HouseholdPlans
    WITH row <- plansRow, standing <- plansStanding, call <- plansCall,
         crossed <- plansCrossed, Keys <- {k1}, People <- {n1},
         Places <- {kitchen}, Names <- {n2}, MaxCalls <- 3, MaxVersions <- 2,
         MaxDeaths <- 1
plansVars == <<plansRow, audits, memories, plansStanding, named, plansCall,
               agreed, silent, plansCrossed, misled, calls, retired, deaths>>

vars == <<part, truthsVars, attentionVars, wifiVars, pluginVars, mapVars,
          learnedVars, reviewedVars, scheduleVars, habitsVars, trackerVars,
          plansVars, commissioningVars, contextVars>>

Init ==
    /\ part \in {"truths", "attention", "overtaken", "wifi", "plugin", "map",
               "learned", "reviewed", "owned", "schedule", "habits",
               "reviews", "incident", "modes", "tracker", "plans",
               "commissioning", "context"}
    /\ Truth!Init /\ Wifi!Init /\ Plugins!Init
    /\ Map!Init /\ Notes!Init /\ Schedule!Init
    /\ Tracker!Init /\ Plans!Init /\ Commissioning!Init
    /\ Context!Init
    /\ CASE part = "overtaken" -> Attending(Racing)!Init
         [] OTHER -> Attending(Sole)!Init
    /\ CASE part = "owned" -> Ordered!Init
         [] OTHER -> Forecast!Init
    /\ CASE part = "reviews" -> Reviewing!Init
         [] part = "incident" -> Incident!Init
         [] part = "modes" -> Modes!Init
         [] OTHER -> Habits!Init
    /\ part # "wifi" => phone
    /\ part # "map" => name[kitchen] = n1
    /\ part # "tracker" => device = "unassigned"

Next ==
    \/ part = "truths" /\ Truth!Next
       /\ UNCHANGED <<part, attentionVars, wifiVars, pluginVars, mapVars,
                     learnedVars, reviewedVars, scheduleVars, habitsVars,
                     trackerVars, plansVars, commissioningVars, contextVars>>
    \/ part = "attention" /\ Attending(Sole)!Next
       /\ UNCHANGED <<part, truthsVars, wifiVars, pluginVars, mapVars,
                     learnedVars, reviewedVars, scheduleVars, habitsVars,
                     trackerVars, plansVars, commissioningVars, contextVars>>
    \/ part = "overtaken" /\ Attending(Racing)!Next
       /\ UNCHANGED <<part, truthsVars, wifiVars, pluginVars, mapVars,
                     learnedVars, reviewedVars, scheduleVars, habitsVars,
                     trackerVars, plansVars, commissioningVars, contextVars>>
    \/ part = "wifi" /\ Wifi!Next
       /\ UNCHANGED <<part, truthsVars, attentionVars, pluginVars, mapVars,
                     learnedVars, reviewedVars, scheduleVars, habitsVars,
                     trackerVars, plansVars, commissioningVars, contextVars>>
    \/ part = "plugin" /\ Plugins!Next
       /\ UNCHANGED <<part, truthsVars, attentionVars, wifiVars, mapVars,
                     learnedVars, reviewedVars, scheduleVars, habitsVars,
                     trackerVars, plansVars, commissioningVars, contextVars>>
    \/ part = "map" /\ Map!Next
       /\ UNCHANGED <<part, truthsVars, attentionVars, wifiVars, pluginVars,
                     learnedVars, reviewedVars, scheduleVars, habitsVars,
                     trackerVars, plansVars, commissioningVars, contextVars>>
    \/ part = "learned" /\ Notes!Next
       /\ UNCHANGED <<part, truthsVars, attentionVars, wifiVars, pluginVars,
                     mapVars, reviewedVars, scheduleVars, habitsVars,
                     trackerVars, plansVars, commissioningVars, contextVars>>
    \/ part = "reviewed" /\ Forecast!Next
       /\ UNCHANGED <<part, truthsVars, attentionVars, wifiVars, pluginVars,
                     mapVars, learnedVars, scheduleVars, habitsVars,
                     trackerVars, plansVars, commissioningVars, contextVars>>
    \/ part = "owned" /\ Ordered!Next
       /\ UNCHANGED <<part, truthsVars, attentionVars, wifiVars, pluginVars,
                     mapVars, learnedVars, scheduleVars, habitsVars,
                     trackerVars, plansVars, commissioningVars, contextVars>>
    \/ part = "schedule" /\ Schedule!Next
       /\ UNCHANGED <<part, truthsVars, attentionVars, wifiVars, pluginVars,
                     mapVars, learnedVars, reviewedVars, habitsVars,
                     trackerVars, plansVars, commissioningVars, contextVars>>
    \/ part = "habits" /\ Habits!Next
       /\ UNCHANGED <<part, truthsVars, attentionVars, wifiVars, pluginVars,
                     mapVars, learnedVars, reviewedVars, scheduleVars,
                     trackerVars, plansVars, commissioningVars, contextVars>>
    \/ part = "reviews" /\ Reviewing!Next
       /\ UNCHANGED <<part, truthsVars, attentionVars, wifiVars, pluginVars,
                     mapVars, learnedVars, reviewedVars, scheduleVars,
                     trackerVars, plansVars, commissioningVars, contextVars>>
    \/ part = "incident" /\ Incident!Next
       /\ UNCHANGED <<part, truthsVars, attentionVars, wifiVars, pluginVars,
                     mapVars, learnedVars, reviewedVars, scheduleVars,
                     trackerVars, plansVars, commissioningVars, contextVars>>
    \/ part = "modes" /\ Modes!Next
       /\ UNCHANGED <<part, truthsVars, attentionVars, wifiVars, pluginVars,
                     mapVars, learnedVars, reviewedVars, scheduleVars,
                     trackerVars, plansVars, commissioningVars, contextVars>>
    \/ part = "tracker" /\ Tracker!Next
       /\ UNCHANGED <<part, truthsVars, attentionVars, wifiVars, pluginVars,
                     mapVars, learnedVars, reviewedVars, scheduleVars,
                     habitsVars, plansVars, commissioningVars, contextVars>>
    \/ part = "plans" /\ Plans!Next
       /\ UNCHANGED <<part, truthsVars, attentionVars, wifiVars, pluginVars,
                     mapVars, learnedVars, reviewedVars, scheduleVars,
                     habitsVars, trackerVars, commissioningVars, contextVars>>
    \/ part = "commissioning" /\ Commissioning!Next
       /\ UNCHANGED <<part, truthsVars, attentionVars, wifiVars, pluginVars,
                     mapVars, learnedVars, reviewedVars, scheduleVars,
                     habitsVars, trackerVars, plansVars, contextVars>>
    \/ part = "context" /\ Context!Next
       /\ UNCHANGED <<part, truthsVars, attentionVars, wifiVars, pluginVars,
                     mapVars, learnedVars, reviewedVars, scheduleVars,
                     habitsVars, trackerVars, plansVars, commissioningVars>>

Spec == Init /\ [][Next]_vars

TypeOK ==
    /\ part = "truths" => Truth!TypeOK
    /\ part = "attention" => Attending(Sole)!TypeOK
    /\ part = "overtaken" => Attending(Racing)!TypeOK
    /\ part = "wifi" => Wifi!WifiTypeOK
    /\ part = "plugin" => Plugins!LifeTypeOK
    /\ part = "map" => Map!MapTypeOK
    /\ part = "learned" => Notes!NotesTypeOK
    /\ part = "reviewed" => Forecast!ForecastTypeOK
    /\ part = "owned" => Ordered!ForecastTypeOK
    /\ part = "schedule" => Schedule!ScheduleTypeOK
    /\ part = "habits" => Habits!EvidenceTypeOK
    /\ part = "reviews" => Reviewing!EvidenceTypeOK
    /\ part = "incident" => Incident!EvidenceTypeOK
    /\ part = "modes" => Modes!EvidenceTypeOK
    /\ part = "tracker" => Tracker!TrackerTypeOK
    /\ part = "plans" => Plans!PlansTypeOK
    /\ part = "commissioning" => Commissioning!HomeTypeOK
    /\ part = "context" => Context!ContextTypeOK

\* What is passed, wanted or due has been taken in: the projection up to its
\* checkpoint, the decisions up to a consumer's cursor, the truths of what was
\* commissioned, a fresh ring, a review's dispatch and the configuration its schedule
\* follows.  Each part says what it leaves out: rows that commit where a projector has
\* read, commissionings that could not reconcile, schedules written by two that cross.
NothingIsMissed ==
    /\ part = "truths" => Truth!CheckpointIsProjected
    /\ part = "attention" => Attending(Sole)!PassedIsDecided
    /\ part = "overtaken" => Attending(Racing)!PassedIsDecided
    /\ part = "schedule" => Schedule!DispatchIsAccounted
    /\ part = "schedule" => Schedule!ScheduleFollowsConfig
    /\ part = "tracker" => Tracker!FreshRingsAreHeard
    /\ part = "commissioning" => Commissioning!TruthFollowsBinding

\* What is kept says what happened, and stays as it was last told: live attention is
\* its replay, the calendar that of its audits, a routine and a plugin what was chosen,
\* an edge a change that was seen, a verdict of a forecast its evidence, a context what
\* stood and a habit what was observed.
RecordsAreTrue ==
    /\ part = "attention" => Attending(Sole)!LiveMatchesReplay
    /\ part = "overtaken" => Attending(Racing)!LiveMatchesReplay
    /\ part = "overtaken" => Attending(Racing)!TriggersAreDecided
    /\ part = "overtaken" => Attending(Racing)!RateIsKept
    /\ part = "plans" => Plans!CalendarIsReplay
    /\ part = "plans" => Plans!AuditsAreTrue
    /\ part = "plans" => Plans!RoutinesAreSettled
    /\ part = "plugin" => Plugins!ChoiceSurvives
    /\ part = "learned" => Notes!SynchronizedIsTrue
    /\ part = "tracker" => Tracker!EdgesAlternate
    /\ part = "reviewed" => Forecast!NegativesAreEarned
    /\ part = "owned" => Ordered!NegativesAreEarned
    /\ part = "commissioning" => Commissioning!NotDoneIsNotDone
    /\ part = "context" => Context!NothingVanishes
    /\ part = "context" => Context!LeastFirst
    /\ part = "context" => Context!NothingWithdrawnIsShown
    /\ part = "habits" => Habits!SupportIsReal
    /\ part = "habits" => Habits!LearnedIsEarned
    /\ part = "reviews" => Reviewing!LearnedIsEarned
    /\ part = "reviews" => Reviewing!SuccessIsKept
    /\ part = "incident" => Incident!ToldIsKept
    /\ part = "modes" => Modes!ToldIsKept

\* What stands on the map stays attached whatever overlaps, and is one tree until a
\* writer overtakes another; what was commissioned is installed where it was asked, a
\* person's presence can be read.
HomeIsWhole ==
    /\ part = "map" => Map!HomeIsWhole
    /\ part = "tracker" => Tracker!PresenceIsReadable
    /\ part = "commissioning" => Commissioning!DeviceIsPlaced
    /\ part = "commissioning" => Commissioning!StepIsKnown

\* An arrival or a departure is told only after enough sweeps saw it, a verdict of a
\* forecast only on what was recorded in time, and a packet told is never rewritten.
ToldIsEarned ==
    /\ Wifi!PresenceEdgesAreEarned
    /\ Forecast!ForecastIsHonest
    /\ Context!PacketIsKept
============================================================================
