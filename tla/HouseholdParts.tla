--------------------------- MODULE HouseholdParts ---------------------------
(* The components of MCHousehold of which something is proved: what is believed *)
(* and decided, the map of the home, what is commissioned into it, who is seen  *)
(* in it, what is foretold of it and what a trigger may know of it.             *)
EXTENDS Integers

CONSTANTS
    Events, MaxPosition, Reported,                     \* the truths
    Projectors, Poison, MaxRebuilds,
    Kinds, Window, Cooldown, RateCount, RateWindow,    \* attention
    Sole, Racing,
    Runners, MaxVersions, MaxEvidence, MaxAttempts,    \* the review's schedule
    ScheduleFaults,
    Household, Floors, Spaces, FirstSpaces,            \* the map
    SpaceNames, FirstName,
    Devices, Clients, MaxWrites,
    Trackers, MaxCalls, MaxChanges, HomeFaults,        \* what is commissioned
    People, Owners, Kind, Freshness,
    TrackerTime, TrackerEvents, TrackerFaults,         \* a person's tracker
    Confirmation, MaxEvents, MaxEdits, WifiFaults,     \* the network's observer
    Count, Grace, ForecastTime, ForecastEdits,         \* the forecast
    Threads, ContextFaults,
    None

VARIABLES head, row, pos, checkpoint, observed, truth, proj, broken, skipped,
          rebuilds,
          log, cursor, error, failures, tables, call, writer, work, primed,
          order, overtaken, faults,
          phone, binding, file, sweep, journal, missed, wifiBroken, wifiFaults,
          name, live, contains, installed, rows, job, mapExcused, writes,
          clock, consent, hypothesis, source, completions, said, recorded,
          shadow, version, reviewedThread, reviewedOvertaken, edits,
          enabled, task, run, evidence, journaled, request, packet, hand,
          ensured, crossed, scheduleFaults,
          trackerClock, device, link, trackerTruth, base, edges,
          trackerBroken, ring, rings, failed, deaf, owned, linked, owner,
          trackerCrossed, events, trackerFaults,
          state, commissioningEnabled, online, commissioningJournaled, heard,
          known, node, rooms, once, zoned, reconciling, commissioningLive,
          setup, commissioningCall, ready, blind, again, told, unsure,
          commissioningCalls, commissioningFaults,
          contextStanding, contextBound, contextLive, contextJournal, changes,
          contextFaults, contextStored, trigger, contextRequest, contextRun,
          seen

\* Three devices, of which the second and the third are near the first.
Aliases == <<3, 2, 1>>
Neighbours == <<{2, 3}, {1}, {1}>>
Subjects == [m \in {11, 12, 21, 22} |-> CASE m = 12 -> 3 [] m = 21 -> 2 [] OTHER -> 1]

Truth == INSTANCE TruthProjection
    WITH Reading <- Reported
truthsVars == <<head, row, pos, checkpoint, observed, truth, proj, broken,
                skipped, rebuilds>>

Attending(k) == INSTANCE Attention
    WITH Consumers <- k.consumers, MaxTime <- k.time, MaxEvents <- k.events,
         Limits <- k.limits, MaxFaults <- k.faults
attentionVars == <<log, cursor, error, failures, tables, call, writer, work,
                   primed, order, overtaken, faults>>

Wifi == INSTANCE WifiPresence
    WITH broken <- wifiBroken, faults <- wifiFaults, MaxFaults <- WifiFaults
wifiVars == <<phone, binding, file, sweep, journal, missed, wifiBroken,
              wifiFaults>>

Map == INSTANCE HouseholdGraph
    WITH excused <- mapExcused, Standing <- FirstSpaces, Names <- SpaceNames
mapVars == <<name, live, contains, installed, rows, job, mapExcused, writes>>

Forecast == INSTANCE LearningForecast
    WITH thread <- reviewedThread, overtaken <- reviewedOvertaken,
         Origin <- "REVIEW", MaxTime <- ForecastTime,
         MaxEdits <- ForecastEdits
reviewedVars == <<clock, consent, hypothesis, source, completions, said,
                  recorded, shadow, version, reviewedThread,
                  reviewedOvertaken, edits>>

Ordered == INSTANCE LearningForecast
    WITH thread <- reviewedThread, overtaken <- reviewedOvertaken,
         Origin <- "OWNER", MaxTime <- ForecastTime, MaxEdits <- ForecastEdits

Schedule == INSTANCE LearningSchedule
    WITH faults <- scheduleFaults, MaxFaults <- ScheduleFaults
scheduleVars == <<enabled, task, run, evidence, journaled, request, packet,
                  hand, ensured, crossed, scheduleFaults>>

Tracker == INSTANCE TrackerPresence
    WITH clock <- trackerClock, truth <- trackerTruth,
         broken <- trackerBroken, crossed <- trackerCrossed,
         faults <- trackerFaults, Signals <- {"person", "wifi"},
         First <- "wifi", MaxTime <- TrackerTime, MaxEvents <- TrackerEvents,
         MaxFaults <- TrackerFaults
trackerVars == <<trackerClock, device, link, trackerTruth, base, edges,
                 trackerBroken, ring, rings, failed, deaf, owned, linked,
                 owner, trackerCrossed, events, trackerFaults>>

Commissioning == INSTANCE HomeCommissioning
    WITH enabled <- commissioningEnabled, journaled <- commissioningJournaled,
         live <- commissioningLive, call <- commissioningCall,
         calls <- commissioningCalls, faults <- commissioningFaults,
         Places <- FirstSpaces \cup {Household}, Zone <- Household,
         MaxFaults <- HomeFaults
commissioningVars == <<state, commissioningEnabled, online,
                       commissioningJournaled, heard, known, node, rooms,
                       once, zoned, reconciling, commissioningLive, setup,
                       commissioningCall, ready, blind, again, told, unsure,
                       commissioningCalls, commissioningFaults>>

Context == INSTANCE ContextWindow
    WITH standing <- contextStanding, bound <- contextBound,
         live <- contextLive, journal <- contextJournal,
         faults <- contextFaults, stored <- contextStored,
         request <- contextRequest, run <- contextRun, Nodes <- {1, 2, 3},
         Name <- Aliases, Direct <- {1}, Payload <- {}, Near <- Neighbours,
         Memories <- {11, 12}, About <- Subjects, Earlier <- {21},
         Later <- {22}, Limit <- 2, Bytes <- 12, MaxChanges <- 1,
         MaxFaults <- ContextFaults
contextVars == <<contextStanding, contextBound, contextLive, contextJournal,
                 changes, contextFaults, contextStored, trigger,
                 contextRequest, contextRun, seen>>

ASSUME HouseholdAssumption ==
    /\ Truth!TruthAssumption
    /\ Attending(Sole)!AttentionAssumption
    /\ Attending(Racing)!AttentionAssumption
    /\ Schedule!ScheduleAssumption
    /\ Map!MapAssumption
    /\ Tracker!TrackerAssumption
    /\ Commissioning!CommissioningAssumption
    /\ Wifi!WifiAssumption
    /\ Forecast!ForecastAssumption
=============================================================================
