-------------------------- MODULE LearningForecast --------------------------
(* A forecast that a saved review commissions, or that the owner chooses      *)
(* (src/anima_ha/household_learning.py _complete_review, freeze_shadow,       *)
(* evaluate_shadows and household_shadow.py): a few future windows are frozen *)
(* under the owner's saved consent or at the owner's word, and each is scored *)
(* once it has closed, from the journal and from what the source covered.     *)
(*  The review worker and the owner's handler   *)
(* evaluate in different threads, on what they read before; records reach the *)
(* journal late.  The forecast's row is replaced version by version.          *)
EXTENDS Naturals, Sequences

CONSTANTS Origin,     \* "REVIEW" or "OWNER": who has this forecast frozen
          Threads,
          Count,      \* windows of the forecast
          Grace,      \* late_grace_seconds, in ticks
          MaxTime,
          MaxEdits,   \* revocations, dismissals, acknowledgements, retirements
          None

VARIABLES
    clock,
    consent,     \* the configuration the review was bound to still stands
    hypothesis,  \* the suggestion stands, not dismissed
    source,      \* what the forecast is about is still in the household
    completions, \* the standing dispositions of the review: what each says of the
                 \* forecast
    said,        \* those and the ones they replaced
    recorded,    \* tick -> when what occurred then was recorded, None if nothing was
    shadow,      \* the forecast's standing version
    version,     \* its number
    thread,      \* thread -> what it has read
    overtaken,   \* history: ticks recorded after an evaluator read the journal
                 \* and before it looked at the clock
    edits

forecastVars == <<clock, consent, hypothesis, source, completions, said, recorded, shadow, version,
                  thread, overtaken, edits>>

\* What the household does to the journal and to its configuration.
reviewVars == <<completions, said, shadow, version, thread, overtaken>>

Free == [at |-> "idle", consent |-> FALSE, hypothesis |-> FALSE, source |-> FALSE,
         shadow |-> None, version |-> 0, page |-> <<>>, previous |-> None, report |-> None]

Init ==
    /\ clock = 0
    /\ consent = TRUE /\ hypothesis = TRUE /\ source = TRUE /\ completions = {} /\ said = {}
    /\ recorded = [c \in 1..MaxTime |-> None]
    /\ shadow = None /\ version = 0
    /\ thread = [t \in Threads |-> Free]
    /\ overtaken = {} /\ edits = 0

(***************************** The household *******************************)
Tick ==
    /\ clock < MaxTime /\ (shadow = None => clock = 0) /\ clock' = clock + 1
    /\ UNCHANGED <<consent, hypothesis, source, recorded, edits, reviewVars>>

\* An observation reaches the journal, now or long after it was made; those
\* before the forecast or behind its windows are nothing to it.
Observe ==
    /\ shadow # None
    /\ \E c \in (shadow.frozen + 1)..(shadow.frozen + Count) :
         /\ c <= clock /\ recorded[c] = None
         /\ recorded' = [recorded EXCEPT ![c] = clock]
         /\ overtaken' = IF \E t \in Threads : thread[t].at = "judge"
                         THEN overtaken \cup {c} ELSE overtaken
    /\ UNCHANGED <<clock, consent, hypothesis, source, completions, said, shadow, version, thread, edits>>

Edit == edits < MaxEdits /\ edits' = edits + 1

\* configure replaces the configuration: a consent bound to the old one is gone.
Revoke ==
    /\ consent /\ Edit /\ consent' = FALSE
    /\ UNCHANGED <<clock, hypothesis, source, recorded, reviewVars>>

\* The owner dismisses the suggestion, or acknowledges it after all.
Decide ==
    /\ Edit /\ hypothesis' = ~hypothesis
    /\ UNCHANGED <<clock, consent, source, recorded, reviewVars>>

\* What the forecast is about is retired.
Retire ==
    /\ source /\ Edit /\ source' = FALSE
    /\ UNCHANGED <<clock, consent, hypothesis, recorded, reviewVars>>

(****************************** The freezing *******************************)
Standing(c) == c # None /\ c \in completions

\* _complete_review: the outcomes and the last disposition were read, and the
\* consent is looked at before the lock is waited for.
Commission(t) ==
    /\ Origin = "REVIEW" /\ thread[t] = Free /\ (shadow = None => clock = 0)
    /\ \E previous \in IF completions = {} THEN {None} ELSE completions :
          thread' = [thread EXCEPT ![t] =
              [Free EXCEPT !.at = IF consent THEN "freeze" ELSE "complete",
                           !.report = "NOT_ELIGIBLE", !.hypothesis = hypothesis,
                           !.previous = previous]]
    /\ UNCHANGED <<clock, consent, hypothesis, source, completions, said, recorded, shadow, version,
                   overtaken, edits>>

\* A mutant: the consent seen before the lock will do.
ConsentStoodBefore == TRUE

\* The configuration's row is locked before it is looked at again.
ConsentStands == consent

Ahead == clock + Count + Grace <= MaxTime

Write(by) ==
    /\ shadow' = [by |-> by, frozen |-> clock, disposition |-> "EVIDENCE_PENDING", windows |-> <<>>]
    /\ version' = version + 1

\* _freeze_automatic, under the household's lock: the windows lie ahead; the
\* receipt of a forecast that was frozen already is the answer again.
Freeze(t) ==
    /\ thread[t].at = "freeze"
    /\ IF ConsentStands /\ shadow = None /\ source /\ thread[t].hypothesis /\ Ahead
       THEN Write("REVIEW") ELSE UNCHANGED <<shadow, version>>
    /\ thread' = [thread EXCEPT ![t].at = "complete",
                                ![t].report = IF ~ConsentStands THEN "NOT_ELIGIBLE"
                                              ELSE IF shadow' # None THEN "FROZEN"
                                              ELSE "INSUFFICIENT_SUPPORTED_PREDICTION"]
    /\ UNCHANGED <<clock, consent, hypothesis, source, completions, said, recorded, overtaken, edits>>

\* A disposition replaces the one that was read, if that one still stands; several
\* that read none all stand; what was said once is never said again.
Replaced(t) ==
    IF thread[t].report \in said \/ (thread[t].previous # None /\ ~Standing(thread[t].previous))
    THEN completions
    ELSE (completions \ {thread[t].previous}) \cup {thread[t].report}

Complete(t) ==
    /\ thread[t].at = "complete"
    /\ completions' = Replaced(t) /\ said' = said \cup completions'
    /\ thread' = [thread EXCEPT ![t] = Free]
    /\ UNCHANGED <<clock, consent, hypothesis, source, recorded, shadow, version, overtaken, edits>>

\* freeze_shadow: the owner chooses windows for a hypothesis that stands; what the
\* same request froze before is the answer again.
Choose(t) ==
    /\ Origin = "OWNER" /\ thread[t] = Free /\ shadow = None /\ hypothesis /\ source
    /\ thread' = [thread EXCEPT ![t] = [Free EXCEPT !.at = "write"]]
    /\ UNCHANGED <<clock, consent, hypothesis, source, completions, said, recorded, shadow, version,
                   overtaken, edits>>

WriteChosen(t) ==
    /\ thread[t].at = "write"
    /\ IF shadow = None /\ Ahead THEN Write("OWNER") ELSE UNCHANGED <<shadow, version>>
    /\ thread' = [thread EXCEPT ![t] = Free]
    /\ UNCHANGED <<clock, consent, hypothesis, source, completions, said, recorded, overtaken, edits>>

(***************************** The evaluation ******************************)
Final == {"SUPERSEDED_HYPOTHESIS", "CANCELLED_SAVED_REVIEW", "INVALIDATED_SOURCE"}
Verdicts == {"POSITIVE", "NEGATIVE", "UNKNOWN"}
Forecasts ==
    [by : {"REVIEW", "OWNER"}, frozen : Nat, windows : Seq(Verdicts),
     disposition : Final \cup {"EVIDENCE_PENDING", "WINDOW_CLOSED_UNKNOWN_COVERAGE", "WINDOW_SCORED"}]

\* What stands for no forecast is none.
ForecastAssumption == Count \in Nat /\ Grace \in Nat /\ None \notin Forecasts

\* evaluate_shadows reads the forecast, its hypothesis, the journal and the consent.
Look(t) ==
    /\ thread[t] = Free /\ shadow # None /\ shadow.disposition \notin Final
    /\ thread' = [thread EXCEPT ![t] =
           [Free EXCEPT !.at = "judge", !.consent = consent \/ Origin = "OWNER",
                        !.source = source \/ Origin = "OWNER", !.hypothesis = hypothesis,
                        !.shadow = shadow, !.version = version, !.page = recorded]]
    /\ UNCHANGED <<clock, consent, hypothesis, source, completions, said, recorded, shadow, version,
                   overtaken, edits>>

\* The i-th window is one tick; it closes when the grace after its end is over.
Start(s, i) == s.frozen + i
Closed(s, i) == s.frozen + i + Grace

InTime(s, i, page) == page[Start(s, i)] # None /\ page[Start(s, i)] <= Closed(s, i)
Late(s, i, page) == page[Start(s, i)] # None /\ page[Start(s, i)] > Closed(s, i)

\* score_window: a receipt in time is a positive; silence is a negative only
\* where the source covered the whole window and nothing came late.
Score(s, i, page, covered) ==
    CASE InTime(s, i, page)                  -> "POSITIVE"
      [] covered /\ page[Start(s, i)] = None -> "NEGATIVE"
      [] OTHER                               -> "UNKNOWN"

\* A mutant: a closed window is scored again.
Rescored(s, i, page) == Score(s, i, page, TRUE)

\* A late record takes away what silence had seemed to say.
Reviewed(s, i, page) ==
    IF Late(s, i, page) /\ s.windows[i] # "POSITIVE" THEN "UNKNOWN" ELSE s.windows[i]

\* A mutant: a window is closed at its end, without the grace.
ClosedAtOnce(s) == {i \in 1..Count : Start(s, i) <= clock}

ClosedByNow(s) == {i \in 1..Count : Closed(s, i) <= clock}

Judged(t, covered) ==
    LET s == thread[t].shadow
        due == {i \in ClosedByNow(s) : i > Len(s.windows)}
        n == Len(s.windows)
        windows == [i \in 1..(IF due = {} THEN n ELSE CHOOSE k \in due : \A j \in due : j <= k) |->
                      IF i <= n THEN Reviewed(s, i, thread[t].page)
                      ELSE Score(s, i, thread[t].page, i \in covered)]
    IN IF ~thread[t].source THEN [s EXCEPT !.disposition = "INVALIDATED_SOURCE"]
       ELSE IF ~thread[t].consent THEN [s EXCEPT !.disposition = "CANCELLED_SAVED_REVIEW"]
       ELSE IF ~thread[t].hypothesis THEN [s EXCEPT !.disposition = "SUPERSEDED_HYPOTHESIS"]
       ELSE [s EXCEPT !.windows = windows,
                      !.disposition = IF Len(windows) < Count THEN "EVIDENCE_PENDING"
                                      ELSE IF \E i \in 1..Count : windows[i] = "UNKNOWN"
                                      THEN "WINDOW_CLOSED_UNKNOWN_COVERAGE" ELSE "WINDOW_SCORED"]

\* The verdict replaces the version it was made of, if that one still stands.
Judge(t) ==
    /\ thread[t].at = "judge"
    /\ \E covered \in SUBSET (1..Count) :
         IF thread[t].version = version /\ Judged(t, covered) # shadow
         THEN shadow' = Judged(t, covered) /\ version' = version + 1
         ELSE UNCHANGED <<shadow, version>>
    /\ thread' = [thread EXCEPT ![t] = Free]
    /\ UNCHANGED <<clock, consent, hypothesis, source, completions, said, recorded, overtaken, edits>>

Next ==
    \/ Tick \/ Observe \/ Revoke \/ Decide \/ Retire
    \/ \E t \in Threads : \/ Commission(t) \/ Freeze(t) \/ Complete(t)
                          \/ Choose(t) \/ WriteChosen(t) \/ Look(t) \/ Judge(t)

Spec == Init /\ [][Next]_forecastVars

ForecastTypeOK ==
    /\ clock \in 0..MaxTime
    /\ shadow = None \/ /\ shadow.frozen \in 0..MaxTime
                        /\ shadow.windows \in Seq(Verdicts)
                        /\ Len(shadow.windows) <= Count

\* A closed negative had no receipt in time, unless one was recorded while the
\* evaluator that closed it was already reading.
NegativesAreEarned ==
    shadow # None => \A i \in 1..Len(shadow.windows) :
        shadow.windows[i] = "NEGATIVE" /\ Start(shadow, i) \notin overtaken
            => recorded[Start(shadow, i)] = None \/ recorded[Start(shadow, i)] >= Closed(shadow, i)

\* A review's forecast is frozen under a consent that stands, and its disposition says
\* so only when it was; a closed window never becomes more certain than it was; a
\* forecast that was given up stays so.
ForecastStep ==
    /\ shadow = None /\ shadow' # None => shadow'.by = "OWNER" \/ consent
    /\ "FROZEN" \in completions' => shadow' # None /\ shadow'.by = "REVIEW"
    /\ shadow # None =>
         /\ shadow.disposition \in Final => shadow' = shadow
         /\ \A i \in 1..Len(shadow.windows) :
              shadow'.windows[i] = shadow.windows[i] \/ shadow'.windows[i] = "UNKNOWN"
ForecastIsHonest == [][ForecastStep]_forecastVars
=============================================================================
