--------------------------- MODULE HouseholdProofs ---------------------------
(* Theorems about MCHousehold, in which one component runs and the others     *)
(* stay as they were.                                                         *)
EXTENDS MCHousehold, HouseholdPartsProofs

\* A step is one of the component that runs, and leaves the others alone.
LEMMA EachPartSteps ==
    [Next]_vars =>
        /\ part' = part
        /\ [Map!Next]_mapVars /\ [Tracker!Next]_trackerVars
        /\ [Commissioning!Next]_commissioningVars
        /\ [Wifi!Next]_wifiVars /\ [Context!Next]_contextVars
        /\ [Truth!Next]_truthsVars /\ [Schedule!Next]_scheduleVars
        /\ part = "overtaken" => [Attending(Racing)!Next]_attentionVars
        /\ part # "overtaken" => [Attending(Sole)!Next]_attentionVars
        /\ part = "owned" => [Ordered!Next]_reviewedVars
        /\ part # "owned" => [Forecast!Next]_reviewedVars
BY DEF Next, vars

\* Whatever transactions overlap, the household stands, every standing space keeps a
\* row above it and every standing device a row that places it.  Until one of them
\* writes on what another had overtaken the spaces are one tree under the household
\* with siblings named apart, and a device stands in one standing space: two owners
\* who move rooms at once can lose that, in the code as here.  A commissioned
\* device is placed while it stands, in one place unless it was commissioned twice;
\* the step of the ZHA set-up is Home Assistant's unless requests overlapped; a
\* person's presence can be read unless assignments crossed.  For any household, any
\* number of owners, clients, threads and devices, and any bound.
THEOREM HomeStaysWhole == Spec => []HomeIsWhole
<1> DEFINE Inv == MapInv /\ TrackerInv /\ CommissioningInv
<1>1. Init => Inv
  BY MapStart, TrackerStart, CommissioningStart DEF Init
<1>2. Inv /\ [Next]_vars => Inv'
  BY MapStep, TrackerStep, CommissioningStep, EachPartSteps
<1>3. Inv => HomeIsWhole
  BY MapHolds, TrackerHolds, CommissioningHolds DEF HomeIsWhole
<1> QED
  BY <1>1, <1>2, <1>3, PTL DEF Spec

\* Who begins a forecast decides what of it can be said.
ForecastIsBound ==
    /\ part = "owned" => ForecastInv("OWNER")
    /\ part # "owned" => ForecastInv("REVIEW")

\* A departure is told only after as many written sweeps in a row missed the phone as
\* it takes, and no event repeats the one before while the baseline stands; a
\* forecast is frozen under a consent that stands, is said to be frozen only when it
\* was, is never more certain than it was and stays given up; a packet is never
\* replaced and comes before its request.  For any number of sweeps, windows and
\* threads, and any bound on the changes of the house.
THEOREM WhatIsToldIsEarned == Spec => ToldIsEarned
<1> DEFINE Inv == WifiInv /\ ContextInv /\ ForecastIsBound
<1>1. Init => Inv
  BY WifiStart, ContextStart, ForecastStart DEF Init, ForecastIsBound
<1>2. Inv /\ [Next]_vars => Inv'
  BY WifiStep, ContextStep, ReviewedStep, OwnedStep, EachPartSteps DEF ForecastIsBound
<1>3. Inv /\ [Next]_vars => [Wifi!EdgeIsEarned]_(Wifi!wifiVars)
  BY WifiHolds, EachPartSteps
<1>4. Inv /\ [Next]_vars => [Forecast!ForecastStep]_(Forecast!forecastVars)
  BY ReviewedStep, OwnedStep, EachPartSteps DEF ForecastIsBound
<1>5. Inv /\ [Next]_vars => [Context!PacketStays]_(Context!contextVars)
  BY ContextHolds, EachPartSteps
<1> QED
  BY <1>1, <1>2, <1>3, <1>4, <1>5, PTL
  DEF Spec, ToldIsEarned, Wifi!PresenceEdgesAreEarned, Forecast!ForecastIsHonest, Context!PacketIsKept

\* How many consumers there are decides what is decided.
AttentionIsBound ==
    /\ part = "overtaken" => AttentionInv(Racing)
    /\ part # "overtaken" => AttentionInv(Sole)

\* Nothing that was passed, wanted or due is left out: the projection holds the rows
\* up to its checkpoint, a consumer has decided everything up to its cursor, what was
\* commissioned is the home's newest truth, a fresh ring is heard, a review that was
\* dispatched is accounted for and its schedule follows the configuration.  What the
\* code does lose is left out by name: a row that commits where a projector has read
\* already, until a rebuild; the rows behind a failure before the first checkpoint, or
\* beside a rebuild under a running projection; a device commissioned while another
\* thread reconciled; a schedule that two crossing reconciliations wrote; a ring of a
\* connection in which a hand-off failed.  For any readings, any number of projectors,
\* consumers, runners, threads and devices, any limits and rates, and any number of
\* faults.
THEOREM NothingMissed == Spec => []NothingIsMissed
<1> DEFINE Inv == /\ TruthInv /\ AttentionIsBound /\ ScheduleInv
                  /\ RingsInv /\ CommissioningInv /\ BindingInv
<1>1. Attending(Sole)!AttentionAssumption /\ Attending(Racing)!AttentionAssumption
  BY HouseholdAssumption
<1>2. Init => Inv
  <2>1. Init => AttentionIsBound
    <3> SUFFICES ASSUME Init PROVE AttentionIsBound
      OBVIOUS
    <3>1. CASE part = "overtaken"
      BY <1>1, <3>1, AttentionStart DEF Init, AttentionIsBound
    <3>2. CASE part # "overtaken"
      BY <1>1, <3>2, AttentionStart DEF Init, AttentionIsBound
    <3> QED
      BY <3>1, <3>2
  <2> QED
    BY <2>1, TruthStart, ScheduleStart, RingsStart, CommissioningStart, BindingStart DEF Init
<1>3. Inv /\ [Next]_vars => Inv'
  <2>1. AttentionIsBound /\ [Next]_vars => AttentionIsBound'
    BY <1>1, AttentionStep, EachPartSteps DEF AttentionIsBound
  <2> QED
    BY <2>1, TruthStep, ScheduleStep, RingsStep, CommissioningStep, BindingStep, EachPartSteps
<1>4. Inv => NothingIsMissed
  <2>1. AttentionIsBound => /\ part = "attention" => Attending(Sole)!PassedIsDecided
                            /\ part = "overtaken" => Attending(Racing)!PassedIsDecided
    BY AttentionHolds DEF AttentionIsBound
  <2> QED
    BY <2>1, TruthHolds, ScheduleHolds, RingsHold, BindingHolds DEF NothingIsMissed
<1> QED
  BY <1>2, <1>3, <1>4, PTL DEF Spec
=============================================================================
