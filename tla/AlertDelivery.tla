--------------------------- MODULE AlertDelivery ---------------------------
(***************************************************************************)
(* The ledger of mandatory speech (alert_delivery.py): one obligation that *)
(* Core wrote into a queued request, its canonical announcement and the    *)
(* follow-up that the model's answer adds, and the registered speakers     *)
(* that claim, announce that they are about to play, play and report.      *)
(* The speakers are outside the repository.                                *)
(***************************************************************************)
EXTENDS Integers

CONSTANTS
    Speakers,
    None,
    MaxClaims       \* bound: claims of one phrase

VARIABLES
    ledger,     \* phase -> its part of required_delivery
    old,        \* ten minutes have passed since the request was created
    cancelled,  \* the request's lifecycle is CANCELLED
    speaker,    \* speaker -> what it holds and how far it is
    plays       \* history: phase -> how often its phrase was started

vars == <<ledger, old, cancelled, speaker, plays>>

Phases == {"CANONICAL", "FOLLOWUP"}
Terminal == {"DELIVERED", "UNKNOWN", "ESCALATED", "CANCELLED"}
States == {"NONE", "PENDING", "CLAIMED", "PLAYBACK_INTENT"} \cup Terminal
Free == [at |-> "idle", phase |-> "CANONICAL", generation |-> 0]

TypeOK ==
    /\ ledger \in [Phases -> [state : States, generation : 0..MaxClaims, client : Speakers \cup {None},
                              leased : BOOLEAN, waits : BOOLEAN, ready : BOOLEAN]]
    /\ \A p \in Phases : ledger[p].state \in {"CLAIMED", "PLAYBACK_INTENT"} =>
                           ledger[p].client # None /\ ledger[p].generation > 0
    /\ old \in BOOLEAN /\ cancelled \in BOOLEAN
    /\ speaker \in [Speakers -> [at : {"idle", "claimed", "intent", "playing", "played"},
                                 phase : Phases, generation : 0..MaxClaims]]
    /\ plays \in [Phases -> 0..MaxClaims]

(* initialize_required_delivery: the announcement is owed, no follow-up yet. *)
Init ==
    /\ ledger = [p \in Phases |->
          [state |-> IF p = "CANONICAL" THEN "PENDING" ELSE "NONE", generation |-> 0,
           client |-> None, leased |-> FALSE, waits |-> FALSE, ready |-> p = "CANONICAL"]]
    /\ old = FALSE /\ cancelled = FALSE
    /\ speaker = [s \in Speakers |-> Free]
    /\ plays = [p \in Phases |-> 0]

(* The follow-up is looked at once the announcement is delivered. *)
Active == IF ledger["CANONICAL"].state = "DELIVERED" THEN "FOLLOWUP" ELSE "CANONICAL"

\* Mutant: what is not ready is not looked at, however old it is.
DueReady(p) ==
    /\ ledger[p].state \in {"PENDING", "CLAIMED", "PLAYBACK_INTENT"}
    /\ ledger[p].state = "PENDING" \/ ~ledger[p].leased
    /\ ~ledger[p].waits
    /\ ledger[p].ready

Due(p) ==
    /\ ledger[p].state \in {"PENDING", "CLAIMED", "PLAYBACK_INTENT"}
    /\ ledger[p].state = "PENDING" \/ ~ledger[p].leased
    /\ ~ledger[p].waits
    /\ ledger[p].ready \/ old

(* A phase gets a state; with the announcement's, the follow-up that was   *)
(* queued is given up where the code does so.                              *)
Set(p, state) == [ledger EXCEPT ![p].state = state]
SetAndDrop(p, state) ==
    [q \in Phases |->
        IF q = "FOLLOWUP" /\ ledger[q].state # "NONE"
        THEN [ledger[q] EXCEPT !.state = "ESCALATED"]
        ELSE IF q = p THEN [ledger[q] EXCEPT !.state = state] ELSE ledger[q]]

-----------------------------------------------------------------------------
(* PostgresRequiredDelivery.next: what a poll finds decides what it does.  *)

\* Mutant: an intent without a receipt is offered again.
OfferAgain(p) ==
    /\ ledger[p].state = "PLAYBACK_INTENT"
    /\ ledger' = Set(p, "PENDING")

LoseReceipt(p) ==
    /\ ledger[p].state = "PLAYBACK_INTENT"
    /\ ledger' = SetAndDrop(p, "UNKNOWN")

ExpireObligation(p) ==
    /\ ledger[p].state # "PLAYBACK_INTENT" /\ old
    /\ ledger' = SetAndDrop(p, "ESCALATED")

EscalateCancelled(p) ==
    /\ ledger[p].state # "PLAYBACK_INTENT" /\ ~old /\ cancelled
    /\ ledger' = Set(p, "ESCALATED")

(* Policy revoked, policy or words unavailable (tried again later), or the *)
(* source event stale by its own clock.                                    *)
WithholdSpeech(p) ==
    /\ ledger[p].state # "PLAYBACK_INTENT" /\ ~old /\ ~cancelled
    /\ \/ ledger' = Set(p, "CANCELLED")
       \/ ledger' = [ledger EXCEPT ![p].state = "PENDING", ![p].waits = TRUE]
       \/ ledger' = Set(p, "ESCALATED")

\* Mutant: a claim that does not count up.
ClaimUncounted(s, p) ==
    /\ ledger[p].state # "PLAYBACK_INTENT" /\ ~old /\ ~cancelled
    /\ ledger' = [ledger EXCEPT ![p].state = "CLAIMED", ![p].leased = TRUE, ![p].client = s]
    /\ speaker' = [speaker EXCEPT ![s] = [at |-> "claimed", phase |-> p,
                                          generation |-> ledger[p].generation]]

Claim(s, p) ==
    /\ ledger[p].state # "PLAYBACK_INTENT" /\ ~old /\ ~cancelled
    /\ ledger[p].generation < MaxClaims
    /\ ledger' = [ledger EXCEPT ![p].state = "CLAIMED", ![p].leased = TRUE, ![p].client = s,
                                ![p].generation = @ + 1]
    /\ speaker' = [speaker EXCEPT ![s] = [at |-> "claimed", phase |-> p,
                                          generation |-> ledger[p].generation + 1]]

Poll(s) ==
    /\ speaker[s].at = "idle"
    /\ Due(Active)
    /\ \/ /\ \/ LoseReceipt(Active) \/ ExpireObligation(Active)
             \/ EscalateCancelled(Active) \/ WithholdSpeech(Active)
          /\ UNCHANGED speaker
       \/ Claim(s, Active)
    /\ UNCHANGED <<old, cancelled, plays>>

-----------------------------------------------------------------------------
(* PostgresRequiredDelivery.transition: a receipt must name the claim that *)
(* is in force.                                                            *)

Bound(s) ==
    LET p == speaker[s].phase IN
    /\ ledger[p].client = s /\ ledger[p].generation = speaker[s].generation
    /\ ledger[p].leased
    /\ p = "FOLLOWUP" => ledger["CANONICAL"].state = "DELIVERED"

Released(s) == speaker' = [speaker EXCEPT ![s] = Free]

(* The policy is asked again before the intent is written. *)
PlaybackIntent(s) ==
    /\ speaker[s].at = "claimed"
    /\ Bound(s) /\ ledger[speaker[s].phase].state = "CLAIMED"
    /\ ledger' = Set(speaker[s].phase, "PLAYBACK_INTENT")
    /\ speaker' = [speaker EXCEPT ![s].at = "intent"]
    /\ UNCHANGED <<old, cancelled, plays>>

(* No start: claimable again if that is proved or no intent was written. *)
Unstarted(s) ==
    LET p == speaker[s].phase IN
    /\ speaker[s].at \in {"claimed", "intent", "playing"}
    /\ Bound(s) /\ ledger[p].state \in {"CLAIMED", "PLAYBACK_INTENT"}
    /\ IF ledger[p].state = "PLAYBACK_INTENT" /\ speaker[s].at = "playing"
       THEN ledger' = IF p = "CANONICAL" THEN SetAndDrop(p, "UNKNOWN") ELSE Set(p, "UNKNOWN")
       ELSE ledger' = [ledger EXCEPT ![p].state = "PENDING", ![p].waits = TRUE]
    /\ Released(s)
    /\ UNCHANGED <<old, cancelled, plays>>

ContentUnavailable(s) ==
    /\ speaker[s].at = "claimed" /\ speaker[s].phase = "FOLLOWUP"
    /\ Bound(s) /\ ledger["FOLLOWUP"].state = "CLAIMED"
    /\ ledger' = Set("FOLLOWUP", "ESCALATED")
    /\ Released(s)
    /\ UNCHANGED <<old, cancelled, plays>>

(* Delivered needs the evidence of a completed playback. *)
Report(s) ==
    LET p == speaker[s].phase IN
    /\ speaker[s].at \in {"intent", "playing", "played"}
    /\ Bound(s) /\ ledger[p].state = "PLAYBACK_INTENT"
    /\ \/ /\ speaker[s].at = "played"
          /\ ledger' = Set(p, "DELIVERED")
       \/ ledger' = IF p = "CANONICAL" THEN SetAndDrop(p, "UNKNOWN") ELSE Set(p, "UNKNOWN")
    /\ Released(s)
    /\ UNCHANGED <<old, cancelled, plays>>

-----------------------------------------------------------------------------
(* The follow-up *)

QueueFollowup ==
    /\ ledger["CANONICAL"].state \notin {"UNKNOWN", "ESCALATED", "CANCELLED"}
    /\ ledger["FOLLOWUP"].state = "NONE"
    /\ ledger' = Set("FOLLOWUP", "PENDING")
    /\ UNCHANGED <<old, cancelled, speaker, plays>>

ReadyFollowup ==
    /\ ledger["FOLLOWUP"].state = "PENDING" /\ ~ledger["FOLLOWUP"].ready
    /\ ledger' = [ledger EXCEPT !["FOLLOWUP"].ready = TRUE]
    /\ UNCHANGED <<old, cancelled, speaker, plays>>

-----------------------------------------------------------------------------
(* The environment: speakers and time *)

Play(s) ==
    /\ \/ /\ speaker[s].at = "intent"
          /\ plays' = [plays EXCEPT ![speaker[s].phase] = @ + 1]
          /\ speaker' = [speaker EXCEPT ![s].at = "playing"]
       \/ /\ speaker[s].at = "playing"
          /\ speaker' = [speaker EXCEPT ![s].at = "played"]
          /\ UNCHANGED plays
    /\ UNCHANGED <<ledger, old, cancelled>>

(* A speaker gives up, is refused or dies; its receipts no longer come. *)
Leave(s) ==
    /\ speaker[s].at # "idle"
    /\ Released(s)
    /\ UNCHANGED <<ledger, old, cancelled, plays>>

LeaseEnds(p) ==
    /\ ledger[p].leased
    /\ ledger' = [ledger EXCEPT ![p].leased = FALSE]
    /\ UNCHANGED <<old, cancelled, speaker, plays>>

RetryDue(p) ==
    /\ ledger[p].waits
    /\ ledger' = [ledger EXCEPT ![p].waits = FALSE]
    /\ UNCHANGED <<old, cancelled, speaker, plays>>

TenMinutes == ~old /\ old' = TRUE /\ UNCHANGED <<ledger, cancelled, speaker, plays>>

CancelRequest == ~cancelled /\ cancelled' = TRUE /\ UNCHANGED <<ledger, old, speaker, plays>>

Next ==
    \/ \E s \in Speakers :
          \/ Poll(s) \/ PlaybackIntent(s) \/ Unstarted(s) \/ ContentUnavailable(s)
          \/ Report(s) \/ Play(s) \/ Leave(s)
    \/ QueueFollowup \/ ReadyFollowup
    \/ \E p \in Phases : LeaseEnds(p) \/ RetryDue(p)
    \/ TenMinutes \/ CancelRequest

Spec == Init /\ [][Next]_vars

(* Each phrase is started at most once, whatever is lost between a speaker *)
(* and Core, and the follow-up only after the announcement was reported    *)
(* delivered (PostgresRequiredDelivery.next, transition).                  *)
SpokenOnce ==
    /\ \A p \in Phases : plays[p] <= 1
    /\ plays["FOLLOWUP"] > 0 => ledger["CANONICAL"].state = "DELIVERED"

(* Somebody polls and time passes; no speaker is asked to answer. *)
Fairness ==
    /\ WF_vars(\E s \in Speakers : Poll(s))
    /\ WF_vars(\E s \in Speakers : Leave(s))
    /\ \A p \in Phases : WF_vars(LeaseEnds(p)) /\ WF_vars(RetryDue(p))
    /\ WF_vars(TenMinutes)

(* The obligation ends: delivered, unknown, escalated or cancelled, and so *)
(* does the follow-up of a delivered announcement (the ledger's bounded    *)
(* expiry, alert_delivery.py next).                                        *)
ObligationSettles ==
    <>(/\ ledger["CANONICAL"].state \in Terminal
       /\ ledger["CANONICAL"].state = "DELIVERED"
            => ledger["FOLLOWUP"].state \in Terminal \cup {"NONE"})
=============================================================================
