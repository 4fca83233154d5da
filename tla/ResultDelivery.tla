--------------------------- MODULE ResultDelivery ---------------------------
(***************************************************************************)
(* Saying a verified approval outcome to the voice client that asked       *)
(* (approval_results.py delivery, sentry_service.py approval_reply). Every *)
(* call first looks the rows of the client over: a row whose action no     *)
(* longer has the status of its words is given up, and a lease that ended  *)
(* is settled. The client's instances are outside the repository.          *)
(***************************************************************************)
EXTENDS Integers, FiniteSets

CONSTANTS
    Replies,        \* requests with an outcome to be said, all of one client
    First,          \* the one whose row comes first in the order of the query
    Instances,      \* instances of the client
    None,
    MaxClaims       \* bound: claims of one reply

VARIABLES
    row,        \* reply -> its approval_outcome
    changed,    \* replies whose action got another status since
    stale,      \* replies resolved more than five minutes ago
    voice,      \* instance -> the claim it holds and how far it is
    plays       \* history: reply -> how often it was started

vars == <<row, changed, stale, voice, plays>>

States == {"PENDING", "CLAIMED", "PLAYBACK_INTENT", "DELIVERED", "UNKNOWN", "ESCALATED"}
Free == [at |-> "idle", reply |-> None, generation |-> 0]

TypeOK ==
    /\ row \in [Replies -> [delivery : States, generation : 0..MaxClaims,
                            instance : Instances \cup {None}, leased : BOOLEAN]]
    /\ \A r \in Replies : row[r].delivery \in {"CLAIMED", "PLAYBACK_INTENT"} =>
                            row[r].instance # None /\ row[r].generation > 0
    /\ changed \subseteq Replies /\ stale \subseteq Replies
    /\ voice \in [Instances -> [at : {"idle", "claimed", "intent", "playing", "played"},
                                reply : Replies \cup {None}, generation : 0..MaxClaims]]
    /\ plays \in [Replies -> 0..MaxClaims]

Init ==
    /\ row = [r \in Replies |-> [delivery |-> "PENDING", generation |-> 0, instance |-> None,
                                 leased |-> FALSE]]
    /\ changed = {} /\ stale = {}
    /\ voice = [i \in Instances |-> Free]
    /\ plays = [r \in Replies |-> 0]

\* Mutant: an intent whose lease is over is taken for one not begun.
CheckedAsUnbegun(r) ==
    [row[r] EXCEPT !.delivery =
        CASE r \in changed -> "UNKNOWN"
          [] r \notin changed /\ ~row[r].leased /\ @ \in {"PLAYBACK_INTENT", "CLAIMED"} -> "PENDING"
          [] OTHER -> @]

(* What looking a row over makes of it, before the operation itself.       *)
Checked(r) ==
    [row[r] EXCEPT !.delivery =
        CASE r \in changed -> "UNKNOWN"
          [] r \notin changed /\ ~row[r].leased /\ @ = "PLAYBACK_INTENT" -> "UNKNOWN"
          [] r \notin changed /\ ~row[r].leased /\ @ = "CLAIMED" -> "PENDING"
          [] OTHER -> @]

-----------------------------------------------------------------------------
(* operation = "next": rows in order, up to the first that is answered. *)

Open(r) == row[r].delivery \in {"PENDING", "CLAIMED", "PLAYBACK_INTENT"}
Waiting(r) == Open(r) /\ Checked(r).delivery = "PENDING"

(* A row that is passed over is stored as looked over, or escalated.       *)
PassedOver(r) ==
    IF Waiting(r) /\ r \in stale THEN [Checked(r) EXCEPT !.delivery = "ESCALATED"]
    ELSE IF Open(r) THEN Checked(r) ELSE row[r]

Answerable(r) == Waiting(r) /\ r \notin stale

(* The rows before r are passed over and r is the one that is answered:    *)
(* claimed, or refused by the current policy, which leaves it waiting and  *)
(* keeps the later ones from being looked at.                              *)
Before(r) == IF r = First THEN {} ELSE {First}

\* Mutant: a claim that does not count up.
ClaimUncounted(i, r) ==
    /\ row' = [x \in Replies |->
          IF x = r THEN [row[r] EXCEPT !.delivery = "CLAIMED", !.instance = i, !.leased = TRUE]
          ELSE IF x \in Before(r) THEN PassedOver(x) ELSE row[x]]
    /\ voice' = [voice EXCEPT ![i] = [at |-> "claimed", reply |-> r,
                                      generation |-> row[r].generation]]

Claim(i, r) ==
    /\ row[r].generation < MaxClaims
    /\ row' = [x \in Replies |->
          IF x = r THEN [row[r] EXCEPT !.delivery = "CLAIMED", !.generation = @ + 1,
                                       !.instance = i, !.leased = TRUE]
          ELSE IF x \in Before(r) THEN PassedOver(x) ELSE row[x]]
    /\ voice' = [voice EXCEPT ![i] = [at |-> "claimed", reply |-> r,
                                      generation |-> row[r].generation + 1]]

Withhold(r) ==
    /\ row' = [x \in Replies |-> IF x = r THEN Checked(r)
                                 ELSE IF x \in Before(r) THEN PassedOver(x) ELSE row[x]]
    /\ UNCHANGED voice

NextReply(i) ==
    /\ voice[i].at = "idle"
    /\ \/ \E r \in Replies :
             /\ Answerable(r) /\ \A x \in Before(r) : ~Answerable(x)
             /\ Claim(i, r) \/ Withhold(r)
       \/ /\ \A r \in Replies : ~Answerable(r)
          /\ row' = [r \in Replies |-> PassedOver(r)]
          /\ UNCHANGED voice
    /\ UNCHANGED <<changed, stale, plays>>

-----------------------------------------------------------------------------
(* operation = "receipt": the named row only, whatever its state. *)

Mine(i) ==
    LET r == voice[i].reply IN
    row[r].generation = voice[i].generation /\ row[r].instance = i

(* What a receipt makes of the state: none, if it does not fit. *)
Target(i, state, outcome) ==
    CASE state = "CLAIMED" /\ outcome = "PLAYBACK_INTENT" -> "PLAYBACK_INTENT"
      [] state = "CLAIMED" /\ outcome = "UNSTARTED" -> "PENDING"
      [] state = "PLAYBACK_INTENT" /\ outcome \in {"DELIVERED", "UNKNOWN"} -> outcome
      [] state = "PLAYBACK_INTENT" /\ outcome = "UNSTARTED" ->
            (IF voice[i].at \in {"claimed", "intent"} THEN "PENDING" ELSE "UNKNOWN")
      [] OTHER -> None

(* The outcomes an instance may honestly report. *)
Honest(i) ==
    {o \in {"PLAYBACK_INTENT", "UNSTARTED", "DELIVERED", "UNKNOWN"} :
        /\ o = "PLAYBACK_INTENT" => voice[i].at = "claimed"
        /\ o = "DELIVERED" => voice[i].at = "played"}

(* A row given up is stored and the receipt is not read; a receipt that    *)
(* does not fit leaves the row as looked over.                             *)
Receipt(i, outcome) ==
    LET r == voice[i].reply
        target == IF Mine(i) THEN Target(i, Checked(r).delivery, outcome) ELSE None
        lands == r \notin changed /\ target # None
    IN  /\ voice[i].at # "idle"
        /\ outcome \in Honest(i)
        /\ row' = [row EXCEPT ![r] = IF lands THEN [Checked(r) EXCEPT !.delivery = target]
                                     ELSE Checked(r)]
        /\ voice' = [voice EXCEPT ![i] =
              IF lands /\ outcome = "PLAYBACK_INTENT" THEN [@ EXCEPT !.at = "intent"] ELSE Free]
        /\ UNCHANGED <<changed, stale, plays>>

-----------------------------------------------------------------------------
(* The environment: playing, time, reconciled actions *)

Play(i) ==
    /\ \/ /\ voice[i].at = "intent"
          /\ plays' = [plays EXCEPT ![voice[i].reply] = @ + 1]
          /\ voice' = [voice EXCEPT ![i].at = "playing"]
       \/ /\ voice[i].at = "playing"
          /\ voice' = [voice EXCEPT ![i].at = "played"]
          /\ UNCHANGED plays
    /\ UNCHANGED <<row, changed, stale>>

(* An instance stops; or the answer to its receipt is lost. *)
Leave(i) ==
    /\ voice[i].at # "idle"
    /\ voice' = [voice EXCEPT ![i] = Free]
    /\ UNCHANGED <<row, changed, stale, plays>>

LeaseEnds(r) ==
    /\ row[r].leased
    /\ row' = [row EXCEPT ![r].leased = FALSE]
    /\ UNCHANGED <<changed, stale, voice, plays>>

FiveMinutes(r) == r \notin stale /\ stale' = stale \cup {r} /\ UNCHANGED <<row, changed, voice, plays>>
Reconciled(r) == r \notin changed /\ changed' = changed \cup {r} /\ UNCHANGED <<row, stale, voice, plays>>

Next ==
    \/ \E i \in Instances :
          \/ NextReply(i) \/ Play(i) \/ Leave(i)
          \/ \E o \in {"PLAYBACK_INTENT", "UNSTARTED", "DELIVERED", "UNKNOWN"} : Receipt(i, o)
    \/ \E r \in Replies : LeaseEnds(r) \/ FiveMinutes(r) \/ Reconciled(r)

Spec == Init /\ [][Next]_vars

(* An outcome is started at most once, whichever instance claims it after  *)
(* which loss, and is called delivered only after it was started: the      *)
(* owner is never told twice, nor taken to be told (ApprovalResults.       *)
(* delivery).                                                              *)
RepliedOnce ==
    \A r \in Replies :
        plays[r] <= 1 /\ (row[r].delivery = "DELIVERED" => plays[r] = 1)
=============================================================================
