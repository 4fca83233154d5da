------------------------------ MODULE KeyPromise ------------------------------
(***************************************************************************)
(* What the action boundary promises to those who replay idempotency keys  *)
(* (docs/PHASE-9, Boundary), whatever threads, approvals, locks, crashes   *)
(* and restarts are behind it: a key belongs to one request; that request  *)
(* is sent at most once, and only after its start was recorded; an answer, *)
(* once given, stays; and an answer to a request that was sent admits it.  *)
(***************************************************************************)
EXTENDS Naturals

CONSTANTS
    Requests,
    KeyOf,       \* [Requests -> idempotency keys]
    Answers,     \* outcomes that are final
    Admitting,   \* those that admit that the request may have been sent
    Unknown      \* the answer for a request whose fate nobody saw

VARIABLES
    state,       \* "NONE", "OPEN", "BEGUN" or the answer of each request
    sends        \* how often each request was sent

vars == <<state, sends>>

Init ==
    /\ state = [r \in Requests |-> "NONE"]
    /\ sends = [r \in Requests |-> 0]

Become(r, s) == state' = [state EXCEPT ![r] = s] /\ UNCHANGED sends

\* A request takes its key, which no other holds.
Take(r) ==
    /\ \A q \in Requests : KeyOf[q] = KeyOf[r] => state[q] = "NONE"
    /\ Become(r, "OPEN")

Start(r) == state[r] = "OPEN" /\ Become(r, "BEGUN")

Send(r) ==
    /\ state[r] = "BEGUN" /\ sends[r] = 0
    /\ sends' = [sends EXCEPT ![r] = 1]
    /\ UNCHANGED state

\* A request that was started and not sent may be asked for again.
Withdraw(r) == state[r] = "BEGUN" /\ sends[r] = 0 /\ Become(r, "OPEN")

Answer(r, answer) ==
    /\ state[r] \in {"OPEN", "BEGUN"}
    /\ sends[r] > 0 => answer \in Admitting
    /\ Become(r, answer)

\* After an interruption, the fate of every started request is unknown.
Reconcile ==
    /\ state' = [r \in Requests |-> IF state[r] = "BEGUN" THEN Unknown ELSE state[r]]
    /\ UNCHANGED sends

Next ==
    \/ \E r \in Requests :
          \/ Take(r) \/ Start(r) \/ Send(r) \/ Withdraw(r)
          \/ \E answer \in Answers : Answer(r, answer)
    \/ Reconcile

Spec == Init /\ [][Next]_vars
=============================================================================
