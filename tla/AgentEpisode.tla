---------------------------- MODULE AgentEpisode ----------------------------
(* One episode of the local agent (src/anima_ha/agent.py AgentRuntime.run): a *)
(* loop of model turns and tool calls under budgets, recorded row by row.     *)
(* When a tool needs a confirmation the episode waits, and the owner's answer *)
(* goes on with what the rows say was said so far.  What a provider lets Core *)
(* see but not keep may inform the answer, and nothing durable.               *)
EXTENDS Naturals, Sequences, SequencesExt

CONSTANTS MaxTurns, MaxTools, None

\* A plain tool, one whose result may not be kept, one that needs the owner, one
\* that is unknown, unavailable or gets arguments that are not valid.
Tools == {"plain", "restricted", "confirmed", "invalid"}
Loose == "restricted"

VARIABLES
    status,      \* of the episode's row
    counts,      \* the row's turns and tool requests
    marked,      \* the row says that restricted content was seen
    turnRow,     \* the rows of its turns
    toolRow,     \* the rows of its tool requests
    interruption,\* the rows of its continuations
    loop,        \* the thread in run
    executed,    \* history: the tool calls that went out, by idempotency key
    response     \* what the row keeps of the answer

episodeVars == <<status, counts, marked, turnRow, toolRow, interruption, loop, executed, response>>

Away == [at |-> "away", turn |-> 0, tool |-> 0, seen |-> FALSE,
         said |-> <<>>, asks |-> None, outcome |-> None, end |-> None]

Init ==
    /\ status = None /\ counts = [turn |-> 0, tool |-> 0] /\ marked = FALSE
    /\ turnRow = <<>> /\ toolRow = <<>> /\ interruption = <<>>
    /\ loop = Away /\ executed = <<>> /\ response = None

\* The trigger is claimed once; whoever comes second gets the episode as it is.
Claim ==
    /\ status = None /\ status' = "RUNNING"
    /\ loop' = [Away EXCEPT !.at = "turn"]
    /\ UNCHANGED <<counts, marked, turnRow, toolRow, interruption, executed, response>>

(***************************** A turn of the model *************************)
\* _parse_events: the process's events in their order, each the agent's message,
\* the turn's completion, its failure, or anything that is not allowed.
Parsed(events) ==
    LET At(kind) == {i \in DOMAIN events : events[i] = kind}
        second == {i \in At("message") : \E j \in At("message") : j < i}
        wrong == At("other") \cup second
    IN CASE wrong # {} -> IF events[CHOOSE i \in wrong : \A j \in wrong : i <= j] = "other"
                          THEN "boundary" ELSE "invalid"
         [] wrong = {} /\ At("failure") # {} -> "unavailable"
         [] wrong = {} /\ At("failure") = {} /\ \A i \in At("done") : At("done") # {i} -> "invalid"
         [] wrong = {} /\ At("failure") = {} /\ (\E i \in At("done") : At("done") = {i}) ->
                IF At("message") = {} THEN "unavailable" ELSE "message"

\* run_turn: the process also may not start, end badly, outlive its time or talk
\* too much; a message may not be a decision.
TurnEnds ==
    {Parsed(s) : s \in BoundedSeq({"message", "done", "failure", "other"}, 3)}
        \cup {"timeout", "unavailable", "boundary", "invalid"}

EndOf(failure) ==
    CASE failure = "timeout"  -> "TIMED_OUT"
      [] failure = "boundary" -> "BOUNDARY_VIOLATION"
      [] OTHER                -> "FAILED"

Finishing(end) == [loop EXCEPT !.at = "finish", !.end = end]

\* The turns are used up, the time is, or the provider is not signed in.
GiveUp ==
    /\ loop.at = "turn"
    /\ \/ loop.turn = MaxTurns /\ loop' = Finishing("BUDGET_EXHAUSTED")
       \/ loop' = Finishing("TIMED_OUT")
       \/ loop' = Finishing("FAILED")
    /\ UNCHANGED <<status, counts, marked, turnRow, toolRow, interruption, executed, response>>

\* record_turn: a turn's row, without a decision when it failed.
TurnRow(decision) == turnRow' = Append(turnRow, [decision |-> decision])

TurnFails ==
    /\ loop.at = "turn" /\ loop.turn < MaxTurns
    /\ \E failure \in TurnEnds \ {"message"} :
         loop' = [Finishing(EndOf(failure)) EXCEPT !.turn = @ + 1]
    /\ TurnRow(None)
    /\ UNCHANGED <<status, counts, marked, toolRow, interruption, executed, response>>

Said(kind, n, what) == [kind |-> kind, n |-> n, what |-> what]

\* The turn's row is written; then its tokens, or the tool it asks for, may be
\* one too many.
Decide ==
    /\ loop.at = "turn" /\ loop.turn < MaxTurns
    /\ \E decision \in Tools \cup {"final"}, overspent \in BOOLEAN :
         LET next == [loop EXCEPT !.turn = @ + 1, !.asks = decision,
                                  !.said = Append(@, Said("decision", loop.turn + 1, decision))]
         IN /\ TurnRow(decision)
            /\ loop' = IF overspent \/ (decision # "final" /\ loop.tool = MaxTools)
                       THEN [next EXCEPT !.at = "finish", !.end = "BUDGET_EXHAUSTED"]
                       ELSE IF decision = "final"
                       THEN [next EXCEPT !.at = "finish", !.end = "COMPLETED"]
                       ELSE [next EXCEPT !.at = "tool", !.tool = @ + 1]
    /\ UNCHANGED <<status, counts, marked, toolRow, interruption, executed, response>>

(******************************* A tool call *******************************)
\* A mutant: what was seen does not stop a side effect.
PermittedAlways == loop.asks # "invalid"

\* Not what the catalogue does not have, not with arguments that do not fit, and
\* nothing more once restricted content was seen.
Permitted == loop.asks # "invalid" /\ ~loop.seen

\* The call goes out under the request's number.
Call ==
    /\ loop.at = "tool"
    /\ \E outcome \in IF ~Permitted THEN {"refused"}
                      ELSE IF loop.asks = "confirmed" THEN {"confirm", "stronger", "failed"}
                      ELSE {"success", "failed"} :
         loop' = [loop EXCEPT !.at = "record", !.outcome = outcome]
    /\ executed' = IF Permitted
                   THEN Append(executed, [key |-> loop.tool, tainted |-> loop.seen])
                   ELSE executed
    /\ UNCHANGED <<status, counts, marked, turnRow, toolRow, interruption, response>>

Restricted == loop.asks = Loose /\ loop.outcome = "success"

\* What is durable of a restricted result is its size and digest.
Kept(what) == IF Restricted THEN "projection" ELSE what

\* record_tool_request: its row.
ToolRow == toolRow' = Append(toolRow, [turn |-> loop.turn, tool |-> loop.asks,
                                       result |-> Kept(loop.outcome)])

RecordTool ==
    /\ loop.at = "record" /\ ToolRow
    /\ loop' = [loop EXCEPT
           !.said = Append(@, Said("result", loop.tool, loop.outcome)),
           !.seen = @ \/ Restricted,
           !.at = IF Restricted THEN "mark"
                  ELSE IF loop.outcome \in {"confirm", "stronger"} THEN "interrupt" ELSE "turn"]
    /\ UNCHANGED <<status, counts, marked, turnRow, interruption, executed, response>>

Mark ==
    /\ loop.at = "mark" /\ marked' = TRUE
    /\ loop' = [loop EXCEPT !.at = "turn"]
    /\ UNCHANGED <<status, counts, turnRow, toolRow, interruption, executed, response>>

(************************ The confirmation and the end *********************)
\* record_interruption: the transcript so far, by its digest, for the approval that
\* the answer names; one that names none, or asks for a stronger sign-in, leaves no
\* row to go on from.
Interrupt ==
    /\ loop.at = "interrupt"
    /\ \/ /\ loop.outcome = "confirm"
          /\ interruption' = Append(interruption, [n |-> loop.tool, tool |-> loop.asks,
                                                   said |-> loop.said, result |-> None])
       \/ UNCHANGED interruption
    /\ loop' = Finishing(IF loop.outcome = "confirm" THEN "WAITING_CONFIRMATION"
                         ELSE "WAITING_STRONGER_AUTH")
    /\ UNCHANGED <<status, counts, marked, turnRow, toolRow, executed, response>>

\* _finish: the answer of an episode that saw restricted content is a digest.
Finish ==
    /\ loop.at = "finish"
    /\ status' = loop.end /\ counts' = [turn |-> loop.turn, tool |-> loop.tool]
    /\ response' = IF loop.end # "COMPLETED" THEN response
                   ELSE IF loop.seen THEN "digest" ELSE "text"
    /\ loop' = Away
    /\ UNCHANGED <<marked, turnRow, toolRow, interruption, executed>>

\* A mutant: a waiting episode goes on with the results in the order of their rows.
LoadedByTable ==
    [i \in DOMAIN turnRow |-> Said("decision", i, turnRow[i].decision)]
    \o [i \in DOMAIN toolRow |-> Said("result", i, toolRow[i].result)]

\* load_transcript: a turn's decision, its tool's result, and what became of the
\* confirmation with its request's number.
Loaded ==
    LET Of(turn) ==
          (IF turnRow[turn].decision = None THEN <<>>
           ELSE <<Said("decision", turn, turnRow[turn].decision)>>)
          \o FlattenSeq([i \in DOMAIN toolRow |->
               IF toolRow[i].turn = turn THEN <<Said("result", i, toolRow[i].result)>> ELSE <<>>])
          \o FlattenSeq([i \in DOMAIN interruption |->
               IF interruption[i].n = turn /\ interruption[i].result # None
               THEN <<Said("answer", turn, interruption[i].result)>> ELSE <<>>])
    IN FlattenSeq([turn \in DOMAIN turnRow |-> Of(turn)])

Waiting == interruption[Len(interruption)]
Pending == interruption # <<>> /\ Waiting.result = None

\* resume_confirmation goes on only if the rows say what was said, and if the
\* confirmed tool has exactly one result in them, with its answers.
Resumable ==
    /\ loop = Away /\ status = "WAITING_CONFIRMATION" /\ Pending
    /\ Loaded = Waiting.said
    /\ \A i, j \in DOMAIN toolRow : toolRow[i].tool = Waiting.tool /\ toolRow[j].tool = Waiting.tool => i = j

\* A mutant: the resumed loop counts its own turns and requests.
ResumedAt == [turn |-> 0, tool |-> 0]

Counted == counts

Resume(answer) ==
    /\ Resumable
    /\ interruption' = [interruption EXCEPT ![Len(interruption)].result = answer]
    /\ loop' = [Away EXCEPT !.at = "turn", !.turn = Counted.turn, !.tool = Counted.tool,
                            !.seen = marked,
                            !.said = Append(Loaded, Said("answer", Waiting.n, answer))]
    /\ UNCHANGED <<status, counts, marked, turnRow, toolRow, executed, response>>

\* The loop dies; the episode's rows stay, and nothing takes it up again.
Die ==
    /\ loop # Away /\ loop' = Away
    /\ UNCHANGED <<status, counts, marked, turnRow, toolRow, interruption, executed, response>>

Next ==
    \/ Claim \/ GiveUp \/ TurnFails \/ Decide \/ Call \/ RecordTool \/ Mark \/ Interrupt \/ Finish
    \/ \E answer \in {"success", "rejected"} : Resume(answer)
    \/ Die

Spec == Init /\ [][Next]_episodeVars

EpisodeTypeOK ==
    /\ loop.turn \in 0..MaxTurns /\ loop.tool \in 0..MaxTools
    /\ counts.turn \in 0..MaxTurns /\ counts.tool \in 0..MaxTools
    /\ Len(turnRow) <= MaxTurns /\ Len(toolRow) <= MaxTools

\* An episode that waits for the owner's approval can go on from its rows: they say what
\* the model was told, in its order.
RowsTellTheEpisode ==
    status = "WAITING_CONFIRMATION" /\ Pending => Loaded = Waiting.said

\* Two tool calls of an episode, whatever confirmations lie between them, go out
\* under two idempotency keys; and none after restricted content was seen.
CallsAreDistinct ==
    /\ \A i, j \in DOMAIN executed : executed[i].key = executed[j].key => i = j
    /\ \A i \in DOMAIN executed : ~executed[i].tainted

=============================================================================
