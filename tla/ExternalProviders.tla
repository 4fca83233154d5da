-------------------------- MODULE ExternalProviders --------------------------
(* Reads and sends through the fixed providers (src/anima_ha/external.py): a   *)
(* call is checked, sent over its provider's one client, audited in the        *)
(* journal, and its answer normalised.  UPCitemdb's anonymous tier is paced by *)
(* a limiter of the process that started it.  Tool calls come from several     *)
(* threads, and neither the limiter nor the client has a lock.                 *)
EXTENDS Integers, Sequences, SequencesExt

CONSTANTS Threads,
          Providers,    \* of "weather", "search", "places", "recipes", "walmart", "bestbuy", "upc", "ntfy"
          Pace, Window, Quota,          \* the limiter's interval, day and searches
          Answers, Count,               \* what a catalogue lists, and how much was asked for
          MaxTime, MaxCalls, MaxStarts, MaxFaults, None

VARIABLES
    clock,
    started,    \* instances of the plugins so far
    searches,   \* the limiter's times
    blocked,    \* the limiter waits until
    headers,    \* until when the client's last response asked for quiet
    call,       \* thread -> its call
    shown,      \* what was just told of a catalogue, with what it came from
    made,       \* history: the searches this instance reserved
    quiet,      \* history: until when the provider has asked this instance for quiet
    raced,      \* history: two threads were in this "limiter", or in this "client"
    rude,       \* history: it reserved while asked for quiet
    calls, faults

providerVars == <<clock, started, searches, blocked, headers, call, shown, made,
                  quiet, raced, rude, calls, faults>>

Idle == [at |-> "idle", provider |-> None, outcome |-> None, until |-> 0,
         audited |-> FALSE, now |-> 0]
Nothing == [provider |-> None, offered |-> <<>>, products |-> <<>>]

Init ==
    /\ clock = 0 /\ started = 1
    /\ searches = <<>> /\ blocked = 0 /\ headers = 0
    /\ call = [t \in Threads |-> Idle]
    /\ shown = Nothing
    /\ made = <<>> /\ quiet = 0 /\ raced = {} /\ rude = FALSE
    /\ calls = 0 /\ faults = 0

Later(i, j) == IF i > j THEN i ELSE j

TimePasses ==
    /\ clock < MaxTime /\ clock' = clock + 1
    /\ UNCHANGED <<started, searches, blocked, headers, call, shown, made, quiet, raced, rude, calls, faults>>

\* stop, which refuses what is called until start makes another provider, with
\* another client and another limiter.  A call that is on its way then stays with
\* the old ones: this model restarts between calls.
Restart ==
    /\ started < MaxStarts /\ started' = started + 1 /\ \A t \in Threads : call[t] = Idle
    /\ searches' = <<>> /\ blocked' = 0 /\ headers' = 0
    /\ made' = <<>> /\ quiet' = 0 /\ raced' = {} /\ rude' = FALSE
    /\ UNCHANGED <<clock, call, shown, calls, faults>>

(****************************** Before the call ****************************)
\* What each provider refuses to send at all.
WeatherRefuses == {"far"}
SearchRefuses == {"long", "bang"}
PlacesRefuses == {"far", "strange"}
CatalogueRefuses == {"long"}
Refuses(provider) ==
    CASE provider = "weather" -> WeatherRefuses
      [] provider = "search" -> SearchRefuses
      [] provider = "places" -> PlacesRefuses
      [] provider \in {"walmart", "bestbuy", "upc"} -> CatalogueRefuses
      [] OTHER -> {}

\* invoke of the enabled plugin.
Invoke(t, provider, asked) ==
    /\ call[t] = Idle /\ calls < MaxCalls /\ calls' = calls + 1
    /\ asked \notin Refuses(provider)
    /\ call' = [call EXCEPT ![t] = [Idle EXCEPT
         !.at = IF provider = "upc" THEN "reserving" ELSE "sending",
         !.provider = provider]]
    /\ shown' = Nothing
    /\ UNCHANGED <<clock, started, searches, blocked, headers, made, quiet, raced, rude, faults>>

\* A mutant: the searches are forgotten with the pause.
ForgetsTheDay == SelectSeq(searches, LAMBDA at : clock - at < Pace)

\* The searches of the last day, by the limiter's own clock.
Remaining == SelectSeq(searches, LAMBDA at : clock - at < Window)

\* The last search is a pause ago.
Paced == Remaining = <<>> \/ clock - Remaining[Len(Remaining)] >= Pace

\* reserve_search reads the limiter; it refuses, or goes on to take the slot.
Reserve(t) ==
    /\ call[t].at = "reserving"
    /\ searches' = Remaining
    /\ IF blocked <= clock /\ Paced /\ Len(Remaining) < Quota
       THEN /\ call' = [call EXCEPT ![t].at = "reserved", ![t].now = clock]
            /\ rude' = (rude \/ clock < quiet)
            /\ raced' = IF \E u \in Threads \ {t} : call[u].at = "reserved" THEN raced \cup {"limiter"} ELSE raced
       ELSE call' = [call EXCEPT ![t] = Idle] /\ UNCHANGED <<rude, raced>>
    /\ UNCHANGED <<clock, started, blocked, headers, shown, made, quiet, calls, faults>>

TakeSlot(t) ==
    /\ call[t].at = "reserved"
    /\ searches' = Append(searches, call[t].now) /\ made' = Append(made, call[t].now)
    /\ call' = [call EXCEPT ![t].at = "sending"]
    /\ UNCHANGED <<clock, started, blocked, headers, shown, quiet, raced, rude, calls, faults>>

(******************************** The call *********************************)
\* Whoever uses this client between another call's request and its reading of
\* the headers crosses it.
Crossing(t) == \E u \in Threads \ {t} :
    /\ call[u].provider = call[t].provider
    /\ call[u].at \in {"waiting", "answered"}

\* request clears what the client remembers of its last response, and sends.
Send(t) ==
    LET c == call[t] IN
    /\ c.at = "sending"
    /\ headers' = IF c.provider = "upc" THEN 0 ELSE headers
    /\ raced' = IF Crossing(t) THEN raced \cup {"client"} ELSE raced
    /\ call' = [call EXCEPT ![t].at = "waiting"]
    /\ UNCHANGED <<clock, started, searches, blocked, shown, made, quiet, rude, calls, faults>>

\* What a request ends in.  All but one leave a record in the journal: a
\* response that is too long, not JSON or no object raises before it.
Outcomes == {"ok", "error", "late", "malformed"}
Recorded(outcome) == outcome # "malformed"

\* A response may ask for quiet until some time, with an error or without one.
Asks(provider, outcome) == IF provider = "upc" /\ outcome # "late" THEN {0, clock + 2} ELSE {0}

\* The response, its headers and its audit; the append may fail, and raises then.
Answer(t) ==
    LET c == call[t] IN
    /\ c.at = "waiting"
    /\ \E outcome \in Outcomes, written \in BOOLEAN : \E until \in Asks(c.provider, outcome) :
         /\ written => Recorded(outcome)
         /\ IF written = Recorded(outcome) THEN UNCHANGED faults
            ELSE faults < MaxFaults /\ faults' = faults + 1
         /\ headers' = IF until = 0 THEN headers ELSE until
         /\ call' = [call EXCEPT ![t] = [c EXCEPT !.at = "answered", !.outcome = outcome,
                                                  !.until = until, !.audited = written]]
         /\ raced' = IF Crossing(t) THEN raced \cup {"client"} ELSE raced
    /\ UNCHANGED <<clock, started, searches, blocked, shown, made, quiet, rude, calls>>

(******************************* The answer ********************************)
\* A mutant: an error's headers are not looked at.
ObservesSuccess(c) == c.outcome = "ok" /\ c.audited

\* UPCitemdb's headers are read after a success and after a provider error; not
\* after a timeout, nor when the audit itself failed.
Observes(c) ==
    /\ c.provider = "upc"
    /\ c.outcome # "late"
    /\ c.audited \/ ~Recorded(c.outcome)

\* observe_headers and block_for, of whatever the client remembers by now.
Blocked(c) == IF Observes(c) THEN Later(blocked, headers) ELSE blocked

Proper(item) == item.ref # None /\ item.named

\* The stores' offer is the sale price, or else the regular one; UPCitemdb's
\* offers have a price or none, and keep their list price apart.
Offer(item) ==
    [ref |-> item.ref, price |-> IF item.sale # None THEN item.sale ELSE item.regular,
     promo |-> IF item.sale # item.regular THEN item.sale ELSE None]
ListedOffer(item) == [ref |-> item.ref, price |-> item.sale, promo |-> None]

\* UPCitemdb passes over what has no reference or no title, and what it has
\* listed, until it has enough.
Fresh(offered) == SelectSeq([i \in 1..Len(offered) |-> [item |-> offered[i], at |-> i]],
    LAMBDA x : Proper(x.item) /\ \A j \in 1..x.at - 1 : Proper(offered[j]) => offered[j].ref # x.item.ref)
Distinct(offered) == LET fresh == Fresh(offered) IN
    [i \in 1..(IF Len(fresh) < Count THEN Len(fresh) ELSE Count) |-> fresh[i].item]

\* A mutant: everything that is listed counts.
Everything(offered) == offered

\* The other catalogues cut the list first, and then pass over the unusable.
FirstOf(offered) == SelectSeq(SubSeq(offered, 1, IF Len(offered) < Count THEN Len(offered) ELSE Count), Proper)

Catalogue(provider, offered) ==
    LET upc == provider = "upc" kept == IF upc THEN Distinct(offered) ELSE FirstOf(offered) IN
    [i \in 1..Len(kept) |-> IF upc THEN ListedOffer(kept[i]) ELSE Offer(kept[i])]

Finish(t) ==
    LET c == call[t] IN
    /\ c.at = "answered"
    /\ blocked' = Blocked(c)
    /\ quiet' = IF c.audited \/ ~Recorded(c.outcome) THEN Later(quiet, c.until) ELSE quiet
    /\ IF c.outcome = "ok" /\ c.audited /\ c.provider \in {"upc", "walmart", "bestbuy"}
       THEN \E offered \in Answers :
              shown' = [provider |-> c.provider, offered |-> offered, products |-> Catalogue(c.provider, offered)]
       ELSE shown' = Nothing
    /\ call' = [call EXCEPT ![t] = Idle]
    /\ UNCHANGED <<clock, started, searches, headers, made, raced, rude, calls, faults>>

Next ==
    \/ TimePasses \/ Restart
    \/ \E t \in Threads :
         \/ Reserve(t) \/ TakeSlot(t) \/ Send(t) \/ Answer(t) \/ Finish(t)
         \/ \E provider \in Providers, asked \in {"fit", "far", "long", "bang", "strange"} : Invoke(t, provider, asked)

Spec == Init /\ [][Next]_providerVars

(******************************** Properties *******************************)
ProvidersTypeOK ==
    /\ clock \in 0..MaxTime /\ started \in 1..MaxStarts /\ raced \subseteq {"limiter", "client"}
    /\ Len(searches) <= MaxCalls /\ blocked \in Nat

\* An instance's searches are a pause apart and no more than the day's, unless
\* two threads were in its limiter at once; and it does not search while the
\* provider has asked it to wait, unless two threads shared its client.
SearchesArePaced ==
    /\ "limiter" \notin raced =>
         /\ \A k \in 1..Len(made) - 1 : made[k + 1] - made[k] >= Pace
         /\ \A at \in 0..clock : Len(SelectSeq(made, LAMBDA x : x <= at /\ at - x < Window)) <= Quota
    /\ rude => "client" \in raced

\* A catalogue shows, in the provider's order and within the asked number, only
\* what the provider listed, at its sale price or without one at its regular;
\* and UPCitemdb's never the same reference twice, nor less than there is.
ShownIsOffered ==
    LET products == shown.products offered == shown.offered IN
    /\ Len(products) <= Count
    /\ \A k \in 1..Len(products) : \E n \in 1..Len(offered) :
         /\ offered[n].ref = products[k].ref
         /\ products[k].price = IF offered[n].sale = None /\ shown.provider # "upc"
                                THEN offered[n].regular ELSE offered[n].sale
    /\ shown.provider = "upc" =>
         /\ \A k, n \in 1..Len(products) : k # n => products[k].ref # products[n].ref
         /\ Len(products) < Count =>
              {products[k].ref : k \in 1..Len(products)} = {offered[n].ref : n \in {m \in 1..Len(offered) : Proper(offered[m])}}
=============================================================================
