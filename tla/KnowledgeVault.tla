--------------------------- MODULE KnowledgeVault ---------------------------
(* The vault of knowledge notes (src/anima_ha/knowledge.py): one file per     *)
(* note, replaced whole under the namespace's file lock, with the digest of   *)
(* its content.  A writer sends the digest it saw; a request that is sent     *)
(* again, because its answer was lost with the process, is recognised by its  *)
(* tool_request_id.  Notes expire, and an owner may edit a file by hand at    *)
(* any time: the lock binds the tools and not an editor.                      *)
EXTENDS Naturals, FiniteSets

CONSTANTS Requests,       \* update and retract requests of one note
          Retracts,       \* those of them that retract it
          Threads,        \* handlers of the Core
          MaxSends,       \* times a request is sent
          MaxDeaths,      \* deaths of the Core
          None

\* A digest covers the note's content and the request that wrote it: digests
\* are numbered in the order of the writes.
VARIABLES
    note,       \* what the tools last put in the file: status, digest, request
    due,        \* its expires_at has passed
    edited,     \* the file was changed by hand since: its digest does not match
    pending,    \* number of .pending- files that a death left behind
    request,    \* request -> the digest its sender saw, sends, answers
    thread,     \* thread -> the call it is in; at most one holds the lock
    writes,     \* history: request -> digests of the notes it replaced
    lost,       \* history: for each edit that was replaced, was it a late one?
    deaths

vaultVars == <<note, due, edited, pending, request, thread, writes, lost, deaths>>

\* A call: the note it has read, and whether the file was edited after that.
Away == [at |-> "idle", request |-> None, note |-> None, late |-> FALSE]

Init ==
    /\ note = [status |-> "ACTIVE", digest |-> 1, request |-> None]
    /\ due = FALSE /\ edited = FALSE
    /\ pending = 0
    /\ request = [r \in Requests |-> [saw |-> 0, sends |-> 0, answers |-> {}]]
    /\ thread = [t \in Threads |-> Away]
    /\ writes = [r \in Requests |-> {}]
    /\ lost = {}
    /\ deaths = 0

\* flock(LOCK_EX | LOCK_NB): taken for the whole call, or KNOWLEDGE_BUSY.
Busy(t) == \E u \in Threads \ {t} : thread[u].at # "idle"

InFlight(r) == \E t \in Threads : thread[t].request = r

Answer(r, a) == request' = [request EXCEPT ![r].answers = @ \cup {a}]

\* The digest of the note as it is read: an expired note is read as its
\* tombstone, whose digest follows from the note's.
Tombstone == [note EXCEPT !.status = "EXPIRED", !.digest = @ + 1]
Expires == note.status = "ACTIVE" /\ due
Loaded == IF Expires THEN Tombstone ELSE note

\* get_note: a sender learns the digest it will expect.
GetNote(r) ==
    /\ request[r].sends = 0 /\ ~edited /\ \A t \in Threads : thread[t].at = "idle"
    /\ request' = [request EXCEPT ![r].saw = Loaded.digest]
    /\ UNCHANGED <<note, due, edited, pending, thread, writes, lost, deaths>>

\* Entering the namespace removes what deaths left behind.
Enter(t, r) ==
    /\ thread' = [thread EXCEPT ![t] = [Away EXCEPT !.at = "load", !.request = r]]
    /\ pending' = 0

\* A call starts, or a call whose answer was lost is sent again.
Send(t, r) ==
    /\ thread[t].at = "idle" /\ ~InFlight(r)
    /\ request[r].saw # 0 /\ request[r].sends < MaxSends /\ request[r].answers = {}
    /\ request' = [request EXCEPT ![r].sends = @ + 1]
    /\ IF Busy(t) THEN UNCHANGED <<thread, pending>> ELSE Enter(t, r)
    /\ UNCHANGED <<note, due, edited, writes, lost, deaths>>

\* purge_expired, a call without a request.
Purge(t) ==
    /\ thread[t].at = "idle" /\ ~Busy(t) /\ Enter(t, None)
    /\ UNCHANGED <<note, due, edited, request, writes, lost, deaths>>

Leave(t) == thread' = [thread EXCEPT ![t] = Away]

\* A purge ends with the tombstone; an update or retraction goes on to decide.
Onward(t, n) ==
    IF thread[t].request = None THEN Leave(t)
    ELSE thread' = [thread EXCEPT ![t].at = "decide", ![t].note = n]

\* _load: a file whose digest does not match is left alone.  An expired note is
\* replaced by its tombstone before anything is decided.
Load(t) ==
    LET r == thread[t].request IN
    /\ thread[t].at = "load"
    /\ \/ /\ edited
          /\ IF r = None THEN UNCHANGED request ELSE Answer(r, "UNRECONCILED")
          /\ Leave(t)
       \/ /\ ~edited /\ Expires
          /\ thread' = [thread EXCEPT ![t].at = "expire", ![t].note = Tombstone]
          /\ UNCHANGED request
       \/ /\ ~edited /\ ~Expires
          /\ Onward(t, note)
          /\ UNCHANGED request
    /\ UNCHANGED <<note, due, edited, pending, writes, lost, deaths>>

\* _write: the temporary file, complete and synced, replaces the file, whatever
\* it holds by then.
Put(t, n) ==
    /\ note' = n /\ edited' = FALSE
    /\ lost' = IF edited THEN lost \cup {thread[t].late} ELSE lost

Expire(t) ==
    /\ thread[t].at = "expire"
    /\ Put(t, thread[t].note)
    /\ Onward(t, thread[t].note)
    /\ UNCHANGED <<due, pending, request, writes, deaths>>

\* A mutant: the note is replaced whatever the writer saw.
Careless(t) == TRUE

Expected(t) == thread[t].note.digest = request[thread[t].request].saw

\* The same request again is answered with its receipt; then the digest and
\* the status are compared.
Decide(t) ==
    LET r == thread[t].request
        n == thread[t].note IN
    /\ thread[t].at = "decide"
    /\ \/ /\ n.request = r
          /\ Answer(r, "SUCCEEDED") /\ Leave(t)
       \/ /\ n.request # r /\ ~(Expected(t) /\ n.status = "ACTIVE")
          /\ Answer(r, "CONFLICT") /\ Leave(t)
       \/ /\ n.request # r /\ Expected(t) /\ n.status = "ACTIVE"
          /\ thread' = [thread EXCEPT ![t].at = "replace"]
          /\ UNCHANGED request
    /\ UNCHANGED <<note, due, edited, pending, writes, lost, deaths>>

\* The digest of a file changed by hand: no sender saw it.
Unseen == 0

\* What a request makes of the note it has read.
Written(r, n) == [status |-> IF r \in Retracts THEN "RETRACTED" ELSE "ACTIVE",
                  digest |-> n.digest + 1, request |-> r]

\* An update keeps the note's expires_at.
Replace(t) ==
    LET r == thread[t].request IN
    /\ thread[t].at = "replace"
    /\ Put(t, Written(r, thread[t].note))
    /\ writes' = [writes EXCEPT ![r] = @ \cup {IF edited THEN Unseen ELSE note.digest}]
    /\ thread' = [thread EXCEPT ![t].at = "answer"]
    /\ UNCHANGED <<due, pending, request, deaths>>

Reply(t) ==
    /\ thread[t].at = "answer"
    /\ Answer(thread[t].request, "SUCCEEDED")
    /\ Leave(t)
    /\ UNCHANGED <<note, due, edited, pending, writes, lost, deaths>>

\* The Core dies: no call is answered, the file lock goes with its process, and
\* a temporary file may be left.
Die ==
    /\ deaths < MaxDeaths
    /\ deaths' = deaths + 1
    /\ pending' = pending
           + Cardinality({t \in Threads : thread[t].at \in {"expire", "replace"}})
    /\ thread' = [t \in Threads |-> Away]
    /\ UNCHANGED <<note, due, edited, request, writes, lost>>

FallDue == ~due /\ due' = TRUE
           /\ UNCHANGED <<note, edited, pending, request, thread, writes, lost, deaths>>

\* Calls that have read the file and may still replace it.
Reading == {"expire", "decide", "replace"}

\* The vault's files are ordinary files: an editor changes one without the lock,
\* also behind a call that has read it.
EditByHand ==
    /\ ~edited /\ edited' = TRUE
    /\ thread' = [t \in Threads |-> [thread[t] EXCEPT !.late = @ \/ thread[t].at \in Reading]]
    /\ UNCHANGED <<note, due, pending, request, writes, lost, deaths>>

\* The editor takes the change back.
RestoreByHand ==
    /\ edited /\ edited' = FALSE
    /\ UNCHANGED <<note, due, pending, request, thread, writes, lost, deaths>>

Next ==
    \/ \E r \in Requests : GetNote(r) \/ \E t \in Threads : Send(t, r)
    \/ \E t \in Threads :
          Purge(t) \/ Load(t) \/ Expire(t) \/ Decide(t) \/ Replace(t) \/ Reply(t)
    \/ Die \/ FallDue \/ EditByHand \/ RestoreByHand

Spec == Init /\ [][Next]_vaultVars

VaultTypeOK ==
    /\ note.status \in {"ACTIVE", "RETRACTED", "EXPIRED"}
    /\ \A r \in Requests : request[r].answers \subseteq {"SUCCEEDED", "CONFLICT", "UNRECONCILED"}
    /\ \A t \in Threads : thread[t].at \in Reading \cup {"idle", "load", "answer"}

\* However often a request is sent, across deaths and under any expiry, it
\* replaces at most one note, and that is the note its sender saw; what was
\* answered SUCCEEDED was written.  A file that was changed by hand is replaced by
\* no call that reads it after the change.  A change made behind a call that has
\* read the file already is outside the lock and outside this promise: the
\* call replaces it unseen, once.
WritesWhatWasSeen ==
    /\ FALSE \notin lost
    /\ \A r \in Requests :
          /\ \A d \in writes[r] : d = request[r].saw \/ (d = Unseen /\ lost # {})
          /\ \A d, e \in writes[r] : d = e
          /\ "SUCCEEDED" \in request[r].answers => writes[r] # {}
=============================================================================
