--------------------------- MODULE OwnerAuthority ---------------------------
(* What a signed-in person may have done (src/anima_ha/ui_api.py, policy.py,    *)
(* users.py, ui_runtime.py): a login at Home Assistant gives a session, every   *)
(* request looks its session up and keeps it alive, the identity and the role   *)
(* come from the graph, the policy decides and its decision is journaled, and   *)
(* only then is anything done - here, to the people of the household and to     *)
(* the face profiles that SENTRY keeps for them.                                *)
EXTENDS Integers, FiniteSets

CONSTANTS Threads,
          People, First,        \* who may live here, and who does from the start
          Sessions,             \* the logins, each named as the session it may give
          Idle, Absolute,       \* how long a session lives unused, and at all
          MaxTime, MaxCalls, MaxFaults, None

VARIABLES
    now,
    login,      \* login -> "open" while its state can be redeemed
    session,    \* session -> its row, or None
    born,       \* session -> how many rows its login has made
    person,     \* person -> its record in the graph, or None
    gone,       \* the people who were retired
    face,       \* the people SENTRY has a profile of
    row,        \* call -> the decision in the policy's table, or None
    audited,    \* the calls whose decision is in the journal
    call,       \* thread -> its request
    did,        \* history: the calls that changed a record or a profile
    torn,       \* history: people of whom face requests overlapped or did not end
    crossed,    \* history: people whose record was replaced unread
    calls, faults

doorVars == <<now, login, session, born>>
homeVars == <<person, gone, face>>
auditVars == <<row, audited>>
noteVars == <<did, torn, crossed>>
authorityVars == <<doorVars, homeVars, auditVars, call, noteVars, calls, faults>>

Resting == [at |-> "idle", op |-> None, session |-> None, of |-> None,
            read |-> None, role |-> None, says |-> None, n |-> 0]
Ops == {"list", "role", "create", "commit", "delete", "logout"}
FaceOps == {"commit", "delete"}
Roles == {"owner", "member"}

Init ==
    /\ now = 0 /\ login = [c \in Sessions |-> "none"]
    /\ session = [c \in Sessions |-> None] /\ born = [c \in Sessions |-> 0]
    /\ person = [p \in People |-> IF p = First THEN [role |-> "owner", profile |-> FALSE] ELSE None]
    /\ gone = {} /\ face = {}
    /\ row = [n \in 1 .. MaxCalls |-> None] /\ audited = {}
    /\ call = [t \in Threads |-> Resting]
    /\ did = {} /\ torn = {} /\ crossed = {}
    /\ calls = 0 /\ faults = 0

Fault == faults < MaxFaults /\ faults' = faults + 1
At(t, place) == call[t].at = place
Goes(t, place) == call' = [call EXCEPT ![t].at = place]
Ends(t) == call' = [call EXCEPT ![t] = Resting]
Lives(p) == person[p] # None /\ p \notin gone

(********************************* The door *********************************)
Tick == now < MaxTime /\ now' = now + 1
        /\ UNCHANGED <<login, session, born, homeVars, auditVars, call, noteVars, calls, faults>>

\* /auth/login hands out a state.
Login(c) ==
    /\ login[c] = "none" /\ login' = [login EXCEPT ![c] = "open"]
    /\ UNCHANGED <<now, session, born, homeVars, auditVars, call, noteVars, calls, faults>>

\* /auth/callback takes the state away before it asks Home Assistant who it is.
RedeemsLater(c) == UNCHANGED login
Redeems(c) == login' = [login EXCEPT ![c] = "spent"]

Callback(t, c) ==
    /\ At(t, "idle") /\ login[c] = "open" /\ Redeems(c)
    /\ \/ call' = [call EXCEPT ![t] = [Resting EXCEPT !.at = "asking", !.session = c]]
       \/ UNCHANGED call       \* too late, or from another browser
    /\ UNCHANGED <<now, session, born, homeVars, auditVars, noteVars, calls, faults>>

\* The user is a person who lives here, or the login ends without a session.
Mapped(p) == Lives(p)

Admit(t) ==
    LET c == call[t].session IN
    /\ At(t, "asking") /\ Ends(t)
    /\ \/ /\ Mapped(First)
          /\ born' = [born EXCEPT ![c] = @ + 1]
          /\ session' = [session EXCEPT ![c] = [who |-> First, seen |-> now, until |-> now + Absolute,
                                                revoked |-> FALSE]]
       \/ ~Mapped(First) /\ UNCHANGED <<session, born>>
    /\ UNCHANGED <<now, login, homeVars, auditVars, noteVars, calls, faults>>

\* authenticate: the row is read ...
Alive(s) == /\ s # None
            /\ ~s.revoked /\ now < s.until /\ now < s.seen + Idle

Request(t, c, op, p) ==
    /\ At(t, "idle") /\ calls < MaxCalls /\ Alive(session[c])
    /\ (op = "create") = (person[p] = None) /\ (op \in {"list", "logout"} => p = First)
    /\ op = "create" => \A u \in Threads : call[u].of # p
    /\ calls' = calls + 1
    /\ call' = [call EXCEPT ![t] = [Resting EXCEPT !.at = "found", !.op = op, !.session = c, !.of = p,
                                    !.read = session[c], !.n = calls + 1]]
    /\ UNCHANGED <<doorVars, homeVars, auditVars, noteVars, faults>>

\* ... and when it was last seen is written back, and nothing else of it.
RefreshedWhole(s, read) == [read EXCEPT !.seen = now]
Refreshed(s, read) == [s EXCEPT !.seen = now]

Refresh(t) ==
    LET c == call[t].session IN
    /\ At(t, "found")
    /\ session' = [session EXCEPT ![c] = Refreshed(@, call[t].read)]
    /\ Goes(t, IF call[t].op = "logout" THEN "leaving" ELSE "known")
    /\ UNCHANGED <<now, login, born, homeVars, auditVars, noteVars, calls, faults>>

Logout(t) ==
    /\ At(t, "leaving") /\ Ends(t)
    /\ session' = [session EXCEPT ![call[t].session].revoked = TRUE]
    /\ UNCHANGED <<now, login, born, homeVars, auditVars, noteVars, calls, faults>>

(******************************** The policy ********************************)
Risks == {"READ_ONLY", "LOW_RISK_HOME_CONTROL", "SECURITY_SECURE_ACTION", "SECURITY_ACCESS_ACTION",
          "EXTERNAL_SIDE_EFFECT", "FINANCIAL_PURCHASE", "ADMIN_SYSTEM_PROHIBITED", "UNKNOWN"}
Rank == [a \in {"ANONYMOUS", "CLAIMED", "RECOGNIZED", "AUTHENTICATED", "STRONG_AUTHENTICATED"} |->
    CASE a = "ANONYMOUS" -> 0 [] a = "CLAIMED" -> 1 [] a = "RECOGNIZED" -> 2
      [] a = "AUTHENTICATED" -> 3 [] a = "STRONG_AUTHENTICATED" -> 4]

\* The rego of policy/phase4, whose first rule that holds decides.
Decide(risk, autonomous, role, rank, uncertain, confirmed, routed) ==
    LET resident == role \in {"owner", "resident"} IN
    CASE risk \in {"ADMIN_SYSTEM_PROHIBITED", "UNKNOWN"} -> "DENY"
      [] risk = "SECURITY_ACCESS_ACTION" ->
            IF rank < 4 THEN "REQUIRE_STRONGER_AUTH"
            ELSE IF ~uncertain /\ resident THEN "ALLOW" ELSE "DENY"
      [] risk = "SECURITY_SECURE_ACTION" ->
            IF ~uncertain /\ (autonomous \/ (resident /\ rank >= 3)) THEN "ALLOW" ELSE "DENY"
      [] risk = "LOW_RISK_HOME_CONTROL" ->
            IF autonomous \/ (role \in {"owner", "resident", "guest"} /\ rank >= 2) THEN "ALLOW" ELSE "DENY"
      [] risk = "FINANCIAL_PURCHASE" -> IF confirmed /\ rank >= 3 THEN "ALLOW" ELSE "REQUIRE_CONFIRMATION"
      [] risk = "EXTERNAL_SIDE_EFFECT" -> IF routed \/ confirmed THEN "ALLOW" ELSE "REQUIRE_CONFIRMATION"
      [] risk = "READ_ONLY" -> "ALLOW"

\* The classifier: reading is reading, what configures identity is to secure.
Classified(op) == IF op = "list" THEN "READ_ONLY" ELSE "SECURITY_SECURE_ACTION"

\* The document of a request from the interface: a person with a session, who
\* confirmed nothing.
Judged(op, role) == Decide(Classified(op), FALSE, role, Rank["AUTHENTICATED"], FALSE, FALSE, FALSE)

\* The identity is a person who lives here still, with the role it has now; a
\* face is of a member.
Identify(t) ==
    LET who == session[call[t].session].who IN
    /\ At(t, "known")
    /\ IF Mapped(who) /\ (call[t].op \in FaceOps => Lives(call[t].of))
       THEN call' = [call EXCEPT ![t].at = "deciding", ![t].role = person[who].role, ![t].read = None]
       ELSE Ends(t)
    /\ UNCHANGED <<doorVars, homeVars, auditVars, noteVars, calls, faults>>

\* OPA answers, or does not, and then it is DENY.
Evaluate(t) ==
    /\ At(t, "deciding")
    /\ \/ /\ call' = [call EXCEPT ![t].at = "decided", ![t].says = Judged(call[t].op, call[t].role)]
          /\ UNCHANGED faults
       \/ Fault /\ call' = [call EXCEPT ![t].at = "decided", ![t].says = "DENY"]
    /\ UNCHANGED <<doorVars, homeVars, auditVars, noteVars, calls>>

\* record_decision: the row and its event are one transaction, and nothing is
\* done when it fails.
NotedInTurn(n, says) == \/ row' = [row EXCEPT ![n] = says] /\ audited' = audited \cup {n}
                        \/ row' = [row EXCEPT ![n] = says] /\ UNCHANGED audited
Noted(n, says) == row' = [row EXCEPT ![n] = says] /\ audited' = audited \cup {n}

Record(t) ==
    LET says == call[t].says IN
    /\ At(t, "decided")
    /\ Noted(call[t].n, says)
    /\ IF says # "ALLOW" \/ call[t].op = "list" THEN Ends(t)
       ELSE Goes(t, IF call[t].op \in FaceOps THEN "facing" ELSE "reading")
    /\ UNCHANGED <<doorVars, homeVars, noteVars, calls, faults>>

(******************************** The people ********************************)
\* SENTRY commits or deletes the profile.
HalfWay(p) == \E u \in Threads : call[u].of = p /\ call[u].op \in FaceOps
                                 /\ call[u].at \in {"reading", "writing"}

Face(t) ==
    LET p == call[t].of IN
    /\ At(t, "facing") /\ did' = did \cup {call[t].n}
    /\ face' = IF call[t].op = "commit" THEN face \cup {p} ELSE face \ {p}
    /\ Goes(t, "reading") /\ torn' = IF HalfWay(p) THEN torn \cup {p} ELSE torn
    /\ UNCHANGED <<doorVars, person, gone, auditVars, crossed, calls, faults>>

\* update_person_profile and create_person look first ...
Look(t) ==
    LET p == call[t].of IN
    /\ At(t, "reading")
    /\ IF call[t].op = "create" \/ Lives(p)
       THEN call' = [call EXCEPT ![t].at = "writing", ![t].read = person[p]] /\ UNCHANGED torn
       ELSE Ends(t) /\ torn' = IF call[t].op \in FaceOps THEN torn \cup {p} ELSE torn
    /\ UNCHANGED <<doorVars, homeVars, auditVars, did, crossed, calls, faults>>

\* ... and write the whole record that follows from what they saw.
Created == [role |-> "member", profile |-> FALSE]
BecomesRevoked(op, r, role) ==
    CASE op = "create" -> Created
      [] op = "role"   -> [r EXCEPT !.role = role]
      [] op = "commit" -> [r EXCEPT !.profile = TRUE]
      [] op = "delete" -> r
Becomes(op, r, role) ==
    CASE op = "create" -> Created
      [] op = "role"   -> [r EXCEPT !.role = role]
      [] op = "commit" -> [r EXCEPT !.profile = TRUE]
      [] op = "delete" -> [r EXCEPT !.profile = FALSE]

Write(t) ==
    LET p == call[t].of IN
    /\ At(t, "writing") /\ Ends(t) /\ did' = did \cup {call[t].n}
    /\ IF p \in gone THEN UNCHANGED person
       ELSE \E role \in Roles : person' = [person EXCEPT ![p] = Becomes(call[t].op, call[t].read, role)]
    /\ crossed' = IF person[p] # call[t].read THEN crossed \cup {p} ELSE crossed
    /\ UNCHANGED <<doorVars, gone, face, auditVars, torn, calls, faults>>

Retire(p) ==
    /\ Lives(p) /\ gone' = gone \cup {p}
    /\ UNCHANGED <<doorVars, person, face, auditVars, call, noteVars, calls, faults>>

\* A thread's process dies, or what it waits for fails or times out.
Die(t) ==
    /\ ~At(t, "idle") /\ Fault /\ Ends(t)
    /\ torn' = IF call[t].op \in FaceOps /\ call[t].at \in {"reading", "writing"}
               THEN torn \cup {call[t].of} ELSE torn
    /\ UNCHANGED <<doorVars, homeVars, auditVars, did, crossed, calls>>

Next ==
    \/ Tick
    \/ \E c \in Sessions : Login(c)
    \/ \E p \in People : Retire(p)
    \/ \E t \in Threads :
        \/ \E c \in Sessions : Callback(t, c)
        \/ \E c \in Sessions, op \in Ops, p \in People : Request(t, c, op, p)
        \/ Admit(t) \/ Refresh(t) \/ Logout(t) \/ Identify(t) \/ Evaluate(t) \/ Record(t)
        \/ Face(t) \/ Look(t) \/ Write(t) \/ Die(t)

Spec == Init /\ [][Next]_authorityVars

AuthorityTypeOK ==
    /\ now \in 0 .. MaxTime /\ login \in [Sessions -> {"none", "open", "spent"}]
    /\ \A c \in Sessions : (session[c] = None) = (born[c] = 0)
    /\ \A p \in People : person[p] = None \/ person[p] \in [role : Roles, profile : BOOLEAN]
    /\ gone \subseteq People /\ face \subseteq People
    /\ row \in [1 .. MaxCalls -> {None, "ALLOW", "DENY"}] /\ audited \subseteq 1 .. calls
    /\ \A t \in Threads : call[t].op \in Ops \cup {None} /\ (call[t].at = "idle") = (call[t] = Resting)

\* What changed anything was allowed before, and every decision is in the
\* journal as it is in the table, whoever dies in between.
DecisionsAreKept ==
    /\ \A n \in 1 .. MaxCalls : (row[n] # None) = (n \in audited)
    /\ \A n \in did : row[n] = "ALLOW"

\* A session that was signed out stays so, whatever a request that had found it
\* before writes back.
SignedOutStaysOut ==
    [][\A c \in Sessions : (session[c] # None /\ session[c].revoked) => session'[c].revoked]_authorityVars

\* A login gives one session, however often its callback is loaded.
LoginsAreSpent == \A c \in Sessions : born[c] <= 1

\* The graph says that a person has a face profile if and only if SENTRY has
\* it, unless a request broke off between the two or another overlapped it.
ProfilesAgree ==
    \A p \in People : (Lives(p) /\ p \notin torn \cup crossed /\ ~HalfWay(p))
        => (person[p].profile <=> p \in face)
=============================================================================
