------------------------------ MODULE SentryCore ------------------------------
(* Core's end of the SENTRY socket (sentry_service.py, owner_boundary.py,      *)
(* sentry_boundary.py): the processes that may own the socket, the             *)
(* registration of the one client that may call, and the calls it makes.  The  *)
(* life of a request itself is in IntelligenceQueue: here it is held under a   *)
(* fencing generation, let go of, and answered once.                           *)
EXTENDS Naturals, FiniteSets

CONSTANTS Owners, Threads, Requests, Tools, None,
          Given,            \* the results that the client gives, of Answers
          MaxStarts, MaxTokens, MaxClaims, MaxChanges

VARIABLES
    lock, path, listening,  \* the lock's holder, the socket file, live sockets
    host,                   \* the processes that own the socket or try to, with the
                            \* token and the codec that all their handlers share
    file, row, revoked,     \* the token file, the registration, whether it was
                            \* taken back since the operator last gave it
    permission, access, tool, changes,  \* what the owner settles meanwhile
    direct,                 \* the requests that somebody present asked for
    request,                \* who may answer which request, and its answer
    bindings,               \* the bindings that were issued
    job, seen,              \* the handlers, and what held since each began
    acts, said              \* history: what the coordinator took, what was recorded

socketVars == <<lock, path, listening, host>>
clientVars == <<file, row, revoked>>
ownerVars == <<permission, access, tool, changes>>
workVars == <<direct, request, bindings, acts, said>>
coreVars == <<socketVars, clientVars, ownerVars, workVars, job, seen>>

Permissions == {"withheld", "allowed", "required"}
Levels == {"LIMITED", "UNRESTRICTED"}
Answers == {"RESPONSE", "NO_ACTION", "PARTIAL"}
Inodes == Owners \X (1..MaxStarts)
Own(p) == <<p, host[p].starts>>
Away == [at |-> "idle", p |-> None, op |-> None, r |-> None, fence |-> 0, token |-> 0,
         loaded |-> 0, n |-> 0, what |-> None]

Init ==
    /\ lock = None /\ path = None /\ listening = {}
    /\ host = [p \in Owners |-> [at |-> "down", starts |-> 0, prior |-> None,
                              token |-> 0, codec |-> 0]]
    /\ file = 1 /\ row = None /\ revoked = FALSE
    /\ permission = "allowed" /\ access = "UNRESTRICTED" /\ tool = "frozen" /\ changes = 0
    /\ request = [r \in Requests |-> [held |-> FALSE, fence |-> 0, result |-> None]]
    /\ direct \in SUBSET Requests
    /\ bindings = {} /\ acts = {} /\ said = {}
    /\ job = [t \in Threads |-> Away] /\ seen = [t \in Threads |-> {}]

\* What holds now for who calls with a token; a handler remembers all that held at
\* some time since it began.
Enabled == row # None /\ row.enabled
Registered(token) == Enabled /\ row.token = file /\ file = token
Facts(token) == {permission, access} \cup (IF Enabled THEN {"enabled"} ELSE {})
                \cup (IF Registered(token) THEN {"registered"} ELSE {})
Witnessed == seen' = [t \in Threads |-> IF job[t].at = "idle" THEN {}
                                        ELSE seen[t] \cup Facts(job[t].token)']

(***************************** The socket's owner ****************************)
Steps(p, at) == host' = [host EXCEPT ![p].at = at]
SocketOnly == UNCHANGED <<clientVars, ownerVars, workVars, job, seen>>

\* A mutant: the lock is not asked for.
Unlocked(p) == TRUE

\* flock(LOCK_EX | LOCK_NB) on a file that is never removed; a refusal ends the start.
Free(p) == lock = None

\* An owner that has a boundary starts no second one; what fails may start again.
Startable(p) == host[p].at = "down" /\ host[p].starts < MaxStarts

Lock(p) ==
    /\ Startable(p) /\ Free(p)
    /\ lock' = p
    /\ host' = [host EXCEPT ![p].at = "look", ![p].starts = @ + 1]
    /\ UNCHANGED <<path, listening>> /\ SocketOnly

\* A socket that answers belongs to a live owner; one that refuses was left behind.
Look(p) ==
    /\ host[p].at = "look"
    /\ host' = [host EXCEPT ![p].prior = path,
                  ![p].at = IF path = None THEN "bind"
                            ELSE IF path \in listening THEN "release" ELSE "recheck"]
    /\ UNCHANGED <<lock, path, listening>> /\ SocketOnly

Recheck(p) ==
    /\ host[p].at = "recheck"
    /\ Steps(p, IF path = host[p].prior THEN "unlink" ELSE "release")
    /\ UNCHANGED <<lock, path, listening>> /\ SocketOnly

Unlink(p) ==
    /\ host[p].at = "unlink"
    /\ path' = None /\ Steps(p, "bind")
    /\ UNCHANGED <<lock, listening>> /\ SocketOnly

\* A path that exists refuses the bind.
Bind(p) ==
    /\ host[p].at = "bind"
    /\ IF path = None THEN path' = Own(p) /\ Steps(p, "listen")
       ELSE Steps(p, "release") /\ UNCHANGED path
    /\ UNCHANGED <<lock, listening>> /\ SocketOnly

Listen(p) ==
    /\ host[p].at = "listen"
    /\ listening' = listening \cup {Own(p)} /\ Steps(p, "configure")
    /\ UNCHANGED <<lock, path>> /\ SocketOnly

\* A mutant: a start registers its client whatever the registration says.
Renewed == [token |-> file, enabled |-> TRUE]

\* ensure_registered: only an absent registration is written.
Provisioned == IF row = None THEN [token |-> file, enabled |-> TRUE] ELSE row

\* What else may fail in the composition also closes the server.
Configure(p) ==
    /\ host[p].at = "configure"
    /\ \/ /\ row' = Provisioned
          /\ Steps(p, IF row'.enabled /\ row'.token = file THEN "serving" ELSE "closing")
       \/ Steps(p, "closing") /\ UNCHANGED row
    /\ UNCHANGED <<lock, path, listening, file, revoked, ownerVars, workVars, job>>
    /\ Witnessed

\* server_close: the socket first, then the file if it is still the own one, then
\* the lock.  Handlers are daemon threads and run on until the process ends.
Close(p) ==
    /\ host[p].at \in {"serving", "closing"}
    /\ listening' = listening \ {Own(p)} /\ Steps(p, "compare")
    /\ UNCHANGED <<lock, path>> /\ SocketOnly

Compare(p) ==
    /\ host[p].at = "compare"
    /\ Steps(p, IF path = Own(p) THEN "remove" ELSE "release")
    /\ UNCHANGED <<lock, path, listening>> /\ SocketOnly

Remove(p) ==
    /\ host[p].at = "remove"
    /\ path' = None /\ Steps(p, "release")
    /\ UNCHANGED <<lock, listening>> /\ SocketOnly

Unlocks(p) == lock' = IF lock = p THEN None ELSE lock

Release(p) ==
    /\ host[p].at = "release"
    /\ Unlocks(p) /\ Steps(p, "down")
    /\ UNCHANGED <<path, listening>> /\ SocketOnly

\* The kernel closes what the process held; the socket file stays.
Crash(p) ==
    /\ host[p].at # "down"
    /\ Unlocks(p) /\ listening' = listening \ {Own(p)} /\ Steps(p, "down")
    /\ job' = [t \in Threads |-> IF job[t].p = p THEN Away ELSE job[t]]
    /\ seen' = [t \in Threads |-> IF job[t].p = p THEN {} ELSE seen[t]]
    /\ UNCHANGED <<path, clientVars, ownerVars, workVars>>

(************************* The operator and the owner ************************)
\* The operator writes a new token, registers it, or takes the registration back.
Operate ==
    /\ \/ file < MaxTokens /\ file' = file + 1 /\ UNCHANGED <<row, revoked>>
       \/ row # None /\ row' = [token |-> file, enabled |-> TRUE] /\ revoked' = FALSE
          /\ row' # row /\ UNCHANGED file
       \/ row # None /\ row.enabled /\ row' = [row EXCEPT !.enabled = FALSE] /\ revoked' = TRUE
          /\ UNCHANGED file
    /\ changes < MaxChanges /\ changes' = changes + 1
    /\ UNCHANGED <<socketVars, permission, access, tool, workVars, job>>
    /\ Witnessed

\* The owner's alert settings, the person's level and the plugins change at any time.
Settle ==
    /\ \/ permission' \in Permissions \ {permission} /\ UNCHANGED <<access, tool>>
       \/ access' \in Levels \ {access} /\ UNCHANGED <<permission, tool>>
       \/ tool' \in {"frozen", "changed"} \ {tool} /\ UNCHANGED <<permission, access>>
    /\ changes < MaxChanges /\ changes' = changes + 1
    /\ UNCHANGED <<socketVars, clientVars, workVars, job>>
    /\ Witnessed

(******************************** The handlers *******************************)
Goes(t, at) == job' = [job EXCEPT ![t].at = at] /\ UNCHANGED seen
Returns(t) == job' = [job EXCEPT ![t] = Away] /\ seen' = [seen EXCEPT ![t] = {}]
HandlerOnly == UNCHANGED <<socketVars, clientVars, ownerVars>>

\* A call: to claim one request, to invoke a tool under a binding, to give the
\* result.  The client may send the same again, or a late one.
Call(t) ==
    /\ job[t].at = "idle"
    /\ \E p \in Owners, token \in 1..file :
         /\ host[p].at = "serving" /\ path = Own(p)
         /\ seen' = [seen EXCEPT ![t] = Facts(token)]
         /\ \/ \E r \in Requests : job' = [job EXCEPT ![t] =
                   [Away EXCEPT !.at = "auth", !.p = p, !.op = "claim", !.r = r, !.token = token]]
            \/ \E b \in bindings : \E what \in Tools \cup Given : job' = [job EXCEPT ![t] =
                   [at |-> "auth", p |-> p, op |-> IF what \in Tools THEN "invoke" ELSE "result",
                    r |-> b.r, fence |-> b.fence, token |-> token, loaded |-> 0, n |-> 1,
                    what |-> what]]
    /\ UNCHANGED workVars /\ HandlerOnly

\* A mutant: the registration is the one the process started with.
Remembered(token) == row # None

\* resolve_active, or the exact row of the configured client.
Resolved(token) == row # None /\ row.enabled /\ row.token = token

\* The token file is read again for every call, and what it says is put where every
\* handler of the service finds it.
LoadToken(t) ==
    /\ job[t].at = "auth"
    /\ job' = [job EXCEPT ![t].at = "share", ![t].loaded = file]
    /\ UNCHANGED <<seen, workVars>> /\ HandlerOnly

Shares(t, field, value, at) ==
    /\ host' = [host EXCEPT ![job[t].p][field] = value]
    /\ Goes(t, at)
    /\ UNCHANGED <<lock, path, listening, clientVars, ownerVars, workVars>>

ShareToken(t) == job[t].at = "share" /\ Shares(t, "token", job[t].loaded, "codec")

\* The codec is that of the token the service has by now.
ShareCodec(t) == job[t].at = "codec" /\ Shares(t, "codec", host[job[t].p].token, "match")

\* The token another handler has put there since is not the one this one loaded.
Crossing(t) == IF host[job[t].p].token # job[t].loaded THEN {"crossed"} ELSE {}

\* The caller's token is compared with the shared one, and that one is looked up.
Match(t) ==
    /\ job[t].at = "match"
    /\ IF job[t].token = host[job[t].p].token
       THEN job' = [job EXCEPT ![t].at = "resolve"] /\ seen' = [seen EXCEPT ![t] = @ \cup Crossing(t)]
       ELSE Returns(t)
    /\ UNCHANGED workVars /\ HandlerOnly

Resolve(t) ==
    /\ job[t].at = "resolve"
    /\ IF Resolved(host[job[t].p].token)
       THEN /\ job' = [job EXCEPT ![t].at = IF job[t].op = "claim" THEN "claim" ELSE "bound",
                                  ![t].token = 0, ![t].loaded = 0]
            /\ seen' = [seen EXCEPT ![t] = @ \cup Crossing(t)]
       ELSE Returns(t)
    /\ UNCHANGED workVars /\ HandlerOnly

\* issue: a binding names the claim, and is signed with the token of the moment.
Issued(t, fence) == [r |-> job[t].r, fence |-> fence, token |-> host[job[t].p].codec]

Claimable(r) == ~request[r].held /\ request[r].result = None /\ request[r].fence < MaxClaims

Claims(t) ==
    LET r == job[t].r  g == request[r].fence + 1 IN
    /\ request' = [request EXCEPT ![r].held = TRUE, ![r].fence = g]
    /\ bindings' = bindings \cup {Issued(t, g)}

\* An autonomous request is claimed exactly: what is held or answered is EMPTY.
ClaimExact(t) ==
    /\ job[t].at = "claim" /\ job[t].r \notin direct
    /\ IF Claimable(job[t].r) THEN Claims(t) ELSE UNCHANGED <<request, bindings>>
    /\ Returns(t) /\ UNCHANGED <<direct, acts, said>> /\ HandlerOnly

\* The same interaction opened again gets a new binding for the claim it holds.
OpenDirect(t) ==
    LET r == job[t].r IN
    /\ job[t].at = "claim" /\ r \in direct
    /\ IF Claimable(r) THEN Claims(t)
       ELSE /\ bindings' = bindings \cup
                 (IF request[r].held THEN {Issued(t, request[r].fence)} ELSE {})
            /\ UNCHANGED request
    /\ Returns(t) /\ UNCHANGED <<direct, acts, said>> /\ HandlerOnly

\* The signature is that of the codec the service has by now.
Verified(t) ==
    /\ [r |-> job[t].r, fence |-> job[t].fence, token |-> host[job[t].p].codec] \in bindings
    /\ request[job[t].r].fence = job[t].fence

Active(t) == request[job[t].r].held /\ request[job[t].r].fence = job[t].fence

Bound(t) ==
    /\ job[t].at = "bound"
    /\ IF Verified(t) /\ Active(t)
       THEN Goes(t, IF job[t].op = "invoke" THEN "tool" ELSE "permit") ELSE Returns(t)
    /\ UNCHANGED workVars /\ HandlerOnly

\* What a provider says of its decision is checked first: a result whose record
\* is malformed is refused as a whole, and may be sent again.
Malformed(t) ==
    /\ job[t].at = "permit" /\ job[t].op = "result"
    /\ Returns(t) /\ UNCHANGED workVars /\ HandlerOnly

\* The tool is still the one that was frozen into the request.
Frozen == tool = "frozen"

Tool(t) ==
    /\ job[t].at = "tool"
    /\ IF Active(t) /\ Frozen /\ (job[t].what = "volume" => job[t].r \in direct)
       THEN Goes(t, "access") ELSE Returns(t)
    /\ UNCHANGED workVars /\ HandlerOnly

Limited == access = "LIMITED"

\* A limited person may only read.
WithinAccess(what) == ~Limited \/ what = "read"

Access(t) ==
    /\ job[t].at = "access"
    /\ IF WithinAccess(job[t].what)
       THEN Goes(t, IF job[t].what = "notify" /\ job[t].r \notin direct THEN "permit" ELSE "act")
       ELSE Returns(t)
    /\ UNCHANGED workVars /\ HandlerOnly

Allowed == permission \in {"allowed", "required"}

\* A mutant: what the provider says is recorded as it said it.
FinalAsSaid(r, answer) == answer

\* finalize_result: unsolicited speech that is not allowed becomes NO_ACTION, and
\* silence where an announcement is required becomes PARTIAL.
Final(r, answer) ==
    IF r \in direct THEN answer
    ELSE IF answer = "RESPONSE" /\ ~Allowed THEN "NO_ACTION"
    ELSE IF answer = "NO_ACTION" /\ permission = "required" THEN "PARTIAL"
    ELSE answer

\* The permission is read anew; a notification that is not allowed is denied.
Permit(t) ==
    /\ job[t].at = "permit"
    /\ IF job[t].op = "result"
       THEN /\ job' = [job EXCEPT ![t].at = "record", ![t].what = Final(job[t].r, @)]
            /\ UNCHANGED seen
       ELSE IF Allowed THEN Goes(t, "act") ELSE Returns(t)
    /\ UNCHANGED workVars /\ HandlerOnly

\* A mutant: a new claim gives its calls new keys.
KeyPerClaim(t) == <<job[t].r, job[t].n, job[t].fence>>

\* The key a consequential call has with the coordinator.
KeyOf(t) == <<job[t].r, job[t].n>>

\* The coordinator takes a key once; the same key for another tool is refused.
Act(t) ==
    /\ job[t].at = "act"
    /\ acts' = IF job[t].what = "read" \/ \E a \in acts : a.key = KeyOf(t) THEN acts
               ELSE acts \cup {[key |-> KeyOf(t), r |-> job[t].r, n |-> job[t].n,
                                what |-> job[t].what, seen |-> seen[t]]}
    /\ Returns(t)
    /\ UNCHANGED <<direct, request, bindings, said>> /\ HandlerOnly

\* record_result under the fence; a result that is recorded lets go of the claim.
Record(t) ==
    /\ job[t].at = "record"
    /\ IF Active(t)
       THEN /\ request' = [request EXCEPT ![job[t].r].held = FALSE,
                                          ![job[t].r].result = job[t].what]
            /\ said' = said \cup {[r |-> job[t].r, what |-> job[t].what, seen |-> seen[t]]}
       ELSE UNCHANGED <<request, said>>
    /\ Returns(t)
    /\ UNCHANGED <<direct, bindings, acts>> /\ HandlerOnly

LeaseEnds(r) ==
    /\ request[r].held
    /\ request' = [request EXCEPT ![r].held = FALSE]
    /\ UNCHANGED <<direct, bindings, acts, said, job, seen>> /\ HandlerOnly

OwnerSteps(p) ==
    \/ Lock(p) \/ Look(p) \/ Recheck(p) \/ Unlink(p) \/ Bind(p) \/ Listen(p)
    \/ Configure(p) \/ Close(p) \/ Compare(p) \/ Remove(p) \/ Release(p) \/ Crash(p)

Handler(t) ==
    \/ Call(t) \/ LoadToken(t) \/ ShareToken(t) \/ ShareCodec(t) \/ Match(t) \/ Resolve(t)
    \/ ClaimExact(t) \/ OpenDirect(t) \/ Bound(t)
    \/ Malformed(t) \/ Tool(t) \/ Access(t) \/ Permit(t) \/ Act(t) \/ Record(t)

Next ==
    \/ \E p \in Owners : OwnerSteps(p)
    \/ Operate \/ Settle
    \/ \E t \in Threads : Handler(t)
    \/ \E r \in Requests : LeaseEnds(r)

Spec == Init /\ [][Next]_coreVars

(******************************** Properties *********************************)
CoreTypeOK ==
    /\ lock \in Owners \cup {None} /\ path \in Inodes \cup {None} /\ listening \subseteq Inodes
    /\ \A p \in Owners : /\ host[p].starts \in 0..MaxStarts /\ {host[p].token, host[p].codec} \subseteq 0..MaxTokens
                         /\ host[p].prior \in Inodes \cup {None}
    /\ row \in [token : 1..MaxTokens, enabled : BOOLEAN] \cup {None}
    /\ file \in 1..MaxTokens /\ revoked \in BOOLEAN
    /\ \A t \in Threads : seen[t] \subseteq Permissions \cup Levels \cup {"enabled", "registered", "crossed"}
    /\ \A r \in Requests : request[r].fence \in 0..MaxClaims
                           /\ request[r].result \in Answers \cup {None}

\* The process that answers is the one the socket's path leads to, however many
\* are started, closed or killed around it (server_bind, server_close).
OwnerIsReached ==
    \A p \in Owners : host[p].at \in {"configure", "serving"} => path = Own(p)

\* A client the operator took back is not brought back by a restart.
RevocationStands == revoked => ~row.enabled

\* Whatever is claimed again, resent or interrupted, the same call of a request
\* is handed to the coordinator once.
CalledOnce == \A a, b \in acts : a.r = b.r /\ a.n = b.n => a = b

\* What is done or recorded had its authority while the call ran: an enabled
\* registration, of the very token the caller gave unless another handler has put
\* one of its own between this one's reading and its check; a person of the right
\* level; and for unsolicited speech the owner's leave.  Silence is recorded only if
\* speech was not required throughout.
Admitted(facts) == "enabled" \in facts /\ facts \cap {"registered", "crossed"} # {}

AuthorityHeld ==
    /\ \A a \in acts : /\ Admitted(a.seen) /\ "UNRESTRICTED" \in a.seen
                       /\ a.what = "notify" /\ a.r \notin direct
                            => a.seen \cap {"allowed", "required"} # {}
    /\ \A s \in said :
         /\ Admitted(s.seen)
         /\ s.r \notin direct /\ s.what = "RESPONSE" => s.seen \cap {"allowed", "required"} # {}
         /\ s.r \notin direct /\ s.what = "NO_ACTION" => s.seen \cap {"allowed", "withheld"} # {}
=============================================================================
