------------------------ MODULE IntelligenceQueueProofs ------------------------
(* Theorems about IntelligenceQueue, for every set of requests, threads and   *)
(* clients and every number of claims.                                        *)
EXTENDS IntelligenceQueue, TLAPS

-----------------------------------------------------------------------------
(* The invariant.                                                          *)

\* Lifecycles that a row leaves for good, for as long as its claim lasts.
Undelivered == {"ABSENT", "PENDING", "CLAIMED"}
Unstarted == Undelivered \cup {"DELIVERED_TO_PROVIDER"}

\* A row is started under one generation, which is its last; only that one
\* calls tools, and a recorded result is of the last one too.
RowInv(r) ==
    /\ ran[r] = IF row[r].started THEN {row[r].gen} ELSE {}
    /\ row[r].started => row[r].life \notin Unstarted
    /\ row[r].life = "PROVIDER_RUNNING" => row[r].started
    /\ acted[r] \subseteq ran[r]
    /\ result[r] # 0 => /\ result[r] = row[r].gen
                        /\ row[r].life \in Settled \cup {"WAITING"}
    /\ approval[r] = "DECIDED" => action[r] # "NONE"

\* A binding is handed out once its claim was delivered.
BindingInv(b) ==
    /\ b.g <= row[b.r].gen
    /\ b.g = row[b.r].gen => row[b.r].life \notin Undelivered

\* A call whose first reading found the provider started finds it started.
CallInv(t) ==
    pc[t] = "assert" =>
        /\ job[t].g \in Generations
        /\ job[t].g <= row[job[t].r].gen
        /\ job[t].op \in {"start", "invoke"} =>
              /\ job[t].seen \in Lifecycles \ Undelivered
              /\ /\ job[t].seen # "DELIVERED_TO_PROVIDER"
                 /\ job[t].g = row[job[t].r].gen
                 => row[job[t].r].life \notin Unstarted

\* What calls a tool was told to run.
ToolInv(t) == pc[t] \in {"check", "tool"} => job[t].g \in ran[job[t].r]

\* What is brought to a request is the status of an action.
ReportInv(t) ==
    pc[t] = "resolve" => job[t].seen \in {"REQUIRE_CONFIRMATION", "EXECUTING", "SETTLED"}

FenceInv ==
    /\ \A r \in Requests : RowInv(r)
    /\ \A b \in bindings : BindingInv(b)
    /\ \A t \in Threads : CallInv(t) /\ ToolInv(t) /\ ReportInv(t)

IInv == TypeOK /\ FenceInv

\* The initial states satisfy it.
LEMMA InvInit == Init => IInv
<1> SUFFICES ASSUME Init PROVE IInv
  OBVIOUS
<1>1. RowTypes /\ SeenTypes /\ RowsAreClaimed
  <2>1. row \in [Requests -> Row]
    <3>1. \A o \in Origins :
            [origin |-> o, life |-> "ABSENT", owner |-> NoClient, gen |-> 0,
             lease |-> FALSE, started |-> FALSE] \in Row
      BY QueueAssumption DEF Row, Lifecycles
    <3> QED
      BY <3>1 DEF Init
  <2>2. RowsAreClaimed
    BY QueueAssumption DEF Init, RowsAreClaimed
  <2> QED
    BY <2>1, <2>2, QueueAssumption
       DEF Init, RowTypes, SeenTypes, ActionStatuses, ApprovalStatuses, Generations
<1>2. ThreadTypes
  BY QueueAssumption DEF Init, ThreadTypes, NoJob, Phases, Operations, Lifecycles
<1>3. FenceInv
  BY DEF Init, FenceInv, RowInv, BindingInv, CallInv, ToolInv, ReportInv, Unstarted, Undelivered
<1> QED
  BY <1>1, <1>2, <1>3 DEF IInv, TypeOK

-----------------------------------------------------------------------------
(* What a claim may reach.                                                 *)

Jobs == [r : Requests \cup {NoRequest}, g : 0 .. MaxGenerations,
         c : Clients \cup {NoClient}, op : Operations,
         seen : Lifecycles \cup ActionStatuses, lasted : BOOLEAN]

\* A thread that serves a call keeps its job in type.
LEMMA ThreadMoves ==
    ASSUME ThreadTypes, NEW t \in Threads, NEW p \in Phases, NEW j \in Jobs,
           pc' = [pc EXCEPT ![t] = p], job' = [job EXCEPT ![t] = j],
           p # "idle" => j.r \in Requests,
           bindings' \subseteq Binding
    PROVE  ThreadTypes'
BY DEF ThreadTypes, Jobs

\* The job of an idle thread.
LEMMA NoJobType == NoJob \in Jobs
BY QueueAssumption DEF NoJob, Jobs, Operations, Lifecycles

\* Returning keeps the threads in type.
LEMMA ReturnTypes ==
    ASSUME ThreadTypes, NEW t \in Threads, Return(t), bindings' \subseteq Binding
    PROVE  ThreadTypes'
BY NoJobType, ThreadMoves DEF Return, Phases

\* So does going on with the same job.
LEMMA GotoTypes ==
    ASSUME ThreadTypes, NEW t \in Threads, NEW p \in Phases, Goto(t, p),
           pc[t] # "idle", bindings' \subseteq Binding
    PROVE  ThreadTypes'
BY DEF Goto, ThreadTypes

\* What a step may do to a row, its claim and its provider: a claim lasts or is
\* superseded, and under one claim the lifecycle does not go back.
Later(r) ==
    /\ row[r].gen <= row'[r].gen
    /\ row'[r].gen = row[r].gen =>
          /\ row[r].life \notin Undelivered => row'[r].life \notin Undelivered
          /\ row[r].life \notin Unstarted => row'[r].life \notin Unstarted
    /\ ran[r] \subseteq ran'[r]

\* Generations are numbers.
LEMMA GensAreNat == RowTypes => \A r \in Requests : row[r].gen \in Nat
<1>1. \A x \in Row : x.gen \in Nat
  BY QueueAssumption DEF Row
<1> QED
  BY <1>1 DEF RowTypes

\* So they are after a step.
LEMMA GensAreNatAfter == RowTypes' => \A r \in Requests : row'[r].gen \in Nat
<1>1. \A x \in Row : x.gen \in Nat
  BY QueueAssumption DEF Row
<1> QED
  BY <1>1 DEF RowTypes

\* What a binding says stays true as its row goes on.
LEMMA BindingKept ==
    ASSUME IInv, TypeOK', \A r \in Requests : Later(r), NEW b \in bindings
    PROVE  BindingInv(b)'
<1>1. b.r \in Requests /\ b.g \in Nat
  BY QueueAssumption DEF IInv, TypeOK, ThreadTypes, Binding, Generations
<1>2. BindingInv(b) /\ Later(b.r)
  BY <1>1 DEF IInv, FenceInv
<1> QED
  BY GensAreNat, GensAreNatAfter, <1>1, <1>2 DEF BindingInv, Later, IInv, TypeOK

\* What a thread found out stays true while it does not move.
LEMMA ThreadKept ==
    ASSUME IInv, TypeOK', \A r \in Requests : Later(r), NEW u \in Threads,
           pc'[u] = pc[u], job'[u] = job[u]
    PROVE  CallInv(u)' /\ ToolInv(u)' /\ ReportInv(u)'
<1>1. CallInv(u)'
  <2>1. SUFFICES ASSUME pc[u] = "assert" PROVE CallInv(u)'
    BY DEF CallInv
  <2>2. job[u].r \in Requests /\ job[u].g \in Nat
    BY <2>1, QueueAssumption DEF IInv, TypeOK, ThreadTypes
  <2>3. CallInv(u) /\ Later(job[u].r)
    BY <2>2 DEF IInv, FenceInv
  <2> QED
    BY GensAreNat, GensAreNatAfter, <2>1, <2>2, <2>3 DEF CallInv, Later, IInv, TypeOK
<1>2. ToolInv(u)'
  <2>1. SUFFICES ASSUME pc[u] \in {"check", "tool"} PROVE ToolInv(u)'
    BY DEF ToolInv
  <2>2. job[u].r \in Requests
    BY <2>1 DEF IInv, TypeOK, ThreadTypes
  <2>3. ToolInv(u) /\ Later(job[u].r)
    BY <2>2 DEF IInv, FenceInv
  <2> QED
    BY <2>1, <2>2, <2>3 DEF ToolInv, Later
<1>3. ReportInv(u)'
  BY DEF IInv, FenceInv, ReportInv
<1> QED
  BY <1>1, <1>2, <1>3

\* So the invariant is kept by a step that keeps the types and RowInv, takes the
\* rows forward, and moves one thread with what it must know.
LEMMA StepKeepsInv ==
    ASSUME IInv, TypeOK', \A r \in Requests : RowInv(r)' /\ Later(r),
           NEW t \in Threads,
           \A u \in Threads \ {t} : pc'[u] = pc[u] /\ job'[u] = job[u],
           \A b \in bindings' : b \in bindings \/ BindingInv(b)',
           CallInv(t)' /\ ToolInv(t)' /\ ReportInv(t)'
    PROVE  IInv'
<1>1. \A b \in bindings' : BindingInv(b)'
  BY BindingKept
<1>2. \A u \in Threads : CallInv(u)' /\ ToolInv(u)' /\ ReportInv(u)'
  BY ThreadKept
<1> QED
  BY <1>1, <1>2 DEF IInv, FenceInv

\* Of a step that moves no thread there is less to say.
LEMMA QuietKeepsInv ==
    ASSUME IInv, TypeOK', \A r \in Requests : RowInv(r)' /\ Later(r),
           UNCHANGED <<pc, job>>,
           \A b \in bindings' : b \in bindings \/ BindingInv(b)'
    PROVE  IInv'
<1>1. \A b \in bindings' : BindingInv(b)'
  BY BindingKept
<1>2. \A u \in Threads : CallInv(u)' /\ ToolInv(u)' /\ ReportInv(u)'
  BY ThreadKept
<1> QED
  BY <1>1, <1>2 DEF IInv, FenceInv

-----------------------------------------------------------------------------
(* Steps that write one row.                                               *)

\* A row that a statement may leave behind.
Sound(x) ==
    /\ x \in Row
    /\ x.owner = NoClient <=> x.gen = 0
    /\ x.gen = 0 => x.life \in {"ABSENT", "PENDING", "CANCELLED"}
    /\ x.gen > 0 => x.life \notin {"ABSENT", "PENDING"}

\* The rows are sound.
LEMMA RowsAreSound == IInv => \A r \in Requests : Sound(row[r])
BY DEF IInv, TypeOK, RowTypes, RowsAreClaimed, Sound

\* Writing a sound row keeps the rows in type.
LEMMA RowWritten ==
    ASSUME IInv, NEW q \in Requests, NEW x, Sound(x),
           row' = [row EXCEPT ![q] = x]
    PROVE  /\ row' \in [Requests -> Row]
           /\ RowsAreClaimed'
           /\ row'[q] = x
           /\ \A r \in Requests \ {q} : row'[r] = row[r]
<1>1. row \in [Requests -> Row]
  BY DEF IInv, TypeOK, RowTypes
<1>2. row'[q] = x /\ \A r \in Requests \ {q} : row'[r] = row[r]
  BY <1>1
<1>3. RowsAreClaimed'
  BY <1>2 DEF RowsAreClaimed, Sound, IInv, TypeOK
<1> QED
  BY <1>1, <1>2, <1>3 DEF Sound

\* A row that is not written goes on as it is.
LEMMA RowKept ==
    ASSUME IInv, NEW r \in Requests, row'[r] = row[r],
           UNCHANGED <<ran, acted, result, approval, action>>
    PROVE  RowInv(r)' /\ Later(r)
<1>1. RowInv(r) /\ row[r].gen \in Nat
  BY GensAreNat DEF IInv, TypeOK, FenceInv
<1> QED
  BY <1>1 DEF RowInv, Later

\* A row whose lifecycle alone changes, forwards under its claim.
LEMMA LifeWritten ==
    ASSUME IInv, NEW r \in Requests, NEW l \in Lifecycles,
           Sound([row[r] EXCEPT !.life = l]),
           row' = [row EXCEPT ![r].life = l],
           row[r].life \notin Undelivered => l \notin Undelivered,
           row[r].life \notin Unstarted => l \notin Unstarted,
           result[r] # 0 => l \in Settled \cup {"WAITING"},
           l # "PROVIDER_RUNNING",
           UNCHANGED <<ran, acted, result, approval, action>>
    PROVE  /\ row' \in [Requests -> Row]
           /\ RowsAreClaimed'
           /\ \A q \in Requests : RowInv(q)' /\ Later(q)
<1> DEFINE x == [row[r] EXCEPT !.life = l]
<1>1. row' = [row EXCEPT ![r] = x]
  OBVIOUS
<1> HIDE DEF x
<1>2. /\ row' \in [Requests -> Row] /\ RowsAreClaimed'
      /\ row'[r] = x /\ \A q \in Requests \ {r} : row'[q] = row[q]
  BY <1>1, RowWritten DEF x
<1>3. /\ x.life = l /\ x.gen = row[r].gen /\ x.started = row[r].started
  <2>1. row[r] \in Row
    BY DEF IInv, TypeOK, RowTypes
  <2> QED
    BY <2>1 DEF x, Row
<1>4. RowInv(r)' /\ Later(r)
  <2>1. RowInv(r) /\ row[r].gen \in Nat
    BY GensAreNat DEF IInv, TypeOK, FenceInv
  <2> QED
    BY <1>2, <1>3, <2>1 DEF RowInv, Later
<1> QED
  BY <1>2, <1>4, RowKept

\* A fresh row.
LEMMA EnqueueInv == ASSUME IInv, NEW r \in Requests, Enqueue(r) PROVE IInv'
<1>1. Sound([row[r] EXCEPT !.life = "PENDING"])
  BY RowsAreSound DEF Enqueue, Sound, Row, Lifecycles
<1>2. RowInv(r)
  BY DEF IInv, FenceInv
<1>3. /\ row' \in [Requests -> Row] /\ RowsAreClaimed'
      /\ \A q \in Requests : RowInv(q)' /\ Later(q)
  BY <1>1, <1>2, LifeWritten
     DEF Enqueue, RowInv, Undelivered, Unstarted, Settled, Lifecycles, seenVars, approvalVars
<1>4. TypeOK'
  BY <1>3 DEF Enqueue, IInv, TypeOK, RowTypes, ThreadTypes, SeenTypes, seenVars, approvalVars
<1> QED
  BY <1>3, <1>4, QuietKeepsInv DEF Enqueue

\* A task's request that nobody took.
LEMMA CancelTaskInv == ASSUME IInv, NEW r \in Requests, CancelTask(r) PROVE IInv'
<1>1. Sound([row[r] EXCEPT !.life = "CANCELLED"])
  BY RowsAreSound DEF CancelTask, Sound, Row, Lifecycles, Settled
<1>2. RowInv(r)
  BY DEF IInv, FenceInv
<1>3. /\ row' \in [Requests -> Row] /\ RowsAreClaimed'
      /\ \A q \in Requests : RowInv(q)' /\ Later(q)
  BY <1>1, <1>2, LifeWritten
     DEF CancelTask, RowInv, Undelivered, Unstarted, Settled, Lifecycles, seenVars, approvalVars
<1>4. TypeOK'
  BY <1>3 DEF CancelTask, IInv, TypeOK, RowTypes, ThreadTypes, SeenTypes, seenVars, approvalVars
<1> QED
  BY <1>3, <1>4, QuietKeepsInv DEF CancelTask

\* Leases come and go without a trace in the invariant.
LEMMA LeaseWritten ==
    ASSUME IInv, NEW r \in Requests, NEW l \in BOOLEAN,
           row' = [row EXCEPT ![r].lease = l],
           UNCHANGED <<ran, acted, result, approval, action>>
    PROVE  /\ row' \in [Requests -> Row]
           /\ RowsAreClaimed'
           /\ \A q \in Requests : RowInv(q)' /\ Later(q)
<1> DEFINE x == [row[r] EXCEPT !.lease = l]
<1>1. row' = [row EXCEPT ![r] = x] /\ Sound(x)
  BY RowsAreSound DEF Sound, Row
<1>2. x.life = row[r].life /\ x.gen = row[r].gen /\ x.started = row[r].started
  BY RowsAreSound DEF Sound, Row
<1> HIDE DEF x
<1>3. /\ row' \in [Requests -> Row] /\ RowsAreClaimed'
      /\ row'[r] = x /\ \A q \in Requests \ {r} : row'[q] = row[q]
  BY <1>1, RowWritten
<1>4. RowInv(r)' /\ Later(r)
  <2>1. RowInv(r) /\ row[r].gen \in Nat
    BY GensAreNat DEF IInv, TypeOK, FenceInv
  <2> QED
    BY <1>2, <1>3, <2>1 DEF RowInv, Later
<1> QED
  BY <1>3, <1>4, RowKept

\* A lease that ends leaves the claim to whoever takes it over.
LEMMA LeaseEndsInv == ASSUME IInv, NEW r \in Requests, LeaseEnds(r) PROVE IInv'
<1>1. /\ row' \in [Requests -> Row] /\ RowsAreClaimed'
      /\ \A q \in Requests : RowInv(q)' /\ Later(q)
  BY LeaseWritten DEF LeaseEnds, seenVars, approvalVars
<1>2. TypeOK'
  BY <1>1 DEF LeaseEnds, IInv, TypeOK, RowTypes, ThreadTypes, SeenTypes, seenVars, approvalVars
<1> QED
  BY <1>1, <1>2, QuietKeepsInv DEF LeaseEnds

-----------------------------------------------------------------------------
(* Steps that move one thread.                                             *)

\* A thread moves; where it arrives it knows what it must.
LEMMA Moves ==
    ASSUME IInv, RowTypes', SeenTypes', RowsAreClaimed',
           \A r \in Requests : RowInv(r)' /\ Later(r),
           NEW t \in Threads, NEW p \in Phases, NEW j \in Jobs,
           pc' = [pc EXCEPT ![t] = p], job' = [job EXCEPT ![t] = j],
           p # "idle" => j.r \in Requests,
           bindings' \subseteq Binding,
           \A b \in bindings' : b \in bindings \/ BindingInv(b)',
           \/ p \notin {"assert", "check", "tool", "resolve"}
           \/ CallInv(t)' /\ ToolInv(t)' /\ ReportInv(t)'
    PROVE  IInv'
<1>1. ThreadTypes'
  BY ThreadMoves DEF IInv, TypeOK
<1>2. /\ pc'[t] = p
      /\ \A u \in Threads \ {t} : pc'[u] = pc[u] /\ job'[u] = job[u]
  BY DEF IInv, TypeOK, ThreadTypes
<1>3. CallInv(t)' /\ ToolInv(t)' /\ ReportInv(t)'
  BY <1>2 DEF CallInv, ToolInv, ReportInv
<1>4. TypeOK'
  BY <1>1 DEF TypeOK
<1> QED
  BY <1>2, <1>3, <1>4, StepKeepsInv

\* What the rows say does not change with the threads.
LEMMA SameRows ==
    ASSUME IInv, UNCHANGED <<row, action, approval, seenVars>>
    PROVE  \A r \in Requests : RowInv(r)' /\ Later(r)
BY RowKept DEF seenVars

\* The job of a thread is a job.
LEMMA JobType == ASSUME ThreadTypes, NEW t \in Threads
                 PROVE  job[t] \in Jobs /\ (pc[t] # "idle" => job[t].r \in Requests)
BY DEF ThreadTypes, Jobs

\* A thread moves, and the tables stay.
LEMMA OnlyMoves ==
    ASSUME IInv, UNCHANGED <<row, approvalVars, bindings, seenVars>>,
           lost' \in [Requests -> BOOLEAN],
           NEW t \in Threads, NEW p \in Phases, NEW j \in Jobs,
           pc' = [pc EXCEPT ![t] = p], job' = [job EXCEPT ![t] = j],
           p # "idle" => j.r \in Requests,
           \/ p \notin {"assert", "check", "tool", "resolve"}
           \/ CallInv(t)' /\ ToolInv(t)' /\ ReportInv(t)'
    PROVE  IInv'
<1>1. RowTypes' /\ SeenTypes' /\ RowsAreClaimed' /\ bindings' \subseteq Binding
  BY DEF IInv, TypeOK, RowTypes, SeenTypes, RowsAreClaimed, ThreadTypes, seenVars, approvalVars
<1>2. \A r \in Requests : RowInv(r)' /\ Later(r)
  BY SameRows DEF approvalVars
<1> QED
  BY <1>1, <1>2, Moves

\* A call returns without having changed anything.
LEMMA ReturnInv ==
    ASSUME IInv, UNCHANGED <<row, approvalVars, bindings, seenVars>>,
           lost' \in [Requests -> BOOLEAN], NEW t \in Threads, Return(t)
    PROVE  IInv'
BY NoJobType, OnlyMoves DEF Return, Phases

\* Going on with the same job.
LEMMA GotoMoves ==
    ASSUME ThreadTypes, NEW t \in Threads, NEW p, Goto(t, p)
    PROVE  pc' = [pc EXCEPT ![t] = p] /\ job' = [job EXCEPT ![t] = job[t]]
BY DEF Goto, ThreadTypes

\* A call that dies leaves what it wrote.
LEMMA DieInv == ASSUME IInv, NEW t \in Threads, Die(t) PROVE IInv'
<1>1. lost' \in [Requests -> BOOLEAN]
  BY DEF Die, IInv, TypeOK, SeenTypes
<1> QED
  BY <1>1, ReturnInv DEF Die

\* Opening the transaction forgets the first reading.
LEMMA BeginInv == ASSUME IInv, NEW t \in Threads, Begin(t) PROVE IInv'
<1> DEFINE l == SameClaim(t) /\ row[job[t].r].lease
           j == [job[t] EXCEPT !.lasted = l]
<1>1. job[t] \in Jobs /\ job[t].r \in Requests
  BY JobType DEF Begin, IInv, TypeOK
<1>2. row[job[t].r].lease \in BOOLEAN
  BY <1>1 DEF IInv, TypeOK, RowTypes, Row
<1>3. l \in BOOLEAN
  BY <1>2 DEF SameClaim
<1>4. pc' = [pc EXCEPT ![t] = "write"] /\ job' = [job EXCEPT ![t] = j]
  BY DEF Begin
<1> HIDE DEF l
<1>5. j \in Jobs /\ j.r \in Requests
  BY <1>1, <1>3 DEF Jobs
<1>6. lost' \in [Requests -> BOOLEAN] /\ UNCHANGED <<row, approvalVars, bindings, seenVars>>
  BY DEF Begin, IInv, TypeOK, SeenTypes
<1> HIDE DEF j
<1> QED
  BY <1>4, <1>5, <1>6, OnlyMoves DEF Phases

\* The reconciliation brings on what it read of the action.
LEMMA ReconcileInv == ASSUME IInv, NEW t \in Threads, Reconcile(t) PROVE IInv'
<1>0. lost' \in [Requests -> BOOLEAN] /\ UNCHANGED <<row, approvalVars, bindings, seenVars>>
  BY DEF Reconcile, IInv, TypeOK, SeenTypes
<1>1. job[t] \in Jobs /\ job[t].r \in Requests
  BY JobType DEF Reconcile, IInv, TypeOK
<1>2. CASE associated[job[t].r] /\ approval[job[t].r] = "DECIDED"
  <2> DEFINE j == [job[t] EXCEPT !.seen = action[job[t].r]]
  <2>1. action[job[t].r] \in ActionStatuses /\ action[job[t].r] # "NONE"
    BY <1>1, <1>2 DEF IInv, TypeOK, RowTypes, FenceInv, RowInv
  <2>2. j \in Jobs /\ j.r \in Requests /\ j.seen = action[job[t].r]
    BY <1>1, <2>1 DEF Jobs
  <2>3. pc' = [pc EXCEPT ![t] = "resolve"] /\ job' = [job EXCEPT ![t] = j]
    BY <1>2 DEF Reconcile
  <2> HIDE DEF j
  <2>4. pc'[t] = "resolve" /\ job'[t] = j
    BY <2>3 DEF IInv, TypeOK, ThreadTypes
  <2>5. CallInv(t)' /\ ToolInv(t)' /\ ReportInv(t)'
    BY <2>1, <2>2, <2>4 DEF CallInv, ToolInv, ReportInv, ActionStatuses
  <2> QED
    BY <1>0, <2>2, <2>3, <2>5, OnlyMoves DEF Phases
<1>3. CASE ~(associated[job[t].r] /\ approval[job[t].r] = "DECIDED")
  BY <1>0, <1>3, ReturnInv DEF Reconcile
<1> QED
  BY <1>2, <1>3

\* A tool is checked for a claim that was told to run.
LEMMA CheckInv == ASSUME IInv, NEW t \in Threads, Check(t) PROVE IInv'
<1>0. lost' \in [Requests -> BOOLEAN] /\ UNCHANGED <<row, approvalVars, bindings, seenVars>>
  BY DEF Check, IInv, TypeOK, SeenTypes
<1>1. job[t] \in Jobs /\ job[t].r \in Requests
  BY JobType DEF Check, IInv, TypeOK
<1>2. CASE IsActive(t)
  <2>1. pc' = [pc EXCEPT ![t] = "tool"] /\ job' = [job EXCEPT ![t] = job[t]]
    BY <1>2, GotoMoves DEF Check, IInv, TypeOK
  <2>2. pc'[t] = "tool" /\ job'[t] = job[t]
    BY <2>1 DEF IInv, TypeOK, ThreadTypes
  <2>3. ToolInv(t)
    BY DEF IInv, FenceInv
  <2>4. CallInv(t)' /\ ToolInv(t)' /\ ReportInv(t)'
    BY <1>0, <2>2, <2>3 DEF CallInv, ToolInv, ReportInv, Check, seenVars
  <2> QED
    BY <1>0, <1>1, <2>1, <2>4, OnlyMoves DEF Phases
<1>3. CASE ~IsActive(t)
  BY <1>0, <1>3, ReturnInv DEF Check
<1> QED
  BY <1>2, <1>3

\* The handler's first reading.
LEMMA CallInvStep ==
    ASSUME IInv, NEW t \in Threads, NEW b \in bindings, NEW op \in Operations, Call(t, b, op)
    PROVE  IInv'
<1> DEFINE s == IF op \in {"start", "invoke"} THEN row[b.r].life ELSE "ABSENT"
           j == [NoJob EXCEPT !.r = b.r, !.g = b.g, !.c = b.c, !.op = op, !.seen = s]
<1>1. /\ b.r \in Requests /\ b.g \in Generations /\ b.c \in Clients
      /\ BindingInv(b) /\ row[b.r].gen = b.g
  BY DEF IInv, TypeOK, ThreadTypes, Binding, FenceInv, Call, Verified
<1>2. row[b.r].life \in Lifecycles
  BY <1>1 DEF IInv, TypeOK, RowTypes, Row
<1>3. s \in Lifecycles
  BY <1>2 DEF Lifecycles
<1>4. pc' = [pc EXCEPT ![t] = "assert"] /\ job' = [job EXCEPT ![t] = j]
  BY DEF Call
<1>5. op \in {"start", "invoke"} => s = row[b.r].life
  OBVIOUS
<1> HIDE DEF s
<1>6. /\ j \in Jobs /\ j.r = b.r /\ j.g = b.g /\ j.op = op /\ j.seen = s
  <2>1. b.g \in 0 .. MaxGenerations
    BY <1>1, QueueAssumption DEF Generations
  <2> QED
    BY <1>1, <1>3, <2>1, NoJobType DEF Jobs
<1> HIDE DEF j
<1>7. pc'[t] = "assert" /\ job'[t] = j /\ row' = row
  BY <1>4 DEF IInv, TypeOK, ThreadTypes, Call
<1>8. ToolInv(t)' /\ ReportInv(t)'
  BY <1>7 DEF ToolInv, ReportInv
<1>9. CallInv(t)'
  <2>1. b.g <= row[b.r].gen
    BY <1>1 DEF BindingInv
  <2>2. op \in {"start", "invoke"} => s \notin Undelivered
    BY <1>1, <1>5 DEF BindingInv
  <2>3. op \in {"start", "invoke"} /\ s # "DELIVERED_TO_PROVIDER"
            => row[b.r].life \notin Unstarted
    BY <1>5, <2>2 DEF Unstarted
  <2> QED
    BY <1>1, <1>3, <1>6, <1>7, <2>1, <2>2, <2>3 DEF CallInv
<1>10. lost' \in [Requests -> BOOLEAN] /\ UNCHANGED <<row, approvalVars, bindings, seenVars>>
  BY DEF Call, IInv, TypeOK, SeenTypes
<1> QED
  BY <1>1, <1>4, <1>6, <1>8, <1>9, <1>10, OnlyMoves DEF Phases

\* An active claim on which a call goes on is the row's, and it was started if
\* the first reading said so.
LEMMA ActiveClaim ==
    ASSUME IInv, NEW t \in Threads, pc[t] = "assert", IsActive(t),
           job[t].op \in {"start", "invoke"}, job[t].seen # "DELIVERED_TO_PROVIDER"
    PROVE  ran[job[t].r] = {job[t].g} /\ job[t].g \in Generations
<1>1. job[t].r \in Requests
  BY DEF IInv, TypeOK, ThreadTypes
<1>2. /\ CallInv(t) /\ RowInv(job[t].r)
      /\ row[job[t].r].gen = job[t].g /\ row[job[t].r].life \in Active
  BY <1>1 DEF IInv, FenceInv, IsActive, SameClaim
<1>3. row[job[t].r].life = "PROVIDER_RUNNING"
  BY <1>2 DEF CallInv, Active, Unstarted, Undelivered
<1> QED
  BY <1>2, <1>3 DEF RowInv, CallInv

\* Forgetting what was read leaves a job.
LEMMA ForgetMoves ==
    ASSUME IInv, NEW t \in Threads, pc[t] # "idle", NEW p, Forget(t, p)
    PROVE  \E j \in Jobs : /\ pc' = [pc EXCEPT ![t] = p]
                           /\ job' = [job EXCEPT ![t] = j]
                           /\ j.r = job[t].r /\ j.g = job[t].g /\ j.r \in Requests
<1> DEFINE j == [job[t] EXCEPT !.seen = "ABSENT"]
<1>1. job[t] \in Jobs /\ job[t].r \in Requests
  BY JobType DEF IInv, TypeOK
<1>2. j \in Jobs /\ j.r = job[t].r /\ j.g = job[t].g
  BY <1>1 DEF Jobs, Lifecycles
<1>3. pc' = [pc EXCEPT ![t] = p] /\ job' = [job EXCEPT ![t] = j]
  BY DEF Forget
<1> QED
  BY <1>1, <1>2, <1>3

\* The second reading: whoever goes on to a tool goes on with the claim that
\* was started, because the first reading found it so.
LEMMA AssertActiveInv == ASSUME IInv, NEW t \in Threads, AssertActive(t) PROVE IInv'
<1>0. /\ lost' \in [Requests -> BOOLEAN] /\ pc[t] = "assert"
      /\ UNCHANGED <<row, approvalVars, bindings, lost, acted, result>>
  BY DEF AssertActive, IInv, TypeOK, SeenTypes
<1>1. job[t].r \in Requests
  BY <1>0 DEF IInv, TypeOK, ThreadTypes
<1>2. CASE Return(t) /\ UNCHANGED ran
  BY <1>0, <1>2, ReturnInv DEF seenVars
<1>3. CASE IsActive(t) /\ job[t].op = "start" /\ job[t].seen = "PROVIDER_RUNNING"
           /\ Return(t) /\ Told(t)
  <2>1. ran' = ran
    <3>1. ran[job[t].r] = {job[t].g}
      BY <1>0, <1>3, ActiveClaim
    <3>2. ran \in [Requests -> SUBSET Generations]
      BY DEF IInv, TypeOK, SeenTypes
    <3> QED
      BY <1>1, <1>3, <3>1, <3>2 DEF Told
  <2> QED
    BY <1>0, <1>3, <2>1, ReturnInv DEF seenVars
<1>4. CASE IsActive(t) /\ job[t].op = "invoke" /\ job[t].seen # "DELIVERED_TO_PROVIDER"
           /\ Forget(t, "check") /\ UNCHANGED ran
  <2>1. PICK j \in Jobs : /\ pc' = [pc EXCEPT ![t] = "check"]
                          /\ job' = [job EXCEPT ![t] = j]
                          /\ j.r = job[t].r /\ j.g = job[t].g /\ j.r \in Requests
    BY <1>0, <1>4, ForgetMoves
  <2>2. pc'[t] = "check" /\ job'[t] = j
    BY <2>1 DEF IInv, TypeOK, ThreadTypes
  <2>3. job[t].g \in ran[job[t].r]
    BY <1>0, <1>4, ActiveClaim
  <2>4. CallInv(t)' /\ ToolInv(t)' /\ ReportInv(t)'
    BY <1>4, <2>1, <2>2, <2>3 DEF CallInv, ToolInv, ReportInv
  <2> QED
    BY <1>0, <1>4, <2>1, <2>4, OnlyMoves DEF Phases, seenVars
<1>5. CASE Forget(t, "begin") /\ UNCHANGED ran
  <2>1. PICK j \in Jobs : /\ pc' = [pc EXCEPT ![t] = "begin"]
                          /\ job' = [job EXCEPT ![t] = j]
                          /\ j.r \in Requests
    BY <1>0, <1>5, ForgetMoves
  <2> QED
    BY <1>0, <1>5, <2>1, OnlyMoves DEF Phases, seenVars
<1> QED
  BY <1>2, <1>3, <1>4, <1>5 DEF AssertActive

\* What may change in the rows without touching the claims.
LEMMA SameClaims ==
    ASSUME IInv, RowTypes', SeenTypes', UNCHANGED <<row, ran, result>>,
           \A r \in Requests : acted'[r] \subseteq ran[r],
           \A r \in Requests : approval'[r] = "DECIDED" => action'[r] # "NONE"
    PROVE  RowsAreClaimed' /\ \A r \in Requests : RowInv(r)' /\ Later(r)
<1>1. RowsAreClaimed'
  BY DEF IInv, TypeOK, RowsAreClaimed
<1>2. ASSUME NEW r \in Requests PROVE RowInv(r)' /\ Later(r)
  <2>1. RowInv(r) /\ row[r].gen \in Nat
    BY GensAreNat DEF IInv, TypeOK, FenceInv
  <2> QED
    BY <2>1 DEF RowInv, Later
<1> QED
  BY <1>1, <1>2

\* A tool that is called, or parks its action, acts for the claim that ran.
LEMMA ToolStepInv == ASSUME IInv, NEW t \in Threads, Tool(t) PROVE IInv'
<1> DEFINE r == job[t].r
           g == job[t].g
<1>1. pc[t] = "tool" /\ job[t] \in Jobs /\ r \in Requests
  BY JobType DEF Tool, IInv, TypeOK
<1>2. ToolInv(t) /\ RowInv(r)
  BY <1>1 DEF IInv, FenceInv
<1>3. g \in ran[r] /\ ran[r] \subseteq Generations /\ acted[r] \subseteq ran[r]
  BY <1>1, <1>2 DEF ToolInv, RowInv, IInv, TypeOK, SeenTypes
<1>4. acted' = [acted EXCEPT ![r] = @ \cup {g}]
  BY DEF Tool
<1>5. /\ acted' \in [Requests -> SUBSET Generations]
      /\ \A q \in Requests : acted'[q] \subseteq ran[q]
  <2>1. \A q \in Requests : acted[q] \subseteq ran[q]
    BY DEF IInv, FenceInv, RowInv
  <2>2. acted \in [Requests -> SUBSET Generations]
    BY DEF IInv, TypeOK, SeenTypes
  <2> HIDE DEF r, g
  <2> QED
    BY <1>1, <1>3, <1>4, <2>1, <2>2
<1>6. /\ action' \in [Requests -> ActionStatuses]
      /\ \A q \in Requests : approval'[q] = "DECIDED" => action'[q] # "NONE"
  <2>1. \A q \in Requests : approval[q] = "DECIDED" => action[q] # "NONE"
    BY DEF IInv, FenceInv, RowInv
  <2>2. action \in [Requests -> ActionStatuses]
    BY DEF IInv, TypeOK, RowTypes
  <2> QED
    BY <1>1, <2>1, <2>2 DEF Tool, ActionStatuses
<1>7. RowTypes' /\ SeenTypes' /\ UNCHANGED <<row, ran, result, bindings>>
  BY <1>5, <1>6 DEF Tool, IInv, TypeOK, RowTypes, SeenTypes
<1>8. RowsAreClaimed' /\ \A q \in Requests : RowInv(q)' /\ Later(q)
  BY <1>5, <1>6, <1>7, SameClaims
<1>9. bindings' \subseteq Binding
  BY <1>7 DEF IInv, TypeOK, ThreadTypes
<1>10. CASE Return(t)
  BY <1>7, <1>8, <1>9, <1>10, NoJobType, Moves DEF Return, Phases
<1>11. CASE Goto(t, "associate")
  <2>1. pc' = [pc EXCEPT ![t] = "associate"] /\ job' = [job EXCEPT ![t] = job[t]]
    BY <1>11, GotoMoves DEF IInv, TypeOK
  <2> QED
    BY <1>1, <1>7, <1>8, <1>9, <2>1, Moves DEF Phases
<1> QED
  BY <1>10, <1>11 DEF Tool

\* The association writes a column that no other part speaks of.
LEMMA AssociateInv == ASSUME IInv, NEW t \in Threads, Associate(t) PROVE IInv'
<1>1. job[t].r \in Requests
  BY JobType DEF Associate, IInv, TypeOK
<1>2. associated' \in [Requests -> BOOLEAN]
  <2>1. IsActive(t) \in BOOLEAN
    BY <1>1 DEF IsActive, SameClaim, IInv, TypeOK, RowTypes, Row
  <2> QED
    BY <2>1 DEF Associate, IInv, TypeOK, RowTypes
<1>3. /\ RowTypes' /\ SeenTypes' /\ RowsAreClaimed' /\ bindings' \subseteq Binding
      /\ UNCHANGED <<row, action, approval, bindings, seenVars>>
  BY <1>2 DEF Associate, IInv, TypeOK, RowTypes, SeenTypes, RowsAreClaimed, ThreadTypes, seenVars
<1>4. \A r \in Requests : RowInv(r)' /\ Later(r)
  BY <1>3, SameRows
<1>5. Return(t)
  BY DEF Associate
<1> QED
  BY <1>3, <1>4, <1>5, NoJobType, Moves DEF Return, Phases

\* An approval is decided only of an action that was parked.
LEMMA DecideInv ==
    ASSUME IInv, NEW t \in Threads, NEW r \in Requests, Decide(t, r) PROVE IInv'
<1> DEFINE j == [NoJob EXCEPT !.r = r, !.op = "decide"]
<1>1. j \in Jobs /\ j.r \in Requests
  BY NoJobType DEF Jobs, Operations
<1>2. pc' = [pc EXCEPT ![t] = "execute"] /\ job' = [job EXCEPT ![t] = j]
  BY DEF Decide
<1>3. /\ approval' \in [Requests -> ApprovalStatuses]
      /\ \A q \in Requests : approval'[q] = "DECIDED" => action'[q] # "NONE"
  <2>1. \A q \in Requests : approval[q] = "DECIDED" => action[q] # "NONE"
    BY DEF IInv, FenceInv, RowInv
  <2>2. approval \in [Requests -> ApprovalStatuses]
    BY DEF IInv, TypeOK, RowTypes
  <2> QED
    BY <2>1, <2>2 DEF Decide, ApprovalStatuses
<1>4. \A q \in Requests : acted'[q] \subseteq ran[q]
  BY DEF IInv, FenceInv, RowInv, Decide, seenVars
<1>5. RowTypes' /\ SeenTypes' /\ bindings' \subseteq Binding
      /\ UNCHANGED <<row, ran, result, bindings>>
  BY <1>3 DEF Decide, IInv, TypeOK, RowTypes, SeenTypes, ThreadTypes, seenVars
<1>6. RowsAreClaimed' /\ \A q \in Requests : RowInv(q)' /\ Later(q)
  BY <1>3, <1>4, <1>5, SameClaims
<1> HIDE DEF j
<1> QED
  BY <1>1, <1>2, <1>5, <1>6, Moves DEF Phases

\* Reporting takes the end of an action to its request.
LEMMA ReportMoves ==
    ASSUME IInv, NEW t \in Threads, pc[t] # "idle", Report(t), RowTypes', SeenTypes',
           UNCHANGED <<row, ran, acted, result, bindings>>,
           \A r \in Requests : approval'[r] = "DECIDED" => action'[r] # "NONE"
    PROVE  IInv'
<1> DEFINE j == [job[t] EXCEPT !.seen = "SETTLED"]
<1>1. job[t] \in Jobs /\ job[t].r \in Requests
  BY JobType DEF IInv, TypeOK
<1>2. j \in Jobs /\ j.r \in Requests /\ j.seen = "SETTLED"
  BY <1>1 DEF Jobs, ActionStatuses
<1>3. pc' = [pc EXCEPT ![t] = "resolve"] /\ job' = [job EXCEPT ![t] = j]
  BY DEF Report
<1> HIDE DEF j
<1>4. pc'[t] = "resolve" /\ job'[t] = j
  BY <1>3 DEF IInv, TypeOK, ThreadTypes
<1>5. CallInv(t)' /\ ToolInv(t)' /\ ReportInv(t)'
  BY <1>2, <1>4 DEF CallInv, ToolInv, ReportInv
<1>6. bindings' \subseteq Binding
  BY DEF IInv, TypeOK, ThreadTypes
<1>7. \A q \in Requests : acted'[q] \subseteq ran[q]
  BY DEF IInv, FenceInv, RowInv
<1>8. RowsAreClaimed' /\ \A q \in Requests : RowInv(q)' /\ Later(q)
  BY <1>7, SameClaims
<1> QED
  BY <1>2, <1>3, <1>5, <1>6, <1>8, Moves DEF Phases

\* Settling an action keeps the tables in type, and every decided one parked.
LEMMA ActionWritten ==
    ASSUME IInv, NEW r \in Requests, NEW s \in {"EXECUTING", "SETTLED"},
           action' = [action EXCEPT ![r] = s],
           UNCHANGED <<row, approval, associated, outcome, lost, seenVars>>
    PROVE  /\ RowTypes' /\ SeenTypes'
           /\ \A q \in Requests : approval'[q] = "DECIDED" => action'[q] # "NONE"
<1>1. \A q \in Requests : approval[q] = "DECIDED" => action[q] # "NONE"
  BY DEF IInv, FenceInv, RowInv
<1>2. action \in [Requests -> ActionStatuses]
  BY DEF IInv, TypeOK, RowTypes
<1>3. /\ action' \in [Requests -> ActionStatuses]
      /\ \A q \in Requests : approval'[q] = "DECIDED" => action'[q] # "NONE"
  BY <1>1, <1>2 DEF ActionStatuses
<1> QED
  BY <1>3 DEF IInv, TypeOK, RowTypes, SeenTypes, seenVars

\* An action that is over is reported as settled.
LEMMA FinishInv == ASSUME IInv, NEW t \in Threads, Finish(t) PROVE IInv'
<1>1. job[t].r \in Requests /\ pc[t] # "idle"
  BY JobType DEF Finish, IInv, TypeOK
<1>2. /\ RowTypes' /\ SeenTypes'
      /\ \A q \in Requests : approval'[q] = "DECIDED" => action'[q] # "NONE"
  BY <1>1, ActionWritten DEF Finish
<1> QED
  BY <1>1, <1>2, ReportMoves DEF Finish, seenVars

\* A refused approval fails, and its action is reported as settled.
LEMMA RefuseInv == ASSUME IInv, NEW t \in Threads, Refuse(t) PROVE IInv'
<1>1. job[t].r \in Requests /\ pc[t] # "idle"
  BY JobType DEF Refuse, IInv, TypeOK
<1>2. \A q \in Requests : approval[q] = "DECIDED" => action[q] # "NONE"
  BY DEF IInv, FenceInv, RowInv
<1>3. approval \in [Requests -> ApprovalStatuses]
  BY DEF IInv, TypeOK, RowTypes
<1>4. /\ approval' \in [Requests -> ApprovalStatuses]
      /\ \A q \in Requests : approval'[q] = "DECIDED" => action'[q] # "NONE"
  BY <1>1, <1>2, <1>3 DEF Refuse, ApprovalStatuses
<1>5. RowTypes' /\ SeenTypes'
  BY <1>4 DEF Refuse, IInv, TypeOK, RowTypes, SeenTypes, seenVars
<1> QED
  BY <1>1, <1>4, <1>5, ReportMoves DEF Refuse, seenVars

\* The approved action begins, or is settled without beginning.
LEMMA ExecuteInv == ASSUME IInv, NEW t \in Threads, Execute(t) PROVE IInv'
<1> DEFINE r == job[t].r
<1>1. /\ r \in Requests /\ pc[t] # "idle" /\ job[t] \in Jobs
      /\ UNCHANGED <<row, approval, associated, outcome, bindings, lost, seenVars>>
  BY JobType DEF Execute, IInv, TypeOK
<1>2. CASE Return(t) /\ UNCHANGED action
  <2>1. lost' \in [Requests -> BOOLEAN]
    BY <1>1 DEF IInv, TypeOK, SeenTypes
  <2> QED
    BY <1>1, <1>2, <2>1, ReturnInv DEF approvalVars
<1>3. ASSUME NEW s \in {"EXECUTING", "SETTLED"}, action' = [action EXCEPT ![r] = s]
      PROVE  /\ RowTypes' /\ SeenTypes' /\ RowsAreClaimed' /\ bindings' \subseteq Binding
             /\ \A q \in Requests : approval'[q] = "DECIDED" => action'[q] # "NONE"
             /\ \A q \in Requests : RowInv(q)' /\ Later(q)
  <2>1. /\ RowTypes' /\ SeenTypes'
        /\ \A q \in Requests : approval'[q] = "DECIDED" => action'[q] # "NONE"
    BY <1>1, <1>3, ActionWritten
  <2>2. \A q \in Requests : acted'[q] \subseteq ran[q]
    BY <1>1 DEF IInv, FenceInv, RowInv, seenVars
  <2>3. RowsAreClaimed' /\ \A q \in Requests : RowInv(q)' /\ Later(q)
    BY <1>1, <2>1, <2>2, SameClaims DEF seenVars
  <2> QED
    BY <1>1, <2>1, <2>3 DEF IInv, TypeOK, ThreadTypes
<1>4. ASSUME NEW p \in {"finish", "refuse"}, NEW s \in {"EXECUTING", "SETTLED"},
             action' = [action EXCEPT ![r] = s], Goto(t, p)
      PROVE  IInv'
  <2>1. pc' = [pc EXCEPT ![t] = p] /\ job' = [job EXCEPT ![t] = job[t]]
    BY <1>4, GotoMoves DEF IInv, TypeOK
  <2> QED
    BY <1>1, <1>3, <1>4, <2>1, Moves DEF Phases
<1>5. CASE action' = [action EXCEPT ![r] = "SETTLED"] /\ Report(t)
  BY <1>1, <1>3, <1>5, ReportMoves DEF seenVars
<1> QED
  BY <1>2, <1>4, <1>5 DEF Execute

-----------------------------------------------------------------------------
(* Steps that write a row of the claim that the thread works for.          *)

\* A write that lands on an active row is of the claim the row has.
LEMMA LandsOnItsClaim ==
    ASSUME IInv, NEW t \in Threads, pc[t] # "idle", NEW from \in SUBSET Active, Lands(t, from)
    PROVE  LET r == job[t].r IN
           /\ r \in Requests /\ row[r].life \in from
           /\ job[t].g = row[r].gen /\ job[t].c = row[r].owner
           /\ job[t].g \in Generations /\ job[t].c \in Clients
<1> DEFINE r == job[t].r
<1>1. /\ r \in Requests /\ row[r].life \in from
      /\ job[t].g = row[r].gen /\ job[t].c = row[r].owner
  BY JobType DEF Lands, Fenced, SameClaim, IInv, TypeOK
<1>2. row[r].gen # 0
  BY <1>1 DEF IInv, TypeOK, RowsAreClaimed, Active
<1>3. row[r].gen \in 0 .. MaxGenerations /\ row[r].owner \in Clients \cup {NoClient}
  BY <1>1 DEF IInv, TypeOK, RowTypes, Row
<1>4. row[r].owner # NoClient
  BY <1>1, <1>2 DEF IInv, TypeOK, RowsAreClaimed
<1> QED
  BY <1>1, <1>2, <1>3, <1>4, QueueAssumption DEF Generations

\* A renewal gives a lease to the claim that has the row.
LEMMA RenewInv == ASSUME IInv, NEW t \in Threads, Renew(t) PROVE IInv'
<1>0. /\ pc[t] = "write" /\ Return(t)
      /\ UNCHANGED <<approvalVars, bindings, lost, seenVars>>
      /\ lost' \in [Requests -> BOOLEAN]
  BY DEF Renew, Writing, IInv, TypeOK, SeenTypes
<1>1. CASE Lands(t, Active)
  <2>1. job[t].r \in Requests
    BY <1>0, <1>1, LandsOnItsClaim
  <2>2. /\ row' \in [Requests -> Row] /\ RowsAreClaimed'
        /\ \A q \in Requests : RowInv(q)' /\ Later(q)
    BY <1>0, <1>1, <2>1, LeaseWritten DEF Renew, seenVars, approvalVars
  <2>3. RowTypes' /\ SeenTypes' /\ bindings' \subseteq Binding
    BY <1>0, <2>2 DEF IInv, TypeOK, RowTypes, SeenTypes, ThreadTypes, seenVars, approvalVars
  <2> QED
    BY <1>0, <2>2, <2>3, NoJobType, Moves DEF Return, Phases
<1>2. CASE ~Lands(t, Active)
  BY <1>0, <1>2, ReturnInv DEF Renew
<1> QED
  BY <1>1, <1>2

\* A binding is made only of a claim that was delivered.
LEMMA DeliverInv == ASSUME IInv, NEW t \in Threads, Deliver(t) PROVE IInv'
<1>0. /\ pc[t] = "write" /\ Return(t)
      /\ UNCHANGED <<approvalVars, lost, seenVars>>
      /\ lost' \in [Requests -> BOOLEAN]
  BY DEF Deliver, Writing, IInv, TypeOK, SeenTypes
<1>1. CASE Lands(t, Deliverable)
  <2>1. PICK r \in Requests, g \in Generations, c \in Clients :
          /\ r = job[t].r /\ g = job[t].g /\ c = job[t].c
          /\ row[r].life = "CLAIMED" /\ g = row[r].gen
    BY <1>0, <1>1, LandsOnItsClaim DEF Deliverable, Active
  <2> DEFINE b == [r |-> r, g |-> g, c |-> c]
  <2>2. /\ row' = [row EXCEPT ![r].life = "DELIVERED_TO_PROVIDER"]
        /\ bindings' = bindings \cup {b}
    BY <1>1, <2>1 DEF Deliver
  <2>3. Sound([row[r] EXCEPT !.life = "DELIVERED_TO_PROVIDER"])
    BY <2>1, RowsAreSound, QueueAssumption DEF Sound, Row, Lifecycles, Active
  <2>4. RowInv(r)
    BY <2>1 DEF IInv, FenceInv
  <2>5. /\ row' \in [Requests -> Row] /\ RowsAreClaimed'
        /\ \A q \in Requests : RowInv(q)' /\ Later(q)
    BY <1>0, <2>1, <2>2, <2>3, <2>4, LifeWritten
       DEF RowInv, Undelivered, Unstarted, Lifecycles, Active, Settled, seenVars, approvalVars
  <2>6. b \in Binding /\ b.r = r /\ b.g = row[r].gen
    BY <2>1 DEF Binding
  <2>7. bindings' \subseteq Binding
    BY <2>2, <2>6 DEF IInv, TypeOK, ThreadTypes
  <2>8. row'[r].gen = row[r].gen /\ row'[r].life = "DELIVERED_TO_PROVIDER"
    BY <2>1, <2>2, RowsAreSound DEF Sound, Row, IInv, TypeOK, RowTypes
  <2>9. BindingInv(b)'
    BY <2>1, <2>6, <2>8, GensAreNat DEF BindingInv, Undelivered, IInv, TypeOK
  <2>10. RowTypes' /\ SeenTypes'
    BY <1>0, <2>5 DEF IInv, TypeOK, RowTypes, SeenTypes, seenVars, approvalVars
  <2>11. \A d \in bindings' : d \in bindings \/ BindingInv(d)'
    BY <2>2, <2>9
  <2> QED
    BY <1>0, <2>5, <2>7, <2>10, <2>11, NoJobType, Moves DEF Return, Phases
<1>2. CASE ~Lands(t, Deliverable)
  BY <1>0, <1>2, ReturnInv DEF Deliver
<1> QED
  BY <1>1, <1>2

\* A start lands on a row that was never started, so its generation is the
\* first that runs.
LEMMA StartInv == ASSUME IInv, NEW t \in Threads, Start(t) PROVE IInv'
<1>0. /\ pc[t] = "write" /\ lost' \in [Requests -> BOOLEAN]
      /\ UNCHANGED <<approvalVars, bindings, lost, acted, result>>
  BY DEF Start, Writing, IInv, TypeOK, SeenTypes
<1>1. CASE Lands(t, Startable)
  <2>1. PICK r \in Requests, g \in Generations :
          /\ r = job[t].r /\ g = job[t].g
          /\ row[r].life \in Startable /\ g = row[r].gen
    BY <1>0, <1>1, LandsOnItsClaim DEF Startable, Active
  <2> DEFINE x == [row[r] EXCEPT !.life = "PROVIDER_RUNNING", !.started = TRUE]
  <2>2. row' = [row EXCEPT ![r] = x]
    BY <1>1, <2>1 DEF Start
  <2>3. Sound(x) /\ x.gen = row[r].gen /\ x.life = "PROVIDER_RUNNING" /\ x.started
    <3>1. Sound(row[r]) /\ row[r].gen # 0
      BY <2>1, RowsAreSound, QueueAssumption DEF Generations
    <3>2. /\ x \in Row /\ x.gen = row[r].gen /\ x.owner = row[r].owner
          /\ x.life = "PROVIDER_RUNNING" /\ x.started
      BY <3>1 DEF Sound, Row, Lifecycles, Active
    <3> HIDE DEF x
    <3> QED
      BY <3>1, <3>2 DEF Sound
  <2> HIDE DEF x
  <2>4. /\ row' \in [Requests -> Row] /\ RowsAreClaimed'
        /\ row'[r] = x /\ \A q \in Requests \ {r} : row'[q] = row[q]
    BY <2>1, <2>2, <2>3, RowWritten
  <2>5. /\ ran' = [ran EXCEPT ![r] = @ \cup {g}]
        /\ ran \in [Requests -> SUBSET Generations]
    BY <1>1, <2>1 DEF Start, Told, IInv, TypeOK, SeenTypes
  <2>6. RowInv(r) /\ ran[r] = {}
    BY <2>1 DEF IInv, FenceInv, RowInv, Startable, Unstarted, Undelivered
  <2>7. ran'[r] = {g} /\ \A q \in Requests \ {r} : ran'[q] = ran[q]
    BY <2>1, <2>5, <2>6
  <2>8. RowInv(r)' /\ Later(r)
    <3>1. result[r] = 0
      BY <2>1, <2>6 DEF RowInv, Startable, Settled
    <3> QED
      BY <1>0, <2>1, <2>3, <2>4, <2>6, <2>7, <3>1, GensAreNat
         DEF RowInv, Later, Unstarted, Undelivered, IInv, TypeOK, approvalVars
  <2>9. ASSUME NEW q \in Requests \ {r} PROVE RowInv(q)' /\ Later(q)
    <3>1. RowInv(q) /\ row[q].gen \in Nat
      BY GensAreNat DEF IInv, TypeOK, FenceInv
    <3>2. /\ row'[q] = row[q] /\ ran'[q] = ran[q]
          /\ UNCHANGED <<acted, result, approval, action>>
      BY <1>0, <2>4, <2>7, <2>9 DEF approvalVars
    <3> QED
      BY <3>1, <3>2 DEF RowInv, Later
  <2>10. ran' \in [Requests -> SUBSET Generations]
    BY <2>1, <2>5
  <2>11. RowTypes' /\ SeenTypes' /\ bindings' \subseteq Binding
    BY <1>0, <2>4, <2>10 DEF IInv, TypeOK, RowTypes, SeenTypes, ThreadTypes, approvalVars
  <2>12. CASE job[t].op = "invoke"
    <3> DEFINE j == [job[t] EXCEPT !.lasted = FALSE]
    <3>1. j \in Jobs /\ j.r = r /\ j.g = g
      <4>1. job[t] \in Jobs
        BY JobType DEF IInv, TypeOK
      <4> QED
        BY <2>1, <4>1 DEF Jobs
    <3>2. pc' = [pc EXCEPT ![t] = "check"] /\ job' = [job EXCEPT ![t] = j]
      BY <1>1, <2>12 DEF Start
    <3> HIDE DEF j
    <3>3. pc'[t] = "check" /\ job'[t] = j
      BY <3>2 DEF IInv, TypeOK, ThreadTypes
    <3>4. CallInv(t)' /\ ToolInv(t)' /\ ReportInv(t)'
      BY <2>7, <3>1, <3>3 DEF CallInv, ToolInv, ReportInv
    <3> QED
      BY <1>0, <2>1, <2>4, <2>8, <2>9, <2>11, <3>1, <3>2, <3>4, Moves DEF Phases
  <2>13. CASE job[t].op # "invoke"
    BY <1>0, <1>1, <2>4, <2>8, <2>9, <2>11, <2>13, NoJobType, Moves DEF Start, Return, Phases
  <2> QED
    BY <2>12, <2>13
<1>2. CASE ~Lands(t, Startable)
  BY <1>0, <1>2, ReturnInv DEF Start, seenVars
<1> QED
  BY <1>1, <1>2

\* A result lands on the row of its own claim.
LEMMA RecordInv == ASSUME IInv, NEW t \in Threads, Record(t) PROVE IInv'
<1>0. /\ pc[t] = "write" /\ lost' \in [Requests -> BOOLEAN]
      /\ UNCHANGED <<approvalVars, bindings, lost, ran, acted>>
  BY DEF Record, Writing, IInv, TypeOK, SeenTypes
<1>1. CASE Lands(t, Recordable)
  <2>1. PICK r \in Requests, g \in Generations :
          /\ r = job[t].r /\ g = job[t].g
          /\ row[r].life \in Recordable /\ g = row[r].gen
    BY <1>0, <1>1, LandsOnItsClaim DEF Recordable, Active
  <2>2. PICK s \in ResultLifecycles : row' = [row EXCEPT ![r].life = s]
    BY <1>1, <2>1 DEF Record
  <2> DEFINE x == [row[r] EXCEPT !.life = s]
  <2>3. row' = [row EXCEPT ![r] = x]
    BY <2>2
  <2>4. Sound(x) /\ x.gen = row[r].gen /\ x.life = s /\ x.started = row[r].started
    BY <2>1, RowsAreSound, QueueAssumption
       DEF Sound, Row, Lifecycles, Active, Settled, ResultLifecycles, Generations
  <2> HIDE DEF x
  <2>5. /\ row' \in [Requests -> Row] /\ RowsAreClaimed'
        /\ row'[r] = x /\ \A q \in Requests \ {r} : row'[q] = row[q]
    BY <2>1, <2>3, <2>4, RowWritten
  <2>6. /\ result' = [result EXCEPT ![r] = g]
        /\ result \in [Requests -> 0 .. MaxGenerations]
    BY <1>1, <2>1 DEF Record, IInv, TypeOK, SeenTypes
  <2>7. result'[r] = g /\ \A q \in Requests \ {r} : result'[q] = result[q]
    BY <2>1, <2>6
  <2>8. s \in Settled \cup {"WAITING"}
    BY DEF ResultLifecycles, Settled
  <2>9. RowInv(r)' /\ Later(r)
    <3>1. RowInv(r) /\ row[r].gen \in Nat
      BY <2>1, GensAreNat DEF IInv, TypeOK, FenceInv
    <3>2. s \notin Unstarted /\ s \notin Undelivered /\ s # "PROVIDER_RUNNING"
      BY <2>8 DEF Settled, Unstarted, Undelivered
    <3>3. /\ row'[r].life = s /\ row'[r].gen = g /\ row'[r].started = row[r].started
          /\ result'[r] = g
          /\ UNCHANGED <<acted, ran, approval, action>>
      BY <1>0, <2>1, <2>4, <2>5, <2>7 DEF approvalVars
    <3>4. RowInv(r)'
      BY <2>1, <2>8, <3>1, <3>2, <3>3 DEF RowInv
    <3>5. Later(r)
      BY <2>1, <3>1, <3>2, <3>3 DEF Later
    <3> QED
      BY <3>4, <3>5
  <2>10. ASSUME NEW q \in Requests \ {r} PROVE RowInv(q)' /\ Later(q)
    <3>1. RowInv(q) /\ row[q].gen \in Nat
      BY GensAreNat DEF IInv, TypeOK, FenceInv
    <3>2. /\ row'[q] = row[q] /\ result'[q] = result[q]
          /\ UNCHANGED <<acted, ran, approval, action>>
      BY <1>0, <2>5, <2>7, <2>10 DEF approvalVars
    <3> QED
      BY <3>1, <3>2 DEF RowInv, Later
  <2>11. result' \in [Requests -> 0 .. MaxGenerations]
    BY <2>1, <2>6, QueueAssumption DEF Generations
  <2>12. RowTypes' /\ SeenTypes' /\ bindings' \subseteq Binding
    BY <1>0, <2>5, <2>11 DEF IInv, TypeOK, RowTypes, SeenTypes, ThreadTypes, approvalVars
  <2> DEFINE j == [NoJob EXCEPT !.r = r]
  <2>13. j \in Jobs /\ j.r = r
    BY <2>1, NoJobType DEF Jobs
  <2>14. pc' = [pc EXCEPT ![t] = "reconcile"] /\ job' = [job EXCEPT ![t] = j]
    BY <1>1, <2>1 DEF Record, Recorded
  <2> HIDE DEF j
  <2> QED
    BY <1>0, <2>1, <2>5, <2>9, <2>10, <2>12, <2>13, <2>14, Moves DEF Phases
<1>2. CASE ~Lands(t, Recordable)
  BY <1>0, <1>2, ReturnInv DEF Record, seenVars
<1> QED
  BY <1>1, <1>2

\* An outcome moves a waiting row, which is past its start.
LEMMA ResolveInv == ASSUME IInv, NEW t \in Threads, Resolve(t) PROVE IInv'
<1> DEFINE r == job[t].r
<1>0. /\ pc[t] = "resolve" /\ Return(t) /\ lost' \in [Requests -> BOOLEAN] /\ r \in Requests
      /\ UNCHANGED <<action, approval, associated, bindings, lost, seenVars>>
  BY JobType DEF Resolve, IInv, TypeOK, SeenTypes
<1>1. CASE UNCHANGED <<row, outcome>>
  BY <1>0, <1>1, ReturnInv DEF approvalVars
<1>2. CASE /\ row[r].life = "WAITING"
           /\ outcome' = [outcome EXCEPT ![r] = job[t].seen]
           /\ \E s \in ResolvedLifecycles(job[t].seen) : row' = [row EXCEPT ![r].life = s]
  <2>1. PICK s \in ResolvedLifecycles(job[t].seen) : row' = [row EXCEPT ![r].life = s]
    BY <1>2
  <2>2. s \in {"WAITING", "FINISHED", "UNKNOWN_RESULT"}
    BY DEF ResolvedLifecycles
  <2>3. Sound([row[r] EXCEPT !.life = s])
    BY <1>0, <1>2, <2>2, RowsAreSound DEF Sound, Row, Lifecycles, Settled
  <2>4. /\ row' \in [Requests -> Row] /\ RowsAreClaimed'
        /\ \A q \in Requests : RowInv(q)' /\ Later(q)
    <3>1. s \in Lifecycles /\ s \notin Unstarted /\ s \notin Undelivered
          /\ s \in Settled \cup {"WAITING"} /\ s # "PROVIDER_RUNNING"
      BY <2>2 DEF Lifecycles, Unstarted, Undelivered, Settled
    <3> QED
      BY <1>0, <2>1, <2>3, <3>1, LifeWritten DEF seenVars
  <2>5. outcome' \in [Requests -> ActionStatuses]
    <3>1. job[t].seen \in ActionStatuses
      BY <1>0 DEF IInv, FenceInv, ReportInv, ActionStatuses
    <3>2. outcome \in [Requests -> ActionStatuses]
      BY DEF IInv, TypeOK, RowTypes
    <3> QED
      BY <1>0, <1>2, <3>1, <3>2
  <2>6. RowTypes' /\ SeenTypes' /\ bindings' \subseteq Binding
    BY <1>0, <2>4, <2>5 DEF IInv, TypeOK, RowTypes, SeenTypes, ThreadTypes, seenVars
  <2> QED
    BY <1>0, <2>4, <2>6, NoJobType, Moves DEF Return, Phases
<1> QED
  BY <1>1, <1>2 DEF Resolve

-----------------------------------------------------------------------------
(* Claims.                                                                 *)

\* The sweep settles a row under its claim.
LEMMA SweptGoes ==
    ASSUME IInv, NEW q \in Requests, row'[q] = Swept[q],
           UNCHANGED <<ran, acted, result, approval, action>>
    PROVE  Sound(row'[q]) /\ RowInv(q)' /\ Later(q)
<1>1. Sound(row[q]) /\ RowInv(q) /\ row[q].gen \in Nat
  BY RowsAreSound, GensAreNat DEF IInv, TypeOK, FenceInv
<1>2. CASE ~Expired(row[q])
  <2>1. row'[q] = row[q]
    BY <1>2 DEF Swept
  <2> QED
    BY <1>1, <2>1, RowKept
<1>3. CASE Expired(row[q])
  <2>1. row'[q] = [row[q] EXCEPT !.life = "UNKNOWN_RESULT"]
    BY <1>3 DEF Swept
  <2>2. /\ row'[q] \in Row /\ row'[q].life = "UNKNOWN_RESULT" /\ row'[q].gen = row[q].gen
        /\ row'[q].owner = row[q].owner /\ row'[q].started = row[q].started
    BY <1>1, <2>1 DEF Sound, Row, Lifecycles, Settled
  <2>3. row[q].gen # 0
    BY <1>1, <1>3 DEF Expired, Sound
  <2>4. RowInv(q)'
    BY <1>1, <2>2 DEF RowInv, Unstarted, Undelivered, Settled
  <2>5. Later(q)
    BY <1>1, <2>2 DEF Later, Unstarted, Undelivered
  <2> QED
    BY <1>1, <2>2, <2>3, <2>4, <2>5 DEF Sound
<1> QED
  BY <1>2, <1>3

\* A claim takes a row that was not started, and begins a generation.
LEMMA ClaimedGoes ==
    ASSUME IInv, NEW r \in Requests, NEW c \in Clients, InReach(r),
           row[r].life \in {"PENDING", "CLAIMED", "DELIVERED_TO_PROVIDER"},
           row'[r] = Claimed(row[r], c),
           UNCHANGED <<ran, acted, result, approval, action>>
    PROVE  /\ Sound(row'[r]) /\ RowInv(r)' /\ Later(r)
           /\ row[r].gen + 1 \in 0 .. MaxGenerations
<1>1. /\ Sound(row[r]) /\ RowInv(r) /\ row[r].gen \in 0 .. MaxGenerations
      /\ MaxGenerations \in Nat /\ NoClient \notin Clients
  BY RowsAreSound, QueueAssumption DEF Sound, Row, IInv, FenceInv
<1>2. row[r].gen + 1 \in 0 .. MaxGenerations
  BY <1>1 DEF InReach
<1>3. /\ row'[r] \in Row /\ row'[r].life = "CLAIMED" /\ row'[r].gen = row[r].gen + 1
      /\ row'[r].owner = c /\ row'[r].started = row[r].started
  BY <1>1, <1>2 DEF Claimed, Sound, Row, Lifecycles, Active
<1>4. ~row[r].started /\ result[r] = 0
  BY <1>1 DEF RowInv, Unstarted, Undelivered, Settled
<1>5. RowInv(r)'
  BY <1>1, <1>3, <1>4 DEF RowInv, Unstarted, Undelivered
<1>6. Later(r)
  BY <1>1, <1>2, <1>3 DEF Later
<1>7. Sound(row'[r])
  BY <1>1, <1>3 DEF Sound
<1> QED
  BY <1>2, <1>5, <1>6, <1>7

\* Rows that are all sound are in type.
LEMMA SoundRows ==
    ASSUME row' = [r \in Requests |-> row'[r]], \A r \in Requests : Sound(row'[r])
    PROVE  row' \in [Requests -> Row] /\ RowsAreClaimed'
BY DEF Sound, RowsAreClaimed

\* Where a claim goes on.
LEMMA DelivererMoves ==
    ASSUME NEW t \in Threads, NEW r \in Requests, NEW c \in Clients,
           NEW g \in 0 .. MaxGenerations, Deliverer(t, r, c, g)
    PROVE  \E j \in Jobs : /\ pc' = [pc EXCEPT ![t] = "begin"]
                           /\ job' = [job EXCEPT ![t] = j] /\ j.r \in Requests
<1> DEFINE j == [NoJob EXCEPT !.r = r, !.c = c, !.g = g]
<1>1. j \in Jobs /\ j.r \in Requests
  BY NoJobType DEF Jobs
<1>2. pc' = [pc EXCEPT ![t] = "begin"] /\ job' = [job EXCEPT ![t] = j]
  BY DEF Deliverer
<1> QED
  BY <1>1, <1>2

\* A claim of one row, while the sweep may settle others.
LEMMA ClaimKeepsInv ==
    ASSUME IInv, NEW t \in Threads, NEW r \in Requests, NEW c \in Clients, InReach(r),
           row[r].life \in {"PENDING", "CLAIMED", "DELIVERED_TO_PROVIDER"},
           row' = [q \in Requests |-> row'[q]],
           row'[r] = Claimed(row[r], c),
           \A q \in Requests \ {r} : row'[q] = row[q] \/ row'[q] = Swept[q],
           Deliverer(t, r, c, row[r].gen + 1),
           UNCHANGED <<approvalVars, bindings, lost, seenVars>>
    PROVE  IInv'
<1>1. UNCHANGED <<ran, acted, result, approval, action>>
  BY DEF seenVars, approvalVars
<1>2. ASSUME NEW q \in Requests PROVE Sound(row'[q]) /\ RowInv(q)' /\ Later(q)
  <2>1. CASE q = r
    BY <1>1, <2>1, ClaimedGoes
  <2>2. CASE row'[q] = row[q]
    BY <1>1, <1>2, <2>2, RowKept, RowsAreSound
  <2>3. CASE row'[q] = Swept[q]
    BY <1>1, <1>2, <2>3, SweptGoes
  <2> QED
    BY <1>2, <2>1, <2>2, <2>3
<1>3. RowTypes' /\ RowsAreClaimed' /\ SeenTypes' /\ bindings' \subseteq Binding
  <2>1. row' \in [Requests -> Row] /\ RowsAreClaimed'
    BY <1>2, SoundRows
  <2> QED
    BY <2>1 DEF IInv, TypeOK, RowTypes, SeenTypes, ThreadTypes, seenVars, approvalVars
<1>4. row[r].gen + 1 \in 0 .. MaxGenerations
  BY <1>1, ClaimedGoes
<1>5. PICK j \in Jobs : /\ pc' = [pc EXCEPT ![t] = "begin"]
                        /\ job' = [job EXCEPT ![t] = j] /\ j.r \in Requests
  BY <1>4, DelivererMoves
<1> QED
  BY <1>2, <1>3, <1>5, Moves DEF Phases

\* The general claim sweeps and takes one row, or only sweeps.
LEMMA ClaimNextInv ==
    ASSUME IInv, NEW t \in Threads, NEW c \in Clients, ClaimNext(t, c) PROVE IInv'
<1>0. UNCHANGED <<approvalVars, bindings, lost, seenVars>>
  BY DEF ClaimNext
<1>1. ASSUME NEW r \in Requests, Claimable(row[r]), InReach(r),
             row' = [Swept EXCEPT ![r] = Claimed(@, c)],
             Deliverer(t, r, c, row[r].gen + 1)
      PROVE  IInv'
  <2>1. row[r].life \in {"PENDING", "CLAIMED", "DELIVERED_TO_PROVIDER"}
    BY <1>1 DEF Claimable
  <2>2. Swept[r] = row[r]
    BY <1>1 DEF Swept, Claimable, Expired
  <2>3. /\ row' = [q \in Requests |-> row'[q]] /\ row'[r] = Claimed(row[r], c)
        /\ \A q \in Requests \ {r} : row'[q] = Swept[q]
    BY <1>1, <2>2 DEF Swept
  <2> QED
    BY <1>0, <1>1, <2>1, <2>3, ClaimKeepsInv
<1>2. CASE row' = Swept /\ UNCHANGED <<pc, job>>
  <2>1. \A q \in Requests : Sound(row'[q]) /\ RowInv(q)' /\ Later(q)
    BY <1>0, <1>2, SweptGoes DEF seenVars, approvalVars
  <2>2. row' = [q \in Requests |-> row'[q]]
    BY <1>2 DEF Swept
  <2>3. row' \in [Requests -> Row] /\ RowsAreClaimed'
    BY <2>1, <2>2, SoundRows
  <2>4. TypeOK'
    BY <1>0, <1>2, <2>3 DEF IInv, TypeOK, RowTypes, SeenTypes, ThreadTypes, seenVars, approvalVars
  <2> QED
    BY <1>0, <1>2, <2>1, <2>4, QuietKeepsInv
<1> QED
  BY <1>1, <1>2 DEF ClaimNext

\* One row is claimed, the others stay.
LEMMA OneClaimInv ==
    ASSUME IInv, NEW t \in Threads, NEW r \in Requests, NEW c \in Clients, InReach(r),
           row[r].life = "PENDING", row' = [row EXCEPT ![r] = Claimed(@, c)],
           Deliverer(t, r, c, row[r].gen + 1),
           UNCHANGED <<approvalVars, bindings, lost, seenVars>>
    PROVE  IInv'
<1>1. row \in [Requests -> Row]
  BY DEF IInv, TypeOK, RowTypes
<1>2. /\ row' = [q \in Requests |-> row'[q]] /\ row'[r] = Claimed(row[r], c)
      /\ \A q \in Requests \ {r} : row'[q] = row[q]
  BY <1>1
<1> QED
  BY <1>2, ClaimKeepsInv

\* The exact claim takes the row it names.
LEMMA ClaimExactInv ==
    ASSUME IInv, NEW t \in Threads, NEW c \in Clients, NEW r \in Requests, ClaimExact(t, c, r)
    PROVE  IInv'
<1>1. row[r].gen + 1 = 1
  BY DEF ClaimExact
<1> QED
  BY <1>1, OneClaimInv DEF ClaimExact

\* The direct claim takes its row, or hands out a binding of the caller's own.
LEMMA OpenDirectInv ==
    ASSUME IInv, NEW t \in Threads, NEW c \in Clients, NEW r \in Requests, OpenDirect(t, c, r)
    PROVE  IInv'
<1>0. UNCHANGED <<approvalVars, lost, seenVars>> /\ lost' \in [Requests -> BOOLEAN]
  BY DEF OpenDirect, IInv, TypeOK, SeenTypes
<1>1. CASE /\ row[r].life = "PENDING" /\ InReach(r)
           /\ row' = [row EXCEPT ![r] = Claimed(@, c)]
           /\ Deliverer(t, r, c, row[r].gen + 1) /\ UNCHANGED bindings
  BY <1>0, <1>1, OneClaimInv
<1>2. CASE Deliverer(t, r, c, row[r].gen) /\ UNCHANGED <<row, bindings>>
  <2>1. row[r].gen \in 0 .. MaxGenerations
    BY RowsAreSound DEF Sound, Row
  <2>2. PICK j \in Jobs : /\ pc' = [pc EXCEPT ![t] = "begin"]
                          /\ job' = [job EXCEPT ![t] = j] /\ j.r \in Requests
    BY <1>2, <2>1, DelivererMoves
  <2> QED
    BY <1>0, <1>2, <2>2, OnlyMoves DEF Phases
<1>3. CASE /\ OwnClaim(row[r], c) /\ row[r].life # "CLAIMED"
           /\ bindings' = bindings \cup {[r |-> r, g |-> row[r].gen, c |-> c]}
           /\ UNCHANGED <<row, pc, job>>
  <2>1. PICK b \in Binding : b = [r |-> r, g |-> row[r].gen, c |-> c]
    <3>1. Sound(row[r]) /\ row[r].life \in Active
      BY <1>3, RowsAreSound DEF OwnClaim
    <3>2. row[r].gen \in Generations
      BY <3>1, QueueAssumption DEF Sound, Active, Row, Generations
    <3> QED
      BY <3>2 DEF Binding
  <2>2. BindingInv(b)'
    <3>1. b.r = r /\ b.g = row[r].gen /\ row[r].gen \in Nat /\ row' = row
      BY <1>3, <2>1, GensAreNat DEF IInv, TypeOK
    <3>2. row[r].life \notin Undelivered
      BY <1>3 DEF OwnClaim, Active, Undelivered
    <3> QED
      BY <3>1, <3>2 DEF BindingInv
  <2>3. \A q \in Requests : RowInv(q)' /\ Later(q)
    BY <1>0, <1>3, SameRows DEF approvalVars
  <2>4. TypeOK'
    BY <1>0, <1>3, <2>1
       DEF IInv, TypeOK, RowTypes, SeenTypes, ThreadTypes, RowsAreClaimed, seenVars, approvalVars
  <2>5. \A d \in bindings' : d \in bindings \/ BindingInv(d)'
    BY <1>3, <2>1, <2>2
  <2> QED
    BY <1>3, <2>3, <2>4, <2>5, QuietKeepsInv
<1> QED
  BY <1>1, <1>2, <1>3 DEF OpenDirect

-----------------------------------------------------------------------------
(* The invariant holds, and what follows from it.                          *)

\* Every step keeps the invariant.
LEMMA InvStep == IInv /\ [Next]_vars => IInv'
<1> SUFFICES ASSUME IInv, [Next]_vars PROVE IInv'
  OBVIOUS
<1>1. ASSUME NEW r \in Requests, Enqueue(r) \/ CancelTask(r) \/ LeaseEnds(r) PROVE IInv'
  BY <1>1, EnqueueInv, CancelTaskInv, LeaseEndsInv
<1>2. CASE Poll
  BY <1>2, ClaimNextInv DEF Poll
<1>3. ASSUME NEW t \in Threads, Step(t) PROVE IInv'
  BY <1>3, AssertActiveInv, BeginInv, DeliverInv, RenewInv, StartInv, RecordInv, CheckInv,
     ToolStepInv, AssociateInv, ExecuteInv, RefuseInv, FinishInv, ReconcileInv, ResolveInv
     DEF Step
<1>4. ASSUME NEW t \in Threads, Die(t) PROVE IInv'
  BY <1>4, DieInv
<1>5. ASSUME NEW t \in Threads, NEW r \in Requests, Decide(t, r) PROVE IInv'
  BY <1>5, DecideInv
<1>6. ASSUME NEW t \in Threads, NEW c \in Clients, NEW r \in Requests,
             ClaimExact(t, c, r) \/ OpenDirect(t, c, r)
      PROVE  IInv'
  BY <1>6, ClaimExactInv, OpenDirectInv
<1>7. ASSUME NEW t \in Threads, NEW b \in bindings, NEW op \in Operations, Call(t, b, op)
      PROVE  IInv'
  BY <1>7, CallInvStep
<1>8. CASE UNCHANGED vars
  BY <1>8 DEF vars, approvalVars, seenVars, IInv, TypeOK, RowTypes, ThreadTypes, SeenTypes,
              RowsAreClaimed, FenceInv, RowInv, BindingInv, CallInv, ToolInv, ReportInv
<1> QED
  BY <1>1, <1>2, <1>3, <1>4, <1>5, <1>6, <1>7, <1>8 DEF Next

\* The invariant holds in every reachable state.
LEMMA InvHolds == Spec => []IInv
BY InvInit, InvStep, PTL DEF Spec

\* The tables, the bindings and the threads stay in their types, and a row has
\* an owner exactly when it has a generation.
THEOREM TypeInvariant == Spec => []TypeOK
<1>1. IInv => TypeOK
  BY DEF IInv
<1> QED
  BY <1>1, InvHolds, PTL

\* A started provider is never handed out again: whatever claims were lost and
\* however late their writes come, one generation of a request runs and acts.
THEOREM OneActs == Spec => []OneGenerationActs
<1>1. IInv => OneGenerationActs
  BY DEF IInv, FenceInv, RowInv, OneGenerationActs
<1> QED
  BY <1>1, InvHolds, PTL

\* The recorded result is of the generation that ran.
THEOREM ResultOfTheActor == Spec => []ResultIsOfTheActor
<1>1. IInv => ResultIsOfTheActor
  BY DEF IInv, FenceInv, RowInv, ResultIsOfTheActor
<1> QED
  BY <1>1, InvHolds, PTL
-----------------------------------------------------------------------------
(* What is settled stays.                                                  *)

\* What a step may do to a settled or a waiting request.
Stays(r) ==
    /\ row[r].life \in Settled => row'[r].life = row[r].life
    /\ row[r].life = "WAITING" /\ row'[r].life # "WAITING"
          => outcome[r] = "NONE" /\ outcome'[r] = "SETTLED"

\* A statement that finds its row neither settled nor waiting is free.
LEMMA OpenWritten ==
    ASSUME RowTypes, NEW q \in Requests, NEW x, row' = [row EXCEPT ![q] = x],
           row[q].life \notin Settled \cup {"WAITING"}
    PROVE  \A r \in Requests : Stays(r)
BY DEF RowTypes, Stays

\* The sweep settles only what was delivered or running.
LEMMA SweptStays ==
    ASSUME NEW r \in Requests, row'[r] = Swept[r] PROVE Stays(r)
<1>1. CASE Expired(row[r])
  BY <1>1 DEF Expired, Stays, Settled
<1>2. CASE ~Expired(row[r])
  BY <1>2 DEF Swept, Stays
<1> QED
  BY <1>1, <1>2

\* A claim takes only what is pending or was claimed.
LEMMA ClaimsStay ==
    ASSUME RowTypes, NEW t \in Threads, NEW c \in Clients,
           \/ ClaimNext(t, c)
           \/ \E q \in Requests : ClaimExact(t, c, q) \/ OpenDirect(t, c, q)
    PROVE  \A r \in Requests : Stays(r)
<1>1. CASE ClaimNext(t, c)
  <2>1. CASE row' = Swept
    BY <2>1, SweptStays
  <2>2. ASSUME NEW q \in Requests, Claimable(row[q]), row' = [Swept EXCEPT ![q] = Claimed(@, c)],
               NEW r \in Requests
        PROVE  Stays(r)
    <3>1. CASE r = q
      BY <2>2, <3>1 DEF Claimable, Stays, Settled
    <3>2. CASE r # q
      BY <2>2, <3>2, SweptStays DEF Swept
    <3> QED
      BY <3>1, <3>2
  <2> QED
    BY <1>1, <2>1, <2>2 DEF ClaimNext
<1>2. ASSUME NEW q \in Requests, ClaimExact(t, c, q)
      PROVE  \A r \in Requests : Stays(r)
  BY <1>2, OpenWritten DEF ClaimExact, Settled
<1>3. ASSUME NEW q \in Requests, OpenDirect(t, c, q)
      PROVE  \A r \in Requests : Stays(r)
  <2>1. CASE row[q].life = "PENDING" /\ row' = [row EXCEPT ![q] = Claimed(@, c)]
    BY <2>1, OpenWritten DEF Settled
  <2>2. CASE UNCHANGED row
    BY <2>2 DEF Stays
  <2> QED
    BY <1>3, <2>1, <2>2 DEF OpenDirect
<1> QED
  BY <1>1, <1>2, <1>3

\* A fenced write lands on an active row, or nowhere.
LEMMA WritesStay ==
    ASSUME RowTypes, NEW t \in Threads, job[t].r \in Requests,
           Deliver(t) \/ Renew(t) \/ Start(t) \/ Record(t)
    PROVE  \A r \in Requests : Stays(r)
<1>1. CASE UNCHANGED row
  BY <1>1 DEF Stays
<1>2. ASSUME NEW x, row' = [row EXCEPT ![job[t].r] = x],
             row[job[t].r].life \in Active
      PROVE  \A r \in Requests : Stays(r)
  BY <1>2, OpenWritten DEF Active, Settled
<1>3. CASE Deliver(t)
  BY <1>1, <1>2, <1>3 DEF Deliver, Lands, Deliverable, Active
<1>4. CASE Renew(t)
  BY <1>1, <1>2, <1>4 DEF Renew, Lands
<1>5. CASE Start(t)
  BY <1>1, <1>2, <1>5 DEF Start, Lands, Startable, Active
<1>6. CASE Record(t)
  BY <1>1, <1>2, <1>6 DEF Record, Lands, Recordable, Active
<1> QED
  BY <1>3, <1>4, <1>5, <1>6

\* A waiting request goes on only with the outcome of an action that is over.
LEMMA ResolveStays ==
    ASSUME IInv, NEW t \in Threads, Resolve(t) PROVE \A r \in Requests : Stays(r)
<1> DEFINE q == job[t].r
<1>0. /\ q \in Requests /\ row \in [Requests -> Row] /\ outcome \in [Requests -> ActionStatuses]
      /\ job[t].seen \in {"REQUIRE_CONFIRMATION", "EXECUTING", "SETTLED"}
  BY JobType DEF Resolve, IInv, TypeOK, RowTypes, FenceInv, ReportInv
<1>1. CASE UNCHANGED row
  BY <1>1 DEF Stays
<1>2. CASE /\ outcome[q] = "NONE" /\ row[q].life = "WAITING" /\ job[t].seen # "EXECUTING"
           /\ outcome' = [outcome EXCEPT ![q] = job[t].seen]
           /\ \E s \in ResolvedLifecycles(job[t].seen) : row' = [row EXCEPT ![q].life = s]
  <2>1. PICK s \in ResolvedLifecycles(job[t].seen) : row' = [row EXCEPT ![q].life = s]
    BY <1>2
  <2>2. \A r \in Requests \ {q} : row'[r] = row[r]
    BY <1>0, <2>1
  <2>3. row'[q].life = s /\ outcome'[q] = job[t].seen
    BY <1>0, <1>2, <2>1 DEF Row
  <2>4. s = "WAITING" \/ job[t].seen = "SETTLED"
    BY <1>0, <1>2 DEF ResolvedLifecycles
  <2>5. Stays(q)
    BY <1>2, <2>3, <2>4 DEF Stays, Settled
  <2> QED
    BY <2>2, <2>5 DEF Stays
<1> QED
  BY <1>1, <1>2 DEF Resolve

\* Every step.
LEMMA StepStays == IInv /\ [Next]_vars => \A r \in Requests : Stays(r)
<1> SUFFICES ASSUME IInv, [Next]_vars PROVE \A r \in Requests : Stays(r)
  OBVIOUS
<1>0. RowTypes
  BY DEF IInv, TypeOK
<1>1. CASE UNCHANGED row
  BY <1>1 DEF Stays
<1>2. ASSUME NEW q \in Requests, Enqueue(q) \/ CancelTask(q) \/ LeaseEnds(q)
      PROVE  \A r \in Requests : Stays(r)
  BY <1>0, <1>2, OpenWritten DEF Enqueue, CancelTask, LeaseEnds, Active, Settled
<1>3. CASE Poll
  BY <1>0, <1>3, ClaimsStay DEF Poll
<1>4. ASSUME NEW t \in Threads, Step(t) PROVE \A r \in Requests : Stays(r)
  <2>1. CASE Deliver(t) \/ Renew(t) \/ Start(t) \/ Record(t)
    <3>1. job[t].r \in Requests
      BY <2>1, JobType DEF Deliver, Renew, Start, Record, Writing, IInv, TypeOK
    <3> QED
      BY <1>0, <2>1, <3>1, WritesStay
  <2>2. CASE Resolve(t)
    BY <2>2, ResolveStays
  <2>3. CASE \/ AssertActive(t) \/ Begin(t) \/ Check(t) \/ Tool(t) \/ Associate(t)
             \/ Execute(t) \/ Refuse(t) \/ Finish(t) \/ Reconcile(t)
    BY <1>1, <2>3 DEF AssertActive, Begin, Check, Tool, Associate, Execute, Refuse, Finish,
                      Reconcile
  <2> QED
    BY <1>4, <2>1, <2>2, <2>3 DEF Step
<1>5. ASSUME NEW t \in Threads,
             \/ Die(t)
             \/ \E r \in Requests : Decide(t, r)
             \/ \E b \in bindings, op \in Operations : Call(t, b, op)
      PROVE  \A r \in Requests : Stays(r)
  BY <1>1, <1>5 DEF Die, Decide, Call
<1>6. ASSUME NEW t \in Threads, NEW c \in Clients, NEW q \in Requests,
             ClaimExact(t, c, q) \/ OpenDirect(t, c, q)
      PROVE  \A r \in Requests : Stays(r)
  BY <1>0, <1>6, ClaimsStay
<1>7. CASE UNCHANGED vars
  BY <1>1, <1>7 DEF vars
<1> QED
  BY <1>2, <1>3, <1>4, <1>5, <1>6, <1>7 DEF Next

\* A settled request stays as it is, and a waiting one is settled only by the
\* outcome of its approval, the first that comes.
THEOREM SettledFinal == Spec => SettledStays
<1>1. IInv /\ [Next]_vars
        => [\A r \in Requests :
              /\ row[r].life \in Settled => row'[r].life = row[r].life
              /\ row[r].life = "WAITING" /\ row'[r].life # "WAITING"
                    => outcome[r] = "NONE" /\ outcome'[r] = "SETTLED"]_vars
  BY StepStays DEF Stays
<1> QED
  BY <1>1, InvHolds, PTL DEF Spec, SettledStays

-----------------------------------------------------------------------------
(* The outcome of a decided action reaches the request that waits for it.   *)

\* The request has no outcome, although its action is over and nothing was lost.
Owed(r) ==
    /\ ~lost[r]
    /\ row[r].life = "WAITING"
    /\ associated[r]
    /\ action[r] = "SETTLED"
    /\ approval[r] = "DECIDED"
    /\ outcome[r] = "NONE"

\* A call that will attach it, or that ends the approval.
Brings(t, r) ==
    /\ job[t].r = r
    /\ \/ pc[t] \in {"refuse", "reconcile"}
       \/ pc[t] = "resolve" /\ job[t].seen # "EXECUTING"

AttachInv == \A r \in Requests : Owed(r) => \E t \in Threads : Brings(t, r)

\* A step of one call: what is owed after it was owed before and not brought by
\* that call, or is brought by it now.
LEMMA OthersBring ==
    ASSUME AttachInv, NEW t \in Threads,
           \A u \in Threads \ {t} : pc'[u] = pc[u] /\ job'[u] = job[u],
           \A r \in Requests : Owed(r)' => Brings(t, r)' \/ (Owed(r) /\ ~Brings(t, r))
    PROVE  AttachInv'
<1> SUFFICES ASSUME NEW r \in Requests, Owed(r)', ~Brings(t, r)'
             PROVE  \E u \in Threads : Brings(u, r)'
  BY DEF AttachInv
<1>1. Owed(r) /\ ~Brings(t, r)
  OBVIOUS
<1>2. PICK u \in Threads : Brings(u, r)
  BY <1>1 DEF AttachInv
<1>3. Brings(u, r)'
  BY <1>1, <1>2 DEF Brings
<1> QED
  BY <1>3

\* No call comes on its way, no request starts to wait, and the tables of the
\* approvals stay: what is owed was owed before.
LEMMA WaitedBefore ==
    ASSUME AttachInv, NEW t \in Threads, pc[t] \notin OutcomePhases,
           \A u \in Threads \ {t} : pc'[u] = pc[u] /\ job'[u] = job[u],
           \A r \in Requests : row'[r].life = "WAITING" => row[r].life = "WAITING",
           UNCHANGED <<approvalVars, lost>>
    PROVE  AttachInv'
<1>1. \A r \in Requests : Owed(r)' => Owed(r) /\ ~Brings(t, r)
  BY DEF Owed, Brings, OutcomePhases, approvalVars
<1> QED
  BY <1>1, OthersBring

\* A row that is written with another lifecycle does not start to wait.
LEMMA WrittenNotWaiting ==
    ASSUME RowTypes, NEW q \in Requests, NEW x, x.life # "WAITING",
           row' = [row EXCEPT ![q] = x]
    PROVE  \A r \in Requests : row'[r].life = "WAITING" => row[r].life = "WAITING"
BY DEF RowTypes

LEMMA SweptNotWaiting ==
    \A r \in Requests : Swept[r].life = "WAITING" => row[r].life = "WAITING"
<1> TAKE r \in Requests
<1>1. CASE Expired(row[r])
  BY <1>1 DEF Swept, Expired
<1>2. CASE ~Expired(row[r])
  BY <1>2 DEF Swept
<1> QED
  BY <1>1, <1>2

\* Claims find their thread idle.
LEMMA ClaimsAttach ==
    ASSUME IInv, AttachInv, NEW t \in Threads, NEW c \in Clients,
           \/ ClaimNext(t, c)
           \/ \E q \in Requests : ClaimExact(t, c, q) \/ OpenDirect(t, c, q)
    PROVE  AttachInv'
<1>0. /\ pc[t] \notin OutcomePhases /\ RowTypes
      /\ UNCHANGED <<approvalVars, lost>>
  BY DEF ClaimNext, ClaimExact, OpenDirect, OutcomePhases, IInv, TypeOK
<1>1. \A u \in Threads \ {t} : pc'[u] = pc[u] /\ job'[u] = job[u]
  BY DEF ClaimNext, ClaimExact, OpenDirect, Deliverer, IInv, TypeOK, ThreadTypes
<1>2. \A q \in Requests : Claimed(row[q], c).life # "WAITING"
  BY <1>0 DEF Claimed, RowTypes, Row
<1>3. \A r \in Requests : row'[r].life = "WAITING" => row[r].life = "WAITING"
  <2>1. CASE ClaimNext(t, c)
    <3>1. CASE row' = Swept
      BY <3>1, SweptNotWaiting
    <3>2. ASSUME NEW q \in Requests, Claimable(row[q]), row' = [Swept EXCEPT ![q] = Claimed(@, c)]
          PROVE  \A r \in Requests : row'[r].life = "WAITING" => row[r].life = "WAITING"
      <4>1. Swept[q] = row[q]
        BY <3>2 DEF Swept, Claimable, Expired
      <4>2. row'[q] = Claimed(row[q], c) /\ \A r \in Requests \ {q} : row'[r] = Swept[r]
        BY <3>2, <4>1 DEF Swept
      <4> QED
        BY <1>2, <4>2, SweptNotWaiting
    <3> QED
      BY <2>1, <3>1, <3>2 DEF ClaimNext
  <2>2. CASE UNCHANGED row
    BY <2>2
  <2>3. ASSUME NEW q \in Requests, row' = [row EXCEPT ![q] = Claimed(@, c)]
        PROVE  \A r \in Requests : row'[r].life = "WAITING" => row[r].life = "WAITING"
    BY <1>0, <1>2, <2>3, WrittenNotWaiting
  <2> QED
    BY <2>1, <2>2, <2>3 DEF ClaimExact, OpenDirect
<1> QED
  BY <1>0, <1>1, <1>3, WaitedBefore

\* A call that is not on its way with an outcome moves no other, and writes at
\* most an active row.
LEMMA WorkAttaches ==
    ASSUME IInv, AttachInv, NEW t \in Threads,
           \/ AssertActive(t) \/ Begin(t) \/ Deliver(t) \/ Renew(t) \/ Start(t) \/ Check(t)
           \/ \E b \in bindings, op \in Operations : Call(t, b, op)
    PROVE  AttachInv'
<1> DEFINE q == job[t].r
<1>0. /\ pc[t] \notin OutcomePhases /\ RowTypes
      /\ UNCHANGED <<approvalVars, lost>>
  BY DEF AssertActive, Begin, Deliver, Renew, Start, Check, Call, Writing, OutcomePhases, seenVars,
     IInv, TypeOK
<1>1. \A u \in Threads \ {t} : pc'[u] = pc[u] /\ job'[u] = job[u]
  BY DEF AssertActive, Begin, Deliver, Renew, Start, Check, Call, Return, Goto, Forget,
     IInv, TypeOK, ThreadTypes
<1>2. \A r \in Requests : row'[r].life = "WAITING" => row[r].life = "WAITING"
  <2>1. CASE UNCHANGED row
    BY <2>1
  <2>2. CASE pc[t] # "idle" /\ row[q].life # "WAITING"
             /\ \/ \E l \in {"DELIVERED_TO_PROVIDER"} : row' = [row EXCEPT ![q].life = l]
                \/ row' = [row EXCEPT ![q].lease = TRUE]
                \/ row' = [row EXCEPT ![q].life = "PROVIDER_RUNNING", ![q].started = TRUE]
    <3>1. q \in Requests /\ row[q] \in Row /\ row \in [Requests -> Row]
      BY <2>2, JobType DEF IInv, TypeOK, RowTypes
    <3>2. row'[q].life # "WAITING" /\ \A r \in Requests \ {q} : row'[r] = row[r]
      BY <2>2, <3>1 DEF Row
    <3> QED
      BY <3>2
  <2>3. CASE Deliver(t) \/ Renew(t) \/ Start(t)
    BY <2>1, <2>2, <2>3 DEF Deliver, Renew, Start, Writing, Lands, Deliverable, Startable, Active
  <2> QED
    BY <2>1, <2>3 DEF AssertActive, Begin, Check, Call
<1> QED
  BY <1>0, <1>1, <1>2, WaitedBefore

\* The result makes a request wait, and its call goes on to look for the
\* approval.
LEMMA RecordAttaches ==
    ASSUME IInv, AttachInv, NEW t \in Threads, Record(t) PROVE AttachInv'
<1>. PICK q \in Requests : q = job[t].r
  BY JobType DEF Record, Writing, IInv, TypeOK
<1>0. /\ q = job[t].r /\ pc[t] \notin OutcomePhases /\ ThreadTypes /\ RowTypes
      /\ UNCHANGED <<approvalVars, lost>>
  BY JobType DEF Record, Writing, OutcomePhases, IInv, TypeOK
<1>1. \A u \in Threads \ {t} : pc'[u] = pc[u] /\ job'[u] = job[u]
  BY <1>0 DEF Record, Recorded, Return, ThreadTypes
<1>2. CASE UNCHANGED row
  BY <1>0, <1>1, <1>2, WaitedBefore
<1>3. CASE Recorded(t) /\ \E s \in ResultLifecycles : row' = [row EXCEPT ![q].life = s]
  <2>1. Brings(t, q)'
    BY <1>0, <1>3 DEF Recorded, Brings, ThreadTypes
  <2>2. \A r \in Requests \ {q} : row'[r] = row[r]
    BY <1>0, <1>3 DEF RowTypes
  <2>3. \A r \in Requests \ {q} : Owed(r)' => Owed(r) /\ ~Brings(t, r)
    BY <1>0, <2>2 DEF Owed, Brings, OutcomePhases, approvalVars
  <2> QED
    BY <1>1, <2>1, <2>3, OthersBring
<1> QED
  BY <1>2, <1>3 DEF Record

\* An action is parked, associated while its claim lasts, or decided: none of
\* them is over, or none of them waits.
LEMMA ParkingAttaches ==
    ASSUME IInv, AttachInv, NEW t \in Threads,
           Tool(t) \/ Associate(t) \/ \E q \in Requests : Decide(t, q)
    PROVE  AttachInv'
<1>0. /\ pc[t] \notin OutcomePhases /\ UNCHANGED <<row, outcome, lost>>
      /\ \A u \in Threads \ {t} : pc'[u] = pc[u] /\ job'[u] = job[u]
      /\ RowTypes
  BY DEF Tool, Associate, Decide, Return, Goto, OutcomePhases, IInv, TypeOK, ThreadTypes
<1>1. ASSUME NEW r \in Requests, Owed(r)'
      PROVE  Owed(r) /\ ~Brings(t, r)
  <2>1. CASE Tool(t)
    <3>1. UNCHANGED <<approval, associated>>
          /\ (action' = action \/ action' = [action EXCEPT ![job[t].r] = "REQUIRE_CONFIRMATION"])
      BY <2>1 DEF Tool
    <3>2. action'[r] = "SETTLED" => action[r] = "SETTLED"
      BY <1>0, <3>1 DEF RowTypes
    <3> QED
      BY <1>0, <1>1, <3>1, <3>2 DEF Owed, Brings, OutcomePhases
  <2>2. CASE Associate(t)
    <3>1. /\ UNCHANGED <<approval, action>>
          /\ associated' = [associated EXCEPT ![job[t].r] = @ \/ IsActive(t)]
      BY <2>2 DEF Associate
    <3>2. row[r].life = "WAITING" /\ associated'[r]
      BY <1>0, <1>1 DEF Owed
    <3>3. CASE r = job[t].r
      <4>1. ~IsActive(t)
        BY <3>2, <3>3 DEF IsActive, Active
      <4>2. associated'[r] = (associated[r] \/ IsActive(t))
        BY <1>0, <3>1, <3>3 DEF RowTypes
      <4>3. associated[r]
        BY <3>2, <4>1, <4>2
      <4> QED
        BY <1>0, <1>1, <3>1, <4>3 DEF Owed, Brings, OutcomePhases
    <3>4. CASE r # job[t].r
      <4>1. associated'[r] = associated[r]
        BY <1>0, <3>1, <3>4 DEF RowTypes
      <4> QED
        BY <1>0, <1>1, <3>1, <3>2, <4>1 DEF Owed, Brings, OutcomePhases
    <3> QED
      BY <3>3, <3>4
  <2>3. ASSUME NEW q \in Requests, Decide(t, q) PROVE Owed(r) /\ ~Brings(t, r)
    <3>1. /\ UNCHANGED <<associated, action>> /\ action[q] = "REQUIRE_CONFIRMATION"
          /\ approval' = [approval EXCEPT ![q] = "DECIDED"]
      BY <2>3 DEF Decide
    <3>2. r # q /\ approval'[r] = approval[r]
      BY <1>0, <1>1, <3>1 DEF Owed, RowTypes
    <3> QED
      BY <1>0, <1>1, <3>1, <3>2 DEF Owed, Brings, OutcomePhases
  <2> QED
    BY <2>1, <2>2, <2>3
<1> QED
  BY <1>0, <1>1, OthersBring

\* The call that ends an action takes its outcome along.
LEMMA EndingAttaches ==
    ASSUME IInv, AttachInv, NEW t \in Threads, Execute(t) \/ Finish(t)
    PROVE  AttachInv'
<1>. PICK q \in Requests : q = job[t].r
  BY JobType DEF Execute, Finish, IInv, TypeOK
<1>0. /\ pc[t] \notin OutcomePhases /\ q = job[t].r
      /\ UNCHANGED <<row, approval, associated, outcome, lost>>
      /\ \A u \in Threads \ {t} : pc'[u] = pc[u] /\ job'[u] = job[u]
      /\ RowTypes /\ ThreadTypes
  BY JobType DEF Execute, Finish, Report, Return, Goto, OutcomePhases, IInv, TypeOK, ThreadTypes
<1>1. CASE UNCHANGED action
  BY <1>0, <1>1, WaitedBefore DEF approvalVars
<1>2. CASE action' = [action EXCEPT ![q] = "EXECUTING"]
  <2>1. \A r \in Requests : Owed(r)' => Owed(r) /\ ~Brings(t, r)
    <3>1. \A r \in Requests : action'[r] = "SETTLED" => action[r] = "SETTLED"
      BY <1>0, <1>2 DEF RowTypes
    <3> QED
      BY <1>0, <3>1 DEF Owed, Brings, OutcomePhases
  <2> QED
    BY <1>0, <2>1, OthersBring
<1>3. CASE action' = [action EXCEPT ![q] = "SETTLED"] /\ (Report(t) \/ Goto(t, "refuse"))
  <2>1. Brings(t, q)'
    <3>1. CASE Report(t)
      <4>1. pc'[t] = "resolve" /\ job'[t] = [job[t] EXCEPT !.seen = "SETTLED"]
        BY <1>0, <3>1 DEF Report, ThreadTypes
      <4>2. job[t] \in Jobs
        BY <1>0, JobType
      <4> QED
        BY <4>1, <4>2 DEF Brings, Jobs
    <3>2. CASE Goto(t, "refuse")
      BY <1>0, <3>2 DEF Goto, Brings, ThreadTypes
    <3> QED
      BY <1>3, <3>1, <3>2
  <2>2. \A r \in Requests \ {q} : Owed(r)' => Owed(r) /\ ~Brings(t, r)
    <3>1. \A r \in Requests \ {q} : action'[r] = action[r]
      BY <1>0, <1>3 DEF RowTypes
    <3> QED
      BY <1>0, <3>1 DEF Owed, Brings, OutcomePhases
  <2> QED
    BY <1>0, <2>1, <2>2, OthersBring
<1> QED
  BY <1>1, <1>2, <1>3 DEF Execute, Finish

\* Who brings an outcome attaches it, goes on with it, or ends the approval.
LEMMA BringingAttaches ==
    ASSUME IInv, AttachInv, NEW t \in Threads, Refuse(t) \/ Reconcile(t) \/ Resolve(t)
    PROVE  AttachInv'
<1>. PICK q \in Requests : q = job[t].r
  BY JobType DEF Refuse, Reconcile, Resolve, IInv, TypeOK
<1>0. /\ q = job[t].r /\ UNCHANGED <<action, associated, lost>>
      /\ \A u \in Threads \ {t} : pc'[u] = pc[u] /\ job'[u] = job[u]
      /\ RowTypes /\ ThreadTypes
  BY JobType DEF Refuse, Reconcile, Resolve, Report, Return, OutcomePhases, IInv, TypeOK,
     ThreadTypes, approvalVars
<1>1. CASE Refuse(t)
  <2>1. /\ ~Owed(q)' /\ UNCHANGED <<row, outcome>>
        /\ \A r \in Requests \ {q} : approval'[r] = approval[r]
    BY <1>0, <1>1 DEF Refuse, Owed, RowTypes
  <2>2. \A r \in Requests \ {q} : Owed(r)' => Owed(r) /\ ~Brings(t, r)
    BY <1>0, <2>1 DEF Owed, Brings
  <2> QED
    BY <1>0, <2>1, <2>2, OthersBring
<1>2. CASE Reconcile(t)
  <2>1. UNCHANGED <<row, approval, outcome>>
    BY <1>2 DEF Reconcile, approvalVars
  <2>2. \A r \in Requests \ {q} : Owed(r)' => Owed(r) /\ ~Brings(t, r)
    BY <1>0, <2>1 DEF Owed, Brings
  <2>3. ASSUME Owed(q)' PROVE Brings(t, q)'
    <3>1. associated[q] /\ approval[q] = "DECIDED" /\ action[q] = "SETTLED"
      BY <1>0, <2>1, <2>3 DEF Owed
    <3>2. pc'[t] = "resolve" /\ job'[t] = [job[t] EXCEPT !.seen = "SETTLED"]
      BY <1>0, <1>2, <3>1 DEF Reconcile, ThreadTypes
    <3>3. job[t] \in Jobs
      BY <1>0, JobType
    <3> QED
      BY <3>2, <3>3 DEF Brings, Jobs
  <2> QED
    BY <1>0, <2>2, <2>3, OthersBring
<1>3. CASE Resolve(t)
  <2>0. UNCHANGED approval /\ pc[t] = "resolve" /\ ReportInv(t)
    BY <1>3 DEF Resolve, IInv, FenceInv
  <2>1. CASE UNCHANGED <<row, outcome>>
            /\ ~(/\ associated[q] /\ outcome[q] = "NONE"
                 /\ row[q].life = "WAITING" /\ job[t].seen # "EXECUTING")
    <3>1. \A r \in Requests : Owed(r)' => Owed(r) /\ ~Brings(t, r)
      BY <1>0, <2>0, <2>1 DEF Owed, Brings
    <3> QED
      BY <1>0, <3>1, OthersBring
  <2>2. CASE /\ outcome' = [outcome EXCEPT ![q] = job[t].seen]
             /\ \E s \in ResolvedLifecycles(job[t].seen) : row' = [row EXCEPT ![q].life = s]
    <3>1. ~Owed(q)'
      BY <1>0, <2>0, <2>2 DEF Owed, ReportInv, RowTypes
    <3>2. \A r \in Requests \ {q} : row'[r] = row[r] /\ outcome'[r] = outcome[r]
      BY <1>0, <2>2 DEF RowTypes
    <3>3. \A r \in Requests \ {q} : Owed(r)' => Owed(r) /\ ~Brings(t, r)
      BY <1>0, <2>0, <3>2 DEF Owed, Brings
    <3> QED
      BY <1>0, <3>1, <3>3, OthersBring
  <2> QED
    BY <1>3, <2>1, <2>2 DEF Resolve
<1> QED
  BY <1>1, <1>2, <1>3

\* A call that dies on its way is remembered as lost.
LEMMA DyingAttaches ==
    ASSUME IInv, AttachInv, NEW t \in Threads, Die(t) PROVE AttachInv'
<1> DEFINE q == job[t].r
<1>0. /\ q \in Requests /\ UNCHANGED <<row, approvalVars>>
      /\ lost' = [lost EXCEPT ![q] = @ \/ pc[t] \in OutcomePhases]
      /\ \A u \in Threads \ {t} : pc'[u] = pc[u] /\ job'[u] = job[u]
      /\ lost \in [Requests -> BOOLEAN]
  BY JobType DEF Die, Return, IInv, TypeOK, ThreadTypes, SeenTypes
<1>1. ASSUME NEW r \in Requests, Owed(r)' PROVE Owed(r) /\ ~Brings(t, r)
  <2>1. ~lost'[r]
    BY <1>1 DEF Owed
  <2>2. CASE r = q
    <3>1. lost'[q] = (lost[q] \/ pc[t] \in OutcomePhases)
      BY <1>0
    <3>2. ~lost[r] /\ pc[t] \notin OutcomePhases
      BY <2>1, <2>2, <3>1
    <3> QED
      BY <1>0, <1>1, <3>2 DEF Owed, Brings, OutcomePhases, approvalVars
  <2>3. CASE r # q
    <3>1. lost'[r] = lost[r]
      BY <1>0, <2>3
    <3> QED
      BY <1>0, <1>1, <2>1, <2>3, <3>1 DEF Owed, Brings, approvalVars
  <2> QED
    BY <2>2, <2>3
<1> QED
  BY <1>0, <1>1, OthersBring

\* Steps that move no call write a row that does not wait.
LEMMA QuietAttaches ==
    ASSUME IInv, AttachInv, NEW q \in Requests, Enqueue(q) \/ CancelTask(q) \/ LeaseEnds(q)
    PROVE  AttachInv'
<1>0. RowTypes /\ UNCHANGED <<approvalVars, lost, pc, job>> /\ row[q] \in Row
  BY DEF Enqueue, CancelTask, LeaseEnds, IInv, TypeOK, RowTypes
<1>1. \A r \in Requests : row'[r].life = "WAITING" => row[r].life = "WAITING"
  <2>1. \A r \in Requests \ {q} : row'[r] = row[r]
    BY <1>0 DEF Enqueue, CancelTask, LeaseEnds, RowTypes
  <2>2. row'[q].life # "WAITING" \/ row'[q].life = row[q].life
    BY <1>0 DEF Enqueue, CancelTask, LeaseEnds, RowTypes, Row
  <2> QED
    BY <2>1, <2>2
<1>2. \A r \in Requests : Owed(r)' => Owed(r)
  BY <1>0, <1>1 DEF Owed, approvalVars
<1>3. \A t \in Threads, r \in Requests : Brings(t, r)' <=> Brings(t, r)
  BY <1>0 DEF Brings
<1> QED
  BY <1>2, <1>3 DEF AttachInv

LEMMA AttachStep == IInv /\ AttachInv /\ [Next]_vars => AttachInv'
<1> SUFFICES ASSUME IInv, AttachInv, [Next]_vars PROVE AttachInv'
  OBVIOUS
<1>1. ASSUME NEW t \in Threads, Step(t) PROVE AttachInv'
  BY <1>1, WorkAttaches, RecordAttaches, ParkingAttaches, EndingAttaches, BringingAttaches DEF Step
<1>2. ASSUME NEW t \in Threads, NEW c \in Clients,
             \/ ClaimNext(t, c)
             \/ \E q \in Requests : ClaimExact(t, c, q) \/ OpenDirect(t, c, q)
      PROVE  AttachInv'
  BY <1>2, ClaimsAttach
<1>3. ASSUME NEW t \in Threads,
             \/ Die(t) \/ \E r \in Requests : Decide(t, r)
             \/ \E b \in bindings, op \in Operations : Call(t, b, op)
      PROVE  AttachInv'
  BY <1>3, DyingAttaches, ParkingAttaches, WorkAttaches
<1>4. ASSUME NEW q \in Requests, Enqueue(q) \/ CancelTask(q) \/ LeaseEnds(q) PROVE AttachInv'
  BY <1>4, QuietAttaches
<1>5. CASE UNCHANGED vars
  BY <1>5 DEF vars, approvalVars, AttachInv, Owed, Brings
<1> QED
  BY <1>1, <1>2, <1>3, <1>4, <1>5 DEF Next, Poll

-----------------------------------------------------------------------------
(* What is attached is what an action had.                                  *)

\* The owner's one decision of an approval, on its way.
DecidePhases == {"execute", "finish"}
LatePhases == DecidePhases \cup {"refuse", "resolve"}

\* Who decides finds the action where it was left; who reports that it is over is right.
DecisionInv(t) ==
    /\ pc[t] = "execute" =>
          action[job[t].r] = "REQUIRE_CONFIRMATION" /\ approval[job[t].r] # "PENDING"
    /\ pc[t] = "finish" => action[job[t].r] = "EXECUTING" /\ approval[job[t].r] # "PENDING"
    /\ pc[t] = "refuse" => action[job[t].r] = "SETTLED"
    /\ pc[t] = "resolve" /\ job[t].seen = "SETTLED" => action[job[t].r] = "SETTLED"

DecisionsInv ==
    /\ \A t \in Threads : DecisionInv(t)
    /\ \A t, u \in Threads :
          pc[t] \in DecidePhases /\ pc[u] \in DecidePhases /\ job[t].r = job[u].r => t = u

ReadInv == DecisionsInv /\ \A r \in Requests : OutcomeWasRead(r)

\* A step of one call that leaves the actions of other deciders alone.
LEMMA OthersDecide ==
    ASSUME DecisionsInv, NEW t \in Threads,
           \A u \in Threads \ {t} : pc'[u] = pc[u] /\ job'[u] = job[u],
           \A u \in Threads \ {t} : pc[u] \in LatePhases =>
               /\ action[job[u].r] = "SETTLED" => action'[job[u].r] = "SETTLED"
               /\ approval[job[u].r] # "PENDING" => approval'[job[u].r] # "PENDING"
               /\ pc[u] \in DecidePhases => action'[job[u].r] = action[job[u].r],
           DecisionInv(t)',
           pc'[t] \in DecidePhases =>
               \A u \in Threads \ {t} : pc[u] \in DecidePhases => job[u].r # job'[t].r
    PROVE  DecisionsInv'
<1>1. ASSUME NEW u \in Threads \ {t} PROVE DecisionInv(u)'
  BY <1>1 DEF DecisionsInv, DecisionInv, LatePhases, DecidePhases
<1>2. \A v \in Threads : DecisionInv(v)'
  BY <1>1
<1>3. ASSUME NEW u \in Threads, NEW v \in Threads, pc'[u] \in DecidePhases,
             pc'[v] \in DecidePhases, job'[u].r = job'[v].r
      PROVE  u = v
  BY <1>3 DEF DecisionsInv
<1> QED
  BY <1>2, <1>3 DEF DecisionsInv

\* The tables of the approvals stay, and the call that moves decides nothing.
LEMMA QuietDecides ==
    ASSUME ReadInv, NEW t \in Threads, pc'[t] \notin LatePhases,
           \A u \in Threads \ {t} : pc'[u] = pc[u] /\ job'[u] = job[u],
           UNCHANGED <<action, approval>>
    PROVE  DecisionsInv'
<1>1. DecisionInv(t)'
  BY DEF DecisionInv, LatePhases, DecidePhases
<1> QED
  BY <1>1, OthersDecide DEF ReadInv, LatePhases

\* What was read stays true as actions end and rows go on.
LEMMA ReadStays ==
    ASSUME ReadInv, NEW r \in Requests, Stays(r), outcome'[r] = outcome[r],
           action[r] = "SETTLED" => action'[r] = "SETTLED"
    PROVE  OutcomeWasRead(r)'
BY DEF ReadInv, OutcomeWasRead, Stays

\* Claims, the work of a provider and the end of a call decide nothing.
LEMMA WorkReads ==
    ASSUME IInv, NEW t \in Threads,
           \/ AssertActive(t) \/ Begin(t) \/ Deliver(t) \/ Renew(t) \/ Start(t) \/ Record(t)
           \/ Check(t) \/ Associate(t) \/ Die(t)
           \/ \E b \in bindings, op \in Operations : Call(t, b, op)
    PROVE  /\ pc'[t] \notin LatePhases
           /\ \A u \in Threads \ {t} : pc'[u] = pc[u] /\ job'[u] = job[u]
           /\ UNCHANGED <<action, approval, outcome>>
<1>0. ThreadTypes
  BY DEF IInv, TypeOK
<1>1. CASE AssertActive(t) \/ Begin(t) \/ Check(t)
  BY <1>0, <1>1 DEF AssertActive, Begin, Check, Return, Forget, Goto, LatePhases, DecidePhases,
     ThreadTypes, approvalVars
<1>2. CASE Deliver(t) \/ Renew(t) \/ Start(t)
  BY <1>0, <1>2 DEF Deliver, Renew, Start, Return, LatePhases, DecidePhases, ThreadTypes, approvalVars
<1>3. CASE Record(t)
  BY <1>0, <1>3 DEF Record, Recorded, Return, LatePhases, DecidePhases, ThreadTypes, approvalVars
<1>4. CASE Associate(t) \/ Die(t)
  BY <1>0, <1>4 DEF Associate, Die, Return, LatePhases, DecidePhases, ThreadTypes, approvalVars
<1>5. ASSUME NEW b \in bindings, NEW op \in Operations, Call(t, b, op)
      PROVE  /\ pc'[t] \notin LatePhases
             /\ \A u \in Threads \ {t} : pc'[u] = pc[u] /\ job'[u] = job[u]
             /\ UNCHANGED <<action, approval, outcome>>
  BY <1>0, <1>5 DEF Call, LatePhases, DecidePhases, ThreadTypes, approvalVars
<1> QED
  BY <1>1, <1>2, <1>3, <1>4, <1>5

LEMMA ClaimsRead ==
    ASSUME IInv, NEW t \in Threads, NEW c \in Clients,
           \/ ClaimNext(t, c)
           \/ \E q \in Requests : ClaimExact(t, c, q) \/ OpenDirect(t, c, q)
    PROVE  /\ pc'[t] \notin LatePhases
           /\ \A u \in Threads \ {t} : pc'[u] = pc[u] /\ job'[u] = job[u]
           /\ UNCHANGED <<action, approval, outcome>>
<1>0. ThreadTypes
  BY DEF IInv, TypeOK
<1>1. CASE ClaimNext(t, c)
  BY <1>0, <1>1 DEF ClaimNext, Deliverer, LatePhases, DecidePhases, ThreadTypes, approvalVars
<1>2. ASSUME NEW q \in Requests, ClaimExact(t, c, q) \/ OpenDirect(t, c, q)
      PROVE  /\ pc'[t] \notin LatePhases
             /\ \A u \in Threads \ {t} : pc'[u] = pc[u] /\ job'[u] = job[u]
             /\ UNCHANGED <<action, approval, outcome>>
  BY <1>0, <1>2 DEF ClaimExact, OpenDirect, Deliverer, LatePhases, DecidePhases, ThreadTypes,
     approvalVars
<1> QED
  BY <1>1, <1>2

\* An action is parked, or its approval decided, for the first time.
LEMMA ParkingReads ==
    ASSUME IInv, ReadInv, \A r \in Requests : Stays(r), NEW t \in Threads,
           Tool(t) \/ \E q \in Requests : Decide(t, q)
    PROVE  ReadInv'
<1>0. RowTypes /\ ThreadTypes /\ UNCHANGED outcome
      /\ \A u \in Threads \ {t} : pc'[u] = pc[u] /\ job'[u] = job[u]
  BY DEF Tool, Decide, Return, Goto, IInv, TypeOK, ThreadTypes
<1>1. CASE Tool(t)
  <2>1. /\ pc'[t] \notin LatePhases /\ UNCHANGED approval
        /\ \/ UNCHANGED action
           \/ /\ action[job[t].r] = "NONE"
              /\ action' = [action EXCEPT ![job[t].r] = "REQUIRE_CONFIRMATION"]
    BY <1>0, <1>1 DEF Tool, Return, Goto, LatePhases, DecidePhases, ThreadTypes
  <2>2. \A r \in Requests : action[r] # "NONE" => action'[r] = action[r]
    BY <1>0, <2>1 DEF RowTypes
  <2>3. \A u \in Threads \ {t} : pc[u] \in LatePhases => job[u].r \in Requests
    BY <1>0 DEF LatePhases, DecidePhases, ThreadTypes
  <2>4. \A u \in Threads \ {t} : pc[u] \in DecidePhases => action[job[u].r] # "NONE"
    BY DEF ReadInv, DecisionsInv, DecisionInv, DecidePhases
  <2>5. DecisionInv(t)'
    BY <2>1 DEF DecisionInv, LatePhases, DecidePhases
  <2>6. DecisionsInv'
    BY <1>0, <2>1, <2>2, <2>3, <2>4, <2>5, OthersDecide DEF ReadInv, LatePhases
  <2>7. \A r \in Requests : OutcomeWasRead(r)'
    BY <1>0, <2>2, ReadStays
  <2> QED
    BY <2>6, <2>7 DEF ReadInv
<1>2. ASSUME NEW q \in Requests, Decide(t, q) PROVE ReadInv'
  <2>1. /\ action[q] = "REQUIRE_CONFIRMATION" /\ approval[q] = "PENDING" /\ UNCHANGED action
        /\ approval' = [approval EXCEPT ![q] = "DECIDED"]
        /\ pc'[t] = "execute"
        /\ job' = [job EXCEPT ![t] = [NoJob EXCEPT !.r = q, !.op = "decide"]]
    BY <1>0, <1>2 DEF Decide, ThreadTypes
  <2>2. job'[t].r = q
    BY <1>0, <2>1 DEF ThreadTypes, NoJob
  <2>3. approval'[q] = "DECIDED" /\ \A r \in Requests : approval'[r] \in {approval[r], "DECIDED"}
    BY <1>0, <2>1 DEF RowTypes
  <2>4. \A u \in Threads \ {t} : pc[u] \in LatePhases => job[u].r \in Requests
    BY <1>0 DEF LatePhases, DecidePhases, ThreadTypes
  <2>5. \A u \in Threads \ {t} : pc[u] \in DecidePhases => job[u].r # q
    BY <2>1 DEF ReadInv, DecisionsInv, DecisionInv, DecidePhases
  <2>6. DecisionInv(t)'
    BY <2>1, <2>2, <2>3 DEF DecisionInv
  <2>7. DecisionsInv'
    BY <1>0, <2>1, <2>2, <2>3, <2>4, <2>5, <2>6, OthersDecide DEF ReadInv
  <2>8. \A r \in Requests : OutcomeWasRead(r)'
    BY <1>0, <2>1, ReadStays
  <2> QED
    BY <2>7, <2>8 DEF ReadInv
<1> QED
  BY <1>1, <1>2

\* The one decider moves its action on, and reports where it ended.
LEMMA EndingReads ==
    ASSUME IInv, ReadInv, \A r \in Requests : Stays(r), NEW t \in Threads,
           Execute(t) \/ Finish(t)
    PROVE  ReadInv'
<1>. PICK q \in Requests : q = job[t].r
  BY JobType DEF Execute, Finish, IInv, TypeOK
<1>0. /\ RowTypes /\ ThreadTypes /\ UNCHANGED <<outcome, approval>>
      /\ \A u \in Threads \ {t} : pc'[u] = pc[u] /\ job'[u] = job[u]
      /\ pc[t] \in DecidePhases /\ q = job[t].r
  BY DEF Execute, Finish, Report, Return, Goto, DecidePhases, IInv, TypeOK, ThreadTypes
<1>1. action[q] # "SETTLED" /\ approval[q] # "PENDING"
  BY <1>0 DEF ReadInv, DecisionsInv, DecisionInv, DecidePhases
<1>2. \A r \in Requests \ {q} : action'[r] = action[r]
  BY <1>0 DEF Execute, Finish, RowTypes
<1>3. \A u \in Threads \ {t} : pc[u] \in DecidePhases => job[u].r # q
  BY <1>0 DEF ReadInv, DecisionsInv
<1>4. \A u \in Threads \ {t} : pc[u] \in LatePhases => job[u].r \in Requests
  BY <1>0 DEF LatePhases, DecidePhases, ThreadTypes
<1>5. DecisionInv(t)' /\ (pc'[t] \in DecidePhases => job'[t].r = q)
  <2>1. CASE action' = [action EXCEPT ![q] = "EXECUTING"] /\ Goto(t, "finish")
    <3>1. pc'[t] = "finish" /\ job' = job /\ action'[q] = "EXECUTING"
      BY <1>0, <2>1 DEF Goto, ThreadTypes, RowTypes
    <3> QED
      BY <1>0, <1>1, <3>1 DEF DecisionInv
  <2>2. CASE action' = [action EXCEPT ![q] = "SETTLED"] /\ (Report(t) \/ Goto(t, "refuse"))
    <3>1. action'[q] = "SETTLED" /\ pc'[t] \in {"refuse", "resolve"}
      BY <1>0, <2>2 DEF Goto, Report, ThreadTypes, RowTypes
    <3>2. job'[t].r = q
      <4>1. job' = job \/ job' = [job EXCEPT ![t].seen = "SETTLED"]
        BY <2>2 DEF Goto, Report
      <4>2. job[t] \in Jobs
        BY <1>0, JobType
      <4> QED
        BY <1>0, <4>1, <4>2 DEF Jobs, ThreadTypes
    <3> QED
      BY <3>1, <3>2 DEF DecisionInv, DecidePhases
  <2>3. CASE Return(t)
    BY <1>0, <2>3 DEF Return, DecisionInv, DecidePhases, ThreadTypes
  <2> QED
    BY <1>0, <2>1, <2>2, <2>3 DEF Execute, Finish
<1>6. \A u \in Threads \ {t} : pc[u] \in LatePhases =>
          /\ action[job[u].r] = "SETTLED" => action'[job[u].r] = "SETTLED"
          /\ pc[u] \in DecidePhases => action'[job[u].r] = action[job[u].r]
  BY <1>1, <1>2, <1>3, <1>4
<1>7. DecisionsInv'
  BY <1>0, <1>3, <1>5, <1>6, OthersDecide DEF ReadInv
<1>8. \A r \in Requests : OutcomeWasRead(r)'
  BY <1>0, <1>1, <1>2, ReadStays
<1> QED
  BY <1>7, <1>8 DEF ReadInv

\* Who brings an outcome brings what the action is, or was when it was read.
LEMMA BringingReads ==
    ASSUME IInv, ReadInv, \A r \in Requests : Stays(r), NEW t \in Threads,
           Refuse(t) \/ Reconcile(t) \/ Resolve(t)
    PROVE  ReadInv'
<1>. PICK q \in Requests : q = job[t].r
  BY JobType DEF Refuse, Reconcile, Resolve, IInv, TypeOK
<1>0. /\ RowTypes /\ ThreadTypes /\ UNCHANGED action /\ q = job[t].r /\ job[t] \in Jobs
      /\ \A u \in Threads \ {t} : pc'[u] = pc[u] /\ job'[u] = job[u]
  BY JobType DEF Refuse, Reconcile, Resolve, Report, Return, IInv, TypeOK, ThreadTypes, approvalVars
<1>1. \A u \in Threads \ {t} : pc[u] \in LatePhases => job[u].r \in Requests
  BY <1>0 DEF LatePhases, DecidePhases, ThreadTypes
<1>2. CASE Refuse(t)
  <2>1. /\ action[q] = "SETTLED" /\ UNCHANGED outcome /\ pc'[t] = "resolve"
        /\ job' = [job EXCEPT ![t].seen = "SETTLED"]
        /\ approval' = [approval EXCEPT ![q] = "FAILED"]
    BY <1>0, <1>2 DEF Refuse, Report, ReadInv, DecisionsInv, DecisionInv, ThreadTypes
  <2>2. job'[t].r = q /\ \A r \in Requests : approval'[r] \in {approval[r], "FAILED"}
    BY <1>0, <2>1 DEF Jobs, RowTypes, ThreadTypes
  <2>3. DecisionInv(t)'
    BY <1>0, <2>1, <2>2 DEF DecisionInv
  <2>4. DecisionsInv'
    BY <1>0, <1>1, <2>1, <2>2, <2>3, OthersDecide DEF ReadInv, DecidePhases
  <2>5. \A r \in Requests : OutcomeWasRead(r)'
    BY <1>0, <2>1, ReadStays
  <2> QED
    BY <2>4, <2>5 DEF ReadInv
<1>3. CASE Reconcile(t)
  <2>1. UNCHANGED <<approval, outcome>>
        /\ \/ pc'[t] = "resolve" /\ job' = [job EXCEPT ![t].seen = action[q]]
           \/ pc'[t] = "idle"
    BY <1>0, <1>3 DEF Reconcile, Return, approvalVars, ThreadTypes
  <2>2. DecisionInv(t)'
    <3>1. CASE pc'[t] = "resolve" /\ job' = [job EXCEPT ![t].seen = action[q]]
      <4>1. job'[t].r = q /\ job'[t].seen = action[q]
        BY <1>0, <3>1 DEF Jobs, ThreadTypes
      <4> QED
        BY <1>0, <3>1, <4>1 DEF DecisionInv
    <3>2. CASE pc'[t] = "idle"
      BY <3>2 DEF DecisionInv
    <3> QED
      BY <2>1, <3>1, <3>2
  <2>3. pc'[t] \notin DecidePhases
    BY <2>1 DEF DecidePhases
  <2>4. DecisionsInv'
    BY <1>0, <2>1, <2>2, <2>3, OthersDecide DEF ReadInv
  <2>5. \A r \in Requests : OutcomeWasRead(r)'
    BY <1>0, <2>1, ReadStays
  <2> QED
    BY <2>4, <2>5 DEF ReadInv
<1>4. CASE Resolve(t)
  <2>1. pc[t] = "resolve" /\ UNCHANGED approval /\ pc'[t] = "idle"
    BY <1>0, <1>4 DEF Resolve, Return, ThreadTypes
  <2>2. DecisionsInv'
    BY <1>0, <2>1, QuietDecides DEF LatePhases, DecidePhases
  <2>3. CASE UNCHANGED outcome
    BY <1>0, <2>2, <2>3, ReadStays DEF ReadInv
  <2>4. CASE /\ job[t].seen # "EXECUTING"
             /\ outcome' = [outcome EXCEPT ![q] = job[t].seen]
             /\ \E s \in ResolvedLifecycles(job[t].seen) : row' = [row EXCEPT ![q].life = s]
    <3>1. job[t].seen \in {"REQUIRE_CONFIRMATION", "SETTLED"}
      BY <2>1, <2>4 DEF IInv, FenceInv, ReportInv
    <3>2. outcome'[q] = job[t].seen /\ \A r \in Requests \ {q} : outcome'[r] = outcome[r]
      BY <1>0, <2>4 DEF RowTypes
    <3>3. job[t].seen = "SETTLED" => action'[q] = "SETTLED"
      BY <1>0, <2>1 DEF ReadInv, DecisionsInv, DecisionInv
    <3>4. job[t].seen = "REQUIRE_CONFIRMATION" => row'[q].life = "WAITING"
      BY <1>0, <2>4 DEF ResolvedLifecycles, RowTypes, Row
    <3>5. OutcomeWasRead(q)'
      BY <3>1, <3>2, <3>3, <3>4 DEF OutcomeWasRead
    <3>6. \A r \in Requests \ {q} : OutcomeWasRead(r)'
      BY <1>0, <3>2, ReadStays
    <3> QED
      BY <2>2, <3>5, <3>6 DEF ReadInv
  <2> QED
    BY <1>0, <1>4, <2>3, <2>4 DEF Resolve
<1> QED
  BY <1>2, <1>3, <1>4

LEMMA ReadStep == IInv /\ ReadInv /\ [Next]_vars => ReadInv'
<1> SUFFICES ASSUME IInv, ReadInv, [Next]_vars PROVE ReadInv'
  OBVIOUS
<1>0. \A r \in Requests : Stays(r)
  BY StepStays
<1>1. ASSUME NEW t \in Threads, pc'[t] \notin LatePhases,
             \A u \in Threads \ {t} : pc'[u] = pc[u] /\ job'[u] = job[u],
             UNCHANGED <<action, approval, outcome>>
      PROVE  ReadInv'
  BY <1>0, <1>1, QuietDecides, ReadStays DEF ReadInv
<1>2. ASSUME NEW t \in Threads, Step(t) PROVE ReadInv'
  BY <1>0, <1>1, <1>2, WorkReads, ParkingReads, EndingReads, BringingReads DEF Step
<1>3. ASSUME NEW t \in Threads, NEW c \in Clients,
             \/ ClaimNext(t, c)
             \/ \E q \in Requests : ClaimExact(t, c, q) \/ OpenDirect(t, c, q)
      PROVE  ReadInv'
  BY <1>1, <1>3, ClaimsRead
<1>4. ASSUME NEW t \in Threads,
             \/ Die(t) \/ \E r \in Requests : Decide(t, r)
             \/ \E b \in bindings, op \in Operations : Call(t, b, op)
      PROVE  ReadInv'
  BY <1>0, <1>1, <1>4, WorkReads, ParkingReads
<1>5. ASSUME UNCHANGED <<action, approval, outcome, pc, job>> PROVE ReadInv'
  <2>1. DecisionsInv'
    BY <1>5 DEF ReadInv, DecisionsInv, DecisionInv
  <2>2. \A r \in Requests : OutcomeWasRead(r)'
    BY <1>0, <1>5, ReadStays
  <2> QED
    BY <2>1, <2>2 DEF ReadInv
<1>6. ASSUME NEW q \in Requests, Enqueue(q) \/ CancelTask(q) \/ LeaseEnds(q) PROVE ReadInv'
  BY <1>5, <1>6 DEF Enqueue, CancelTask, LeaseEnds, approvalVars
<1>7. CASE UNCHANGED vars
  BY <1>5, <1>7 DEF vars, approvalVars
<1> QED
  BY <1>2, <1>3, <1>4, <1>6, <1>7 DEF Next, Poll

\* Whichever of the owner's decision and the provider's result comes first, a
\* request that waits for an action that is over has an outcome once nobody is on
\* the way with it, unless a call died there or the approval failed before the
\* result was recorded; and the outcome was the action's: SETTLED only of one that
\* is over, and one read while it still wanted its confirmation settles nothing
\* (approval_results.py, reconcile_request).  That the outcome is the last one the
\* action has is not claimed: it is false, as OutcomeIsTheActions shows.
THEOREM OutcomeAttached == Spec => []OutcomeIsAttached
<1>1. Init => AttachInv /\ ReadInv
  BY DEF Init, AttachInv, Owed, ReadInv, DecisionsInv, DecisionInv, DecidePhases, OutcomeWasRead
<1>2. IInv /\ AttachInv /\ ReadInv => OutcomeIsAttached
  <2> SUFFICES ASSUME AttachInv, ReadInv, NEW r \in Requests, Owed(r),
                      \A t \in Threads : job[t].r = r => pc[t] \notin OutcomePhases
               PROVE  FALSE
    BY DEF OutcomeIsAttached, Owed, ReadInv
  <2>1. PICK t \in Threads : Brings(t, r)
    BY DEF AttachInv
  <2> QED
    BY <2>1 DEF Brings, OutcomePhases
<1> QED
  BY <1>1, <1>2, AttachStep, ReadStep, InvHolds, PTL DEF Spec
=============================================================================
