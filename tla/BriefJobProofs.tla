--------------------------- MODULE BriefJobProofs ---------------------------
(***************************************************************************)
(* Proofs about the life of a brief, for any number of jobs and requests,  *)
(* any number of iterations and of worker slots, and any number of crashes *)
(* and failures: the types, and that nothing is published without the      *)
(* owner having said so.                                                   *)
(***************************************************************************)
EXTENDS BriefJob, TLAPS

-----------------------------------------------------------------------------
(* The inductive invariant *)

\* Among the requests q, d is a decision on job j that the owner has sent: a
\* rejection counts from the moment it is read, an approval once it is enqueued.
Sent(q, d, j) ==
  /\ d \in Requests /\ j \in Jobs
  /\ q[d].job = j
  /\ q[d].kind \in DecisionKinds
  /\ q[d].kind # "reject" => q[d].pc = "done"

\* The graph state c of job j holds a decision on that job, or none, and only one
\* that is no rejection leads to publish.
Holds(q, c, j) ==
  /\ c.decision # NoRequest => Sent(q, c.decision, j)
  /\ c.next = "publish" => c.decision # NoRequest /\ q[c.decision].kind # "reject"

\* The task ts of job j holds decisions on that job, and has one when it decided.
TaskHolds(q, ts, j) ==
  /\ ts.arg # NoRequest => Sent(q, ts.arg, j)
  /\ Holds(q, ts.mem, j)
  /\ ts.pc \in {"decided", "ended"} => ts.mem.decision # NoRequest
  /\ ts.pc = "published" => ts.mem.next = "publish"

\* A handler that has read a job knows it, and holds a request of its kind.
HandlersKnowTheirRequest ==
  \A r \in Requests :
    /\ request[r].pc = "idle" => request[r].kind = "none"
    /\ request[r].pc # "idle" => request[r].job \in Jobs
    /\ request[r].pc = "rejectRead" => request[r].kind = "reject"
    /\ request[r].pc = "approveRead" => request[r].kind \in {"approve", "schedule"}

\* A resume task stands for the decision that enqueued it.
ResumesAreDecisions ==
  \A r \in Requests : task[r].pc # "none" => Sent(request, r, request[r].job)

\* A decision that waits in Redis is one on that job.
PendingIsDecision ==
  \A j \in Jobs : pending[j] # NoRequest => Sent(request, pending[j], j)

TasksHoldDecisions ==
  \A t \in Tasks : Active(t) => TaskHolds(request, task[t], JobOf(t))

ThreadsHoldDecisions ==
  \A j \in Jobs : Holds(request, thread[j], j)

IInv ==
  /\ TypeOK
  /\ HandlersKnowTheirRequest
  /\ ResumesAreDecisions
  /\ PendingIsDecision
  /\ TasksHoldDecisions
  /\ ThreadsHoldDecisions
  /\ PublishedByOwner

-----------------------------------------------------------------------------
(* Names and updates *)

\* The names of the code's states belong to their sets.
LEMMA JobNames ==
  /\ "none" \in Statuses /\ "queued" \in Statuses /\ "running" \in Statuses /\ "done" \in Statuses
  /\ "failed" \in Statuses /\ "none" \in Stages /\ "queued" \in Stages /\ "writer" \in Stages
  /\ "critics" \in Stages /\ "asset_gen" \in Stages /\ "render" \in Stages /\ "vision_qa" \in Stages
  /\ "approval" \in Stages /\ "awaiting_approval" \in Stages /\ "publish" \in Stages /\ "published" \in Stages
  /\ "scheduled" \in Stages /\ "rejected" \in Stages
BY DEF Statuses, Stages

LEMMA TaskNames ==
  /\ "none" \in Nodes /\ "writer" \in Nodes /\ "critics" \in Nodes /\ "asset_gen" \in Nodes
  /\ "render" \in Nodes /\ "vision_qa" \in Nodes /\ "approval" \in Nodes /\ "publish" \in Nodes
  /\ "end" \in Nodes /\ "none" \in TaskPCs /\ "queued" \in TaskPCs /\ "checked" \in TaskPCs
  /\ "marked" \in TaskPCs /\ "driving" \in TaskPCs /\ "decided" \in TaskPCs /\ "published" \in TaskPCs
  /\ "ended" \in TaskPCs /\ "parked" \in TaskPCs /\ "popped" \in TaskPCs /\ "finished" \in TaskPCs
BY DEF Nodes, TaskPCs

LEMMA RequestNames ==
  /\ "idle" \in RequestPCs /\ "hookRead" \in RequestPCs /\ "hookSaved" \in RequestPCs /\ "rejectRead" \in RequestPCs
  /\ "rejectActed" \in RequestPCs /\ "approveRead" \in RequestPCs /\ "done" \in RequestPCs /\ "none" \in RequestKinds
  /\ "hook" \in RequestKinds /\ "reject" \in RequestKinds /\ "approve" \in RequestKinds /\ "schedule" \in RequestKinds
  /\ "none" \in Routes /\ "resumed" \in Routes /\ "pending" \in Routes /\ "recorded" \in Routes
BY DEF RequestPCs, RequestKinds, Routes

LEMMA ScriptNames ==
  /\ "none" \in ScriptStatuses /\ "draft" \in ScriptStatuses /\ "ready" \in ScriptStatuses
  /\ "rejected" \in ScriptStatuses /\ "approved" \in ScriptStatuses /\ "scheduled" \in ScriptStatuses
BY DEF ScriptStatuses

\* The updates keep the types.
LEMMA EmptyType == Empty \in Checkpoints
BY TaskNames DEF Empty, Checkpoints

LEMMA JobSetType ==
  ASSUME TypeOK, NEW j \in Jobs, NEW status \in Statuses, NEW stage \in Stages
  PROVE  JobSet(j, status, stage) \in [Jobs -> JobHash]
BY DEF TypeOK, JobSet, JobHash

LEMMA JobHasScriptType ==
  ASSUME TypeOK, NEW j \in Jobs, NEW stage \in Stages
  PROVE  JobHasScript(j, stage) \in [Jobs -> JobHash]
BY DEF TypeOK, JobHasScript, JobHash

LEMMA ScriptSetType ==
  ASSUME TypeOK, NEW j \in Jobs, NEW status \in ScriptStatuses, NEW hooks \in Nat,
         NEW body \in Nat, NEW selected \in Hooks
  PROVE  ScriptSet(j, status, hooks, body, selected) \in [Jobs -> ScriptRow]
BY DEF TypeOK, ScriptSet, ScriptRow

LEMMA StatusSetType ==
  ASSUME TypeOK, NEW j \in Jobs, NEW status \in ScriptStatuses
  PROVE  StatusSet(j, status) \in [Jobs -> ScriptRow]
BY DEF TypeOK, StatusSet, ScriptRow

LEMMA TaskSetType ==
  ASSUME TypeOK, NEW t \in Tasks, NEW pc \in TaskPCs, NEW arg \in Requests \cup {NoRequest},
         NEW mem \in Checkpoints
  PROVE  TaskSet(t, pc, arg, mem) \in [Tasks -> TaskState]
BY DEF TypeOK, TaskSet, TaskState

LEMMA TaskIdleType ==
  ASSUME TypeOK, NEW t \in Tasks, NEW pc \in TaskPCs
  PROVE  TaskIdle(t, pc) \in [Tasks -> TaskState]
BY TaskSetType, EmptyType DEF TaskIdle

\* The graph states that the nodes make of the one they were given.
LEMMA GoesTo ==
  ASSUME NEW m \in Checkpoints, NEW n \in Nodes
  PROVE  [m EXCEPT !.next = n] \in Checkpoints
BY DEF Checkpoints

LEMMA StartsOver ==
  ASSUME NEW m \in Checkpoints
  PROVE  [m EXCEPT !.next = "writer", !.iteration = 0] \in Checkpoints
BY TaskNames DEF Checkpoints

LEMMA Writes ==
  ASSUME NEW m \in Checkpoints, NEW v \in Nat
  PROVE  [m EXCEPT !.next = "critics", !.iteration = @ + 1, !.version = v] \in Checkpoints
<1>1. m.iteration + 1 \in Nat
  BY DEF Checkpoints
<1> DEFINE i == m.iteration + 1
<1>2. [m EXCEPT !.next = "critics", !.iteration = i, !.version = v] \in Checkpoints
  <2> HIDE DEF i
  <2>1. i \in Nat
    BY <1>1 DEF i
  <2>2. QED
    BY <2>1, TaskNames DEF Checkpoints
<1>3. QED
  BY <1>2

LEMMA Revises ==
  ASSUME NEW m \in Checkpoints, NEW b \in BestAfter(m)
  PROVE  /\ b \in Nat
         /\ [m EXCEPT !.next = "writer", !.best = b] \in Checkpoints
         /\ [m EXCEPT !.next = "asset_gen", !.best = b, !.version = b] \in Checkpoints
<1>1. b \in Nat
  BY DEF BestAfter, Checkpoints
<1>2. QED
  BY <1>1, TaskNames DEF Checkpoints

LEMMA Produces ==
  ASSUME NEW m \in Checkpoints, NEW n \in Nodes, NEW v \in Nat
  PROVE  [m EXCEPT !.next = n, !.video = v] \in Checkpoints
BY DEF Checkpoints

LEMMA Takes ==
  ASSUME NEW m \in Checkpoints, NEW d \in Requests
  PROVE  [m EXCEPT !.decision = d] \in Checkpoints
BY DEF Checkpoints

\* A step of the graph keeps the types of task and thread.
LEMMA AdvanceType ==
  ASSUME TypeOK, NEW t \in Tasks, NEW pc \in TaskPCs, NEW mem \in Checkpoints,
         JobOf(t) \in Jobs, Advance(t, pc, mem)
  PROVE  task' \in [Tasks -> TaskState] /\ thread' \in [Jobs -> Checkpoints]
<1>1. task[t].arg \in Requests \cup {NoRequest}
  BY DEF TypeOK, TaskState
<1>2. QED
  BY <1>1, TaskSetType DEF Advance, TypeOK

LEMMA EndType ==
  ASSUME TypeOK, NEW t \in Tasks, JobOf(t) \in Jobs, End(t)
  PROVE  task' \in [Tasks -> TaskState] /\ thread' \in [Jobs -> Checkpoints]
<1>1. task[t].mem \in Checkpoints
  BY DEF TypeOK, TaskState
<1>2. [task[t].mem EXCEPT !.next = "end"] \in Checkpoints
  BY <1>1, GoesTo, TaskNames
<1>3. task[t].arg \in Requests \cup {NoRequest}
  BY DEF TypeOK, TaskState
<1>4. task' \in [Tasks -> TaskState]
  BY <1>1, <1>3, TaskSetType, TaskNames DEF End
<1>5. QED
  BY <1>2, <1>4 DEF End, TypeOK

LEMMA LeaveTasteType ==
  ASSUME TypeOK, NEW r \in Requests, LeaveTaste(r)
  PROVE  taste' \in [Requests -> Nat] /\ newer' \in [Requests -> Nat]
<1>1. \A q \in Requests : taste[q] + 1 \in Nat /\ newer[q] + 1 \in Nat
  BY DEF TypeOK
<1>2. taste' \in [Requests -> Nat]
  BY <1>1 DEF LeaveTaste, TypeOK
<1>3. newer' \in [Requests -> Nat]
  BY <1>1 DEF LeaveTaste
<1>4. QED
  BY <1>2, <1>3

LEMMA LoadType ==
  ASSUME TypeOK, NEW t \in Tasks, NEW d \in Requests \cup {NoRequest}, JobOf(t) \in Jobs, Load(t, d)
  PROVE  task' \in [Tasks -> TaskState]
<1>1. thread[JobOf(t)] \in Checkpoints
  BY DEF TypeOK
<1>2. QED
  BY <1>1, TaskIdleType, TaskSetType, TaskNames DEF Load

\* A task that was enqueued has a job, and what it holds is typed.
LEMMA TaskKnowsItsJob ==
  ASSUME IInv, NEW t \in Tasks, task[t].pc # "none"
  PROVE  /\ TypeOK
         /\ JobOf(t) \in Jobs
         /\ job[JobOf(t)] \in JobHash
         /\ script[JobOf(t)] \in ScriptRow
         /\ task[t].mem \in Checkpoints
         /\ task[t].arg \in Requests \cup {NoRequest}
BY DEF IInv, TypeOK, ResumesAreDecisions, Sent, Tasks, JobOf, TaskState

LEMMA FaultType ==
  ASSUME TypeOK, NEW kind \in {"crashes", "failures", "timeouts"}, Fault(kind)
  PROVE  faults' \in [crashes: Nat, failures: Nat, timeouts: Nat]
BY DEF TypeOK, Fault

-----------------------------------------------------------------------------
(* Every action keeps the types *)

LEMMA CreateBriefType ==
  ASSUME IInv, NEW j \in Jobs, CreateBrief(j)
  PROVE  TypeOK'
<1>1. TypeOK /\ j \in Tasks
  BY DEF IInv, Tasks
<1>2. job' \in [Jobs -> JobHash] /\ task' \in [Tasks -> TaskState]
  BY <1>1, JobSetType, JobNames, TaskIdleType, TaskNames DEF CreateBrief, EnqueueBrief
<1>3. QED
  BY <1>1, <1>2 DEF CreateBrief, TypeOK

LEMMA ReadHooksType ==
  ASSUME IInv, NEW r \in Requests, NEW j \in Jobs, NEW h \in Hooks, ReadHooks(r, j, h)
  PROVE  TypeOK'
<1>1. TypeOK
  BY DEF IInv
<1>2. script[j].hooks \in Nat
  BY <1>1 DEF TypeOK, ScriptRow
<1>3. [pc |-> "hookRead", kind |-> "hook", job |-> j, hook |-> h, route |-> "none",
       retry |-> FALSE, hooks |-> script[j].hooks] \in RequestState
  BY <1>2, RequestNames DEF RequestState
<1>4. request' \in [Requests -> RequestState]
  BY <1>1, <1>3 DEF ReadHooks, TypeOK
<1>5. QED
  BY <1>1, <1>4 DEF ReadHooks, TypeOK

LEMMA SaveHooksType ==
  ASSUME IInv, NEW r \in Requests, SaveHooks(r)
  PROVE  TypeOK'
<1> DEFINE j == request[r].job
<1>1. TypeOK
  BY DEF IInv
<1>2. request[r] \in RequestState
  BY <1>1 DEF TypeOK
<1>3. j \in Jobs /\ request[r].hooks \in Nat /\ request[r].hook \in Hooks
  BY <1>2 DEF IInv, HandlersKnowTheirRequest, RequestState, SaveHooks
<1>4. script[j].status \in ScriptStatuses /\ script[j].body \in Nat
  BY <1>1, <1>3 DEF TypeOK, ScriptRow
<1>5. script' \in [Jobs -> ScriptRow]
  BY <1>1, <1>3, <1>4, ScriptSetType DEF SaveHooks
<1>6. request' \in [Requests -> RequestState]
  BY <1>1, <1>2, RequestNames DEF SaveHooks, TypeOK, RequestState
<1>7. QED
  BY <1>1, <1>5, <1>6 DEF SaveHooks, TypeOK

LEMMA RecordHookType ==
  ASSUME IInv, NEW r \in Requests, RecordHook(r)
  PROVE  TypeOK'
<1>1. TypeOK
  BY DEF IInv
<1>2. request[r] \in RequestState
  BY <1>1 DEF TypeOK
<1>3. request[r].hook \in Hooks
  BY <1>2 DEF RequestState
<1>4. job' \in [Jobs -> JobHash]
  BY <1>1, <1>3 DEF RecordHook, TypeOK, JobHash
<1>5. request' \in [Requests -> RequestState]
  BY <1>1, <1>2, RequestNames DEF RecordHook, TypeOK, RequestState
<1>6. QED
  BY <1>1, <1>4, <1>5 DEF RecordHook, TypeOK

LEMMA ReadRejectType ==
  ASSUME IInv, NEW r \in Requests, NEW j \in Jobs, NEW retry \in BOOLEAN, ReadReject(r, j, retry)
  PROVE  TypeOK'
<1>1. TypeOK
  BY DEF IInv
<1>2. RejectRoute(j) \in Routes
  BY RequestNames DEF RejectRoute
<1>3. [pc |-> "rejectRead", kind |-> "reject", job |-> j, hook |-> 0, route |-> RejectRoute(j),
       retry |-> retry, hooks |-> 0] \in RequestState
  BY <1>2, RequestNames, BriefAssumption DEF RequestState
<1>4. request' \in [Requests -> RequestState]
  BY <1>1, <1>3 DEF ReadReject, TypeOK
<1>5. QED
  BY <1>1, <1>4 DEF ReadReject, TypeOK

LEMMA ActRejectType ==
  ASSUME IInv, NEW r \in Requests, ActReject(r)
  PROVE  TypeOK'
<1> DEFINE j == request[r].job
<1>1. TypeOK /\ r \in Tasks
  BY DEF IInv, Tasks
<1>2. j \in Jobs
  BY DEF IInv, HandlersKnowTheirRequest, ActReject
<1>3. request' \in [Requests -> RequestState]
  BY <1>1, RequestNames DEF ActReject, TypeOK, RequestState
<1>4. task' \in [Tasks -> TaskState]
  BY <1>1, TaskIdleType, TaskNames DEF ActReject, TypeOK
<1>5. pending' \in [Jobs -> Requests \cup {NoRequest}]
  BY <1>1 DEF ActReject, TypeOK
<1>6. taste' \in [Requests -> Nat] /\ newer' \in [Requests -> Nat]
  BY <1>1, LeaveTasteType DEF ActReject, TypeOK
<1>7. script' \in [Jobs -> ScriptRow]
  BY <1>1, <1>2, StatusSetType, ScriptNames DEF ActReject, TypeOK
<1>8. QED
  BY <1>1, <1>3, <1>4, <1>5, <1>6, <1>7 DEF ActReject, TypeOK

LEMMA RetryBriefType ==
  ASSUME IInv, NEW r \in Requests, NEW j \in Jobs, RetryBrief(r, j)
  PROVE  TypeOK'
<1>1. TypeOK /\ j \in Tasks
  BY DEF IInv, Tasks
<1>2. job' \in [Jobs -> JobHash] /\ task' \in [Tasks -> TaskState]
  BY <1>1, JobSetType, JobNames, TaskIdleType, TaskNames DEF RetryBrief, EnqueueBrief
<1>3. request' \in [Requests -> RequestState] /\ origin' \in [Jobs -> Requests \cup {NoRequest}]
  BY <1>1, RequestNames DEF RetryBrief, TypeOK, RequestState
<1>4. QED
  BY <1>1, <1>2, <1>3 DEF RetryBrief, TypeOK

LEMMA ReadApproveType ==
  ASSUME IInv, NEW r \in Requests, NEW j \in Jobs, NEW k \in {"approve", "schedule"},
         ReadApprove(r, j, k)
  PROVE  TypeOK'
<1> DEFINE h == IF job[j].hook # NoHook THEN job[j].hook ELSE script[j].selected
<1>1. TypeOK
  BY DEF IInv
<1>2. job[j].hook \in Hooks \cup {NoHook} /\ script[j].selected \in Hooks
  BY <1>1 DEF TypeOK, JobHash, ScriptRow
<1>3. h \in Hooks
  BY <1>2
<1>4. [pc |-> "approveRead", kind |-> k, job |-> j, route |-> "none", retry |-> FALSE,
       hooks |-> 0, hook |-> h] \in RequestState
  <2> HIDE DEF h
  <2>1. QED
    BY <1>3, RequestNames DEF RequestState
<1>5. request' \in [Requests -> RequestState]
  BY <1>1, <1>4 DEF ReadApprove, TypeOK
<1>6. QED
  BY <1>1, <1>5 DEF ReadApprove, TypeOK

LEMMA EnqueueApproveType ==
  ASSUME IInv, NEW r \in Requests, EnqueueApprove(r)
  PROVE  TypeOK'
<1>1. TypeOK /\ r \in Tasks
  BY DEF IInv, Tasks
<1>2. task' \in [Tasks -> TaskState]
  BY <1>1, TaskIdleType, TaskNames DEF EnqueueApprove
<1>3. request' \in [Requests -> RequestState]
  BY <1>1, RequestNames DEF EnqueueApprove, TypeOK, RequestState
<1>4. QED
  BY <1>1, <1>2, <1>3 DEF EnqueueApprove, TypeOK

LEMMA StartRunType ==
  ASSUME IInv, NEW j \in Jobs, StartRun(j)
  PROVE  TypeOK'
<1> DEFINE mem == [thread[j] EXCEPT !.next = "writer", !.iteration = 0]
<1>1. TypeOK /\ j \in Tasks
  BY DEF IInv, Tasks
<1>2. mem \in Checkpoints
  BY <1>1, StartsOver DEF TypeOK
<1>3. job' \in [Jobs -> JobHash]
  BY <1>1, JobSetType, JobNames DEF StartRun
<1>4. task' \in [Tasks -> TaskState]
  BY <1>1, <1>2, TaskSetType, TaskNames DEF StartRun
<1>5. thread' \in [Jobs -> Checkpoints]
  BY <1>1, <1>2 DEF StartRun, TypeOK
<1>6. context' \in [Jobs -> SUBSET Requests]
  BY <1>1 DEF StartRun, TasteRead, TypeOK
<1>7. QED
  BY <1>1, <1>3, <1>4, <1>5, <1>6 DEF StartRun, TypeOK

LEMMA ResumeType ==
  ASSUME IInv, NEW r \in Requests, Resume(r)
  PROVE  TypeOK'
<1>1. TypeOK /\ r \in Tasks
  BY DEF IInv, Tasks
<1>2. task[r].pc # "none"
  BY DEF Resume, CheckResume, MarkResume, LoadResume
<1>3. request[r].job \in Jobs /\ JobOf(r) \in Jobs
  BY <1>1, <1>2 DEF IInv, ResumesAreDecisions, Sent, JobOf
<1>4. CASE CheckResume(r)
  <2>1. task' \in [Tasks -> TaskState]
    BY <1>1, <1>4, TaskIdleType, TaskNames DEF CheckResume
  <2>2. QED
    BY <1>1, <1>4, <2>1 DEF CheckResume, TypeOK
<1>5. CASE MarkResume(r)
  <2>1. job' \in [Jobs -> JobHash] /\ task' \in [Tasks -> TaskState]
    BY <1>1, <1>3, <1>5, JobSetType, JobNames, TaskIdleType, TaskNames DEF MarkResume
  <2>2. QED
    BY <1>1, <1>5, <2>1 DEF MarkResume, TypeOK
<1>6. CASE LoadResume(r)
  <2>1. task' \in [Tasks -> TaskState]
    BY <1>1, <1>3, <1>6, LoadType DEF LoadResume
  <2>2. QED
    BY <1>1, <1>6, <2>1 DEF LoadResume, TypeOK
<1>7. QED
  BY <1>4, <1>5, <1>6 DEF Resume

LEMMA WriterType ==
  ASSUME IInv, NEW t \in Tasks, Writer(t)
  PROVE  TypeOK'
<1> DEFINE j == JobOf(t)
           m == task[t].mem
           v == m.version + 1
<1>1. task[t].pc # "none"
  BY DEF Writer, At
<1>2. TypeOK /\ j \in Jobs /\ m \in Checkpoints
  BY <1>1, TaskKnowsItsJob
<1>3. v \in Nat
  BY <1>2 DEF Checkpoints
<1>4. script' \in [Jobs -> ScriptRow]
  BY <1>2, <1>3, ScriptSetType, ScriptNames, BriefAssumption DEF Writer
<1>5. job' \in [Jobs -> JobHash]
  BY <1>2, JobHasScriptType, JobNames DEF Writer
<1>6. [m EXCEPT !.next = "critics", !.iteration = @ + 1, !.version = v] \in Checkpoints
  BY <1>2, <1>3, Writes
<1>7. Advance(t, "driving", [m EXCEPT !.next = "critics", !.iteration = @ + 1, !.version = v])
  BY DEF Writer
<1>8. task' \in [Tasks -> TaskState] /\ thread' \in [Jobs -> Checkpoints]
  BY <1>2, <1>6, <1>7, AdvanceType, TaskNames
<1>9. QED
  BY <1>2, <1>4, <1>5, <1>8 DEF Writer, TypeOK

LEMMA ReviseType ==
  ASSUME IInv, NEW t \in Tasks, Revise(t)
  PROVE  TypeOK'
<1> DEFINE m == task[t].mem
<1>1. task[t].pc # "none"
  BY DEF Revise, At
<1>2. TypeOK /\ JobOf(t) \in Jobs /\ m \in Checkpoints /\ job[JobOf(t)] \in JobHash
  BY <1>1, TaskKnowsItsJob
<1>3. job[JobOf(t)].status \in Statuses
  BY <1>2 DEF JobHash
<1>4. job' \in [Jobs -> JobHash]
  BY <1>2, <1>3, JobSetType, JobNames DEF Revise
<1>5. PICK b \in BestAfter(m) : Advance(t, "driving", [m EXCEPT !.next = "writer", !.best = b])
  BY DEF Revise
<1>6. task' \in [Tasks -> TaskState] /\ thread' \in [Jobs -> Checkpoints]
  BY <1>2, <1>5, Revises, AdvanceType, TaskNames
<1>7. QED
  BY <1>2, <1>4, <1>6 DEF Revise, TypeOK

LEMMA CollectType ==
  ASSUME IInv, NEW t \in Tasks, Collect(t)
  PROVE  TypeOK'
<1> DEFINE m == task[t].mem
<1>1. task[t].pc # "none"
  BY DEF Collect, At
<1>2. TypeOK /\ JobOf(t) \in Jobs /\ m \in Checkpoints
  BY <1>1, TaskKnowsItsJob
<1>3. PICK b \in BestAfter(m), h \in Hooks :
        /\ script' = ScriptSet(JobOf(t), "ready", b, b, h)
        /\ Advance(t, "driving", [m EXCEPT !.next = "asset_gen", !.best = b, !.version = b])
  BY DEF Collect
<1>4. b \in Nat
  BY <1>2, Revises
<1>5. script' \in [Jobs -> ScriptRow]
  BY <1>2, <1>3, <1>4, ScriptSetType, ScriptNames
<1>6. task' \in [Tasks -> TaskState] /\ thread' \in [Jobs -> Checkpoints]
  BY <1>2, <1>3, Revises, AdvanceType, TaskNames
<1>7. job' \in [Jobs -> JobHash]
  BY <1>2, JobHasScriptType, JobNames DEF Collect
<1>8. QED
  BY <1>2, <1>5, <1>6, <1>7 DEF Collect, TypeOK

LEMMA ProduceType ==
  ASSUME IInv, NEW t \in Tasks, Produce(t)
  PROVE  TypeOK'
<1> DEFINE m    == task[t].mem
           next == [asset_gen |-> "render", render |-> "vision_qa", vision_qa |-> "approval"]
           n    == next[m.next]
           v    == IF m.next = "asset_gen" THEN m.best ELSE m.video
<1>1. task[t].pc # "none"
  BY DEF Produce
<1>2. TypeOK /\ JobOf(t) \in Jobs /\ m \in Checkpoints /\ job[JobOf(t)] \in JobHash
  BY <1>1, TaskKnowsItsJob
<1>3. m.next \in {"asset_gen", "render", "vision_qa"}
  BY DEF Produce
<1>4. n \in {"render", "vision_qa", "approval"}
  BY <1>3
<1>5. n \in Nodes /\ n \in Stages /\ v \in Nat /\ job[JobOf(t)].status \in Statuses
  BY <1>2, <1>4, TaskNames, JobNames DEF Checkpoints, JobHash
<1>6. job' = JobSet(JobOf(t), job[JobOf(t)].status, n)
      /\ Advance(t, "driving", [m EXCEPT !.next = n, !.video = v])
  BY DEF Produce
<1> HIDE DEF n, v
<1>7. [m EXCEPT !.next = n, !.video = v] \in Checkpoints
  BY <1>2, <1>5, Produces
<1>8. task' \in [Tasks -> TaskState] /\ thread' \in [Jobs -> Checkpoints]
  BY <1>2, <1>6, <1>7, AdvanceType, TaskNames
<1>9. job' \in [Jobs -> JobHash]
  BY <1>2, <1>5, <1>6, JobSetType
<1>10. QED
  BY <1>2, <1>8, <1>9 DEF Produce, TypeOK

LEMMA InterruptType ==
  ASSUME IInv, NEW t \in Tasks, Interrupt(t)
  PROVE  TypeOK'
<1>1. task[t].pc # "none"
  BY DEF Interrupt, At
<1>2. TypeOK /\ JobOf(t) \in Jobs
  BY <1>1, TaskKnowsItsJob
<1>3. job' \in [Jobs -> JobHash] /\ task' \in [Tasks -> TaskState]
  BY <1>2, JobSetType, JobNames, TaskIdleType, TaskNames DEF Interrupt
<1>4. QED
  BY <1>2, <1>3 DEF Interrupt, TypeOK

LEMMA GetPendingType ==
  ASSUME IInv, NEW t \in Tasks, GetPending(t)
  PROVE  TypeOK'
<1> DEFINE d == pending[JobOf(t)]
<1>1. task[t].pc # "none"
  BY DEF GetPending
<1>2. TypeOK /\ JobOf(t) \in Jobs
  BY <1>1, TaskKnowsItsJob
<1>3. d \in Requests \cup {NoRequest}
  BY <1>2 DEF TypeOK
<1>4. task' \in [Tasks -> TaskState]
  <2>1. CASE d = NoRequest
    BY <1>2, <1>3, <2>1, TaskSetType, EmptyType, TaskNames DEF GetPending
  <2>2. CASE d # NoRequest
    BY <1>2, <1>3, <2>2, TaskSetType, EmptyType, TaskNames DEF GetPending
  <2>3. QED
    BY <2>1, <2>2
<1>5. QED
  BY <1>2, <1>4 DEF GetPending, TypeOK

LEMMA DeletePendingType ==
  ASSUME IInv, NEW t \in Tasks, DeletePending(t)
  PROVE  TypeOK'
<1>1. task[t].pc # "none"
  BY DEF DeletePending
<1>2. TypeOK /\ JobOf(t) \in Jobs /\ task[t].arg \in Requests \cup {NoRequest}
  BY <1>1, TaskKnowsItsJob
<1>3. task' \in [Tasks -> TaskState]
  BY <1>2, LoadType DEF DeletePending
<1>4. pending' \in [Jobs -> Requests \cup {NoRequest}]
  BY <1>2 DEF DeletePending, TypeOK
<1>5. QED
  BY <1>2, <1>3, <1>4 DEF DeletePending, TypeOK

LEMMA DecideType ==
  ASSUME IInv, NEW t \in Tasks, Decide(t)
  PROVE  TypeOK'
<1> DEFINE d == task[t].arg
<1>1. task[t].pc # "none"
  BY DEF Decide, At
<1>2. TypeOK /\ JobOf(t) \in Jobs /\ task[t].mem \in Checkpoints /\ d \in Requests
  BY <1>1, TaskKnowsItsJob DEF Decide
<1>3. taste' \in [Requests -> Nat] /\ newer' \in [Requests -> Nat]
  BY <1>2, LeaveTasteType DEF Decide
<1>4. script' \in [Jobs -> ScriptRow]
  BY <1>2, StatusSetType, ScriptNames DEF Decide, TypeOK
<1>5. task' \in [Tasks -> TaskState]
  BY <1>2, Takes, TaskSetType, TaskNames DEF Decide
<1>6. QED
  BY <1>2, <1>3, <1>4, <1>5 DEF Decide, TypeOK

LEMMA DecidedType ==
  ASSUME IInv, NEW t \in Tasks, Decided(t)
  PROVE  TypeOK'
<1> DEFINE m == task[t].mem
<1>1. task[t].pc # "none"
  BY DEF Decided
<1>2. TypeOK /\ JobOf(t) \in Jobs /\ m \in Checkpoints
  BY <1>1, TaskKnowsItsJob
<1>3. job' \in [Jobs -> JobHash]
  BY <1>2 DEF Decided, TypeOK
<1>4. task' \in [Tasks -> TaskState] /\ thread' \in [Jobs -> Checkpoints]
  <2>1. CASE End(t)
    BY <1>2, <2>1, EndType
  <2>2. CASE Advance(t, "driving", [m EXCEPT !.next = "publish"])
    BY <1>2, <2>2, GoesTo, AdvanceType, TaskNames
  <2>3. QED
    BY <2>1, <2>2 DEF Decided
<1>5. QED
  BY <1>2, <1>3, <1>4 DEF Decided, TypeOK

LEMMA PublishType ==
  ASSUME IInv, NEW t \in Tasks, Publish(t)
  PROVE  TypeOK'
<1> DEFINE d   == request[task[t].mem.decision]
           row == script[JobOf(t)]
           s   == IF d.kind = "schedule" THEN "scheduled" ELSE "approved"
<1>1. task[t].pc # "none" /\ Active(t)
  BY DEF Publish, At, Active
<1>2. TypeOK /\ JobOf(t) \in Jobs /\ task[t].mem \in Checkpoints
      /\ task[t].arg \in Requests \cup {NoRequest}
  BY <1>1, TaskKnowsItsJob
<1>3. task[t].mem.decision \in Requests
  BY <1>1 DEF IInv, TasksHoldDecisions, TaskHolds, Holds, Sent, Publish, At
<1>4. row.hooks \in Nat /\ row.body \in Nat /\ d.hook \in Hooks
  BY <1>2, <1>3 DEF TypeOK, ScriptRow, RequestState
<1>5. s \in ScriptStatuses
  BY ScriptNames
<1>6. script' = ScriptSet(JobOf(t), s, row.hooks, row.body, d.hook)
  BY DEF Publish
<1> HIDE DEF s, d, row
<1>7. script' \in [Jobs -> ScriptRow]
  BY <1>2, <1>4, <1>5, <1>6, ScriptSetType
<1>8. task' \in [Tasks -> TaskState]
  BY <1>2, TaskSetType, TaskNames DEF Publish
<1>9. QED
  BY <1>2, <1>7, <1>8 DEF Publish, TypeOK

LEMMA PublishedType ==
  ASSUME IInv, NEW t \in Tasks, Published(t)
  PROVE  TypeOK'
<1>1. task[t].pc # "none"
  BY DEF Published
<1>2. TypeOK /\ JobOf(t) \in Jobs
  BY <1>1, TaskKnowsItsJob
<1>3. task' \in [Tasks -> TaskState] /\ thread' \in [Jobs -> Checkpoints]
  BY <1>2, EndType DEF Published
<1>4. QED
  BY <1>2, <1>3 DEF Published, TypeOK

LEMMA SettleType ==
  ASSUME IInv, NEW t \in Tasks, Settle(t)
  PROVE  TypeOK'
<1> DEFINE final == [reject |-> "rejected", approve |-> "published", schedule |-> "scheduled"]
           kind  == request[task[t].mem.decision].kind
<1>1. task[t].pc # "none" /\ kind \in {"reject", "approve", "schedule"}
  BY DEF Settle
<1>2. TypeOK /\ JobOf(t) \in Jobs
  BY <1>1, TaskKnowsItsJob
<1>3. final[kind] \in Stages
  BY <1>1, JobNames
<1>4. job' = JobSet(JobOf(t), "done", final[kind])
  BY DEF Settle
<1> HIDE DEF final, kind
<1>5. job' \in [Jobs -> JobHash]
  BY <1>2, <1>3, <1>4, JobSetType, JobNames
<1>6. task' \in [Tasks -> TaskState]
  BY <1>2, TaskIdleType, TaskNames DEF Settle
<1>7. QED
  BY <1>2, <1>5, <1>6 DEF Settle, TypeOK

LEMMA NodeFailsType ==
  ASSUME IInv, NEW t \in Tasks, NodeFails(t)
  PROVE  TypeOK'
<1>1. task[t].pc # "none"
  BY DEF NodeFails
<1>2. TypeOK /\ JobOf(t) \in Jobs /\ job[JobOf(t)] \in JobHash
  BY <1>1, TaskKnowsItsJob
<1>3. job[JobOf(t)].stage \in Stages
  BY <1>2 DEF JobHash
<1>4. job' \in [Jobs -> JobHash] /\ task' \in [Tasks -> TaskState]
  BY <1>2, <1>3, JobSetType, JobNames, TaskIdleType, TaskNames DEF NodeFails
<1>5. faults' \in [crashes: Nat, failures: Nat, timeouts: Nat]
  BY <1>2, FaultType DEF NodeFails
<1>6. QED
  BY <1>2, <1>4, <1>5 DEF NodeFails, TypeOK

LEMMA TimesOutType ==
  ASSUME IInv, NEW t \in Tasks, TimesOut(t)
  PROVE  TypeOK'
<1>1. TypeOK
  BY DEF IInv
<1>2. task' \in [Tasks -> TaskState]
  BY <1>1, TaskIdleType, TaskNames DEF TimesOut
<1>3. faults' \in [crashes: Nat, failures: Nat, timeouts: Nat]
  BY <1>1, FaultType DEF TimesOut
<1>4. QED
  BY <1>1, <1>2, <1>3 DEF TimesOut, TypeOK

LEMMA CrashType ==
  ASSUME IInv, Crash
  PROVE  TypeOK'
<1>1. TypeOK
  BY DEF IInv
<1>2. [pc |-> "queued", arg |-> NoRequest, mem |-> Empty] \in TaskState
  BY EmptyType, TaskNames DEF TaskState
<1>3. task' \in [Tasks -> TaskState]
  BY <1>1, <1>2 DEF Crash, TypeOK
<1>4. faults' \in [crashes: Nat, failures: Nat, timeouts: Nat]
  BY <1>1, FaultType DEF Crash
<1>5. QED
  BY <1>1, <1>3, <1>4 DEF Crash, TypeOK

-----------------------------------------------------------------------------
(* Which actions touch what *)

LEMMA WhoChangesRequest ==
  Next => UNCHANGED request \/ \E r \in Requests : Handler(r)
BY DEF Next, Resume, Work, CreateBrief, StartRun, CheckResume, MarkResume, LoadResume,
       Writer, Revise, Collect, Produce, Interrupt, GetPending, DeletePending, Decide, Decided,
       Publish, Published, Settle, NodeFails, TimesOut, Crash

LEMMA WhoChangesPending ==
  Next => \/ UNCHANGED pending
          \/ \E r \in Requests : ActReject(r)
          \/ \E t \in Tasks : DeletePending(t)
BY DEF Next, Handler, Resume, Work, CreateBrief, ReadHooks, SaveHooks, RecordHook, ReadReject,
       RetryBrief, ReadApprove, EnqueueApprove, StartRun, CheckResume, MarkResume, LoadResume,
       Writer, Revise, Collect, Produce, Interrupt, GetPending, Decide, Decided,
       Publish, Published, Settle, NodeFails, TimesOut, Crash

LEMMA WhoChangesThread ==
  Next => \/ UNCHANGED thread
          \/ \E j \in Jobs : StartRun(j)
          \/ \E t \in Tasks : Writer(t) \/ Revise(t) \/ Collect(t) \/ Produce(t)
                              \/ Decided(t) \/ Published(t)
BY DEF Next, Handler, Resume, Work, CreateBrief, ReadHooks, SaveHooks, RecordHook, ReadReject,
       ActReject, RetryBrief, ReadApprove, EnqueueApprove, CheckResume, MarkResume, LoadResume,
       Interrupt, GetPending, DeletePending, Decide, Publish, Settle, NodeFails, TimesOut, Crash

LEMMA WhoChangesScript ==
  Next => \/ UNCHANGED script
          \/ \E r \in Requests : SaveHooks(r) \/ ActReject(r)
          \/ \E t \in Tasks : Writer(t) \/ Collect(t) \/ Decide(t) \/ Publish(t)
BY DEF Next, Handler, Resume, Work, CreateBrief, ReadHooks, RecordHook, ReadReject,
       RetryBrief, ReadApprove, EnqueueApprove, StartRun, CheckResume, MarkResume, LoadResume,
       Revise, Produce, Interrupt, GetPending, DeletePending, Decided,
       Published, Settle, NodeFails, TimesOut, Crash

-----------------------------------------------------------------------------
(* What was sent stays sent *)

LEMMA HandlerKeepsDecisions ==
  ASSUME IInv, NEW r \in Requests, Handler(r), NEW d, NEW j, Sent(request, d, j)
  PROVE  Sent(request', d, j) /\ request'[d].kind = request[d].kind
<1>1. TypeOK
  BY DEF IInv
<1>2. request[d].pc # "idle"
  BY DEF IInv, HandlersKnowTheirRequest, Sent, DecisionKinds
<1>3. CASE d # r
  BY <1>1, <1>3 DEF TypeOK, Sent, Handler, ReadHooks, SaveHooks, RecordHook, ReadReject,
       ActReject, RetryBrief, ReadApprove, EnqueueApprove
<1>4. CASE d = r
  <2>1. request[r].pc \notin {"hookRead", "hookSaved"} \/ request[r].kind = "reject" \/ request[r].pc = "done"
    BY <1>4 DEF Sent
  <2>2. QED
    BY <1>1, <1>2, <1>4, <2>1 DEF TypeOK, RequestState, Sent, Handler, ReadHooks, SaveHooks, RecordHook,
       ReadReject, ActReject, RetryBrief, ReadApprove, EnqueueApprove
<1>5. QED
  BY <1>3, <1>4

LEMMA SentStays ==
  ASSUME IInv, Next, NEW d, NEW j, Sent(request, d, j)
  PROVE  Sent(request', d, j) /\ request'[d].kind = request[d].kind
<1>1. CASE UNCHANGED request
  BY <1>1
<1>2. CASE \E r \in Requests : Handler(r)
  BY <1>2, HandlerKeepsDecisions
<1>3. QED
  BY <1>1, <1>2, WhoChangesRequest

LEMMA HoldsStays ==
  ASSUME IInv, Next, NEW c, NEW j, Holds(request, c, j)
  PROVE  Holds(request', c, j)
BY SentStays DEF Holds

LEMMA TaskHoldsStays ==
  ASSUME IInv, Next, NEW ts, NEW j, TaskHolds(request, ts, j)
  PROVE  TaskHolds(request', ts, j)
BY SentStays, HoldsStays DEF TaskHolds

\* A task keeps its job from the moment it is enqueued.
LEMMA JobStays ==
  ASSUME IInv, Next, NEW t \in Tasks, task[t].pc # "none"
  PROVE  JobOf(t)' = JobOf(t)
<1>1. CASE t \in Jobs
  BY <1>1 DEF JobOf
<1>2. CASE t \notin Jobs
  <2>1. t \in Requests
    BY <1>2 DEF Tasks
  <2>2. Sent(request, t, request[t].job)
    BY <2>1 DEF IInv, ResumesAreDecisions
  <2>3. Sent(request', t, request[t].job)
    BY <2>2, SentStays
  <2>4. QED
    BY <1>2, <2>3 DEF JobOf, Sent
<1>3. QED
  BY <1>1, <1>2

-----------------------------------------------------------------------------
(* The handlers *)

LEMMA HandlersStep ==
  ASSUME IInv, Next
  PROVE  HandlersKnowTheirRequest'
<1>1. CASE UNCHANGED request
  BY <1>1 DEF IInv, HandlersKnowTheirRequest
<1>2. CASE \E r \in Requests : Handler(r)
  <2>1. TypeOK
    BY DEF IInv
  <2>2. PICK r \in Requests : Handler(r)
    BY <1>2
  <2>3. \A q \in Requests \ {r} : request'[q] = request[q]
    BY <2>1, <2>2 DEF TypeOK, Handler, ReadHooks, SaveHooks, RecordHook, ReadReject,
         ActReject, RetryBrief, ReadApprove, EnqueueApprove
  <2>4. request[r] \in RequestState
    BY <2>1 DEF TypeOK
  <2>5. CASE \/ \E j \in Jobs, h \in Hooks : ReadHooks(r, j, h)
             \/ \E j \in Jobs, retry \in BOOLEAN : ReadReject(r, j, retry)
             \/ \E j \in Jobs, k \in {"approve", "schedule"} : ReadApprove(r, j, k)
    <3>1. /\ request'[r].job \in Jobs
          /\ request'[r].pc # "idle"
          /\ request'[r].pc = "rejectRead" => request'[r].kind = "reject"
          /\ request'[r].pc = "approveRead" => request'[r].kind \in {"approve", "schedule"}
      BY <2>1, <2>5 DEF TypeOK, ReadHooks, ReadReject, ReadApprove
    <3>2. QED
      BY <2>3, <3>1 DEF IInv, HandlersKnowTheirRequest
  <2>6. CASE \/ SaveHooks(r) \/ RecordHook(r) \/ ActReject(r) \/ EnqueueApprove(r)
             \/ \E j \in Jobs : RetryBrief(r, j)
    <3>1. /\ request[r].pc # "idle" /\ request'[r].job = request[r].job
          /\ request'[r].pc \in {"hookSaved", "rejectActed", "done"}
      BY <2>1, <2>4, <2>6 DEF TypeOK, RequestState, SaveHooks, RecordHook, ActReject,
           RetryBrief, EnqueueApprove
    <3>2. QED
      BY <2>3, <3>1 DEF IInv, HandlersKnowTheirRequest
  <2>7. QED
    BY <2>2, <2>5, <2>6 DEF Handler
<1>3. QED
  BY <1>1, <1>2, WhoChangesRequest

LEMMA PendingStep ==
  ASSUME IInv, Next
  PROVE  PendingIsDecision'
<1>1. TypeOK
  BY DEF IInv
<1>2. SUFFICES ASSUME NEW j \in Jobs, pending'[j] # NoRequest
               PROVE  Sent(request', pending'[j], j)
  BY DEF PendingIsDecision
<1>3. CASE pending'[j] = pending[j]
  BY <1>2, <1>3, SentStays DEF IInv, PendingIsDecision
<1>4. CASE pending'[j] # pending[j]
  <2>1. PICK r \in Requests : ActReject(r)
    <3>1. ASSUME NEW t \in Tasks, DeletePending(t)
          PROVE  FALSE
      BY <1>1, <1>2, <1>4, <3>1 DEF DeletePending, TypeOK
    <3>2. QED
      BY <1>4, <3>1, WhoChangesPending
  <2>2. pending'[j] = r /\ request[r].job = j /\ request[r].kind = "reject"
    BY <1>1, <1>4, <2>1 DEF ActReject, TypeOK, IInv, HandlersKnowTheirRequest
  <2>3. Sent(request, r, j)
    BY <2>2 DEF Sent, DecisionKinds
  <2>4. QED
    BY <2>2, <2>3, SentStays
<1>5. QED
  BY <1>3, <1>4

-----------------------------------------------------------------------------
(* The tasks and the threads *)

LEMMA EmptyHolds ==
  ASSUME NEW q, NEW j
  PROVE  Holds(q, Empty, j)
BY DEF Holds, Empty

\* An update of one task leaves the others alone.
LEMMA OneTask ==
  ASSUME TypeOK, NEW t \in Tasks, NEW pc, NEW arg, NEW mem
  PROVE  /\ TaskSet(t, pc, arg, mem)[t] = [pc |-> pc, arg |-> arg, mem |-> mem]
         /\ \A u \in Tasks \ {t} : TaskSet(t, pc, arg, mem)[u] = task[u]
BY DEF TypeOK, TaskSet

LEMMA OneTaskIdle ==
  ASSUME TypeOK, NEW t \in Tasks, NEW pc
  PROVE  /\ TaskIdle(t, pc)[t] = [pc |-> pc, arg |-> NoRequest, mem |-> Empty]
         /\ \A u \in Tasks \ {t} : TaskIdle(t, pc)[u] = task[u]
BY OneTask DEF TaskIdle

LEMMA StepOfOneTask ==
  ASSUME TypeOK, NEW t \in Tasks, Work(t) \/ NodeFails(t) \/ TimesOut(t)
  PROVE  /\ task[t].pc # "none"
         /\ \A u \in Tasks \ {t} : task'[u] = task[u]
<1>1. task[t].pc # "none"
  BY DEF Work, Writer, Revise, Collect, Produce, Interrupt, GetPending, DeletePending, Decide,
         Decided, Publish, Published, Settle, NodeFails, TimesOut, At, Active
<1>2. DOMAIN task = Tasks
  BY DEF TypeOK
<1>3. CASE Writer(t)
  BY <1>2, <1>1, <1>3 DEF Writer, Advance, TaskSet, TaskIdle
<1>4. CASE Revise(t)
  BY <1>2, <1>1, <1>4 DEF Revise, Advance, TaskSet, TaskIdle
<1>5. CASE Collect(t)
  BY <1>2, <1>1, <1>5 DEF Collect, Advance, TaskSet, TaskIdle
<1>6. CASE Produce(t)
  BY <1>2, <1>1, <1>6 DEF Produce, Advance, TaskSet, TaskIdle
<1>7. CASE Interrupt(t)
  BY <1>2, <1>1, <1>7 DEF Interrupt, TaskSet, TaskIdle
<1>8. CASE GetPending(t)
  BY <1>2, <1>1, <1>8 DEF GetPending, TaskSet, TaskIdle
<1>9. CASE DeletePending(t)
  BY <1>2, <1>1, <1>9 DEF DeletePending, Load, TaskSet, TaskIdle
<1>10. CASE Decide(t)
  BY <1>2, <1>1, <1>10 DEF Decide, TaskSet, TaskIdle
<1>11. CASE Decided(t)
  BY <1>2, <1>1, <1>11 DEF Decided, Advance, End, TaskSet, TaskIdle
<1>12. CASE Publish(t)
  BY <1>2, <1>1, <1>12 DEF Publish, TaskSet, TaskIdle
<1>13. CASE Published(t)
  BY <1>2, <1>1, <1>13 DEF Published, End, TaskSet
<1>17. CASE Settle(t)
  BY <1>2, <1>1, <1>17 DEF Settle, TaskSet, TaskIdle
<1>14. CASE NodeFails(t)
  BY <1>2, <1>1, <1>14 DEF NodeFails, TaskSet, TaskIdle
<1>15. CASE TimesOut(t)
  BY <1>2, <1>1, <1>15 DEF TimesOut, TaskSet, TaskIdle
<1>16. QED
  BY <1>1, <1>2, <1>3, <1>4, <1>5, <1>6, <1>7, <1>8, <1>9, <1>10, <1>11, <1>12, <1>13, <1>14, <1>15, <1>17 DEF Work

LEMMA StepOfOneResume ==
  ASSUME TypeOK, NEW r \in Requests, Resume(r)
  PROVE  /\ task[r].pc # "none"
         /\ \A u \in Tasks \ {r} : task'[u] = task[u]
<1>1. task[r].pc # "none"
  BY DEF Resume, CheckResume, MarkResume, LoadResume
<1>2. DOMAIN task = Tasks /\ r \in Tasks
  BY DEF TypeOK, Tasks
<1>3. CASE CheckResume(r)
  BY <1>1, <1>2, <1>3 DEF CheckResume, TaskSet, TaskIdle
<1>4. CASE MarkResume(r)
  BY <1>1, <1>2, <1>4 DEF MarkResume, TaskSet, TaskIdle
<1>5. CASE LoadResume(r)
  BY <1>1, <1>2, <1>5 DEF LoadResume, Load, TaskSet, TaskIdle
<1>6. QED
  BY <1>3, <1>4, <1>5 DEF Resume

LEMMA StepOfOneBrief ==
  ASSUME TypeOK, NEW j \in Jobs,
         CreateBrief(j) \/ StartRun(j) \/ \E r \in Requests : RetryBrief(r, j)
  PROVE  \A u \in Tasks \ {j} : task'[u] = task[u]
<1>1. DOMAIN task = Tasks /\ j \in Tasks
  BY DEF TypeOK, Tasks
<1>2. CASE CreateBrief(j) \/ \E r \in Requests : RetryBrief(r, j)
  BY <1>1, <1>2 DEF CreateBrief, EnqueueBrief, RetryBrief, TaskSet, TaskIdle
<1>3. CASE StartRun(j)
  BY <1>1, <1>3 DEF StartRun, TaskSet
<1>4. QED
  BY <1>2, <1>3

LEMMA StepOfOneHandler ==
  ASSUME TypeOK, NEW r \in Requests, Handler(r)
  PROVE  \/ /\ \E j \in Jobs : RetryBrief(r, j)
         \/ task' = task
         \/ /\ ActReject(r) \/ EnqueueApprove(r)
            /\ task'[r] = [pc |-> "queued", arg |-> NoRequest, mem |-> Empty]
            /\ \A u \in Tasks \ {r} : task'[u] = task[u]
<1>1. r \in Tasks
  BY DEF Tasks
<1>2. CASE ActReject(r) \/ EnqueueApprove(r)
  BY <1>1, <1>2, OneTaskIdle DEF ActReject, EnqueueApprove
<1>3. QED
  BY <1>2 DEF Handler, ReadHooks, SaveHooks, RecordHook, ReadReject, ReadApprove

LEMMA ResumesStep ==
  ASSUME IInv, Next
  PROVE  ResumesAreDecisions'
<1>1. TypeOK
  BY DEF IInv
<1>2. SUFFICES ASSUME NEW r \in Requests, task'[r].pc # "none"
               PROVE  Sent(request', r, request'[r].job)
  BY DEF ResumesAreDecisions
<1>3. r \in Tasks /\ r \notin Jobs
  BY BriefAssumption DEF Tasks
<1>4. CASE task[r].pc # "none"
  <2>1. Sent(request, r, request[r].job)
    BY <1>4 DEF IInv, ResumesAreDecisions
  <2>2. QED
    BY <2>1, SentStays DEF Sent
<1>5. CASE task[r].pc = "none"
  <2>1. ActReject(r) \/ EnqueueApprove(r)
    <3>1. task'[r] # task[r]
      BY <1>2, <1>5
    <3>2. ~ \E j \in Jobs : CreateBrief(j) \/ StartRun(j)
      BY <1>1, <1>3, <3>1, StepOfOneBrief
    <3>3. ASSUME NEW q \in Requests, Handler(q)
          PROVE  ActReject(r) \/ EnqueueApprove(r)
      BY <1>1, <1>3, <3>1, <3>3, StepOfOneHandler, StepOfOneBrief
    <3>4. ~ \E q \in Requests : Resume(q)
      BY <1>1, <1>3, <1>5, <3>1, StepOfOneResume
    <3>5. ~ \E t \in Tasks : Work(t) \/ NodeFails(t) \/ TimesOut(t)
      BY <1>1, <1>3, <1>5, <3>1, StepOfOneTask
    <3>6. ~ Crash
      BY <1>3, <1>5, <3>1 DEF Crash, Active
    <3>7. QED
      BY <3>2, <3>3, <3>4, <3>5, <3>6 DEF Next
  <2>2. CASE ActReject(r)
    <3>1. request[r].pc = "rejectRead"
      BY <2>2 DEF ActReject
    <3>2. Sent(request, r, request[r].job)
      BY <3>1 DEF IInv, HandlersKnowTheirRequest, Sent, DecisionKinds
    <3>3. QED
      BY <3>2, SentStays DEF Sent
  <2>3. CASE EnqueueApprove(r)
    BY <1>1, <2>3 DEF EnqueueApprove, TypeOK, RequestState, IInv, HandlersKnowTheirRequest, Sent, DecisionKinds
  <2>4. QED
    BY <2>1, <2>2, <2>3
<1>6. QED
  BY <1>4, <1>5

\* A task that exists knows its job, and holds decisions on it while it runs.
LEMMA RunningTask ==
  ASSUME IInv, NEW t \in Tasks, Active(t)
  PROVE  /\ JobOf(t) \in Jobs
         /\ TaskHolds(request, task[t], JobOf(t))
         /\ Holds(request, thread[JobOf(t)], JobOf(t))
         /\ task[t].mem \in Checkpoints
         /\ DOMAIN task = Tasks /\ DOMAIN thread = Jobs
<1>1. JobOf(t) \in Jobs
  BY DEF IInv, ResumesAreDecisions, JobOf, Tasks, Active, Sent
<1>2. TaskHolds(request, task[t], JobOf(t)) /\ Holds(request, thread[JobOf(t)], JobOf(t))
  BY <1>1 DEF IInv, TasksHoldDecisions, ThreadsHoldDecisions
<1>3. task[t].mem \in Checkpoints /\ DOMAIN task = Tasks /\ DOMAIN thread = Jobs
  BY DEF IInv, TypeOK, TaskState
<1>4. QED
  BY <1>1, <1>2, <1>3

\* A step of the graph leaves the task and the thread with the decision they had.
LEMMA GraphStepHolds ==
  ASSUME IInv, NEW t \in Tasks, Active(t),
         \/ Writer(t) \/ Revise(t) \/ Collect(t) \/ Produce(t)
         \/ Decided(t) \/ Published(t)
  PROVE  /\ Active(t)' => TaskHolds(request, task'[t], JobOf(t))
         /\ \A j \in Jobs : Holds(request, thread'[j], j)
<1> DEFINE m == task[t].mem
<1> DEFINE n == thread'[JobOf(t)]
<1>1. /\ JobOf(t) \in Jobs
      /\ TaskHolds(request, task[t], JobOf(t))
      /\ m \in Checkpoints
      /\ DOMAIN task = Tasks /\ DOMAIN thread = Jobs
  BY RunningTask
<1>2. \A j \in Jobs \ {JobOf(t)} : Holds(request, thread[j], j)
  BY DEF IInv, ThreadsHoldDecisions
<1>3. CASE Writer(t)
  <2>1. /\ n.decision = m.decision /\ n.next = "critics"
        /\ task'[t].pc = "driving" /\ task'[t].arg = task[t].arg /\ task'[t].mem = n
        /\ \A j \in Jobs \ {JobOf(t)} : thread'[j] = thread[j]
    BY <1>1, <1>3 DEF Writer, Advance, TaskSet, Checkpoints
  <2>2. QED
    BY <1>1, <1>2, <2>1 DEF TaskHolds, Holds
<1>4. CASE Revise(t)
  <2>1. /\ n.decision = m.decision /\ n.next = "writer"
        /\ task'[t].pc = "driving" /\ task'[t].arg = task[t].arg /\ task'[t].mem = n
        /\ \A j \in Jobs \ {JobOf(t)} : thread'[j] = thread[j]
    <3>1. PICK b \in BestAfter(m) :
            Advance(t, "driving", [m EXCEPT !.next = "writer", !.best = b])
      BY <1>4 DEF Revise
    <3>2. task[t].pc = "driving"
      BY <1>4 DEF Revise, At
    <3>3. QED
      BY <1>1, <3>1, <3>2 DEF Advance, TaskSet, Checkpoints
  <2>2. QED
    BY <1>1, <1>2, <2>1 DEF TaskHolds, Holds
<1>5. CASE Collect(t)
  <2>1. /\ n.decision = m.decision /\ n.next = "asset_gen"
        /\ task'[t].pc = "driving" /\ task'[t].arg = task[t].arg /\ task'[t].mem = n
        /\ \A j \in Jobs \ {JobOf(t)} : thread'[j] = thread[j]
    <3>1. PICK b \in BestAfter(m), h \in Hooks :
            Advance(t, "driving", [m EXCEPT !.next = "asset_gen", !.best = b, !.version = b])
      BY <1>5 DEF Collect
    <3>2. task[t].pc = "driving"
      BY <1>5 DEF Collect, At
    <3>3. QED
      BY <1>1, <3>1, <3>2 DEF Advance, TaskSet, Checkpoints
  <2>2. QED
    BY <1>1, <1>2, <2>1 DEF TaskHolds, Holds
<1>6. CASE Produce(t)
  <2>1. /\ n.decision = m.decision /\ n.next \in {"render", "vision_qa", "approval"}
        /\ task'[t].pc = "driving" /\ task'[t].arg = task[t].arg /\ task'[t].mem = n
        /\ \A j \in Jobs \ {JobOf(t)} : thread'[j] = thread[j]
    BY <1>1, <1>6 DEF Produce, Advance, TaskSet, Checkpoints
  <2>2. QED
    BY <1>1, <1>2, <2>1 DEF TaskHolds, Holds
<1>7. CASE Decided(t) /\ request[m.decision].kind # "reject"
  <2>1. /\ n.decision = m.decision /\ task[t].pc = "decided"
        /\ task'[t].pc = "driving" /\ task'[t].arg = task[t].arg /\ task'[t].mem = n
        /\ \A j \in Jobs \ {JobOf(t)} : thread'[j] = thread[j]
    BY <1>1, <1>7 DEF Decided, Advance, TaskSet, Checkpoints
  <2>2. QED
    BY <1>1, <1>2, <1>7, <2>1 DEF TaskHolds, Holds
<1>8. CASE (Decided(t) /\ request[m.decision].kind = "reject") \/ Published(t)
  <2>1. /\ n.decision = m.decision /\ n.next = "end"
        /\ task'[t].pc = "ended" /\ task'[t].arg = task[t].arg /\ task'[t].mem = m
        /\ \A j \in Jobs \ {JobOf(t)} : thread'[j] = thread[j]
    BY <1>1, <1>8 DEF Decided, Published, End, TaskSet, Checkpoints
  <2>2. m.decision # NoRequest
    BY <1>1, <1>8 DEF Decided, Published, TaskHolds, Holds
  <2>3. QED
    BY <1>1, <1>2, <2>1, <2>2 DEF TaskHolds, Holds
<1>9. QED
  BY <1>3, <1>4, <1>5, <1>6, <1>7, <1>8

\* What _drive loads when it resumes the thread with decision d.
LEMMA LoadHolds ==
  ASSUME IInv, NEW t \in Tasks, Active(t), NEW d,
         d # NoRequest => Sent(request, d, JobOf(t)), Load(t, d)
  PROVE  Active(t)' => TaskHolds(request, task'[t], JobOf(t))
<1> DEFINE c == thread[JobOf(t)]
<1>1. Holds(request, c, JobOf(t)) /\ DOMAIN task = Tasks
  BY RunningTask
<1>2. \/ task'[t].pc = "finished"
      \/ task'[t].pc = "driving" /\ task'[t].arg \in {d, NoRequest} /\ task'[t].mem = c
  BY <1>1 DEF Load, TaskIdle, TaskSet
<1>3. QED
  BY <1>1, <1>2 DEF TaskHolds, Active

\* The other steps of a task.
LEMMA DecisionStepHolds ==
  ASSUME IInv, NEW t \in Tasks, Active(t),
         Interrupt(t) \/ GetPending(t) \/ DeletePending(t) \/ Decide(t) \/ Publish(t) \/ Settle(t)
  PROVE  Active(t)' => TaskHolds(request, task'[t], JobOf(t))
<1> DEFINE m == task[t].mem
<1>1. /\ JobOf(t) \in Jobs
      /\ TaskHolds(request, task[t], JobOf(t))
      /\ m \in Checkpoints
      /\ DOMAIN task = Tasks
  BY RunningTask
<1>2. Holds(request, Empty, JobOf(t))
  BY EmptyHolds
<1>3. CASE Interrupt(t)
  <2>1. task'[t].pc = "parked" /\ task'[t].arg = NoRequest /\ task'[t].mem = Empty
    BY <1>1, <1>3 DEF Interrupt, TaskIdle, TaskSet
  <2>2. QED
    BY <1>2, <2>1 DEF TaskHolds
<1>4. CASE GetPending(t)
  <2>1. /\ task'[t].pc \in {"finished", "popped"}
        /\ task'[t].arg = pending[JobOf(t)] /\ task'[t].mem = Empty
    BY <1>1, <1>4 DEF GetPending, TaskSet
  <2>2. QED
    BY <1>1, <1>2, <2>1 DEF TaskHolds, IInv, PendingIsDecision
<1>5. CASE DeletePending(t)
  <2>1. Load(t, task[t].arg)
    BY <1>5 DEF DeletePending
  <2>2. task[t].arg # NoRequest => Sent(request, task[t].arg, JobOf(t))
    BY <1>1 DEF TaskHolds
  <2>3. QED
    BY <2>1, <2>2, LoadHolds
<1>6. CASE Decide(t)
  <2>1. /\ task'[t].pc = "decided" /\ task'[t].arg = task[t].arg /\ task[t].arg # NoRequest
        /\ task'[t].mem.decision = task[t].arg /\ task'[t].mem.next = "approval"
    BY <1>1, <1>6 DEF Decide, At, TaskSet, Checkpoints
  <2>2. QED
    BY <1>1, <2>1 DEF TaskHolds, Holds
<1>7. CASE Publish(t)
  <2>1. /\ task'[t].pc = "published" /\ task'[t].arg = task[t].arg
        /\ task'[t].mem = m /\ m.next = "publish"
    BY <1>1, <1>7 DEF Publish, At, TaskSet
  <2>2. QED
    BY <1>1, <2>1 DEF TaskHolds
<1>8. CASE Settle(t)
  BY <1>1, <1>8 DEF Settle, TaskIdle, TaskSet, Active
<1>9. QED
  BY <1>3, <1>4, <1>5, <1>6, <1>7, <1>8

LEMMA ThreadsStep ==
  ASSUME IInv, Next
  PROVE  ThreadsHoldDecisions'
<1>1. CASE UNCHANGED thread
  BY <1>1, HoldsStays DEF IInv, ThreadsHoldDecisions
<1>2. ASSUME NEW k \in Jobs, StartRun(k)
      PROVE  ThreadsHoldDecisions'
  <2>1. thread \in [Jobs -> Checkpoints]
    BY DEF IInv, TypeOK
  <2>2. /\ thread'[k].decision = thread[k].decision /\ thread'[k].next = "writer"
        /\ \A j \in Jobs \ {k} : thread'[j] = thread[j]
    BY <1>2, <2>1 DEF StartRun, Checkpoints
  <2>3. \A j \in Jobs : Holds(request, thread'[j], j)
    BY <2>2 DEF IInv, ThreadsHoldDecisions, Holds
  <2>4. QED
    BY <2>3, HoldsStays DEF ThreadsHoldDecisions
<1>3. ASSUME NEW t \in Tasks,
             Writer(t) \/ Revise(t) \/ Collect(t) \/ Produce(t) \/ Decided(t) \/ Published(t)
      PROVE  ThreadsHoldDecisions'
  <2>1. Active(t)
    BY <1>3 DEF Writer, Revise, Collect, Produce, Decided, Published, At, Active
  <2>2. \A j \in Jobs : Holds(request, thread'[j], j)
    BY <1>3, <2>1, GraphStepHolds
  <2>3. QED
    BY <2>2, HoldsStays DEF ThreadsHoldDecisions
<1>4. QED
  BY <1>1, <1>2, <1>3, WhoChangesThread

\* A resume task loads the decision that enqueued it, and no other.
LEMMA ResumeHolds ==
  ASSUME IInv, NEW r \in Requests, Resume(r)
  PROVE  Active(r)' => TaskHolds(request, task'[r], JobOf(r))
<1>1. r \in Tasks /\ r \notin Jobs /\ DOMAIN task = Tasks
  BY BriefAssumption DEF Tasks, IInv, TypeOK
<1>2. task[r].pc # "none"
  BY DEF Resume, CheckResume, MarkResume, LoadResume
<1>3. Sent(request, r, JobOf(r))
  BY <1>1, <1>2 DEF IInv, ResumesAreDecisions, JobOf
<1>4. Holds(request, Empty, JobOf(r))
  BY EmptyHolds
<1>5. CASE CheckResume(r) \/ MarkResume(r)
  <2>1. /\ task'[r].pc \in {"finished", "checked", "marked"}
        /\ task'[r].arg = NoRequest /\ task'[r].mem = Empty
    BY <1>1, <1>5 DEF CheckResume, MarkResume, TaskIdle, TaskSet
  <2>2. QED
    BY <1>4, <2>1 DEF TaskHolds
<1>6. CASE LoadResume(r)
  <2>1. Active(r) /\ Load(r, r)
    BY <1>6 DEF LoadResume, Active
  <2>2. QED
    BY <1>1, <1>3, <2>1, LoadHolds
<1>7. QED
  BY <1>5, <1>6 DEF Resume

\* A fresh run has no decision but what its thread kept.
LEMMA StartHolds ==
  ASSUME IInv, NEW j \in Jobs, StartRun(j)
  PROVE  TaskHolds(request, task'[j], JobOf(j))
<1>1. j \in Tasks /\ JobOf(j) = j /\ DOMAIN task = Tasks /\ thread[j] \in Checkpoints
  BY DEF Tasks, JobOf, IInv, TypeOK
<1>2. Holds(request, thread[j], j)
  BY DEF IInv, ThreadsHoldDecisions
<1>3. /\ task'[j].pc = "driving" /\ task'[j].arg = NoRequest
      /\ task'[j].mem.decision = thread[j].decision /\ task'[j].mem.next = "writer"
  BY <1>1 DEF StartRun, TaskSet, Checkpoints
<1>4. QED
  BY <1>1, <1>2, <1>3 DEF TaskHolds, Holds

\* Whoever changes a task leaves it idle or with decisions on its job.
LEMMA ChangedTaskHolds ==
  ASSUME IInv, Next, NEW u \in Tasks, task'[u] # task[u], Active(u)'
  PROVE  TaskHolds(request, task'[u], JobOf(u))
<1>1. TypeOK /\ DOMAIN task = Tasks
  BY DEF IInv, TypeOK
<1>2. ASSUME NEW j \in Jobs, CreateBrief(j) \/ \E r \in Requests : RetryBrief(r, j)
      PROVE  FALSE
  <2>1. u = j
    BY <1>1, <1>2, StepOfOneBrief
  <2>2. task'[j].pc = "queued"
    BY <1>1, <1>2, <2>1 DEF CreateBrief, RetryBrief, EnqueueBrief, TaskIdle, TaskSet
  <2>3. QED
    BY <2>1, <2>2 DEF Active
<1>3. ASSUME NEW j \in Jobs, StartRun(j)
      PROVE  TaskHolds(request, task'[u], JobOf(u))
  BY <1>1, <1>3, StepOfOneBrief, StartHolds
<1>4. ASSUME NEW r \in Requests, Handler(r)
      PROVE  FALSE
  <2>1. CASE \E j \in Jobs : RetryBrief(r, j)
    BY <1>2, <2>1
  <2>2. CASE \/ task' = task
             \/ /\ task'[r] = [pc |-> "queued", arg |-> NoRequest, mem |-> Empty]
                /\ \A v \in Tasks \ {r} : task'[v] = task[v]
    BY <2>2 DEF Active
  <2>3. QED
    BY <1>1, <1>4, <2>1, <2>2, StepOfOneHandler
<1>5. ASSUME NEW r \in Requests, Resume(r)
      PROVE  TaskHolds(request, task'[u], JobOf(u))
  <2>1. u = r
    BY <1>1, <1>5, StepOfOneResume
  <2>2. QED
    BY <1>5, <2>1, ResumeHolds
<1>6. ASSUME NEW t \in Tasks, Work(t)
      PROVE  TaskHolds(request, task'[u], JobOf(u))
  <2>1. u = t
    BY <1>1, <1>6, StepOfOneTask
  <2>2. Active(t)
    BY <1>6 DEF Work, Writer, Revise, Collect, Produce, Interrupt, GetPending, DeletePending,
         Decide, Decided, Publish, Published, Settle, At, Active
  <2>3. CASE \/ Writer(t) \/ Revise(t) \/ Collect(t) \/ Produce(t) \/ Decided(t) \/ Published(t)
    BY <2>1, <2>2, <2>3, GraphStepHolds
  <2>4. CASE Interrupt(t) \/ GetPending(t) \/ DeletePending(t) \/ Decide(t) \/ Publish(t) \/ Settle(t)
    BY <2>1, <2>2, <2>4, DecisionStepHolds
  <2>5. QED
    BY <1>6, <2>3, <2>4 DEF Work
<1>7. ASSUME NEW t \in Tasks, NodeFails(t) \/ TimesOut(t)
      PROVE  FALSE
  <2>1. u = t
    BY <1>1, <1>7, StepOfOneTask
  <2>2. task'[t].pc = "finished"
    BY <1>1, <1>7 DEF NodeFails, TimesOut, TaskIdle, TaskSet
  <2>3. QED
    BY <2>1, <2>2 DEF Active
<1>8. CASE Crash
  <2>1. task'[u].pc = "queued"
    BY <1>8 DEF Crash
  <2>2. QED
    BY <2>1 DEF Active
<1>9. QED
  BY <1>2, <1>3, <1>4, <1>5, <1>6, <1>7, <1>8 DEF Next

LEMMA TasksStep ==
  ASSUME IInv, Next
  PROVE  TasksHoldDecisions'
<1>1. SUFFICES ASSUME NEW u \in Tasks, Active(u)'
               PROVE  TaskHolds(request', task'[u], JobOf(u)')
  BY DEF TasksHoldDecisions
<1>2. TaskHolds(request, task'[u], JobOf(u))
  <2>1. CASE task'[u] = task[u]
    BY <1>1, <2>1 DEF IInv, TasksHoldDecisions, Active
  <2>2. QED
    BY <1>1, <2>1, ChangedTaskHolds
<1>3. task[u].pc # "none"
  <2>1. CASE task'[u] = task[u]
    BY <1>1, <2>1 DEF Active
  <2>2. CASE task[u].pc = "none" /\ task'[u] # task[u]
    <3>1. TypeOK /\ DOMAIN task = Tasks
      BY DEF IInv, TypeOK
    <3>2. ~ \E t \in Tasks : Work(t) \/ NodeFails(t) \/ TimesOut(t)
      BY <2>2, <3>1, StepOfOneTask
    <3>3. ~ \E r \in Requests : Resume(r)
      BY <2>2, <3>1, StepOfOneResume
    <3>4. ASSUME NEW j \in Jobs, CreateBrief(j) \/ StartRun(j) \/ \E r \in Requests : RetryBrief(r, j)
          PROVE  FALSE
      <4>1. u = j
        BY <2>2, <3>1, <3>4, StepOfOneBrief
      <4>2. CASE StartRun(j)
        BY <2>2, <4>1, <4>2 DEF StartRun
      <4>3. CASE CreateBrief(j) \/ \E r \in Requests : RetryBrief(r, j)
        <5>1. task'[j].pc = "queued"
          BY <3>1, <4>1, <4>3 DEF CreateBrief, RetryBrief, EnqueueBrief, TaskIdle, TaskSet
        <5>2. QED
          BY <1>1, <4>1, <5>1 DEF Active
      <4>4. QED
        BY <3>4, <4>2, <4>3
    <3>5. ASSUME NEW r \in Requests, Handler(r)
          PROVE  FALSE
      <4>1. CASE \/ task' = task
                 \/ /\ task'[r] = [pc |-> "queued", arg |-> NoRequest, mem |-> Empty]
                    /\ \A v \in Tasks \ {r} : task'[v] = task[v]
        BY <1>1, <2>2, <4>1 DEF Active
      <4>2. QED
        BY <3>1, <3>4, <3>5, <4>1, StepOfOneHandler
    <3>6. ~ Crash
      BY <2>2 DEF Crash, Active
    <3>7. QED
      BY <3>2, <3>3, <3>4, <3>5, <3>6 DEF Next
  <2>3. QED
    BY <2>1, <2>2
<1>4. JobOf(u)' = JobOf(u)
  BY <1>3, JobStays
<1>5. QED
  BY <1>2, <1>4, TaskHoldsStays

-----------------------------------------------------------------------------
(* The script rows *)

\* A final script has the decision that asked for it among those that were sent.
LEMMA OwnerSaidSo ==
  ASSUME NEW j \in Jobs, NEW r, Sent(request, r, j),
         \/ script[j].status = "approved" /\ request[r].kind = "approve"
         \/ script[j].status = "scheduled" /\ request[r].kind = "schedule"
  PROVE  \E q \in DecisionsOn(j) :
           /\ request[q].pc = "done"
           /\ request[q].kind = IF script[j].status = "approved" THEN "approve" ELSE "schedule"
BY DEF Sent, DecisionsOn

\* The steps that may give a script a final status: publish, and it gives the
\* status that its decision asks.
LEMMA PublishAsDecided ==
  ASSUME IInv, NEW t \in Tasks, Publish(t), NEW j \in Jobs, script'[j] # script[j]
  PROVE  \E r : /\ Sent(request, r, j)
                /\ \/ script'[j].status = "approved" /\ request[r].kind = "approve"
                   \/ script'[j].status = "scheduled" /\ request[r].kind = "schedule"
<1> DEFINE d == task[t].mem.decision
<1>1. Active(t) /\ task[t].mem.next = "publish"
  BY DEF Publish, At, Active
<1>2. TaskHolds(request, task[t], JobOf(t)) /\ JobOf(t) \in Jobs
  BY <1>1, RunningTask
<1>3. Sent(request, d, JobOf(t)) /\ request[d].kind \in {"approve", "schedule"}
  BY <1>1, <1>2 DEF TaskHolds, Holds, Sent, DecisionKinds
<1>4. DOMAIN script = Jobs
  BY DEF IInv, TypeOK
<1>5. /\ j = JobOf(t)
      /\ script'[j].status = IF request[d].kind = "schedule" THEN "scheduled" ELSE "approved"
  BY <1>2, <1>4 DEF Publish, ScriptSet
<1>6. QED
  BY <1>3, <1>5

\* Any other step leaves a script with the status it had, or one that is not final.
LEMMA OthersDoNotPublish ==
  ASSUME IInv, Next, ~ \E t \in Tasks : Publish(t), NEW j \in Jobs, script'[j].status \in Final
  PROVE  script'[j].status = script[j].status
<1>1. script \in [Jobs -> ScriptRow]
  BY DEF IInv, TypeOK
<1>2. CASE UNCHANGED script
  BY <1>2
<1>3. ASSUME NEW r \in Requests, SaveHooks(r)
      PROVE  script'[j].status = script[j].status
  BY <1>1, <1>3 DEF SaveHooks, ScriptSet
<1>4. ASSUME NEW r \in Requests, ActReject(r)
      PROVE  script'[j].status = script[j].status
  BY <1>1, <1>4 DEF ActReject, StatusSet, ScriptRow, Final
<1>5. ASSUME NEW t \in Tasks, Writer(t)
      PROVE  script'[j].status = script[j].status
  BY <1>1, <1>5 DEF Writer, ScriptSet, Final
<1>6. ASSUME NEW t \in Tasks, Collect(t)
      PROVE  script'[j].status = script[j].status
  <2>1. PICK b \in BestAfter(task[t].mem), h \in Hooks :
          script' = ScriptSet(JobOf(t), "ready", b, b, h)
    BY <1>6 DEF Collect
  <2>2. QED
    BY <1>1, <2>1 DEF ScriptSet, Final
<1>7. ASSUME NEW t \in Tasks, Decide(t)
      PROVE  script'[j].status = script[j].status
  BY <1>1, <1>7 DEF Decide, StatusSet, ScriptRow, Final
<1>8. QED
  BY <1>2, <1>3, <1>4, <1>5, <1>6, <1>7, WhoChangesScript

LEMMA PublishedStep ==
  ASSUME IInv, Next
  PROVE  PublishedByOwner'
<1>1. SUFFICES ASSUME NEW j \in Jobs, script'[j].status \in Final
               PROVE  \E r \in DecisionsOn(j)' :
                        /\ request'[r].pc = "done"
                        /\ request'[r].kind = IF script'[j].status = "approved" THEN "approve" ELSE "schedule"
  BY DEF PublishedByOwner, Final
<1>2. \E r : /\ Sent(request, r, j)
             /\ \/ script'[j].status = "approved" /\ request[r].kind = "approve"
                \/ script'[j].status = "scheduled" /\ request[r].kind = "schedule"
  <2>1. CASE script'[j].status = script[j].status
    BY <1>1, <2>1 DEF IInv, PublishedByOwner, Sent, DecisionsOn, DecisionKinds, Final
  <2>2. CASE script'[j].status # script[j].status
    BY <1>1, <2>2, OthersDoNotPublish, PublishAsDecided
  <2>3. QED
    BY <2>1, <2>2
<1>3. PICK r : /\ Sent(request', r, j)
               /\ \/ script'[j].status = "approved" /\ request'[r].kind = "approve"
                  \/ script'[j].status = "scheduled" /\ request'[r].kind = "schedule"
  BY <1>2, SentStays
<1>4. QED
  BY <1>3 DEF Sent, DecisionsOn

-----------------------------------------------------------------------------
(* The invariant is inductive *)

LEMMA InitIInv == Init => IInv
<1> SUFFICES ASSUME Init
             PROVE  IInv
  OBVIOUS
<1>1. TypeOK
  BY BriefAssumption, JobNames, TaskNames, RequestNames, ScriptNames
     DEF Init, TypeOK, JobHash, Empty, Checkpoints, ScriptRow, TaskState, RequestState
<1>2. HandlersKnowTheirRequest
  BY DEF Init, HandlersKnowTheirRequest
<1>3. ResumesAreDecisions /\ TasksHoldDecisions
  BY DEF Init, ResumesAreDecisions, TasksHoldDecisions, Active, Tasks
<1>4. PendingIsDecision /\ ThreadsHoldDecisions
  BY DEF Init, PendingIsDecision, ThreadsHoldDecisions, Holds, Empty
<1>5. PublishedByOwner
  BY DEF Init, PublishedByOwner, Final
<1>6. QED
  BY <1>1, <1>2, <1>3, <1>4, <1>5 DEF IInv

LEMMA TypeStep ==
  ASSUME IInv, Next
  PROVE  TypeOK'
<1>1. ASSUME NEW j \in Jobs, CreateBrief(j) \/ StartRun(j)
      PROVE  TypeOK'
  BY <1>1, CreateBriefType, StartRunType
<1>2. ASSUME NEW r \in Requests, Handler(r)
      PROVE  TypeOK'
  BY <1>2, ReadHooksType, SaveHooksType, RecordHookType, ReadRejectType, ActRejectType,
     RetryBriefType, ReadApproveType, EnqueueApproveType DEF Handler
<1>3. ASSUME NEW r \in Requests, Resume(r)
      PROVE  TypeOK'
  BY <1>3, ResumeType
<1>4. ASSUME NEW t \in Tasks, Work(t) \/ NodeFails(t) \/ TimesOut(t)
      PROVE  TypeOK'
  BY <1>4, WriterType, ReviseType, CollectType, ProduceType, InterruptType, GetPendingType,
     DeletePendingType, DecideType, DecidedType, PublishType, PublishedType, SettleType, NodeFailsType,
     TimesOutType DEF Work
<1>5. QED
  BY <1>1, <1>2, <1>3, <1>4, CrashType DEF Next

LEMMA NextIInv == IInv /\ [Next]_vars => IInv'
<1> SUFFICES ASSUME IInv, [Next]_vars
             PROVE  IInv'
  OBVIOUS
<1>1. CASE Next
  BY <1>1, TypeStep, HandlersStep, ResumesStep, PendingStep, TasksStep, ThreadsStep,
     PublishedStep DEF IInv
<1>2. CASE UNCHANGED vars
  BY <1>2 DEF vars, IInv, TypeOK, HandlersKnowTheirRequest, ResumesAreDecisions,
       PendingIsDecision, TasksHoldDecisions, ThreadsHoldDecisions, PublishedByOwner,
       Active, JobOf, DecisionsOn
<1>3. QED
  BY <1>1, <1>2

LEMMA Invariance == Spec => []IInv
<1>1. Init => IInv
  BY InitIInv
<1>2. IInv /\ [Next]_vars => IInv'
  BY NextIInv
<1>3. QED
  BY <1>1, <1>2, PTL DEF Spec

-----------------------------------------------------------------------------
(* The properties *)

\* Whatever crashes, fails or is cut off, and however often a task runs, the
\* state of the briefs keeps its types: jobs, scripts, threads, tasks and requests.
THEOREM BriefTypeCorrect == Spec => []TypeOK
<1>1. IInv => TypeOK
  BY DEF IInv
<1>2. QED
  BY <1>1, Invariance, PTL

\* A decision that reaches a graph through a resume task or through the pending
\* key is one that the owner sent on that very job: no interleaving hands a job
\* the decision on another, or one that was never sent.
THEOREM DecisionsReachTheirJob == Spec => [](PendingIsDecision /\ TasksHoldDecisions)
<1>1. IInv => PendingIsDecision /\ TasksHoldDecisions
  BY DEF IInv
<1>2. QED
  BY <1>1, Invariance, PTL

\* Nothing is published that the owner did not approve, in any number of jobs
\* and requests and after any crashes, failures and timeouts.
THEOREM PublishedOnlyByOwner == Spec => []PublishedByOwner
<1>1. IInv => PublishedByOwner
  BY DEF IInv
<1>2. QED
  BY <1>1, Invariance, PTL
=============================================================================
