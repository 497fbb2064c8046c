------------------------------ MODULE BriefJob ------------------------------
(***************************************************************************)
(* The life of a content brief in the Content Engine: the HTTP handlers    *)
(* that create a brief and decide on its script and video (api/routes.py), *)
(* the arq tasks run_brief and resume_brief (worker.py), the LangGraph     *)
(* thread they drive (graphs/day_subgraph.py and its nodes), the Redis job *)
(* hash and pending decision (jobs.py), the script row and the             *)
(* taste_memory rows in Postgres.                                          *)
(*                                                                         *)
(* Every handler and task runs concurrently with the others; a step here   *)
(* is the code between two awaits that another actor can tell apart.       *)
(* arq delivers a task at least once (a task cut off by a crash or a       *)
(* restart of the worker runs again from its beginning) and drops it when  *)
(* it outlives job_timeout.                                                *)
(***************************************************************************)
EXTENDS Naturals, FiniteSets

CONSTANTS
  Jobs,         \* brief jobs; a job id is also its thread id and its arq task id
  Requests,     \* the owner's HTTP requests; also the id of the task one enqueues
  Hooks,        \* indexes of the hook variants of a script (0 is the first)
  MaxIter,      \* critics.MAX_ITER
  MaxJobs,      \* WorkerSettings.max_jobs
  TasteTopK,    \* settings.taste_top_k: how many taste rows a run reads
  MaxFaults,    \* bound: crashes of the worker, nodes that raise and timeouts, in all
  NoRequest, NoHook, NoJob

ASSUME BriefAssumption ==
  /\ Jobs \cap Requests = {}
  /\ 0 \in Hooks
  /\ MaxIter \in Nat \ {0} /\ MaxJobs \in Nat \ {0} /\ TasteTopK \in Nat
  /\ MaxFaults \in Nat
  /\ NoRequest \notin Requests /\ NoHook \notin Hooks /\ NoJob \notin Jobs

VARIABLES
  job,      \* Redis job:{id}: status, stage, hook_idx and whether script_id is set
  pending,  \* Redis job_pending:{id}: the rejection waiting for the interrupt
  thread,   \* the latest checkpoint of the LangGraph thread
  script,   \* the script row: status, version of its hooks and body, selected hook
  taste,    \* taste_memory: how many rows a request's decision has left
  newer,    \* taste_memory: how many rows were left after the request's last one
  context,  \* the decisions whose taste rows load_context found
  task,     \* the arq tasks, with the graph state each holds in memory
  request,  \* the HTTP requests in flight
  origin,   \* the request whose "retry" created the job
  faults    \* faults so far, to bound them

vars == <<job, pending, thread, script, taste, newer, context, task, request, origin, faults>>

Tasks == Jobs \cup Requests

JobOf(t) == IF t \in Jobs THEN t ELSE request[t].job

-----------------------------------------------------------------------------
(* Types *)

Statuses == {"none", "queued", "running", "done", "failed"}
Stages   == {"none", "queued", "writer", "critics", "asset_gen", "render", "vision_qa",
             "approval", "awaiting_approval", "publish", "published", "scheduled", "rejected"}
ScriptStatuses == {"none", "draft", "ready", "rejected", "approved", "scheduled"}
Nodes    == {"none", "writer", "critics", "asset_gen", "render", "vision_qa",
             "approval", "publish", "end"}
TaskPCs  == {"none", "queued", "checked", "marked", "driving", "decided", "published",
             "ended", "parked", "popped", "finished"}
RequestPCs == {"idle", "hookRead", "hookSaved", "rejectRead", "rejectActed",
               "approveRead", "done"}
RequestKinds == {"none", "hook", "reject", "approve", "schedule"}
Routes   == {"none", "resumed", "pending", "recorded"}

\* DayState, as far as the control depends on it: the node to run next, the
\* iteration, the version of the script in hand, the best version, the version
\* the video was made from and the decision that interrupt() returned.
Checkpoints == [next: Nodes, iteration: Nat, version: Nat, best: Nat, video: Nat,
                decision: Requests \cup {NoRequest}]

Empty == [next |-> "none", iteration |-> 0, version |-> 0, best |-> 0, video |-> 0,
          decision |-> NoRequest]

JobHash == [status: Statuses, stage: Stages, hook: Hooks \cup {NoHook}, script: BOOLEAN]
ScriptRow == [status: ScriptStatuses, hooks: Nat, body: Nat, selected: Hooks]
TaskState == [pc: TaskPCs, arg: Requests \cup {NoRequest}, mem: Checkpoints]
RequestState == [pc: RequestPCs, kind: RequestKinds, job: Jobs \cup {NoJob}, hook: Hooks,
                 route: Routes, retry: BOOLEAN, hooks: Nat]

TypeOK ==
  /\ job \in [Jobs -> JobHash]
  /\ pending \in [Jobs -> Requests \cup {NoRequest}]
  /\ thread \in [Jobs -> Checkpoints]
  /\ script \in [Jobs -> ScriptRow]
  /\ taste \in [Requests -> Nat] /\ newer \in [Requests -> Nat]
  /\ context \in [Jobs -> SUBSET Requests]
  /\ task \in [Tasks -> TaskState]
  /\ request \in [Requests -> RequestState]
  /\ origin \in [Jobs -> Requests \cup {NoRequest}]
  /\ faults \in [crashes: Nat, failures: Nat, timeouts: Nat]

Init ==
  /\ job = [j \in Jobs |-> [status |-> "none", stage |-> "none", hook |-> NoHook, script |-> FALSE]]
  /\ pending = [j \in Jobs |-> NoRequest]
  /\ thread = [j \in Jobs |-> Empty]
  /\ script = [j \in Jobs |-> [status |-> "none", hooks |-> 0, body |-> 0, selected |-> 0]]
  /\ taste = [r \in Requests |-> 0] /\ newer = [r \in Requests |-> 0]
  /\ context = [j \in Jobs |-> {}]
  /\ task = [t \in Tasks |-> [pc |-> "none", arg |-> NoRequest, mem |-> Empty]]
  /\ request = [r \in Requests |-> [pc |-> "idle", kind |-> "none", job |-> NoJob, hook |-> 0,
                                    route |-> "none", retry |-> FALSE, hooks |-> 0]]
  /\ origin = [j \in Jobs |-> NoRequest]
  /\ faults = [crashes |-> 0, failures |-> 0, timeouts |-> 0]

-----------------------------------------------------------------------------
(* Updates of one entry *)

\* jobs.update of the status and the stage
JobSet(j, status, stage) ==
  [job EXCEPT ![j] = [@ EXCEPT !.status = status, !.stage = stage]]

\* jobs.update of the stage and script_id, for a node that has a script
JobHasScript(j, stage) ==
  [job EXCEPT ![j] = [@ EXCEPT !.stage = stage, !.script = TRUE]]

ScriptSet(j, status, hooks, body, selected) ==
  [script EXCEPT ![j] = [status |-> status, hooks |-> hooks, body |-> body, selected |-> selected]]

StatusSet(j, status) == [script EXCEPT ![j].status = status]

TaskSet(t, pc, arg, mem) == [task EXCEPT ![t] = [pc |-> pc, arg |-> arg, mem |-> mem]]

\* The request's decision leaves a row, the newest one.
LeaveTaste(r) ==
  /\ taste' = [taste EXCEPT ![r] = @ + 1]
  /\ newer' = [q \in Requests |-> IF q = r \/ taste[q] = 0 THEN 0 ELSE newer[q] + 1]

\* A task that waits, or is over, holds nothing.
TaskIdle(t, pc) == TaskSet(t, pc, NoRequest, Empty)

-----------------------------------------------------------------------------
(* The HTTP handlers *)

\* (mutant) a brief that is done can be created again under the same id
EnqueueBriefAgain(j) ==
  /\ job[j].status \in {"none", "done"}
  /\ job' = JobSet(j, "queued", "queued")
  /\ task' = TaskIdle(j, "queued")

\* jobs.create and the enqueueing of run_brief under the job's own id.
EnqueueBrief(j) ==
  /\ job[j].status = "none"
  /\ job' = JobSet(j, "queued", "queued")
  /\ task' = TaskIdle(j, "queued")

CreateBrief(j) ==
  /\ EnqueueBrief(j)
  /\ UNCHANGED <<pending, thread, script, taste, newer, context, request, origin, faults>>

\* approve_script reads the row's hook_variants ...
ReadHooks(r, j, h) ==
  /\ request[r].pc = "idle"
  /\ job[j].script
  /\ request' = [request EXCEPT ![r] = [pc |-> "hookRead", kind |-> "hook", job |-> j, hook |-> h,
                                         route |-> "none", retry |-> FALSE, hooks |-> script[j].hooks]]
  /\ UNCHANGED <<job, pending, thread, script, taste, newer, context, task, origin, faults>>

\* ... commits the dict it read with the new selection ...
SaveHooks(r) ==
  LET j == request[r].job IN
  /\ request[r].pc = "hookRead"
  /\ script' = ScriptSet(j, script[j].status, request[r].hooks, script[j].body, request[r].hook)
  /\ request' = [request EXCEPT ![r].pc = "hookSaved"]
  /\ UNCHANGED <<job, pending, thread, taste, newer, context, task, origin, faults>>

\* ... and copies the selection to the job hash.
RecordHook(r) ==
  LET j == request[r].job IN
  /\ request[r].pc = "hookSaved"
  /\ job' = [job EXCEPT ![j].hook = request[r].hook]
  /\ request' = [request EXCEPT ![r].pc = "done"]
  /\ UNCHANGED <<pending, thread, script, taste, newer, context, task, origin, faults>>

\* Where reject_script sends a rejection, from the job hash it read.
RejectRoute(j) ==
  CASE job[j].stage = "awaiting_approval"         -> "resumed"
    [] /\ job[j].stage # "awaiting_approval"
       /\ job[j].status \in {"queued", "running"} -> "pending"
    [] OTHER                                      -> "recorded"

\* (a retry needs a job id that is still free: Jobs bounds them)
ReadReject(r, j, retry) ==
  /\ request[r].pc = "idle"
  /\ job[j].script
  /\ retry => \E k \in Jobs : job[k].status = "none"
  /\ request' = [request EXCEPT ![r] = [pc |-> "rejectRead", kind |-> "reject", job |-> j, hook |-> 0,
                                         route |-> RejectRoute(j), retry |-> retry, hooks |-> 0]]
  /\ UNCHANGED <<job, pending, thread, script, taste, newer, context, task, origin, faults>>

\* (mutant) the handler leaves the taste row by every route
ActRejectTasting(r) ==
  LET j == request[r].job IN
  /\ request[r].pc = "rejectRead"
  /\ request' = [request EXCEPT ![r].pc = IF request[r].retry THEN "rejectActed" ELSE "done"]
  /\ LeaveTaste(r)
  /\ task' = IF request[r].route = "resumed" THEN TaskIdle(r, "queued") ELSE task
  /\ pending' = IF request[r].route = "pending" THEN [pending EXCEPT ![j] = r] ELSE pending
  /\ script' = IF request[r].route = "recorded" THEN StatusSet(j, "rejected") ELSE script
  /\ UNCHANGED <<job, thread, context, origin, faults>>

\* The rejection takes effect by the route chosen from what was read.
ActReject(r) ==
  LET j == request[r].job IN
  /\ request[r].pc = "rejectRead"
  /\ request' = [request EXCEPT ![r].pc = IF request[r].retry THEN "rejectActed" ELSE "done"]
  /\ \/ /\ request[r].route = "resumed"
        /\ task' = TaskIdle(r, "queued")
        /\ UNCHANGED <<pending, script, taste, newer>>
     \/ /\ request[r].route = "pending"
        /\ pending' = [pending EXCEPT ![j] = r]
        /\ UNCHANGED <<task, script, taste, newer>>
     \/ /\ request[r].route = "recorded"
        /\ LeaveTaste(r)
        /\ script' = StatusSet(j, "rejected")
        /\ UNCHANGED <<task, pending>>
  /\ UNCHANGED <<job, thread, context, origin, faults>>

\* (mutant) the new job is enqueued before the rejection has taken effect
RetryBriefEarly(r, j) ==
  /\ request[r].pc = "rejectRead" /\ request[r].retry
  /\ EnqueueBrief(j)
  /\ origin' = [origin EXCEPT ![j] = r]
  /\ request' = [request EXCEPT ![r].retry = FALSE]
  /\ UNCHANGED <<pending, thread, script, taste, newer, context, faults>>

\* "retry" starts the same brief over as a new job.
RetryBrief(r, j) ==
  /\ request[r].pc = "rejectActed"
  /\ EnqueueBrief(j)
  /\ origin' = [origin EXCEPT ![j] = r]
  /\ request' = [request EXCEPT ![r].pc = "done"]
  /\ UNCHANGED <<pending, thread, script, taste, newer, context, faults>>

\* approve_video: 409 unless the job awaits approval, else the hook that was
\* recorded on the job, or the one selected in the row.
ReadApprove(r, j, k) ==
  /\ request[r].pc = "idle"
  /\ job[j].script
  /\ job[j].stage = "awaiting_approval"
  /\ request' = [request EXCEPT ![r] =
       [pc |-> "approveRead", kind |-> k, job |-> j, route |-> "none", retry |-> FALSE, hooks |-> 0,
        hook |-> IF job[j].hook # NoHook THEN job[j].hook ELSE script[j].selected]]
  /\ UNCHANGED <<job, pending, thread, script, taste, newer, context, task, origin, faults>>

EnqueueApprove(r) ==
  /\ request[r].pc = "approveRead"
  /\ task' = TaskIdle(r, "queued")
  /\ request' = [request EXCEPT ![r].pc = "done"]
  /\ UNCHANGED <<job, pending, thread, script, taste, newer, context, origin, faults>>

-----------------------------------------------------------------------------
(* The arq worker *)

Active(t) == task[t].pc \notin {"none", "queued", "finished"}

\* arq takes a queued task when fewer than max_jobs run.
SlotFree == Cardinality({t \in Tasks : Active(t)}) < MaxJobs

\* A step of the graph: its result is the task's state and the checkpoint.
Advance(t, pc, mem) ==
  /\ task' = TaskSet(t, pc, task[t].arg, mem)
  /\ thread' = [thread EXCEPT ![JobOf(t)] = mem]

\* The graph has reached END: _drive has the last node's result in hand.
End(t) ==
  /\ task' = TaskSet(t, "ended", task[t].arg, task[t].mem)
  /\ thread' = [thread EXCEPT ![JobOf(t)] = [task[t].mem EXCEPT !.next = "end"]]

\* load_context reads the newest rows.
TasteRead == {r \in Requests : taste[r] > 0 /\ newer[r] < TasteTopK}

\* run_brief: mark the job, load the context, put a fresh input on the thread
\* (which keeps what an earlier attempt left in the other channels).
StartRun(j) ==
  LET mem == [thread[j] EXCEPT !.next = "writer", !.iteration = 0] IN
  /\ task[j].pc = "queued"
  /\ SlotFree
  /\ job' = JobSet(j, "running", "writer")
  /\ context' = [context EXCEPT ![j] = TasteRead]
  /\ task' = TaskSet(j, "driving", NoRequest, mem)
  /\ thread' = [thread EXCEPT ![j] = mem]
  /\ UNCHANGED <<pending, script, taste, newer, request, origin, faults>>

\* resume_brief: a thread with nothing to run next is left alone.
CheckResume(r) ==
  /\ task[r].pc = "queued"
  /\ SlotFree
  /\ task' = TaskIdle(r, IF thread[request[r].job].next \in {"none", "end"} THEN "finished" ELSE "checked")
  /\ UNCHANGED <<job, pending, thread, script, taste, newer, context, request, origin, faults>>

MarkResume(r) ==
  /\ task[r].pc = "checked"
  /\ job' = JobSet(request[r].job, "running", "publish")
  /\ task' = TaskIdle(r, "marked")
  /\ UNCHANGED <<pending, thread, script, taste, newer, context, request, origin, faults>>

\* graph.astream(Command(resume=d)) loads the latest checkpoint. The value
\* reaches interrupt() only if the approval node is the next one; a thread
\* that has ended streams nothing and _drive returns.
Load(t, d) ==
  LET c == thread[JobOf(t)] IN
  task' = IF c.next \in {"none", "end"} THEN TaskIdle(t, "finished")
          ELSE TaskSet(t, "driving", IF c.next = "approval" THEN d ELSE NoRequest, c)

LoadResume(r) ==
  /\ task[r].pc = "marked"
  /\ Load(r, r)
  /\ UNCHANGED <<job, pending, thread, script, taste, newer, context, request, origin, faults>>

At(t, node) == task[t].pc = "driving" /\ task[t].mem.next = node

\* writer: the next version of the script goes to the row as a draft.
Writer(t) ==
  LET j == JobOf(t)
      m == task[t].mem
      v == m.version + 1 IN
  /\ At(t, "writer")
  /\ script' = ScriptSet(j, "draft", v, v, 0)
  /\ job' = JobHasScript(j, "critics")
  /\ Advance(t, "driving", [m EXCEPT !.next = "critics", !.iteration = @ + 1, !.version = v])
  /\ UNCHANGED <<pending, taste, newer, context, request, origin, faults>>

\* The best version after a review: the first one, or the better of the best
\* so far and the one just reviewed (QALoop says which).
BestAfter(m) == IF m.best = 0 THEN {m.version} ELSE {m.best, m.version}

\* The three critics and collect: another iteration, ...
Revise(t) ==
  LET m == task[t].mem IN
  /\ At(t, "critics")
  /\ m.iteration < MaxIter
  /\ job' = JobSet(JobOf(t), job[JobOf(t)].status, "writer")
  /\ \E b \in BestAfter(m) : Advance(t, "driving", [m EXCEPT !.next = "writer", !.best = b])
  /\ UNCHANGED <<pending, script, taste, newer, context, request, origin, faults>>

\* (mutants) the row keeps the version in hand; the hook may be left unset
CollectLast(t) ==
  LET j == JobOf(t)
      m == task[t].mem IN
  /\ At(t, "critics")
  /\ \E b \in BestAfter(m), h \in Hooks :
       /\ script' = ScriptSet(j, "ready", m.version, m.version, h)
       /\ Advance(t, "driving", [m EXCEPT !.next = "asset_gen", !.best = b, !.version = b])
  /\ job' = JobHasScript(j, "asset_gen")
  /\ UNCHANGED <<pending, taste, newer, context, request, origin, faults>>
CollectNoHook(t) ==
  LET j == JobOf(t)
      m == task[t].mem IN
  /\ At(t, "critics")
  /\ \E b \in BestAfter(m), h \in Hooks \cup {NoHook} :
       /\ script' = ScriptSet(j, "ready", b, b, h)
       /\ Advance(t, "driving", [m EXCEPT !.next = "asset_gen", !.best = b, !.version = b])
  /\ job' = JobHasScript(j, "asset_gen")
  /\ UNCHANGED <<pending, taste, newer, context, request, origin, faults>>

\* ... or the best version is the script: ready, with the hook critic's choice.
Collect(t) ==
  LET j == JobOf(t)
      m == task[t].mem IN
  /\ At(t, "critics")
  /\ \E b \in BestAfter(m), h \in Hooks :
       /\ script' = ScriptSet(j, "ready", b, b, h)
       /\ Advance(t, "driving", [m EXCEPT !.next = "asset_gen", !.best = b, !.version = b])
  /\ job' = JobHasScript(j, "asset_gen")
  /\ UNCHANGED <<pending, taste, newer, context, request, origin, faults>>

\* asset_gen, render and vision_qa: the video is made from the best version.
Produce(t) ==
  LET m    == task[t].mem
      next == [asset_gen |-> "render", render |-> "vision_qa", vision_qa |-> "approval"] IN
  /\ task[t].pc = "driving"
  /\ m.next \in DOMAIN next
  /\ job' = JobSet(JobOf(t), job[JobOf(t)].status, next[m.next])
  /\ Advance(t, "driving",
       [m EXCEPT !.next = next[m.next],
                 !.video = IF m.next = "asset_gen" THEN m.best ELSE @])
  /\ UNCHANGED <<pending, script, taste, newer, context, request, origin, faults>>

\* interrupt() with no decision in hand: the job awaits the owner.
Interrupt(t) ==
  /\ At(t, "approval")
  /\ task[t].arg = NoRequest
  /\ job' = JobSet(JobOf(t), "done", "awaiting_approval")
  /\ task' = TaskIdle(t, "parked")
  /\ UNCHANGED <<pending, thread, script, taste, newer, context, request, origin, faults>>

\* pop_pending_decision reads the key ...
GetPending(t) ==
  LET d == pending[JobOf(t)] IN
  /\ task[t].pc = "parked"
  /\ task' = TaskSet(t, IF d = NoRequest THEN "finished" ELSE "popped", d, Empty)
  /\ UNCHANGED <<job, pending, thread, script, taste, newer, context, request, origin, faults>>

\* (mutant) the decision is dropped with the key
DeletePendingOnly(t) ==
  /\ task[t].pc = "popped"
  /\ pending' = [pending EXCEPT ![JobOf(t)] = NoRequest]
  /\ task' = TaskIdle(t, "finished")
  /\ UNCHANGED <<job, thread, script, taste, newer, context, request, origin, faults>>

\* ... then deletes it, and _drive resumes the graph with what it read.
DeletePending(t) ==
  /\ task[t].pc = "popped"
  /\ pending' = [pending EXCEPT ![JobOf(t)] = NoRequest]
  /\ Load(t, task[t].arg)
  /\ UNCHANGED <<job, thread, script, taste, newer, context, request, origin, faults>>

\* approval, with the decision interrupt() returned: the taste row and, for a
\* rejection, the script row are committed ...
Decide(t) ==
  LET d == task[t].arg IN
  /\ At(t, "approval")
  /\ d # NoRequest
  /\ LeaveTaste(d)
  /\ script' = IF request[d].kind = "reject" THEN StatusSet(JobOf(t), "rejected") ELSE script
  /\ task' = TaskSet(t, "decided", d, [task[t].mem EXCEPT !.decision = d])
  /\ UNCHANGED <<job, pending, thread, context, request, origin, faults>>

\* (mutants) every decision goes on to publish; a rejection leaves the job as it is
DecidedPublishes(t) ==
  /\ task[t].pc = "decided"
  /\ Advance(t, "driving", [task[t].mem EXCEPT !.next = "publish"])
  /\ UNCHANGED <<job, pending, script, taste, newer, context, request, origin, faults>>
DecidedSilently(t) ==
  LET m == task[t].mem IN
  /\ task[t].pc = "decided"
  /\ thread' = [thread EXCEPT ![JobOf(t)] =
                  [m EXCEPT !.next = IF request[m.decision].kind = "reject" THEN "end" ELSE "publish"]]
  /\ task' = IF request[m.decision].kind = "reject" THEN TaskIdle(t, "finished")
             ELSE TaskSet(t, "driving", task[t].arg, [m EXCEPT !.next = "publish"])
  /\ UNCHANGED <<job, pending, script, taste, newer, context, request, origin, faults>>

\* ... then the node's result is kept: a rejection ends the run, anything else
\* goes on to publish.
Decided(t) ==
  LET m == task[t].mem IN
  /\ task[t].pc = "decided"
  /\ \/ /\ request[m.decision].kind = "reject"
        /\ End(t)
     \/ /\ request[m.decision].kind # "reject"
        /\ Advance(t, "driving", [m EXCEPT !.next = "publish"])
  /\ UNCHANGED <<job, pending, script, taste, newer, context, request, origin, faults>>

\* publish: the row gets its final status and the hook of the decision ...
Publish(t) ==
  LET d   == request[task[t].mem.decision]
      row == script[JobOf(t)] IN
  /\ At(t, "publish")
  /\ script' = ScriptSet(JobOf(t), IF d.kind = "schedule" THEN "scheduled" ELSE "approved",
                         row.hooks, row.body, d.hook)
  /\ task' = TaskSet(t, "published", task[t].arg, task[t].mem)
  /\ UNCHANGED <<job, pending, thread, taste, newer, context, request, origin, faults>>

\* ... which ends the run as well.
Published(t) ==
  /\ task[t].pc = "published"
  /\ End(t)
  /\ UNCHANGED <<job, pending, script, taste, newer, context, request, origin, faults>>

\* Only then does _drive give the job its final stage, and return.
Settle(t) ==
  LET final == [reject |-> "rejected", approve |-> "published", schedule |-> "scheduled"]
      kind  == request[task[t].mem.decision].kind IN
  /\ task[t].pc = "ended"
  /\ kind \in DOMAIN final
  /\ job' = JobSet(JobOf(t), "done", final[kind])
  /\ task' = TaskIdle(t, "finished")
  /\ UNCHANGED <<pending, thread, script, taste, newer, context, request, origin, faults>>

Fault(kind) ==
  /\ faults.crashes + faults.failures + faults.timeouts < MaxFaults
  /\ faults' = [faults EXCEPT ![kind] = @ + 1]

\* (mutant) the failure is logged and the job left running
NodeFailsSilently(t) ==
  /\ task[t].pc = "driving"
  /\ Fault("failures")
  /\ task' = TaskIdle(t, "finished")
  /\ UNCHANGED <<job, pending, thread, script, taste, newer, context, request, origin>>

\* A node raises: _fail marks the job failed, and its stage stays as it was.
NodeFails(t) ==
  /\ task[t].pc = "driving"
  /\ Fault("failures")
  /\ job' = JobSet(JobOf(t), "failed", job[JobOf(t)].stage)
  /\ task' = TaskIdle(t, "finished")
  /\ UNCHANGED <<pending, thread, script, taste, newer, context, request, origin>>

\* job_timeout cancels the task: a CancelledError passes the handlers of
\* run_brief and resume_brief, and arq does not run the task again.
TimesOut(t) ==
  /\ Active(t)
  /\ Fault("timeouts")
  /\ task' = TaskIdle(t, "finished")
  /\ UNCHANGED <<job, pending, thread, script, taste, newer, context, request, origin>>

\* The worker process stops: arq runs every task it held again.
Crash ==
  /\ \E t \in Tasks : Active(t)
  /\ Fault("crashes")
  /\ task' = [t \in Tasks |-> IF Active(t) THEN [pc |-> "queued", arg |-> NoRequest, mem |-> Empty]
                        ELSE task[t]]
  /\ UNCHANGED <<job, pending, thread, script, taste, newer, context, request, origin>>

-----------------------------------------------------------------------------
Handler(r) ==
  \/ \E j \in Jobs, h \in Hooks : ReadHooks(r, j, h)
  \/ SaveHooks(r)
  \/ RecordHook(r)
  \/ \E j \in Jobs, retry \in BOOLEAN : ReadReject(r, j, retry)
  \/ ActReject(r)
  \/ \E j \in Jobs : RetryBrief(r, j)
  \/ \E j \in Jobs, k \in {"approve", "schedule"} : ReadApprove(r, j, k)
  \/ EnqueueApprove(r)

\* The steps of a task in the worker, without the faults.
Work(t) ==
  \/ Writer(t) \/ Revise(t) \/ Collect(t) \/ Produce(t)
  \/ Interrupt(t) \/ GetPending(t) \/ DeletePending(t)
  \/ Decide(t) \/ Decided(t) \/ Publish(t) \/ Published(t) \/ Settle(t)

Resume(r) == CheckResume(r) \/ MarkResume(r) \/ LoadResume(r)

Next ==
  \/ \E j \in Jobs : CreateBrief(j) \/ StartRun(j)
  \/ \E r \in Requests : Handler(r) \/ Resume(r)
  \/ \E t \in Tasks : Work(t) \/ NodeFails(t) \/ TimesOut(t)
  \/ Crash

Spec == Init /\ [][Next]_vars

\* What the scheduling guarantees: the API finishes a request it began, arq
\* takes what is queued, and a task that runs goes on. The owner guarantees
\* nothing, nor is any fault bound to happen.
Fairness ==
  /\ \A j \in Jobs : WF_vars(StartRun(j))
  /\ \A r \in Requests : WF_vars(Resume(r)) /\ WF_vars(SaveHooks(r)) /\ WF_vars(RecordHook(r))
                         /\ WF_vars(ActReject(r)) /\ WF_vars(EnqueueApprove(r))
                         /\ WF_vars(\E j \in Jobs : RetryBrief(r, j))
  /\ \A t \in Tasks : WF_vars(Work(t))

FairSpec == Spec /\ Fairness

-----------------------------------------------------------------------------
(* Properties *)

DecisionKinds == {"reject", "approve", "schedule"}
Final == {"approved", "scheduled"}

\* The decisions the owner has sent, or is sending, on a job.
DecisionsOn(j) == {r \in Requests : request[r].job = j /\ request[r].kind \in DecisionKinds}

\* Nothing is under way for the job.
Quiet(j) ==
  /\ \A t \in Tasks : JobOf(t) = j => task[t].pc \in {"none", "finished"}
  /\ \A r \in Requests : request[r].job = j => request[r].pc = "done"

\* Nothing is published that the owner did not approve: a script is approved
\* (scheduled) only after an acknowledged video-approve asked exactly that,
\* whatever tasks ran twice, raced or failed.
PublishedByOwner ==
  \A j \in Jobs : script[j].status \in Final =>
    \E r \in DecisionsOn(j) :
      /\ request[r].pc = "done"
      /\ request[r].kind = IF script[j].status = "approved" THEN "approve" ELSE "schedule"

\* A decision is applied once, by whichever of its routes: it leaves at most one
\* taste_memory row.  (After a crash every task of the job can drive the graph to the
\* interrupt again, and each of them can read the same pending decision there.)
TasteOncePerDecision ==
  faults.crashes = 0 => \A r \in Requests : taste[r] <= 1

\* What is published is what the owner saw: unless a crash made the run start
\* over, the body of a published script is the version its video shows.
PublishedMatchesVideo ==
  \A j \in Jobs : script[j].status \in Final /\ faults.crashes = 0 =>
    /\ thread[j].video # 0
    /\ script[j].body = thread[j].video

\* A job that shows awaiting_approval has its graph at the interrupt, whatever else is
\* under way: a further decision is a no-op there only when a rejection that waited for
\* the interrupt has just been applied, and its task is about to say so on the job
\* (unless job_timeout cut it off).
AwaitingIsAtInterrupt ==
  \A j \in Jobs : job[j].stage = "awaiting_approval" /\ faults.crashes = 0 =>
    \/ thread[j].next = "approval"
    \/ \E r \in DecisionsOn(j) :
         /\ request[r].route = "pending" /\ taste[r] > 0
         /\ thread[j].next = "end" /\ thread[j].decision = r
         /\ faults.timeouts = 0 => task[j].pc = "ended" /\ task[j].arg = r

\* With one decision and no fault, once all is quiet the job's stage, the script
\* row, the taste memory and the graph tell the same story - except for a
\* rejection that came too late for the interrupt (NoRejectionStranded).
OneDecisionAgrees ==
  \A j \in Jobs, r \in Requests :
    (DecisionsOn(j) = {r} /\ Quiet(j) /\ pending[j] = NoRequest
       /\ faults = [crashes |-> 0, failures |-> 0, timeouts |-> 0]) =>
      /\ job[j].status = "done"
      /\ taste[r] = 1
      /\ thread[j].next = "end"
      /\ CASE request[r].kind = "reject"   -> job[j].stage = "rejected" /\ script[j].status = "rejected"
           [] request[r].kind = "approve"  -> job[j].stage = "published" /\ script[j].status = "approved"
           [] request[r].kind = "schedule" -> job[j].stage = "scheduled" /\ script[j].status = "scheduled"
      /\ (request[r].kind # "reject" /\ ~\E h \in Requests : request[h].job = j /\ request[h].kind = "hook") =>
           script[j].selected = request[r].hook

\* A brief that retries a rejection already recorded starts, each time it starts, with
\* that rejection in its context, so that the writer does not repeat it - unless
\* decisions made since then fill all the rows that load_context reads.
RetryKnowsRecordedReason ==
  [][\A j \in Jobs : LET r == origin[j] IN
       (r # NoRequest /\ StartRun(j) /\ request[r].route = "recorded") =>
         r \in context'[j] \/ newer[r] >= TasteTopK]_vars

\* Without a crash no step of the graph takes a published script back: only a
\* further decision of the owner changes its status.
PublishedStays ==
  [][\A j \in Jobs :
       (script[j].status \in Final /\ script'[j].status # script[j].status
          /\ faults.crashes = 0) => \E r, q \in DecisionsOn(j) : r # q]_vars

\* Every brief reaches a state the bot's poll loop ends on.
BriefSettles ==
  \A j \in Jobs : job[j].status = "queued" ~>
    job[j].status \in {"done", "failed"} \/ faults.timeouts > 0

\* Claimed by apps/api/README.md and reject_script: a rejection that met a
\* running graph is applied as soon as the worker reaches the interrupt.
NoRejectionStranded ==
  \A j \in Jobs : Quiet(j) /\ faults.failures + faults.timeouts = 0 => pending[j] = NoRequest

\* The decisions on a job that a resume_brief task of their own has applied.
ResumesApplied(j) == {r \in DecisionsOn(j) : task[r].pc # "none" /\ taste[r] > 0}

\* Claimed by test_worker_run_and_resume: once a resume has applied its decision a
\* second resume is a no-op.
SecondResumeIsNoop ==
  \A j \in Jobs : faults.crashes = 0 => Cardinality(ResumesApplied(j)) <= 1

\* Claimed by run_brief: any failure of a task is reported to the owner, so no
\* job is left running with nothing to run it.
FailureIsReported ==
  \A j \in Jobs : Quiet(j) => job[j].status \notin {"queued", "running"}

\* Claimed by approve_script: it stores the choice of hook (and nothing else).
HookChoiceKeepsHooks ==
  [][\A j \in Jobs, r \in Requests : SaveHooks(r) /\ request[r].job = j =>
       script'[j].hooks = script[j].hooks]_vars
=============================================================================
