# A verification of the Content Engine

TLA+ modules, TLC configurations and TLAPS proofs for the engine in
`src/apps/api` and its neighbours: a Telegram bot through which the owner of a
small business sends briefs, an API and an arq worker that turn a brief into a
script and a video with a LangGraph graph, a Node worker that renders, and
"Jarvis", an assistant that proposes actions on leads and staff tasks.

Paths below are relative to `src/apps/api/src/engine/` unless they start with `src/`.

## 1. Inventory

| component | state | operations | interacts through |
|---|---|---|---|
| Writer-critics loop (`graphs/day_subgraph.py`, `graphs/nodes/writer.py`, `critics.py`) | LangGraph thread (`DayState`), `script`, `critic_review`, `content_plan` rows | writer, three parallel critics, collect, router | checkpointer; Postgres; LLM |
| Later graph nodes (`asset_gen`, `render`, `vision_qa`, `approval`, `publish`) | the same thread; `asset`, `render_job`, `taste_memory`, `script` rows | one step each; `approval` interrupts and is resumed with a decision | render queue; media services; Postgres |
| arq worker (`worker.py`) | the tasks in Redis, one running `_drive` per task | `run_brief`, `resume_brief`, `_drive`, `_fail`, a reindex cron | job hash, `job_pending`, `tg:notify`, the thread |
| Job store (`jobs.py`) | Redis `job:{id}`, `script_job:{id}`, `job_pending:{id}` | create, update, get, set/pop pending decision, notify | API and worker |
| Brief API (`api/routes.py`) | none of its own | create_brief, approve_script, reject_script (and retry), approve_video, get_job | job store, `script` row, arq queue |
| Render queue (`render_queue.py`, `src/apps/render/src`) | BullMQ hashes, `render_job` row | enqueue_render, get_result, wait_for_render; the Node worker | Redis, Postgres, files |
| Jarvis supervisor (`jarvis/supervisor.py`, `policy.py`, `api/jarvis_routes.py`) | `jarvis_action` rows | handle_event, propose_action, decide, batch_approve | CRM, Chatwoot, `tg:notify` |
| Tasks (`jarvis/task_manager.py`, `api/routes.py`) | `task` rows | create, complete, delay, remind, escalate | supervisor, CRM |
| Chatwoot (`integrations/chatwoot.py`) | `crm_link`, `lead` rows, the external CRM | handle_webhook, reply | supervisor |
| Voice (`jarvis/voice.py`, `intents.py`) | a confirmation that waits for the owner | handle_owner_utterance | supervisor, tasks |
| Styles (`styles/registry.py`, `gate.py`) | `style` rows | submit, run_gate, approve, reject, import | API, render schema |
| Vault (`vault/indexer.py`, `events.py`, `api/vault_routes.py`) | `note`, `link` rows, subscribers' queues | reindex, snapshot, subscribe | websocket, worker cron |
| LLM router (`llm.py`, `cost_tracker.py`) | recent costs (a bounded deque) | complete, complete_json, retries, fallback | every node |
| CRM page (`api/crm_routes.py`) | `lead`, `deal` rows | crm_dashboard, demo seed, lists | Postgres |
| Bot (`src/apps/bot`) | the poll loops and dialogues in memory | brief, decision and task handlers, tg:notify subscriber | the API only |
| Pure algorithms | none | scene timing, lead scoring, SLA deadlines, style gate checks, Uzbek normalisation | - |

What is hard in this code, and what makes each part correct:

* **Loop.** Critics run in parallel and append to one channel; the limit on
  iterations is applied in two places (collect and the router); every node
  commits a Postgres row before its result is checkpointed, and arq re-runs a
  brief from its beginning on a thread that keeps the earlier attempt's channels.
  Correct: reviews and script belong together, the best version wins (earliest on
  a tie), row and thread agree on it, the loop ends.
* **Brief.** Five stores (job hash, pending key, thread, script row, taste
  memory) are written by HTTP handlers and up to four concurrent tasks, without a
  lock. Handlers act on what they read some awaits earlier. Correct: nothing is
  published that the owner did not approve, the stores tell the same story, no
  decision is lost or applied twice, every brief ends in a state the owner is shown.
* **Render.** A poll with a deadline races a late result; a re-run of the brief may ask
  for the job id that its thread has kept. Correct: what goes on is a video that is there, no result is dropped.
* **Jarvis.** `decide` runs an effect on the outside between reading and writing
  the status. Correct: no effect without approval, none by a late answer, a decision is final.
* **Tasks.** Reminders are counted by read-modify-write, and notifications that fail are
  dropped while their count is committed. Correct: a count is never invented, no overdue task falls between the lists.
* **Chatwoot, styles, vault.** Check-then-act across systems; verdicts and events
  that overtake each other; rows flushed column by column. Correct: a linked contact
  keeps its lead; the owner's verdict stands; a subscriber ends with the state of the database.
* **Voice.** Utterances of one chat overlap, and each works on a memory and a workspace
  it has read before. Correct: a yes is for the actions that were meant; a spoken
  deadline is the next moment of which everything that was said is true.
* **Costs.** One list of the process, of bounded length, is where every call books and
  where a run reads its own cost. Correct: each answer is booked once, each run pays for its own.
* **Time line.** Seconds of the voice become frames, by sums of rounded shares. Correct: the
  film is as long as the voice, scenes show what is said, a text gives way before the next one comes.
* **Bot.** Updates run concurrently, calls fail, the one state of the chat is in memory.
  Correct: no screen shows a decision the API did not take.

`PROJECT.json` lists every component with its status, and the hazards with their lines.

## 2. Plan

The modules, in the order in which they were written; all of them are there.

1. `QALoop`, refining `Selection`; `BriefJob`: the pipeline of a brief.
2. `JarvisActions`, and on top of it `OwnerDialog`; `TaskReminders`; `ChatwootLeads`; `SpokenDeadlines`.
   `MCJarvis` puts them side by side.
3. `StyleThemes`, `VaultIndex`, `MediaCosts`, `RenderQueue`, `CrmDashboard`, `OwnerBot`, `VideoTiming`.
   `MCServices` puts them side by side.
4. Proofs, in modules `...Proofs`: `QALoop`, `BriefJob` (types and who publishes, then the outcome of a brief),
   the dialogue with the owner, the rest of Jarvis, styles and vault index, the time line of a video, the other services.

What would come next:

* the composition of `BriefJob` with `RenderQueue` in place of its step `Produce` for `render`,
  and of `BriefJob` with `OwnerBot`: what the owner sees of a decision that raced another one;
* liveness of the render queue (a job is finished or its node gives up) and of the tasks
  (an overdue one ends with the owner), for which the source lacks the scheduler
  that would have to be fair.

No module declares a RECURSIVE operator; every set and limit is a CONSTANT.

## 3. Modules

### QALoop, Selection

`QALoop` is the loop of one brief. Its variables are the channels of `DayState`
that the loop uses (`iteration`, `version` = script, `scriptId`, `reviews`,
`history`, `best` = best_script, best_score and best_hook_idx, `ready`, `warned`),
the script rows the brief inserted, and `at`, the place in the graph. A script is the number of its
generation, so that two calls of the LLM never give the same one.

| action | code |
|---|---|
| `Start` | `run_brief` up to the fresh input: sets `iteration`, keeps every other channel |
| `CommitScript`, `KeepScript` | `writer`: row commit; then the node's result in the thread |
| `Critic(c)` | one of the three critic nodes: any answer, clamped as `ReviewModel` does |
| `CommitReviews`, `KeepReviews` | `collect`: row commit; then the update and `route_after_critics` |
| `NodeFails` | a node raises, `_fail` |
| `Crash` | the worker stops between any two steps; arq runs the brief again |

A review that has arrived survives a crash of the other critics' step (LangGraph
keeps pending writes), but the fresh input of the next attempt starts at the writer, which
drops them.

`Selection` is what the loop promises: candidates are considered one by one, and
what is chosen is the earliest of the best considered so far. `QALoop!Choice`
maps `history` to `considered`, and `best`, once `ready`, to `chosen`.

### BriefJob

The life of several briefs: handlers of `api/routes.py`, tasks of `worker.py`, the graph.

| variable | stands for |
|---|---|
| `job` | Redis hash `job:{id}`: status, stage, hook_idx, script_id set or not |
| `pending` | `job_pending:{id}` |
| `thread` | the latest checkpoint: next node, iteration, script version, best, version of the video, decision |
| `script` | the row: status, version of its hooks and of its body (a lost update can part them), selected hook |
| `taste`, `newer` | how many `taste_memory` rows each decision has left, and how many rows are newer than its last |
| `context` | which of them `load_context` found for a brief |
| `task` | arq tasks: position, the decision carried, and the graph state in memory |
| `request` | HTTP requests in flight, with what they have read |
| `origin`, `faults` | which request's retry created a brief; a count that bounds faults |

One action per await-delimited part of a handler or task; the table of lines is
`map` in `PROJECT.json`. `Work` is `_drive` node by node: `Writer`, `Revise` or `Collect` (critics
and collect in one step, their inner order is `QALoop`'s subject), `Produce`
(asset_gen, render, vision_qa), `Interrupt`, `GetPending`, `DeletePending`, `Decide`,
`Decided`, `Publish`, `Published`, `Settle`. The last node's result ends the thread
(`End`), and the job gets its final stage some awaits later (`Settle`): in between it may still show
`awaiting_approval` on the pending route, or `running`. Any decision may be given at any moment
at which the API accepts it, whatever the bot would show.

Abstractions:

* The Postgres checkpointer is assumed (`LANGGRAPH_CHECKPOINTER=postgres`). With the
  default `MemorySaver` a restart loses every thread (`src/apps/api/README.md:40`).
* A node's row commit and its checkpoint are one step, except in `approval` and
  `publish`, where a decision is at stake; `QALoop` splits writer and collect.
* A fresh input on a thread that holds an unfinished run discards the pending
  nodes. `Command(resume=d)` gives `d` to `approval` only if that is the next
  node. A thread that has ended streams nothing. These are LangGraph's, and marked external.
* `load_context` reads the `TasteTopK` newest taste rows, of the decisions on the briefs modelled; the
  workspace's other rows are those of further requests. The week's TTL of job hashes is left out. arq's `max_tries` is left out; `MaxFaults` bounds crashes.
* Messages to the owner (`tg:notify`) are left out.

### JarvisActions, OwnerDialog

`JarvisActions` is the journal: `acts`, the `jarvis_action` rows in order of creation, and `req`,
the requests that answer some of them. `approved` and `sent` are not columns: they say
whether the owner has answered yes to this action, and how often its executor has had its effect.

| action | code |
|---|---|
| `Propose` | `handle_event` and `propose_action`; an autonomous action is executed in the same transaction |
| `DecideOne`, `BatchApprove` | a request with one action, or all pending ones of a workspace in any order |
| `Read`, `Run`, `RunFails`, `Commit` | `decide`: status read, executor, commit, with no lock; an executor can fail before or after its effect |
| `Respond` | the answer of the request |

`OwnerDialog` extends it with the owner's commands: `memory`, the last rows of `owner_memory`, and `talk`,
what an utterance has read. `Hear` reads memory and workspace and commits the owner's row;
`RouteDecision`, `RouteProposal`, `RouteWorkspace` and `RouteOther` are the routes of an intent; a decision
goes through `JarvisActions`' own steps (`Begin` to `DecisionReplied`); `Remember` stores the reply; `Crash` stops the process.
The LLM's intent, and which of the pending actions an utterance names, is any.

### TaskReminders

`task` are the rows, `now` the hours, `run` the requests at work; `told` and `lost` are the notifications that went out and those
that Redis refused, and `apart` the tasks that were seeded and those an event asked to escalate, none of which the code keeps. `Assign`, `RemindOverdue`,
`RemindStaff`, `Scheduler` and `InjectEvent` begin a list of transactions, each `Load`, `Tell` and `Save`; `Complete` and `Delay` are
one step; `Restart` stops them all.

* `Tell` is `_redis_notify`, which logs any error and returns: what it drops is counted all the same.
* `InjectEvent` is `POST /v1/jarvis/events`: a reminder or an escalation of any task in the table, done or not, whatever was counted.
* `SeedDemo` puts tasks into the table that nobody was told of.
* `Scheduler` is external: nothing in `src/` calls `reminders_due` and `escalations_due`; the tests play the caller.

### ChatwootLeads

`leads` is the external CRM, `links` the `crm_link` rows, `hook` the background tasks of the webhook. `Deliver`,
`Look`, `CreateLead` (with `TwentyCRM`'s retries: an answer may be lost after the lead was made), `LinkLead`
and `HandleEvent` are the parts of `handle_webhook`; `StopApi` loses all of them. Two messages of one new contact
can both create a lead: the code promises nothing else, so that the properties speak of
contacts already linked and of leads without a link.

### SpokenDeadlines

A pure algorithm: `ParseUzDatetime`, with `DayOffset`, `Clock` and the default of
`AssignWithDeadline`, over word groups rather than strings, in half hours.
`DueIsTheNextSuch` is the reference definition: what was said holds of the moment, and of no earlier one to come.

### StyleThemes

`theme` are the `style_theme` rows, `doc` the vault's documents, `op` requests and background gates,
`ground` the reasons a name has been given (not in the code). A gate, approve, reject or import is `LoadRow`, then
`SaveGate`, `SaveOwner` or `SaveImport`, then `WriteDoc`; `Written` is SQLAlchemy's flush, which writes only columns whose
value differs from the loaded one. `Evaluation` are the outcomes of the gate's stages.

### VaultIndex

`rows` (committed), `ix` (reindex runs in API and worker), `page` (a socket, its queue, its fades and its REST request). A scan finds any files.
`StartIndex`, `ReadRows`, `IndexNote` (flush and event), `CommitIndex` and `Abort` are a run; `Connect`, `Subscribe`,
`Deliver`, `Faded`, `Disconnect` the socket, `AskRest`, `ReadRest`, `EndRest` the request that `graph.js` makes on loading and when
three seconds bring no snapshot. `missed` records the known ways in which a page falls behind.

A file is a text and a title. The row's hash is of both, its title a column of its own that stands for every column made from the file: SQLAlchemy writes
only the columns in which the row differs from what the run has read (`TitleFlushed`), so that two overlapping runs can leave a row with the hash of one and the
title of the other.

### MediaCosts

`call` are paid calls (asked, fetched, booked, back or raised; with retries, fallbacks and the second question of `complete_json`),
`recent` the list of the cost tracker, `assets` the run of `asset_gen` that reads its cost out of it. `Stop` empties memory.

### RenderQueue

`row`, `asset`: Postgres; `bull`: BullMQ's jobs; `stored`: the bucket; `node`: the graph node in the brief's latest run, and the job id that the
thread has kept. `CreateRow`, `Enqueue`, `Poll`, `PollTimesOut`, `FinishRender` and `KeepJob` (its checkpoint) are the node, `CutOff` a stop after which arq runs
the brief again with a new script; `Take`, `Upload`, `Complete`, `Throw`, `Stall` the worker and BullMQ. A run whose thread has kept a job id makes no row:
BullMQ ignores the second job of that id, the node takes the old video for the new script and adds an asset of its own. BullMQ's clean-up of finished jobs
after seven days is left out.

### CrmDashboard

A request counts or reads leads (`ReadLeads`), then deals (`ReadDeals`), while `SeedDemo` may write in between. The figures are operators
(`Kpis`, `Buckets`, `Funnel`, `Campaign`) over what was read.

### OwnerBot

`screen` (messages with buttons), `fsm` (aiogram's state of the chat, in memory), `tap` (updates that call the API), `taken` (what the API took).
`Push`, `SelectHook`, `Press`, `Ask`, `Reason`, `Wait`, `Said`, `ApiTakes`, `ApiFails`, `Edit` are the handlers, `StopBot` and `StartBot` its life.

### VideoTiming

Four steps, `Speak` (a provider's word timings, given or estimated), `Subtitle`, `LayScenes` (`Fitted`, `SplitWords`) and `CutFilm`
(frames, transitions), each a function of the one before, over all small inputs; windows of texts and pages of captions are operators on the result.
A window is not when a text is gone: it begins to leave `Exit` frames (12) before the end and takes as long as its preset plays (`Fades`; up to 15 frames and half a
delay). `HookGone` and `TitleGone` are the frames from which nothing of it is left; the hook has a sequence that cuts it, a title only that of its scene.
Every scene has a title, which is the case with the most overlaps.
Sums and greedy fillings (`SumTo`, `Filled`) are recursive functions. `TimingAssumption` has a frame no longer than the tail (1/30 s, 0.5 s in the code): a voice and tail
that fill less than a frame would get a film that is longer, since a film has at least one frame.

## 4. Runs

| run | instance | what it shows |
|---|---|---|
| `qa_loop` | scores {-2, 7, 8}, hooks {-1, 3} of 3, MAX_ITER 3, pass score 8, 2 attempts | the loop's invariants, termination, `Selects` (refinement) |
| `brief_races` | 2 jobs, 2 requests, 2 hooks, no fault | no publication without the owner; one decision leaves the stores in agreement; a retry knows a recorded reason |
| `brief_faults` | 1 job, 2 requests, 1 crash, failure or timeout | without a crash: decisions are applied once, published is what was shown and stays so, awaiting means at the interrupt, or just rejected there |
| `brief_live` | 1 job, 1 request, 1 fault, fair | a brief settles |
| `brief_stranded` | violation | a rejection stored after the worker looked is never applied |
| `brief_second_resume` | violation | two resume tasks at once both apply their decision |
| `brief_timeout` | violation | a timed-out task leaves the job running |
| `brief_hooks` | violation | choosing a hook while the loop writes loses the new hooks |
| `jarvis` | the four parts of Jarvis, two requests in each | the policy gate, answers, reminders and their counts, links of leads, spoken deadlines |
| `jarvis_unsent` | violation | a message asked for by voice is journalled as executed and never sent |
| `services` | the seven services, two requests or workers in each | grounds of approvals, the page and its index, costs, renders, dashboard, bot, time line |
| `styles_overridden` | violation | a gate that loaded its theme before the owner's answer overrides it |

`jarvis` and `services` hold parts that share no state; their first variable (`part`, `service`) says which one moves, so that
the state space is the sum of the parts' and not the product (about 5.7 and 2.1 million states).

Bounds of the pipeline. Scores -2, 7 and 8 lie below the range, just below the pass score and on it; hooks
-1 and 3 lie out of range on both sides. Three iterations are the code's own limit.
Two attempts give a re-run on a used thread. Two requests give every pair of decisions on
one job and a decision with a retry; a second job lets a retry have its new brief. `TasteTopK` 1 lets the other request's decision push
a rejection out of the context. In `BriefJob`
MAX_ITER is 1 or 2: the loop is there only to let writer and collect meet the handlers, and
two iterations do.

Bounds of `jarvis`. Two requests or runs or hooks: each race in the code is between two. Two workspaces, so that an answer
can be for the wrong one. `MaxActions` 2: an answer to several, and one that overlaps another. `MaxSent` 1 bounds only
executors that failed after their effect. `MemoryRows` 2: a reply is forgotten. Two tasks and two hours past the deadline
(`MaxNow` 2, `MaxTold` 2) reach the escalation; `MaxOdd` 2 is two of posted events, dropped notifications and a demo seed. Two contacts, four leads: each contact with two. Three attempts are the
code's. `Moments` 20, 25, 300 and 335 are a Monday before and after noon, a Sunday and the last half hour of the week; `Hours` have
both ends of every range the clock distinguishes.

Bounds of `services`. One theme that is builtin as well, two operations. One note with two texts and two titles, two indexers, a queue of one. The index moves in two parts: `vault`, with two runs and no REST request, and `rest`, with
one run at a time (`OneRun`) and one request: a request is overtaken by any run, and a row is mixed by two with or without one.
Two calls of two tries and a list of three entries, with a fourth to overflow it. Three runs of a brief, renders of two attempts and one stall.
Windows of one day of two ticks, two seeds. One script with its video, two taps. Up to three words, scenes and beats,
lengths that round up and down, a caption of six characters in two lines; texts that leave in one frame and in four, so that titles meet both under a transition and at the CTA card.

Requests (`jarvis`) and operations (`services`) are symmetric, jobs and requests in the safety runs of `BriefJob`; no liveness run uses symmetry.
Deadlock is checked in `jarvis`. It is not in the other runs: a finished brief, and the parts whose bounds are used up, have nothing to do.

Fairness (`FairSpec`). `QALoop`: weak fairness of `Work`, since the worker goes on with
a task it runs and arq starts what is queued; a crash is not fair. `BriefJob`: weak
fairness of each task's steps, of the arq pick-up and of a request's continuation; the owner's
requests and the faults are not fair. `BriefSettles` excludes timeouts, for which the run
`brief_timeout` shows the opposite. The modules of Jarvis and of the services state no fairness.

Every property of a passing run has a mutant in `PROJECT.json`: a plausible bug of the code (marked `(mutant)` where it is
defined) under which the run finds the property violated.

## 5. Proofs

`QALoopProofs` proves, for every set of scores and hooks, every limit and number of
attempts: `TypeOK`, `ReviewsAreOfVersionInHand`, `BestIsBest`, `ReadyRowIsBest`,
`OrphansAreDrafts` as invariants, `StopsAtFirstPass` as an action property and
`Selects`, the refinement of `Selection`. The inductive invariant `IInv` adds to these

* what each place in the graph knows: after the writer committed, the row holds the script
  about to be kept; after collect committed, the row holds the outcome about to be kept;
* that `best` is the earliest best entry of `history` (or `history` is empty);
* that the thread's row exists once a script has been kept.

None of the stated invariants is inductive by itself: `ReadyRowIsBest` speaks of the last
step only, and says nothing of the moment between the row's commit and the thread's.
The assumptions are `QALoopAssumption`.

`BriefJobProofs` proves, for any sets of jobs, requests and hooks, any limits and any
number of crashes, failures and timeouts: `TypeOK`, `PublishedByOwner`, and that a
decision which waits in Redis, or which a task carries, was sent on that very job.
`PublishedByOwner` speaks of two ends of a long way: a handler, Redis or an arq task, the
value of `interrupt()`, the graph state in memory, its checkpoint, `publish`. So `IInv`
follows the decision along it:

* `HandlersKnowTheirRequest`, `ResumesAreDecisions`: a handler past its first read knows its job,
  and a resume task exists only for a decision that was sent;
* `PendingIsDecision`, `TasksHoldDecisions`, `ThreadsHoldDecisions`: what is in
  `job_pending`, in a task and in a checkpoint is a decision sent on that job, and a state whose next
  node is `publish` holds one that is no rejection.

`PublishedByOwner` and the last three are not inductive alone, as each place is filled from another one. The proof has a
lemma for each action's types, says once who changes which variable, shows that a
decision once sent never changes, and then takes the places one by one. The assumption
is `BriefAssumption`.

`BriefOutcomeProofs` goes on from there, to where a brief ends: `PublishedMatchesVideo`, `AwaitingIsAtInterrupt`,
`TasteOncePerDecision`, `PublishedStays` (for runs of any length with any failures and timeouts, but without a crash of the worker)
and the action property `RetryKnowsRecordedReason` (with crashes as well, and for any number of decisions: it names the case in which later ones fill the rows read). None of these is inductive. The invariant `OInv` says, job by job, why they hold:

* before it has been at the interrupt, the brief's own run is the only one of its thread, its memory
  is its checkpoint, and nobody can have asked for a resume (`RunOfBrief`, `ResumesOf`, `StageTells`). So writer, collect and the
  making of the video run in order, and the row keeps the body of which the video was made (`VideoOf`);
* beyond it, several resumes may race, but all of them hold the same video (`MemVideo`), and none can take the thread back;
* a decision takes one route: it waits in the pending key, or has a task of its own, or is recorded by the handler; on each route one task at a time
  carries it, and the taste row is left by the step after which nobody does (`TasteOf`, `OneCarrier`);
* where the thread has ended under a job that still shows `awaiting_approval`, the brief's own task has just applied the pending rejection and is about to say so (`JustRejected`);
* a retry is made after its rejection, and after the row of one that is recorded (`Known`).

A crash breaks the first point (arq runs the brief again beside its own resumes), and with it the first four properties; see section 6.

`OneDecisionAgrees` speaks of quiet states, so that its invariant has to say of each route what it still has to do. `SInv` adds to `OInv`
that the requests of hooks touch no decision (`HookRequests`) and, as long as nothing failed and the job has had one decision,
that the job is in one of four phases (`OneStory`): nothing sent; sent and left in the pending key; taken by a task or a handler that still carries it, with the
stores as far as that has come (`Carries`); or settled, with all of them in agreement.

`OwnerDialogProofs` proves `GatedByOwner`, `AnsweredMeansDecided`, `AnswerStaysInWorkspace`, `DecidedForever` and `LateTapDoesNothing` for
any requests, workspaces and limits. `DInv` says of each request that its actions exist, that those it is to answer yes are approved,
and that each of those it was given is decided or still to come; and of an utterance on its way that its actions
are of its workspace. `Onward` (a journal loses no action, approval or decision) is what every step keeps for the other requests. Assumptions: `JarvisAssumption`, `DialogAssumption`.

`JarvisProofs` has the other three parts of Jarvis and, of all four together, the type invariant of `MCJarvis`.

* Tasks: `CountedMeansNotified`, `OwnerAfterTwoReminders` and `OverdueIsDueForOne` for any finite set of tasks.
  `TInv` follows a reminder through its request: the count it has read never exceeds what was handed to notify, told or dropped, so that two that overlap may
  count one reminder too few, never one too many; and an escalation has two reminders behind it, or an event that asked. Assumption: `TasksAssumption`.
* Leads: `OrphanOnlyByFault` and `LinkedContactKeepsItsLeads` for any contacts, hooks and limits. The invariant ties what a hook has seen of links
  and leads to what is there now: links are only ever added, a lead is its hook's until it is linked, and a fault is remembered. Assumption:
  `LeadsAssumption` (there is a contact; without one a hook at rest has nothing to hold).
* Deadlines: `DueIsTheNextSuch`. The module has one step, from an utterance to its due moment, so that the theorem is the correctness of `ParseUzDatetime`
  on any set of moments and hours, by cases of what was said; day offsets and the roll-over to tomorrow become facts about
  quotients and remainders. Assumption: `DeadlineAssumption` (there is a moment to start from).

`ServicesProofs` has the render, the costs, the chat and the dashboard, and the types of all seven services of `MCServices`.

* `VideoIsThere` and `RenderAccountedFor` for any number of runs, attempts and stalls: `IInv` ties the node to its row or to the job kept, which is done,
  a BullMQ state to the upload behind it and to the attempts left, and says that a job in work has a node that waits or gave up (`RenderAssumption`).
* `BookedOncePerAnswer` and `CostOfRun` for any calls, tries and lengths of the list. `CInv` says step by step what a call has got and booked
  (`CallBooks`; the second question of `complete_json` has one booking behind it, `Before`), and of the list that its entries of this
  run are the last ones (`Counted`, `RunBooks`), so that dropping the oldest entry loses one of the run only when the list is full of them (`CostsAssumption`).
* `OwnerNotMisled` for any scripts and updates; `BInv` accounts for a screen that asks and for each update at work (`BotAssumption`).
* `DashboardAddsUp` for any requests, windows, lengths of a day and demo data. `WInv` says that a lead has its own number and a deal exactly if its stage says so, so that
  the deals read after the leads are those of leads read before, whatever was seeded in between. The rest is counting (`Parts`, `Rest`) and
  dates: a date never decreases, and `days` days earlier is `days` dates earlier (`DayOf`, `LaterDate`, `DaysBefore`). Assumption: `DashboardAssumption`.
* `MCServices.TypeOK`. `MCInv` is the invariants of the seven services together; each service has a lemma for its own step, and a step of one leaves the variables of the others alone.

`VaultProofs` has the catalogue of styles and the index.

* `ApprovedOnGrounds`. The point is the flush of a row that has changed since it was loaded: status and `approved_by`
  can come from two writers, so that `SInv` says of each what it alone implies (`StylesAssumption`).
* `PageShowsIndex` and `IndexRepairs` for any finite set of notes and any contents, runs and queue. `PageShowsIndex` holds of quiet states only; what holds always is
  `PageFollows`: what the page will show of a note once its queue has been applied and its fades have ended (`Shows`) is what a run of the API
  has announced of it, and the committed row where none has. `OneAnnounces` makes that unambiguous: while nothing was missed, a note is announced by one run of the
  API, which has read the row as it is and whose flush leaves the title it announces; a snapshot or a REST answer that says otherwise is a miss. For the repair, a run that nothing has overlapped has read the rows as they are at its commit (`RunOf`). Assumption: `VaultAssumption`.

`VideoTimingProofs` has `VideoFollowsVoice` and the types of `VideoTiming`, for any number of words and scenes, any lengths and any constants that `TimingAssumption` admits. The invariant
`TimingInv` says that words come in their order (`Ordered`), that the scenes cut them into runs that follow one another (`Laid`, `Piece`, by when the middle of a word falls),
and that their lengths add up to the voice and its tail but for half a tick a scene.

* Induction. What a recursive function computes is shown by the least length at which it would not hold (`LeastOf`, from the well-foundedness of Nat;
  `UpTo`): that it exists and takes its steps (`SumExists`, `FillingExists`), and what its steps keep (`SumsGrow`, `Grouped`, `RunsJoin`). This replaces the library's induction theorems, whose
  parameter is an operator.
* Film: frames are differences of rounded sums, so the roundings of all scenes leave one half of a frame in all (`FilmFacts`), and what a transition
  adds to two scenes it takes off the film once (`OverlapCancels`).
* Captions: a page is a run of words that fits (`FilledFacts`), pages of one scene and of all follow one another (`Paged`, `PagesJoin`), and each lasts until the next
  begins at the latest, so that the page that is seen at a tick is one, and has the word.
* Texts: each window lies in its scene after the window of the one before; the hook's sequence cuts it before any other text (`HookLeaves`, `HookAlone`), and a title leaves with
  its scene, that is under the transition, or no later than its fade lasts (`TitleLeaves`, `TitlesCross`, `TextsWait`).

Each inductive invariant was first checked by TLC on the instances of the runs.

Only model-checked: liveness (`LoopEnds`, `BriefSettles`), as TLAPS has no reasoning about
fairness and ENABLED. Every invariant and every action property of the passing runs is a theorem.

## 6. Disagreements found

See `findings` in `PROJECT.json`: a rejection that is stranded, decisions applied twice, a timeout
nobody is told of, hooks overwritten by a choice of hook, a message journalled as executed that was never sent (`jarvis/voice.py:451`
gives it no conversation, and `jarvis/supervisor.py:99` then sends nothing), an owner's verdict on a style overridden by a gate that
started before it (`styles/registry.py:116`). Noted while modelling and not
given a run of their own:

* Two approvals of one video can end with the job at `running`/`publish` for ever: the
  second `resume_brief` marks the job and then finds the graph ended.
* If `approval` fails after `resume_brief` marked the job, the stage stays `publish` and
  `video-approve` answers 409 from then on, though the graph is still at the interrupt.
* A decision read by `pop_pending_decision` is lost if the worker stops before it is applied.
* After a crash one rejection can be applied more than once: the brief's re-run and the resumes of its job each drive the graph to the
  interrupt, and each of them can read the same pending key before one deletes it.
* arq may re-run a brief that had been published: the writer then puts the row back to draft.
* The video uses the hook critic's choice, not the owner's (`graphs/nodes/asset_gen.py:127`).
* The stages `publish` and `approval` are missing from `STAGE_PROGRESS`, so that progress drops to 0.
* Two answers to one action that overlap both run its executor (`jarvis/supervisor.py:140`).
* A page of the vault graph never hears of what the worker's reindex commits: the bus is of one process (`vault/events.py`).
* Two overlapping reindexes can leave a row with one file's hash and columns of another; every later one skips it as unchanged
  (`vault/indexer.py:215`), though the docstring has the table synchronised with the files (`vault/indexer.py:197`). `IndexRepairs` names the case.
* A REST answer of the graph page may replace a newer snapshot or newer events (`static/vault/graph.js:489`), until the next change of the note.
* A brief that is run again after its render gets the old video for its new script, and a second asset of the same job (`graphs/nodes/render.py:79`, `:50`).
* A title is still leaving when its window has ended, under the CTA card or the next title (`src/apps/render/src/components/Reel.tsx:111`, `src/apps/render/src/motion/timing.ts:62`),
  where the comment has it clipped by the scene and the CTA (`src/apps/render/src/components/Reel.tsx:170`).
* A reminder that Redis refused is counted, and so can bring the escalation near (`api/jarvis_routes.py:52`); an event posted to the API escalates a task nobody was reminded of.
* Nothing in `src/` asks for due reminders and escalations.

## 7. Not modelled

* Uzbek normalisation, prompts and name matching: text processing, whose properties are about strings.
* `jarvis/reports.py` and the read-only lists and endpoints: queries and formatting.
* The settings a voice command writes, the race of two first requests to create the workspace (`api/routes.py:161`): one row, and nobody to notice.
* Search, chunking and embeddings of the vault; prices and routing tables of the LLM router: data.
* `vision_qa`'s verdict: it warns and changes no state; it is a step of the thread.
* Loss of `tg:notify` as seen by jobs and by approvals (`TaskReminders` has it for reminders, `OwnerBot` for the bot's screens), the week's TTL of job hashes, arq's `max_tries`.
* The bot's poll loop, which only reads (`BriefSettles` is why it ends); the rendering of its messages.
* Audio conversion, storage and the providers' payloads; Remotion's themes, animation curves and drawing.
* Migrations, settings, evals and infrastructure.
