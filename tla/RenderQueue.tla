------------------------------ MODULE RenderQueue ------------------------------
(***************************************************************************)
(* The render of a video: the graph node (graphs/nodes/render.py) makes a  *)
(* render_job row, puts a job of the same id on the BullMQ queue           *)
(* (render_queue.py) and polls for its result until a deadline; the Node   *)
(* worker (render/src/worker.ts, job.ts, storage.ts) renders, uploads and  *)
(* returns.  Either process may stop at any point: the brief is then run   *)
(* again from its start, with a new script but with the job id that the    *)
(* thread has kept if the node had ended, and the job of a worker that     *)
(* stopped is found stalled and handed out again.                          *)
(***************************************************************************)
EXTENDS Integers, FiniteSets

CONSTANTS
  MaxRuns,       \* bound: runs of the brief
  Attempts,      \* attempts of a BullMQ job
  MaxStalled     \* BullMQ: how often a stalled job is handed out again

ASSUME RenderAssumption == MaxRuns \in Nat \ {0} /\ Attempts \in Nat \ {0} /\ MaxStalled \in Nat

VARIABLES
  row,        \* the status of the render_job rows
  bull,       \* the BullMQ jobs
  stored,     \* the jobs whose output key is in the bucket
  asset,      \* the video rows of asset: render_job_id and script
  node,       \* the render node of the brief, in its latest run; the job id kept
  abandoned   \* jobs the node gave up on: deadline passed, or cut off (not in the code)

renderVars == <<row, bull, stored, asset, node, abandoned>>

\* A script, and the row and the job of its video, by the run that has made it.
Jobs == 1..MaxRuns
Asset == [job: Jobs, script: Jobs]
NoJob == [state |-> "none", failed |-> 0, stalled |-> 0, reason |-> FALSE]

RenderTypeOK ==
  /\ row \in [Jobs -> {"none", "queued", "done", "failed"}]
  /\ bull \in [Jobs -> [state: {"none", "waiting", "active", "uploaded", "completed", "failed"},
                        failed: 0..Attempts, stalled: 0..MaxStalled, reason: BOOLEAN]]
  /\ stored \subseteq Jobs /\ asset \subseteq Asset /\ abandoned \subseteq Jobs
  /\ node \in [pc: {"idle", "enqueue", "poll", "ok", "bad", "done", "kept", "failed"},
               run: Jobs, job: 0..MaxRuns, kept: 0..MaxRuns]

RenderInit ==
  /\ row = [j \in Jobs |-> "none"] /\ bull = [j \in Jobs |-> NoJob]
  /\ stored = {} /\ asset = {} /\ abandoned = {} 
  /\ node = [pc |-> "idle", run |-> 1, job |-> 0, kept |-> 0]

\* render_job_id of the thread, or _create_job
CreateRow ==
  /\ node.pc = "idle"
  /\ row' = IF node.kept = 0 THEN [row EXCEPT ![node.run] = "queued"] ELSE row
  /\ node' = [node EXCEPT !.pc = "enqueue", !.job = IF node.kept = 0 THEN node.run ELSE node.kept]
  /\ UNCHANGED <<bull, stored, asset, abandoned>>

\* BullMQ ignores a job whose id it has; the kept one is there with its old props.
Enqueue ==
  /\ node.pc = "enqueue"
  /\ bull' = IF bull[node.job].state = "none" THEN [bull EXCEPT ![node.job].state = "waiting"] ELSE bull
  /\ node' = [node EXCEPT !.pc = "poll"]
  /\ UNCHANGED <<row, stored, asset, abandoned>>

\* get_result, out of the hash of the job: an earlier attempt's failedReason stays
\* in it when a later one returns a value.
Finished(j) == bull[j].state \in {"completed", "failed"}
\* (mutant) whatever is finished is done
ResultUnlessPending(j) == IF Finished(j) THEN "done" ELSE "pending"

Result(j) ==
  IF Finished(j) THEN IF bull[j].reason /\ bull[j].state # "completed" THEN "failed" ELSE "done"
  ELSE "pending"

\* wait_for_render: one round of the loop that ends it; the row is asked, too, but
\* nothing in src but this node ever writes it, and a done one has a finished job.
Poll ==
  /\ node.pc = "poll" /\ Result(node.job) # "pending"
  /\ node' = [node EXCEPT !.pc = IF Result(node.job) = "done" THEN "ok" ELSE "bad"]
  /\ UNCHANGED <<row, bull, stored, asset, abandoned>>

PollTimesOut ==
  /\ node.pc = "poll" /\ Result(node.job) = "pending"
  /\ node' = [node EXCEPT !.pc = "bad"]
  /\ abandoned' = abandoned \cup {node.job}
  /\ UNCHANGED <<row, bull, stored, asset>>

Video == [job |-> node.job, script |-> node.run]

\* (mutant) a failure leaves its row as it is
FinishVideo ==
  /\ node.pc \in {"ok", "bad"}
  /\ row' = IF node.pc = "ok" THEN [row EXCEPT ![node.job] = "done"] ELSE row
  /\ asset' = IF node.pc = "ok" THEN asset \cup {Video} ELSE asset
  /\ node' = [node EXCEPT !.pc = IF node.pc = "ok" THEN "done" ELSE "failed"]
  /\ UNCHANGED <<bull, stored, abandoned>>

\* _finish: the row and, for a video, its asset, in one commit
FinishRender ==
  /\ node.pc \in {"ok", "bad"}
  /\ row' = [row EXCEPT ![node.job] = IF node.pc = "ok" THEN "done" ELSE "failed"]
  /\ asset' = IF node.pc = "ok" THEN asset \cup {Video} ELSE asset
  /\ node' = [node EXCEPT !.pc = IF node.pc = "ok" THEN "done" ELSE "failed"]
  /\ UNCHANGED <<bull, stored, abandoned>>

\* The checkpoint that follows the node keeps the job id in the thread.
KeepJob ==
  /\ node.pc = "done"
  /\ node' = [node EXCEPT !.pc = "kept", !.kept = node.job]
  /\ UNCHANGED <<row, bull, stored, asset, abandoned>>

\* The arq worker stops under the node or under one that follows it, and runs the brief
\* again on the same thread.  A failed brief is not run again.
CutOff ==
  /\ node.pc \notin {"idle", "failed"} /\ node.run < MaxRuns
  /\ node' = [pc |-> "idle", run |-> node.run + 1, job |-> 0, kept |-> node.kept]
  /\ abandoned' = abandoned \cup {node.job}
  /\ UNCHANGED <<row, bull, stored, asset>>

Move(j, state) == bull' = [bull EXCEPT ![j].state = state]

Take(j) ==
  /\ bull[j].state = "waiting"
  /\ \A k \in Jobs : bull[k].state \notin {"active", "uploaded"}      \* concurrency 1
  /\ Move(j, "active")
  /\ UNCHANGED <<row, stored, asset, node, abandoned>>

\* processRenderJob: the upload is its last step
Upload(j) ==
  /\ bull[j].state = "active"
  /\ Move(j, "uploaded")
  /\ stored' = stored \cup {j}
  /\ UNCHANGED <<row, asset, node, abandoned>>

Complete(j) ==
  /\ bull[j].state = "uploaded"
  /\ Move(j, "completed")
  /\ UNCHANGED <<row, stored, asset, node, abandoned>>

\* An invalid payload fails for good; any other error is tried again.
Throw(j) ==
  /\ bull[j].state = "active"
  /\ \E invalid \in BOOLEAN :
       bull' = [bull EXCEPT ![j].reason = TRUE, ![j].failed = @ + 1,
                            ![j].state = IF invalid \/ bull[j].failed + 1 = Attempts
                                         THEN "failed" ELSE "waiting"]
  /\ UNCHANGED <<row, stored, asset, node, abandoned>>

\* The render worker stops.
Stall(j) ==
  /\ bull[j].state \in {"active", "uploaded"}
  /\ bull' = [bull EXCEPT ![j] =
                IF bull[j].stalled < MaxStalled
                THEN [bull[j] EXCEPT !.state = "waiting", !.stalled = bull[j].stalled + 1]
                ELSE [bull[j] EXCEPT !.state = "failed", !.reason = TRUE]]
  /\ UNCHANGED <<row, stored, asset, node, abandoned>>

RenderNext ==
  \/ CreateRow \/ Enqueue \/ Poll \/ PollTimesOut \/ FinishRender
  \/ KeepJob \/ CutOff
  \/ \E j \in Jobs : Take(j) \/ Upload(j) \/ Complete(j) \/ Throw(j) \/ Stall(j)
RenderSpec == RenderInit /\ [][RenderNext]_renderVars

----------------------------------------------------------------------------

\* What the graph goes on with is a video: a row that is done, the asset of its script
\* and the node's result have their file in the bucket, and were never reported as
\* failed, whichever attempts threw, stalled or came late.  A script has the video of
\* an earlier one only after a stop, and only of one that had got its own.
VideoIsThere ==
  /\ \A j \in Jobs : row[j] = "done" <=> [job |-> j, script |-> j] \in asset
  /\ \A a \in asset : a.job \in stored /\ row[a.job] = "done" /\ a.job <= a.script
  /\ node.pc \in {"done", "kept"} => Video \in asset

\* No finished render is lost silently: its row is done, or the node is about to see
\* it, or the node had given it up at its deadline or was cut off; and a row is left
\* queued only under a node at work or one that was cut off.
RenderAccountedFor ==
  \A j \in Jobs :
    /\ bull[j].state = "completed" =>
         row[j] = "done" \/ (node.job = j /\ node.pc \in {"poll", "ok"}) \/ j \in abandoned
    /\ row[j] = "queued" => (node.job = j /\ node.pc # "failed") \/ j \in abandoned

=============================================================================
