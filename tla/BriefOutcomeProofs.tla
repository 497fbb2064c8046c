------------------------- MODULE BriefOutcomeProofs -------------------------
(***************************************************************************)
(* Proofs about where a brief ends, for any number of jobs and requests,   *)
(* any limits and any failures and timeouts, as long as the worker does    *)
(* not crash: what is published is what its video shows, a job that awaits *)
(* the owner is at the interrupt or has just left it by a rejection, a     *)
(* decision is applied once and a published script stays published.  That  *)
(* a retry knows the recorded reason, as long as it is among the rows a    *)
(* run reads, holds after crashes as well.  Without faults, one decision   *)
(* on a job leaves the same story in its hash, row, taste memory and graph. *)
(***************************************************************************)
EXTENDS BriefJobProofs

-----------------------------------------------------------------------------
(* The inductive invariant, job by job *)

Making == {"asset_gen", "render", "vision_qa"}
Late == {"approval", "publish", "end"}

\* The task holds a state of the graph in memory.
Holding(t) == task[t].pc \in {"driving", "decided", "published", "ended"}

\* The brief's own run has been at the interrupt, or is over.
Interrupted(j) ==
  \/ task[j].pc \in {"parked", "popped", "decided", "published", "ended", "finished"}
  \/ /\ task[j].pc = "driving"
     /\ \/ task[j].mem.next = "publish"
        \/ task[j].mem.next = "approval" /\ task[j].arg # NoRequest

\* Decisions are for a job that is beyond the interrupt for the first time.
Beyond(j) == thread[j].next \in Late /\ Interrupted(j)

\* Until it is interrupted the brief's own run is the only one of its thread.
RunOfBrief(j) ==
  /\ job[j].status = "none" => task[j].pc = "none"
  /\ task[j].pc \in {"none", "queued"} => thread[j] = Empty
  /\ task[j].pc \notin {"checked", "marked"}
  /\ Holding(j) /\ ~Interrupted(j) => task[j].mem = thread[j] /\ task[j].arg = NoRequest
  /\ Interrupted(j) /\ task[j].pc # "finished" => thread[j].next \in Late

\* A task that is late shows the video that the thread shows.
MemVideo(t, j) == Holding(t) /\ task[t].mem.next \in Late => task[t].mem.video = thread[j].video

\* The request has asked, or is about to ask, for a resume of its job.
AsksToResume(r) ==
  \/ task[r].pc # "none"
  \/ request[r].pc = "approveRead"
  \/ request[r].pc = "rejectRead" /\ request[r].route = "resumed"

\* It does so only beyond the interrupt, and loads nothing earlier.
ResumeOf(r, j) ==
  /\ AsksToResume(r) => Beyond(j)
  /\ task[r].pc \notin {"parked", "popped"}
  /\ Holding(r) => /\ task[r].mem.next \in {"approval", "publish"}
                   /\ task[r].mem.next = "approval" => task[r].arg # NoRequest
  /\ MemVideo(r, j)

\* The stage says awaiting_approval from the interrupt to the first resume, or to the
\* end of a rejection that waited there.
StageTells(j) ==
  job[j].stage = "awaiting_approval" =>
    /\ Beyond(j)
    /\ \/ /\ thread[j].next = "approval"
          /\ \/ task[j].pc \in {"parked", "popped", "finished"}
             \/ task[j].pc \in {"driving", "decided"} /\ task[j].mem.next = "approval"
       \/ thread[j].next = "end" /\ task[j].pc \in {"ended", "finished"}
    /\ \A r \in Requests : request[r].job = j => task[r].pc \in {"none", "queued", "checked", "finished"}

\* The video is made from the body of the row, which stays as it is from then on.
VideoOf(j) ==
  /\ thread[j].next = "critics" => thread[j].version # 0
  /\ thread[j].next \in Making => thread[j].best # 0 /\ script[j].body = thread[j].best
  /\ thread[j].next \in {"render", "vision_qa"} \cup Late =>
       thread[j].video # 0 /\ script[j].body = thread[j].video
  /\ script[j].status \in Final => thread[j].next \in Late

ResumesOf(j) == \A r \in Requests : request[r].job = j => ResumeOf(r, j)

OutcomeOf(j) ==
  RunOfBrief(j) /\ MemVideo(j, j) /\ ResumesOf(j) /\ StageTells(j) /\ VideoOf(j)

\* What waits for the interrupt is a rejection, and who decided knows what.
Rejections ==
  /\ \A j \in Jobs : pending[j] # NoRequest => request[pending[j]].kind = "reject"
  /\ \A j \in Jobs : task[j].arg # NoRequest => request[task[j].arg].kind = "reject"
  /\ \A t \in Tasks :
       /\ ~Active(t) => task[t].arg = NoRequest
       /\ task[t].pc = "popped" => task[t].arg # NoRequest
       /\ task[t].pc = "decided" =>
            /\ task[t].mem.decision = task[t].arg
            /\ task[t].mem.next = "approval"

\* A task that has decided has left the taste row of its decision.
DecidedLeft == \A t \in Tasks : task[t].pc = "decided" => taste[task[t].arg] > 0

\* Where the stage says awaiting_approval and the thread has ended, a rejection that
\* waited for the interrupt was applied, and its task is about to say so.
JustRejected(j) ==
  job[j].stage = "awaiting_approval" /\ thread[j].next = "end" =>
    \E r \in DecisionsOn(j) :
      /\ request[r].route = "pending" /\ taste[r] > 0 /\ thread[j].decision = r
      /\ faults.timeouts = 0 => task[j].pc = "ended" /\ task[j].arg = r

NoCrash == faults.crashes = 0

\* The task has applied its decision.
Past(t) ==
  \/ task[t].pc \in {"decided", "published", "ended"}
  \/ task[t].pc = "driving" /\ task[t].mem.next = "publish"

\* The decision has not taken effect: it is still being read, or is none at all.
Undecided(r) ==
  request[r].pc \notin {"rejectActed", "done"} \/ request[r].kind \in {"none", "hook"}

\* The pending key, a task or the request's own task has the decision to apply.
Waiting(r) == \E j \in Jobs : pending[j] = r
Carried(r) == Waiting(r) \/ (\E t \in Tasks : task[t].arg = r) \/ task[r].pc # "none"

\* A decision takes one route, along which one task at a time has it, and it
\* leaves its taste row at the end of it.
TasteOf(r) ==
  /\ taste[r] <= 1
  /\ Undecided(r) => ~Carried(r) /\ taste[r] = 0
  /\ request[r].pc = "approveRead" => request[r].route = "none"
  /\ Waiting(r) => request[r].route = "pending"
  /\ task[r].pc # "none" => request[r].route \in {"resumed", "none"}
  /\ \A t \in Tasks : task[t].arg = r =>
       \/ t = r
       \/ t \in Jobs /\ request[r].route = "pending" /\ (task[t].pc = "popped" \/ ~Waiting(r))
  /\ taste[r] > 0 =>
       /\ ~Waiting(r)
       /\ \A t \in Tasks : task[t].arg = r => Past(t)
       /\ task[r].pc \notin {"queued", "checked", "marked"}

\* A retry is made after its rejection, and after the row of one that is recorded.
Known ==
  \A r \in Requests :
    /\ request[r].pc = "rejectActed" /\ request[r].route = "recorded" => taste[r] > 0
    /\ \A j \in Jobs : origin[j] = r =>
         request[r].pc = "done" /\ (request[r].route = "recorded" => taste[r] > 0)

OInv ==
  /\ IInv
  /\ Rejections
  /\ DecidedLeft
  /\ NoCrash => (\A j \in Jobs : OutcomeOf(j) /\ JustRejected(j)) /\ (\A r \in Requests : TasteOf(r))
  /\ Known

-----------------------------------------------------------------------------
(* Names of tasks *)

LEMMA JobTask ==
  ASSUME NEW j \in Jobs
  PROVE  j \in Tasks /\ j \notin Requests /\ JobOf(j) = j
BY BriefAssumption DEF Tasks, JobOf

LEMMA RequestTask ==
  ASSUME NEW r \in Requests
  PROVE  r \in Tasks /\ r \notin Jobs /\ JobOf(r) = request[r].job
BY BriefAssumption DEF Tasks, JobOf

\* An update of the status and the stage of one job leaves the others alone.
LEMMA OneJob ==
  ASSUME TypeOK, NEW j \in Jobs, NEW status, NEW stage
  PROVE  /\ JobSet(j, status, stage)[j].status = status
         /\ JobSet(j, status, stage)[j].stage = stage
         /\ \A k \in Jobs \ {j} : JobSet(j, status, stage)[k] = job[k]
BY DEF TypeOK, JobSet, JobHash

\* What a job's outcome rests on is where it was, except that a request may stop asking,
\* or ask, or enqueue its task, when the job is beyond the interrupt.
LEMMA OnlyRequests ==
  ASSUME NEW j \in Jobs, OutcomeOf(j), thread'[j] = thread[j], task'[j] = task[j],
         job'[j].status = job[j].status, job'[j].stage = job[j].stage,
         script'[j].body = script[j].body,
         script'[j].status \in Final => script[j].status \in Final,
         \A r \in Requests : request'[r].job = j =>
           \/ request[r].job = j /\ task'[r] = task[r] /\ (AsksToResume(r)' => AsksToResume(r))
           \/ task'[r].pc \in {"none", "queued"} /\ (AsksToResume(r)' => Beyond(j))
  PROVE  OutcomeOf(j)'
<1>1. Interrupted(j)' <=> Interrupted(j)
  BY DEF Interrupted
<1>2. Beyond(j)' <=> Beyond(j)
  BY <1>1 DEF Beyond
<1>3. RunOfBrief(j)' /\ MemVideo(j, j)'
  BY <1>1 DEF OutcomeOf, RunOfBrief, MemVideo, Holding
<1>4. ASSUME NEW r \in Requests, request'[r].job = j PROVE ResumeOf(r, j)'
  <2>1. CASE request[r].job = j /\ task'[r] = task[r] /\ (AsksToResume(r)' => AsksToResume(r))
    <3>1. ResumeOf(r, j)
      BY <2>1 DEF OutcomeOf, ResumesOf
    <3>2. QED
      BY <1>2, <2>1, <3>1 DEF ResumeOf, MemVideo, Holding
  <2>2. CASE task'[r].pc \in {"none", "queued"} /\ (AsksToResume(r)' => Beyond(j))
    BY <1>2, <2>2 DEF ResumeOf, MemVideo, Holding
  <2>3. QED
    BY <1>4, <2>1, <2>2
<1>5. StageTells(j)'
  BY <1>2 DEF OutcomeOf, StageTells
<1>6. VideoOf(j)'
  BY DEF OutcomeOf, VideoOf
<1>7. QED
  BY <1>3, <1>4, <1>5, <1>6 DEF OutcomeOf, ResumesOf

\* Before the interrupt nobody asks to resume the job.
LEMMA NobodyAsks ==
  ASSUME NEW j \in Jobs, OutcomeOf(j), ~Beyond(j), NEW r \in Requests, request[r].job = j
  PROVE  task[r].pc = "none" /\ ~AsksToResume(r)
BY DEF OutcomeOf, ResumesOf, ResumeOf, AsksToResume

-----------------------------------------------------------------------------
(* The run before the interrupt *)

\* A task in an early node is the brief's own run, and has its thread in hand.
LEMMA EarlyOwner ==
  ASSUME IInv, NEW t \in Tasks, NEW j \in Jobs, JobOf(t) = j, OutcomeOf(j), task[t].pc = "driving",
         \/ task[t].mem.next \notin {"approval", "publish"}
         \/ task[t].mem.next = "approval" /\ task[t].arg = NoRequest
  PROVE  /\ t = j /\ ~Interrupted(j) /\ task[j].mem = thread[j] /\ task[j].arg = NoRequest
<1>1. t = j
  <2>1. CASE t \in Requests
    BY <2>1, RequestTask DEF OutcomeOf, ResumesOf, ResumeOf, Holding
  <2>2. QED
    BY <2>1, JobTask DEF Tasks, JobOf
<1>2. ~Interrupted(j)
  BY <1>1 DEF Interrupted
<1>3. QED
  BY <1>1, <1>2 DEF OutcomeOf, RunOfBrief, Holding

\* The run goes on to another node before the interrupt.
LEMMA EarlyStep ==
  ASSUME IInv, NEW j \in Jobs, OutcomeOf(j), ~Interrupted(j),
         UNCHANGED request, \A u \in Tasks \ {j} : task'[u] = task[u],
         task'[j].pc = "driving", task'[j].arg = NoRequest, task'[j].mem = thread'[j],
         thread'[j].next \notin {"publish", "end", "none"},
         job'[j].stage # "awaiting_approval", job'[j].status # "none",
         VideoOf(j)'
  PROVE  OutcomeOf(j)'
<1>1. ~Interrupted(j)'
  BY DEF Interrupted
<1>2. RunOfBrief(j)'
  BY <1>1 DEF RunOfBrief, Holding
<1>3. MemVideo(j, j)' /\ StageTells(j)'
  BY DEF MemVideo, StageTells
<1>4. ASSUME NEW r \in Requests, request'[r].job = j PROVE ResumeOf(r, j)'
  <2>1. task[r].pc = "none" /\ ~AsksToResume(r)
    BY <1>4, NobodyAsks DEF Beyond
  <2>2. task'[r] = task[r]
    BY RequestTask
  <2>3. QED
    BY <2>1, <2>2 DEF ResumeOf, AsksToResume, MemVideo, Holding
<1>5. QED
  BY <1>2, <1>3, <1>4 DEF OutcomeOf, ResumesOf

\* A step of a task of job j is none of another job's business.
LEMMA OtherJobs ==
  ASSUME IInv, NEW t \in Tasks, NEW j \in Jobs, JobOf(t) = j, UNCHANGED request,
         \A u \in Tasks \ {t} : task'[u] = task[u],
         \A k \in Jobs \ {j} : job'[k] = job[k] /\ thread'[k] = thread[k] /\ script'[k] = script[k],
         \A k \in Jobs : OutcomeOf(k), OutcomeOf(j)'
  PROVE  \A k \in Jobs : OutcomeOf(k)'
<1> SUFFICES ASSUME NEW k \in Jobs, k # j PROVE OutcomeOf(k)'
  OBVIOUS
<1>1. k \in Tasks /\ k # t
  BY JobTask
<1>2. ASSUME NEW r \in Requests, request'[r].job = k PROVE task'[r] = task[r]
  BY <1>2, RequestTask
<1>3. QED
  BY <1>1, <1>2, OnlyRequests DEF AsksToResume

LEMMA WriterOutcome ==
  ASSUME IInv, NEW t \in Tasks, NEW j \in Jobs, JobOf(t) = j, OutcomeOf(j), Writer(t)
  PROVE  OutcomeOf(j)'
<1> DEFINE m == task[t].mem
           n == thread'[j]
<1>1. task[t].pc = "driving" /\ m.next = "writer" /\ m \in Checkpoints /\ TypeOK
  BY TaskKnowsItsJob DEF Writer, At
<1>2. t = j /\ ~Interrupted(j) /\ m = thread[j] /\ task[j].arg = NoRequest
  BY <1>1, EarlyOwner
<1>3. /\ n.next = "critics" /\ n.version = m.version + 1
      /\ task'[j].pc = "driving" /\ task'[j].arg = NoRequest /\ task'[j].mem = n
      /\ UNCHANGED request /\ \A u \in Tasks \ {j} : task'[u] = task[u]
  BY <1>1, <1>2 DEF Writer, Advance, TaskSet, Checkpoints, TypeOK
<1>4. /\ job'[j].stage = "critics" /\ job'[j].status = job[j].status /\ script'[j].status = "draft"
  BY <1>1 DEF Writer, JobHasScript, ScriptSet, TypeOK, JobHash
<1>5. job[j].status # "none"
  BY <1>1, <1>2 DEF OutcomeOf, RunOfBrief
<1>6. n.version # 0
  BY <1>1, <1>3 DEF Checkpoints
<1>7. VideoOf(j)'
  BY <1>3, <1>4, <1>6 DEF VideoOf, Making, Late, Final
<1>8. QED
  BY <1>2, <1>3, <1>4, <1>5, <1>7, EarlyStep

\* The version that is best after a review is one that was written.
LEMMA BestIsWritten ==
  ASSUME NEW m, m.version # 0, NEW b \in BestAfter(m)
  PROVE  b # 0
BY DEF BestAfter

LEMMA ReviseOutcome ==
  ASSUME IInv, NEW t \in Tasks, NEW j \in Jobs, JobOf(t) = j, OutcomeOf(j), Revise(t)
  PROVE  OutcomeOf(j)'
<1> DEFINE m == task[t].mem
           n == thread'[j]
<1>1. task[t].pc = "driving" /\ m.next = "critics" /\ m \in Checkpoints /\ TypeOK
  BY TaskKnowsItsJob DEF Revise, At
<1>2. t = j /\ ~Interrupted(j) /\ m = thread[j] /\ task[j].arg = NoRequest
  BY <1>1, EarlyOwner
<1>3. PICK b \in BestAfter(m) : Advance(t, "driving", [m EXCEPT !.next = "writer", !.best = b])
  BY DEF Revise
<1>4. /\ n.next = "writer"
      /\ task'[j].pc = "driving" /\ task'[j].arg = NoRequest /\ task'[j].mem = n
      /\ UNCHANGED request /\ \A u \in Tasks \ {j} : task'[u] = task[u]
  BY <1>1, <1>2, <1>3 DEF Revise, Advance, TaskSet, Checkpoints, TypeOK
<1>5. /\ job'[j].stage = "writer" /\ job'[j].status = job[j].status /\ script' = script
  BY <1>1 DEF Revise, JobSet, TypeOK, JobHash
<1>6. job[j].status # "none" /\ script[j].status \notin Final
  BY <1>1, <1>2 DEF OutcomeOf, RunOfBrief, VideoOf, Late
<1>7. VideoOf(j)'
  BY <1>4, <1>5, <1>6 DEF VideoOf, Making, Late
<1>8. QED
  BY <1>2, <1>4, <1>5, <1>6, <1>7, EarlyStep

LEMMA CollectOutcome ==
  ASSUME IInv, NEW t \in Tasks, NEW j \in Jobs, JobOf(t) = j, OutcomeOf(j), Collect(t)
  PROVE  OutcomeOf(j)'
<1> DEFINE m == task[t].mem
           n == thread'[j]
<1>1. task[t].pc = "driving" /\ m.next = "critics" /\ m \in Checkpoints /\ TypeOK
  BY TaskKnowsItsJob DEF Collect, At
<1>2. t = j /\ ~Interrupted(j) /\ m = thread[j] /\ task[j].arg = NoRequest
  BY <1>1, EarlyOwner
<1>3. PICK b \in BestAfter(m), h \in Hooks :
        /\ script' = ScriptSet(JobOf(t), "ready", b, b, h)
        /\ Advance(t, "driving", [m EXCEPT !.next = "asset_gen", !.best = b, !.version = b])
  BY DEF Collect
<1>4. /\ n.next = "asset_gen" /\ n.best = b
      /\ task'[j].pc = "driving" /\ task'[j].arg = NoRequest /\ task'[j].mem = n
      /\ UNCHANGED request /\ \A u \in Tasks \ {j} : task'[u] = task[u]
  <2> DEFINE new == [m EXCEPT !.next = "asset_gen", !.best = b, !.version = b]
  <2>1. new.next = "asset_gen" /\ new.best = b
    BY <1>1 DEF Checkpoints
  <2>2. Advance(t, "driving", new)
    BY <1>3
  <2> HIDE DEF new
  <2>3. /\ n = new /\ task'[j] = [pc |-> "driving", arg |-> NoRequest, mem |-> new]
        /\ \A u \in Tasks \ {j} : task'[u] = task[u]
    BY <1>1, <1>2, <2>2 DEF Advance, TaskSet, TypeOK
  <2>4. UNCHANGED request
    BY DEF Collect
  <2>5. QED
    BY <2>1, <2>3, <2>4
<1>5. /\ job'[j].stage = "asset_gen" /\ job'[j].status = job[j].status
      /\ script'[j].status = "ready" /\ script'[j].body = b
  BY <1>1, <1>3 DEF Collect, JobHasScript, ScriptSet, TypeOK, JobHash
<1>6. job[j].status # "none" /\ b # 0
  BY <1>1, <1>2, BestIsWritten DEF OutcomeOf, RunOfBrief, VideoOf
<1>7. VideoOf(j)'
  BY <1>4, <1>5, <1>6 DEF VideoOf, Making, Late, Final
<1>8. QED
  BY <1>2, <1>4, <1>5, <1>6, <1>7, EarlyStep

LEMMA ProduceOutcome ==
  ASSUME IInv, NEW t \in Tasks, NEW j \in Jobs, JobOf(t) = j, OutcomeOf(j), Produce(t)
  PROVE  OutcomeOf(j)'
<1> DEFINE m == task[t].mem
           n == thread'[j]
<1>1. task[t].pc = "driving" /\ m.next \in Making /\ m \in Checkpoints /\ TypeOK
  BY TaskKnowsItsJob DEF Produce, Making
<1>2. t = j /\ ~Interrupted(j) /\ m = thread[j] /\ task[j].arg = NoRequest
  BY <1>1, EarlyOwner DEF Making
<1>3. /\ n.next \in {"render", "vision_qa", "approval"}
      /\ n.next = "render" <=> m.next = "asset_gen"
      /\ n.best = m.best /\ n.video = (IF m.next = "asset_gen" THEN m.best ELSE m.video)
      /\ task'[j].pc = "driving" /\ task'[j].arg = NoRequest /\ task'[j].mem = n
      /\ UNCHANGED request /\ \A u \in Tasks \ {j} : task'[u] = task[u]
  <2> DEFINE next == [asset_gen |-> "render", render |-> "vision_qa", vision_qa |-> "approval"]
             new == [m EXCEPT !.next = next[m.next],
                              !.video = IF m.next = "asset_gen" THEN m.best ELSE m.video]
  <2>1. Advance(t, "driving", new) /\ UNCHANGED request
    BY DEF Produce
  <2>2. /\ next[m.next] \in {"render", "vision_qa", "approval"}
        /\ next[m.next] = "render" <=> m.next = "asset_gen"
    BY <1>1 DEF Making
  <2>3. /\ new.next = next[m.next] /\ new.best = m.best
        /\ new.video = (IF m.next = "asset_gen" THEN m.best ELSE m.video)
    BY <1>1 DEF Checkpoints
  <2> HIDE DEF new, next
  <2>4. /\ n = new /\ task'[j] = [pc |-> "driving", arg |-> NoRequest, mem |-> new]
        /\ \A u \in Tasks \ {j} : task'[u] = task[u]
    BY <1>1, <1>2, <2>1 DEF Advance, TaskSet, TypeOK
  <2>5. QED
    BY <2>1, <2>2, <2>3, <2>4
<1>4. /\ job'[j].stage \in {"render", "vision_qa", "approval"} /\ job'[j].status = job[j].status
      /\ script' = script
  BY <1>1 DEF Produce, JobSet, TypeOK, JobHash
<1>5. job[j].status # "none" /\ script[j].status \notin Final
  BY <1>1, <1>2 DEF OutcomeOf, RunOfBrief, VideoOf, Late, Making
<1>6. VideoOf(j)
  BY DEF OutcomeOf
<1>7. VideoOf(j)'
  BY <1>1, <1>2, <1>3, <1>4, <1>5, <1>6 DEF VideoOf, Making, Late
<1>8. QED
  BY <1>2, <1>3, <1>4, <1>5, <1>7, EarlyStep

LEMMA StartRunOutcome ==
  ASSUME IInv, NEW j \in Jobs, OutcomeOf(j), StartRun(j)
  PROVE  OutcomeOf(j)'
<1>1. TypeOK /\ task[j].pc = "queued" /\ thread[j] = Empty /\ ~Interrupted(j)
  BY DEF IInv, StartRun, OutcomeOf, RunOfBrief, Interrupted
<1>2. /\ thread'[j].next = "writer"
      /\ task'[j].pc = "driving" /\ task'[j].arg = NoRequest /\ task'[j].mem = thread'[j]
      /\ UNCHANGED request /\ \A u \in Tasks \ {j} : task'[u] = task[u]
  BY <1>1, JobTask DEF StartRun, TaskSet, TypeOK, Empty
<1>3. job'[j].stage = "writer" /\ job'[j].status = "running" /\ script' = script
  BY <1>1 DEF StartRun, JobSet, TypeOK, JobHash
<1>4. script[j].status \notin Final
  BY <1>1 DEF OutcomeOf, VideoOf, Late, Empty
<1>5. VideoOf(j)'
  BY <1>2, <1>3, <1>4 DEF VideoOf, Making, Late
<1>6. QED
  BY <1>1, <1>2, <1>3, <1>5, EarlyStep

-----------------------------------------------------------------------------
(* The run at the interrupt and after it, and the resumes *)

\* A run that was interrupted has a job that was created.
LEMMA Begun ==
  ASSUME NEW j \in Jobs, OutcomeOf(j), Interrupted(j)
  PROVE  job[j].status # "none"
BY DEF OutcomeOf, RunOfBrief, Interrupted

\* A task that is late has a job that is beyond the interrupt.
LEMMA LateTask ==
  ASSUME NEW t \in Tasks, NEW j \in Jobs, JobOf(t) = j, OutcomeOf(j),
         \/ task[t].pc \in {"popped", "parked", "decided", "published", "ended"}
         \/ t \in Requests /\ task[t].pc # "none"
         \/ task[t].pc = "driving" /\ task[t].mem.next = "publish"
         \/ task[t].pc = "driving" /\ task[t].mem.next = "approval" /\ task[t].arg # NoRequest
  PROVE  /\ Beyond(j) /\ job[j].status # "none"
         /\ task[t].pc \in {"popped", "parked"} => t = j
<1>1. CASE t = j
  <2>1. Interrupted(j) /\ task[j].pc # "finished"
    BY <1>1, JobTask DEF Interrupted
  <2>2. QED
    BY <1>1, <2>1, Begun DEF OutcomeOf, RunOfBrief, Beyond
<1>2. CASE t \in Requests
  <2>1. task[t].pc # "none" /\ request[t].job = j
    BY <1>2, RequestTask
  <2>2. ResumeOf(t, j)
    BY <1>2, <2>1 DEF OutcomeOf, ResumesOf
  <2>3. Beyond(j) /\ task[t].pc \notin {"popped", "parked"}
    BY <2>1, <2>2 DEF ResumeOf, AsksToResume
  <2>4. QED
    BY <2>3, Begun DEF Beyond
<1>3. QED
  BY <1>1, <1>2, JobTask DEF Tasks, JobOf

\* The stage no longer says awaiting_approval once a resume of the job runs.
LEMMA StageBefore ==
  ASSUME NEW t \in Tasks, NEW j \in Jobs, JobOf(t) = j, OutcomeOf(j),
         \/ task[t].pc \in {"marked", "published"}
         \/ task[t].pc = "driving" /\ task[t].mem.next = "publish"
         \/ t \in Requests /\ task[t].pc \in {"driving", "decided", "ended"}
  PROVE  job[j].stage # "awaiting_approval"
<1>1. CASE t = j
  BY <1>1, JobTask DEF OutcomeOf, StageTells
<1>2. CASE t \in Requests
  BY <1>2, RequestTask DEF OutcomeOf, StageTells
<1>3. QED
  BY <1>1, <1>2, JobTask DEF Tasks, JobOf

\* A task of a job that is beyond the interrupt goes on.
LEMMA LateStep ==
  ASSUME NEW t \in Tasks, NEW j \in Jobs, JobOf(t) = j, OutcomeOf(j), UNCHANGED request,
         \A u \in Tasks \ {t} : task'[u] = task[u],
         thread[j].next \in Late, Beyond(j)', thread'[j].video = thread[j].video,
         script'[j].body = script[j].body, job'[j].status # "none",
         MemVideo(t, j)', StageTells(j)',
         t \in Requests => /\ task'[t].pc \notin {"parked", "popped"}
                           /\ Holding(t)' =>
                                /\ task'[t].mem.next \in {"approval", "publish"}
                                /\ task'[t].mem.next = "approval" => task'[t].arg # NoRequest
  PROVE  OutcomeOf(j)'
<1>1. RunOfBrief(j)'
  BY DEF RunOfBrief, Beyond, Interrupted
<1>2. MemVideo(j, j)'
  BY JobTask DEF OutcomeOf, MemVideo, Holding
<1>3. ASSUME NEW r \in Requests, request'[r].job = j PROVE ResumeOf(r, j)'
  <2>1. CASE r = t
    BY <2>1 DEF ResumeOf
  <2>2. CASE r # t
    <3>1. task'[r] = task[r] /\ ResumeOf(r, j)
      BY <1>3, <2>2, RequestTask DEF OutcomeOf, ResumesOf
    <3>2. QED
      BY <3>1 DEF ResumeOf, MemVideo, Holding
  <2>3. QED
    BY <2>1, <2>2
<1>4. VideoOf(j)'
  BY DEF OutcomeOf, VideoOf, Beyond, Late, Making
<1>5. QED
  BY <1>1, <1>2, <1>3, <1>4 DEF OutcomeOf, ResumesOf

\* A task that fails or is cut off leaves the outcome as it is.
LEMMA FaultOutcome ==
  ASSUME IInv, NEW t \in Tasks, NEW j \in Jobs, JobOf(t) = j, OutcomeOf(j),
         NodeFails(t) \/ TimesOut(t)
  PROVE  OutcomeOf(j)'
<1>1. TypeOK /\ task[t].pc \notin {"none", "queued"}
  BY DEF IInv, NodeFails, TimesOut, Active
<1>2. /\ task'[t] = [pc |-> "finished", arg |-> NoRequest, mem |-> Empty]
      /\ \A u \in Tasks \ {t} : task'[u] = task[u]
  BY <1>1, OneTaskIdle DEF NodeFails, TimesOut
<1>3. UNCHANGED <<thread, script, request>>
  BY DEF NodeFails, TimesOut
<1>4. job'[j].stage = job[j].stage /\ job'[j].status \in {job[j].status, "failed"}
  BY <1>1, OneJob DEF NodeFails, TimesOut
<1>5. Beyond(j) => Beyond(j)'
  BY <1>2, <1>3, JobTask DEF Beyond, Interrupted
<1>6. RunOfBrief(j)' /\ MemVideo(j, j)'
  <2>1. job'[j].status = "none" => job[j].status = "none"
    BY <1>4
  <2>2. CASE t = j
    <3>1. job[j].status # "none"
      BY <1>1, <2>2 DEF OutcomeOf, RunOfBrief
    <3>2. QED
      BY <1>2, <2>1, <2>2, <3>1 DEF RunOfBrief, MemVideo, Holding
  <2>3. CASE t # j
    <3>1. task'[j] = task[j]
      BY <1>2, <2>3, JobTask
    <3>2. QED
      BY <1>3, <2>1, <3>1 DEF OutcomeOf, RunOfBrief, MemVideo, Holding, Interrupted
  <2>4. QED
    BY <2>2, <2>3
<1>7. ASSUME NEW r \in Requests, request'[r].job = j PROVE ResumeOf(r, j)'
  <2>1. ResumeOf(r, j) /\ r \in Tasks
    BY <1>3, <1>7, RequestTask DEF OutcomeOf, ResumesOf
  <2>2. CASE r = t
    BY <1>1, <1>2, <1>3, <1>5, <2>1, <2>2 DEF ResumeOf, AsksToResume, MemVideo, Holding
  <2>3. CASE r # t
    BY <1>2, <1>3, <1>5, <2>1, <2>3 DEF ResumeOf, AsksToResume, MemVideo, Holding
  <2>4. QED
    BY <2>2, <2>3
<1>8. StageTells(j)'
  BY <1>2, <1>3, <1>4, <1>5, JobTask, RequestTask DEF OutcomeOf, StageTells
<1>9. VideoOf(j)'
  BY <1>3 DEF OutcomeOf, VideoOf
<1>10. QED
  BY <1>6, <1>7, <1>8, <1>9 DEF OutcomeOf, ResumesOf

\* A task that loads its thread ends, or holds the decision or none.
LEMMA LoadedTask ==
  ASSUME TypeOK, NEW t \in Tasks, NEW d, Load(t, d)
  PROVE  \/ task'[t].pc = "finished" /\ task'[t].arg = NoRequest
         \/ task'[t].pc = "driving" /\ task'[t].arg \in {d, NoRequest}
<1>1. CASE task' = TaskIdle(t, "finished")
  BY <1>1 DEF TaskIdle, TaskSet, TypeOK
<1>2. ASSUME NEW arg \in {d, NoRequest}, NEW mem, task' = TaskSet(t, "driving", arg, mem)
      PROVE  task'[t].pc = "driving" /\ task'[t].arg \in {d, NoRequest}
  BY <1>2 DEF TaskSet, TypeOK
<1>3. QED
  BY <1>1, <1>2 DEF Load

\* The graph has reached its end.
LEMMA EndsRun ==
  ASSUME TypeOK, NEW t \in Tasks, NEW j \in Jobs, JobOf(t) = j, End(t)
  PROVE  /\ thread'[j].next = "end" /\ thread'[j].video = task[t].mem.video
         /\ task'[t].pc = "ended" /\ task'[t].arg = task[t].arg /\ task'[t].mem = task[t].mem
         /\ \A u \in Tasks \ {t} : task'[u] = task[u]
<1> DEFINE new == [task[t].mem EXCEPT !.next = "end"]
<1>1. new.next = "end" /\ new.video = task[t].mem.video
  BY DEF TypeOK, TaskState, Checkpoints
<1>2. thread' = [thread EXCEPT ![JobOf(t)] = new]
  BY DEF End
<1>3. /\ task'[t] = [pc |-> "ended", arg |-> task[t].arg, mem |-> task[t].mem]
      /\ \A u \in Tasks \ {t} : task'[u] = task[u]
  BY DEF End, TaskSet, TypeOK
<1> HIDE DEF new
<1>4. thread'[j] = new
  BY <1>2 DEF TypeOK
<1>5. QED
  BY <1>1, <1>3, <1>4

LEMMA InterruptOutcome ==
  ASSUME IInv, NEW t \in Tasks, NEW j \in Jobs, JobOf(t) = j, OutcomeOf(j), Interrupt(t)
  PROVE  OutcomeOf(j)'
<1>1. TypeOK /\ At(t, "approval") /\ task[t].arg = NoRequest
  BY DEF IInv, Interrupt
<1>2. t = j /\ ~Interrupted(j) /\ task[j].mem = thread[j]
  BY <1>1, EarlyOwner DEF At
<1>3. /\ task'[t] = [pc |-> "parked", arg |-> NoRequest, mem |-> Empty]
      /\ \A u \in Tasks \ {t} : task'[u] = task[u]
      /\ UNCHANGED <<thread, script, request>>
      /\ job'[j].stage = "awaiting_approval" /\ job'[j].status = "done"
  BY <1>1, OneTaskIdle, OneJob DEF Interrupt
<1>4. thread[j].next = "approval" /\ Beyond(j)'
  BY <1>1, <1>2, <1>3 DEF At, Beyond, Interrupted, Late
<1>5. MemVideo(t, j)'
  BY <1>3 DEF MemVideo, Holding
<1>6. StageTells(j)'
  <2>1. ASSUME NEW r \in Requests, request[r].job = j PROVE task'[r].pc = "none"
    BY <1>2, <1>3, <2>1, NobodyAsks, RequestTask DEF Beyond
  <2>2. QED
    BY <1>2, <1>3, <1>4, <2>1 DEF StageTells
<1>7. QED
  BY <1>2, <1>3, <1>4, <1>5, <1>6, JobTask, LateStep DEF Late

LEMMA GetPendingOutcome ==
  ASSUME IInv, NEW t \in Tasks, NEW j \in Jobs, JobOf(t) = j, OutcomeOf(j), GetPending(t)
  PROVE  OutcomeOf(j)'
<1>1. TypeOK /\ task[t].pc = "parked"
  BY DEF IInv, GetPending
<1>2. t = j /\ Beyond(j) /\ job[j].status # "none"
  BY <1>1, LateTask
<1>3. /\ task'[t].pc \in {"popped", "finished"}
      /\ \A u \in Tasks \ {t} : task'[u] = task[u]
      /\ UNCHANGED <<job, thread, script, request>>
  <2> DEFINE pc == IF pending[JobOf(t)] = NoRequest THEN "finished" ELSE "popped"
  <2>1. task' = TaskSet(t, pc, pending[JobOf(t)], Empty) /\ UNCHANGED <<job, thread, script, request>>
    BY DEF GetPending
  <2>2. pc \in {"popped", "finished"}
    OBVIOUS
  <2> HIDE DEF pc
  <2>3. QED
    BY <1>1, <2>1, <2>2 DEF TaskSet, TypeOK
<1>4. Beyond(j)' /\ MemVideo(t, j)'
  BY <1>2, <1>3 DEF Beyond, Interrupted, MemVideo, Holding
<1>5. StageTells(j)'
  BY <1>1, <1>2, <1>3, <1>4, JobTask, RequestTask DEF OutcomeOf, StageTells
<1>6. QED
  BY <1>2, <1>3, <1>4, <1>5, JobTask, LateStep DEF Beyond

\* A task that loads a thread beyond the interrupt has its state, and the decision if it
\* is still the next thing to take.
LEMMA LoadLate ==
  ASSUME TypeOK, NEW t \in Tasks, NEW j \in Jobs, JobOf(t) = j, thread[j].next \in Late,
         NEW d, d # NoRequest, Load(t, d)
  PROVE  /\ \A u \in Tasks \ {t} : task'[u] = task[u]
         /\ \/ task'[t].pc = "finished" /\ thread[j].next = "end"
            \/ /\ task'[t].pc = "driving" /\ task'[t].mem = thread[j]
               /\ thread[j].next \in {"approval", "publish"}
               /\ thread[j].next = "approval" => task'[t].arg # NoRequest
<1>1. CASE thread[j].next = "end"
  <2>1. task' = TaskIdle(t, "finished")
    BY <1>1 DEF Load
  <2>2. task'[t].pc = "finished" /\ \A u \in Tasks \ {t} : task'[u] = task[u]
    BY <2>1 DEF TaskIdle, TaskSet, TypeOK
  <2>3. QED
    BY <1>1, <2>2
<1>2. CASE thread[j].next \in {"approval", "publish"}
  <2> DEFINE c == thread[JobOf(t)]
           arg == IF c.next = "approval" THEN d ELSE NoRequest
  <2>1. task' = TaskSet(t, "driving", arg, c)
    <3>1. ~(c.next \in {"none", "end"})
      BY <1>2
    <3>2. QED
      BY <3>1, Zenon DEF Load
  <2>2. /\ task'[t] = [pc |-> "driving", arg |-> arg, mem |-> c]
        /\ \A u \in Tasks \ {t} : task'[u] = task[u]
    <3> HIDE DEF arg, c
    <3>1. QED
      BY <2>1 DEF TaskSet, TypeOK
  <2>3. QED
    BY <1>2, <2>2
<1>3. QED
  BY <1>1, <1>2 DEF Late

LEMMA DeletePendingOutcome ==
  ASSUME IInv, NEW t \in Tasks, NEW j \in Jobs, JobOf(t) = j, OutcomeOf(j), Rejections, DeletePending(t)
  PROVE  OutcomeOf(j)'
<1>1. TypeOK /\ task[t].pc = "popped" /\ task[t].arg # NoRequest
  BY DEF IInv, DeletePending, Rejections
<1>2. t = j /\ Beyond(j) /\ job[j].status # "none"
  BY <1>1, LateTask
<1>3. UNCHANGED <<job, thread, script, request>> /\ Load(t, task[t].arg)
  BY DEF DeletePending
<1>4. /\ \A u \in Tasks \ {t} : task'[u] = task[u]
      /\ \/ task'[t].pc = "finished" /\ thread[j].next = "end"
         \/ /\ task'[t].pc = "driving" /\ task'[t].mem = thread[j]
            /\ thread[j].next \in {"approval", "publish"}
            /\ thread[j].next = "approval" => task'[t].arg # NoRequest
  BY <1>1, <1>2, <1>3, LoadLate DEF Beyond
<1>5. Beyond(j)' /\ MemVideo(t, j)'
  BY <1>2, <1>3, <1>4 DEF Beyond, Interrupted, MemVideo, Holding
<1>6. StageTells(j)'
  BY <1>2, <1>3, <1>4, <1>5, JobTask, RequestTask DEF OutcomeOf, StageTells
<1>7. QED
  BY <1>2, <1>3, <1>4, <1>5, <1>6, JobTask, LateStep DEF Beyond

LEMMA DecideOutcome ==
  ASSUME IInv, NEW t \in Tasks, NEW j \in Jobs, JobOf(t) = j, OutcomeOf(j), Decide(t)
  PROVE  OutcomeOf(j)'
<1>1. TypeOK /\ At(t, "approval") /\ task[t].arg # NoRequest /\ task[t].mem \in Checkpoints
  BY DEF IInv, Decide, TypeOK, TaskState
<1>2. Beyond(j) /\ job[j].status # "none"
  BY <1>1, LateTask DEF At
<1>3. /\ \A u \in Tasks \ {t} : task'[u] = task[u]
      /\ task'[t].pc = "decided" /\ task'[t].arg = task[t].arg
      /\ task'[t].mem.next = "approval" /\ task'[t].mem.video = task[t].mem.video
  <2> DEFINE mem == [task[t].mem EXCEPT !.decision = task[t].arg]
  <2>1. mem.next = "approval" /\ mem.video = task[t].mem.video
    BY <1>1 DEF At, Checkpoints
  <2>2. task' = TaskSet(t, "decided", task[t].arg, mem)
    BY DEF Decide
  <2> HIDE DEF mem
  <2>3. /\ task'[t] = [pc |-> "decided", arg |-> task[t].arg, mem |-> mem]
        /\ \A u \in Tasks \ {t} : task'[u] = task[u]
    BY <1>1, <2>2 DEF TaskSet, TypeOK
  <2>4. QED
    BY <2>1, <2>3
<1>4. UNCHANGED <<job, thread, request>>
  BY DEF Decide
<1>5. script'[j].body = script[j].body
  BY <1>1 DEF Decide, StatusSet, TypeOK, ScriptRow
<1>6. Beyond(j)'
  BY <1>2, <1>3, <1>4, JobTask DEF Beyond, Interrupted
<1>7. MemVideo(t, j)'
  <2>1. MemVideo(t, j)
    BY RequestTask, JobTask DEF OutcomeOf, ResumesOf, ResumeOf, Tasks, JobOf
  <2>2. QED
    BY <1>1, <1>3, <1>4, <2>1 DEF MemVideo, Holding, At, Late
<1>8. StageTells(j)'
  <2>1. CASE t = j
    BY <1>1, <1>3, <1>4, <1>6, <2>1, JobTask, RequestTask DEF OutcomeOf, StageTells, At
  <2>2. CASE t \in Requests
    BY <1>1, <1>4, <2>2, StageBefore DEF At, StageTells
  <2>3. QED
    BY <2>1, <2>2 DEF Tasks, JobOf
<1>9. QED
  BY <1>1, <1>2, <1>3, <1>4, <1>5, <1>6, <1>7, <1>8, LateStep DEF Beyond

LEMMA DecidedOutcome ==
  ASSUME IInv, NEW t \in Tasks, NEW j \in Jobs, JobOf(t) = j, OutcomeOf(j), Rejections, Decided(t)
  PROVE  OutcomeOf(j)'
<1> DEFINE m == task[t].mem
<1>1. /\ TypeOK /\ task[t].pc = "decided" /\ Active(t) /\ m \in Checkpoints
      /\ m.decision = task[t].arg /\ m.next = "approval"
  BY DEF IInv, Decided, TypeOK, TaskState, Active, Rejections
<1>2. Beyond(j) /\ job[j].status # "none"
  BY <1>1, LateTask
<1>3. m.video = thread[j].video
  BY <1>1, RequestTask, JobTask DEF OutcomeOf, ResumesOf, ResumeOf, Tasks, JobOf, MemVideo, Holding, Late
<1>4. UNCHANGED <<job, script, request>> /\ m.decision # NoRequest
  <2>1. m.decision # NoRequest
    BY <1>1, RunningTask DEF TaskHolds
  <2>2. QED
    BY <2>1 DEF Decided
<1>5. CASE request[m.decision].kind = "reject" /\ End(t)
  <2>1. /\ thread'[j].next = "end" /\ thread'[j].video = m.video
        /\ task'[t].pc = "ended" /\ task'[t].arg = task[t].arg /\ task'[t].mem = m
        /\ \A u \in Tasks \ {t} : task'[u] = task[u]
    BY <1>1, <1>5, EndsRun
  <2>2. Beyond(j)' /\ MemVideo(t, j)'
    BY <1>2, <1>3, <2>1, JobTask DEF Beyond, Interrupted, Late, MemVideo, Holding
  <2>3. StageTells(j)'
    <3>1. CASE t = j
      <4>1. \A r \in Requests : task'[r] = task[r]
        BY <2>1, <3>1, JobTask, RequestTask
      <4>2. QED
        BY <1>4, <2>1, <2>2, <3>1, <4>1 DEF OutcomeOf, StageTells
    <3>2. CASE t \in Requests
      BY <1>1, <1>4, <3>2, StageBefore DEF StageTells
    <3>3. QED
      BY <3>1, <3>2 DEF Tasks, JobOf
  <2>4. QED
    BY <1>1, <1>2, <1>3, <1>4, <2>1, <2>2, <2>3, LateStep DEF Beyond, Holding
<1>6. CASE /\ request[m.decision].kind # "reject"
           /\ Advance(t, "driving", [m EXCEPT !.next = "publish"])
  <2>1. t \in Requests
    BY <1>1, <1>4, <1>6 DEF Rejections, Tasks
  <2>2. job[j].stage # "awaiting_approval"
    BY <1>1, <2>1, StageBefore
  <2>3. /\ thread'[j].next = "publish" /\ thread'[j].video = m.video
        /\ task'[t].pc = "driving" /\ task'[t].mem = thread'[j]
        /\ \A u \in Tasks \ {t} : task'[u] = task[u]
    <3> DEFINE new == [m EXCEPT !.next = "publish"]
    <3>1. new.next = "publish" /\ new.video = m.video
      BY <1>1 DEF Checkpoints
    <3>2. Advance(t, "driving", new)
      BY <1>6
    <3> HIDE DEF new
    <3>3. /\ thread'[j] = new /\ task'[t] = [pc |-> "driving", arg |-> task[t].arg, mem |-> new]
          /\ \A u \in Tasks \ {t} : task'[u] = task[u]
      BY <1>1, <3>2 DEF Advance, TaskSet, TypeOK
    <3>4. QED
      BY <3>1, <3>3
  <2>4. Beyond(j)' /\ MemVideo(t, j)' /\ StageTells(j)'
    BY <1>2, <1>4, <1>6, <2>1, <2>2, <2>3, JobTask, RequestTask
       DEF Beyond, Interrupted, Late, MemVideo, Holding, StageTells
  <2>5. QED
    BY <1>2, <1>3, <1>4, <1>6, <2>3, <2>4, LateStep DEF Beyond
<1>7. QED
  BY <1>5, <1>6 DEF Decided

LEMMA PublishOutcome ==
  ASSUME IInv, NEW t \in Tasks, NEW j \in Jobs, JobOf(t) = j, OutcomeOf(j), Publish(t)
  PROVE  OutcomeOf(j)'
<1>1. TypeOK /\ At(t, "publish") /\ task[t].mem \in Checkpoints
  BY DEF IInv, Publish, TypeOK, TaskState
<1>2. Beyond(j) /\ job[j].status # "none" /\ job[j].stage # "awaiting_approval"
  BY <1>1, LateTask, StageBefore DEF At
<1>3. /\ task'[t] = [pc |-> "published", arg |-> task[t].arg, mem |-> task[t].mem]
      /\ \A u \in Tasks \ {t} : task'[u] = task[u]
  BY <1>1 DEF Publish, TaskSet, TypeOK
<1>4. UNCHANGED <<job, thread, request>> /\ script'[j].body = script[j].body
  BY <1>1 DEF Publish, ScriptSet, TypeOK
<1>5. Beyond(j)' /\ StageTells(j)'
  BY <1>2, <1>3, <1>4, JobTask DEF Beyond, Interrupted, StageTells
<1>6. MemVideo(t, j)'
  <2>1. MemVideo(t, j)
    BY RequestTask, JobTask DEF OutcomeOf, ResumesOf, ResumeOf, Tasks, JobOf
  <2>2. QED
    BY <1>1, <1>3, <1>4, <2>1 DEF MemVideo, Holding, At, Late
<1>7. QED
  BY <1>1, <1>2, <1>3, <1>4, <1>5, <1>6, LateStep DEF Beyond, At

LEMMA PublishedOutcome ==
  ASSUME IInv, NEW t \in Tasks, NEW j \in Jobs, JobOf(t) = j, OutcomeOf(j), Published(t)
  PROVE  OutcomeOf(j)'
<1> DEFINE m == task[t].mem
<1>1. /\ TypeOK /\ task[t].pc = "published" /\ Active(t)
      /\ End(t) /\ UNCHANGED <<script, request>>
  BY DEF IInv, Published, Active
<1>2. Beyond(j) /\ job[j].status # "none"
  BY <1>1, LateTask
<1>3. m.video = thread[j].video
  <2>1. m.next = "publish"
    BY <1>1, RunningTask DEF TaskHolds
  <2>2. QED
    BY <1>1, <2>1, RequestTask, JobTask
       DEF OutcomeOf, ResumesOf, ResumeOf, Tasks, JobOf, MemVideo, Holding, Late
<1>4. /\ thread'[j].next = "end" /\ thread'[j].video = m.video
      /\ task'[t].pc = "ended" /\ task'[t].arg = task[t].arg /\ task'[t].mem = m
      /\ \A u \in Tasks \ {t} : task'[u] = task[u]
  BY <1>1, EndsRun
<1>5. UNCHANGED job /\ job[j].stage # "awaiting_approval"
  BY <1>1, StageBefore DEF Published
<1>6. Beyond(j)' /\ MemVideo(t, j)' /\ StageTells(j)'
  BY <1>2, <1>3, <1>4, <1>5, JobTask DEF Beyond, Interrupted, Late, MemVideo, Holding, StageTells
<1>7. t \in Requests => m.next = "publish"
  BY <1>1, RunningTask DEF TaskHolds
<1>8. QED
  BY <1>1, <1>2, <1>3, <1>4, <1>5, <1>6, <1>7, LateStep DEF Beyond, Holding

LEMMA SettleOutcome ==
  ASSUME IInv, NEW t \in Tasks, NEW j \in Jobs, JobOf(t) = j, OutcomeOf(j), Settle(t)
  PROVE  OutcomeOf(j)'
<1> DEFINE final == [reject |-> "rejected", approve |-> "published", schedule |-> "scheduled"]
           kind  == request[task[t].mem.decision].kind
<1>1. TypeOK /\ task[t].pc = "ended" /\ UNCHANGED <<thread, script, request>>
  BY DEF IInv, Settle
<1>2. Beyond(j) /\ job[j].status # "none"
  BY <1>1, LateTask
<1>3. /\ task'[t] = [pc |-> "finished", arg |-> NoRequest, mem |-> Empty]
      /\ \A u \in Tasks \ {t} : task'[u] = task[u]
  BY <1>1, OneTaskIdle DEF Settle
<1>4. job'[j].status = "done" /\ job'[j].stage # "awaiting_approval"
  <2>1. job' = JobSet(j, "done", final[kind]) /\ kind \in {"reject", "approve", "schedule"}
    BY DEF Settle
  <2>2. final[kind] # "awaiting_approval"
    BY <2>1
  <2> HIDE DEF final, kind
  <2>3. QED
    BY <1>1, <2>1, <2>2, OneJob
<1>5. Beyond(j)' /\ MemVideo(t, j)' /\ StageTells(j)'
  BY <1>1, <1>2, <1>3, <1>4, JobTask DEF Beyond, Interrupted, Late, MemVideo, Holding, StageTells
<1>6. QED
  BY <1>1, <1>2, <1>3, <1>4, <1>5, LateStep DEF Beyond, Holding

LEMMA ResumeOutcome ==
  ASSUME IInv, NEW r \in Requests, NEW j \in Jobs, JobOf(r) = j, OutcomeOf(j), Resume(r)
  PROVE  OutcomeOf(j)'
<1>1. TypeOK /\ r \in Tasks /\ request[r].job = j /\ task[r].pc \in {"queued", "checked", "marked"}
  BY RequestTask DEF IInv, Resume, CheckResume, MarkResume, LoadResume
<1>2. Beyond(j) /\ job[j].status # "none"
  BY <1>1, LateTask
<1>3. UNCHANGED <<thread, script, request>>
  BY DEF Resume, CheckResume, MarkResume, LoadResume
<1>4. CASE CheckResume(r)
  <2>1. UNCHANGED job /\ task'[r].pc \in {"finished", "checked"}
        /\ \A u \in Tasks \ {r} : task'[u] = task[u]
    BY <1>1, <1>4 DEF CheckResume, TaskIdle, TaskSet, TypeOK
  <2>2. Beyond(j)' /\ MemVideo(r, j)'
    BY <1>1, <1>2, <1>3, <2>1, RequestTask, JobTask DEF Beyond, Interrupted, MemVideo, Holding
  <2>3. StageTells(j)'
    BY <1>1, <1>3, <2>1, <2>2, JobTask, RequestTask DEF OutcomeOf, StageTells
  <2>4. QED
    BY <1>1, <1>2, <1>3, <2>1, <2>2, <2>3, LateStep DEF Beyond, Holding
<1>5. CASE MarkResume(r)
  <2>1. /\ task'[r].pc = "marked" /\ \A u \in Tasks \ {r} : task'[u] = task[u]
        /\ job'[j].status = "running" /\ job'[j].stage = "publish"
    <3>1. job' = JobSet(j, "running", "publish") /\ task' = TaskIdle(r, "marked")
      BY <1>1, <1>5 DEF MarkResume
    <3>2. QED
      BY <1>1, <3>1 DEF JobSet, JobHash, TaskIdle, TaskSet, TypeOK
  <2>2. Beyond(j)' /\ MemVideo(r, j)' /\ StageTells(j)'
    BY <1>1, <1>2, <1>3, <2>1, RequestTask, JobTask DEF Beyond, Interrupted, MemVideo, Holding, StageTells
  <2>3. QED
    BY <1>1, <1>2, <1>3, <2>1, <2>2, LateStep DEF Beyond, Holding
<1>6. CASE LoadResume(r)
  <2>1. UNCHANGED job /\ Load(r, r) /\ task[r].pc = "marked"
    BY <1>6 DEF LoadResume
  <2>2. r # NoRequest /\ job[j].stage # "awaiting_approval"
    BY <1>1, <2>1, StageBefore, BriefAssumption
  <2>3. /\ \A u \in Tasks \ {r} : task'[u] = task[u]
        /\ \/ task'[r].pc = "finished" /\ thread[j].next = "end"
           \/ /\ task'[r].pc = "driving" /\ task'[r].mem = thread[j]
              /\ thread[j].next \in {"approval", "publish"}
              /\ thread[j].next = "approval" => task'[r].arg # NoRequest
    BY <1>1, <1>2, <2>1, <2>2, LoadLate DEF Beyond
  <2>4. Beyond(j)' /\ MemVideo(r, j)' /\ StageTells(j)'
    BY <1>1, <1>2, <1>3, <2>1, <2>2, <2>3, RequestTask, JobTask
       DEF Beyond, Interrupted, MemVideo, Holding, StageTells
  <2>5. QED
    BY <1>1, <1>2, <1>3, <2>1, <2>3, <2>4, LateStep DEF Beyond, Holding
<1>7. QED
  BY <1>4, <1>5, <1>6 DEF Resume

-----------------------------------------------------------------------------
(* The handlers *)

\* A request that has read nothing yet has no task.
LEMMA IdleHasNoTask ==
  ASSUME IInv, NEW r \in Requests, request[r].pc = "idle"
  PROVE  task[r].pc = "none"
BY DEF IInv, ResumesAreDecisions, HandlersKnowTheirRequest, Sent, DecisionKinds

\* A brief that is enqueued starts from nothing.
LEMMA EnqueueOutcome ==
  ASSUME IInv, NEW j \in Jobs, EnqueueBrief(j), UNCHANGED <<thread, script>>,
         \A r \in Requests : request'[r].job = request[r].job,
         \A r \in Requests : AsksToResume(r)' => AsksToResume(r),
         \A k \in Jobs : OutcomeOf(k)
  PROVE  \A k \in Jobs : OutcomeOf(k)'
<1>1. TypeOK /\ job[j].status = "none" /\ j \in Tasks
  BY JobTask DEF IInv, EnqueueBrief
<1>2. /\ task'[j] = [pc |-> "queued", arg |-> NoRequest, mem |-> Empty]
      /\ \A u \in Tasks \ {j} : task'[u] = task[u]
  BY <1>1, OneTaskIdle DEF EnqueueBrief
<1>3. /\ job'[j].status = "queued" /\ job'[j].stage = "queued"
      /\ \A k \in Jobs \ {j} : job'[k] = job[k]
  BY <1>1, OneJob DEF EnqueueBrief
<1>4. task[j].pc = "none" /\ thread[j] = Empty /\ ~Beyond(j)
  BY <1>1 DEF OutcomeOf, RunOfBrief, Beyond, Interrupted
<1>5. OutcomeOf(j)'
  <2>1. RunOfBrief(j)' /\ MemVideo(j, j)' /\ StageTells(j)'
    BY <1>2, <1>3, <1>4 DEF RunOfBrief, MemVideo, Holding, Interrupted, StageTells
  <2>2. ASSUME NEW r \in Requests, request'[r].job = j PROVE ResumeOf(r, j)'
    <3>1. task[r].pc = "none" /\ ~AsksToResume(r) /\ task'[r] = task[r]
      BY <1>2, <1>4, <2>2, NobodyAsks, RequestTask
    <3>2. QED
      BY <3>1 DEF ResumeOf, MemVideo, Holding
  <2>3. VideoOf(j)'
    BY DEF OutcomeOf, VideoOf
  <2>4. QED
    BY <2>1, <2>2, <2>3 DEF OutcomeOf, ResumesOf
<1>6. ASSUME NEW k \in Jobs, k # j PROVE OutcomeOf(k)'
  <2>1. task'[k] = task[k] /\ \A r \in Requests : task'[r] = task[r]
    BY <1>2, <1>6, JobTask, RequestTask
  <2>2. QED
    BY <1>3, <1>6, <2>1, OnlyRequests
<1>7. QED
  BY <1>5, <1>6

LEMMA HandlersOutcome ==
  ASSUME IInv, NEW r \in Requests, Handler(r), NEW k \in Jobs, \A j \in Jobs : OutcomeOf(j)
  PROVE  OutcomeOf(k)'
<1>1. TypeOK /\ OutcomeOf(k) /\ k \in Tasks /\ r \in Tasks /\ k # r
  BY JobTask, RequestTask DEF IInv
<1>2. CASE \E j \in Jobs, h \in Hooks : ReadHooks(r, j, h)
  <2>1. /\ UNCHANGED <<job, thread, script, task>> /\ request[r].pc = "idle"
        /\ request'[r].pc = "hookRead" /\ \A q \in Requests \ {r} : request'[q] = request[q]
    BY <1>1, <1>2 DEF ReadHooks, TypeOK
  <2>2. QED
    BY <1>1, <2>1, IdleHasNoTask, OnlyRequests DEF AsksToResume
<1>3. CASE SaveHooks(r)
  <2>1. /\ UNCHANGED <<job, thread, task>> /\ request[r].job \in Jobs
        /\ request'[r].pc = "hookSaved" /\ request'[r].job = request[r].job
        /\ \A q \in Requests \ {r} : request'[q] = request[q]
    BY <1>1, <1>3 DEF SaveHooks, TypeOK, RequestState, IInv, HandlersKnowTheirRequest
  <2>2. script'[k].status = script[k].status /\ script'[k].body = script[k].body
    BY <1>1, <1>3, <2>1 DEF SaveHooks, ScriptSet, TypeOK
  <2>3. \A q \in Requests : AsksToResume(q)' => AsksToResume(q)
    BY <2>1 DEF AsksToResume
  <2>4. QED
    BY <1>1, <2>1, <2>2, <2>3, OnlyRequests
<1>4. CASE RecordHook(r)
  <2>1. /\ UNCHANGED <<script, thread, task>> /\ request[r].job \in Jobs
        /\ request'[r].pc = "done" /\ request'[r].job = request[r].job
        /\ \A q \in Requests \ {r} : request'[q] = request[q]
    BY <1>1, <1>4 DEF RecordHook, TypeOK, RequestState, IInv, HandlersKnowTheirRequest
  <2>2. job'[k].status = job[k].status /\ job'[k].stage = job[k].stage
    BY <1>1, <1>4, <2>1 DEF RecordHook, TypeOK, JobHash
  <2>3. \A q \in Requests : AsksToResume(q)' => AsksToResume(q)
    BY <2>1 DEF AsksToResume
  <2>4. QED
    BY <1>1, <2>1, <2>2, <2>3, OnlyRequests
<1>5. CASE \E j \in Jobs, retry \in BOOLEAN : ReadReject(r, j, retry)
  <2>1. PICK j \in Jobs, retry \in BOOLEAN : ReadReject(r, j, retry)
    BY <1>5
  <2>2. /\ UNCHANGED <<job, thread, script, task>> /\ request[r].pc = "idle"
        /\ request'[r].pc = "rejectRead" /\ request'[r].job = j /\ request'[r].route = RejectRoute(j)
        /\ \A q \in Requests \ {r} : request'[q] = request[q]
    BY <1>1, <2>1 DEF ReadReject, TypeOK
  <2>3. RejectRoute(j) = "resumed" => Beyond(j)
    BY DEF RejectRoute, OutcomeOf, StageTells
  <2>4. QED
    BY <1>1, <2>2, <2>3, IdleHasNoTask, OnlyRequests DEF AsksToResume
<1>6. CASE ActReject(r)
  <2>1. /\ UNCHANGED <<job, thread>> /\ request[r].job \in Jobs
        /\ request'[r].pc \in {"rejectActed", "done"} /\ request'[r].job = request[r].job
        /\ \A q \in Requests \ {r} : request'[q] = request[q]
    BY <1>1, <1>6 DEF ActReject, TypeOK, RequestState, IInv, HandlersKnowTheirRequest
  <2>2. script'[k].body = script[k].body /\ (script'[k].status \in Final => script[k].status \in Final)
    BY <1>1, <1>6, <2>1 DEF ActReject, StatusSet, TypeOK, ScriptRow, Final
  <2>3. CASE request[r].route = "resumed"
    <3>1. AsksToResume(r)
      BY <1>6, <2>3 DEF ActReject, AsksToResume
    <3>2. request[r].job = k => Beyond(k)
      BY <1>1, <3>1 DEF OutcomeOf, ResumesOf, ResumeOf
    <3>3. task'[r].pc = "queued" /\ \A u \in Tasks \ {r} : task'[u] = task[u]
      BY <1>1, <1>6, <2>3 DEF ActReject, TaskIdle, TaskSet, TypeOK
    <3>4. QED
      BY <1>1, <2>1, <2>2, <3>2, <3>3, RequestTask, OnlyRequests DEF AsksToResume
  <2>4. CASE UNCHANGED task
    <3>1. \A q \in Requests : AsksToResume(q)' => AsksToResume(q)
      BY <2>1, <2>4 DEF AsksToResume
    <3>2. QED
      BY <1>1, <2>1, <2>2, <2>4, <3>1, OnlyRequests
  <2>5. QED
    BY <1>6, <2>3, <2>4 DEF ActReject
<1>7. CASE \E j \in Jobs : RetryBrief(r, j)
  <2>1. PICK j \in Jobs : RetryBrief(r, j)
    BY <1>7
  <2>2. /\ EnqueueBrief(j) /\ UNCHANGED <<thread, script>>
        /\ request'[r].pc = "done" /\ request'[r].job = request[r].job
        /\ \A q \in Requests \ {r} : request'[q] = request[q]
    BY <1>1, <2>1 DEF RetryBrief, TypeOK, RequestState
  <2>3. \A q \in Requests : task'[q] = task[q]
    BY <1>1, <2>1, StepOfOneBrief, RequestTask
  <2>4. \A q \in Requests : AsksToResume(q)' => AsksToResume(q)
    BY <2>2, <2>3 DEF AsksToResume
  <2>5. QED
    BY <2>2, <2>4, EnqueueOutcome
<1>8. CASE \E j \in Jobs, kind \in {"approve", "schedule"} : ReadApprove(r, j, kind)
  <2>1. PICK j \in Jobs, kind \in {"approve", "schedule"} : ReadApprove(r, j, kind)
    BY <1>8
  <2>2. /\ UNCHANGED <<job, thread, script, task>> /\ request[r].pc = "idle"
        /\ request'[r].pc = "approveRead" /\ request'[r].job = j
        /\ \A q \in Requests \ {r} : request'[q] = request[q]
    BY <1>1, <2>1 DEF ReadApprove, TypeOK
  <2>3. Beyond(j)
    BY <2>1 DEF ReadApprove, OutcomeOf, StageTells
  <2>4. QED
    BY <1>1, <2>2, <2>3, IdleHasNoTask, OnlyRequests DEF AsksToResume
<1>9. CASE EnqueueApprove(r)
  <2>1. /\ UNCHANGED <<job, thread, script>> /\ request'[r].job = request[r].job
        /\ \A q \in Requests \ {r} : request'[q] = request[q]
    BY <1>1, <1>9 DEF EnqueueApprove, TypeOK, RequestState
  <2>2. AsksToResume(r)
    BY <1>9 DEF EnqueueApprove, AsksToResume
  <2>3. request[r].job = k => Beyond(k)
    BY <1>1, <2>2 DEF OutcomeOf, ResumesOf, ResumeOf
  <2>4. task'[r].pc = "queued" /\ \A u \in Tasks \ {r} : task'[u] = task[u]
    BY <1>1, <1>9 DEF EnqueueApprove, TaskIdle, TaskSet, TypeOK
  <2>5. QED
    BY <1>1, <2>1, <2>3, <2>4, RequestTask, OnlyRequests DEF AsksToResume
<1>10. QED
  BY <1>2, <1>3, <1>4, <1>5, <1>6, <1>7, <1>8, <1>9 DEF Handler

-----------------------------------------------------------------------------
(* Every step *)

\* A step of a task touches its own job only.
LEMMA OneJobOnly ==
  ASSUME IInv, NEW t \in Tasks,
         \/ Work(t) \/ NodeFails(t) \/ TimesOut(t)
         \/ t \in Requests /\ Resume(t)
         \/ t \in Jobs /\ StartRun(t)
  PROVE  /\ JobOf(t) \in Jobs
         /\ UNCHANGED request
         /\ \A u \in Tasks \ {t} : task'[u] = task[u]
         /\ \A k \in Jobs \ {JobOf(t)} :
              job'[k] = job[k] /\ thread'[k] = thread[k] /\ script'[k] = script[k]
<1>1. TypeOK /\ task[t].pc # "none"
  BY StepOfOneTask DEF IInv, Resume, CheckResume, MarkResume, LoadResume, StartRun
<1>2. JobOf(t) \in Jobs
  BY <1>1, TaskKnowsItsJob
<1>3. \A u \in Tasks \ {t} : task'[u] = task[u]
  BY <1>1, StepOfOneTask, StepOfOneResume, StepOfOneBrief
<1>4. UNCHANGED request
  BY DEF Work, Resume, CheckResume, MarkResume, LoadResume, StartRun,
       Writer, Revise, Collect, Produce, Interrupt, GetPending, DeletePending, Decide, Decided,
       Publish, Published, Settle, NodeFails, TimesOut
<1>5. \A k \in Jobs \ {JobOf(t)} : job'[k] = job[k]
  <2>1. ASSUME NEW status, NEW stage, job' = JobSet(JobOf(t), status, stage)
        PROVE  \A k \in Jobs \ {JobOf(t)} : job'[k] = job[k]
    BY <1>1, <2>1 DEF JobSet, TypeOK
  <2>2. ASSUME NEW stage, job' = JobHasScript(JobOf(t), stage)
        PROVE  \A k \in Jobs \ {JobOf(t)} : job'[k] = job[k]
    BY <1>1, <2>2 DEF JobHasScript, TypeOK
  <2>3. \/ UNCHANGED job
        \/ \E status, stage : job' = JobSet(JobOf(t), status, stage)
        \/ \E stage : job' = JobHasScript(JobOf(t), stage)
    <3>1. CASE t \in Jobs /\ StartRun(t)
      BY <3>1, JobTask DEF StartRun
    <3>2. CASE t \in Requests /\ Resume(t)
      BY <3>2, RequestTask DEF Resume, CheckResume, MarkResume, LoadResume
    <3>3. CASE NodeFails(t) \/ TimesOut(t)
      BY <3>3 DEF NodeFails, TimesOut
    <3>4. CASE Work(t)
      BY <3>4, Zenon DEF Work, Writer, Revise, Collect, Produce, Interrupt, GetPending, DeletePending,
           Decide, Decided, Publish, Published, Settle
    <3>5. QED
      BY <3>1, <3>2, <3>3, <3>4
  <2>4. QED
    BY <2>1, <2>2, <2>3
<1>6. \A k \in Jobs \ {JobOf(t)} : thread'[k] = thread[k]
  <2>1. DOMAIN thread = Jobs
    BY <1>1 DEF TypeOK
  <2>2. CASE t \in Jobs /\ StartRun(t)
    BY <2>1, <2>2 DEF StartRun, JobOf
  <2>3. CASE t \in Requests /\ Resume(t)
    BY <2>3 DEF Resume, CheckResume, MarkResume, LoadResume
  <2>4. CASE NodeFails(t) \/ TimesOut(t)
    BY <2>4 DEF NodeFails, TimesOut
  <2>5. CASE Writer(t) \/ Revise(t) \/ Collect(t) \/ Produce(t)
    BY <2>1, <2>5 DEF Writer, Revise, Collect, Produce, Advance
  <2>6. CASE Interrupt(t) \/ GetPending(t) \/ DeletePending(t) \/ Decide(t) \/ Decided(t)
             \/ Publish(t) \/ Published(t) \/ Settle(t)
    BY <2>1, <2>6 DEF Interrupt, GetPending, DeletePending, Decide, Decided, Publish, Published, Settle,
         Advance, End
  <2>7. QED
    BY <2>2, <2>3, <2>4, <2>5, <2>6 DEF Work
<1>7. \A k \in Jobs \ {JobOf(t)} : script'[k] = script[k]
  <2>1. DOMAIN script = Jobs
    BY <1>1 DEF TypeOK
  <2>2. CASE t \in Jobs /\ StartRun(t)
    BY <2>2 DEF StartRun
  <2>3. CASE t \in Requests /\ Resume(t)
    BY <2>3 DEF Resume, CheckResume, MarkResume, LoadResume
  <2>4. CASE NodeFails(t) \/ TimesOut(t)
    BY <2>4 DEF NodeFails, TimesOut
  <2>5. CASE Writer(t) \/ Revise(t) \/ Collect(t) \/ Produce(t)
    BY <2>1, <2>5 DEF Writer, Revise, Collect, Produce, ScriptSet
  <2>6. CASE Interrupt(t) \/ GetPending(t) \/ DeletePending(t) \/ Decide(t) \/ Decided(t)
             \/ Publish(t) \/ Published(t) \/ Settle(t)
    BY <2>1, <2>6 DEF Interrupt, GetPending, DeletePending, Decide, Decided, Publish, Published, Settle,
         ScriptSet, StatusSet
  <2>7. QED
    BY <2>2, <2>3, <2>4, <2>5, <2>6 DEF Work
<1>8. QED
  BY <1>2, <1>3, <1>4, <1>5, <1>6, <1>7

LEMMA TaskOutcome ==
  ASSUME IInv, Rejections, NEW t \in Tasks, \A k \in Jobs : OutcomeOf(k),
         \/ Work(t) \/ NodeFails(t) \/ TimesOut(t)
         \/ t \in Requests /\ Resume(t)
         \/ t \in Jobs /\ StartRun(t)
  PROVE  \A k \in Jobs : OutcomeOf(k)'
<1>0. PICK j \in Jobs : JobOf(t) = j
  BY OneJobOnly
<1>1. /\ UNCHANGED request
      /\ \A u \in Tasks \ {t} : task'[u] = task[u]
      /\ \A k \in Jobs \ {j} : job'[k] = job[k] /\ thread'[k] = thread[k] /\ script'[k] = script[k]
  BY <1>0, OneJobOnly
<1>2. OutcomeOf(j)'
  <2>1. OutcomeOf(j)
    OBVIOUS
  <2>2. CASE Work(t)
    BY <1>0, <2>1, <2>2, WriterOutcome, ReviseOutcome, CollectOutcome, ProduceOutcome, InterruptOutcome,
       GetPendingOutcome, DeletePendingOutcome, DecideOutcome, DecidedOutcome, PublishOutcome,
       PublishedOutcome, SettleOutcome DEF Work
  <2>3. CASE NodeFails(t) \/ TimesOut(t)
    BY <1>0, <2>1, <2>3, FaultOutcome
  <2>4. CASE t \in Requests /\ Resume(t)
    BY <1>0, <2>1, <2>4, ResumeOutcome
  <2>5. CASE t \in Jobs /\ StartRun(t)
    BY <1>0, <2>1, <2>5, JobTask, StartRunOutcome
  <2>6. QED
    BY <2>2, <2>3, <2>4, <2>5
<1>3. QED
  BY <1>0, <1>1, <1>2, OtherJobs

\* Crashes are not forgotten.
LEMMA CrashesStay ==
  ASSUME IInv, Next
  PROVE  (NoCrash' => NoCrash) /\ (Crash => ~NoCrash')
<1>1. Crash => ~NoCrash'
  BY DEF Crash, Fault, NoCrash, IInv, TypeOK
<1>2. ~Crash => (NoCrash' => NoCrash)
  BY DEF NoCrash, IInv, TypeOK, Next, Handler, Resume, Work, CreateBrief, ReadHooks, SaveHooks, RecordHook,
       ReadReject, ActReject, RetryBrief, ReadApprove, EnqueueApprove, StartRun, CheckResume, MarkResume,
       LoadResume, Writer, Revise, Collect, Produce, Interrupt, GetPending, DeletePending, Decide, Decided,
       Publish, Published, Settle, NodeFails, TimesOut, Fault
<1>3. QED
  BY <1>1, <1>2 DEF Crash, Fault, NoCrash, IInv, TypeOK

LEMMA OutcomesStep ==
  ASSUME IInv, Rejections, Next, NoCrash => \A k \in Jobs : OutcomeOf(k)
  PROVE  NoCrash' => \A k \in Jobs : OutcomeOf(k)'
<1>1. ASSUME NoCrash, NEW j \in Jobs, CreateBrief(j) PROVE \A k \in Jobs : OutcomeOf(k)'
  <2>1. \A r \in Requests : task'[r] = task[r]
    BY <1>1, StepOfOneBrief, RequestTask DEF IInv
  <2>2. EnqueueBrief(j) /\ UNCHANGED <<thread, script, request>>
    BY <1>1 DEF CreateBrief
  <2>3. QED
    BY <1>1, <2>1, <2>2, EnqueueOutcome DEF AsksToResume
<1>2. ASSUME NoCrash, NEW t \in Tasks,
             \/ Work(t) \/ NodeFails(t) \/ TimesOut(t)
             \/ t \in Requests /\ Resume(t)
             \/ t \in Jobs /\ StartRun(t)
      PROVE  \A k \in Jobs : OutcomeOf(k)'
  BY <1>2, TaskOutcome
<1>3. ASSUME NoCrash, NEW r \in Requests, Handler(r) PROVE \A k \in Jobs : OutcomeOf(k)'
  BY <1>3, HandlersOutcome
<1>4. QED
  BY <1>1, <1>2, <1>3, CrashesStay, JobTask, RequestTask DEF Next

\* What a step makes of a task: nothing, an idle or a fresh one, the next step of its
\* graph with the decision it had, or one of the four steps that handle a decision.
LEMMA TaskChanges ==
  ASSUME IInv, Next, NEW u \in Tasks
  PROVE  \/ task'[u] = task[u]
         \/ task'[u].arg = NoRequest /\ task'[u].pc \notin {"popped", "decided"}
         \/ /\ task[u].pc \in {"driving", "decided", "published"}
            /\ task'[u].pc \in {"driving", "published", "ended"}
            /\ task'[u].arg = task[u].arg
            /\ Past(u) => Past(u)'
         \/ GetPending(u) \/ DeletePending(u) \/ Decide(u)
         \/ u \in Requests /\ LoadResume(u)
<1>1. TypeOK
  BY DEF IInv
<1>2. ASSUME NEW j \in Jobs, EnqueueBrief(j) \/ StartRun(j)
      PROVE  task'[u] = task[u] \/ (task'[u].arg = NoRequest /\ task'[u].pc \notin {"popped", "decided"})
  <2>1. j \in Tasks
    BY JobTask
  <2>2. QED
    BY <1>1, <1>2, <2>1 DEF EnqueueBrief, StartRun, TaskIdle, TaskSet, TypeOK
<1>3. ASSUME NEW r \in Requests, Handler(r)
      PROVE  task'[u] = task[u] \/ (task'[u].arg = NoRequest /\ task'[u].pc \notin {"popped", "decided"})
  <2>1. CASE \E j \in Jobs : RetryBrief(r, j)
    BY <1>2, <2>1 DEF RetryBrief
  <2>2. QED
    BY <1>1, <1>3, <2>1, StepOfOneHandler
<1>4. ASSUME NEW r \in Requests, CheckResume(r) \/ MarkResume(r)
      PROVE  task'[u] = task[u] \/ (task'[u].arg = NoRequest /\ task'[u].pc \notin {"popped", "decided"})
  <2>1. r \in Tasks
    BY RequestTask
  <2>2. QED
    BY <1>1, <1>4, <2>1 DEF CheckResume, MarkResume, TaskIdle, TaskSet, TypeOK
<1>5. ASSUME NEW r \in Requests, LoadResume(r) PROVE task'[u] = task[u] \/ (u \in Requests /\ LoadResume(u))
  BY <1>1, <1>5, StepOfOneResume DEF Resume
<1>6. Crash => task'[u] = task[u] \/ (task'[u].arg = NoRequest /\ task'[u].pc \notin {"popped", "decided"})
  BY DEF Crash
<1>7. ASSUME NodeFails(u) \/ TimesOut(u) \/ Interrupt(u) \/ Settle(u)
      PROVE  task'[u].arg = NoRequest /\ task'[u].pc \notin {"popped", "decided"}
  BY <1>1, <1>7 DEF NodeFails, TimesOut, Interrupt, Settle, TaskIdle, TaskSet, TypeOK
<1>8. ASSUME End(u)
      PROVE  task'[u].arg = task[u].arg /\ task'[u].pc = "ended"
  BY <1>1, <1>8 DEF End, TaskSet, TypeOK
<1>9. ASSUME NEW mem, Advance(u, "driving", mem)
      PROVE  task'[u] = [pc |-> "driving", arg |-> task[u].arg, mem |-> mem]
  BY <1>1, <1>9 DEF Advance, TaskSet, TypeOK
<1>10. CASE Writer(u) \/ Revise(u) \/ Collect(u) \/ Produce(u)
  <2>1. task[u].pc = "driving" /\ ~Past(u)
    BY <1>10 DEF Writer, Revise, Collect, Produce, At, Past
  <2>2. \E mem : Advance(u, "driving", mem)
    BY <1>10, Zenon DEF Writer, Revise, Collect, Produce
  <2>3. PICK mem : Advance(u, "driving", mem)
    BY <2>2
  <2>4. task'[u] = [pc |-> "driving", arg |-> task[u].arg, mem |-> mem]
    BY <1>9, <2>3
  <2>5. QED
    BY <2>1, <2>4
<1>11. CASE Decided(u)
  <2>1. CASE Advance(u, "driving", [task[u].mem EXCEPT !.next = "publish"])
    <3>1. PICK mem : mem = [task[u].mem EXCEPT !.next = "publish"] /\ Advance(u, "driving", mem)
      BY <2>1
    <3>2. mem.next = "publish"
      BY <1>1, <3>1 DEF TypeOK, TaskState, Checkpoints
    <3>3. task'[u] = [pc |-> "driving", arg |-> task[u].arg, mem |-> mem]
      BY <1>9, <3>1
    <3>4. QED
      BY <1>11, <3>2, <3>3 DEF Decided, Past
  <2>2. QED
    BY <1>8, <1>11, <2>1 DEF Decided, Past
<1>12. CASE Publish(u)
  <2>1. task'[u].pc = "published" /\ task'[u].arg = task[u].arg /\ task[u].pc = "driving"
    BY <1>1, <1>12 DEF Publish, TaskSet, TypeOK, At
  <2>2. QED
    BY <2>1 DEF Past
<1>13. CASE Published(u)
  BY <1>8, <1>13 DEF Published, Past
<1>14. ASSUME NEW t \in Tasks, t # u, Work(t) \/ NodeFails(t) \/ TimesOut(t)
       PROVE  task'[u] = task[u]
  BY <1>1, <1>14, StepOfOneTask
<1>15. CASE \E t \in Tasks : Work(t) \/ NodeFails(t) \/ TimesOut(t)
  BY <1>7, <1>10, <1>11, <1>12, <1>13, <1>14, <1>15 DEF Work
<1>16. CASE \E j \in Jobs : CreateBrief(j) \/ StartRun(j)
  BY <1>2, <1>16 DEF CreateBrief
<1>17. CASE \E r \in Requests : Handler(r) \/ Resume(r)
  BY <1>3, <1>4, <1>5, <1>17 DEF Resume
<1>18. QED
  BY <1>6, <1>15, <1>16, <1>17 DEF Next

\* A rejection stays one.
LEMMA RejectionStays ==
  ASSUME IInv, Next, NEW d \in Requests, request[d].kind = "reject"
  PROVE  request'[d].kind = "reject"
<1>1. Sent(request, d, request[d].job)
  BY DEF IInv, HandlersKnowTheirRequest, Sent, DecisionKinds
<1>2. QED
  BY <1>1, SentStays

\* What waits for the interrupt is a rejection, whatever crashes.
LEMMA RejectionsStep ==
  ASSUME IInv, Rejections, Next
  PROVE  Rejections'
<1>1. TypeOK
  BY DEF IInv
<1>2. ASSUME NEW j \in Jobs, pending'[j] # NoRequest PROVE request'[pending'[j]].kind = "reject"
  <2>1. CASE pending'[j] = pending[j]
    BY <1>1, <1>2, <2>1, RejectionStays DEF Rejections, TypeOK
  <2>2. CASE pending'[j] # pending[j]
    <3>1. ~ \E t \in Tasks : DeletePending(t)
      BY <1>1, <1>2, <2>2 DEF DeletePending, TypeOK
    <3>2. PICK r \in Requests : ActReject(r)
      BY <2>2, <3>1, WhoChangesPending
    <3>3. pending'[j] = r
      BY <1>1, <2>2, <3>2 DEF ActReject, TypeOK
    <3>4. request[r].kind = "reject"
      BY <3>2 DEF ActReject, IInv, HandlersKnowTheirRequest
    <3>5. QED
      BY <3>3, <3>4, RejectionStays
  <2>3. QED
    BY <2>1, <2>2
<1>3. ASSUME NEW u \in Tasks
      PROVE  /\ u \in Jobs /\ task'[u].arg # NoRequest => request'[task'[u].arg].kind = "reject"
             /\ ~Active(u)' => task'[u].arg = NoRequest
             /\ task'[u].pc = "popped" => task'[u].arg # NoRequest
             /\ task'[u].pc = "decided" => /\ task'[u].mem.decision = task'[u].arg
                                           /\ task'[u].mem.next = "approval"
  <2>1. u \in Jobs /\ task'[u].arg # NoRequest /\ task'[u].arg \in {task[u].arg, pending[JobOf(u)]} =>
          request'[task'[u].arg].kind = "reject"
    BY <1>1, JobTask, RejectionStays DEF Rejections, TypeOK, TaskState
  <2>2. CASE task'[u] = task[u]
    BY <2>1, <2>2 DEF Rejections, Active
  <2>3. CASE task'[u].arg = NoRequest /\ task'[u].pc \notin {"popped", "decided"}
    BY <2>3
  <2>4. CASE task'[u].pc \in {"driving", "published", "ended"} /\ task'[u].arg = task[u].arg
    BY <2>1, <2>4 DEF Active
  <2>5. CASE GetPending(u)
    <3> DEFINE pc == IF pending[JobOf(u)] = NoRequest THEN "finished" ELSE "popped"
    <3>1. task' = TaskSet(u, pc, pending[JobOf(u)], Empty)
      BY <2>5 DEF GetPending
    <3>2. task'[u].arg = pending[JobOf(u)] /\ task'[u].pc = pc
      <4> HIDE DEF pc
      <4>1. QED
        BY <1>1, <3>1 DEF TaskSet, TypeOK
    <3>3. QED
      BY <2>1, <3>2 DEF Active
  <2>6. CASE DeletePending(u)
    <3>1. \/ task'[u].pc = "finished" /\ task'[u].arg = NoRequest
          \/ task'[u].pc = "driving" /\ task'[u].arg \in {task[u].arg, NoRequest}
      BY <1>1, <2>6, LoadedTask DEF DeletePending
    <3>2. QED
      BY <2>1, <3>1 DEF Active
  <2>7. CASE u \in Requests /\ LoadResume(u)
    <3>1. \/ task'[u].pc = "finished" /\ task'[u].arg = NoRequest
          \/ task'[u].pc = "driving" /\ task'[u].arg \in {u, NoRequest}
      BY <1>1, <2>7, LoadedTask DEF LoadResume
    <3>2. QED
      BY <2>7, <3>1, RequestTask DEF Active
  <2>8. CASE Decide(u)
    <3> DEFINE mem == [task[u].mem EXCEPT !.decision = task[u].arg]
    <3>1. mem.next = "approval" /\ mem.decision = task[u].arg
      BY <1>1, <2>8 DEF Decide, At, TypeOK, TaskState, Checkpoints
    <3>2. task' = TaskSet(u, "decided", task[u].arg, mem)
      BY <2>8 DEF Decide
    <3> HIDE DEF mem
    <3>3. task'[u] = [pc |-> "decided", arg |-> task[u].arg, mem |-> mem]
      BY <1>1, <3>2 DEF TaskSet, TypeOK
    <3>4. QED
      BY <2>1, <3>1, <3>3 DEF Active
  <2>9. QED
    BY <2>2, <2>3, <2>4, <2>5, <2>6, <2>7, <2>8, TaskChanges
<1>4. QED
  BY <1>2, <1>3, JobTask DEF Rejections

-----------------------------------------------------------------------------
(* A decision and its taste row *)

\* A step that hands the decision to nobody leaves it where it was.
LEMMA TasteKept ==
  ASSUME NEW r \in Requests, TasteOf(r), taste'[r] = taste[r], request'[r] = request[r],
         Waiting(r)' => Waiting(r),
         \A t \in Tasks : task'[t].arg = r =>
           /\ task[t].arg = r
           /\ Past(t) => Past(t)'
           /\ task[t].pc = "popped" => task'[t].pc = "popped",
         task'[r].pc # "none" => task[r].pc # "none",
         task'[r].pc \in {"queued", "checked", "marked"} => task[r].pc \in {"queued", "checked", "marked"}
  PROVE  TasteOf(r)'
<1>1. Undecided(r)' => Undecided(r)
  BY DEF Undecided
<1>2. Carried(r)' => Carried(r)
  BY DEF Carried
<1>3. QED
  BY <1>1, <1>2 DEF TasteOf

\* A request that takes no route yet is carried by nobody, and a step on it that is none either.
LEMMA TasteUndecided ==
  ASSUME NEW r \in Requests, ~Carried(r)', taste'[r] = 0,
         request'[r].pc = "approveRead" => request'[r].route = "none"
  PROVE  TasteOf(r)'
BY DEF TasteOf, Carried

\* Two running tasks that have the same decision are one.
LEMMA OneCarrier ==
  ASSUME IInv, Rejections, NEW r \in Requests, TasteOf(r),
         NEW t \in Tasks, task[t].arg = r, NEW u \in Tasks, task[u].arg = r
  PROVE  t = u
<1>1. Active(t) /\ Active(u)
  BY BriefAssumption DEF Rejections
<1>2. Sent(request, r, JobOf(t)) /\ Sent(request, r, JobOf(u))
  BY <1>1, BriefAssumption DEF IInv, TasksHoldDecisions, TaskHolds
<1>3. JobOf(t) = JobOf(u)
  BY <1>2 DEF Sent
<1>4. CASE t \in Jobs /\ u \in Jobs
  BY <1>3, <1>4, JobTask
<1>5. CASE t = r \/ u = r
  <2>1. task[r].pc # "none" /\ request[r].route # "pending"
    BY <1>1, <1>5 DEF Active, TasteOf
  <2>2. QED
    BY <2>1 DEF TasteOf
<1>6. QED
  BY <1>4, <1>5 DEF TasteOf

LEMMA HandlerTaste ==
  ASSUME IInv, NEW q \in Requests, Handler(q), NEW r \in Requests, TasteOf(r)
  PROVE  TasteOf(r)'
<1>1. TypeOK /\ r \in Tasks /\ q \in Tasks /\ r \notin Jobs
  BY RequestTask DEF IInv
<1>2. \A u \in Tasks : task'[u] = task[u] \/ (task'[u].arg = NoRequest /\ u \in Jobs \cup {q})
  <2>1. ASSUME NEW j \in Jobs, RetryBrief(q, j)
        PROVE  /\ \A u \in Tasks \ {j} : task'[u] = task[u]
               /\ task'[j].arg = NoRequest
    BY <1>1, <2>1, StepOfOneBrief, JobTask DEF RetryBrief, EnqueueBrief, TaskIdle, TaskSet, TypeOK
  <2>2. QED
    BY <1>1, <2>1, StepOfOneHandler, JobTask
<1>3. CASE q # r
  <2>1. request'[r] = request[r] /\ taste'[r] = taste[r] /\ (Waiting(r)' => Waiting(r))
    BY <1>1, <1>3 DEF Handler, ReadHooks, SaveHooks, RecordHook, ReadReject, ActReject, RetryBrief,
         ReadApprove, EnqueueApprove, LeaveTaste, TypeOK, Waiting
  <2>2. task'[r] = task[r]
    BY <1>1, <1>2, <1>3
  <2>3. ASSUME NEW t \in Tasks, task'[t].arg = r PROVE task'[t] = task[t]
    BY <1>2, <2>3, BriefAssumption
  <2>4. QED
    BY <2>1, <2>2, <2>3, TasteKept DEF Past
<1>4. CASE q = r
  <2>1. CASE \/ \E j \in Jobs, h \in Hooks : ReadHooks(r, j, h)
             \/ \E j \in Jobs, retry \in BOOLEAN : ReadReject(r, j, retry)
             \/ \E j \in Jobs, kind \in {"approve", "schedule"} : ReadApprove(r, j, kind)
    <3>1. ~Carried(r) /\ taste[r] = 0
      BY <2>1 DEF ReadHooks, ReadReject, ReadApprove, TasteOf, Undecided
    <3>2. UNCHANGED <<pending, task, taste>>
      BY <2>1 DEF ReadHooks, ReadReject, ReadApprove
    <3>3. request'[r].pc = "approveRead" => request'[r].route = "none"
      BY <1>1, <2>1 DEF ReadHooks, ReadReject, ReadApprove, TypeOK
    <3>4. QED
      BY <3>1, <3>2, <3>3, TasteUndecided DEF Carried, Waiting
  <2>2. CASE SaveHooks(r) \/ RecordHook(r)
    <3>1. ~Carried(r) /\ taste[r] = 0
      BY <2>2 DEF SaveHooks, RecordHook, TasteOf, Undecided
    <3>2. UNCHANGED <<pending, task, taste>> /\ request'[r].pc \in {"hookSaved", "done"}
      BY <1>1, <2>2 DEF SaveHooks, RecordHook, TypeOK, RequestState
    <3>3. QED
      BY <3>1, <3>2, TasteUndecided DEF Carried, Waiting
  <2>3. CASE ActReject(r)
    <3>1. ~Carried(r) /\ taste[r] = 0 /\ request[r].kind = "reject"
      BY <2>3 DEF ActReject, TasteOf, Undecided, IInv, HandlersKnowTheirRequest
    <3>2. /\ request'[r].pc \in {"rejectActed", "done"} /\ request'[r].kind = "reject"
          /\ request'[r].route = request[r].route
      BY <1>1, <2>3, <3>1 DEF ActReject, TypeOK, RequestState
    <3>3. \A t \in Tasks : task'[t].arg # r
      BY <1>2, <3>1, BriefAssumption DEF Carried
    <3>4. CASE request[r].route = "resumed"
      <4>1. task' = TaskIdle(r, "queued") /\ UNCHANGED <<pending, taste>>
        BY <2>3, <3>4 DEF ActReject
      <4>2. QED
        BY <3>1, <3>2, <3>3, <3>4, <4>1 DEF TasteOf, Undecided, Carried, Waiting
    <3>5. CASE request[r].route = "pending" /\ UNCHANGED <<task, taste>>
      BY <3>1, <3>2, <3>3, <3>5 DEF TasteOf, Undecided, Carried, Waiting
    <3>6. CASE request[r].route = "recorded" /\ UNCHANGED <<task, pending>> /\ LeaveTaste(r)
      <4>1. taste'[r] = 1
        BY <1>1, <3>1, <3>6 DEF LeaveTaste, TypeOK
      <4>2. QED
        BY <3>1, <3>2, <3>3, <3>6, <4>1 DEF TasteOf, Undecided, Carried, Waiting
    <3>7. QED
      BY <2>3, <3>4, <3>5, <3>6 DEF ActReject
  <2>4. CASE \E j \in Jobs : RetryBrief(r, j)
    <3>1. /\ UNCHANGED <<pending, taste>> /\ request[r].pc = "rejectActed"
          /\ request'[r].pc = "done" /\ request'[r].kind = request[r].kind
          /\ request'[r].route = request[r].route
      BY <1>1, <2>4 DEF RetryBrief, TypeOK, RequestState
    <3>2. task'[r] = task[r]
      BY <1>1, <2>4, StepOfOneBrief DEF Tasks
    <3>3. ASSUME NEW t \in Tasks, task'[t].arg = r PROVE task'[t] = task[t]
      BY <1>2, <3>3, BriefAssumption
    <3>4. Waiting(r)' <=> Waiting(r)
      BY <3>1 DEF Waiting
    <3>5. Carried(r)' => Carried(r)
      BY <3>2, <3>3, <3>4 DEF Carried
    <3>6. Undecided(r)' => Undecided(r)
      BY <3>1 DEF Undecided
    <3>7. QED
      BY <3>1, <3>2, <3>3, <3>4, <3>5, <3>6 DEF TasteOf, Past
  <2>5. CASE EnqueueApprove(r)
    <3>1. /\ ~Carried(r) /\ taste[r] = 0 /\ request[r].route = "none"
          /\ request[r].kind \in {"approve", "schedule"}
      BY <2>5 DEF EnqueueApprove, TasteOf, Undecided, IInv, HandlersKnowTheirRequest
    <3>2. /\ UNCHANGED <<pending, taste>> /\ request'[r].pc = "done"
          /\ request'[r].kind = request[r].kind /\ request'[r].route = "none"
      BY <1>1, <2>5, <3>1 DEF EnqueueApprove, TypeOK, RequestState
    <3>3. \A t \in Tasks : task'[t].arg # r
      BY <1>2, <3>1, BriefAssumption DEF Carried
    <3>4. QED
      BY <3>1, <3>2, <3>3 DEF TasteOf, Undecided, Carried, Waiting
  <2>6. QED
    BY <1>4, <2>1, <2>2, <2>3, <2>4, <2>5 DEF Handler
<1>5. QED
  BY <1>3, <1>4

\* A task that runs is not queued again, short of a crash.
LEMMA RunsOn ==
  ASSUME IInv, NEW t \in Tasks, Work(t) \/ NodeFails(t) \/ TimesOut(t)
  PROVE  task'[t].pc \notin {"none", "queued", "checked", "marked"}
<1>1. TypeOK
  BY DEF IInv
<1>2. ASSUME NEW pc, NEW arg, NEW mem, task' = TaskSet(t, pc, arg, mem) PROVE task'[t].pc = pc
  BY <1>1, <1>2 DEF TaskSet, TypeOK
<1>3. \E pc, arg, mem : pc \notin {"none", "queued", "checked", "marked"} /\ task' = TaskSet(t, pc, arg, mem)
  <2>1. CASE Writer(t) \/ Revise(t) \/ Collect(t) \/ Produce(t)
    <3>1. \E mem : Advance(t, "driving", mem)
      BY <2>1, Zenon DEF Writer, Revise, Collect, Produce
    <3>2. QED
      BY <3>1 DEF Advance
  <2>2. CASE Interrupt(t) \/ NodeFails(t) \/ TimesOut(t) \/ Settle(t)
    BY <2>2 DEF Interrupt, NodeFails, TimesOut, Settle, TaskIdle
  <2>3. CASE GetPending(t)
    BY <2>3 DEF GetPending
  <2>4. CASE DeletePending(t)
    BY <2>4 DEF DeletePending, Load, TaskIdle
  <2>5. CASE Decide(t) \/ Publish(t)
    BY <2>5 DEF Decide, Publish
  <2>6. CASE Decided(t) \/ Published(t)
    BY <2>6 DEF Decided, Published, Advance, End
  <2>7. QED
    BY <2>1, <2>2, <2>3, <2>4, <2>5, <2>6 DEF Work
<1>4. QED
  BY <1>2, <1>3

LEMMA GetPendingTaste ==
  ASSUME IInv, NEW t \in Tasks, NEW j \in Jobs, JobOf(t) = j, OutcomeOf(j), GetPending(t),
         NEW r \in Requests, TasteOf(r)
  PROVE  TasteOf(r)'
<1>1. TypeOK /\ task[t].pc = "parked" /\ UNCHANGED <<pending, taste, request>>
  BY DEF IInv, GetPending
<1>2. t = j
  BY <1>1, LateTask
<1>3. /\ task'[t].arg = pending[j] /\ task'[t].pc = (IF pending[j] = NoRequest THEN "finished" ELSE "popped")
      /\ \A u \in Tasks \ {t} : task'[u] = task[u]
  <2> DEFINE pc == IF pending[JobOf(t)] = NoRequest THEN "finished" ELSE "popped"
  <2>1. task' = TaskSet(t, pc, pending[JobOf(t)], Empty)
    BY DEF GetPending
  <2>2. pc = (IF pending[j] = NoRequest THEN "finished" ELSE "popped")
    OBVIOUS
  <2> HIDE DEF pc
  <2>3. QED
    BY <1>1, <2>1, <2>2 DEF TaskSet, TypeOK
<1>4. task'[r] = task[r]
  BY <1>2, <1>3, RequestTask
<1>5. CASE pending[j] = r
  <2>1. Waiting(r) /\ Waiting(r)' /\ request[r].route = "pending" /\ taste[r] = 0 /\ ~Undecided(r)
    BY <1>1, <1>5 DEF TasteOf, Waiting, Carried, TypeOK
  <2>2. task'[t].pc = "popped"
    BY <1>3, <1>5, BriefAssumption
  <2>3. ASSUME NEW u \in Tasks, task'[u].arg = r
        PROVE  \/ u = r
               \/ u \in Jobs /\ task'[u].pc = "popped"
    BY <1>2, <1>3, <2>1, <2>2, <2>3 DEF TasteOf
  <2>4. QED
    BY <1>1, <1>4, <2>1, <2>3 DEF TasteOf, Undecided
<1>6. CASE pending[j] # r
  <2>1. ASSUME NEW u \in Tasks, task'[u].arg = r PROVE task'[u] = task[u]
    BY <1>3, <1>6, <2>1
  <2>2. QED
    BY <1>1, <1>4, <2>1, TasteKept DEF Waiting, Past
<1>7. QED
  BY <1>5, <1>6

LEMMA DeletePendingTaste ==
  ASSUME IInv, NEW t \in Tasks, NEW j \in Jobs, JobOf(t) = j, OutcomeOf(j), DeletePending(t),
         NEW r \in Requests, TasteOf(r)
  PROVE  TasteOf(r)'
<1>1. TypeOK /\ task[t].pc = "popped" /\ UNCHANGED <<taste, request>> /\ Load(t, task[t].arg)
  BY DEF IInv, DeletePending
<1>2. t = j
  BY <1>1, LateTask
<1>3. /\ task'[t].arg \in {task[t].arg, NoRequest}
      /\ \A u \in Tasks \ {t} : task'[u] = task[u]
  BY <1>1, LoadedTask, StepOfOneTask DEF Work
<1>4. pending'[j] = NoRequest /\ \A k \in Jobs \ {j} : pending'[k] = pending[k]
  BY <1>1 DEF DeletePending, TypeOK
<1>5. Waiting(r)' => Waiting(r)
  BY <1>4, BriefAssumption DEF Waiting
<1>6. task'[r] = task[r]
  BY <1>2, <1>3, RequestTask
<1>7. CASE task[t].arg = r
  <2>1. ~Waiting(r)'
    <3>1. Active(t)
      BY <1>1 DEF Active
    <3>2. Sent(request, r, j)
      BY <1>2, <1>7, <3>1, BriefAssumption DEF IInv, TasksHoldDecisions, TaskHolds
    <3>3. \A k \in Jobs : pending[k] = r => k = j
      BY <3>2, BriefAssumption DEF IInv, PendingIsDecision, Sent
    <3>4. QED
      BY <1>4, <3>3, BriefAssumption DEF Waiting
  <2>2. taste[r] = 0 /\ ~Undecided(r)
    BY <1>1, <1>7 DEF TasteOf, Past, Carried, TypeOK
  <2>3. \A u \in Tasks : task'[u].arg = r => task[u].arg = r
    BY <1>3, <1>7
  <2>4. QED
    BY <1>1, <1>6, <2>1, <2>2, <2>3 DEF TasteOf, Undecided
<1>8. CASE task[t].arg # r
  <2>1. ASSUME NEW u \in Tasks, task'[u].arg = r PROVE task'[u] = task[u]
    BY <1>3, <1>8, <2>1, BriefAssumption
  <2>2. QED
    BY <1>1, <1>5, <1>6, <2>1, TasteKept DEF Past
<1>9. QED
  BY <1>7, <1>8

LEMMA DecideTaste ==
  ASSUME IInv, Rejections, NEW t \in Tasks, Decide(t), NEW r \in Requests, TasteOf(r)
  PROVE  TasteOf(r)'
<1>1. /\ TypeOK /\ task[t].pc = "driving" /\ task[t].mem.next = "approval"
      /\ UNCHANGED <<pending, request>> /\ taste' = [taste EXCEPT ![task[t].arg] = @ + 1]
      /\ task[t].arg # NoRequest
  BY DEF IInv, Decide, At, LeaveTaste
<1>2. /\ task'[t].pc = "decided" /\ task'[t].arg = task[t].arg
      /\ \A u \in Tasks \ {t} : task'[u] = task[u]
  BY <1>1 DEF Decide, TaskSet, TypeOK
<1>3. Waiting(r)' <=> Waiting(r)
  BY <1>1 DEF Waiting
<1>4. task[r].pc # "none" <=> task'[r].pc # "none"
  BY <1>1, <1>2, RequestTask
<1>5. CASE task[t].arg = r
  <2>1. taste[r] = 0 /\ ~Undecided(r)
    BY <1>1, <1>5 DEF TasteOf, Past, Carried, TypeOK
  <2>2. taste'[r] = 1
    BY <1>1, <1>5, <2>1 DEF TypeOK
  <2>3. \A u \in Tasks : task'[u].arg = r => u = t
    BY <1>2, <1>5, OneCarrier
  <2>4. ~Waiting(r) /\ task'[r].pc \notin {"queued", "checked", "marked"}
    <3>1. CASE t = r
      BY <1>1, <1>2, <3>1 DEF TasteOf
    <3>2. CASE t # r
      BY <1>1, <1>2, <1>5, <3>2, RequestTask DEF TasteOf
    <3>3. QED
      BY <3>1, <3>2
  <2>5. QED
    BY <1>1, <1>2, <1>3, <1>4, <1>5, <2>1, <2>2, <2>3, <2>4 DEF TasteOf, Undecided, Past
<1>6. CASE task[t].arg # r
  <2>1. taste'[r] = taste[r]
    BY <1>1, <1>6 DEF TypeOK
  <2>2. ASSUME NEW u \in Tasks, task'[u].arg = r PROVE task'[u] = task[u]
    BY <1>2, <1>6, <2>2
  <2>3. task'[r].pc \in {"queued", "checked", "marked"} => task[r].pc \in {"queued", "checked", "marked"}
    BY <1>2, RequestTask
  <2>4. QED
    BY <1>1, <1>3, <1>4, <2>1, <2>2, <2>3, TasteKept DEF Past
<1>7. QED
  BY <1>5, <1>6

\* Any other step of a task.
LEMMA WorkTaste ==
  ASSUME IInv, Next, NEW t \in Tasks, Work(t) \/ NodeFails(t) \/ TimesOut(t),
         ~GetPending(t), ~DeletePending(t), ~Decide(t), NEW r \in Requests, TasteOf(r)
  PROVE  TasteOf(r)'
<1>1. TypeOK /\ task[t].pc # "none" /\ \A u \in Tasks \ {t} : task'[u] = task[u]
  BY StepOfOneTask DEF IInv
<1>2. UNCHANGED <<pending, taste, request>>
  BY DEF Work, Writer, Revise, Collect, Produce, Interrupt, Decided, Publish, Published, Settle,
       NodeFails, TimesOut
<1>3. task'[t].pc \notin {"none", "queued", "checked", "marked"}
  BY RunsOn
<1>4. ~ (t \in Requests /\ LoadResume(t))
  <2>1. ASSUME LoadResume(t) PROVE FALSE
    <3>1. task[t].pc = "marked"
      BY <2>1 DEF LoadResume
    <3>2. NodeFails(t) \/ TimesOut(t)
      BY <3>1 DEF Work, Writer, Revise, Collect, Produce, Interrupt, GetPending, DeletePending, Decide,
           Decided, Publish, Published, Settle, At
    <3>3. faults' # faults
      BY <1>1, <3>2 DEF NodeFails, TimesOut, Fault, TypeOK
    <3>4. QED
      BY <2>1, <3>3 DEF LoadResume
  <2>2. QED
    BY <2>1
<1>5. task'[t].arg = r => /\ task[t].arg = r /\ (Past(t) => Past(t)') /\ task[t].pc # "popped"
  <2>1. CASE task'[t] = task[t]
    <3>1. task[t].pc # "popped" \/ ~(Work(t) \/ NodeFails(t) \/ TimesOut(t))
      <4>1. ASSUME task[t].pc = "popped", Work(t) \/ NodeFails(t) \/ TimesOut(t) PROVE FALSE
        <5>1. TimesOut(t)
          BY <4>1 DEF Work, Writer, Revise, Collect, Produce, Interrupt, GetPending, Decide, Decided,
               Publish, Published, Settle, NodeFails, At
        <5>2. task'[t].pc = "finished"
          BY <1>1, <5>1 DEF TimesOut, TaskIdle, TaskSet, TypeOK
        <5>3. QED
          BY <2>1, <4>1, <5>2
      <4>2. QED
        BY <4>1
    <3>2. QED
      BY <2>1, <3>1 DEF Past
  <2>2. CASE task'[t].arg = NoRequest
    BY <2>2, BriefAssumption
  <2>3. CASE /\ task[t].pc \in {"driving", "decided", "published"} /\ task'[t].arg = task[t].arg
             /\ Past(t) => Past(t)'
    BY <2>3
  <2>4. QED
    BY <1>4, <2>1, <2>2, <2>3, TaskChanges
<1>6. ASSUME NEW u \in Tasks, task'[u].arg = r
      PROVE  task[u].arg = r /\ (Past(u) => Past(u)') /\ (task[u].pc = "popped" => task'[u].pc = "popped")
  <2>1. CASE u = t
    BY <1>5, <1>6, <2>1
  <2>2. CASE u # t
    BY <1>1, <1>6, <2>2 DEF Past
  <2>3. QED
    BY <2>1, <2>2
<1>7. /\ task'[r].pc # "none" => task[r].pc # "none"
      /\ task'[r].pc \in {"queued", "checked", "marked"} => task[r].pc \in {"queued", "checked", "marked"}
  BY <1>1, <1>3, RequestTask
<1>8. QED
  BY <1>2, <1>6, <1>7, TasteKept DEF Waiting

LEMMA ResumeTaste ==
  ASSUME IInv, NEW q \in Requests, Resume(q), NEW r \in Requests, TasteOf(r)
  PROVE  TasteOf(r)'
<1>1. /\ TypeOK /\ q \in Tasks /\ task[q].pc \in {"queued", "checked", "marked"}
      /\ \A u \in Tasks \ {q} : task'[u] = task[u]
      /\ UNCHANGED <<pending, taste, request>>
  BY StepOfOneResume, RequestTask DEF IInv, Resume, CheckResume, MarkResume, LoadResume
<1>2. task'[q].arg \in {q, NoRequest}
  BY <1>1, LoadedTask DEF Resume, CheckResume, MarkResume, LoadResume, TaskIdle, TaskSet, TypeOK
<1>3. Waiting(r)' <=> Waiting(r)
  BY <1>1 DEF Waiting
<1>4. CASE q = r
  <2>1. taste[r] = 0 /\ ~Undecided(r) /\ request[r].route \in {"resumed", "none"}
    BY <1>1, <1>4 DEF TasteOf, Carried, TypeOK
  <2>2. \A t \in Tasks : task'[t].arg = r => t = r \/ (task'[t] = task[t] /\ task[t].arg = r)
    BY <1>1, <1>4
  <2>3. QED
    BY <1>1, <1>3, <2>1, <2>2 DEF TasteOf, Undecided
<1>5. CASE q # r
  <2>1. task'[r] = task[r]
    BY <1>1, <1>5, RequestTask
  <2>2. ASSUME NEW u \in Tasks, task'[u].arg = r PROVE task'[u] = task[u]
    BY <1>1, <1>2, <1>5, <2>2, BriefAssumption
  <2>3. QED
    BY <1>1, <1>3, <2>1, <2>2, TasteKept DEF Past
<1>6. QED
  BY <1>4, <1>5

LEMMA TasteStep ==
  ASSUME IInv, Rejections, Next, \A k \in Jobs : OutcomeOf(k), NoCrash', NEW r \in Requests, TasteOf(r)
  PROVE  TasteOf(r)'
<1>1. TypeOK /\ ~Crash
  BY DEF IInv, Crash, Fault, NoCrash, TypeOK
<1>2. ASSUME NEW j \in Jobs, CreateBrief(j) \/ StartRun(j) PROVE TasteOf(r)'
  <2>1. task'[j].arg = NoRequest /\ \A u \in Tasks \ {j} : task'[u] = task[u]
    <3>1. j \in Tasks
      BY JobTask
    <3>2. CASE CreateBrief(j)
      BY <1>1, <3>1, <3>2 DEF CreateBrief, EnqueueBrief, TaskIdle, TaskSet, TypeOK
    <3>3. CASE StartRun(j)
      BY <1>1, <3>1, <3>3 DEF StartRun, TaskSet, TypeOK
    <3>4. QED
      BY <1>2, <3>2, <3>3
  <2>2. UNCHANGED <<pending, taste, request>>
    BY <1>2 DEF CreateBrief, StartRun
  <2>3. task'[r] = task[r]
    BY <2>1, RequestTask
  <2>4. ASSUME NEW u \in Tasks, task'[u].arg = r PROVE task'[u] = task[u]
    BY <2>1, <2>4, BriefAssumption
  <2>5. QED
    BY <2>2, <2>3, <2>4, TasteKept DEF Waiting, Past
<1>3. ASSUME NEW t \in Tasks, Work(t) \/ NodeFails(t) \/ TimesOut(t) PROVE TasteOf(r)'
  <2>1. PICK j \in Jobs : JobOf(t) = j
    BY <1>3, OneJobOnly
  <2>2. QED
    BY <1>3, <2>1, GetPendingTaste, DeletePendingTaste, DecideTaste, WorkTaste
<1>4. QED
  BY <1>1, <1>2, <1>3, HandlerTaste, ResumeTaste DEF Next

-----------------------------------------------------------------------------
(* What a retry knows *)

\* Taste rows are never taken back.
LEMMA TasteGrows ==
  ASSUME IInv, Next, NEW r \in Requests, taste[r] > 0
  PROVE  taste'[r] > 0
<1>1. TypeOK
  BY DEF IInv
<1>2. CASE UNCHANGED taste
  BY <1>2
<1>3. ASSUME NEW q, taste' = [taste EXCEPT ![q] = @ + 1] PROVE taste'[r] > 0
  BY <1>1, <1>3 DEF TypeOK
<1>4. UNCHANGED taste \/ \E q : taste' = [taste EXCEPT ![q] = @ + 1]
  BY DEF LeaveTaste, Next, Handler, Resume, Work, CreateBrief, ReadHooks, SaveHooks, RecordHook, ReadReject,
       ActReject, RetryBrief, ReadApprove, EnqueueApprove, StartRun, CheckResume, MarkResume, LoadResume,
       Writer, Revise, Collect, Produce, Interrupt, GetPending, DeletePending, Decide, Decided,
       Publish, Published, Settle, NodeFails, TimesOut, Crash
<1>5. QED
  BY <1>2, <1>3, <1>4

LEMMA WhoChangesOrigin ==
  Next => UNCHANGED origin \/ \E r \in Requests, j \in Jobs : RetryBrief(r, j)
BY DEF Next, Handler, Resume, Work, CreateBrief, ReadHooks, SaveHooks, RecordHook, ReadReject,
       ActReject, ReadApprove, EnqueueApprove, StartRun, CheckResume, MarkResume, LoadResume,
       Writer, Revise, Collect, Produce, Interrupt, GetPending, DeletePending, Decide, Decided,
       Publish, Published, Settle, NodeFails, TimesOut, Crash

\* A request that is done, or has acted, has taken its route.
LEMMA RouteStays ==
  ASSUME IInv, Next, NEW r \in Requests
  PROVE  /\ request[r].pc = "done" => request'[r] = request[r]
         /\ request'[r].pc = "rejectActed" =>
              \/ request'[r] = request[r]
              \/ ActReject(r) /\ request'[r].route = request[r].route
         /\ \A j \in Jobs : RetryBrief(r, j) =>
              /\ request[r].pc = "rejectActed"
              /\ request'[r].pc = "done" /\ request'[r].route = request[r].route
<1>1. TypeOK
  BY DEF IInv
<1>2. CASE UNCHANGED request
  <2>1. \A j \in Jobs : ~RetryBrief(r, j)
    BY <1>1, <1>2 DEF RetryBrief, TypeOK, RequestState
  <2>2. QED
    BY <1>2, <2>1
<1>3. ASSUME NEW q \in Requests, Handler(q), q # r
      PROVE  request'[r] = request[r]
  BY <1>1, <1>3 DEF Handler, ReadHooks, SaveHooks, RecordHook, ReadReject, ActReject, RetryBrief,
       ReadApprove, EnqueueApprove, TypeOK
<1>4. CASE Handler(r)
  <2>1. request[r].pc # "done"
    BY <1>4 DEF Handler, ReadHooks, SaveHooks, RecordHook, ReadReject, ActReject, RetryBrief,
         ReadApprove, EnqueueApprove
  <2>2. request'[r].pc = "rejectActed" => ActReject(r)
    BY <1>1, <1>4 DEF Handler, ReadHooks, SaveHooks, RecordHook, ReadReject, RetryBrief,
         ReadApprove, EnqueueApprove, TypeOK, RequestState
  <2>3. ActReject(r) => request'[r].route = request[r].route
    BY <1>1 DEF ActReject, TypeOK, RequestState
  <2>4. \A j \in Jobs : RetryBrief(r, j) =>
              /\ request[r].pc = "rejectActed"
              /\ request'[r].pc = "done" /\ request'[r].route = request[r].route
    BY <1>1 DEF RetryBrief, TypeOK, RequestState
  <2>5. QED
    BY <2>1, <2>2, <2>3, <2>4
<1>5. \A j \in Jobs : RetryBrief(r, j) => Handler(r)
  BY DEF Handler
<1>6. ASSUME NEW q \in Requests, Handler(q), q # r
      PROVE  \A j \in Jobs : ~RetryBrief(r, j)
  BY <1>1, <1>3, <1>6 DEF RetryBrief, TypeOK, RequestState
<1>7. QED
  BY <1>2, <1>3, <1>4, <1>6, WhoChangesRequest

LEMMA KnownStep ==
  ASSUME IInv, Next, Known
  PROVE  Known'
<1>1. TypeOK
  BY DEF IInv
<1> SUFFICES ASSUME NEW r \in Requests
             PROVE  /\ request'[r].pc = "rejectActed" /\ request'[r].route = "recorded" => taste'[r] > 0
                    /\ \A j \in Jobs : origin'[j] = r =>
                         request'[r].pc = "done" /\ (request'[r].route = "recorded" => taste'[r] > 0)
  BY DEF Known
<1>2. taste[r] > 0 => taste'[r] > 0
  BY TasteGrows
<1>3. ASSUME request'[r].pc = "rejectActed", request'[r].route = "recorded"
      PROVE  taste'[r] > 0
  <2>1. CASE request'[r] = request[r]
    BY <1>2, <1>3, <2>1 DEF Known
  <2>2. CASE ActReject(r) /\ request'[r].route = request[r].route
    <3>1. taste' = [taste EXCEPT ![r] = @ + 1]
      BY <1>3, <2>2 DEF ActReject, LeaveTaste
    <3>2. QED
      BY <1>1, <3>1 DEF TypeOK
  <2>3. QED
    BY <1>3, <2>1, <2>2, RouteStays
<1>4. ASSUME NEW j \in Jobs, origin'[j] = r
      PROVE  request'[r].pc = "done" /\ (request'[r].route = "recorded" => taste'[r] > 0)
  <2>1. CASE origin[j] = r
    BY <1>2, <2>1, RouteStays DEF Known
  <2>2. CASE origin[j] # r
    <3>1. PICK q \in Requests, k \in Jobs : RetryBrief(q, k)
      BY <1>4, <2>2, WhoChangesOrigin
    <3>2. q = r
      BY <1>1, <1>4, <2>2, <3>1 DEF RetryBrief, TypeOK
    <3>3. QED
      BY <1>2, <3>1, <3>2, RouteStays DEF Known
  <2>3. QED
    BY <2>1, <2>2
<1>5. QED
  BY <1>3, <1>4

\* Only run_brief starts a brief.
LEMMA BriefStarts ==
  ASSUME IInv, Next, NEW j \in Jobs, task[j].pc \in {"none", "queued"}, task'[j].pc \notin {"none", "queued"}
  PROVE  StartRun(j)
<1>1. TypeOK /\ j \in Tasks /\ task'[j] # task[j]
  BY JobTask DEF IInv
<1>2. ASSUME NEW k \in Jobs, CreateBrief(k) \/ StartRun(k) \/ \E r \in Requests : RetryBrief(r, k) PROVE StartRun(j)
  <2>1. k = j
    BY <1>1, <1>2, StepOfOneBrief
  <2>2. ~EnqueueBrief(j)
    BY <1>1 DEF EnqueueBrief, TaskIdle, TaskSet, TypeOK
  <2>3. QED
    BY <1>2, <2>1, <2>2 DEF CreateBrief, RetryBrief
<1>3. ASSUME NEW r \in Requests, Handler(r) PROVE StartRun(j)
  BY <1>1, <1>2, <1>3, JobTask, StepOfOneHandler
<1>4. ASSUME NEW r \in Requests, Resume(r) PROVE FALSE
  BY <1>1, <1>4, JobTask, StepOfOneResume
<1>5. ASSUME NEW t \in Tasks, Work(t) \/ NodeFails(t) \/ TimesOut(t) PROVE FALSE
  <2>1. t = j
    BY <1>1, <1>5, StepOfOneTask
  <2>2. task[t].pc \notin {"none", "queued"}
    BY <1>5 DEF Work, Writer, Revise, Collect, Produce, Interrupt, GetPending, DeletePending, Decide,
         Decided, Publish, Published, Settle, NodeFails, TimesOut, At, Active
  <2>3. QED
    BY <2>1, <2>2
<1>6. ~Crash
  BY <1>1 DEF Crash
<1>7. QED
  BY <1>2, <1>3, <1>4, <1>5, <1>6 DEF Next

\* A run that starts reads the newest rows, and the row of a retry is there.
LEMMA RetryKnowsStep ==
  ASSUME OInv, NEW j \in Jobs, origin[j] # NoRequest, StartRun(j), request[origin[j]].route = "recorded"
  PROVE  origin[j] \in context'[j] \/ newer[origin[j]] >= TasteTopK
<1>1. TypeOK /\ Known
  BY DEF OInv, IInv
<1>2. origin[j] \in Requests /\ taste[origin[j]] > 0
  BY <1>1 DEF TypeOK, Known
<1>3. context'[j] = TasteRead
  BY <1>1 DEF StartRun, TypeOK
<1>4. newer[origin[j]] \in Nat /\ TasteTopK \in Nat
  BY <1>1, <1>2, BriefAssumption DEF TypeOK
<1>5. QED
  BY <1>2, <1>3, <1>4 DEF TasteRead

-----------------------------------------------------------------------------
(* A stage that says awaiting_approval after the end *)

\* A task that has decided has left its row.
LEMMA DecidedLeftStep ==
  ASSUME IInv, Rejections, DecidedLeft, Next
  PROVE  DecidedLeft'
<1>1. TypeOK
  BY DEF IInv
<1> SUFFICES ASSUME NEW t \in Tasks, task'[t].pc = "decided"
             PROVE  taste'[task'[t].arg] > 0
  BY DEF DecidedLeft
<1>2. CASE task'[t] = task[t]
  <2>1. task[t].arg \in Requests
    <3>1. task[t].mem.decision = task[t].arg /\ task[t].mem.decision # NoRequest /\ Active(t)
      BY <1>2, RunningTask DEF Rejections, Active, TaskHolds
    <3>2. QED
      BY <1>1, <3>1 DEF TypeOK, TaskState
  <2>2. QED
    BY <1>2, <2>1, TasteGrows DEF DecidedLeft
<1>3. CASE Decide(t)
  <2> DEFINE d == task[t].arg
  <2>1. d \in Requests /\ taste'[d] = taste[d] + 1 /\ taste[d] \in Nat
    BY <1>1, <1>3 DEF Decide, LeaveTaste, TypeOK, TaskState
  <2>2. task'[t].arg = d
    BY <1>1, <1>3 DEF Decide, TaskSet, TypeOK
  <2>3. QED
    BY <2>1, <2>2
<1>4. CASE GetPending(t)
  <2> DEFINE pc == IF pending[JobOf(t)] = NoRequest THEN "finished" ELSE "popped"
  <2>1. task' = TaskSet(t, pc, pending[JobOf(t)], Empty) /\ pc # "decided"
    BY <1>4 DEF GetPending
  <2> HIDE DEF pc
  <2>2. QED
    BY <1>1, <2>1 DEF TaskSet, TypeOK
<1>5. CASE DeletePending(t) \/ (t \in Requests /\ LoadResume(t))
  BY <1>1, <1>5, LoadedTask DEF DeletePending, LoadResume
<1>6. QED
  BY <1>2, <1>3, <1>4, <1>5, TaskChanges

\* A decision keeps its route.
LEMMA RouteKept ==
  ASSUME IInv, Next, NEW r \in Requests, request[r].kind \in DecisionKinds
  PROVE  request'[r].route = request[r].route
<1>1. TypeOK /\ request[r].pc # "idle"
  BY DEF IInv, HandlersKnowTheirRequest, DecisionKinds
<1>2. ASSUME NEW q \in Requests, Handler(q) PROVE request'[r].route = request[r].route
  BY <1>1, <1>2 DEF TypeOK, RequestState, Handler, ReadHooks, SaveHooks, RecordHook,
       ReadReject, ActReject, RetryBrief, ReadApprove, EnqueueApprove
<1>3. QED
  BY <1>2, WhoChangesRequest

\* Timeouts are not forgotten either.
LEMMA TimeoutsStay ==
  ASSUME IInv, Next, faults'.timeouts = 0
  PROVE  faults.timeouts = 0 /\ \A t \in Tasks : ~TimesOut(t)
<1>1. faults \in [crashes: Nat, failures: Nat, timeouts: Nat]
  BY DEF IInv, TypeOK
<1>2. \A t \in Tasks : ~TimesOut(t)
  BY <1>1 DEF TimesOut, Fault
<1>3. UNCHANGED faults \/ Fault("crashes") \/ Fault("failures")
  BY <1>2 DEF Next, Handler, Resume, Work, CreateBrief, ReadHooks, SaveHooks, RecordHook, ReadReject,
       ActReject, RetryBrief, ReadApprove, EnqueueApprove, StartRun, CheckResume, MarkResume, LoadResume,
       Writer, Revise, Collect, Produce, Interrupt, GetPending, DeletePending, Decide, Decided,
       Publish, Published, Settle, NodeFails, Crash
<1>4. QED
  BY <1>1, <1>2, <1>3 DEF Fault

\* A run whose thread has ended only settles, or is cut off.
LEMMA EndedStays ==
  ASSUME IInv, Next, ~Crash, NEW j \in Jobs, OutcomeOf(j), task[j].pc = "ended"
  PROVE  task'[j] = task[j] \/ Settle(j) \/ TimesOut(j)
<1>1. TypeOK /\ j \in Tasks /\ j \notin Requests
  BY JobTask DEF IInv
<1>2. ASSUME NEW k \in Jobs, EnqueueBrief(k) \/ StartRun(k) PROVE task'[j] = task[j]
  <2>1. k # j
    BY <1>2 DEF EnqueueBrief, StartRun, OutcomeOf, RunOfBrief
  <2>2. QED
    BY <1>1, <1>2, <2>1 DEF EnqueueBrief, StartRun, TaskIdle, TaskSet, TypeOK
<1>3. ASSUME NEW r \in Requests, Handler(r) PROVE task'[j] = task[j]
  <2>1. CASE \E k \in Jobs : RetryBrief(r, k)
    BY <1>2, <2>1 DEF RetryBrief
  <2>2. QED
    BY <1>1, <1>3, <2>1, StepOfOneHandler
<1>4. ASSUME NEW r \in Requests, Resume(r) PROVE task'[j] = task[j]
  BY <1>1, <1>4, StepOfOneResume
<1>5. ASSUME NEW t \in Tasks, t # j, Work(t) \/ NodeFails(t) \/ TimesOut(t) PROVE task'[j] = task[j]
  BY <1>1, <1>5, StepOfOneTask
<1>6. Work(j) \/ NodeFails(j) => Settle(j)
  BY DEF Work, Writer, Revise, Collect, Produce, Interrupt, GetPending, DeletePending, Decide,
       Decided, Publish, Published, NodeFails, At
<1>7. QED
  BY <1>2, <1>3, <1>4, <1>5, <1>6 DEF Next, CreateBrief

\* Only the interrupt makes a stage say awaiting_approval.
LEMMA WhoAwaits ==
  ASSUME IInv, Next, NEW j \in Jobs,
         job'[j].stage = "awaiting_approval", job[j].stage # "awaiting_approval"
  PROVE  \E t \in Tasks : Interrupt(t)
<1>1. TypeOK
  BY DEF IInv
<1>2. ASSUME NEW k, NEW status, NEW stage, job' = JobSet(k, status, stage)
      PROVE  k = j /\ stage = "awaiting_approval"
  BY <1>1, <1>2 DEF JobSet, TypeOK, JobHash
<1>3. ASSUME NEW k, NEW stage, job' = JobHasScript(k, stage)
      PROVE  stage = "awaiting_approval"
  BY <1>1, <1>3 DEF JobHasScript, TypeOK, JobHash
<1>4. ASSUME NEW k \in Jobs, CreateBrief(k) \/ StartRun(k) PROVE FALSE
  BY <1>2, <1>4 DEF CreateBrief, EnqueueBrief, StartRun
<1>5. ASSUME NEW r \in Requests, Handler(r) PROVE FALSE
  <2>1. CASE RecordHook(r)
    BY <1>1, <2>1 DEF RecordHook, TypeOK, JobHash
  <2>2. CASE \E k \in Jobs : RetryBrief(r, k)
    BY <1>2, <2>2 DEF RetryBrief, EnqueueBrief
  <2>3. QED
    BY <1>5, <2>1, <2>2 DEF Handler, ReadHooks, SaveHooks, ReadReject, ActReject, ReadApprove, EnqueueApprove
<1>6. ASSUME NEW r \in Requests, Resume(r) PROVE FALSE
  BY <1>2, <1>6 DEF Resume, CheckResume, MarkResume, LoadResume
<1>7. ASSUME NEW t \in Tasks, Produce(t) PROVE FALSE
  <2> DEFINE next == [asset_gen |-> "render", render |-> "vision_qa", vision_qa |-> "approval"]
  <2>1. job' = JobSet(JobOf(t), job[JobOf(t)].status, next[task[t].mem.next]) /\ task[t].mem.next \in Making
    BY <1>7 DEF Produce, Making
  <2>2. next[task[t].mem.next] # "awaiting_approval"
    BY <2>1 DEF Making
  <2> HIDE DEF next
  <2>3. QED
    BY <1>2, <2>1, <2>2
<1>8. ASSUME NEW t \in Tasks, Settle(t) PROVE FALSE
  <2> DEFINE final == [reject |-> "rejected", approve |-> "published", schedule |-> "scheduled"]
             kind  == request[task[t].mem.decision].kind
  <2>1. job' = JobSet(JobOf(t), "done", final[kind]) /\ kind \in {"reject", "approve", "schedule"}
    BY <1>8 DEF Settle
  <2>2. final[kind] # "awaiting_approval"
    BY <2>1
  <2> HIDE DEF final, kind
  <2>3. QED
    BY <1>2, <2>1, <2>2
<1>9. ASSUME NEW t \in Tasks, NodeFails(t) PROVE FALSE
  BY <1>2, <1>9 DEF NodeFails
<1>10. ASSUME NEW t \in Tasks, Writer(t) \/ Revise(t) \/ Collect(t) PROVE FALSE
  <2>1. \/ job' = JobHasScript(JobOf(t), "critics")
        \/ job' = JobHasScript(JobOf(t), "asset_gen")
        \/ job' = JobSet(JobOf(t), job[JobOf(t)].status, "writer")
    BY <1>10, Zenon DEF Writer, Revise, Collect
  <2>2. QED
    BY <1>2, <1>3, <2>1
<1>11. ASSUME NEW t \in Tasks, Work(t), ~Interrupt(t) PROVE FALSE
  BY <1>7, <1>8, <1>10, <1>11 DEF Work, GetPending, DeletePending, Decide, Decided, Publish, Published
<1>12. QED
  BY <1>4, <1>5, <1>6, <1>9, <1>11 DEF Next, TimesOut, Crash

\* The step that ends a thread whose stage says awaiting_approval.
LEMMA WhoEnds ==
  ASSUME IInv, Next, NEW j \in Jobs, OutcomeOf(j),
         thread'[j] # thread[j], thread'[j].next = "end", job'[j].stage = "awaiting_approval"
  PROVE  Decided(j) /\ End(j)
<1>1. TypeOK
  BY DEF IInv
<1>2. ASSUME NEW k, NEW status, NEW stage, job' = JobSet(k, status, stage), k = j
      PROVE  stage = "awaiting_approval"
  BY <1>1, <1>2 DEF JobSet, TypeOK, JobHash
<1>3. ASSUME NEW k, NEW stage, job' = JobHasScript(k, stage), k = j
      PROVE  stage = "awaiting_approval"
  BY <1>1, <1>3 DEF JobHasScript, TypeOK, JobHash
<1>4. ASSUME NEW k \in Jobs, StartRun(k) PROVE FALSE
  <2>1. k = j
    BY <1>1, <1>4 DEF StartRun, TypeOK
  <2>2. QED
    BY <1>2, <1>4, <2>1 DEF StartRun
<1>5. PICK t \in Tasks : Writer(t) \/ Revise(t) \/ Collect(t) \/ Produce(t) \/ Decided(t) \/ Published(t)
  BY <1>4, WhoChangesThread
<1>6. JobOf(t) = j
  BY <1>5, OneJobOnly DEF Work
<1>7. ~(Writer(t) \/ Revise(t) \/ Collect(t))
  BY <1>2, <1>3, <1>6 DEF Writer, Revise, Collect
<1>8. ~Produce(t)
  <2>1. ASSUME Produce(t) PROVE FALSE
    <3> DEFINE next == [asset_gen |-> "render", render |-> "vision_qa", vision_qa |-> "approval"]
    <3>1. job' = JobSet(JobOf(t), job[JobOf(t)].status, next[task[t].mem.next]) /\ task[t].mem.next \in Making
      BY <2>1 DEF Produce, Making
    <3>2. next[task[t].mem.next] # "awaiting_approval"
      BY <3>1 DEF Making
    <3> HIDE DEF next
    <3>3. QED
      BY <1>2, <1>6, <3>1, <3>2
  <2>2. QED
    BY <2>1
<1>9. job[j].stage = "awaiting_approval"
  BY <1>5, <1>7, <1>8 DEF Decided, Published
<1>10. ~Published(t)
  BY <1>6, <1>9, StageBefore DEF Published
<1>11. Decided(t) /\ task[t].pc = "decided"
  BY <1>5, <1>7, <1>8, <1>10 DEF Decided
<1>12. t = j
  BY <1>6, <1>9, <1>11, StageBefore, JobTask DEF Tasks, JobOf
<1>13. ~Advance(t, "driving", [task[t].mem EXCEPT !.next = "publish"])
  <2> DEFINE new == [task[t].mem EXCEPT !.next = "publish"]
  <2>1. new.next = "publish"
    BY <1>1 DEF TypeOK, TaskState, Checkpoints
  <2> HIDE DEF new
  <2>2. ASSUME Advance(t, "driving", new) PROVE FALSE
    BY <1>1, <1>6, <2>1, <2>2 DEF Advance, TypeOK
  <2>3. QED
    BY <2>2 DEF new
<1>14. QED
  BY <1>11, <1>12, <1>13 DEF Decided

LEMMA JustRejectedStep ==
  ASSUME OInv, Next, NoCrash', NEW j \in Jobs
  PROVE  JustRejected(j)'
<1>1. /\ TypeOK /\ IInv /\ Rejections /\ DecidedLeft /\ OutcomeOf(j) /\ JustRejected(j)
      /\ ~Crash /\ \A r \in Requests : TasteOf(r)
  BY CrashesStay DEF OInv, IInv
<1> SUFFICES ASSUME job'[j].stage = "awaiting_approval", thread'[j].next = "end"
             PROVE  \E r \in DecisionsOn(j)' :
                      /\ request'[r].route = "pending" /\ taste'[r] > 0 /\ thread'[j].decision = r
                      /\ faults'.timeouts = 0 => task'[j].pc = "ended" /\ task'[j].arg = r
  BY DEF JustRejected
<1>2. CASE thread'[j] = thread[j]
  <2>1. job[j].stage = "awaiting_approval"
    <3>1. ASSUME job[j].stage # "awaiting_approval" PROVE FALSE
      <4>1. PICK t \in Tasks : Interrupt(t)
        BY <1>1, <3>1, WhoAwaits
      <4>2. JobOf(t) = j
        BY <1>1, <3>1, <4>1, OneJobOnly DEF Work
      <4>3. At(t, "approval") /\ task[t].arg = NoRequest
        BY <4>1 DEF Interrupt
      <4>4. t = j /\ task[j].mem = thread[j]
        BY <1>1, <4>2, <4>3, EarlyOwner DEF At
      <4>5. QED
        BY <1>2, <4>3, <4>4 DEF At
    <3>2. QED
      BY <3>1
  <2>2. PICK r \in DecisionsOn(j) :
          /\ request[r].route = "pending" /\ taste[r] > 0 /\ thread[j].decision = r
          /\ faults.timeouts = 0 => task[j].pc = "ended" /\ task[j].arg = r
    BY <1>1, <1>2, <2>1 DEF JustRejected
  <2>3. Sent(request, r, j)
    <3>1. thread[j].decision # NoRequest
      BY <2>2, BriefAssumption DEF DecisionsOn
    <3>2. QED
      BY <1>1, <2>2, <3>1 DEF IInv, ThreadsHoldDecisions, Holds
  <2>4. r \in DecisionsOn(j)' /\ request'[r].route = "pending" /\ taste'[r] > 0
    BY <1>1, <2>2, <2>3, SentStays, RouteKept, TasteGrows DEF DecisionsOn, Sent
  <2>5. ASSUME faults'.timeouts = 0 PROVE task'[j].pc = "ended" /\ task'[j].arg = r
    <3>1. task[j].pc = "ended" /\ task[j].arg = r /\ ~TimesOut(j)
      BY <1>1, <2>2, <2>5, TimeoutsStay, JobTask
    <3>2. ~Settle(j)
      <4>1. ASSUME Settle(j) PROVE FALSE
        <5> DEFINE final == [reject |-> "rejected", approve |-> "published", schedule |-> "scheduled"]
                   kind  == request[task[j].mem.decision].kind
        <5>1. job' = JobSet(j, "done", final[kind]) /\ kind \in {"reject", "approve", "schedule"}
          BY <4>1, JobTask DEF Settle
        <5>2. final[kind] # "awaiting_approval"
          BY <5>1
        <5> HIDE DEF final, kind
        <5>3. QED
          BY <1>1, <5>1, <5>2, OneJob
      <4>2. QED
        BY <4>1
    <3>3. QED
      BY <1>1, <3>1, <3>2, EndedStays
  <2>6. QED
    BY <1>2, <2>2, <2>4, <2>5
<1>3. CASE thread'[j] # thread[j]
  <2> DEFINE d == task[j].arg
  <2>1. Decided(j) /\ End(j) /\ task[j].pc = "decided" /\ j \in Tasks /\ JobOf(j) = j
    BY <1>1, <1>3, WhoEnds, JobTask DEF Decided
  <2>2. /\ task[j].mem.decision = d /\ d # NoRequest /\ Sent(request, d, j)
    BY <1>1, <2>1, RunningTask DEF Rejections, Active, TaskHolds
  <2>3. d \in Requests /\ request[d].route = "pending" /\ taste[d] > 0
    BY <1>1, <2>1, <2>2, BriefAssumption DEF DecidedLeft, TasteOf, Sent
  <2>4. d \in DecisionsOn(j)' /\ request'[d].route = "pending" /\ taste'[d] > 0
    BY <1>1, <2>2, <2>3, SentStays, RouteKept, TasteGrows DEF DecisionsOn, Sent
  <2>5. task'[j].pc = "ended" /\ task'[j].arg = d
    BY <1>1, <2>1, EndsRun
  <2>6. thread'[j].decision = d
    <3> DEFINE new == [task[j].mem EXCEPT !.next = "end"]
    <3>1. new.decision = d
      BY <1>1, <2>1, <2>2 DEF TypeOK, TaskState, Checkpoints
    <3>2. thread' = [thread EXCEPT ![j] = new]
      BY <2>1 DEF End
    <3> HIDE DEF new
    <3>3. QED
      BY <1>1, <3>1, <3>2 DEF TypeOK
  <2>7. QED
    BY <2>4, <2>5, <2>6
<1>4. QED
  BY <1>2, <1>3

-----------------------------------------------------------------------------
(* The invariant is inductive *)

LEMMA InitOInv == Init => OInv
<1> SUFFICES ASSUME Init
             PROVE  OInv
  OBVIOUS
<1>1. IInv
  BY InitIInv
<1>2. Rejections
  BY JobTask DEF Init, Rejections
<1>3. ASSUME NEW j \in Jobs PROVE OutcomeOf(j)
  <2>1. thread[j] = Empty /\ task[j].pc = "none" /\ job[j].stage = "none" /\ script[j].status = "none"
    BY JobTask DEF Init
  <2>2. ASSUME NEW r \in Requests PROVE task[r].pc = "none" /\ ~AsksToResume(r)
    BY RequestTask DEF Init, AsksToResume
  <2>3. QED
    BY <2>1, <2>2 DEF OutcomeOf, RunOfBrief, MemVideo, ResumesOf, ResumeOf, StageTells, VideoOf,
         Holding, Interrupted, Empty, Making, Late, Final
<1>4. ASSUME NEW r \in Requests PROVE TasteOf(r)
  BY RequestTask, BriefAssumption DEF Init, TasteOf, Waiting, Carried
<1>5. Known /\ DecidedLeft
  BY BriefAssumption DEF Init, Known, DecidedLeft
<1>7. \A j \in Jobs : JustRejected(j)
  BY DEF Init, JustRejected
<1>6. QED
  BY <1>1, <1>2, <1>3, <1>4, <1>5, <1>7 DEF OInv

LEMMA NextOInv == OInv /\ [Next]_vars => OInv'
<1> SUFFICES ASSUME OInv, [Next]_vars
             PROVE  OInv'
  OBVIOUS
<1>1. IInv'
  BY NextIInv DEF OInv
<1>2. CASE Next
  <2>1. NoCrash' => NoCrash
    BY <1>2, CrashesStay DEF OInv
  <2>2. NoCrash' => \A j \in Jobs : OutcomeOf(j)'
    BY <1>2, OutcomesStep DEF OInv
  <2>3. NoCrash' => \A r \in Requests : TasteOf(r)'
    BY <1>2, <2>1, TasteStep DEF OInv
  <2>4. Rejections' /\ Known' /\ DecidedLeft'
    BY <1>2, RejectionsStep, KnownStep, DecidedLeftStep DEF OInv
  <2>5. NoCrash' => \A j \in Jobs : JustRejected(j)'
    BY <1>2, JustRejectedStep
  <2>6. QED
    BY <1>1, <2>2, <2>3, <2>4, <2>5 DEF OInv
<1>3. CASE UNCHANGED vars
  <2>1. UNCHANGED <<job, pending, thread, script, taste, newer, context, task, request, origin, faults>>
    BY <1>3 DEF vars
  <2>2. Rejections' /\ Known' /\ DecidedLeft'
    BY <2>1 DEF OInv, Rejections, Known, DecidedLeft, Active
  <2>7. \A j \in Jobs : JustRejected(j)' <=> JustRejected(j)
    BY <2>1 DEF JustRejected, DecisionsOn
  <2>3. ASSUME NEW j \in Jobs, OutcomeOf(j) PROVE OutcomeOf(j)'
    BY <2>1, <2>3, OnlyRequests DEF AsksToResume
  <2>4. ASSUME NEW r \in Requests, TasteOf(r) PROVE TasteOf(r)'
    BY <2>1, <2>4, TasteKept DEF Waiting, Past
  <2>5. NoCrash' => NoCrash
    BY <2>1 DEF NoCrash
  <2>6. QED
    BY <1>1, <2>2, <2>3, <2>4, <2>5, <2>7 DEF OInv
<1>4. QED
  BY <1>2, <1>3

LEMMA OutcomeInvariance == Spec => []OInv
<1>1. Init => OInv
  BY InitOInv
<1>2. OInv /\ [Next]_vars => OInv'
  BY NextOInv
<1>3. QED
  BY <1>1, <1>2, PTL DEF Spec

-----------------------------------------------------------------------------
(* What takes a published script back *)

\* A step that changes the status of a published script is one of these.
LEMMA WhoUnpublishes ==
  ASSUME OInv, Next, NoCrash, NEW j \in Jobs, script[j].status \in Final,
         script'[j].status # script[j].status
  PROVE  \/ \E r \in Requests : request[r].job = j /\ request[r].kind = "reject"
         \/ \E t \in Tasks : JobOf(t) = j /\ Publish(t)
<1>1. TypeOK /\ OutcomeOf(j) /\ thread[j].next \in Late
  BY DEF OInv, IInv, OutcomeOf, VideoOf
<1>2. ASSUME NEW r \in Requests, SaveHooks(r) PROVE FALSE
  <2>1. request[r].job \in Jobs
    BY <1>2 DEF OInv, IInv, HandlersKnowTheirRequest, SaveHooks
  <2>2. QED
    BY <1>1, <1>2, <2>1 DEF SaveHooks, ScriptSet, TypeOK
<1>3. ASSUME NEW r \in Requests, ActReject(r)
      PROVE  request[r].job = j /\ request[r].kind = "reject"
  <2>1. request[r].kind = "reject"
    BY <1>3 DEF OInv, IInv, HandlersKnowTheirRequest, ActReject
  <2>2. request[r].job = j
    BY <1>1, <1>3 DEF ActReject, StatusSet, TypeOK
  <2>3. QED
    BY <2>1, <2>2
<1>4. ASSUME NEW t \in Tasks, Writer(t) \/ Collect(t) \/ Decide(t) \/ Publish(t) PROVE JobOf(t) = j
  <2>1. Work(t) /\ IInv
    BY <1>4 DEF Work, OInv
  <2>2. QED
    BY <2>1, OneJobOnly
<1>5. ASSUME NEW t \in Tasks, Writer(t) \/ Collect(t) PROVE FALSE
  <2>1. task[t].pc = "driving" /\ task[t].mem.next \in {"writer", "critics"}
    BY <1>5 DEF Writer, Collect, At
  <2>2. t = j /\ task[j].mem = thread[j]
    BY <1>1, <1>4, <1>5, <2>1, EarlyOwner DEF OInv
  <2>3. QED
    BY <1>1, <2>1, <2>2 DEF Late
<1>6. ASSUME NEW t \in Tasks, Decide(t)
      PROVE  \E r \in Requests : request[r].job = j /\ request[r].kind = "reject"
  <2>1. task[t].arg # NoRequest /\ Active(t) /\ request[task[t].arg].kind = "reject"
    BY <1>6 DEF Decide, At, Active
  <2>2. Sent(request, task[t].arg, JobOf(t))
    BY <2>1 DEF OInv, IInv, TasksHoldDecisions, TaskHolds
  <2>3. QED
    BY <1>4, <1>6, <2>1, <2>2 DEF Sent
<1>7. QED
  BY <1>2, <1>3, <1>4, <1>5, <1>6, WhoChangesScript

LEMMA PublishedStaysStep ==
  ASSUME OInv, Next, NoCrash, NEW j \in Jobs, script[j].status \in Final,
         script'[j].status # script[j].status
  PROVE  \E r, q \in DecisionsOn(j) : r # q
<1>1. PICK r \in DecisionsOn(j) :
        request[r].kind = IF script[j].status = "approved" THEN "approve" ELSE "schedule"
  BY DEF OInv, IInv, PublishedByOwner
<1>2. ASSUME NEW q \in Requests, request[q].job = j, request[q].kind = "reject"
      PROVE  \E d \in DecisionsOn(j) : d # r
  <2>1. q \in DecisionsOn(j)
    BY <1>2 DEF DecisionsOn, DecisionKinds
  <2>2. QED
    BY <1>1, <1>2, <2>1
<1>3. ASSUME NEW t \in Tasks, JobOf(t) = j, Publish(t)
      PROVE  \E d \in DecisionsOn(j) : d # r
  <2> DEFINE d == task[t].mem.decision
  <2>1. Active(t) /\ task[t].mem.next = "publish" /\ TypeOK /\ IInv
    BY <1>3 DEF Publish, At, Active, OInv, IInv
  <2>2. Sent(request, d, j)
    BY <1>3, <2>1, RunningTask DEF TaskHolds, Holds
  <2>3. script'[j].status = IF request[d].kind = "schedule" THEN "scheduled" ELSE "approved"
    BY <1>3, <2>1 DEF Publish, ScriptSet, TypeOK
  <2>4. d \in DecisionsOn(j)
    BY <2>2 DEF Sent, DecisionsOn
  <2>5. d # r
    BY <1>1, <2>3 DEF Final
  <2>6. QED
    BY <2>4, <2>5
<1>4. QED
  BY <1>1, <1>2, <1>3, WhoUnpublishes

-----------------------------------------------------------------------------
(* One decision and no fault: how far the decision has come *)

Clean == faults = [crashes |-> 0, failures |-> 0, timeouts |-> 0]

\* The job shows that it awaits the owner, and its graph does.
AwaitsOwner(j) ==
  /\ job[j].status = "done" /\ job[j].stage = "awaiting_approval"
  /\ thread[j].next = "approval"

\* No decision has reached the run of the brief: it is on its way to the interrupt, or
\* is there.
Unheard(j) ==
  IF Interrupted(j) THEN task[j].pc \in {"parked", "finished"} /\ AwaitsOwner(j)
                    ELSE job[j].status \in {"none", "queued", "running"}

\* The task does nothing any more to the job.
Over(t) == task[t].pc \in {"none", "parked", "finished"}

HookAsked(j) == \E h \in Requests : request[h].job = j /\ request[h].kind = "hook"

\* The row tells the decision that was published.
RowTells(j, r) ==
  /\ script[j].status = IF request[r].kind = "schedule" THEN "scheduled" ELSE "approved"
  /\ HookAsked(j) \/ script[j].selected = request[r].hook

\* The decision is still to be taken by its route, ...
Unsent(j, r) ==
  /\ Undecided(r) /\ Unheard(j) /\ pending[j] = NoRequest
  /\ request[r].kind \in {"approve", "schedule"} \/ request[r].route = "resumed" => AwaitsOwner(j)
  /\ request[r].route # "recorded"

\* ... waits in Redis for the run, which may have read it, ...
Deferred(j, r) ==
  /\ ~Undecided(r) /\ pending[j] = r
  /\ Unheard(j) \/ (task[j].pc = "popped" /\ AwaitsOwner(j))

\* ... is in the hands of a task, ...
Carries(t, j, r) ==
  \/ task[t].pc \in {"queued", "checked"} /\ t = r /\ AwaitsOwner(j)
  \/ task[t].pc = "marked" /\ t = r /\ thread[j].next = "approval"
  \/ task[t].pc = "driving" /\ task[t].mem.next = "approval" /\ task[t].arg = r /\ thread[j].next = "approval"
  \/ /\ task[t].pc = "decided" /\ task[t].arg = r /\ taste[r] = 1
     /\ request[r].kind = "reject" => script[j].status = "rejected"
  \/ task[t].pc = "driving" /\ task[t].mem.next = "publish" /\ task[t].mem.decision = r /\ taste[r] = 1
  \/ task[t].pc = "published" /\ task[t].mem.decision = r /\ taste[r] = 1 /\ RowTells(j, r)
  \/ /\ task[t].pc = "ended" /\ task[t].mem.decision = r /\ taste[r] = 1 /\ thread[j].next = "end"
     /\ IF request[r].kind = "reject" THEN script[j].status = "rejected" ELSE RowTells(j, r)

Taken(j, r) ==
  /\ ~Undecided(r) /\ pending[j] = NoRequest
  /\ \E t \in {j, r} : /\ Carries(t, j, r)
                       /\ \A u \in {j, r} \ {t} : Over(u)

\* ... or has been applied, and all that remembers it agrees.
Applied(j, r) ==
  /\ job[j].status = "done" /\ thread[j].next = "end" /\ taste[r] = 1
  /\ IF request[r].kind = "reject"
     THEN job[j].stage = "rejected" /\ script[j].status = "rejected"
     ELSE /\ job[j].stage = (IF request[r].kind = "schedule" THEN "scheduled" ELSE "published")
          /\ RowTells(j, r)

Settled(j, r) ==
  ~Undecided(r) /\ pending[j] = NoRequest /\ Over(j) /\ Over(r) /\ Applied(j, r)

StoryOf(j, r) == Unsent(j, r) \/ Deferred(j, r) \/ Taken(j, r) \/ Settled(j, r)

OneStory(j) ==
  /\ job[j].script => job[j].status # "none"
  /\ DecisionsOn(j) = {} => Unheard(j) /\ pending[j] = NoRequest
  /\ \A r \in Requests : DecisionsOn(j) = {r} => StoryOf(j, r)

\* Who saves a choice of hook asked for one.
HookRequests ==
  \A r \in Requests : request[r].pc \in {"hookRead", "hookSaved"} => request[r].kind = "hook"

SInv == OInv /\ HookRequests /\ (Clean => \A j \in Jobs : OneStory(j))

\* A step of the worker, in task t, without a fault.
WorkerStep(t) == Work(t) \/ (t \in Requests /\ Resume(t)) \/ (t \in Jobs /\ StartRun(t))

-----------------------------------------------------------------------------
(* The decision on its way *)

\* A fault is not forgotten.
LEMMA CleanStays ==
  ASSUME TypeOK, Next, Clean'
  PROVE  /\ Clean /\ ~Crash
         /\ \A t \in Tasks : ~NodeFails(t) /\ ~TimesOut(t)
<1>1. ASSUME NEW kind \in {"crashes", "failures", "timeouts"} PROVE ~Fault(kind)
  BY DEF Fault, Clean, TypeOK
<1>2. UNCHANGED faults
  BY <1>1 DEF Next, Handler, Resume, Work, CreateBrief, ReadHooks, SaveHooks, RecordHook,
       ReadReject, ActReject, RetryBrief, ReadApprove, EnqueueApprove, StartRun, CheckResume, MarkResume,
       LoadResume, Writer, Revise, Collect, Produce, Interrupt, GetPending, DeletePending, Decide, Decided,
       Publish, Published, Settle, NodeFails, TimesOut, Crash
<1>3. QED
  BY <1>1, <1>2 DEF Clean, Crash, NodeFails, TimesOut

LEMMA HookRequestsStep ==
  ASSUME IInv, Next, HookRequests
  PROVE  HookRequests'
<1>1. TypeOK
  BY DEF IInv
<1>2. ASSUME NEW r \in Requests, Handler(r) PROVE HookRequests'
  BY <1>1, <1>2 DEF Handler, ReadHooks, SaveHooks, RecordHook, ReadReject, ActReject, RetryBrief,
       ReadApprove, EnqueueApprove, TypeOK, RequestState, HookRequests
<1>3. QED
  BY <1>2, WhoChangesRequest DEF HookRequests

\* What OInv says of a job as long as the worker did not crash.
LEMMA StoryFacts ==
  ASSUME OInv, Clean
  PROVE  /\ IInv /\ TypeOK /\ Rejections
         /\ \A j \in Jobs : OutcomeOf(j)
         /\ \A r \in Requests : TasteOf(r)
BY DEF OInv, IInv, Clean, NoCrash

\* A job that shows that it awaits the owner does, unless a decision was heard.
LEMMA AwaitsOver ==
  ASSUME NEW j \in Jobs, OutcomeOf(j), Unheard(j)
  PROVE  /\ job[j].stage = "awaiting_approval" => AwaitsOwner(j)
         /\ AwaitsOwner(j) => Interrupted(j) /\ Over(j)
BY DEF OutcomeOf, StageTells, Beyond, Unheard, AwaitsOwner, Over

\* A step of the graph takes the task to its next state.
LEMMA Advances ==
  ASSUME TypeOK, NEW t \in Tasks, NEW j \in Jobs, JobOf(t) = j, NEW mem, Advance(t, "driving", mem)
  PROVE  /\ task'[t] = [pc |-> "driving", arg |-> task[t].arg, mem |-> mem]
         /\ thread'[j] = mem
BY DEF Advance, TaskSet, TypeOK

\* A node before the interrupt leads to another one, and leaves the status alone.
LEMMA EarlyNodes ==
  ASSUME IInv, NEW t \in Tasks, NEW j \in Jobs, JobOf(t) = j, OutcomeOf(j),
         Writer(t) \/ Revise(t) \/ Collect(t) \/ Produce(t)
  PROVE  /\ t = j /\ ~Interrupted(j) /\ ~Interrupted(j)'
         /\ job'[j].status = job[j].status /\ job[j].status # "none"
         /\ UNCHANGED <<pending, taste>>
<1> DEFINE m == task[t].mem
<1>1. task[t].pc = "driving" /\ m.next \in {"writer", "critics"} \cup Making /\ m \in Checkpoints /\ TypeOK
  BY TaskKnowsItsJob DEF Writer, Revise, Collect, Produce, At, Making
<1>2. t = j /\ ~Interrupted(j) /\ task[j].arg = NoRequest
  BY <1>1, EarlyOwner DEF Making
<1>3. job[j].status # "none"
  BY <1>1, <1>2 DEF OutcomeOf, RunOfBrief
<1>4. ASSUME NEW mem, mem.next # "publish", Advance(t, "driving", mem) PROVE ~Interrupted(j)'
  <2>1. task'[t] = [pc |-> "driving", arg |-> task[t].arg, mem |-> mem]
    BY <1>1, <1>4, Advances
  <2>2. task'[j].pc = "driving" /\ task'[j].arg = NoRequest /\ task'[j].mem = mem
    BY <1>2, <2>1
  <2>3. QED
    BY <1>4, <2>2 DEF Interrupted
<1>5. CASE Writer(t)
  <2> DEFINE new == [m EXCEPT !.next = "critics", !.iteration = @ + 1, !.version = m.version + 1]
  <2>1. new.next = "critics" /\ Advance(t, "driving", new)
    BY <1>1, <1>5 DEF Writer, Checkpoints
  <2> HIDE DEF new
  <2>2. ~Interrupted(j)'
    BY <1>4, <2>1
  <2>3. job'[j].status = job[j].status /\ UNCHANGED <<pending, taste>>
    BY <1>1, <1>5 DEF Writer, JobHasScript, TypeOK, JobHash
  <2>4. QED
    BY <1>2, <1>3, <2>2, <2>3
<1>6. CASE Revise(t)
  <2>1. PICK b \in BestAfter(m) : Advance(t, "driving", [m EXCEPT !.next = "writer", !.best = b])
    BY <1>6 DEF Revise
  <2> DEFINE new == [m EXCEPT !.next = "writer", !.best = b]
  <2>2. new.next = "writer" /\ Advance(t, "driving", new)
    BY <1>1, <2>1 DEF Checkpoints
  <2> HIDE DEF new
  <2>3. ~Interrupted(j)'
    BY <1>4, <2>2
  <2>4. job'[j].status = job[j].status /\ UNCHANGED <<pending, taste>>
    BY <1>1, <1>6 DEF Revise, JobSet, TypeOK, JobHash
  <2>5. QED
    BY <1>2, <1>3, <2>3, <2>4
<1>7. CASE Collect(t)
  <2>1. PICK b \in BestAfter(m), h \in Hooks :
          Advance(t, "driving", [m EXCEPT !.next = "asset_gen", !.best = b, !.version = b])
    BY <1>7 DEF Collect
  <2> DEFINE new == [m EXCEPT !.next = "asset_gen", !.best = b, !.version = b]
  <2>2. new.next = "asset_gen" /\ Advance(t, "driving", new)
    BY <1>1, <2>1 DEF Checkpoints
  <2> HIDE DEF new
  <2>3. ~Interrupted(j)'
    BY <1>4, <2>2
  <2>4. job'[j].status = job[j].status /\ UNCHANGED <<pending, taste>>
    BY <1>1, <1>7 DEF Collect, JobHasScript, TypeOK, JobHash
  <2>5. QED
    BY <1>2, <1>3, <2>3, <2>4
<1>8. CASE Produce(t)
  <2> DEFINE next == [asset_gen |-> "render", render |-> "vision_qa", vision_qa |-> "approval"]
             new == [m EXCEPT !.next = next[m.next],
                              !.video = IF m.next = "asset_gen" THEN m.best ELSE m.video]
  <2>1. Advance(t, "driving", new)
    BY <1>8 DEF Produce
  <2>2. m.next \in Making
    BY <1>8 DEF Produce, Making
  <2>3. next[m.next] # "publish"
    BY <2>2 DEF Making
  <2>4. new.next # "publish"
    BY <1>1, <2>3 DEF Checkpoints
  <2> HIDE DEF new
  <2>5. ~Interrupted(j)'
    BY <1>4, <2>1, <2>4
  <2>6. job'[j].status = job[j].status /\ UNCHANGED <<pending, taste>>
    BY <1>1, <1>8 DEF Produce, JobSet, TypeOK, JobHash
  <2>7. QED
    BY <1>2, <1>3, <2>5, <2>6
<1>9. QED
  BY <1>5, <1>6, <1>7, <1>8

\* As long as no decision reaches it the run of the brief goes on to the interrupt and
\* stays there; it gets to hear one only by what it finds pending.
LEMMA UnheardStep ==
  ASSUME IInv, NEW j \in Jobs, OutcomeOf(j), Unheard(j), StartRun(j) \/ Work(j)
  PROVE  /\ UNCHANGED <<pending, taste>>
         /\ \/ GetPending(j) /\ pending[j] # NoRequest
            \/ Unheard(j)' /\ (AwaitsOwner(j) => AwaitsOwner(j)')
<1>1. TypeOK /\ j \in Tasks /\ JobOf(j) = j
  BY JobTask DEF IInv
<1>2. AwaitsOwner(j) => Interrupted(j)
  BY AwaitsOver
<1>3. CASE StartRun(j)
  <2>1. task[j].pc = "queued" /\ UNCHANGED <<pending, taste>>
    BY <1>3 DEF StartRun
  <2>2. task'[j].pc = "driving" /\ task'[j].mem.next = "writer" /\ job'[j].status = "running"
    BY <1>1, <1>3 DEF StartRun, TaskSet, JobSet, JobHash, TypeOK, Checkpoints
  <2>3. ~Interrupted(j) /\ ~Interrupted(j)'
    BY <2>1, <2>2 DEF Interrupted
  <2>4. QED
    BY <1>2, <2>1, <2>2, <2>3 DEF Unheard
<1>4. CASE Writer(j) \/ Revise(j) \/ Collect(j) \/ Produce(j)
  BY <1>1, <1>2, <1>4, EarlyNodes DEF Unheard
<1>5. CASE Interrupt(j)
  <2>1. ~Interrupted(j) /\ thread[j].next = "approval"
    BY <1>1, <1>5, EarlyOwner DEF Interrupt, At
  <2>2. /\ task'[j].pc = "parked" /\ UNCHANGED <<thread, pending, taste>>
        /\ job'[j].stage = "awaiting_approval" /\ job'[j].status = "done"
    <3>1. task' = TaskIdle(j, "parked") /\ job' = JobSet(j, "done", "awaiting_approval")
      BY <1>1, <1>5 DEF Interrupt
    <3>2. UNCHANGED <<thread, pending, taste>>
      BY <1>5 DEF Interrupt
    <3>3. task'[j].pc = "parked"
      BY <1>1, <3>1 DEF TaskIdle, TaskSet, TypeOK
    <3>4. job'[j].stage = "awaiting_approval" /\ job'[j].status = "done"
      BY <1>1, <3>1, OneJob
    <3>5. QED
      BY <3>2, <3>3, <3>4
  <2>3. QED
    BY <1>2, <2>1, <2>2 DEF Unheard, AwaitsOwner, Interrupted
<1>6. CASE GetPending(j)
  <2>1. CASE pending[j] = NoRequest
    <3>1. task[j].pc = "parked" /\ UNCHANGED <<job, thread, pending, taste>>
      BY <1>6 DEF GetPending
    <3>2. task'[j].pc = "finished"
      BY <1>1, <1>6, <2>1 DEF GetPending, TaskSet, TypeOK
    <3>3. QED
      BY <3>1, <3>2 DEF Unheard, AwaitsOwner, Interrupted
  <2>2. QED
    BY <1>6, <2>1 DEF GetPending
<1>7. CASE DeletePending(j) \/ Decide(j) \/ Decided(j) \/ Publish(j) \/ Published(j) \/ Settle(j)
  BY <1>7 DEF DeletePending, Decide, Decided, Publish, Published, Settle, At, Unheard, Interrupted
<1>8. QED
  BY <1>3, <1>4, <1>5, <1>6, <1>7 DEF Work

\* The tasks of a job are its own run and those of its decisions.
LEMMA OwnTask ==
  ASSUME IInv, NEW j \in Jobs, NEW t \in Tasks, JobOf(t) = j, task[t].pc # "none"
  PROVE  t = j \/ t \in DecisionsOn(j)
<1>1. CASE t \in Jobs
  BY <1>1, JobTask
<1>2. CASE t \in Requests
  BY <1>2, RequestTask DEF IInv, ResumesAreDecisions, Sent, DecisionsOn
<1>3. QED
  BY <1>1, <1>2 DEF Tasks

LEMMA WorkerTask ==
  ASSUME IInv, NEW t \in Tasks, WorkerStep(t)
  PROVE  /\ JobOf(t) \in Jobs /\ task[t].pc # "none" /\ UNCHANGED request
         /\ \A u \in Tasks \ {t} : task'[u] = task[u]
         /\ \A k \in Jobs \ {JobOf(t)} :
              job'[k] = job[k] /\ thread'[k] = thread[k] /\ script'[k] = script[k]
<1>1. /\ JobOf(t) \in Jobs /\ UNCHANGED request
      /\ \A u \in Tasks \ {t} : task'[u] = task[u]
      /\ \A k \in Jobs \ {JobOf(t)} :
           job'[k] = job[k] /\ thread'[k] = thread[k] /\ script'[k] = script[k]
  BY OneJobOnly DEF WorkerStep
<1>2. task[t].pc # "none"
  BY StepOfOneTask DEF WorkerStep, Resume, CheckResume, MarkResume, LoadResume, StartRun, IInv
<1>3. QED
  BY <1>1, <1>2

\* A task that is over does no more than find nothing pending.
LEMMA OverStep ==
  ASSUME IInv, NEW j \in Jobs, NEW t \in Tasks, JobOf(t) = j, Over(t), pending[j] = NoRequest, WorkerStep(t)
  PROVE  /\ task'[t].pc = "finished"
         /\ UNCHANGED <<job, pending, thread, script, taste, request>>
<1>1. GetPending(t)
  BY DEF WorkerStep, Work, Resume, CheckResume, MarkResume, LoadResume, StartRun, Over, At,
       Writer, Revise, Collect, Produce, Interrupt, DeletePending, Decide, Decided, Publish, Published, Settle
<1>2. task' = TaskSet(t, "finished", NoRequest, Empty) /\ UNCHANGED <<job, pending, thread, script, taste, request>>
  BY <1>1 DEF GetPending
<1>3. QED
  BY <1>2 DEF IInv, TypeOK, TaskSet

LEMMA ResumeCarries ==
  ASSUME OInv, Clean, NEW j \in Jobs, NEW r \in Requests, request[r].job = j, pending[j] = NoRequest,
         Carries(r, j, r), task[r].pc \in {"queued", "checked", "marked"}, WorkerStep(r)
  PROVE  pending'[j] = NoRequest /\ Carries(r, j, r)'
<1>1. TypeOK /\ r \in Tasks /\ r \notin Jobs /\ JobOf(r) = j /\ r # NoRequest
  BY StoryFacts, RequestTask, BriefAssumption
<1>2. Resume(r) /\ thread[j].next = "approval"
  BY <1>1 DEF WorkerStep, Work, Carries, AwaitsOwner, At,
       Writer, Revise, Collect, Produce, Interrupt, GetPending, DeletePending, Decide, Decided, Publish, Published, Settle
<1>3. UNCHANGED <<pending, thread>>
  BY <1>2 DEF Resume, CheckResume, MarkResume, LoadResume
<1>4. CASE CheckResume(r)
  <2>1. task' = TaskIdle(r, "checked") /\ UNCHANGED job /\ AwaitsOwner(j)
    BY <1>2, <1>4 DEF CheckResume, Carries
  <2>2. task'[r].pc = "checked"
    BY <1>1, <2>1 DEF TaskIdle, TaskSet, TypeOK
  <2>3. QED
    BY <1>3, <2>1, <2>2 DEF Carries, AwaitsOwner
<1>5. CASE MarkResume(r)
  <2>1. task'[r].pc = "marked"
    BY <1>1, <1>5 DEF MarkResume, TaskIdle, TaskSet, TypeOK
  <2>2. QED
    BY <1>2, <1>3, <2>1 DEF Carries
<1>6. CASE LoadResume(r)
  <2>1. Load(r, r)
    BY <1>6 DEF LoadResume
  <2>2. task'[r].pc = "driving" /\ task'[r].mem = thread[j] /\ task'[r].arg # NoRequest
    BY <1>1, <1>2, <2>1, LoadLate DEF Late
  <2>3. task'[r].arg = r
    BY <1>1, <2>1, <2>2, LoadedTask
  <2>4. QED
    BY <1>2, <1>3, <2>2, <2>3 DEF Carries
<1>7. QED
  BY <1>2, <1>4, <1>5, <1>6 DEF Resume

LEMMA DecideCarries ==
  ASSUME OInv, Clean, NEW j \in Jobs, NEW r \in Requests, pending[j] = NoRequest,
         NEW t \in Tasks, JobOf(t) = j, task[t].pc = "driving", task[t].mem.next = "approval",
         task[t].arg = r, WorkerStep(t)
  PROVE  pending'[j] = NoRequest /\ Carries(t, j, r)'
<1>1. TypeOK /\ TasteOf(r) /\ r # NoRequest
  BY StoryFacts, BriefAssumption
<1>2. Decide(t)
  BY <1>1 DEF WorkerStep, Work, Resume, CheckResume, MarkResume, LoadResume, StartRun, At,
       Writer, Revise, Collect, Produce, Interrupt, GetPending, DeletePending, Decided, Publish, Published, Settle
<1>3. taste[r] = 0
  <2>1. taste[r] \in Nat /\ ~Past(t)
    BY <1>1 DEF TypeOK, Past
  <2>2. ~(taste[r] > 0)
    BY <1>1, <2>1 DEF TasteOf
  <2>3. QED
    BY <2>1, <2>2
<1>4. taste'[r] = 1
  BY <1>1, <1>2, <1>3 DEF Decide, LeaveTaste, TypeOK
<1>5. task'[t].pc = "decided" /\ task'[t].arg = r
  <2> DEFINE new == [task[t].mem EXCEPT !.decision = r]
  <2>1. task' = TaskSet(t, "decided", r, new)
    BY <1>2 DEF Decide
  <2> HIDE DEF new
  <2>2. QED
    BY <1>1, <2>1 DEF TaskSet, TypeOK
<1>6. UNCHANGED <<pending, request>>
  BY <1>2 DEF Decide
<1>7. request[r].kind = "reject" => script'[j].status = "rejected"
  <2>1. request[r].kind = "reject" => script' = StatusSet(j, "rejected")
    BY <1>2 DEF Decide
  <2>2. QED
    BY <1>1, <2>1 DEF StatusSet, TypeOK, ScriptRow
<1>8. QED
  BY <1>4, <1>5, <1>6, <1>7 DEF Carries

LEMMA DecidedCarries ==
  ASSUME OInv, Clean, NEW j \in Jobs, NEW r \in Requests, pending[j] = NoRequest,
         NEW t \in Tasks, JobOf(t) = j, task[t].pc = "decided", Carries(t, j, r), WorkerStep(t)
  PROVE  pending'[j] = NoRequest /\ Carries(t, j, r)'
<1> DEFINE m == task[t].mem
<1>1. TypeOK /\ task[t].arg = r /\ taste[r] = 1 /\ (request[r].kind = "reject" => script[j].status = "rejected")
  BY StoryFacts DEF Carries
<1>2. m.decision = r /\ m \in Checkpoints
  BY <1>1, StoryFacts DEF Rejections, TypeOK, TaskState
<1>3. Decided(t)
  BY DEF WorkerStep, Work, Resume, CheckResume, MarkResume, LoadResume, StartRun, At,
       Writer, Revise, Collect, Produce, Interrupt, GetPending, DeletePending, Decide, Publish, Published, Settle
<1>4. UNCHANGED <<pending, script, taste, request>>
  BY <1>3 DEF Decided
<1>5. CASE request[r].kind = "reject"
  <2>1. End(t)
    BY <1>2, <1>3, <1>5 DEF Decided
  <2>2. thread'[j].next = "end" /\ task'[t].pc = "ended" /\ task'[t].mem.decision = r
    BY <1>1, <1>2, <2>1, EndsRun
  <2>3. QED
    BY <1>1, <1>4, <1>5, <2>2 DEF Carries
<1>6. CASE request[r].kind # "reject"
  <2> DEFINE new == [m EXCEPT !.next = "publish"]
  <2>1. new.next = "publish" /\ new.decision = r
    BY <1>2 DEF Checkpoints
  <2>2. Advance(t, "driving", new)
    BY <1>2, <1>3, <1>6 DEF Decided
  <2> HIDE DEF new
  <2>3. task'[t] = [pc |-> "driving", arg |-> task[t].arg, mem |-> new]
    BY <1>1, <2>2, Advances
  <2>4. task'[t].pc = "driving" /\ task'[t].mem.next = "publish" /\ task'[t].mem.decision = r
    BY <2>1, <2>3
  <2>5. QED
    BY <1>1, <1>4, <2>4 DEF Carries
<1>7. QED
  BY <1>5, <1>6

LEMMA PublishCarries ==
  ASSUME OInv, Clean, NEW j \in Jobs, NEW r \in Requests, pending[j] = NoRequest,
         NEW t \in Tasks, JobOf(t) = j, task[t].pc = "driving", task[t].mem.next = "publish",
         Carries(t, j, r), WorkerStep(t)
  PROVE  pending'[j] = NoRequest /\ Carries(t, j, r)'
<1>1. TypeOK /\ task[t].mem.decision = r /\ taste[r] = 1
  BY StoryFacts DEF Carries
<1>2. Publish(t)
  BY DEF WorkerStep, Work, Resume, CheckResume, MarkResume, LoadResume, StartRun, At,
       Writer, Revise, Collect, Produce, Interrupt, GetPending, DeletePending, Decide, Decided, Published, Settle
<1>3. task'[t].pc = "published" /\ task'[t].mem.decision = r
  BY <1>1, <1>2 DEF Publish, TaskSet, TypeOK
<1>4. UNCHANGED <<pending, taste, request>>
  BY <1>2 DEF Publish
<1>5. RowTells(j, r)'
  <2>1. script' = ScriptSet(j, IF request[r].kind = "schedule" THEN "scheduled" ELSE "approved",
                            script[j].hooks, script[j].body, request[r].hook)
    BY <1>1, <1>2 DEF Publish
  <2>2. QED
    BY <1>1, <1>4, <2>1 DEF ScriptSet, TypeOK, RowTells
<1>6. QED
  BY <1>1, <1>3, <1>4, <1>5 DEF Carries

LEMMA PublishedCarries ==
  ASSUME OInv, Clean, NEW j \in Jobs, NEW r \in Requests, pending[j] = NoRequest,
         NEW t \in Tasks, JobOf(t) = j, task[t].pc = "published", Carries(t, j, r), WorkerStep(t)
  PROVE  pending'[j] = NoRequest /\ Carries(t, j, r)'
<1> DEFINE m == task[t].mem
<1>1. TypeOK /\ IInv /\ m.decision = r /\ taste[r] = 1 /\ RowTells(j, r)
  BY StoryFacts DEF Carries
<1>2. Published(t)
  BY DEF WorkerStep, Work, Resume, CheckResume, MarkResume, LoadResume, StartRun, At,
       Writer, Revise, Collect, Produce, Interrupt, GetPending, DeletePending, Decide, Decided, Publish, Settle
<1>3. End(t) /\ UNCHANGED <<pending, script, taste, request>>
  BY <1>2 DEF Published
<1>4. thread'[j].next = "end" /\ task'[t].pc = "ended" /\ task'[t].mem = m
  BY <1>1, <1>3, EndsRun
<1>5. request[r].kind # "reject"
  <2>1. Active(t) /\ TaskHolds(request, task[t], j)
    BY <1>1, RunningTask DEF Active
  <2>2. QED
    BY <1>1, <2>1 DEF TaskHolds, Holds
<1>6. RowTells(j, r)'
  BY <1>1, <1>3 DEF RowTells, HookAsked
<1>7. QED
  BY <1>1, <1>3, <1>4, <1>5, <1>6 DEF Carries

LEMMA SettleCarries ==
  ASSUME OInv, Clean, NEW j \in Jobs, NEW r \in Requests, pending[j] = NoRequest,
         NEW t \in Tasks, JobOf(t) = j, task[t].pc = "ended", Carries(t, j, r), WorkerStep(t)
  PROVE  pending'[j] = NoRequest /\ Over(t)' /\ Applied(j, r)'
<1> DEFINE final == [reject |-> "rejected", approve |-> "published", schedule |-> "scheduled"]
           kind  == request[r].kind
<1>1. /\ TypeOK /\ task[t].mem.decision = r /\ taste[r] = 1 /\ thread[j].next = "end"
      /\ IF kind = "reject" THEN script[j].status = "rejected" ELSE RowTells(j, r)
  BY StoryFacts DEF Carries
<1>2. Settle(t)
  BY DEF WorkerStep, Work, Resume, CheckResume, MarkResume, LoadResume, StartRun, At,
       Writer, Revise, Collect, Produce, Interrupt, GetPending, DeletePending, Decide, Decided, Publish, Published
<1>3. /\ UNCHANGED <<pending, thread, script, taste, request>> /\ kind \in {"reject", "approve", "schedule"}
      /\ job' = JobSet(j, "done", final[kind]) /\ task' = TaskIdle(t, "finished")
  BY <1>1, <1>2 DEF Settle
<1>4. task'[t].pc = "finished"
  BY <1>1, <1>3 DEF TaskIdle, TaskSet, TypeOK
<1>5. final[kind] = IF kind = "reject" THEN "rejected" ELSE IF kind = "schedule" THEN "scheduled" ELSE "published"
  BY <1>3
<1>6. job'[j].status = "done" /\ job'[j].stage = final[kind]
  <2> HIDE DEF final, kind
  <2>1. QED
    BY <1>1, <1>3, OneJob
<1>7. RowTells(j, r) => RowTells(j, r)'
  BY <1>3 DEF RowTells, HookAsked
<1> HIDE DEF final
<1>8. QED
  BY <1>1, <1>3, <1>4, <1>5, <1>6, <1>7 DEF Over, Applied

LEMMA TakesStep ==
  ASSUME OInv, Clean, NEW j \in Jobs, NEW r \in Requests, request[r].job = j, pending[j] = NoRequest,
         NEW t \in {j, r}, Carries(t, j, r), WorkerStep(t)
  PROVE  pending'[j] = NoRequest /\ (Carries(t, j, r)' \/ (Over(t)' /\ Applied(j, r)'))
<1>1. t \in Tasks /\ JobOf(t) = j
  BY JobTask, RequestTask
<1>2. CASE task[t].pc \in {"queued", "checked", "marked"}
  <2>1. t = r
    BY <1>2 DEF Carries
  <2>2. QED
    BY <1>2, <2>1, ResumeCarries
<1>3. CASE task[t].pc = "driving" /\ task[t].mem.next = "approval"
  <2>1. task[t].arg = r
    BY <1>3 DEF Carries
  <2>2. QED
    BY <1>1, <1>3, <2>1, DecideCarries
<1>4. CASE task[t].pc = "decided"
  BY <1>1, <1>4, DecidedCarries
<1>5. CASE task[t].pc = "driving" /\ task[t].mem.next = "publish"
  BY <1>1, <1>5, PublishCarries
<1>6. CASE task[t].pc = "published"
  BY <1>1, <1>6, PublishedCarries
<1>7. CASE task[t].pc = "ended"
  BY <1>1, <1>7, SettleCarries
<1>8. QED
  BY <1>2, <1>3, <1>4, <1>5, <1>6, <1>7 DEF Carries

\* What is pending for a job reaches the task that read it.
LEMMA DeferredStep ==
  ASSUME OInv, Clean, NEW j \in Jobs, NEW r \in Requests, DecisionsOn(j) = {r}, Deferred(j, r), WorkerStep(j)
  PROVE  Deferred(j, r)' \/ (pending'[j] = NoRequest /\ Carries(j, j, r)')
<1>1. /\ TypeOK /\ IInv /\ OutcomeOf(j) /\ j \in Tasks /\ JobOf(j) = j
      /\ j \notin Requests /\ r # NoRequest /\ pending[j] = r
  BY StoryFacts, JobTask, BriefAssumption DEF Deferred
<1>2. UNCHANGED request /\ (Undecided(r)' <=> Undecided(r))
  BY <1>1, WorkerTask DEF Undecided
<1>3. CASE Unheard(j)
  <2>1. StartRun(j) \/ Work(j)
    BY <1>1 DEF WorkerStep
  <2>2. UNCHANGED pending
    BY <1>1, <1>3, <2>1, UnheardStep
  <2>3. CASE Unheard(j)'
    BY <1>1, <1>2, <2>2, <2>3 DEF Deferred
  <2>4. CASE GetPending(j)
    <3>1. AwaitsOwner(j)
      BY <1>3, <2>4 DEF GetPending, Unheard, Interrupted
    <3>2. task'[j].pc = "popped" /\ UNCHANGED <<job, thread>>
      BY <1>1, <2>4 DEF GetPending, TaskSet, TypeOK
    <3>3. QED
      BY <1>1, <1>2, <2>2, <3>1, <3>2 DEF Deferred, AwaitsOwner
  <2>5. QED
    BY <1>1, <1>3, <2>1, <2>3, <2>4, UnheardStep
<1>4. CASE task[j].pc = "popped" /\ AwaitsOwner(j)
  <2>1. DeletePending(j)
    BY <1>1, <1>4 DEF WorkerStep, Work, StartRun, At,
         Writer, Revise, Collect, Produce, Interrupt, GetPending, Decide, Decided, Publish, Published, Settle
  <2>2. task[j].arg = r
    <3>1. Active(j) /\ TaskHolds(request, task[j], j) /\ task[j].arg # NoRequest
      BY <1>1, <1>4, StoryFacts, RunningTask DEF Active, Rejections
    <3>2. task[j].arg \in DecisionsOn(j)
      BY <3>1 DEF TaskHolds, Sent, DecisionsOn
    <3>3. QED
      BY <3>2
  <2>3. Load(j, r) /\ UNCHANGED thread /\ pending'[j] = NoRequest
    BY <1>1, <2>1, <2>2 DEF DeletePending, TypeOK
  <2>4. task'[j].pc = "driving" /\ task'[j].mem = thread[j] /\ task'[j].arg # NoRequest
    BY <1>1, <1>4, <2>3, LoadLate DEF Late, AwaitsOwner
  <2>5. task'[j].arg = r
    BY <1>1, <2>3, <2>4, LoadedTask
  <2>6. QED
    BY <1>4, <2>3, <2>4, <2>5 DEF Carries, AwaitsOwner
<1>5. QED
  BY <1>3, <1>4 DEF Deferred

\* The story goes on with every step of a task of the job.
LEMMA WorkerStory ==
  ASSUME OInv, Clean, NEW j \in Jobs, NEW r \in Requests, DecisionsOn(j) = {r}, StoryOf(j, r),
         NEW t \in Tasks, JobOf(t) = j, WorkerStep(t)
  PROVE  StoryOf(j, r)'
<1>1. /\ TypeOK /\ IInv /\ OutcomeOf(j) /\ TasteOf(r) /\ j \in Tasks /\ r \in Tasks
      /\ JobOf(j) = j /\ r # j /\ request[r].job = j /\ JobOf(r) = j
  BY StoryFacts, JobTask, RequestTask DEF DecisionsOn
<1>2. /\ t \in {j, r} /\ task[t].pc # "none" /\ UNCHANGED request
      /\ \A u \in Tasks \ {t} : task'[u] = task[u]
  BY <1>1, WorkerTask, OwnTask
<1>3. Undecided(r)' <=> Undecided(r)
  BY <1>2 DEF Undecided
<1>4. CASE Unsent(j, r)
  <2>1. t = j /\ (StartRun(j) \/ Work(j))
    <3>1. task[r].pc = "none"
      BY <1>1, <1>4 DEF Unsent, TasteOf, Carried
    <3>2. t = j /\ j \notin Requests
      BY <1>2, <3>1, JobTask
    <3>3. QED
      BY <3>2 DEF WorkerStep
  <2>2. Unheard(j)' /\ (AwaitsOwner(j) => AwaitsOwner(j)') /\ UNCHANGED pending
    BY <1>1, <1>4, <2>1, UnheardStep DEF Unsent
  <2>3. Unsent(j, r)'
    BY <1>2, <1>3, <1>4, <2>2 DEF Unsent
  <2>4. QED
    BY <2>3 DEF StoryOf
<1>5. CASE Deferred(j, r)
  <2>1. task[r].pc = "none"
    BY <1>1, <1>5 DEF Deferred, TasteOf, Waiting
  <2>2. t = j /\ task'[r] = task[r]
    BY <1>1, <1>2, <2>1
  <2>3. CASE Deferred(j, r)'
    BY <2>3 DEF StoryOf
  <2>4. CASE pending'[j] = NoRequest /\ Carries(j, j, r)'
    <3>1. Over(r)'
      BY <2>1, <2>2 DEF Over
    <3>2. Taken(j, r)'
      BY <1>3, <1>5, <2>4, <3>1 DEF Taken, Deferred
    <3>3. QED
      BY <3>2 DEF StoryOf
  <2>5. QED
    BY <1>5, <2>2, <2>3, <2>4, DeferredStep
<1>6. CASE Taken(j, r)
  <2>1. PICK s \in {j, r} : Carries(s, j, r) /\ \A u \in {j, r} \ {s} : Over(u)
    BY <1>6 DEF Taken
  <2>2. ~Undecided(r)' /\ pending[j] = NoRequest
    BY <1>3, <1>6 DEF Taken
  <2>3. CASE t = s
    <3>1. pending'[j] = NoRequest /\ (Carries(s, j, r)' \/ (Over(s)' /\ Applied(j, r)'))
      BY <1>1, <2>1, <2>2, <2>3, TakesStep
    <3>2. \A u \in {j, r} \ {s} : Over(u)'
      BY <1>1, <1>2, <2>1, <2>3 DEF Over
    <3>3. CASE Carries(s, j, r)'
      <4>1. Taken(j, r)'
        BY <2>2, <3>1, <3>2, <3>3 DEF Taken
      <4>2. QED
        BY <4>1 DEF StoryOf
    <3>4. CASE Over(s)' /\ Applied(j, r)'
      <4>1. Over(j)' /\ Over(r)'
        BY <3>2, <3>4
      <4>2. Settled(j, r)'
        BY <2>2, <3>1, <3>4, <4>1 DEF Settled
      <4>3. QED
        BY <4>2 DEF StoryOf
    <3>5. QED
      BY <3>1, <3>3, <3>4
  <2>4. CASE t # s
    <3>1. Over(t) /\ task'[s] = task[s]
      BY <1>1, <1>2, <2>1, <2>4
    <3>2. task'[t].pc = "finished" /\ UNCHANGED <<job, pending, thread, script, taste, request>>
      BY <1>1, <2>2, <3>1, OverStep
    <3>3. Carries(s, j, r)'
      BY <2>1, <3>1, <3>2 DEF Carries, AwaitsOwner, RowTells, HookAsked
    <3>4. \A u \in {j, r} \ {s} : Over(u)'
      BY <1>2, <2>1, <2>4, <3>2 DEF Over
    <3>5. Taken(j, r)'
      BY <2>1, <2>2, <3>2, <3>3, <3>4 DEF Taken
    <3>6. QED
      BY <3>5 DEF StoryOf
  <2>5. QED
    BY <2>3, <2>4
<1>7. CASE Settled(j, r)
  <2>1. task'[t].pc = "finished" /\ UNCHANGED <<job, pending, thread, script, taste, request>>
    BY <1>1, <1>2, <1>7, OverStep DEF Settled
  <2>2. Over(j)' /\ Over(r)'
    BY <1>1, <1>2, <1>7, <2>1 DEF Settled, Over
  <2>3. Settled(j, r)'
    BY <1>3, <1>7, <2>1, <2>2 DEF Settled, Applied, RowTells, HookAsked
  <2>4. QED
    BY <2>3 DEF StoryOf
<1>8. QED
  BY <1>4, <1>5, <1>6, <1>7 DEF StoryOf

\* The story is the same after a step that leaves the job's run and its decision alone,
\* though it may choose a hook or end a request that has acted.
LEMMA StoryKept ==
  ASSUME NEW j \in Jobs, NEW r \in Requests, StoryOf(j, r),
         thread'[j] = thread[j], pending'[j] = pending[j], task'[j] = task[j],
         job'[j].status = job[j].status, job'[j].stage = job[j].stage,
         script'[j].status = script[j].status,
         script'[j].selected = script[j].selected \/ HookAsked(j)',
         HookAsked(j) => HookAsked(j)',
         task'[r] = task[r], taste'[r] = taste[r],
         request'[r].kind = request[r].kind, request'[r].hook = request[r].hook,
         request'[r].route = request[r].route,
         request'[r].pc = request[r].pc \/ (request[r].pc = "rejectActed" /\ request'[r].pc = "done")
  PROVE  StoryOf(j, r)'
<1>1. /\ Unheard(j)' <=> Unheard(j)
      /\ AwaitsOwner(j)' <=> AwaitsOwner(j)
      /\ Undecided(r)' <=> Undecided(r)
      /\ Over(j)' <=> Over(j)
      /\ Over(r)' <=> Over(r)
  BY DEF Unheard, Interrupted, AwaitsOwner, Undecided, Over
<1>2. RowTells(j, r) => RowTells(j, r)'
  BY DEF RowTells
<1>3. Unsent(j, r) => Unsent(j, r)'
  BY <1>1 DEF Unsent
<1>4. Deferred(j, r) => Deferred(j, r)'
  BY <1>1 DEF Deferred
<1>5. Applied(j, r) => Applied(j, r)'
  BY <1>2 DEF Applied
<1>6. Settled(j, r) => Settled(j, r)'
  BY <1>1, <1>5 DEF Settled
<1>7. \A t \in {j, r} : Carries(t, j, r) => Carries(t, j, r)'
  BY <1>1, <1>2 DEF Carries
<1>8. Taken(j, r) => Taken(j, r)'
  BY <1>1, <1>7 DEF Taken
<1>9. QED
  BY <1>3, <1>4, <1>6, <1>8 DEF StoryOf

\* The same for all that is said of the job.
LEMMA OneStoryKept ==
  ASSUME NEW j \in Jobs, OneStory(j), DecisionsOn(j)' = DecisionsOn(j),
         thread'[j] = thread[j], pending'[j] = pending[j], task'[j] = task[j],
         job'[j].status = job[j].status, job'[j].stage = job[j].stage, job'[j].script = job[j].script,
         script'[j].status = script[j].status,
         script'[j].selected = script[j].selected \/ HookAsked(j)',
         HookAsked(j) => HookAsked(j)',
         \A r \in DecisionsOn(j) :
           /\ task'[r] = task[r] /\ taste'[r] = taste[r]
           /\ request'[r].kind = request[r].kind /\ request'[r].hook = request[r].hook
           /\ request'[r].route = request[r].route
           /\ request'[r].pc = request[r].pc \/ (request[r].pc = "rejectActed" /\ request'[r].pc = "done")
  PROVE  OneStory(j)'
<1>1. Unheard(j)' <=> Unheard(j)
  BY DEF Unheard, Interrupted, AwaitsOwner
<1>2. ASSUME NEW r \in Requests, DecisionsOn(j) = {r} PROVE StoryOf(j, r)'
  BY <1>2, StoryKept DEF OneStory
<1>3. QED
  BY <1>1, <1>2 DEF OneStory

\* A step of the worker on a job never makes the job as if it did not exist.
LEMMA JobExists ==
  ASSUME IInv, NEW j \in Jobs, OutcomeOf(j), NEW t \in Tasks, JobOf(t) = j, WorkerStep(t)
  PROVE  job'[j].status # "none"
<1>1. TypeOK
  BY DEF IInv
<1>2. job[j].status # "none"
  <2>1. CASE t = j
    BY <2>1, WorkerTask DEF OutcomeOf, RunOfBrief
  <2>2. CASE t # j
    BY <2>2, WorkerTask, OwnTask, LateTask DEF DecisionsOn
  <2>3. QED
    BY <2>1, <2>2
<1>3. ASSUME NEW status, NEW stage, status # "none", job' = JobSet(JobOf(t), status, stage)
      PROVE  job'[j].status # "none"
  BY <1>1, <1>3, OneJob
<1>4. ASSUME NEW stage, job' = JobHasScript(JobOf(t), stage)
      PROVE  job'[j].status # "none"
  BY <1>1, <1>2, <1>4 DEF JobHasScript, TypeOK, JobHash
<1>5. \/ UNCHANGED job
      \/ \E status, stage : status # "none" /\ job' = JobSet(JobOf(t), status, stage)
      \/ \E stage : job' = JobHasScript(JobOf(t), stage)
  <2>1. CASE t \in Jobs /\ StartRun(t)
    BY <2>1, JobTask DEF StartRun
  <2>2. CASE t \in Requests /\ Resume(t)
    BY <2>2, RequestTask DEF Resume, CheckResume, MarkResume, LoadResume
  <2>3. CASE Work(t)
    BY <1>2, <2>3, Zenon DEF Work, Writer, Revise, Collect, Produce, Interrupt, GetPending, DeletePending,
         Decide, Decided, Publish, Published, Settle
  <2>4. QED
    BY <2>1, <2>2, <2>3 DEF WorkerStep
<1>6. QED
  BY <1>2, <1>3, <1>4, <1>5

\* Only the decision that a task holds leaves its row, and only on the task's job is
\* anything popped.
LEMMA WorkerTaste ==
  ASSUME IInv, NEW t \in Tasks, WorkerStep(t)
  PROVE  /\ \A k \in Jobs \ {JobOf(t)} : pending'[k] = pending[k]
         /\ \A r \in Requests : request[r].job # JobOf(t) => taste'[r] = taste[r]
<1>1. TypeOK
  BY DEF IInv
<1>2. CASE Decide(t)
  <2>1. task[t].arg # NoRequest /\ Active(t) /\ UNCHANGED pending
    BY <1>2 DEF Decide, At, Active
  <2>2. request[task[t].arg].job = JobOf(t)
    BY <2>1, RunningTask DEF TaskHolds, Sent
  <2>3. QED
    BY <1>1, <1>2, <2>1, <2>2 DEF Decide, LeaveTaste, TypeOK
<1>3. CASE DeletePending(t)
  BY <1>1, <1>3 DEF DeletePending, TypeOK
<1>4. CASE ~Decide(t) /\ ~DeletePending(t)
  <2>1. UNCHANGED <<pending, taste>>
    BY <1>4 DEF WorkerStep, Work, Resume, CheckResume, MarkResume, LoadResume, StartRun,
         Writer, Revise, Collect, Produce, Interrupt, GetPending, Decided, Publish, Published, Settle
  <2>2. QED
    BY <2>1
<1>5. QED
  BY <1>2, <1>3, <1>4

LEMMA WorkerStories ==
  ASSUME OInv, Clean, NEW t \in Tasks, WorkerStep(t), NEW j \in Jobs, OneStory(j)
  PROVE  OneStory(j)'
<1>1. IInv /\ OutcomeOf(j) /\ j \in Tasks /\ JobOf(j) = j
  BY StoryFacts, JobTask
<1>2. UNCHANGED request /\ DecisionsOn(j)' = DecisionsOn(j) /\ (HookAsked(j)' <=> HookAsked(j))
  BY <1>1, WorkerTask DEF DecisionsOn, HookAsked
<1>3. CASE JobOf(t) = j
  <2>1. job'[j].status # "none"
    BY <1>1, <1>3, JobExists
  <2>2. ASSUME NEW r \in Requests, DecisionsOn(j) = {r} PROVE StoryOf(j, r)'
    BY <1>3, <2>2, WorkerStory DEF OneStory
  <2>3. ASSUME DecisionsOn(j) = {} PROVE Unheard(j)' /\ pending'[j] = NoRequest
    <3>1. t = j
      BY <1>1, <1>3, <2>3, WorkerTask, OwnTask
    <3>2. StartRun(j) \/ Work(j)
      BY <3>1, JobTask DEF WorkerStep
    <3>3. QED
      BY <1>1, <2>3, <3>2, UnheardStep DEF OneStory
  <2>4. QED
    BY <1>2, <2>1, <2>2, <2>3 DEF OneStory
<1>4. CASE JobOf(t) # j
  <2>1. /\ job'[j] = job[j] /\ thread'[j] = thread[j] /\ script'[j] = script[j]
        /\ task'[j] = task[j] /\ pending'[j] = pending[j]
    BY <1>1, <1>4, WorkerTask, WorkerTaste
  <2>2. ASSUME NEW r \in DecisionsOn(j) PROVE task'[r] = task[r] /\ taste'[r] = taste[r]
    <3>1. r \in Requests /\ request[r].job = j /\ r \in Tasks /\ JobOf(r) = j
      BY RequestTask DEF DecisionsOn
    <3>2. QED
      BY <1>1, <1>4, <3>1, WorkerTask, WorkerTaste
  <2>3. QED
    BY <1>2, <2>1, <2>2, OneStoryKept
<1>5. QED
  BY <1>3, <1>4

-----------------------------------------------------------------------------
(* The requests tell the story as well *)

\* A brief that is created has no story yet.
LEMMA CreateStory ==
  ASSUME OInv, Clean, NEW k \in Jobs, EnqueueBrief(k), UNCHANGED <<pending, thread, script, taste>>,
         \A r \in Requests :
           /\ request'[r].job = request[r].job /\ request'[r].kind = request[r].kind
           /\ request'[r].hook = request[r].hook /\ request'[r].route = request[r].route
           /\ request'[r].pc = request[r].pc \/ (request[r].pc = "rejectActed" /\ request'[r].pc = "done"),
         NEW j \in Jobs, OneStory(j)
  PROVE  OneStory(j)'
<1>1. TypeOK /\ OutcomeOf(k) /\ job[k].status = "none" /\ k \in Tasks
  BY StoryFacts, JobTask DEF EnqueueBrief
<1>2. /\ task'[k] = [pc |-> "queued", arg |-> NoRequest, mem |-> Empty]
      /\ \A u \in Tasks \ {k} : task'[u] = task[u]
  BY <1>1, OneTaskIdle DEF EnqueueBrief
<1>3. /\ job'[k].status = "queued" /\ \A i \in Jobs \ {k} : job'[i] = job[i]
  BY <1>1, OneJob DEF EnqueueBrief
<1>4. DecisionsOn(j)' = DecisionsOn(j) /\ (HookAsked(j)' <=> HookAsked(j))
  BY DEF DecisionsOn, HookAsked
<1>5. CASE j # k
  <2>1. task'[j] = task[j] /\ \A r \in DecisionsOn(j) : task'[r] = task[r]
    BY <1>2, <1>5, JobTask, RequestTask DEF DecisionsOn
  <2>2. QED
    BY <1>3, <1>4, <1>5, <2>1, OneStoryKept DEF DecisionsOn
<1>6. CASE j = k
  <2>1. ~AwaitsOwner(j) /\ Unheard(j)'
    BY <1>1, <1>2, <1>3, <1>6 DEF AwaitsOwner, Unheard, Interrupted
  <2>2. ASSUME NEW r \in Requests, DecisionsOn(j) = {r} PROVE StoryOf(j, r)'
    <3>1. request[r].job = j /\ r \in Tasks /\ JobOf(r) = j /\ j \in Tasks /\ JobOf(j) = j
      BY <2>2, RequestTask, JobTask DEF DecisionsOn
    <3>2. StoryOf(j, r)
      BY <2>2 DEF OneStory
    <3>3. ~Carries(j, j, r) /\ ~Carries(r, j, r)
      BY <1>1, <1>6, <3>1, LateTask, RequestTask, BriefAssumption DEF Carries
    <3>4. ~Taken(j, r) /\ ~Settled(j, r)
      BY <1>1, <1>6, <3>3 DEF Taken, Settled, Applied
    <3>5. Undecided(r)' <=> Undecided(r)
      BY DEF Undecided
    <3>6. CASE Unsent(j, r)
      BY <2>1, <3>5, <3>6 DEF StoryOf, Unsent
    <3>7. CASE Deferred(j, r)
      BY <2>1, <3>5, <3>7 DEF StoryOf, Deferred
    <3>8. QED
      BY <3>2, <3>4, <3>6, <3>7 DEF StoryOf
  <2>3. QED
    BY <1>3, <1>4, <1>6, <2>1, <2>2 DEF OneStory
<1>7. QED
  BY <1>5, <1>6

\* A request that chooses a hook has no part in the story.
LEMMA HookStory ==
  ASSUME OInv, HookRequests, Clean, NEW q \in Requests,
         (\E k \in Jobs, h \in Hooks : ReadHooks(q, k, h)) \/ SaveHooks(q) \/ RecordHook(q),
         NEW j \in Jobs, OneStory(j)
  PROVE  OneStory(j)'
<1>1. TypeOK /\ IInv
  BY StoryFacts
<1>2. /\ UNCHANGED <<pending, thread, taste, task>>
      /\ \A r \in Requests \ {q} : request'[r] = request[r]
      /\ request'[q].kind = "hook"
  BY <1>1 DEF ReadHooks, SaveHooks, RecordHook, TypeOK, RequestState, HookRequests
<1>3. request[q].kind \in {"none", "hook"} /\ (request[q].kind = "hook" => request'[q].job = request[q].job)
  BY <1>1 DEF ReadHooks, SaveHooks, RecordHook, TypeOK, RequestState, HookRequests, IInv,
       HandlersKnowTheirRequest
<1>4. DecisionsOn(j)' = DecisionsOn(j) /\ q \notin DecisionsOn(j)
  BY <1>2, <1>3 DEF DecisionsOn, DecisionKinds
<1>5. HookAsked(j) => HookAsked(j)'
  BY <1>2, <1>3 DEF HookAsked
<1>6. job'[j].status = job[j].status /\ job'[j].stage = job[j].stage /\ job'[j].script = job[j].script
  BY <1>1 DEF ReadHooks, SaveHooks, RecordHook, TypeOK, JobHash
<1>7. script'[j].status = script[j].status /\ (script'[j].selected = script[j].selected \/ HookAsked(j)')
  <2>1. CASE SaveHooks(q)
    <3>1. CASE request[q].job = j
      BY <1>1, <1>2, <1>3, <2>1, <3>1 DEF SaveHooks, ScriptSet, TypeOK, HookRequests, HookAsked
    <3>2. CASE request[q].job # j
      BY <1>1, <2>1, <3>2 DEF SaveHooks, ScriptSet, TypeOK
    <3>3. QED
      BY <3>1, <3>2
  <2>2. QED
    BY <2>1 DEF ReadHooks, RecordHook
<1>8. QED
  BY <1>2, <1>4, <1>5, <1>6, <1>7, OneStoryKept DEF DecisionsOn

\* A decision that reads its job begins the story, as long as it is the first.
LEMMA ReadStory ==
  ASSUME OInv, Clean, NEW q \in Requests, NEW k \in Jobs,
         \/ \E retry \in BOOLEAN : ReadReject(q, k, retry)
         \/ \E kind \in {"approve", "schedule"} : ReadApprove(q, k, kind),
         NEW j \in Jobs, OneStory(j)
  PROVE  OneStory(j)'
<1>1. TypeOK /\ IInv /\ OutcomeOf(j) /\ request[q].kind = "none"
  BY StoryFacts DEF IInv, HandlersKnowTheirRequest, ReadReject, ReadApprove
<1>2. /\ UNCHANGED <<job, pending, thread, script, taste, task>>
      /\ \A r \in Requests \ {q} : request'[r] = request[r]
      /\ request'[q].job = k
      /\ job[k].script
      /\ \/ request'[q].pc = "rejectRead" /\ request'[q].kind = "reject" /\ request'[q].route = RejectRoute(k)
         \/ /\ request'[q].pc = "approveRead" /\ request'[q].kind \in {"approve", "schedule"}
            /\ request'[q].route = "none" /\ job[k].stage = "awaiting_approval"
  BY <1>1 DEF ReadReject, ReadApprove, TypeOK
<1>3. HookAsked(j) => HookAsked(j)'
  BY <1>1, <1>2 DEF HookAsked
<1>4. CASE j # k
  <2>1. DecisionsOn(j)' = DecisionsOn(j) /\ q \notin DecisionsOn(j)
    BY <1>1, <1>2, <1>4 DEF DecisionsOn, DecisionKinds
  <2>2. QED
    BY <1>2, <1>3, <2>1, OneStoryKept DEF DecisionsOn
<1>5. CASE j = k
  <2>1. DecisionsOn(j)' = DecisionsOn(j) \cup {q} /\ q \notin DecisionsOn(j)
    BY <1>1, <1>2, <1>5 DEF DecisionsOn, DecisionKinds
  <2>2. ASSUME NEW r \in Requests, DecisionsOn(j)' = {r} PROVE StoryOf(j, r)'
    <3>1. r = q /\ DecisionsOn(j) = {}
      BY <2>1, <2>2
    <3>2. Unheard(j) /\ pending[j] = NoRequest /\ job[j].status # "none"
      BY <1>2, <1>5, <3>1 DEF OneStory
    <3>3. Undecided(q)' /\ Unheard(j)'
      BY <1>2, <3>2 DEF Undecided, Unheard, Interrupted, AwaitsOwner
    <3>4. job[j].stage = "awaiting_approval" => AwaitsOwner(j)
      BY <1>1, <3>2, AwaitsOver
    <3>5. RejectRoute(j) # "recorded" /\ (RejectRoute(j) = "resumed" => AwaitsOwner(j))
      BY <3>2, <3>4 DEF RejectRoute, Unheard, AwaitsOwner
    <3>6. AwaitsOwner(j) => AwaitsOwner(j)'
      BY <1>2 DEF AwaitsOwner
    <3>7. Unsent(j, q)'
      BY <1>2, <1>5, <3>2, <3>3, <3>4, <3>5, <3>6 DEF Unsent
    <3>8. QED
      BY <3>1, <3>7 DEF StoryOf
  <2>3. QED
    BY <1>2, <2>1, <2>2 DEF OneStory
<1>6. QED
  BY <1>4, <1>5

\* A decision takes its route.
LEMMA SendStory ==
  ASSUME OInv, Clean, NEW q \in Requests, ActReject(q) \/ EnqueueApprove(q),
         NEW j \in Jobs, OneStory(j)
  PROVE  OneStory(j)'
<1> DEFINE k == request[q].job
<1>1. /\ TypeOK /\ IInv /\ OutcomeOf(j) /\ TasteOf(q) /\ k \in Jobs /\ j # q /\ q \in Tasks /\ j \in Tasks
      /\ request[q].pc \in {"rejectRead", "approveRead"} /\ request[q].kind \in {"reject", "approve", "schedule"}
      /\ request[q].pc = "approveRead" => request[q].kind \in {"approve", "schedule"}
  BY StoryFacts, JobTask, RequestTask DEF IInv, HandlersKnowTheirRequest, ActReject, EnqueueApprove
<1>2. /\ UNCHANGED <<job, thread>>
      /\ \A r \in Requests \ {q} : request'[r] = request[r] /\ taste'[r] = taste[r]
      /\ request'[q].pc \in {"rejectActed", "done"}
      /\ request'[q].kind = request[q].kind /\ request'[q].job = k
      /\ request'[q].hook = request[q].hook /\ request'[q].route = request[q].route
      /\ \A u \in Tasks \ {q} : task'[u] = task[u]
  BY <1>1 DEF ActReject, EnqueueApprove, LeaveTaste, TypeOK, RequestState, TaskIdle, TaskSet
<1>3. \A i \in Jobs \ {k} : pending'[i] = pending[i] /\ script'[i] = script[i]
  BY <1>1 DEF ActReject, EnqueueApprove, TypeOK, StatusSet
<1>4. DecisionsOn(j)' = DecisionsOn(j) /\ (HookAsked(j)' <=> HookAsked(j))
  BY <1>2 DEF DecisionsOn, HookAsked
<1>5. CASE j # k
  <2>1. q \notin DecisionsOn(j)
    BY <1>5 DEF DecisionsOn
  <2>2. task'[j] = task[j] /\ \A r \in DecisionsOn(j) : task'[r] = task[r] /\ taste'[r] = taste[r] /\ request'[r] = request[r]
    BY <1>1, <1>2, <2>1, RequestTask DEF DecisionsOn
  <2>3. QED
    BY <1>2, <1>3, <1>4, <1>5, <2>2, OneStoryKept
<1>6. CASE j = k
  <2>1. q \in DecisionsOn(j)
    BY <1>1, <1>6 DEF DecisionsOn, DecisionKinds
  <2>2. ASSUME NEW r \in Requests, DecisionsOn(j) = {r} PROVE StoryOf(j, r)'
    <3>1. r = q /\ StoryOf(j, q)
      BY <2>1, <2>2 DEF OneStory
    <3>2. Undecided(q) /\ ~Undecided(q)'
      BY <1>1, <1>2 DEF Undecided
    <3>3. Unsent(j, q)
      BY <3>1, <3>2 DEF StoryOf, Deferred, Taken, Settled
    <3>4. task'[j] = task[j]
      BY <1>1, <1>2
    <3>5. CASE ActReject(q) /\ request[q].route = "pending"
      <4>1. pending'[j] = q
        BY <1>1, <1>6, <3>5 DEF ActReject, TypeOK
      <4>2. Unheard(j)'
        BY <1>2, <3>3, <3>4 DEF Unsent, Unheard, Interrupted, AwaitsOwner
      <4>3. Deferred(j, q)'
        BY <3>2, <4>1, <4>2 DEF Deferred
      <4>4. QED
        BY <3>1, <4>3 DEF StoryOf
    <3>6. CASE EnqueueApprove(q) \/ (ActReject(q) /\ request[q].route = "resumed")
      <4>1. task'[q].pc = "queued" /\ UNCHANGED pending
        BY <1>1, <3>6 DEF ActReject, EnqueueApprove, TaskIdle, TaskSet, TypeOK
      <4>2. request[q].kind \in {"approve", "schedule"} \/ request[q].route = "resumed"
        BY <1>1, <3>6 DEF EnqueueApprove
      <4>3. AwaitsOwner(j) /\ Over(j)
        BY <1>1, <3>3, <4>2, AwaitsOver DEF Unsent
      <4>4. AwaitsOwner(j)' /\ Over(j)'
        BY <1>2, <3>4, <4>3 DEF AwaitsOwner, Over
      <4>5. Carries(q, j, q)'
        BY <4>1, <4>4 DEF Carries
      <4>6. Taken(j, q)'
        BY <3>2, <3>3, <4>1, <4>4, <4>5 DEF Taken, Unsent
      <4>7. QED
        BY <3>1, <4>6 DEF StoryOf
    <3>7. QED
      BY <3>3, <3>5, <3>6 DEF ActReject, Unsent
  <2>3. QED
    BY <1>2, <1>4, <2>1, <2>2 DEF OneStory
<1>7. QED
  BY <1>5, <1>6

LEMMA HandlerStories ==
  ASSUME OInv, HookRequests, Clean, NEW q \in Requests, Handler(q), NEW j \in Jobs, OneStory(j)
  PROVE  OneStory(j)'
<1>1. CASE \E k \in Jobs : RetryBrief(q, k)
  <2>1. PICK k \in Jobs : RetryBrief(q, k)
    BY <1>1
  <2>2. EnqueueBrief(k) /\ UNCHANGED <<pending, thread, script, taste>>
    BY <2>1 DEF RetryBrief
  <2>3. \A r \in Requests :
           /\ request'[r].job = request[r].job /\ request'[r].kind = request[r].kind
           /\ request'[r].hook = request[r].hook /\ request'[r].route = request[r].route
           /\ request'[r].pc = request[r].pc \/ (request[r].pc = "rejectActed" /\ request'[r].pc = "done")
    BY <2>1, StoryFacts DEF RetryBrief, TypeOK, RequestState
  <2>4. QED
    BY <2>2, <2>3, CreateStory
<1>2. QED
  BY <1>1, HookStory, ReadStory, SendStory DEF Handler

-----------------------------------------------------------------------------
(* The stories are inductive *)

LEMMA InitSInv == Init => SInv
<1> SUFFICES ASSUME Init
             PROVE  SInv
  OBVIOUS
<1>1. OInv
  BY InitOInv
<1>2. HookRequests
  BY DEF Init, HookRequests
<1>3. ASSUME NEW j \in Jobs PROVE OneStory(j)
  <2>1. task[j].pc = "none" /\ job[j].status = "none" /\ ~job[j].script /\ pending[j] = NoRequest
    BY JobTask DEF Init
  <2>2. DecisionsOn(j) = {}
    BY DEF Init, DecisionsOn, DecisionKinds
  <2>3. Unheard(j)
    BY <2>1 DEF Unheard, Interrupted
  <2>4. QED
    BY <2>1, <2>2, <2>3 DEF OneStory
<1>4. QED
  BY <1>1, <1>2, <1>3 DEF SInv

LEMMA NextSInv == SInv /\ [Next]_vars => SInv'
<1> SUFFICES ASSUME SInv, [Next]_vars
             PROVE  SInv'
  OBVIOUS
<1>1. OInv /\ OInv' /\ IInv /\ TypeOK
  BY NextOInv DEF SInv, OInv, IInv
<1>2. CASE Next
  <2>1. HookRequests'
    BY <1>1, <1>2, HookRequestsStep DEF SInv
  <2>2. ASSUME Clean', NEW j \in Jobs PROVE OneStory(j)'
    <3>1. /\ Clean /\ ~Crash /\ OneStory(j) /\ HookRequests
          /\ \A t \in Tasks : ~NodeFails(t) /\ ~TimesOut(t)
      BY <1>1, <1>2, <2>2, CleanStays DEF SInv
    <3>2. ASSUME NEW k \in Jobs, CreateBrief(k) PROVE OneStory(j)'
      <4>1. EnqueueBrief(k) /\ UNCHANGED <<pending, thread, script, taste, request>>
        BY <3>2 DEF CreateBrief
      <4>2. QED
        BY <1>1, <3>1, <4>1, CreateStory
    <3>3. ASSUME NEW k \in Jobs, StartRun(k) PROVE OneStory(j)'
      BY <1>1, <3>1, <3>3, JobTask, WorkerStories DEF WorkerStep
    <3>4. ASSUME NEW r \in Requests, Handler(r) PROVE OneStory(j)'
      BY <1>1, <3>1, <3>4, HandlerStories
    <3>5. ASSUME NEW r \in Requests, Resume(r) PROVE OneStory(j)'
      BY <1>1, <3>1, <3>5, RequestTask, WorkerStories DEF WorkerStep
    <3>6. ASSUME NEW t \in Tasks, Work(t) PROVE OneStory(j)'
      BY <1>1, <3>1, <3>6, WorkerStories DEF WorkerStep
    <3>7. QED
      BY <1>2, <3>1, <3>2, <3>3, <3>4, <3>5, <3>6 DEF Next
  <2>3. QED
    BY <1>1, <2>1, <2>2 DEF SInv
<1>3. CASE UNCHANGED vars
  <2>1. UNCHANGED <<job, pending, thread, script, taste, newer, context, task, request, origin, faults>>
    BY <1>3 DEF vars
  <2>2. ASSUME NEW j \in Jobs, OneStory(j) PROVE OneStory(j)'
    BY <2>1, <2>2, OneStoryKept DEF DecisionsOn, HookAsked
  <2>3. QED
    BY <1>1, <2>1, <2>2 DEF SInv, HookRequests, Clean
<1>4. QED
  BY <1>2, <1>3

LEMMA StoryInvariance == Spec => []SInv
<1>1. Init => SInv
  BY InitSInv
<1>2. SInv /\ [Next]_vars => SInv'
  BY NextSInv
<1>3. QED
  BY <1>1, <1>2, PTL DEF Spec

\* When nothing is under way the one decision has been applied.
LEMMA QuietIsSettled ==
  ASSUME SInv, Clean, NEW j \in Jobs, NEW r \in Requests, DecisionsOn(j) = {r}, Quiet(j),
         pending[j] = NoRequest
  PROVE  Applied(j, r)
<1>1. /\ TypeOK /\ OutcomeOf(j) /\ StoryOf(j, r) /\ r # NoRequest /\ request[r].job = j
      /\ request[r].kind \in DecisionKinds
  BY StoryFacts, BriefAssumption DEF SInv, OneStory, DecisionsOn
<1>2. request[r].pc = "done" /\ task[j].pc \in {"none", "finished"} /\ task[r].pc \in {"none", "finished"}
  BY <1>1, JobTask, RequestTask DEF Quiet
<1>3. ~Unsent(j, r)
  BY <1>1, <1>2 DEF Unsent, Undecided, DecisionKinds
<1>4. ~Deferred(j, r)
  BY <1>1 DEF Deferred
<1>5. ~Taken(j, r)
  BY <1>2 DEF Taken, Carries
<1>6. QED
  BY <1>1, <1>3, <1>4, <1>5 DEF StoryOf, Settled

-----------------------------------------------------------------------------
(* The properties *)

\* What is published is what the owner saw, for any number of jobs, requests and
\* iterations and after any failures and timeouts: short of a crash, the body of a
\* published script is the version its video was made from.
THEOREM PublishesWhatWasSeen == Spec => []PublishedMatchesVideo
<1>1. OInv => PublishedMatchesVideo
  BY DEF OInv, NoCrash, OutcomeOf, VideoOf, PublishedMatchesVideo
<1>2. QED
  BY <1>1, OutcomeInvariance, PTL

\* A job that asks for a decision can take it: as long as the worker did not crash,
\* awaiting_approval is shown only while the graph is at the interrupt, or while the run
\* that applied a rejection there is about to say so on the job; whatever tasks and
\* requests are under way.
THEOREM AwaitsAtInterrupt == Spec => []AwaitingIsAtInterrupt
<1>1. OInv => AwaitingIsAtInterrupt
  <2> SUFFICES ASSUME OInv, NEW j \in Jobs, job[j].stage = "awaiting_approval", NoCrash
               PROVE  \/ thread[j].next = "approval"
                      \/ \E r \in DecisionsOn(j) :
                           /\ request[r].route = "pending" /\ taste[r] > 0
                           /\ thread[j].next = "end" /\ thread[j].decision = r
                           /\ faults.timeouts = 0 => task[j].pc = "ended" /\ task[j].arg = r
    BY DEF AwaitingIsAtInterrupt, NoCrash
  <2>1. thread[j].next \in {"approval", "end"} /\ JustRejected(j)
    BY DEF OInv, OutcomeOf, StageTells
  <2>2. QED
    BY <2>1 DEF JustRejected
<1>2. QED
  BY <1>1, OutcomeInvariance, PTL

\* No decision is applied twice without a crash: neither by two routes, nor by two
\* tasks, nor by a request that raced another, however many there are.
THEOREM AppliedOnce == Spec => []TasteOncePerDecision
<1>1. OInv => TasteOncePerDecision
  BY DEF OInv, NoCrash, TasteOf, TasteOncePerDecision
<1>2. QED
  BY <1>1, OutcomeInvariance, PTL

\* A brief that a recorded rejection's retry created has that reason in its context
\* each time it starts, after any crashes and failures as well, as long as the reason
\* is among the newest rows that load_context reads.
THEOREM RetryKnowsReason == Spec => RetryKnowsRecordedReason
<1>1. OInv /\ [Next]_vars =>
        [\A j \in Jobs : LET r == origin[j] IN
           (r # NoRequest /\ StartRun(j) /\ request[r].route = "recorded") =>
             r \in context'[j] \/ newer[r] >= TasteTopK]_vars
  BY RetryKnowsStep
<1>2. QED
  BY <1>1, OutcomeInvariance, PTL DEF Spec, RetryKnowsRecordedReason

\* Short of a crash, no step that the system takes by itself takes a published
\* script back: whenever its status changes the owner has made a second decision.
THEOREM OnlyOwnerUnpublishes == Spec => PublishedStays
<1>1. OInv /\ [Next]_vars =>
        [\A j \in Jobs :
           (script[j].status \in Final /\ script'[j].status # script[j].status
              /\ faults.crashes = 0) => \E r, q \in DecisionsOn(j) : r # q]_vars
  BY PublishedStaysStep DEF NoCrash
<1>2. QED
  BY <1>1, OutcomeInvariance, PTL DEF Spec, PublishedStays

\* One decision leaves one story: when the owner sent one decision on a job, nothing
\* failed and all is quiet, then the job's stage, the script row, the taste memory and
\* the graph agree on it, by whichever route it came and however the requests for the
\* hooks and the tasks of the job were interleaved.
THEOREM OneDecisionTellsOneStory == Spec => []OneDecisionAgrees
<1>1. SInv => OneDecisionAgrees
  <2> SUFFICES ASSUME SInv, NEW j \in Jobs, NEW r \in Requests, DecisionsOn(j) = {r}, Quiet(j),
                      pending[j] = NoRequest, Clean
               PROVE  /\ job[j].status = "done"
                      /\ taste[r] = 1
                      /\ thread[j].next = "end"
                      /\ CASE request[r].kind = "reject"   -> job[j].stage = "rejected" /\ script[j].status = "rejected"
                           [] request[r].kind = "approve"  -> job[j].stage = "published" /\ script[j].status = "approved"
                           [] request[r].kind = "schedule" -> job[j].stage = "scheduled" /\ script[j].status = "scheduled"
                      /\ (request[r].kind # "reject" /\ ~\E h \in Requests : request[h].job = j /\ request[h].kind = "hook") =>
                           script[j].selected = request[r].hook
    BY DEF OneDecisionAgrees, Clean
  <2>1. Applied(j, r)
    BY QuietIsSettled
  <2>2. request[r].kind \in {"reject", "approve", "schedule"}
    BY DEF DecisionsOn, DecisionKinds
  <2>3. QED
    BY <2>1, <2>2 DEF Applied, RowTells, HookAsked
<1>2. QED
  BY <1>1, StoryInvariance, PTL
=============================================================================
