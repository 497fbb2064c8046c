---------------------------- MODULE ServicesProofs ----------------------------
(***************************************************************************)
(* Proofs about the services around the pipeline: the render of a video,   *)
(* for any number of jobs, attempts and stalls; what the calls of a video  *)
(* cost, for any calls, tries and limits; the chat with the bot, for any   *)
(* scripts and updates at a time; the dashboard of the CRM, for any        *)
(* requests, windows and demo data; and the types of all the services side *)
(* by side.                                                                *)
(***************************************************************************)
EXTENDS MCServices, VaultProofs, VideoTimingProofs, FiniteSetTheorems, SequenceTheorems, TLAPS

-----------------------------------------------------------------------------
(* The render: the inductive invariant *)

\* The node holds a job from the moment it has made its row, of its own run or of the
\* one that was kept, and the row says how far it has come; runs to come have no rows.
NodeHoldsItsRow ==
  /\ node.pc = "idle" <=> node.job = 0
  /\ node.pc # "idle" => node.job = IF node.kept = 0 THEN node.run ELSE node.kept
  /\ node.pc \in {"enqueue", "poll", "ok", "bad"} /\ node.kept = 0 => row[node.job] = "queued"
  /\ node.pc \in {"done", "kept"} => row[node.job] = "done"
  /\ node.kept # 0 => row[node.kept] = "done" /\ node.kept <= node.run /\ node.pc # "bad"
  /\ \A j \in Jobs : j > node.run \/ (j = node.run /\ node.pc = "idle") => row[j] = "none"

\* What the node has seen of its job: a result once it is completed; a failure that
\* is final, or the deadline.
NodeHasSeen ==
  /\ node.pc = "ok" => bull[node.job].state = "completed"
  /\ node.pc = "bad" => bull[node.job].state = "failed" \/ node.job \in abandoned

\* A BullMQ job follows its row, leaves its result only behind an upload, and has
\* failed for good only with a reason and never with an attempt left unused.
JobOf(j) ==
  /\ row[j] = "none" \/ (node.pc = "enqueue" /\ node.kept = 0 /\ node.job = j) => bull[j].state = "none"
  /\ row[j] = "done" => bull[j].state = "completed"
  /\ bull[j].state \in {"uploaded", "completed"} => j \in stored
  /\ bull[j].state = "failed" => bull[j].reason
  /\ bull[j].state \in {"none", "waiting", "active", "uploaded"} => bull[j].failed < Attempts

\* A job that is still to be rendered has a node that waits for it, or was given up.
Awaited(j) ==
  bull[j].state \in {"waiting", "active", "uploaded"} =>
    row[j] = "done" \/ (node.job = j /\ node.pc = "poll") \/ j \in abandoned

IInv ==
  /\ RenderTypeOK
  /\ NodeHoldsItsRow
  /\ NodeHasSeen
  /\ \A j \in Jobs : JobOf(j) /\ Awaited(j)
  /\ VideoIsThere
  /\ RenderAccountedFor

\* A state of the queue that is one of its record type.
BullJob == [state: {"none", "waiting", "active", "uploaded", "completed", "failed"},
            failed: 0..Attempts, stalled: 0..MaxStalled, reason: BOOLEAN]

-----------------------------------------------------------------------------
(* The first state, and the steps of the node *)

LEMMA RenderInitInv == ASSUME RenderInit PROVE IInv
<1> USE RenderAssumption DEF RenderInit
<1>1. RenderTypeOK
  BY DEF RenderTypeOK, Jobs, NoJob
<1>2. NodeHoldsItsRow /\ NodeHasSeen
  BY DEF NodeHoldsItsRow, NodeHasSeen, Jobs
<1>3. \A j \in Jobs : JobOf(j) /\ Awaited(j)
  BY DEF JobOf, Awaited, NoJob
<1>4. VideoIsThere /\ RenderAccountedFor
  BY DEF VideoIsThere, RenderAccountedFor, NoJob
<1>5. QED
  BY <1>1, <1>2, <1>3, <1>4 DEF IInv

\* The job the node holds is one of Jobs.
LEMMA NodeJob == ASSUME IInv, node.pc # "idle" PROVE node.job \in Jobs
BY RenderAssumption DEF IInv, RenderTypeOK, NodeHoldsItsRow, Jobs

\* The node is a record of its type.
NodeType == [pc: {"idle", "enqueue", "poll", "ok", "bad", "done", "kept", "failed"},
          run: Jobs, job: 0..MaxRuns, kept: 0..MaxRuns]

\* A kept job is done, and so finished in the queue.
LEMMA KeptIsDone ==
  ASSUME IInv, node.kept # 0
  PROVE  node.kept \in Jobs /\ row[node.kept] = "done" /\ bull[node.kept].state = "completed"
<1>1. node.kept \in Jobs
  BY RenderAssumption DEF IInv, RenderTypeOK, Jobs
<1>2. QED
  BY <1>1 DEF IInv, NodeHoldsItsRow, JobOf

LEMMA CreateRowStep == ASSUME IInv, CreateRow PROVE IInv'
<1> USE RenderAssumption DEF CreateRow
<1>1. /\ node.pc = "idle" /\ node.job = 0 /\ node.run \in Jobs /\ row[node.run] = "none"
      /\ node' = [[node EXCEPT !.pc = "enqueue"]
                   EXCEPT !.job = IF node.kept = 0 THEN node.run ELSE node.kept]
      /\ UNCHANGED <<bull, stored, asset, abandoned>>
  BY DEF IInv, RenderTypeOK, NodeHoldsItsRow
<1>2. node \in NodeType /\ row \in [Jobs -> {"none", "queued", "done", "failed"}]
  BY DEF IInv, RenderTypeOK, NodeType
<1>3. /\ node'.pc = "enqueue" /\ node'.run = node.run /\ node'.kept = node.kept
      /\ node'.job = IF node.kept = 0 THEN node.run ELSE node.kept
      /\ node' \in NodeType /\ node'.job \in Jobs
  <2>. DEFINE k == IF node.kept = 0 THEN node.run ELSE node.kept
  <2>1. k \in Jobs /\ k \in 0..MaxRuns
    BY <1>1, <1>2 DEF NodeType, Jobs
  <2>2. node' = [[node EXCEPT !.pc = "enqueue"] EXCEPT !.job = k]
    BY <1>1
  <2>3. k = IF node.kept = 0 THEN node.run ELSE node.kept
    OBVIOUS
  <2>. HIDE DEF k
  <2>4. node'.job = k /\ node'.pc = "enqueue" /\ node'.run = node.run /\ node'.kept = node.kept /\ node' \in NodeType
    BY <1>2, <2>1, <2>2 DEF NodeType
  <2>5. QED
    BY <2>1, <2>3, <2>4
<1>4. CASE node.kept = 0
  <2>1. /\ node'.job = node.run /\ row'[node.run] = "queued"
        /\ \A k \in Jobs : k # node.run => row'[k] = row[k]
        /\ row' \in [Jobs -> {"none", "queued", "done", "failed"}]
    BY <1>1, <1>2, <1>3, <1>4
  <2>2. RenderTypeOK'
    BY <1>1, <1>3, <2>1 DEF IInv, RenderTypeOK, NodeType
  <2>3. NodeHoldsItsRow' /\ NodeHasSeen'
    BY <1>1, <1>3, <1>4, <2>1 DEF IInv, NodeHoldsItsRow, NodeHasSeen, Jobs
  <2>4. \A k \in Jobs : (JobOf(k) /\ Awaited(k))'
    BY <1>1, <1>3, <2>1 DEF IInv, JobOf, Awaited
  <2>5. VideoIsThere'
    BY <1>1, <1>3, <2>1 DEF IInv, VideoIsThere, RenderTypeOK, Asset
  <2>6. RenderAccountedFor'
    BY <1>1, <1>3, <2>1 DEF IInv, RenderAccountedFor, JobOf, Jobs
  <2>7. QED
    BY <2>2, <2>3, <2>4, <2>5, <2>6 DEF IInv, Jobs
<1>5. CASE node.kept # 0
  <2>1. node'.job = node.kept /\ row' = row
    BY <1>3, <1>5
  <2>2. RenderTypeOK'
    BY <1>1, <1>3, <2>1 DEF IInv, RenderTypeOK, NodeType
  <2>3. NodeHoldsItsRow' /\ NodeHasSeen'
    BY <1>1, <1>2, <1>3, <1>5, <2>1 DEF IInv, NodeHoldsItsRow, NodeHasSeen, Jobs, NodeType
  <2>4. \A k \in Jobs : (JobOf(k) /\ Awaited(k))'
    BY <1>1, <1>3, <1>5, <2>1 DEF IInv, JobOf, Awaited
  <2>5. VideoIsThere'
    BY <1>1, <1>3, <2>1 DEF IInv, VideoIsThere
  <2>6. RenderAccountedFor'
    BY <1>1, <1>3, <2>1 DEF IInv, RenderAccountedFor, Jobs
  <2>7. QED
    BY <2>2, <2>3, <2>4, <2>5, <2>6 DEF IInv, Jobs
<1>6. QED
  BY <1>4, <1>5

LEMMA EnqueueStep == ASSUME IInv, Enqueue PROVE IInv'
<1> USE RenderAssumption DEF Enqueue
<1>1. node.job \in Jobs
  BY NodeJob
<1>2. /\ node'.pc = "poll" /\ node'.job = node.job /\ node'.run = node.run /\ node'.kept = node.kept
      /\ node' \in NodeType
  BY DEF IInv, RenderTypeOK, NodeType
<1>3. bull \in [Jobs -> BullJob]
  BY DEF IInv, RenderTypeOK, BullJob
\* The kept job is in the queue already; a new one is not.
<1>4. /\ node.kept # 0 => bull' = bull
      /\ node.kept = 0 => /\ bull'[node.job] = [bull[node.job] EXCEPT !.state = "waiting"]
                          /\ bull[node.job].state = "none"
                          /\ \A k \in Jobs : k # node.job => bull'[k] = bull[k]
                          /\ bull' \in [Jobs -> BullJob]
  <2>1. CASE node.kept # 0
    <3>1. node.job = node.kept /\ bull[node.job].state = "completed"
      BY <2>1, KeptIsDone DEF IInv, NodeHoldsItsRow
    <3>2. QED
      BY <2>1, <3>1
  <2>2. CASE node.kept = 0
    <3>1. bull[node.job].state = "none"
      BY <1>1, <2>2 DEF IInv, JobOf
    <3>2. [bull[node.job] EXCEPT !.state = "waiting"] \in BullJob
      BY <1>1, <1>3 DEF BullJob
    <3>3. bull' = [bull EXCEPT ![node.job] = [bull[node.job] EXCEPT !.state = "waiting"]]
      BY <3>1
    <3>4. QED
      BY <1>1, <1>3, <2>2, <3>1, <3>2, <3>3
  <2>3. QED
    BY <2>1, <2>2
<1>5. bull' \in [Jobs -> BullJob]
  BY <1>3, <1>4
<1>6. RenderTypeOK'
  BY <1>2, <1>5 DEF IInv, RenderTypeOK, BullJob, NodeType
<1>7. NodeHoldsItsRow' /\ NodeHasSeen'
  BY <1>1, <1>2 DEF IInv, NodeHoldsItsRow, NodeHasSeen
<1>8. \A k \in Jobs : (JobOf(k) /\ Awaited(k))'
  <2>1. CASE node.kept # 0
    BY <1>1, <1>2, <1>4, <2>1, KeptIsDone DEF IInv, JobOf, Awaited, NodeHoldsItsRow
  <2>2. CASE node.kept = 0
    BY <1>1, <1>2, <1>3, <1>4, <2>2 DEF IInv, JobOf, Awaited, NodeHoldsItsRow, BullJob
  <2>3. QED
    BY <2>1, <2>2
<1>9. VideoIsThere'
  BY <1>2 DEF IInv, VideoIsThere
<1>10. RenderAccountedFor'
  <2>1. \A k \in Jobs : bull'[k].state = "completed" => bull[k].state = "completed"
    BY <1>1, <1>3, <1>4 DEF BullJob
  <2>2. QED
    BY <1>1, <1>2, <2>1 DEF IInv, RenderAccountedFor
<1>11. QED
  BY <1>6, <1>7, <1>8, <1>9, <1>10 DEF IInv, Jobs

LEMMA PollStep == ASSUME IInv, Poll PROVE IInv'
<1> USE RenderAssumption DEF Poll
<1>1. node.job \in Jobs
  BY NodeJob
<1>2. /\ node'.job = node.job /\ node'.pc \in {"ok", "bad"} /\ node'.run = node.run /\ node'.kept = node.kept
      /\ node'.pc = "ok" => bull[node.job].state = "completed"
      /\ node'.pc = "bad" => bull[node.job].state = "failed"
  BY <1>1 DEF IInv, RenderTypeOK, JobOf, Result, Finished
<1>3. RenderTypeOK'
  BY <1>1, <1>2 DEF IInv, RenderTypeOK
<1>4. NodeHoldsItsRow' /\ NodeHasSeen'
  BY <1>1, <1>2, KeptIsDone DEF IInv, NodeHoldsItsRow, NodeHasSeen
<1>5. \A k \in Jobs : (JobOf(k) /\ Awaited(k))'
  BY <1>2 DEF IInv, JobOf, Awaited
<1>6. VideoIsThere'
  BY <1>2 DEF IInv, VideoIsThere
<1>7. RenderAccountedFor'
  BY <1>1, <1>2 DEF IInv, RenderAccountedFor
<1>8. QED
  BY <1>3, <1>4, <1>5, <1>6, <1>7 DEF IInv, Jobs

LEMMA PollTimesOutStep == ASSUME IInv, PollTimesOut PROVE IInv'
<1> USE RenderAssumption DEF PollTimesOut
<1>1. node.job \in Jobs
  BY NodeJob
<1>2. /\ node'.job = node.job /\ node'.pc = "bad" /\ node.job \in abandoned'
      /\ node'.run = node.run /\ node'.kept = node.kept
  BY DEF IInv, RenderTypeOK
<1>3. RenderTypeOK'
  BY <1>1, <1>2 DEF IInv, RenderTypeOK
<1>4. NodeHoldsItsRow' /\ NodeHasSeen'
  BY <1>1, <1>2, KeptIsDone DEF IInv, NodeHoldsItsRow, NodeHasSeen, Result, Finished
<1>5. \A k \in Jobs : (JobOf(k) /\ Awaited(k))'
  BY <1>2 DEF IInv, JobOf, Awaited
<1>6. VideoIsThere'
  BY <1>2 DEF IInv, VideoIsThere
<1>7. RenderAccountedFor'
  BY <1>1, <1>2 DEF IInv, RenderAccountedFor
<1>8. QED
  BY <1>3, <1>4, <1>5, <1>6, <1>7 DEF IInv, Jobs

LEMMA FinishRenderStep == ASSUME IInv, FinishRender PROVE IInv'
<1> USE RenderAssumption DEF FinishRender
<1>1. node.job \in Jobs
  BY NodeJob
<1>2. /\ node'.job = node.job /\ node'.run = node.run /\ node'.kept = node.kept
      /\ node'.pc = IF node.pc = "ok" THEN "done" ELSE "failed"
      /\ row'[node.job] = IF node.pc = "ok" THEN "done" ELSE "failed"
      /\ \A k \in Jobs : k # node.job => row'[k] = row[k]
  BY <1>1 DEF IInv, RenderTypeOK
<1>3. node.run \in Jobs /\ Video \in Asset /\ Video.job = node.job /\ Video.script = node.run
  BY <1>1 DEF IInv, RenderTypeOK, Video, Asset
<1>4. RenderTypeOK'
  BY <1>1, <1>2, <1>3 DEF IInv, RenderTypeOK
<1>5. node.pc = "bad" => node.kept = 0
  BY DEF IInv, NodeHoldsItsRow
<1>6. NodeHoldsItsRow' /\ NodeHasSeen'
  BY <1>1, <1>2, <1>3, <1>5 DEF IInv, NodeHoldsItsRow, NodeHasSeen, Jobs
<1>7. \A k \in Jobs : (JobOf(k) /\ Awaited(k))'
  BY <1>1, <1>2, <1>5 DEF IInv, JobOf, Awaited, NodeHoldsItsRow, NodeHasSeen
<1>8. VideoIsThere'
  <2>1. node.pc = "ok" => node.job \in stored
    BY <1>1 DEF IInv, NodeHasSeen, JobOf
  <2>2. /\ node.kept = 0 => node.job = node.run /\ row[node.job] = "queued"
        /\ node.kept # 0 => node.job = node.kept /\ row[node.job] = "done" /\ node.job <= node.run
    BY DEF IInv, NodeHoldsItsRow
  <2>3. node.job <= node.run
    BY <1>3, <2>2 DEF Jobs
  <2>4. ASSUME NEW j \in Jobs PROVE row'[j] = "done" <=> [job |-> j, script |-> j] \in asset'
    <3>1. row[j] = "done" <=> [job |-> j, script |-> j] \in asset
      BY DEF IInv, VideoIsThere
    <3>2. [job |-> j, script |-> j] = Video <=> j = node.job /\ j = node.run
      BY DEF Video
    <3>3. CASE node.pc = "ok"
      <4>1. asset' = asset \cup {Video}
        BY <3>3
      <4>2. QED
        BY <1>2, <2>2, <3>1, <3>2, <3>3, <4>1
    <3>4. CASE node.pc # "ok"
      <4>1. asset' = asset /\ row[node.job] = "queued" /\ node.pc = "bad"
        BY <1>5, <2>2, <3>4
      <4>2. QED
        BY <1>2, <3>1, <3>4, <4>1
    <3>5. QED
      BY <3>3, <3>4
  <2>5. ASSUME NEW a \in asset' PROVE a.job \in stored' /\ row'[a.job] = "done" /\ a.job <= a.script
    <3>1. CASE a \in asset
      <4>1. a.job \in stored /\ row[a.job] = "done" /\ a.job <= a.script /\ a.job \in Jobs
        BY <3>1 DEF IInv, VideoIsThere, RenderTypeOK, Asset
      <4>2. node.pc = "bad" => row[node.job] = "queued"
        BY <1>5, <2>2
      <4>3. QED
        BY <1>2, <4>1, <4>2
    <3>2. CASE a \notin asset
      <4>1. a = Video /\ node.pc = "ok"
        BY <2>5, <3>2
      <4>2. QED
        BY <1>2, <1>3, <2>1, <2>3, <4>1
    <3>3. QED
      BY <3>1, <3>2
  <2>6. (node.pc \in {"done", "kept"})' => (Video \in asset)'
    <3>1. Video' = Video
      BY <1>2 DEF Video
    <3>2. QED
      BY <1>2, <3>1
  <2>7. QED
    BY <2>4, <2>5, <2>6 DEF VideoIsThere, Jobs
<1>9. RenderAccountedFor'
  BY <1>1, <1>2 DEF IInv, RenderAccountedFor, NodeHasSeen
<1>10. QED
  BY <1>4, <1>6, <1>7, <1>8, <1>9 DEF IInv, Jobs

LEMMA KeepJobStep == ASSUME IInv, KeepJob PROVE IInv'
<1> USE RenderAssumption DEF KeepJob
<1>1. node.job \in Jobs /\ node.job # 0
  BY NodeJob DEF Jobs
<1>2. /\ node' = [[node EXCEPT !.pc = "kept"] EXCEPT !.kept = node.job]
      /\ node \in NodeType
  BY DEF IInv, RenderTypeOK, NodeType
<1>3. /\ node'.pc = "kept" /\ node'.run = node.run /\ node'.job = node.job /\ node'.kept = node.job
      /\ node' \in NodeType
  BY <1>1, <1>2 DEF NodeType
<1>4. RenderTypeOK'
  BY <1>3 DEF IInv, RenderTypeOK, NodeType
<1>5. NodeHoldsItsRow' /\ NodeHasSeen'
  BY <1>1, <1>2, <1>3 DEF IInv, NodeHoldsItsRow, NodeHasSeen, NodeType, Jobs
<1>6. \A k \in Jobs : (JobOf(k) /\ Awaited(k))'
  BY <1>3 DEF IInv, JobOf, Awaited
<1>7. VideoIsThere'
  BY <1>3 DEF IInv, VideoIsThere, Video
<1>8. RenderAccountedFor'
  BY <1>1, <1>3 DEF IInv, RenderAccountedFor
<1>9. QED
  BY <1>4, <1>5, <1>6, <1>7, <1>8 DEF IInv, Jobs

LEMMA CutOffStep == ASSUME IInv, CutOff PROVE IInv'
<1> USE RenderAssumption DEF CutOff
<1>1. node.job \in Jobs
  BY NodeJob
<1>2. /\ node'.pc = "idle" /\ node'.run = node.run + 1 /\ node'.job = 0 /\ node'.kept = node.kept
      /\ node.run \in Jobs /\ node.run + 1 \in Jobs /\ node.kept \in 0..MaxRuns
  BY DEF IInv, RenderTypeOK, Jobs
<1>3. RenderTypeOK'
  BY <1>1, <1>2 DEF IInv, RenderTypeOK
<1>4. NodeHoldsItsRow' /\ NodeHasSeen'
  BY <1>2 DEF IInv, NodeHoldsItsRow, NodeHasSeen, Jobs
<1>5. \A k \in Jobs : (JobOf(k) /\ Awaited(k))'
  BY <1>2 DEF IInv, JobOf, Awaited
<1>6. VideoIsThere'
  BY <1>2 DEF IInv, VideoIsThere
<1>7. RenderAccountedFor'
  BY <1>1, <1>2 DEF IInv, RenderAccountedFor
<1>8. QED
  BY <1>3, <1>4, <1>5, <1>6, <1>7 DEF IInv, Jobs

-----------------------------------------------------------------------------
(* The steps of the queue and its worker *)

\* A step of the queue on a job that has been enqueued and has not ended keeps
\* everything that the node and the rows rely on.
LEMMA QueueStep ==
  ASSUME IInv, NEW j \in Jobs, NEW b \in BullJob,
         bull[j].state \in {"waiting", "active", "uploaded"},
         bull' = [bull EXCEPT ![j] = b],
         stored \subseteq stored', stored' \subseteq Jobs,
         b.state # "none",
         b.state \in {"uploaded", "completed"} => j \in stored',
         b.state = "completed" => bull[j].state = "uploaded",
         b.state = "failed" => b.reason,
         b.state \in {"waiting", "active", "uploaded"} => b.failed < Attempts,
         UNCHANGED <<row, asset, node, abandoned>>
  PROVE  IInv'
<1> USE RenderAssumption
<1>1. /\ bull \in [Jobs -> BullJob] /\ bull' \in [Jobs -> BullJob]
      /\ bull'[j] = b /\ \A k \in Jobs : k # j => bull'[k] = bull[k]
  BY DEF IInv, RenderTypeOK, BullJob
<1>2. RenderTypeOK'
  BY <1>1 DEF IInv, RenderTypeOK, BullJob
<1>3. NodeHoldsItsRow'
  BY DEF IInv, NodeHoldsItsRow
<1>4. NodeHasSeen'
  BY <1>1 DEF IInv, NodeHasSeen
<1>5. \A k \in Jobs : (JobOf(k) /\ Awaited(k))'
  BY <1>1 DEF IInv, JobOf, Awaited
<1>6. VideoIsThere'
  BY DEF IInv, VideoIsThere, Video
<1>7. RenderAccountedFor'
  BY <1>1 DEF IInv, RenderAccountedFor, Awaited
<1>8. QED
  BY <1>2, <1>3, <1>4, <1>5, <1>6, <1>7 DEF IInv, Jobs

LEMMA TakeStep == ASSUME IInv, NEW j \in Jobs, Take(j) PROVE IInv'
<1> DEFINE b == [bull[j] EXCEPT !.state = "active"]
<1>1. bull[j] \in BullJob /\ bull[j].state = "waiting"
  BY DEF IInv, RenderTypeOK, BullJob, Take
<1>2. b \in BullJob /\ b.state = "active" /\ b.failed = bull[j].failed
  BY <1>1 DEF BullJob
<1>3. bull' = [bull EXCEPT ![j] = b]
  BY DEF Take, Move
<1>4. stored' = stored /\ UNCHANGED <<row, asset, node, abandoned>>
  BY DEF Take
<1>5. stored \subseteq Jobs /\ bull[j].failed < Attempts
  BY <1>1 DEF IInv, RenderTypeOK, JobOf
<1> HIDE DEF b
<1>6. QED
  BY <1>1, <1>2, <1>3, <1>4, <1>5, QueueStep

LEMMA UploadStep == ASSUME IInv, NEW j \in Jobs, Upload(j) PROVE IInv'
<1> DEFINE b == [bull[j] EXCEPT !.state = "uploaded"]
<1>1. bull[j] \in BullJob /\ bull[j].state = "active"
  BY DEF IInv, RenderTypeOK, BullJob, Upload
<1>2. b \in BullJob /\ b.state = "uploaded" /\ b.failed = bull[j].failed
  BY <1>1 DEF BullJob
<1>3. bull' = [bull EXCEPT ![j] = b]
  BY DEF Upload, Move
<1>4. stored' = stored \cup {j} /\ UNCHANGED <<row, asset, node, abandoned>>
  BY DEF Upload
<1>5. stored \subseteq Jobs /\ bull[j].failed < Attempts
  BY <1>1 DEF IInv, RenderTypeOK, JobOf
<1> HIDE DEF b
<1>6. QED
  BY <1>1, <1>2, <1>3, <1>4, <1>5, QueueStep

LEMMA CompleteStep == ASSUME IInv, NEW j \in Jobs, Complete(j) PROVE IInv'
<1> DEFINE b == [bull[j] EXCEPT !.state = "completed"]
<1>1. bull[j] \in BullJob /\ bull[j].state = "uploaded"
  BY DEF IInv, RenderTypeOK, BullJob, Complete
<1>2. b \in BullJob /\ b.state = "completed"
  BY <1>1 DEF BullJob
<1>3. bull' = [bull EXCEPT ![j] = b]
  BY DEF Complete, Move
<1>4. stored' = stored /\ UNCHANGED <<row, asset, node, abandoned>>
  BY DEF Complete
<1>5. stored \subseteq Jobs /\ j \in stored
  BY <1>1 DEF IInv, RenderTypeOK, JobOf
<1> HIDE DEF b
<1>6. QED
  BY <1>1, <1>2, <1>3, <1>4, <1>5, QueueStep

\* An attempt that throws leaves another, unless the job failed for good.
LEMMA ThrowStep == ASSUME IInv, NEW j \in Jobs, Throw(j) PROVE IInv'
<1>1. PICK invalid \in BOOLEAN :
        bull' = [bull EXCEPT ![j].reason = TRUE, ![j].failed = @ + 1,
                             ![j].state = IF invalid \/ bull[j].failed + 1 = Attempts
                                          THEN "failed" ELSE "waiting"]
  BY DEF Throw
<1> DEFINE b == [bull[j] EXCEPT !.reason = TRUE, !.failed = @ + 1,
                                !.state = IF invalid \/ bull[j].failed + 1 = Attempts
                                          THEN "failed" ELSE "waiting"]
<1>2. bull[j] \in BullJob /\ bull[j].state = "active"
  BY DEF IInv, RenderTypeOK, BullJob, Throw
<1>3. bull[j].failed \in 0..Attempts /\ bull[j].failed < Attempts /\ stored \subseteq Jobs
  BY <1>2 DEF IInv, RenderTypeOK, JobOf, BullJob
<1>4. /\ b.reason = TRUE /\ b.failed = bull[j].failed + 1 /\ b.stalled = bull[j].stalled
      /\ b.state = IF invalid \/ bull[j].failed + 1 = Attempts THEN "failed" ELSE "waiting"
  BY <1>2 DEF BullJob
<1>5. b \in BullJob
  <2>1. b \in [state: {"waiting", "failed"}, failed: 0..Attempts, stalled: 0..MaxStalled,
               reason: BOOLEAN]
    <3>1. bull[j].failed + 1 \in 0..Attempts
      BY <1>3, RenderAssumption
    <3>2. CASE invalid \/ bull[j].failed + 1 = Attempts
      BY <1>2, <3>1, <3>2 DEF BullJob
    <3>3. CASE ~(invalid \/ bull[j].failed + 1 = Attempts)
      BY <1>2, <3>1, <3>3 DEF BullJob
    <3>4. QED
      BY <3>2, <3>3
  <2>2. QED
    BY <2>1 DEF BullJob
<1>6. b.state = "waiting" => b.failed < Attempts
  BY <1>3, <1>4, RenderAssumption
<1>7. b.state \in {"waiting", "failed"}
  BY <1>4
<1>8. bull' = [bull EXCEPT ![j] = b]
  BY <1>1 DEF IInv, RenderTypeOK
<1>9. stored' = stored /\ UNCHANGED <<row, asset, node, abandoned>>
  BY DEF Throw
<1> HIDE DEF b
<1>10. QED
  BY <1>2, <1>3, <1>4, <1>5, <1>6, <1>7, <1>8, <1>9, QueueStep

LEMMA StallStep == ASSUME IInv, NEW j \in Jobs, Stall(j) PROVE IInv'
<1>1. bull[j] \in BullJob /\ bull[j].state \in {"active", "uploaded"}
  BY DEF IInv, RenderTypeOK, BullJob, Stall
<1>2. bull[j].failed < Attempts /\ stored \subseteq Jobs
  BY <1>1 DEF IInv, RenderTypeOK, JobOf
<1>3. stored' = stored /\ UNCHANGED <<row, asset, node, abandoned>>
  BY DEF Stall
<1>4. CASE bull[j].stalled < MaxStalled
  <2> DEFINE b == [bull[j] EXCEPT !.state = "waiting", !.stalled = bull[j].stalled + 1]
  <2>1. bull' = [bull EXCEPT ![j] = b]
    BY <1>4, Zenon DEF Stall
  <2>2. bull[j].stalled + 1 \in 0..MaxStalled
    BY <1>1, <1>4, RenderAssumption DEF BullJob
  <2>3. b \in BullJob /\ b.state = "waiting" /\ b.failed = bull[j].failed
    BY <1>1, <2>2 DEF BullJob
  <2> HIDE DEF b
  <2>4. QED
    BY <1>1, <1>2, <1>3, <2>1, <2>3, QueueStep
<1>5. CASE ~(bull[j].stalled < MaxStalled)
  <2> DEFINE b == [bull[j] EXCEPT !.state = "failed", !.reason = TRUE]
  <2>1. bull' = [bull EXCEPT ![j] = b]
    BY <1>5, Zenon DEF Stall
  <2>2. b \in BullJob /\ b.state = "failed" /\ b.reason = TRUE
    BY <1>1 DEF BullJob
  <2> HIDE DEF b
  <2>3. QED
    BY <1>1, <1>2, <1>3, <2>1, <2>2, QueueStep
<1>6. QED
  BY <1>4, <1>5

-----------------------------------------------------------------------------
(* The render: the theorems *)

LEMMA StutterStep == ASSUME IInv, UNCHANGED renderVars PROVE IInv'
BY DEF renderVars, IInv, RenderTypeOK, NodeHoldsItsRow, NodeHasSeen, JobOf, Awaited,
       VideoIsThere, RenderAccountedFor, Video

\* Every step of the render, of the worker or of Bull keeps the invariant.
LEMMA RenderStep == ASSUME IInv, [RenderNext]_renderVars PROVE IInv'
<1>1. CASE CreateRow \/ Enqueue \/ Poll \/ PollTimesOut \/ FinishRender \/ KeepJob \/ CutOff
  BY <1>1, CreateRowStep, EnqueueStep, PollStep, PollTimesOutStep, FinishRenderStep, KeepJobStep, CutOffStep
<1>2. CASE \E j \in Jobs : Take(j) \/ Upload(j) \/ Complete(j) \/ Throw(j) \/ Stall(j)
  BY <1>2, TakeStep, UploadStep, CompleteStep, ThrowStep, StallStep
<1>3. CASE UNCHANGED renderVars
  BY <1>3, StutterStep
<1>4. QED
  BY <1>1, <1>2, <1>3 DEF RenderNext

\* Every state of the render has the inductive invariant.
THEOREM RenderInvariant == RenderSpec => []IInv
<1>1. RenderInit => IInv
  BY RenderInitInv
<1>2. IInv /\ [RenderNext]_renderVars => IInv'
  BY RenderStep
<1>3. QED
  BY <1>1, <1>2, PTL DEF RenderSpec

\* The rows, the queue's jobs and the node keep their types (render_job.status, the
\* BullMQ hash, render.py).
THEOREM RenderTypeCorrect == RenderSpec => []RenderTypeOK
<1>1. IInv => RenderTypeOK
  BY DEF IInv
<1>2. QED
  BY <1>1, RenderInvariant, PTL

\* What the graph goes on with is a video: rows done, assets and the node's result
\* agree, and their files are in the bucket, for any number of runs, attempts and
\* stalls; and an asset with another script's video is one of a job kept from an earlier
\* run that had ended with its own.
THEOREM RenderedVideoIsThere == RenderSpec => []VideoIsThere
<1>1. IInv => VideoIsThere
  BY DEF IInv
<1>2. QED
  BY <1>1, RenderInvariant, PTL

\* No finished render is lost silently, and no row is left queued, but behind a
\* deadline or a node that was cut off.
THEOREM RendersAccountedFor == RenderSpec => []RenderAccountedFor
<1>1. IInv => RenderAccountedFor
  BY DEF IInv
<1>2. QED
  BY <1>1, RenderInvariant, PTL

-----------------------------------------------------------------------------
(* Costs: the inductive invariant *)

\* Asked once more, an answer of complete_json is behind it already.
Before(x) == IF x.kind = "json" /\ x.again THEN 1 ELSE 0

\* What a call has booked of what it has got, step by step.
CallBooks(x) ==
  /\ x.pc = "idle" => x.got = 0 /\ x.booked = 0
  /\ x.pc = "ask" => x.booked = x.got /\ x.got = Before(x)
  /\ x.pc \in {"fetch", "book"} => x.got = x.booked + 1 /\ x.booked = Before(x)
  /\ x.pc = "fetch" => x.kind \in {"image", "depth"}
  /\ x.pc = "back" => x.booked = x.got
  /\ x.pc = "raised" => x.booked <= x.got /\ (x.booked = x.got \/ x.kind \in {"image", "depth"})

\* The entries of this workspace, since the run began, that have a price.
Counts(e) == e.ws /\ e.since /\ e.usd = 1
Counted(s) == {k \in DOMAIN s : Counts(s[k])}

\* The entries since the run began are the last ones of RECENT, as many as were booked
\* since, and their prices are what was spent, until RECENT forgets one of them.
RunBooks ==
  /\ assets.spent <= assets.total
  /\ RunCost <= assets.spent
  /\ assets.total <= MaxRecent =>
       /\ RunCost = assets.spent
       /\ \A k \in DOMAIN recent : recent[k].since <=> k > Len(recent) - assets.total

CInv ==
  /\ CostsTypeOK
  /\ \A c \in Calls : CallBooks(call[c])
  /\ Working => RunBooks
  /\ CostOfRun

AssetsRun == [pc: {"idle", "assets", "depth", "done", "failed"}, cost: 0..MaxRecent,
              spent: 0..MaxTotal, total: 0..MaxTotal]

LEMMA CostsTypes ==
  ASSUME CostsTypeOK
  PROVE  /\ call \in [Calls -> Call] /\ recent \in Seq(Entry) /\ Len(recent) <= MaxRecent
         /\ assets \in AssetsRun
         /\ Len(recent) \in Nat /\ DOMAIN recent = 1..Len(recent)
         /\ \A k \in DOMAIN recent : recent[k] \in Entry
<1>1. recent \in Seq(Entry)
  BY DEF CostsTypeOK
<1>2. Len(recent) \in Nat /\ recent \in [1..Len(recent) -> Entry] /\ DOMAIN recent = 1..Len(recent)
  BY <1>1, LenProperties
<1>3. QED
  BY <1>1, <1>2 DEF CostsTypeOK, AssetsRun

LEMMA NoCallIs == NoCall \in Call /\ CallBooks(NoCall)
BY CostsAssumption DEF NoCall, Call, CallKinds, CallBooks, Before

LEMMA NoRunIs == NoRun \in AssetsRun /\ NoRun.pc = "idle" /\ NoRun.total = 0 /\ NoRun.spent = 0
BY CostsAssumption DEF NoRun, AssetsRun

\* Only the entries of a list are counted.
LEMMA CountedIs ==
  ASSUME NEW s \in Seq(Entry)
  PROVE  /\ IsFiniteSet(Counted(s)) /\ Cardinality(Counted(s)) \in Nat
         /\ Cardinality(Counted(s)) <= Len(s)
<1>1. Len(s) \in Nat /\ DOMAIN s = 1..Len(s)
  BY LenProperties
<1>2. IsFiniteSet(1..Len(s)) /\ Cardinality(1..Len(s)) = Len(s)
  BY <1>1, FS_Interval
<1>3. Counted(s) \in SUBSET (1..Len(s))
  BY <1>1 DEF Counted
<1>4. QED
  BY <1>2, <1>3, FS_Subset, FS_CardinalityType

\* An entry more counts if it has a price of this workspace.
LEMMA CountedAppend ==
  ASSUME NEW s \in Seq(Entry), NEW e \in Entry
  PROVE  Cardinality(Counted(Append(s, e))) = Cardinality(Counted(s)) + IF Counts(e) THEN 1 ELSE 0
<1>. DEFINE n == Len(s)
            t == Append(s, e)
<1>1. n \in Nat /\ DOMAIN s = 1..n
  BY LenProperties
<1>2. /\ t \in Seq(Entry) /\ Len(t) = n + 1
      /\ \A i \in 1..n : t[i] = s[i]
      /\ t[n + 1] = e
  BY AppendProperties
<1>3. DOMAIN t = 1..(n + 1)
  BY <1>2, LenProperties
<1>. HIDE DEF n, t
<1>4. Counted(t) = IF Counts(e) THEN Counted(s) \cup {n + 1} ELSE Counted(s)
  BY <1>1, <1>2, <1>3 DEF Counted
<1>5. n + 1 \notin Counted(s)
  BY <1>1 DEF Counted
<1>6. IsFiniteSet(Counted(s)) /\ Cardinality(Counted(s)) \in Nat
  BY CountedIs
<1>7. Cardinality(Counted(s) \cup {n + 1}) = Cardinality(Counted(s)) + 1
  BY <1>5, <1>6, FS_AddElement
<1>8. QED
  BY <1>4, <1>6, <1>7 DEF t

\* Without its oldest entry a list counts one less if that entry counted.
LEMMA CountedTail ==
  ASSUME NEW s \in Seq(Entry), s # <<>>
  PROVE  Cardinality(Counted(Tail(s))) = Cardinality(Counted(s)) - IF Counts(s[1]) THEN 1 ELSE 0
<1>. DEFINE n == Len(s)
            t == Tail(s)
            A == Counted(t)
            B == Counted(s) \ {1}
            f == [k \in A |-> k + 1]
<1>1. n \in Nat /\ n # 0 /\ DOMAIN s = 1..n
  BY LenProperties, EmptySeq
<1>2. t \in Seq(Entry) /\ Len(t) = n - 1 /\ \A i \in 1..(n - 1) : t[i] = s[i + 1]
  BY HeadTailProperties
<1>3. DOMAIN t = 1..(n - 1)
  BY <1>2, LenProperties
<1>. HIDE DEF n, t
<1>4. \A k \in A : k \in 1..(n - 1) /\ k + 1 \in B
  BY <1>1, <1>2, <1>3 DEF Counted
<1>5. \A k \in B : k - 1 \in A /\ k = (k - 1) + 1
  BY <1>1, <1>2, <1>3 DEF Counted
<1>. HIDE DEF A, B
<1>6. f \in [A -> B]
  BY <1>4
<1>7. \A a, b \in A : f[a] = f[b] => a = b
  BY <1>4
<1>8. \A y \in B : \E x \in A : f[x] = y
  BY <1>5
<1>9. f \in Bijection(A, B)
  BY <1>6, <1>7, <1>8 DEF Bijection, Injection, Surjection, IsInjective
<1>10. ExistsBijection(A, B)
  BY <1>9 DEF ExistsBijection
<1>11. IsFiniteSet(A) /\ IsFiniteSet(Counted(s)) /\ Cardinality(Counted(s)) \in Nat
  BY <1>2, CountedIs DEF A
<1>12. Cardinality(B) = Cardinality(A)
  BY <1>10, <1>11, FS_Bijection
<1>13. Cardinality(B) = IF 1 \in Counted(s) THEN Cardinality(Counted(s)) - 1 ELSE Cardinality(Counted(s))
  BY <1>11, FS_RemoveElement DEF B
<1>14. 1 \in Counted(s) <=> Counts(s[1])
  BY <1>1 DEF Counted
<1>15. QED
  BY <1>11, <1>12, <1>13, <1>14 DEF A, t

LEMMA RunCostIs == RunCost = Cardinality(Counted(recent)) /\ RunCost' = Cardinality(Counted(recent'))
BY DEF RunCost, Counted, Counts

\* With no entry since the run began, nothing is counted.
LEMMA NothingSince ==
  ASSUME NEW s, \A k \in DOMAIN s : ~s[k].since PROVE Cardinality(Counted(s)) = 0
<1>1. Counted(s) = {}
  BY DEF Counted, Counts
<1>2. QED
  BY <1>1, FS_EmptySet

\* What is booked adds to the list and to what the run has spent.
LEMMA BookIs ==
  ASSUME CostsTypeOK, Working => RunBooks, CostOfRun,
         NEW ws \in BOOLEAN, NEW usd \in 0..1, Book(ws, usd)
  PROVE  /\ recent' \in Seq(Entry) /\ Len(recent') <= MaxRecent /\ assets' \in AssetsRun
         /\ assets'.pc = assets.pc
         /\ (Working => RunBooks)' /\ CostOfRun'
<1>. DEFINE n == Len(recent)
            e == [ws |-> ws, since |-> TRUE, usd |-> usd]
            all == Append(recent, e)
            inc == IF ws /\ usd = 1 THEN 1 ELSE 0
<1>1. e \in Entry /\ Counts(e) = (ws /\ usd = 1) /\ e.since
  BY DEF Entry, Counts
<1>2. recent \in Seq(Entry) /\ n \in Nat /\ n <= MaxRecent /\ MaxRecent \in Nat \ {0} /\ DOMAIN recent = 1..n
      /\ MaxTotal \in Nat /\ assets \in AssetsRun /\ assets.total < MaxTotal
  BY CostsTypes, CostsAssumption DEF Book
<1>3. recent' = IF Len(all) > MaxRecent THEN Tail(all) ELSE all
  BY DEF Book
<1>. HIDE DEF e
<1>4. /\ all \in Seq(Entry) /\ Len(all) = n + 1 /\ all # <<>>
      /\ \A i \in 1..n : all[i] = recent[i]
      /\ all[n + 1] = e
  BY <1>1, <1>2, AppendProperties
<1>5. Cardinality(Counted(all)) = RunCost + inc /\ RunCost \in Nat
  BY <1>1, <1>2, CountedAppend, CountedIs, RunCostIs
<1>. HIDE DEF all, n
<1>6. CASE ~Working
  <2>1. assets' = assets
    BY <1>6 DEF Book, Working
  <2>2. recent' \in Seq(Entry) /\ Len(recent') <= MaxRecent
    BY <1>2, <1>3, <1>4, HeadTailProperties
  <2>3. QED
    BY <1>2, <1>6, <2>1, <2>2 DEF Working, CostOfRun
<1>7. CASE Working
  <2>1. assets' = [assets EXCEPT !.total = @ + 1, !.spent = @ + IF ws THEN usd ELSE 0]
    BY <1>7 DEF Book, Working
  <2>2. assets.total \in Nat /\ assets.spent \in Nat /\ assets.cost \in 0..MaxRecent /\ assets.spent <= assets.total
    BY <1>2, <1>7 DEF AssetsRun, RunBooks
  <2>3. /\ assets'.total = assets.total + 1 /\ assets'.spent = assets.spent + inc
        /\ assets'.pc = assets.pc /\ assets' \in AssetsRun
    <3>1. assets' = [[assets EXCEPT !.total = assets.total + 1]
                     EXCEPT !.spent = assets.spent + IF ws THEN usd ELSE 0]
      BY <1>2, <2>1 DEF AssetsRun
    <3>2. (IF ws THEN usd ELSE 0) = inc /\ inc \in 0..1
      OBVIOUS
    <3>3. assets.total + 1 \in 0..MaxTotal /\ assets.spent + inc \in 0..MaxTotal
      BY <1>2, <2>2, <3>2
    <3>. HIDE DEF inc
    <3>4. QED
      BY <1>2, <3>1, <3>2, <3>3 DEF AssetsRun
  <2>4. RunBooks
    BY <1>7
  <2>5. CASE n < MaxRecent
    <3>1. recent' = all
      BY <1>2, <1>3, <1>4, <2>5
    <3>2. RunCost' = RunCost + inc
      BY <1>5, <3>1, RunCostIs
    <3>3. DOMAIN recent' = 1..(n + 1) /\ Len(recent') = n + 1
      BY <1>4, <3>1, LenProperties
    <3>4. ASSUME assets'.total <= MaxRecent, NEW k \in 1..(n + 1)
          PROVE  recent'[k].since <=> k > (n + 1) - assets'.total
      <4>1. \A i \in 1..n : recent[i].since <=> i > n - assets.total
        BY <1>2, <2>2, <2>3, <2>4, <3>4 DEF RunBooks, n
      <4>2. QED
        BY <1>1, <1>2, <1>4, <2>2, <2>3, <3>1, <3>4, <4>1
    <3>5. RunBooks'
      BY <1>2, <1>5, <2>2, <2>3, <2>4, <3>2, <3>3, <3>4 DEF RunBooks
    <3>6. QED
      BY <1>2, <1>4, <1>7, <2>3, <2>5, <3>1, <3>5 DEF Working, CostOfRun
  <2>6. CASE n = MaxRecent
    <3>1. recent' = Tail(all)
      BY <1>2, <1>3, <1>4, <2>6
    <3>2. /\ recent' \in Seq(Entry) /\ Len(recent') = n
          /\ \A i \in 1..n : recent'[i] = all[i + 1]
      BY <1>2, <1>4, <3>1, HeadTailProperties
    <3>3. DOMAIN recent' = 1..n
      BY <3>2, LenProperties
    <3>4. all[1] = recent[1]
      BY <1>2, <1>4, <2>6
    <3>5. RunCost' = RunCost + inc - IF Counts(recent[1]) THEN 1 ELSE 0
      <4>1. Cardinality(Counted(Tail(all))) = Cardinality(Counted(all)) - IF Counts(all[1]) THEN 1 ELSE 0
        BY <1>4, CountedTail
      <4>2. RunCost' = Cardinality(Counted(Tail(all)))
        BY <3>1, RunCostIs
      <4>3. QED
        BY <1>5, <3>4, <4>1, <4>2
    <3>6. RunCost' <= assets'.spent
      BY <1>5, <2>2, <2>3, <2>4, <3>5 DEF RunBooks
    <3>7. ASSUME assets'.total <= MaxRecent
          PROVE  /\ RunCost' = assets'.spent
                 /\ \A k \in 1..n : recent'[k].since <=> k > n - assets'.total
      <4>1. RunCost = assets.spent /\ \A i \in 1..n : recent[i].since <=> i > n - assets.total
        BY <1>2, <2>2, <2>3, <2>4, <3>7 DEF RunBooks, n
      <4>2. ~Counts(recent[1])
        BY <1>2, <2>2, <2>3, <2>6, <3>7, <4>1 DEF Counts
      <4>3. RunCost' = assets'.spent
        BY <1>5, <2>2, <2>3, <3>5, <4>1, <4>2
      <4>4. \A k \in 1..n : recent'[k].since <=> k > n - assets'.total
        <5>1. TAKE k \in 1..n
        <5>2. CASE k = n
          BY <1>1, <1>2, <1>4, <2>2, <2>3, <3>2, <5>2
        <5>3. CASE k < n
          <6>1. k + 1 \in 1..n /\ recent'[k] = recent[k + 1]
            BY <1>2, <1>4, <3>2, <5>3
          <6>2. QED
            BY <1>2, <2>2, <2>3, <4>1, <5>3, <6>1
        <5>4. QED
          BY <1>2, <5>2, <5>3
      <4>5. QED
        BY <4>3, <4>4
    <3>8. RunBooks'
      BY <1>2, <1>5, <2>2, <2>3, <3>2, <3>3, <3>6, <3>7 DEF RunBooks
    <3>9. QED
      BY <1>2, <1>7, <2>3, <2>6, <3>2, <3>8 DEF Working, CostOfRun
  <2>7. QED
    BY <1>2, <2>5, <2>6
<1>8. QED
  BY <1>6, <1>7

\* One call takes a step that books nothing.
LEMMA QuietCall ==
  ASSUME CInv, NEW c \in Calls, NEW new \in Call, CallBooks(new), call' = [call EXCEPT ![c] = new],
         UNCHANGED <<recent, assets>>
  PROVE  CInv'
<1>1. call' \in [Calls -> Call] /\ \A d \in Calls : call'[d] = IF d = c THEN new ELSE call[d]
  BY CostsTypes DEF CInv
<1>2. CostsTypeOK'
  BY <1>1 DEF CInv, CostsTypeOK
<1>3. \A d \in Calls : CallBooks(call'[d])
  BY <1>1 DEF CInv
<1>4. (Working => RunBooks)' /\ CostOfRun'
  BY DEF CInv, Working, RunBooks, RunCost, CostOfRun
<1>5. QED
  BY <1>2, <1>3, <1>4 DEF CInv

\* One call takes a step that books an entry.
LEMMA BookingCall ==
  ASSUME CInv, NEW c \in Calls, NEW new \in Call, CallBooks(new), call' = [call EXCEPT ![c] = new],
         \E ws \in BOOLEAN, usd \in {0, 1} : Book(ws, usd)
  PROVE  CInv'
<1>0. PICK ws \in BOOLEAN, usd \in {0, 1} : Book(ws, usd)
  OBVIOUS
<1>1. call' \in [Calls -> Call] /\ \A d \in Calls : call'[d] = IF d = c THEN new ELSE call[d]
  BY CostsTypes DEF CInv
<1>2. /\ recent' \in Seq(Entry) /\ Len(recent') <= MaxRecent /\ assets' \in AssetsRun
      /\ (Working => RunBooks)' /\ CostOfRun'
  BY <1>0, BookIs DEF CInv
<1>3. CostsTypeOK'
  BY <1>1, <1>2 DEF CostsTypeOK, AssetsRun
<1>4. \A d \in Calls : CallBooks(call'[d])
  BY <1>1 DEF CInv
<1>5. QED
  BY <1>2, <1>3, <1>4 DEF CInv

LEMMA CallOf ==
  ASSUME CInv, NEW c \in Calls
  PROVE  /\ call \in [Calls -> Call] /\ call[c] \in Call /\ CallBooks(call[c])
         /\ call[c].pc \in {"idle", "ask", "fetch", "book", "back", "raised"}
         /\ call[c].kind \in CallKinds /\ call[c].again \in BOOLEAN /\ call[c].fallen \in BOOLEAN
         /\ call[c].got \in 0..2 /\ call[c].booked \in 0..2 /\ call[c].tries \in 1..MaxTries
         /\ MaxTries \in Nat \ {0}
<1>1. call \in [Calls -> Call] /\ CallBooks(call[c])
  BY CostsTypes DEF CInv
<1>2. call[c] \in Call
  BY <1>1
<1>3. QED
  BY <1>1, <1>2, CostsAssumption DEF Call

LEMMA CallModelStep == ASSUME CInv, NEW c \in Calls, CallModel(c) PROVE CInv'
<1>1. PICK k \in {"json", "stt"} : call' = [call EXCEPT ![c] = [NoCall EXCEPT !.pc = "ask", !.kind = k]]
  BY DEF CallModel
<1>. DEFINE new == [NoCall EXCEPT !.pc = "ask", !.kind = k]
<1>2. new \in Call /\ CallBooks(new)
  BY NoCallIs DEF NoCall, Call, CallKinds, CallBooks, Before
<1>. HIDE DEF new
<1>3. UNCHANGED <<recent, assets>> /\ call' = [call EXCEPT ![c] = new]
  BY <1>1 DEF CallModel, new
<1>4. QED
  BY <1>2, <1>3, QuietCall

LEMMA RaisesStep ==
  ASSUME CInv, NEW c \in Calls, call[c].pc \in {"ask", "fetch"}, Raises(c), UNCHANGED <<recent, assets>>
  PROVE  CInv'
<1>. DEFINE new == [call[c] EXCEPT !.pc = "raised"]
<1>1. new \in Call /\ CallBooks(new)
  BY CallOf DEF Call, CallBooks, Before
<1>2. call' = [call EXCEPT ![c] = new]
  BY CallOf DEF Raises
<1>. HIDE DEF new
<1>3. QED
  BY <1>1, <1>2, QuietCall

LEMMA AskProviderStep == ASSUME CInv, NEW c \in Calls, AskProvider(c) PROVE CInv'
<1>1. call[c].pc = "ask" /\ UNCHANGED <<recent, assets>>
  BY DEF AskProvider
<1>2. /\ call[c] \in Call /\ call[c].booked = call[c].got /\ call[c].got = Before(call[c])
       /\ Before(call[c]) \in 0..1 /\ MaxTries \in Nat \ {0}
  BY <1>1, CallOf DEF CallBooks, Before
<1>3. CASE call' = [call EXCEPT ![c].got = @ + 1,
                             ![c].pc = IF call[c].kind \in {"image", "depth"} THEN "fetch" ELSE "book"]
  <2>. DEFINE next == IF call[c].kind \in {"image", "depth"} THEN "fetch" ELSE "book"
              new == [[call[c] EXCEPT !.got = call[c].got + 1] EXCEPT !.pc = next]
  <2>1. /\ new \in Call /\ new.got = call[c].got + 1 /\ new.booked = call[c].booked
        /\ new.pc = next /\ new.kind = call[c].kind /\ new.again = call[c].again
    <3>1. call[c].got + 1 \in 0..2 /\ next \in {"fetch", "book"}
      BY <1>2
    <3>. HIDE DEF next
    <3>2. QED
      BY <1>2, <3>1 DEF Call
  <2>. HIDE DEF new
  <2>2. CallBooks(new)
    BY <1>2, <2>1 DEF CallBooks, Before
  <2>3. call' = [call EXCEPT ![c] = new]
    BY <1>3, CallOf DEF new
  <2>4. QED
    BY <1>1, <2>1, <2>2, <2>3, QuietCall
<1>4. CASE Retried(c)
  <2>. DEFINE new == [call[c] EXCEPT !.tries = call[c].tries + 1]
  <2>1. new \in Call /\ CallBooks(new)
    BY <1>1, <1>4, CallOf DEF Call, CallBooks, Before, Retried
  <2>2. call' = [call EXCEPT ![c] = new]
    BY <1>4, CallOf DEF Retried
  <2>. HIDE DEF new
  <2>3. QED
    BY <1>1, <2>1, <2>2, QuietCall
<1>5. CASE FallsBack(c)
  <2>. DEFINE new == [[call[c] EXCEPT !.fallen = TRUE] EXCEPT !.tries = 1]
  <2>0. 1 \in 1..MaxTries
    BY <1>2
  <2>1. /\ new \in Call /\ new.got = call[c].got /\ new.booked = call[c].booked
        /\ new.pc = "ask" /\ new.kind = call[c].kind /\ new.again = call[c].again
    BY <1>1, <1>2, <2>0 DEF Call
  <2>. HIDE DEF new
  <2>2. CallBooks(new)
    BY <1>2, <2>1 DEF CallBooks, Before
  <2>3. call' = [call EXCEPT ![c] = new]
    BY <1>5, CallOf DEF FallsBack, new
  <2>4. QED
    BY <1>1, <2>1, <2>2, <2>3, QuietCall
<1>6. CASE Raises(c)
  BY <1>1, <1>6, RaisesStep
<1>7. QED
  BY <1>3, <1>4, <1>5, <1>6 DEF AskProvider

LEMMA FetchStep == ASSUME CInv, NEW c \in Calls, Fetch(c) PROVE CInv'
<1>0. call[c].pc = "fetch" /\ UNCHANGED <<recent, assets>>
  BY DEF Fetch
<1>1. CASE call' = [call EXCEPT ![c].pc = "book"]
  <2>. DEFINE new == [call[c] EXCEPT !.pc = "book"]
  <2>1. new \in Call /\ CallBooks(new)
    BY <1>0, CallOf DEF Call, CallBooks, Before
  <2>2. call' = [call EXCEPT ![c] = new]
    BY <1>1, CallOf
  <2>. HIDE DEF new
  <2>3. QED
    BY <1>0, <2>1, <2>2, QuietCall
<1>2. CASE Raises(c)
  BY <1>0, <1>2, RaisesStep
<1>3. QED
  BY <1>1, <1>2 DEF Fetch

LEMMA BookedStep == ASSUME CInv, NEW c \in Calls, Booked(c) PROVE CInv'
<1>. DEFINE paid == [call[c] EXCEPT !.booked = call[c].booked + 1]
<1>0. call[c].pc = "book"
  BY DEF Booked
<1>1. /\ call[c] \in Call /\ call[c].got = call[c].booked + 1 /\ call[c].booked = Before(call[c])
      /\ Before(call[c]) \in 0..1 /\ call \in [Calls -> Call] /\ MaxTries \in Nat \ {0}
  BY <1>0, CallOf DEF CallBooks, Before
<1>2. /\ paid \in Call /\ paid.got = Before(call[c]) + 1 /\ paid.booked = paid.got /\ paid.pc = "book"
      /\ paid.kind = call[c].kind /\ paid.again = call[c].again
  BY <1>0, <1>1 DEF Call
<1>. DEFINE back == [paid EXCEPT !.pc = "back"]
            gone == [paid EXCEPT !.pc = "raised"]
            more == [[[paid EXCEPT !.pc = "ask"] EXCEPT !.again = TRUE] EXCEPT !.tries = 1]
            waits == [call[c] EXCEPT !.again = TRUE]
<1>3. \/ Book(TRUE, 1) /\ call' = [call EXCEPT ![c] = back]
      \/ call[c].kind = "stt" /\ Book(TRUE, 0) /\ call' = [call EXCEPT ![c] = waits]
      \/ /\ call[c].kind = "json" /\ Book(TRUE, 1)
         /\ call' = [call EXCEPT ![c] = IF call[c].again THEN gone ELSE more]
  BY <1>1 DEF Booked
<1>. HIDE DEF paid
<1>4. back \in Call /\ CallBooks(back)
  <2>1. back \in Call /\ back.pc = "back" /\ back.got = paid.got /\ back.booked = paid.booked
    BY <1>2 DEF Call
  <2>. HIDE DEF back
  <2>2. QED
    BY <1>2, <2>1 DEF CallBooks
<1>5. gone \in Call /\ CallBooks(gone)
  <2>1. gone \in Call /\ gone.pc = "raised" /\ gone.got = paid.got /\ gone.booked = paid.booked
    BY <1>2 DEF Call
  <2>2. paid.got \in 0..2
    BY <1>2 DEF Call
  <2>. HIDE DEF gone
  <2>3. QED
    BY <1>2, <2>1, <2>2 DEF CallBooks
<1>6. ASSUME call[c].kind = "json", ~call[c].again PROVE more \in Call /\ CallBooks(more)
  <2>1. /\ more \in Call /\ more.pc = "ask" /\ more.got = paid.got /\ more.booked = paid.booked
        /\ more.kind = "json" /\ more.again
    <3>1. 1 \in 1..MaxTries
      BY <1>1
    <3>2. QED
      BY <1>2, <1>6, <3>1 DEF Call
  <2>2. paid.got = 1
    BY <1>2, <1>6 DEF Before
  <2>. HIDE DEF more
  <2>3. QED
    BY <1>2, <2>1, <2>2 DEF CallBooks, Before
<1>7. ASSUME call[c].kind = "stt" PROVE waits \in Call /\ CallBooks(waits)
  <2>1. /\ waits \in Call /\ waits.pc = "book" /\ waits.got = call[c].got /\ waits.booked = call[c].booked
        /\ waits.kind = "stt"
    BY <1>0, <1>1, <1>7 DEF Call
  <2>. HIDE DEF waits
  <2>2. QED
    BY <1>1, <1>7, <2>1 DEF CallBooks, Before
<1>. HIDE DEF back, gone, more, waits
<1>. DEFINE Books == \E ws \in BOOLEAN, usd \in {0, 1} : Book(ws, usd)
<1>8. Book(TRUE, 0) \/ Book(TRUE, 1) => Books
  BY Zenon
<1>. HIDE DEF Books
<1>9. ASSUME NEW new \in Call, CallBooks(new), call' = [call EXCEPT ![c] = new], Books PROVE CInv'
  BY <1>9, BookingCall DEF Books
<1>10. CASE Book(TRUE, 1) /\ call' = [call EXCEPT ![c] = back]
  BY <1>4, <1>10, <1>8, <1>9
<1>11. CASE call[c].kind = "stt" /\ Book(TRUE, 0) /\ call' = [call EXCEPT ![c] = waits]
  BY <1>7, <1>11, <1>8, <1>9
<1>12. CASE /\ call[c].kind = "json" /\ Book(TRUE, 1)
            /\ call' = [call EXCEPT ![c] = IF call[c].again THEN gone ELSE more]
  <2>1. CASE call[c].again
    BY <1>5, <1>12, <1>8, <1>9, <2>1
  <2>2. CASE ~call[c].again
    BY <1>6, <1>12, <1>8, <1>9, <2>2
  <2>3. QED
    BY <2>1, <2>2
<1>13. QED
  BY <1>3, <1>10, <1>11, <1>12

LEMMA ReturnStep == ASSUME CInv, NEW c \in Calls, Return(c) PROVE CInv'
BY NoCallIs, QuietCall DEF Return

LEMMA OtherJobStep == ASSUME CInv, OtherJob PROVE CInv'
<1>1. PICK ws \in BOOLEAN : Book(ws, 1) /\ UNCHANGED call
  BY DEF OtherJob
<1>2. /\ recent' \in Seq(Entry) /\ Len(recent') <= MaxRecent /\ assets' \in AssetsRun
      /\ (Working => RunBooks)' /\ CostOfRun'
  BY <1>1, BookIs DEF CInv
<1>3. CostsTypeOK'
  BY <1>1, <1>2 DEF CInv, CostsTypeOK, AssetsRun
<1>4. QED
  BY <1>1, <1>2, <1>3 DEF CInv

LEMMA StartAssetsStep == ASSUME CInv, StartAssets PROVE CInv'
<1>1. PICK t, i \in Calls :
        call' = [call EXCEPT ![t] = [NoCall EXCEPT !.pc = "ask", !.kind = "tts", !.mine = TRUE],
                             ![i] = [NoCall EXCEPT !.pc = "ask", !.kind = "image", !.mine = TRUE]]
  BY DEF StartAssets
<1>. DEFINE spoken == [NoCall EXCEPT !.pc = "ask", !.kind = "tts", !.mine = TRUE]
            picture == [NoCall EXCEPT !.pc = "ask", !.kind = "image", !.mine = TRUE]
<1>2. spoken \in Call /\ CallBooks(spoken) /\ picture \in Call /\ CallBooks(picture)
  BY NoCallIs DEF NoCall, Call, CallKinds, CallBooks, Before
<1>. HIDE DEF spoken, picture
<1>3. call' = [[call EXCEPT ![t] = spoken] EXCEPT ![i] = picture]
  BY <1>1 DEF spoken, picture
<1>4. /\ call' \in [Calls -> Call]
      /\ \A c \in Calls : call'[c] = IF c = i THEN picture ELSE IF c = t THEN spoken ELSE call[c]
  BY <1>2, <1>3, CostsTypes DEF CInv
<1>5. recent' = [k \in DOMAIN recent |-> [recent[k] EXCEPT !.since = FALSE]]
      /\ assets' = [NoRun EXCEPT !.pc = "assets"]
  BY DEF StartAssets
<1>6. /\ Len(recent) \in Nat /\ Len(recent) <= MaxRecent /\ DOMAIN recent = 1..Len(recent)
      /\ \A k \in DOMAIN recent : recent[k] \in Entry
  BY CostsTypes DEF CInv
<1>7. \A k \in DOMAIN recent : recent'[k] \in Entry /\ ~recent'[k].since
  BY <1>5, <1>6 DEF Entry
<1>8. recent' \in [1..Len(recent) -> Entry]
  BY <1>5, <1>6, <1>7
<1>9. recent' \in Seq(Entry) /\ DOMAIN recent' = 1..Len(recent)
  BY <1>6, <1>8, SeqDef
<1>10. Len(recent') = Len(recent)
  BY <1>6, <1>9, LenProperties
<1>11. RunCost' = 0
  BY <1>6, <1>7, <1>9, NothingSince, RunCostIs
<1>12. assets' \in AssetsRun /\ assets'.pc = "assets" /\ assets'.total = 0 /\ assets'.spent = 0
  BY <1>5, NoRunIs DEF NoRun, AssetsRun
<1>13. CostsTypeOK'
  BY <1>4, <1>6, <1>9, <1>10, <1>12 DEF CostsTypeOK, AssetsRun
<1>14. RunBooks' /\ CostOfRun'
  BY <1>6, <1>7, <1>9, <1>10, <1>11, <1>12 DEF RunBooks, CostOfRun
<1>15. \A c \in Calls : CallBooks(call'[c])
  BY <1>2, <1>4 DEF CInv
<1>16. QED
  BY <1>13, <1>14, <1>15 DEF CInv

\* The calls leave the run, or stay as they are, and the list stays as it is.
LEMMA CallsLeft ==
  ASSUME CInv, NEW calls \in [Calls -> Call], call' = calls, \A c \in Calls : CallBooks(calls[c]),
         recent' = recent, assets' \in AssetsRun, (Working => RunBooks)', CostOfRun'
  PROVE  CInv'
<1>1. CostsTypeOK'
  BY CostsTypes DEF CInv, CostsTypeOK, AssetsRun
<1>2. QED
  BY <1>1 DEF CInv

LEMMA AssetsFailStep == ASSUME CInv, AssetsFail PROVE CInv'
<1>. DEFINE calls == [c \in Calls |-> [call[c] EXCEPT !.mine = FALSE]]
<1>1. \A c \in Calls : [call[c] EXCEPT !.mine = FALSE] \in Call /\ CallBooks([call[c] EXCEPT !.mine = FALSE])
  BY CallOf DEF Call, CallBooks, Before
<1>2. calls \in [Calls -> Call] /\ \A c \in Calls : CallBooks(calls[c])
  BY <1>1
<1>3. call' = calls /\ recent' = recent /\ assets' = [assets EXCEPT !.pc = "failed"]
  BY DEF AssetsFail
<1>4. assets' \in AssetsRun /\ assets'.pc = "failed"
  BY <1>3, CostsTypes DEF CInv, AssetsRun
<1>. HIDE DEF calls
<1>5. QED
  BY <1>2, <1>3, <1>4, CallsLeft DEF Working, CostOfRun

\* asset_gen reads its cost.
LEMMA FinishStep == ASSUME CInv, Working, Finish, recent' = recent PROVE CInv'
<1>. DEFINE calls == [c \in Calls |-> IF call[c].mine THEN NoCall ELSE call[c]]
<1>1. calls \in [Calls -> Call] /\ \A c \in Calls : CallBooks(calls[c])
  BY CallOf, NoCallIs
<1>2. call' = calls /\ assets' = [assets EXCEPT !.pc = "done", !.cost = RunCost]
  BY DEF Finish
<1>3. RunCost \in 0..MaxRecent
  BY CostsTypes, CountedIs, RunCostIs, CostsAssumption DEF CInv
<1>4. /\ assets' \in AssetsRun /\ assets'.pc = "done" /\ assets'.cost = RunCost
      /\ assets'.spent = assets.spent /\ assets'.total = assets.total
  BY <1>2, <1>3, CostsTypes DEF CInv, AssetsRun
<1>5. CostOfRun'
  BY <1>4 DEF CInv, RunBooks, CostOfRun
<1>. HIDE DEF calls
<1>6. QED
  BY <1>1, <1>2, <1>4, <1>5, CallsLeft DEF Working

LEMMA AssetsGatheredStep == ASSUME CInv, AssetsGathered PROVE CInv'
<1>1. assets.pc = "assets" /\ recent' = recent /\ Working
  BY DEF AssetsGathered, Working
<1>2. CASE Finish
  BY <1>1, <1>2, FinishStep
<1>3. CASE /\ assets' = [assets EXCEPT !.pc = "depth"]
           /\ call' = [c \in Calls |->
                IF ~call[c].mine THEN call[c]
                ELSE IF call[c].kind = "image" THEN [NoCall EXCEPT !.pc = "ask", !.kind = "depth", !.mine = TRUE]
                ELSE NoCall]
  <2>. DEFINE depth == [NoCall EXCEPT !.pc = "ask", !.kind = "depth", !.mine = TRUE]
              calls == [c \in Calls |-> IF ~call[c].mine THEN call[c]
                                        ELSE IF call[c].kind = "image" THEN depth ELSE NoCall]
  <2>1. depth \in Call /\ CallBooks(depth)
    BY NoCallIs DEF NoCall, Call, CallKinds, CallBooks, Before
  <2>2. call' = calls
    BY <1>3
  <2>. HIDE DEF depth
  <2>3. calls \in [Calls -> Call] /\ \A c \in Calls : CallBooks(calls[c])
    BY <2>1, CallOf, NoCallIs
  <2>4. /\ assets' \in AssetsRun /\ assets'.pc = "depth"
        /\ assets'.spent = assets.spent /\ assets'.total = assets.total
    BY <1>3, CostsTypes DEF CInv, AssetsRun
  <2>5. (Working => RunBooks)' /\ CostOfRun'
    BY <1>1, <2>4 DEF CInv, RunBooks, RunCost, CostOfRun
  <2>. HIDE DEF calls
  <2>6. QED
    BY <1>1, <2>2, <2>3, <2>4, <2>5, CallsLeft
<1>4. QED
  BY <1>2, <1>3 DEF AssetsGathered

LEMMA DepthGatheredStep == ASSUME CInv, DepthGathered PROVE CInv'
BY FinishStep DEF DepthGathered, Working

LEMMA CostsInitInv == ASSUME CostsInit PROVE CInv
<1>1. <<>> \in Seq(Entry) /\ Len(<<>>) = 0
  BY EmptySeq
<1>2. CostsTypeOK
  BY <1>1, NoCallIs, NoRunIs, CostsAssumption DEF CostsInit, CostsTypeOK, AssetsRun
<1>3. \A c \in Calls : CallBooks(call[c])
  BY NoCallIs DEF CostsInit
<1>4. QED
  BY <1>2, <1>3, NoRunIs DEF CostsInit, CInv, Working, CostOfRun

LEMMA StopStep == ASSUME CInv, Stop PROVE CInv'
<1>1. <<>> \in Seq(Entry) /\ Len(<<>>) = 0
  BY EmptySeq
<1>2. CostsTypeOK'
  BY <1>1, NoCallIs, NoRunIs, CostsAssumption DEF Stop, CostsTypeOK, AssetsRun
<1>3. \A c \in Calls : CallBooks(call'[c])
  BY NoCallIs DEF Stop
<1>4. QED
  BY <1>2, <1>3, NoRunIs DEF Stop, CInv, Working, CostOfRun

LEMMA CostsStutter == ASSUME CInv, UNCHANGED costVars PROVE CInv'
BY DEF CInv, CostsTypeOK, Working, RunBooks, RunCost, CostOfRun, costVars

LEMMA CostsStep == ASSUME CInv, [CostsNext]_costVars PROVE CInv'
BY OtherJobStep, StartAssetsStep, AssetsFailStep, AssetsGatheredStep, DepthGatheredStep, StopStep,
   CallModelStep, AskProviderStep, FetchStep, BookedStep, ReturnStep, CostsStutter DEF CostsNext

THEOREM CostsInvariant == CostsSpec => []CInv
<1>1. CostsInit => CInv
  BY CostsInitInv
<1>2. CInv /\ [CostsNext]_costVars => CInv'
  BY CostsStep
<1>3. QED
  BY <1>1, <1>2, PTL DEF CostsSpec

\* However often a call is retried, asked again or handed to a fallback (llm.py, tts.py,
\* stt.py, images.py), it books each answer it got, once, before it returns.
THEOREM AnswersBookedOnce == CostsSpec => []BookedOncePerAnswer
<1>1. CInv => BookedOncePerAnswer
  <2>1. SUFFICES ASSUME CInv, NEW c \in Calls
                 PROVE  /\ call[c].booked <= call[c].got
                        /\ call[c].pc = "back" => call[c].booked = call[c].got
                        /\ call[c].pc = "raised" /\ call[c].booked # call[c].got =>
                             call[c].kind \in {"image", "depth"}
    BY DEF BookedOncePerAnswer
  <2>2. /\ call[c].pc \in {"idle", "ask", "fetch", "book", "back", "raised"} /\ CallBooks(call[c])
        /\ call[c].got \in 0..2 /\ call[c].booked \in 0..2
    BY <2>1, CallOf
  <2>3. QED
    BY <2>2 DEF CallBooks
<1>2. QED
  BY <1>1, CostsInvariant, PTL

\* cost_usd of a run (cost_tracker.run_cost) is what its workspace has spent since it
\* began while RECENT has room for all that the process booked, and never more.
THEOREM RunCostIsSpent == CostsSpec => []CostOfRun
<1>1. CInv => CostOfRun
  BY DEF CInv
<1>2. QED
  BY <1>1, CostsInvariant, PTL

-----------------------------------------------------------------------------
(* The chat: the inductive invariant *)

\* The chat waits for the reason of a screen, or for something that is about none.
ChatKnowsItsScreen ==
  IF fsm.state = "reason" THEN fsm.of \in Screens ELSE fsm.of = NoScreen

\* An update at work is about a screen, and edits it only after the API took it.
TapIsAbout(t) ==
  /\ tap[t].pc # "idle" => tap[t].of \in Screens
  /\ tap[t].pc = "idle" => tap[t] = NoTap
  /\ tap[t].pc = "edit" => tap[t].does \in taken[tap[t].of]

\* A screen that asks is accounted for by a reject, never by another update that was
\* pressed before the question.
Asked(x) ==
  screen[x].shows = "ask" =>
    \/ taken[x] # {} \/ fsm.of = x \/ x \in dead
    \/ \E t \in Taps : tap[t].of = x /\ tap[t].does = "reject"

Shown(x) == screen[x].shows \in Decisions => screen[x].shows \in taken[x]

BInv ==
  /\ BotTypeOK
  /\ ChatKnowsItsScreen
  /\ \A t \in Taps : TapIsAbout(t)
  /\ \A x \in Screens : Asked(x) /\ Shown(x)

Screen == [shows: {"none", "missed", "buttons", "ask"} \cup Decisions, hook: Hooks]
Tap == [pc: {"idle", "call", "edit"}, does: Decisions, of: Screens \cup {NoScreen}]

LEMMA BotTypes ==
  ASSUME BotTypeOK
  PROVE  /\ screen \in [Screens -> Screen] /\ tap \in [Taps -> Tap]
         /\ taken \in [Screens -> SUBSET Decisions] /\ dead \subseteq Screens
         /\ fsm \in [state: {"none", "brief", "reason", "correction"}, of: Screens \cup {NoScreen}]
BY DEF BotTypeOK, Screen, Tap

LEMMA NoTapIsTap == NoTap \in Tap /\ NoTap.pc = "idle" /\ NoTap.of = NoScreen /\ NoTap.does = "reject"
BY DEF NoTap, Tap, Decisions

LEMMA BotInitInv == ASSUME BotInit PROVE BInv
<1>1. BotTypeOK
  BY NoTapIsTap DEF BotInit, BotTypeOK, Tap, NoChat, Hooks
<1>2. ChatKnowsItsScreen
  BY DEF BotInit, ChatKnowsItsScreen, NoChat
<1>3. \A t \in Taps : TapIsAbout(t)
  BY NoTapIsTap DEF BotInit, TapIsAbout
<1>4. \A x \in Screens : Asked(x) /\ Shown(x)
  BY DEF BotInit, Asked, Shown, Decisions, Hooks
<1>5. QED
  BY <1>1, <1>2, <1>3, <1>4 DEF BInv

-----------------------------------------------------------------------------
(* Screens *)

\* A step that changes a screen to something that is no decision and no question, or
\* only its hook.
LEMMA ScreenStep ==
  ASSUME BInv, NEW x \in Screens, NEW s \in Screen, screen' = [screen EXCEPT ![x] = s],
         s.shows \notin Decisions \cup {"ask"},
         UNCHANGED <<up, fsm, tap, taken, dead>>
  PROVE  BInv'
<1>1. /\ screen' \in [Screens -> Screen] /\ screen'[x] = s
      /\ \A y \in Screens \ {x} : screen'[y] = screen[y]
  BY BotTypes DEF BInv
<1>2. BotTypeOK'
  BY <1>1 DEF BInv, BotTypeOK, Screen
<1>3. ChatKnowsItsScreen' /\ \A t \in Taps : TapIsAbout(t)'
  BY DEF BInv, ChatKnowsItsScreen, TapIsAbout
<1>4. \A y \in Screens : Asked(y)' /\ Shown(y)'
  BY <1>1 DEF BInv, Asked, Shown
<1>5. QED
  BY <1>2, <1>3, <1>4 DEF BInv

LEMMA PushStep == ASSUME BInv, NEW x \in Screens, Push(x) PROVE BInv'
<1> DEFINE s == [screen[x] EXCEPT !.shows = IF up THEN "buttons" ELSE "missed"]
<1>1. screen[x] \in Screen
  BY BotTypes DEF BInv
<1>2. s \in Screen /\ s.shows \in {"buttons", "missed"}
  BY <1>1 DEF Screen
<1>3. screen' = [screen EXCEPT ![x] = s] /\ UNCHANGED <<up, fsm, tap, taken, dead>>
  BY DEF Push
<1> HIDE DEF s
<1>4. QED
  BY <1>2, <1>3, ScreenStep DEF Decisions, Hooks

LEMMA SelectHookStep == ASSUME BInv, NEW x \in Screens, SelectHook(x) PROVE BInv'
<1>1. PICK h \in Hooks : screen' = [screen EXCEPT ![x].hook = h]
  BY DEF SelectHook
<1> DEFINE s == [screen[x] EXCEPT !.hook = h]
<1>2. screen[x] \in Screen /\ screen[x].shows = "buttons"
  BY BotTypes DEF BInv, SelectHook
<1>3. s \in Screen /\ s.shows = "buttons"
  BY <1>2 DEF Screen
<1>4. screen' = [screen EXCEPT ![x] = s] /\ UNCHANGED <<up, fsm, tap, taken, dead>>
  BY <1>1 DEF SelectHook
<1> HIDE DEF s
<1>5. QED
  BY <1>3, <1>4, ScreenStep DEF Decisions, Hooks

\* The chat turns to another screen or to none, and the reason it waited for is lost.
LEMMA ChatTurns ==
  ASSUME BInv, fsm' \in [state: {"none", "brief", "reason", "correction"}, of: Screens \cup {NoScreen}],
         ChatKnowsItsScreen', dead' = dead \cup Forgotten
  PROVE  /\ dead' \subseteq Screens
         /\ \A y \in Screens : fsm.of = y => y \in dead'
BY BotAssumption, BotTypes DEF BInv, ChatKnowsItsScreen, Forgotten

LEMMA AskStep == ASSUME BInv, NEW x \in Screens, Ask(x) PROVE BInv'
<1>1. /\ fsm' = [state |-> "reason", of |-> x] /\ dead' = dead \cup Forgotten
      /\ screen' = [screen EXCEPT ![x].shows = "ask"] /\ UNCHANGED <<up, tap, taken>>
  BY DEF Ask
<1>2. screen[x] \in Screen
  BY BotTypes DEF BInv
<1> DEFINE s == [screen[x] EXCEPT !.shows = "ask"]
<1>3. s \in Screen /\ s.shows = "ask"
  BY <1>2 DEF Screen
<1>4. screen' = [screen EXCEPT ![x] = s]
  BY <1>1
<1> HIDE DEF s
<1>5. /\ screen' \in [Screens -> Screen] /\ screen'[x].shows = "ask"
      /\ \A y \in Screens \ {x} : screen'[y] = screen[y]
  BY <1>3, <1>4, BotTypes DEF BInv
<1>6. ChatKnowsItsScreen' /\ fsm'.of = x
  BY <1>1 DEF ChatKnowsItsScreen
<1>7. dead' \subseteq Screens /\ \A y \in Screens : fsm.of = y => y \in dead'
  BY <1>1, <1>6, ChatTurns
<1>8. BotTypeOK'
  BY <1>1, <1>5, <1>7 DEF BInv, BotTypeOK, Screen
<1>9. \A t \in Taps : TapIsAbout(t)'
  BY <1>1 DEF BInv, TapIsAbout
<1>10. \A y \in Screens : Asked(y)' /\ Shown(y)'
  BY <1>1, <1>5, <1>6, <1>7 DEF BInv, Asked, Shown, Decisions, Hooks
<1>11. QED
  BY <1>6, <1>8, <1>9, <1>10 DEF BInv

LEMMA WaitStep ==
  ASSUME BInv, NEW state \in {"brief", "correction"}, Wait(state) PROVE BInv'
<1>1. /\ fsm' = [state |-> state, of |-> NoScreen] /\ dead' = dead \cup Forgotten
      /\ UNCHANGED <<up, screen, tap, taken>>
  BY DEF Wait
<1>2. ChatKnowsItsScreen'
  BY <1>1 DEF ChatKnowsItsScreen
<1>3. dead' \subseteq Screens /\ \A y \in Screens : fsm.of = y => y \in dead'
  BY <1>1, <1>2, ChatTurns
<1>4. BotTypeOK'
  BY <1>1, <1>3 DEF BInv, BotTypeOK
<1>5. \A t \in Taps : TapIsAbout(t)'
  BY <1>1 DEF BInv, TapIsAbout
<1>6. \A y \in Screens : Asked(y)' /\ Shown(y)'
  BY <1>1, <1>3 DEF BInv, Asked, Shown
<1>7. QED
  BY <1>2, <1>4, <1>5, <1>6 DEF BInv

LEMMA SaidStep == ASSUME BInv, Said PROVE BInv'
<1>1. fsm.of = NoScreen /\ fsm' = NoChat /\ UNCHANGED <<up, screen, tap, taken, dead>>
  BY DEF Said, BInv, ChatKnowsItsScreen
<1>2. ChatKnowsItsScreen' /\ BotTypeOK'
  BY <1>1 DEF BInv, BotTypeOK, ChatKnowsItsScreen, NoChat
<1>3. \A t \in Taps : TapIsAbout(t)'
  BY <1>1 DEF BInv, TapIsAbout
<1>4. \A y \in Screens : Asked(y)' /\ Shown(y)'
  BY <1>1, BotAssumption DEF BInv, Asked, Shown
<1>5. QED
  BY <1>2, <1>3, <1>4 DEF BInv

-----------------------------------------------------------------------------
(* Updates that call the API *)

\* An update begins, goes on or ends: what a screen relies on is not lost with it.
LEMMA TapStep ==
  ASSUME BInv, NEW t \in Taps, NEW p \in Tap, tap' = [tap EXCEPT ![t] = p],
         p.pc # "idle" => p.of \in Screens,
         p.pc = "idle" => p = NoTap,
         p.pc = "edit" => p.does \in taken'[p.of],
         BotTypeOK', ChatKnowsItsScreen', screen' = screen, dead \subseteq dead',
         \A y \in Screens : taken[y] \subseteq taken'[y],
         \A y \in Screens : fsm.of = y => fsm'.of = y \/ (p.of = y /\ p.does = "reject"),
         tap[t].does = "reject" /\ tap[t].of \in Screens =>
           \/ p.of = tap[t].of /\ p.does = "reject"
           \/ tap[t].of \in dead' \/ taken'[tap[t].of] # {}
  PROVE  BInv'
<1>1. tap'[t] = p /\ \A u \in Taps \ {t} : tap'[u] = tap[u]
  BY BotTypes DEF BInv
<1>2. \A u \in Taps : tap[u].pc = "edit" => tap[u].of \in Screens
  BY DEF BInv, TapIsAbout
<1>3. \A u \in Taps : TapIsAbout(u)'
  BY <1>1, <1>2 DEF BInv, TapIsAbout
<1>4. ASSUME NEW y \in Screens PROVE Asked(y)' /\ Shown(y)'
  <2>1. Shown(y)'
    BY DEF BInv, Shown
  <2>2. CASE taken[y] # {} \/ fsm.of = y \/ y \in dead
    BY <1>1, <2>1, <2>2 DEF Asked
  <2>3. CASE \E u \in Taps : tap[u].of = y /\ tap[u].does = "reject"
    <3>1. PICK u \in Taps : tap[u].of = y /\ tap[u].does = "reject"
      BY <2>3
    <3>2. CASE u = t
      BY <1>1, <2>1, <3>1, <3>2 DEF Asked
    <3>3. CASE u # t
      BY <1>1, <2>1, <3>1, <3>3 DEF Asked
    <3>4. QED
      BY <3>2, <3>3
  <2>4. CASE screen[y].shows # "ask"
    BY <2>1, <2>4 DEF Asked
  <2>5. QED
    BY <2>2, <2>3, <2>4 DEF BInv, Asked
<1>5. QED
  BY <1>3, <1>4 DEF BInv

LEMMA PressStep == ASSUME BInv, NEW t \in Taps, NEW x \in Screens, Press(t, x) PROVE BInv'
<1>1. PICK d \in Direct(x) : tap' = [tap EXCEPT ![t] = [pc |-> "call", does |-> d, of |-> x]]
  BY DEF Press
<1>2. d \in Decisions
  BY BotTypes DEF BInv, Direct, Decisions, Screen
<1> DEFINE p == [pc |-> "call", does |-> d, of |-> x]
<1>3. p \in Tap /\ p.pc = "call" /\ p.of = x
  BY <1>2 DEF Tap
<1>4. tap' = [tap EXCEPT ![t] = p] /\ UNCHANGED <<up, screen, fsm, taken, dead>>
  BY <1>1 DEF Press
<1> HIDE DEF p
<1>5. tap' \in [Taps -> Tap]
  BY <1>3, <1>4, BotTypes DEF BInv
<1>6. BotTypeOK' /\ ChatKnowsItsScreen'
  BY <1>4, <1>5 DEF BInv, BotTypeOK, Tap, ChatKnowsItsScreen
<1>7. tap[t].of \notin Screens
  BY NoTapIsTap, BotAssumption DEF Press
<1>8. QED
  BY <1>3, <1>4, <1>6, <1>7, TapStep

LEMMA ReasonStep == ASSUME BInv, NEW t \in Taps, Reason(t) PROVE BInv'
<1>1. fsm.of \in Screens /\ fsm' = NoChat /\ UNCHANGED <<up, screen, taken, dead>>
  BY DEF BInv, ChatKnowsItsScreen, Reason
<1> DEFINE p == [pc |-> "call", does |-> "reject", of |-> fsm.of]
<1>2. p \in Tap /\ p.pc = "call" /\ p.of = fsm.of /\ p.does = "reject"
  BY <1>1 DEF Tap, Decisions
<1>3. tap' = [tap EXCEPT ![t] = p]
  BY DEF Reason
<1> HIDE DEF p
<1>4. tap' \in [Taps -> Tap]
  BY <1>2, <1>3, BotTypes DEF BInv
<1>5. BotTypeOK' /\ ChatKnowsItsScreen'
  BY <1>1, <1>4 DEF BInv, BotTypeOK, Tap, ChatKnowsItsScreen, NoChat
<1>6. tap[t].of \notin Screens
  BY NoTapIsTap, BotAssumption DEF Reason
<1>7. QED
  BY <1>1, <1>2, <1>3, <1>5, <1>6, TapStep

LEMMA ApiTakesStep == ASSUME BInv, NEW t \in Taps, ApiTakes(t) PROVE BInv'
<1>1. tap[t] \in Tap /\ tap[t].pc = "call" /\ tap[t].of \in Screens
  BY BotTypes DEF BInv, ApiTakes, TapIsAbout
<1>2. /\ taken' = [taken EXCEPT ![tap[t].of] = taken[tap[t].of] \cup {tap[t].does}]
      /\ UNCHANGED <<up, screen, fsm, dead>>
  BY DEF ApiTakes
<1> DEFINE p == [tap[t] EXCEPT !.pc = "edit"]
<1>3. p \in Tap /\ p.pc = "edit" /\ p.of = tap[t].of /\ p.does = tap[t].does
  BY <1>1 DEF Tap
<1>4. tap' = [tap EXCEPT ![t] = p]
  BY DEF ApiTakes
<1> HIDE DEF p
<1>5. tap' \in [Taps -> Tap]
  BY <1>3, <1>4, BotTypes DEF BInv
<1>6. tap[t].does \in Decisions
  BY <1>1 DEF Tap
<1>7. /\ taken' \in [Screens -> SUBSET Decisions] /\ tap[t].does \in taken'[tap[t].of]
      /\ \A y \in Screens : taken[y] \subseteq taken'[y]
  BY <1>1, <1>2, <1>6, BotTypes DEF BInv
<1>8. BotTypeOK' /\ ChatKnowsItsScreen'
  BY <1>2, <1>5, <1>7 DEF BInv, BotTypeOK, Tap, ChatKnowsItsScreen
<1>9. QED
  BY <1>1, <1>2, <1>3, <1>4, <1>7, <1>8, TapStep

LEMMA ApiFailsStep == ASSUME BInv, NEW t \in Taps, ApiFails(t) PROVE BInv'
<1>1. tap[t].of \in Screens
  BY DEF BInv, ApiFails, TapIsAbout
<1>2. /\ tap' = [tap EXCEPT ![t] = NoTap] /\ UNCHANGED <<up, screen, fsm, taken>>
      /\ dead' = IF tap[t].does = "reject" THEN dead \cup {tap[t].of} ELSE dead
  BY DEF ApiFails
<1>3. tap' \in [Taps -> Tap] /\ dead' \subseteq Screens
  BY <1>1, <1>2, NoTapIsTap, BotTypes DEF BInv
<1>4. BotTypeOK' /\ ChatKnowsItsScreen'
  BY <1>2, <1>3 DEF BInv, BotTypeOK, Tap, ChatKnowsItsScreen
<1>5. QED
  BY <1>2, <1>4, NoTapIsTap, TapStep

LEMMA EditStep == ASSUME BInv, NEW t \in Taps, Edit(t) PROVE BInv'
<1>1. /\ tap[t] \in Tap /\ tap[t].of \in Screens /\ tap[t].does \in taken[tap[t].of]
      /\ tap' = [tap EXCEPT ![t] = NoTap] /\ UNCHANGED <<up, fsm, taken, dead>>
  BY BotTypes DEF BInv, Edit, TapIsAbout
<1>2. tap' \in [Taps -> Tap]
  BY <1>1, NoTapIsTap, BotTypes DEF BInv
<1>3. CASE tap[t].does = "reject"
  <2>1. screen' = screen
    BY <1>3 DEF Edit
  <2>2. BotTypeOK' /\ ChatKnowsItsScreen'
    BY <1>1, <1>2, <2>1 DEF BInv, BotTypeOK, Tap, ChatKnowsItsScreen
  <2>3. QED
    BY <1>1, <2>1, <2>2, NoTapIsTap, TapStep
<1>4. CASE tap[t].does # "reject"
  <2> DEFINE x == tap[t].of
             s == [screen[x] EXCEPT !.shows = tap[t].does]
  <2>1. screen[x] \in Screen /\ tap[t].does \in Decisions
    BY <1>1, BotTypes DEF BInv, Tap
  <2>2. s \in Screen /\ s.shows = tap[t].does
    BY <2>1 DEF Screen
  <2>3. screen' = [screen EXCEPT ![x] = s]
    BY <1>4 DEF Edit
  <2> HIDE DEF s
  <2>4. /\ screen' \in [Screens -> Screen] /\ screen'[x].shows = tap[t].does
        /\ \A y \in Screens \ {x} : screen'[y] = screen[y]
    BY <1>1, <2>2, <2>3, BotTypes DEF BInv
  <2>5. BotTypeOK' /\ ChatKnowsItsScreen'
    BY <1>1, <1>2, <2>4 DEF BInv, BotTypeOK, Tap, Screen, ChatKnowsItsScreen
  <2>6. tap'[t] = NoTap /\ \A u \in Taps \ {t} : tap'[u] = tap[u]
    BY <1>1, BotTypes DEF BInv
  <2>7. \A u \in Taps : TapIsAbout(u)'
    BY <1>1, <2>6, NoTapIsTap DEF BInv, TapIsAbout
  <2>8. \A y \in Screens : Shown(y)'
    BY <1>1, <2>4 DEF BInv, Shown
  <2>9. \A y \in Screens : Asked(y)'
    BY <1>1, <1>4, <2>1, <2>4, <2>6 DEF BInv, Asked, Decisions, Hooks
  <2>10. QED
    BY <2>5, <2>7, <2>8, <2>9 DEF BInv
<1>5. QED
  BY <1>3, <1>4

LEMMA StopBotStep == ASSUME BInv, StopBot PROVE BInv'
<1> DEFINE cut == {tap[t].of : t \in {u \in Taps : tap[u] # NoTap /\ tap[u].does = "reject"}}
<1>1. /\ up' = FALSE /\ fsm' = NoChat /\ tap' = [t \in Taps |-> NoTap]
      /\ dead' = dead \cup Forgotten \cup cut /\ UNCHANGED <<screen, taken>>
  BY DEF StopBot
<1>2. cut \subseteq Screens
  BY DEF BInv, TapIsAbout
<1>3. Forgotten \subseteq Screens /\ \A y \in Screens : fsm.of = y => y \in Forgotten
  BY BotAssumption DEF BInv, ChatKnowsItsScreen, Forgotten
<1>4. ChatKnowsItsScreen'
  BY <1>1 DEF ChatKnowsItsScreen, NoChat
<1>5. BotTypeOK'
  BY <1>1, <1>2, <1>3, NoTapIsTap, BotTypes DEF BInv, BotTypeOK, Tap, NoChat
<1>6. \A t \in Taps : TapIsAbout(t)'
  BY <1>1, NoTapIsTap DEF TapIsAbout
<1>7. \A t \in Taps, y \in Screens : tap[t].of = y /\ tap[t].does = "reject" => y \in cut
  BY NoTapIsTap, BotAssumption
<1> HIDE DEF cut
<1>8. \A y \in Screens : Asked(y)' /\ Shown(y)'
  BY <1>1, <1>3, <1>7 DEF BInv, Asked, Shown
<1>9. QED
  BY <1>4, <1>5, <1>6, <1>8 DEF BInv

\* A start of the bot, or nothing
LEMMA BotStutter ==
  ASSUME BInv, up' \in BOOLEAN, UNCHANGED <<screen, fsm, tap, taken, dead>> PROVE BInv'
BY DEF BInv, BotTypeOK, ChatKnowsItsScreen, TapIsAbout, Asked, Shown

-----------------------------------------------------------------------------
(* The chat: the theorems *)

\* Every update, answer and restart of the bot keeps the invariant.
LEMMA BotStep == ASSUME BInv, [BotNext]_botVars PROVE BInv'
<1>1. ASSUME NEW x \in Screens, Push(x) \/ SelectHook(x) \/ Ask(x) \/ \E t \in Taps : Press(t, x)
      PROVE  BInv'
  BY <1>1, PushStep, SelectHookStep, AskStep, PressStep
<1>2. ASSUME NEW t \in Taps, Reason(t) \/ ApiTakes(t) \/ ApiFails(t) \/ Edit(t) PROVE BInv'
  BY <1>2, ReasonStep, ApiTakesStep, ApiFailsStep, EditStep
<1>3. CASE Wait("brief") \/ Wait("correction") \/ Said \/ StopBot
  BY <1>3, WaitStep, SaidStep, StopBotStep
<1>4. CASE StartBot \/ UNCHANGED botVars
  BY <1>4, BotStutter DEF StartBot, botVars, BInv, BotTypeOK
<1>5. QED
  BY <1>1, <1>2, <1>3, <1>4 DEF BotNext

\* Every state of the chat has the inductive invariant.
THEOREM BotInvariant == BotSpec => []BInv
<1>1. BotInit => BInv
  BY BotInitInv
<1>2. BInv /\ [BotNext]_botVars => BInv'
  BY BotStep
<1>3. QED
  BY <1>1, <1>2, PTL DEF BotSpec

\* The screens, the chat's state and the updates keep their types (keyboards.py, states.py).
THEOREM BotTypeCorrect == BotSpec => []BotTypeOK
<1>1. BInv => BotTypeOK
  BY DEF BInv
<1>2. QED
  BY <1>1, BotInvariant, PTL

\* For any scripts and any number of updates at a time, in any order, with errors of
\* the API and stops of the bot: a screen shows only decisions the API took, and one
\* that lost its buttons to a question is accounted for.
THEOREM OwnerIsNotMisled == BotSpec => []OwnerNotMisled
<1>1. BInv => OwnerNotMisled
  BY DEF BInv, Asked, Shown, OwnerNotMisled
<1>2. QED
  BY <1>1, BotInvariant, PTL

-----------------------------------------------------------------------------
(* The dashboard: the inductive invariant *)

Seeding == {x \in Requests : req[x].pc = "seed"}

\* A lead has its own number, and a deal if its stage says so; no more are to come than
\* have numbers left.
LeadsAreTold ==
  /\ IsFiniteSet(leads)
  /\ \A l \in leads : l.id <= seeds /\ (l.stage = "deal" <=> l.deal # "none")
  /\ \A k, l \in leads : k.id = l.id => k = l
  /\ seeds + Cardinality(Seeding) <= MaxSeeds

\* What a request has read is still there; and its deals are those of leads it has read,
\* whatever was seeded since.
ReadsOf(q) ==
  /\ q.leads \subseteq leads
  /\ q.deals \subseteq q.leads /\ \A l \in q.deals : l.deal # "none"

WInv ==
  /\ CrmTypeOK
  /\ LeadsAreTold
  /\ \A r \in Requests : ReadsOf(req[r])

DashboardRequest == [pc: {"idle", "seed", "leads", "deals", "done"}, days: Windows \cup {1},
                     started: 0..MaxNow, leads: SUBSET Lead, deals: SUBSET Lead]

LEMMA CrmTypes ==
  CrmTypeOK <=>
    now \in 0..MaxNow /\ seeds \in 0..MaxSeeds /\ leads \subseteq Lead /\ req \in [Requests -> DashboardRequest]
BY DEF CrmTypeOK, DashboardRequest

LEMMA NoRequestIs ==
  NoRequest \in DashboardRequest /\ NoRequest.pc = "idle" /\ NoRequest.leads = {} /\ NoRequest.deals = {}
BY DashboardAssumption DEF NoRequest, DashboardRequest

\* One request moves, and reads what is there.
LEMMA RequestMoves ==
  ASSUME WInv, NEW r \in Requests, NEW q \in DashboardRequest, req' = [req EXCEPT ![r] = q],
         leads \subseteq leads', leads' \subseteq Lead, now' \in 0..MaxNow, seeds' \in 0..MaxSeeds,
         q.leads \subseteq leads', q.deals \subseteq q.leads, \A l \in q.deals : l.deal # "none",
         LeadsAreTold'
  PROVE  WInv'
<1>1. req' \in [Requests -> DashboardRequest] /\ req'[r] = q /\ \A x \in Requests \ {r} : req'[x] = req[x]
  BY CrmTypes DEF WInv
<1>2. CrmTypeOK'
  BY <1>1, CrmTypes DEF CrmTypeOK, DashboardRequest
<1>3. \A x \in Requests : ReadsOf(req[x])'
  BY <1>1 DEF WInv, ReadsOf
<1>4. QED
  BY <1>2, <1>3 DEF WInv

\* A step that seeds nothing and does not begin to.
LEMMA StillTold ==
  ASSUME WInv, NEW r \in Requests, NEW q \in DashboardRequest, req' = [req EXCEPT ![r] = q],
         q.pc # "seed", UNCHANGED <<leads, seeds>>
  PROVE  LeadsAreTold'
<1>1. req' \in [Requests -> DashboardRequest] /\ req'[r] = q /\ \A x \in Requests \ {r} : req'[x] = req[x]
  BY CrmTypes DEF WInv
<1>2. Seeding' \subseteq Seeding /\ Seeding \subseteq Requests
  BY <1>1 DEF Seeding
<1>3. IsFiniteSet(Seeding)
  BY <1>2, DashboardAssumption, FS_Subset
<1>4. Cardinality(Seeding') <= Cardinality(Seeding) /\ Cardinality(Seeding) \in Nat /\ Cardinality(Seeding') \in Nat
  BY <1>2, <1>3, FS_Subset, FS_CardinalityType
<1>5. seeds \in Nat /\ seeds + Cardinality(Seeding) <= MaxSeeds /\ MaxSeeds \in Nat
  BY CrmTypes, DashboardAssumption DEF WInv, LeadsAreTold
<1>6. seeds' + Cardinality(Seeding') <= MaxSeeds
  BY <1>4, <1>5
<1>7. QED
  BY <1>6 DEF WInv, LeadsAreTold

LEMMA CountLeadsStep == ASSUME WInv, NEW r \in Requests, CountLeads(r) PROVE WInv'
<1>1. /\ req \in [Requests -> DashboardRequest] /\ now \in 0..MaxNow /\ seeds \in 0..MaxSeeds /\ leads \subseteq Lead
  BY CrmTypes DEF WInv
<1>. DEFINE q == [req[r] EXCEPT !.pc = "seed"]
<1>2. /\ req[r].pc = "idle" /\ seeds + Cardinality(Seeding) < MaxSeeds
      /\ req' = [req EXCEPT ![r] = q] /\ UNCHANGED <<now, leads, seeds>>
  BY DEF CountLeads, Seeding
<1>3. q \in DashboardRequest /\ q.pc = "seed" /\ q.leads = req[r].leads /\ q.deals = req[r].deals
  BY <1>1 DEF DashboardRequest
<1>. HIDE DEF q
<1>4. req'[r] = q /\ \A x \in Requests \ {r} : req'[x] = req[x]
  BY <1>1, <1>2
<1>5. Seeding' = Seeding \cup {r} /\ r \notin Seeding /\ IsFiniteSet(Seeding)
  <2>1. Seeding' = Seeding \cup {r} /\ r \notin Seeding
    BY <1>2, <1>3, <1>4 DEF Seeding
  <2>2. Seeding \subseteq Requests
    BY DEF Seeding
  <2>3. QED
    BY <2>1, <2>2, DashboardAssumption, FS_Subset
<1>6. Cardinality(Seeding') = Cardinality(Seeding) + 1 /\ Cardinality(Seeding) \in Nat
  BY <1>5, FS_AddElement, FS_CardinalityType
<1>7. seeds' + Cardinality(Seeding') <= MaxSeeds
  BY <1>1, <1>2, <1>6, DashboardAssumption
<1>8. LeadsAreTold'
  BY <1>2, <1>7 DEF WInv, LeadsAreTold
<1>9. ReadsOf(req[r])
  BY DEF WInv
<1>10. QED
  BY <1>1, <1>2, <1>3, <1>8, <1>9, RequestMoves DEF ReadsOf

LEMMA SeedDemoStep == ASSUME WInv, NEW r \in Requests, SeedDemo(r) PROVE WInv'
<1>1. /\ req \in [Requests -> DashboardRequest] /\ now \in 0..MaxNow /\ seeds \in 0..MaxSeeds /\ leads \subseteq Lead
  BY CrmTypes DEF WInv
<1>2. /\ req[r].pc = "seed" /\ seeds' = seeds + 1 /\ now' = now /\ req' = [req EXCEPT ![r] = NoRequest]
  BY DEF SeedDemo
<1>3. PICK l \in DemoLeads(seeds + 1) : leads' = leads \cup {l}
  BY DEF SeedDemo
<1>4. req'[r] = NoRequest /\ \A x \in Requests \ {r} : req'[x] = req[x]
  BY <1>1, <1>2
<1>5. Seeding = Seeding' \cup {r} /\ r \notin Seeding' /\ IsFiniteSet(Seeding')
  <2>1. Seeding = Seeding' \cup {r} /\ r \notin Seeding'
    BY <1>2, <1>4, NoRequestIs DEF Seeding
  <2>2. Seeding \subseteq Requests
    BY DEF Seeding
  <2>3. Seeding' \subseteq Requests
    BY <2>1, <2>2
  <2>4. QED
    BY <2>1, <2>3, DashboardAssumption, FS_Subset
<1>6. Cardinality(Seeding) = Cardinality(Seeding') + 1 /\ Cardinality(Seeding') \in Nat
  BY <1>5, FS_AddElement, FS_CardinalityType
<1>7. seeds + Cardinality(Seeding) <= MaxSeeds
  BY DEF WInv, LeadsAreTold
<1>8. seeds' + Cardinality(Seeding') <= MaxSeeds /\ seeds' \in 0..MaxSeeds
  BY <1>1, <1>2, <1>6, <1>7, DashboardAssumption
<1>9. /\ l.id = seeds + 1 /\ l.at \in First..now /\ l.stage \in Stages /\ l.temperature \in Temperatures
      /\ l.campaign \in BOOLEAN /\ l.deal \in DealStatuses /\ l.closed \in First..now
      /\ l = [id |-> l.id, at |-> l.at, stage |-> l.stage, temperature |-> l.temperature,
              campaign |-> l.campaign, deal |-> l.deal, closed |-> l.closed]
      /\ l.stage = "deal" <=> l.deal # "none"
  BY DEF DemoLeads
<1>10. \A m \in First..now : m \in Moments
  BY <1>1, DashboardAssumption DEF First, Moments
<1>11. l \in Lead
  <2>1. l.id \in 1..MaxSeeds /\ l.at \in Moments /\ l.closed \in Moments
    BY <1>1, <1>2, <1>8, <1>9, <1>10, DashboardAssumption
  <2>2. QED
    BY <1>9, <2>1 DEF Lead
<1>12. leads' \subseteq Lead /\ leads \subseteq leads'
  BY <1>1, <1>3, <1>11
<1>13. LeadsAreTold'
  <2>1. IsFiniteSet(leads')
    BY <1>3, FS_AddElement DEF WInv, LeadsAreTold
  <2>2. \A k \in leads : k.id \in Nat /\ k.id <= seeds
    BY <1>1 DEF WInv, LeadsAreTold, Lead
  <2>3. \A k \in leads' : k.id <= seeds' /\ (k.stage = "deal" <=> k.deal # "none")
    BY <1>1, <1>2, <1>3, <1>9, <2>2 DEF WInv, LeadsAreTold
  <2>4. ASSUME NEW k \in leads', NEW m \in leads', k.id = m.id PROVE k = m
    BY <1>1, <1>3, <1>9, <2>2, <2>4 DEF WInv, LeadsAreTold
  <2>5. QED
    BY <1>8, <2>1, <2>3, <2>4 DEF LeadsAreTold
<1>14. QED
  BY <1>1, <1>2, <1>8, <1>12, <1>13, NoRequestIs, RequestMoves

LEMMA AskDashboardStep == ASSUME WInv, NEW r \in Requests, AskDashboard(r) PROVE WInv'
<1>1. /\ req \in [Requests -> DashboardRequest] /\ now \in 0..MaxNow /\ seeds \in 0..MaxSeeds /\ leads \subseteq Lead
  BY CrmTypes DEF WInv
<1>2. PICK d \in Windows : req' = [req EXCEPT ![r] = [NoRequest EXCEPT !.pc = "leads", !.days = d, !.started = now]]
  BY DEF AskDashboard
<1>. DEFINE q == [NoRequest EXCEPT !.pc = "leads", !.days = d, !.started = now]
<1>3. q \in DashboardRequest /\ q.pc = "leads" /\ q.leads = {} /\ q.deals = {}
  BY <1>1 DEF DashboardRequest, NoRequest
<1>4. req' = [req EXCEPT ![r] = q] /\ UNCHANGED <<now, leads, seeds>>
  BY <1>2 DEF AskDashboard
<1>. HIDE DEF q
<1>5. LeadsAreTold'
  BY <1>3, <1>4, StillTold
<1>6. QED
  BY <1>1, <1>3, <1>4, <1>5, RequestMoves

LEMMA ReadLeadsStep == ASSUME WInv, NEW r \in Requests, ReadLeads(r) PROVE WInv'
<1>1. /\ req \in [Requests -> DashboardRequest] /\ now \in 0..MaxNow /\ seeds \in 0..MaxSeeds /\ leads \subseteq Lead
  BY CrmTypes DEF WInv
<1>. DEFINE q == [[req[r] EXCEPT !.pc = "deals"] EXCEPT !.leads = leads]
<1>2. req' = [req EXCEPT ![r] = q] /\ UNCHANGED <<now, leads, seeds>>
  BY <1>1 DEF ReadLeads, DashboardRequest
<1>3. q \in DashboardRequest /\ q.pc = "deals" /\ q.leads = leads /\ q.deals = req[r].deals
  BY <1>1 DEF DashboardRequest
<1>. HIDE DEF q
<1>4. LeadsAreTold'
  BY <1>2, <1>3, StillTold
<1>5. ReadsOf(req[r])
  BY DEF WInv
<1>6. QED
  BY <1>1, <1>2, <1>3, <1>4, <1>5, RequestMoves DEF ReadsOf

LEMMA ReadDealsStep == ASSUME WInv, NEW r \in Requests, ReadDeals(r) PROVE WInv'
<1>1. /\ req \in [Requests -> DashboardRequest] /\ now \in 0..MaxNow /\ seeds \in 0..MaxSeeds /\ leads \subseteq Lead
  BY CrmTypes DEF WInv
<1>. DEFINE deals == DealsOf(req[r].leads)
            q == [[req[r] EXCEPT !.pc = "done"] EXCEPT !.deals = deals]
<1>2. req' = [req EXCEPT ![r] = q] /\ UNCHANGED <<now, leads, seeds>>
  BY <1>1 DEF ReadDeals, DashboardRequest
<1>3. req[r].leads \subseteq leads
  BY DEF WInv, ReadsOf
\* A deal is that of a lead that was read: no two leads have one number.
<1>4. deals \subseteq req[r].leads /\ \A l \in deals : l.deal # "none"
  BY <1>3 DEF DealsOf, WInv, LeadsAreTold
<1>. HIDE DEF deals
<1>5. q \in DashboardRequest /\ q.pc = "done" /\ q.leads = req[r].leads /\ q.deals = deals
  BY <1>1, <1>3, <1>4 DEF DashboardRequest
<1>. HIDE DEF q
<1>6. LeadsAreTold'
  BY <1>2, <1>5, StillTold
<1>7. QED
  BY <1>1, <1>2, <1>3, <1>4, <1>5, <1>6, RequestMoves

LEMMA AnsweredStep == ASSUME WInv, NEW r \in Requests, Answered(r) PROVE WInv'
<1>1. /\ req \in [Requests -> DashboardRequest] /\ now \in 0..MaxNow /\ seeds \in 0..MaxSeeds /\ leads \subseteq Lead
  BY CrmTypes DEF WInv
<1>2. req' = [req EXCEPT ![r] = NoRequest] /\ UNCHANGED <<now, leads, seeds>>
  BY DEF Answered
<1>3. LeadsAreTold'
  BY <1>2, NoRequestIs, StillTold
<1>4. QED
  BY <1>1, <1>2, <1>3, NoRequestIs, RequestMoves

LEMMA CrmStays == ASSUME WInv, now' \in 0..MaxNow, UNCHANGED <<leads, seeds, req>> PROVE WInv'
BY DEF WInv, CrmTypeOK, LeadsAreTold, Seeding, ReadsOf

LEMMA CrmStarts == CrmInit => WInv
<1>. SUFFICES ASSUME CrmInit PROVE WInv
  OBVIOUS
<1>1. now = 0 /\ leads = {} /\ seeds = 0 /\ req = [r \in Requests |-> NoRequest]
  BY DEF CrmInit
<1>2. CrmTypeOK
  BY <1>1, NoRequestIs, CrmTypes, DashboardAssumption
<1>3. Seeding = {}
  BY <1>1, NoRequestIs DEF Seeding
<1>4. LeadsAreTold
  BY <1>1, <1>3, FS_EmptySet, DashboardAssumption DEF LeadsAreTold
<1>5. QED
  BY <1>1, <1>2, <1>4, NoRequestIs DEF WInv, ReadsOf

\* Every request, and the clock, keeps the invariant.
LEMMA CrmStep == ASSUME WInv, [CrmNext]_crmVars PROVE WInv'
<1>1. CASE Clock
  <2>1. now' \in 0..MaxNow /\ UNCHANGED <<leads, seeds, req>>
    BY <1>1, CrmTypes, DashboardAssumption DEF Clock, WInv
  <2>2. QED
    BY <2>1, CrmStays
<1>2. ASSUME NEW r \in Requests, CountLeads(r) PROVE WInv'
  BY <1>2, CountLeadsStep
<1>3. ASSUME NEW r \in Requests, SeedDemo(r) PROVE WInv'
  BY <1>3, SeedDemoStep
<1>4. ASSUME NEW r \in Requests, AskDashboard(r) PROVE WInv'
  BY <1>4, AskDashboardStep
<1>5. ASSUME NEW r \in Requests, ReadLeads(r) PROVE WInv'
  BY <1>5, ReadLeadsStep
<1>6. ASSUME NEW r \in Requests, ReadDeals(r) PROVE WInv'
  BY <1>6, ReadDealsStep
<1>7. ASSUME NEW r \in Requests, Answered(r) PROVE WInv'
  BY <1>7, AnsweredStep
<1>8. CASE UNCHANGED crmVars
  <2>1. now' \in 0..MaxNow /\ UNCHANGED <<leads, seeds, req>>
    BY <1>8, CrmTypes DEF crmVars, WInv
  <2>2. QED
    BY <2>1, CrmStays
<1>9. QED
  BY <1>1, <1>2, <1>3, <1>4, <1>5, <1>6, <1>7, <1>8 DEF CrmNext

\* The requests keep WInv, in whatever order they read and seed.
THEOREM CrmInvariant == CrmSpec => []WInv
<1>1. CrmInit => WInv
  BY CrmStarts
<1>2. WInv /\ [CrmNext]_crmVars => WInv'
  BY CrmStep
<1>3. QED
  BY <1>1, <1>2, PTL DEF CrmSpec

\* The state of the dashboard has its type.
THEOREM CrmTypeCorrect == CrmSpec => []CrmTypeOK
<1>1. WInv => CrmTypeOK
  BY DEF WInv
<1>2. QED
  BY <1>1, CrmInvariant, PTL

-----------------------------------------------------------------------------
(* The dashboard: days, and what is counted *)

\* The date of a moment is the day it lies in, and no other.
LEMMA DayOf ==
  ASSUME NEW x \in Int
  PROVE  /\ DateOf(x) \in Int /\ DateOf(x) * Day <= x /\ x < DateOf(x) * Day + Day
         /\ \A q \in Int : q * Day <= x /\ x < q * Day + Day => q = DateOf(x)
<1>1. Day \in Nat /\ Day > 0
  BY DashboardAssumption
<1>. DEFINE D == DateOf(x)
<1>2. D \in Int /\ x = Day * D + (x % Day) /\ x % Day \in 0..(Day - 1)
  BY <1>1 DEF DateOf
<1>3. D * Day <= x /\ x < D * Day + Day
  BY <1>1, <1>2
<1>. HIDE DEF D
<1>4. ASSUME NEW q \in Int, q * Day <= x, x < q * Day + Day PROVE q = D
  <2>1. ASSUME NEW a \in Int, NEW b \in Int, a < b PROVE a * Day + Day <= b * Day
    <3>1. PICK c \in Nat : b = a + 1 + c
      <4>1. b - a - 1 \in Nat /\ b = a + 1 + (b - a - 1)
        BY <2>1
      <4>2. QED
        BY <4>1
    <3>2. b * Day = a * Day + Day + c * Day
      BY <1>1, <3>1
    <3>3. c * Day \in Nat
      BY <1>1
    <3>4. a * Day \in Int
      BY <1>1
    <3>5. QED
      BY <1>1, <3>2, <3>3, <3>4
  <2>2. q * Day \in Int /\ D * Day \in Int
    BY <1>1, <1>2
  <2>3. ~(q < D)
    BY <1>1, <1>2, <1>3, <1>4, <2>1, <2>2
  <2>4. ~(D < q)
    BY <1>1, <1>2, <1>3, <1>4, <2>1, <2>2
  <2>5. QED
    BY <1>2, <2>3, <2>4
<1>5. QED
  BY <1>2, <1>3, <1>4 DEF D

LEMMA LaterDate == ASSUME NEW x \in Int, NEW y \in Int, x <= y PROVE DateOf(x) <= DateOf(y)
<1>1. Day \in Nat /\ Day > 0
  BY DashboardAssumption
<1>2. /\ DateOf(x) \in Int /\ DateOf(x) * Day <= x
      /\ DateOf(y) \in Int /\ y < DateOf(y) * Day + Day
  BY DayOf
<1>3. SUFFICES ASSUME DateOf(y) < DateOf(x) PROVE FALSE
  BY <1>2
<1>4. PICK c \in Nat : DateOf(x) = DateOf(y) + 1 + c
  <2>1. DateOf(x) - DateOf(y) - 1 \in Nat /\ DateOf(x) = DateOf(y) + 1 + (DateOf(x) - DateOf(y) - 1)
    BY <1>2, <1>3
  <2>2. QED
    BY <2>1
<1>5. DateOf(x) * Day = DateOf(y) * Day + Day + c * Day
  BY <1>1, <1>2, <1>4
<1>6. c * Day \in Nat /\ DateOf(y) * Day \in Int
  BY <1>1, <1>2
<1>7. QED
  BY <1>1, <1>2, <1>5, <1>6

LEMMA DaysBefore == ASSUME NEW x \in Int, NEW d \in Int PROVE DateOf(x - d * Day) = DateOf(x) - d
<1>1. Day \in Nat /\ d * Day \in Int
  BY DashboardAssumption
<1>2. DateOf(x) \in Int /\ DateOf(x) * Day <= x /\ x < DateOf(x) * Day + Day
  BY DayOf
<1>3. (DateOf(x) - d) * Day = DateOf(x) * Day - d * Day /\ DateOf(x) * Day \in Int
  BY <1>1, <1>2
<1>4. (DateOf(x) - d) * Day <= x - d * Day /\ x - d * Day < (DateOf(x) - d) * Day + Day
  BY <1>1, <1>2, <1>3
<1>5. DateOf(x) - d \in Int /\ x - d * Day \in Int
  BY <1>1, <1>2
<1>6. QED
  BY <1>4, <1>5, DayOf

\* Parts of a finite set that have nothing in common.
LEMMA Parts ==
  ASSUME NEW S, IsFiniteSet(S), NEW A \in SUBSET S, NEW B \in SUBSET S, A \cap B = {}
  PROVE  /\ Cardinality(A) \in Nat /\ Cardinality(B) \in Nat /\ Cardinality(S) \in Nat
         /\ IsFiniteSet(A) /\ IsFiniteSet(B)
         /\ Cardinality(A \cup B) = Cardinality(A) + Cardinality(B)
         /\ Cardinality(A) + Cardinality(B) <= Cardinality(S)
<1>1. IsFiniteSet(A) /\ IsFiniteSet(B)
  BY FS_Subset
<1>2. Cardinality(A) \in Nat /\ Cardinality(B) \in Nat /\ Cardinality(S) \in Nat
  BY <1>1, FS_CardinalityType
<1>3. Cardinality(A \cup B) = Cardinality(A) + Cardinality(B) - Cardinality(A \cap B)
  BY <1>1, FS_Union
<1>4. Cardinality(A \cap B) = 0
  BY FS_EmptySet
<1>5. Cardinality(A \cup B) = Cardinality(A) + Cardinality(B)
  BY <1>2, <1>3, <1>4
<1>6. Cardinality(A \cup B) <= Cardinality(S)
  <2>1. A \cup B \in SUBSET S
    OBVIOUS
  <2>2. QED
    BY <2>1, FS_Subset
<1>7. QED
  BY <1>1, <1>2, <1>5, <1>6

LEMMA Rest ==
  ASSUME NEW S, IsFiniteSet(S), NEW A \in SUBSET S
  PROVE  /\ Cardinality(A) \in Nat /\ Cardinality(S \ A) \in Nat
         /\ Cardinality(S) = Cardinality(A) + Cardinality(S \ A)
<1>1. S \ A \in SUBSET S /\ A \cap (S \ A) = {} /\ A \cup (S \ A) = S
  OBVIOUS
<1>2. QED
  BY <1>1, Parts

LEMMA Smaller ==
  ASSUME NEW S, IsFiniteSet(S), NEW A \in SUBSET S
  PROVE  Cardinality(A) \in Nat /\ Cardinality(S) \in Nat /\ Cardinality(A) <= Cardinality(S)
BY FS_Subset, FS_CardinalityType

\* The days of the chart add up to the leads that came in them.
LEMMA ChartOf ==
  ASSUME NEW q, IsFiniteSet(q.leads), DateOf(q.started) \in Int, q.days \in Int,
         \A l \in q.leads : DateOf(l.at) \in Int
  PROVE  Bucketed(q) = Cardinality({l \in q.leads : /\ DateOf(q.started) - q.days + 1 <= DateOf(l.at)
                                                    /\ DateOf(l.at) <= DateOf(q.started)})
<1>. DEFINE dates == (DateOf(q.started) - q.days + 1)..DateOf(q.started)
            A == {l \in q.leads : /\ DateOf(q.started) - q.days + 1 <= DateOf(l.at)
                                  /\ DateOf(l.at) <= DateOf(q.started)}
            B == {b \in (DOMAIN Buckets(q)) \X q.leads : b[2] \in Buckets(q)[b[1]]}
            f == [l \in A |-> <<DateOf(l.at), l>>]
<1>1. DOMAIN Buckets(q) = dates /\ \A d \in dates : Buckets(q)[d] = {l \in q.leads : DateOf(l.at) = d}
  BY DEF Buckets
<1>2. \A l \in q.leads : l \in A <=> DateOf(l.at) \in dates
  OBVIOUS
<1>. HIDE DEF dates
<1>3. A \subseteq q.leads
  OBVIOUS
<1>4. \A l \in A : <<DateOf(l.at), l>> \in B
  BY <1>1, <1>2
<1>5. \A b \in B : b[2] \in A /\ b = <<DateOf(b[2].at), b[2]>>
  <2>1. ASSUME NEW b \in B PROVE b[2] \in A /\ b = <<DateOf(b[2].at), b[2]>>
    <3>1. b \in dates \X q.leads /\ b[2] \in {l \in q.leads : DateOf(l.at) = b[1]}
      BY <1>1
    <3>2. b = <<b[1], b[2]>> /\ b[1] \in dates /\ b[2] \in q.leads /\ DateOf(b[2].at) = b[1]
      BY <3>1
    <3>3. QED
      BY <1>2, <3>2
  <2>2. QED
    BY <2>1
<1>. HIDE DEF A, B
<1>6. f \in Bijection(A, B)
  <2>1. f \in [A -> B]
    BY <1>4
  <2>2. \A a, b \in A : f[a] = f[b] => a = b
    OBVIOUS
  <2>3. \A b \in B : \E l \in A : f[l] = b
    BY <1>5
  <2>4. QED
    BY <2>1, <2>2, <2>3 DEF Bijection, Injection, Surjection, IsInjective
<1>7. IsFiniteSet(A)
  BY <1>3, FS_Subset
<1>8. Cardinality(B) = Cardinality(A)
  BY <1>6, <1>7, FS_Bijection DEF ExistsBijection
<1>9. QED
  BY <1>8 DEF Bucketed, A, B

\* What a page has read, in a state that keeps WInv.
LEMMA PageRead ==
  ASSUME WInv, NEW r \in Requests
  PROVE  LET q == req[r]
         IN  /\ IsFiniteSet(q.leads) /\ q.deals \subseteq q.leads
             /\ q.days \in Nat /\ q.days > 0 /\ q.started \in Nat
             /\ \A l \in q.leads : /\ l.at \in Int /\ l.closed \in Int
                                   /\ l.temperature \in Temperatures /\ l.stage \in Stages
             /\ \A l \in q.deals : l.stage = "deal"
<1>. DEFINE q == req[r]
<1>1. q \in DashboardRequest /\ leads \subseteq Lead
  BY CrmTypes DEF WInv
<1>2. q.leads \subseteq leads /\ q.deals \subseteq q.leads /\ \A l \in q.deals : l.deal # "none"
  BY DEF WInv, ReadsOf
<1>3. IsFiniteSet(q.leads)
  BY <1>2, FS_Subset DEF WInv, LeadsAreTold
<1>4. q.days \in Nat /\ q.days > 0 /\ q.started \in Nat
  <2>1. q.days \in Windows \cup {1} /\ q.started \in 0..MaxNow
    BY <1>1 DEF DashboardRequest
  <2>2. \A d \in Windows \cup {1} : d \in Nat /\ d # 0
    BY DashboardAssumption
  <2>3. \A t \in 0..MaxNow : t \in Nat
    BY DashboardAssumption
  <2>. HIDE DEF q
  <2>4. q.days \in Nat /\ q.days # 0 /\ q.started \in Nat
    BY <2>1, <2>2, <2>3
  <2>5. QED
    BY <2>4
<1>5. \A m \in Moments : m \in Int
  BY DashboardAssumption DEF Moments, First
<1>6. \A l \in leads : l.at \in Int /\ l.closed \in Int /\ l.temperature \in Temperatures /\ l.stage \in Stages
  BY <1>1, <1>5 DEF Lead
<1>7. \A l \in q.deals : l.stage = "deal"
  BY <1>2 DEF WInv, LeadsAreTold
<1>. HIDE DEF q
<1>8. QED
  BY <1>2, <1>3, <1>4, <1>6, <1>7 DEF q

\* The leads and the won deals of a window.
Came(q, since, until) == {l \in q.leads : InWindow(l.at, since, until)}
Won(q, since, until) == {l \in q.deals : l.deal = "won" /\ InWindow(l.closed, since, until)}

LEMMA WindowOf ==
  ASSUME NEW q, IsFiniteSet(q.leads), q.deals \subseteq q.leads, NEW since, NEW until,
         \A l \in q.leads : l.temperature \in Temperatures
  PROVE  LET k == Kpis(q, since, until)
         IN  /\ k.total = Cardinality(Came(q, since, until)) /\ k.won = Cardinality(Won(q, since, until))
             /\ k.total = k.hot + k.cold /\ k.today <= k.total
<1>. DEFINE came == Came(q, since, until)
            hot == {l \in came : l.temperature = "hot"}
            cold == {l \in came : l.temperature = "cold"}
            today == {l \in came : DateOf(l.at) = DateOf(until)}
            k == Kpis(q, since, until)
<1>1. /\ k.total = Cardinality(came) /\ k.won = Cardinality(Won(q, since, until))
      /\ k.hot = Cardinality(hot) /\ k.cold = Cardinality(cold) /\ k.today = Cardinality(today)
  BY DEF Kpis, Count, Came, Won
<1>2. IsFiniteSet(came)
  <2>1. came \in SUBSET q.leads
    BY DEF Came
  <2>2. QED
    BY <2>1, FS_Subset
<1>3. came = hot \cup cold /\ hot \cap cold = {} /\ hot \in SUBSET came /\ cold \in SUBSET came
      /\ today \in SUBSET came
  BY DEF Came, Temperatures
<1>. HIDE DEF hot, cold, today, came, k
<1>4. Cardinality(came) = Cardinality(hot) + Cardinality(cold)
  BY <1>2, <1>3, Parts
<1>5. Cardinality(today) <= Cardinality(came)
  BY <1>2, <1>3, Smaller
<1>6. QED
  BY <1>1, <1>4, <1>5 DEF k, came

\* The numbers of a page of the dashboard agree, whatever was seeded between its reads
\* (_compute_kpis, _bucket_leads_by_day, the funnel and _campaigns_roi).
THEOREM PagesAddUp == CrmSpec => []DashboardAddsUp
<1>1. WInv => DashboardAddsUp
  <2>. SUFFICES ASSUME WInv, NEW r \in Requests
                PROVE  LET q == req[r]
                       IN  /\ \A k \in {Current(q), Previous(q)} : k.total = k.hot + k.cold /\ k.today <= k.total
                           /\ Current(q).total + Previous(q).total <= Cardinality(q.leads)
                           /\ Current(q).won + Previous(q).won <= Funnel(q)["deal"]
                           /\ Campaign(q).won <= Campaign(q).leads
                           /\ Campaign(q).leads <= Funnel(q)["new"] + Funnel(q)["deal"]
                           /\ LET early == Count(q.leads, LAMBDA l : /\ DateOf(l.at) = DateOf(q.started) - q.days
                                                                     /\ l.at >= q.started - q.days * Day)
                                  late == Count(q.leads, LAMBDA l : /\ l.at >= q.started
                                                                    /\ DateOf(l.at) = DateOf(q.started))
                              IN Bucketed(q) - late = Current(q).total - early
    BY DEF DashboardAddsUp
  <2>. DEFINE q == req[r]
              start == q.started - q.days * Day
              before == q.started - 2 * q.days * Day
  <2>1. /\ IsFiniteSet(q.leads) /\ q.deals \subseteq q.leads
        /\ q.days \in Nat /\ q.days > 0 /\ q.started \in Nat
        /\ \A l \in q.leads : /\ l.at \in Int /\ l.closed \in Int
                              /\ l.temperature \in Temperatures /\ l.stage \in Stages
        /\ \A l \in q.deals : l.stage = "deal"
    BY PageRead
  <2>2. Current(q) = Kpis(q, start, q.started) /\ Previous(q) = Kpis(q, before, start)
    BY DEF Current, Previous
  <2>3. start \in Int /\ before \in Int
    <3>1. Day \in Int /\ q.days \in Int /\ q.started \in Int
      BY <2>1, DashboardAssumption
    <3>2. 2 * q.days \in Int
      BY <3>1
    <3>3. q.days * Day \in Int /\ (2 * q.days) * Day \in Int
      BY <3>1, <3>2
    <3>. HIDE DEF q
    <3>4. QED
      BY <3>1, <3>3
  <2>4. /\ \A k \in {Current(q), Previous(q)} : k.total = k.hot + k.cold /\ k.today <= k.total
        /\ Current(q).total = Cardinality(Came(q, start, q.started))
        /\ Previous(q).total = Cardinality(Came(q, before, start))
        /\ Current(q).won = Cardinality(Won(q, start, q.started))
        /\ Previous(q).won = Cardinality(Won(q, before, start))
    BY <2>1, <2>2, WindowOf
  <2>. DEFINE staged(s) == {l \in q.leads : l.stage = s}
              campaign == {l \in q.leads : l.campaign}
              wonThere == {l \in q.deals : l.deal = "won" /\ l.campaign}
  <2>5. /\ Funnel(q)["deal"] = Cardinality(staged("deal")) /\ Funnel(q)["new"] = Cardinality(staged("new"))
        /\ Campaign(q).leads = Cardinality(campaign) /\ Campaign(q).won = Cardinality(wonThere)
    BY DEF Funnel, Campaign, Count, Stages
  <2>6. Bucketed(q) = Cardinality({l \in q.leads : /\ DateOf(q.started) - q.days + 1 <= DateOf(l.at)
                                                   /\ DateOf(l.at) <= DateOf(q.started)})
    <3>1. DateOf(q.started) \in Int /\ q.days \in Int /\ \A l \in q.leads : DateOf(l.at) \in Int
      BY <2>1, DayOf
    <3>. HIDE DEF q
    <3>2. QED
      BY <2>1, <3>1, ChartOf
  <2>. HIDE DEF q, start, before
  <2>7. Current(q).total + Previous(q).total <= Cardinality(q.leads)
    <3>. DEFINE A == Came(q, start, q.started)
                B == Came(q, before, start)
    <3>1. A \in SUBSET q.leads /\ B \in SUBSET q.leads
      BY DEF Came
    <3>2. A \cap B = {}
      BY <2>1, <2>3 DEF Came, InWindow
    <3>. HIDE DEF A, B
    <3>3. Cardinality(A) + Cardinality(B) <= Cardinality(q.leads)
      BY <2>1, <3>1, <3>2, Parts
    <3>4. QED
      BY <2>4, <3>3 DEF A, B
  <2>8. Current(q).won + Previous(q).won <= Funnel(q)["deal"]
    <3>. DEFINE A == Won(q, start, q.started)
                B == Won(q, before, start)
                S == staged("deal")
    <3>1. A \in SUBSET S /\ B \in SUBSET S
      BY <2>1 DEF Won
    <3>2. A \cap B = {}
      BY <2>1, <2>3 DEF Won, InWindow
    <3>3. S \in SUBSET q.leads
      OBVIOUS
    <3>. HIDE DEF A, B, S
    <3>4. IsFiniteSet(S)
      BY <2>1, <3>3, FS_Subset
    <3>5. Cardinality(A) + Cardinality(B) <= Cardinality(S)
      BY <3>1, <3>2, <3>4, Parts
    <3>6. QED
      BY <2>4, <2>5, <3>5 DEF A, B, S
  <2>9. Campaign(q).won <= Campaign(q).leads /\ Campaign(q).leads <= Funnel(q)["new"] + Funnel(q)["deal"]
    <3>. DEFINE N == staged("new")
                S == staged("deal")
    <3>1. /\ wonThere \in SUBSET campaign /\ campaign \in SUBSET q.leads
          /\ N \in SUBSET q.leads /\ S \in SUBSET q.leads /\ N \cap S = {} /\ N \cup S = q.leads
      BY <2>1 DEF Stages
    <3>. HIDE DEF N, S, campaign, wonThere
    <3>2. IsFiniteSet(campaign)
      BY <2>1, <3>1, FS_Subset
    <3>3. Cardinality(wonThere) <= Cardinality(campaign)
      BY <3>1, <3>2, Smaller
    <3>4. Cardinality(campaign) <= Cardinality(q.leads)
      BY <2>1, <3>1, Smaller
    <3>5. Cardinality(q.leads) = Cardinality(N) + Cardinality(S)
      BY <2>1, <3>1, Parts
    <3>6. QED
      BY <2>5, <3>3, <3>4, <3>5 DEF N, S
\* The chart and the window differ by the leads that came as the page was read, and by
\* the part of a day that only the window has.
  <2>10. LET early == Count(q.leads, LAMBDA l : /\ DateOf(l.at) = DateOf(q.started) - q.days
                                                /\ l.at >= q.started - q.days * Day)
             late == Count(q.leads, LAMBDA l : l.at >= q.started /\ DateOf(l.at) = DateOf(q.started))
         IN  Bucketed(q) - late = Current(q).total - early
    <3>. DEFINE A == {l \in q.leads : /\ DateOf(q.started) - q.days + 1 <= DateOf(l.at)
                                      /\ DateOf(l.at) <= DateOf(q.started)}
                B == Came(q, start, q.started)
                E == {l \in q.leads : DateOf(l.at) = DateOf(q.started) - q.days /\ l.at >= q.started - q.days * Day}
                L == {l \in q.leads : l.at >= q.started /\ DateOf(l.at) = DateOf(q.started)}
                D == DateOf(q.started)
    <3>1. D \in Int /\ DateOf(start) = D - q.days
      <4>1. q.started \in Int /\ q.days \in Int
        BY <2>1
      <4>2. QED
        BY <4>1, DayOf, DaysBefore DEF start
    <3>2. start = q.started - q.days * Day
      BY DEF start
    <3>3. ASSUME NEW l \in q.leads
          PROVE  /\ DateOf(l.at) \in Int
                 /\ l.at >= start => DateOf(l.at) >= D - q.days
                 /\ DateOf(l.at) > D - q.days => l.at >= start
                 /\ l.at < q.started => DateOf(l.at) <= D
                 /\ l.at >= q.started => DateOf(l.at) >= D
      <4>1. l.at \in Int /\ DateOf(l.at) \in Int
        BY <2>1, DayOf
      <4>2. start <= l.at => D - q.days <= DateOf(l.at)
        BY <2>3, <3>1, <4>1, LaterDate
      <4>3. l.at <= start => DateOf(l.at) <= D - q.days
        BY <2>3, <3>1, <4>1, LaterDate
      <4>4. l.at <= q.started => DateOf(l.at) <= D
        BY <2>1, <4>1, LaterDate
      <4>5. q.started <= l.at => D <= DateOf(l.at)
        BY <2>1, <4>1, LaterDate
      <4>. HIDE DEF D
      <4>6. QED
        BY <2>1, <2>3, <3>1, <4>1, <4>2, <4>3, <4>4, <4>5
    <3>4. ASSUME NEW l \in q.leads PROVE l \in L => l \in A
      BY <2>1, <3>1, <3>3
    <3>5. ASSUME NEW l \in q.leads PROVE l \in E => l \in B
      <4>1. l.at \in Int /\ DateOf(l.at) \in Int
        BY <2>1, <3>3
      <4>2. SUFFICES ASSUME DateOf(l.at) = D - q.days, l.at >= start PROVE l.at < q.started
        BY <2>1, <2>3, <3>2, <4>1 DEF Came, InWindow
      <4>. HIDE DEF D
      <4>3. QED
        BY <2>1, <3>1, <3>3, <4>1, <4>2
    <3>6. ASSUME NEW l \in q.leads PROVE l \in A \ L <=> l \in B \ E
      <4>1. l.at \in Int /\ DateOf(l.at) \in Int
        BY <2>1, <3>3
      <4>2. l \in A \ L <=> D - q.days + 1 <= DateOf(l.at) /\ DateOf(l.at) <= D /\ ~(l.at >= q.started /\ DateOf(l.at) = D)
        OBVIOUS
      <4>3. l \in B \ E <=> start <= l.at /\ l.at < q.started /\ ~(DateOf(l.at) = D - q.days /\ l.at >= start)
        BY <3>2 DEF Came, InWindow
      <4>. HIDE DEF A, B, E, L, D
      <4>4. QED
        BY <2>1, <2>3, <3>1, <3>3, <4>1, <4>2, <4>3
    <3>7. /\ A \in SUBSET q.leads /\ B \in SUBSET q.leads /\ L \in SUBSET A /\ E \in SUBSET B
          /\ A \ L = B \ E
      <4>1. A \in SUBSET q.leads /\ B \in SUBSET q.leads /\ L \in SUBSET q.leads /\ E \in SUBSET q.leads
        BY DEF Came
      <4>. HIDE DEF A, B, E, L
      <4>2. QED
        BY <3>4, <3>5, <3>6, <4>1
    <3>8. Bucketed(q) = Cardinality(A) /\ Current(q).total = Cardinality(B)
      BY <2>4, <2>6
    <3>9. /\ Count(q.leads, LAMBDA l : l.at >= q.started /\ DateOf(l.at) = DateOf(q.started)) = Cardinality(L)
          /\ Count(q.leads, LAMBDA l : /\ DateOf(l.at) = DateOf(q.started) - q.days
                                       /\ l.at >= q.started - q.days * Day) = Cardinality(E)
      BY DEF Count
    <3>. HIDE DEF A, B, E, L
    <3>10. IsFiniteSet(A) /\ IsFiniteSet(B)
      BY <2>1, <3>7, FS_Subset
    <3>11. /\ Cardinality(A) = Cardinality(L) + Cardinality(A \ L)
           /\ Cardinality(A \ L) \in Nat /\ Cardinality(L) \in Nat
      BY <3>7, <3>10, Rest
    <3>12. /\ Cardinality(B) = Cardinality(E) + Cardinality(B \ E)
           /\ Cardinality(B \ E) \in Nat /\ Cardinality(E) \in Nat
      BY <3>7, <3>10, Rest
    <3>13. Cardinality(A) - Cardinality(L) = Cardinality(B) - Cardinality(E)
      <4>1. Cardinality(A \ L) = Cardinality(B \ E)
        BY <3>7
      <4>2. QED
        BY <3>11, <3>12, <4>1
    <3>14. QED
      BY <3>8, <3>9, <3>13
  <2>11. QED
    BY <2>4, <2>7, <2>8, <2>9, <2>10 DEF q
<1>2. QED
  BY <1>1, CrmInvariant, PTL

-----------------------------------------------------------------------------
(* All the services, side by side *)

MCInv == SInv /\ VInv /\ CInv /\ IInv /\ WInv /\ BInv /\ TimingInv

\* A step of one service leaves the state of the others alone.
LEMMA MCStep == ASSUME MCInv, [MCNext]_mcVars PROVE MCInv'
<1>1. SInv'
  BY StylesStep DEF MCInv, MCNext, mcVars
<1>2. VInv'
  BY VaultStep DEF MCInv, MCNext, mcVars
<1>3. CInv'
  BY CostsStep DEF MCInv, MCNext, mcVars
<1>4. IInv'
  BY RenderStep DEF MCInv, MCNext, mcVars
<1>5. WInv'
  BY CrmStep DEF MCInv, MCNext, mcVars
<1>6. BInv'
  BY BotStep DEF MCInv, MCNext, mcVars
<1>7. TimingInv'
  BY TimingStep DEF MCInv, MCNext, mcVars
<1>8. QED
  BY <1>1, <1>2, <1>3, <1>4, <1>5, <1>6, <1>7 DEF MCInv

\* Whichever service moves, every row, request, queue, message and screen stays within its
\* type: the catalogue, the index, the bookings, the render, the dashboard, the chat and
\* the time line disturb nothing of one another's.
THEOREM ServicesTypeCorrect == MCSpec => []TypeOK
<1>1. MCInit => MCInv
  BY StylesInitInv, VaultStarts, CostsInitInv, RenderInitInv, CrmStarts, BotInitInv, TimingInitInv
     DEF MCInit, MCInv
<1>2. MCInv /\ [MCNext]_mcVars => MCInv'
  BY MCStep
<1>3. MCInv => TypeOK
  BY TimingTypes DEF MCInv, SInv, VInv, CInv, IInv, WInv, BInv, TypeOK
<1>4. QED
  BY <1>1, <1>2, <1>3, PTL DEF MCSpec

=============================================================================
