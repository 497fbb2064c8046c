------------------------------- MODULE QALoop -------------------------------
(***************************************************************************)
(* The writer-critics loop of a content brief: the writer node generates a *)
(* script, three critics review it in parallel, collect keeps the best one *)
(* and route_after_critics either loops or leaves for asset_gen            *)
(* (graphs/day_subgraph.py, graphs/nodes/writer.py, critics.py).           *)
(*                                                                         *)
(* The state is that of the LangGraph thread (DayState) and the script     *)
(* rows of Postgres. A node commits its row and only then is its result    *)
(* kept in the thread, so that the worker can stop between the two; arq    *)
(* then runs the brief again, on a thread that still holds what an earlier *)
(* attempt had kept.                                                       *)
(***************************************************************************)
EXTENDS Integers, Sequences, FiniteSets

CONSTANTS
  RawScores,    \* the scores critics answer with, rounded; LLMs need not keep to 0..10
  RawHooks,     \* the hook the hook critic answers with
  NHooks,       \* hooks per script
  PassScore,    \* critics.PASS_SCORE
  MaxIter,      \* critics.MAX_ITER
  MaxAttempts   \* bound: how many times arq runs the brief

ASSUME QALoopAssumption ==
  /\ RawScores \subseteq Int /\ RawHooks \subseteq Int
  /\ NHooks \in Nat \ {0} /\ PassScore \in 0..10
  /\ MaxIter \in Nat \ {0} /\ MaxAttempts \in Nat \ {0}

VARIABLES
  at,         \* the node about to run, or the one whose row is committed and not yet kept
  attempt,    \* how many times the brief has been started
  made,       \* how many scripts the writer has generated: the latest is number made
  iteration,  \* DayState.iteration
  version,    \* DayState.script: the number of the script in hand
  scriptId,   \* DayState.script_id: an index of rows, or 0
  reviews,    \* DayState.reviews
  history,    \* DayState.review_history, one entry per collect
  best,       \* DayState.best_script, best_score and best_hook_idx
  ready,      \* DayState.script_ready
  warned,     \* DayState.errors holds collect's warning
  rows        \* the script rows this brief has inserted

thread == <<iteration, version, scriptId, reviews, history, best, ready, warned>>
vars == <<at, attempt, made, thread, rows>>

\* day_subgraph.CRITIC_NODES
Critics == {"uz", "brand", "hook"}

Places == {"queued", "writer", "written", "critics", "collected", "asset_gen", "failed"}

Scores == 0..10
HookIdx == 0..(NHooks - 1)

Review == [critic: Critics, version: Nat, score: Scores, hook: HookIdx]
Reviewed == [version: Nat, score: Scores, hook: HookIdx]
NoBest == [version |-> 0, score |-> -1, hook |-> 0]
NoScore == -1
Row == [version: Nat, score: Scores \cup {NoScore}, hook: HookIdx, status: {"draft", "ready"}]

TypeOK ==
  /\ at \in Places
  /\ attempt \in 0..MaxAttempts
  /\ made \in Nat
  /\ iteration \in 0..MaxIter
  /\ version \in Nat
  /\ rows \in Seq(Row)
  /\ scriptId \in 0..Len(rows)
  /\ reviews \in SUBSET Review
  /\ history \in Seq(Reviewed)
  /\ best \in Reviewed \cup {NoBest}
  /\ ready \in BOOLEAN
  /\ warned \in BOOLEAN

Init ==
  /\ at = "queued" /\ attempt = 0 /\ made = 0
  /\ iteration = 0 /\ version = 0 /\ scriptId = 0
  /\ reviews = {} /\ history = <<>> /\ best = NoBest
  /\ ready = FALSE /\ warned = FALSE
  /\ rows = <<>>

-----------------------------------------------------------------------------
(* Scores *)

Clamp(lo, hi, x) == IF x < lo THEN lo ELSE IF x > hi THEN hi ELSE x

\* min over the scores of a set of reviews (0 when there is none)
MinScore(rs) ==
  IF rs = {} THEN 0
  ELSE CHOOSE m \in Scores : (\E r \in rs : r.score = m) /\ (\A r \in rs : m <= r.score)

\* the hook critic's choice of hook
HookOf(rs) ==
  LET hooks == {r.hook : r \in {q \in rs : q.critic = "hook"}} IN
  IF hooks = {} THEN 0 ELSE CHOOSE h \in hooks : TRUE

Passed == reviews # {} /\ MinScore(reviews) >= PassScore

\* (mutants) the last version always replaces the best one; it does so on a tie
BestNowIsLast == [version |-> version, score |-> MinScore(reviews), hook |-> HookOf(reviews)]
BestNowOnTie ==
  IF MinScore(reviews) >= best.score THEN BestNowIsLast ELSE best

\* collect's best version: the one in hand replaces it when it scores higher.
BestNow ==
  IF MinScore(reviews) > best.score \/ best.version = 0
  THEN [version |-> version, score |-> MinScore(reviews), hook |-> HookOf(reviews)]
  ELSE best

Final == Passed \/ iteration >= MaxIter

\* (mutants) the router allows one iteration too many; it wants more than PASS_SCORE
RouteLate ==
  IF (reviews # {} /\ MinScore(reviews) >= PassScore) \/ iteration > MaxIter
  THEN "asset_gen" ELSE "writer"
RouteAbovePass ==
  IF (reviews # {} /\ MinScore(reviews) > PassScore) \/ iteration >= MaxIter
  THEN "asset_gen" ELSE "writer"

RouteAfterCritics ==
  IF (reviews # {} /\ MinScore(reviews) >= PassScore) \/ iteration >= MaxIter
  THEN "asset_gen" ELSE "writer"

-----------------------------------------------------------------------------
(* The nodes *)

\* (mutant) a brief that was cut off is not run again
StartOnce ==
  /\ at = "queued" /\ attempt = 0
  /\ attempt' = 1
  /\ at' = "writer"
  /\ iteration' = 0
  /\ UNCHANGED <<made, version, scriptId, reviews, history, best, ready, warned, rows>>

\* run_brief: a fresh input sets the iteration and nothing else of the loop.
Start ==
  /\ at = "queued"
  /\ attempt < MaxAttempts
  /\ attempt' = attempt + 1
  /\ at' = "writer"
  /\ iteration' = 0
  /\ UNCHANGED <<made, version, scriptId, reviews, history, best, ready, warned, rows>>

\* (mutant) the writer inserts a row in every iteration
CommitNewRow ==
  /\ at = "writer"
  /\ made' = made + 1
  /\ rows' = Append(rows, [version |-> made + 1, score |-> NoScore, hook |-> 0, status |-> "draft"])
  /\ at' = "written"
  /\ UNCHANGED <<attempt, thread>>

\* writer: the new script goes to the thread's row, or to a new one ...
CommitScript ==
  /\ at = "writer"
  /\ made' = made + 1
  /\ LET row(score) == [version |-> made + 1, score |-> score, hook |-> 0, status |-> "draft"] IN
     rows' = IF scriptId = 0 THEN Append(rows, row(NoScore))
             ELSE [rows EXCEPT ![scriptId] = row(@.score)]
  /\ at' = "written"
  /\ UNCHANGED <<attempt, thread>>

\* (mutant) the reviews of the last script stay
KeepScriptAndReviews ==
  /\ at = "written"
  /\ version' = made
  /\ scriptId' = IF scriptId = 0 THEN Len(rows) ELSE scriptId
  /\ iteration' = iteration + 1
  /\ ready' = FALSE
  /\ at' = "critics"
  /\ UNCHANGED <<attempt, made, reviews, history, best, warned, rows>>

\* ... and then to the thread, where the last script's reviews are dropped.
KeepScript ==
  /\ at = "written"
  /\ version' = made
  /\ scriptId' = IF scriptId = 0 THEN Len(rows) ELSE scriptId
  /\ iteration' = iteration + 1
  /\ reviews' = {}
  /\ ready' = FALSE
  /\ at' = "critics"
  /\ UNCHANGED <<attempt, made, history, best, warned, rows>>

\* A critic that has not answered yet reviews the script in hand.
Critic(c) ==
  /\ at = "critics"
  /\ \A r \in reviews : r.critic # c
  /\ \E score \in RawScores, hook \in RawHooks :
       reviews' = reviews \cup
         {[critic |-> c, version |-> version, score |-> Clamp(0, 10, score),
           hook |-> IF c = "hook" THEN Clamp(0, NHooks - 1, hook) ELSE 0]}
  /\ UNCHANGED <<at, attempt, made, iteration, version, scriptId, history, best, ready, warned, rows>>

\* (mutant) the row keeps the last script with the best one's score and hook
CommitReviewsOfLast ==
  /\ at = "critics"
  /\ \A c \in Critics : \E r \in reviews : r.critic = c
  /\ rows' = [rows EXCEPT ![scriptId] =
                IF Final THEN [@ EXCEPT !.score = BestNow.score, !.hook = BestNow.hook, !.status = "ready"]
                ELSE [@ EXCEPT !.score = MinScore(reviews)]]
  /\ at' = "collected"
  /\ UNCHANGED <<attempt, made, thread>>

\* collect, once all three have answered: the row gets the score, and the best
\* version if the loop ends here ...
CommitReviews ==
  /\ at = "critics"
  /\ \A c \in Critics : \E r \in reviews : r.critic = c
  /\ rows' = [rows EXCEPT ![scriptId] =
                IF Final THEN [version |-> BestNow.version, score |-> BestNow.score,
                               hook |-> BestNow.hook, status |-> "ready"]
                ELSE [@ EXCEPT !.score = MinScore(reviews)]]
  /\ at' = "collected"
  /\ UNCHANGED <<attempt, made, thread>>

\* ... and the thread the best version; the router reads the same reviews.
KeepReviews ==
  /\ at = "collected"
  /\ history' = Append(history, [version |-> version, score |-> MinScore(reviews),
                                 hook |-> HookOf(reviews)])
  /\ best' = BestNow
  /\ version' = IF Final THEN BestNow.version ELSE version
  /\ ready' = (ready \/ Final)
  /\ warned' = (warned \/ (Final /\ ~Passed))
  /\ at' = RouteAfterCritics
  /\ UNCHANGED <<attempt, made, iteration, scriptId, reviews, rows>>

\* The writer or a critic raises (no valid JSON, no provider): the job fails.
NodeFails ==
  /\ at \in {"writer", "critics"}
  /\ at' = "failed"
  /\ UNCHANGED <<attempt, made, thread, rows>>

\* The worker stops, here or in the nodes that follow: arq runs the brief again.
Crash ==
  /\ at \notin {"queued", "failed"}
  /\ attempt < MaxAttempts
  /\ at' = "queued"
  /\ UNCHANGED <<attempt, made, thread, rows>>

-----------------------------------------------------------------------------
Work == Start \/ CommitScript \/ KeepScript \/ (\E c \in Critics : Critic(c))
        \/ CommitReviews \/ KeepReviews

Next == Work \/ NodeFails \/ Crash

Spec == Init /\ [][Next]_vars

\* arq starts what is queued and the graph goes on to its next node.
FairSpec == Spec /\ WF_vars(Work)

-----------------------------------------------------------------------------
(* Properties *)

\* The critics' reviews that collect and the router use are those of the script
\* in hand, one per critic: merge_reviews and the join edge mix no iterations.
ReviewsAreOfVersionInHand ==
  at \in {"critics", "collected"} =>
    /\ \A r \in reviews : r.version = version
    /\ \A r, q \in reviews : r.critic = q.critic => r = q
    /\ at = "collected" => {r.critic : r \in reviews} = Critics

\* No script that was ever collected scored better than the best one kept, over
\* every attempt of the brief.
BestIsBest ==
  \A i \in 1..Len(history) : history[i].score <= best.score

\* What goes on to the video is one and the same reviewed version in the thread
\* and in the row: body, score and hook of the best script, marked ready.
ReadyRowIsBest ==
  at = "asset_gen" =>
    /\ ready
    /\ version = best.version
    /\ rows[scriptId] = [version |-> best.version, score |-> best.score,
                         hook |-> best.hook, status |-> "ready"]
    /\ \E i \in 1..Len(history) : history[i] = best

\* A brief has one ready script at most: what a crash leaves behind are drafts
\* that the thread does not know of, fewer than there were attempts.
OrphansAreDrafts ==
  /\ \A i \in 1..Len(rows) : i # scriptId => rows[i].status = "draft"
  /\ at = "asset_gen" => Len(rows) <= attempt

\* The loop does not go on past a script that passes.
StopsAtFirstPass ==
  [][at = "collected" /\ at' = "writer" =>
       \E r \in reviews : r.score < PassScore /\ r.version = version]_vars

\* Whatever the critics say, the loop ends.
LoopEnds == at = "writer" ~> at \in {"asset_gen", "failed"}

\* The loop implements the selection of the earliest best script.
Choice == INSTANCE Selection WITH
  Candidate <- Reviewed, NoChoice <- NoBest,
  considered <- history, chosen <- IF ready THEN best ELSE NoBest

Selects == Choice!Spec
=============================================================================
