---------------------------- MODULE QALoopProofs ----------------------------
(***************************************************************************)
(* Proofs about the writer-critics loop, for every PASS_SCORE, MAX_ITER,   *)
(* number of hooks, number of attempts and every answer of the critics.    *)
(***************************************************************************)
EXTENDS QALoop, SequenceTheorems, TLAPS

-----------------------------------------------------------------------------
(* The operators on reviews *)

\* One review of each critic, all of the same version: what collect finds.
Complete(rs, v) ==
  /\ rs \subseteq Review
  /\ \A r \in rs : r.version = v
  /\ \A r, q \in rs : r.critic = q.critic => r = q
  /\ {r.critic : r \in rs} = Critics

\* A clamped answer is in range.
LEMMA ClampInRange ==
  ASSUME NEW lo \in Int, NEW hi \in Int, lo <= hi, NEW x \in Int
  PROVE  Clamp(lo, hi, x) \in lo..hi
BY DEF Clamp

\* min_score of three reviews is a score, one of them has it and none is below.
LEMMA MinScoreOfComplete ==
  ASSUME NEW rs, NEW v, Complete(rs, v)
  PROVE  /\ rs # {}
         /\ MinScore(rs) \in Scores
         /\ \E r \in rs : r.score = MinScore(rs)
         /\ \A r \in rs : MinScore(rs) <= r.score
<1>1. \A c \in Critics : \E r \in rs : r.critic = c
  BY DEF Complete
<1>2. PICK a \in rs : a.critic = "uz"
  BY <1>1 DEF Critics
<1>3. PICK b \in rs : b.critic = "brand"
  BY <1>1 DEF Critics
<1>4. PICK c \in rs : c.critic = "hook"
  BY <1>1 DEF Critics
<1>5. \A r \in rs : r = a \/ r = b \/ r = c
  BY <1>2, <1>3, <1>4 DEF Complete, Critics, Review
<1>6. a.score \in 0..10 /\ b.score \in 0..10 /\ c.score \in 0..10
  BY <1>2, <1>3, <1>4 DEF Complete, Review, Scores
<1>7. \E m \in Scores : (\E r \in rs : r.score = m) /\ (\A r \in rs : m <= r.score)
  <2>1. CASE a.score <= b.score /\ a.score <= c.score
    BY <2>1, <1>2, <1>5, <1>6 DEF Scores
  <2>2. CASE b.score <= a.score /\ b.score <= c.score
    BY <2>2, <1>3, <1>5, <1>6 DEF Scores
  <2>3. CASE c.score <= a.score /\ c.score <= b.score
    BY <2>3, <1>4, <1>5, <1>6 DEF Scores
  <2>4. QED
    BY <2>1, <2>2, <2>3, <1>6
<1>8. QED
  BY <1>2, <1>7 DEF MinScore

\* The hook chosen is an index of a hook.
LEMMA HookOfIsHook ==
  ASSUME NEW rs, rs \subseteq Review
  PROVE  HookOf(rs) \in HookIdx
<1> DEFINE hooks == {r.hook : r \in {q \in rs : q.critic = "hook"}}
<1>1. hooks \subseteq HookIdx
  BY DEF Review
<1>2. 0 \in HookIdx
  BY QALoopAssumption DEF HookIdx
<1>3. CASE hooks = {}
  BY <1>2, <1>3 DEF HookOf
<1>4. CASE hooks # {}
  BY <1>1, <1>4 DEF HookOf
<1>5. QED
  BY <1>3, <1>4

-----------------------------------------------------------------------------
(* The inductive invariant *)

\* The thread and its row exist from the first script on; the router comes back
\* to the writer only with an iteration left.
Progress ==
  /\ at \in {"writer", "written"} => iteration < MaxIter
  /\ at = "written" => made # 0 /\ rows # <<>>
  /\ at \in {"critics", "collected", "asset_gen"} => scriptId # 0 /\ version # 0
  /\ at \in {"critics", "collected"} => ~ready

\* The best script is the earliest of the best in the history.
BestInHistory ==
  /\ history = <<>> => best = NoBest
  /\ history # <<>> => \E i \in 1..Len(history) :
       best = history[i] /\ Choice!IsEarliestBest(i, history)
  /\ \A i \in 1..Len(history) : history[i].version # 0

\* Between commit and keep, the row holds what the thread is about to get.
CommittedRow ==
  /\ at = "collected" /\ Final =>
       rows[scriptId] = [version |-> BestNow.version, score |-> BestNow.score,
                         hook |-> BestNow.hook, status |-> "ready"]

\* A row is inserted once per attempt at most, and only while the thread has none.
RowsPerAttempt ==
  /\ Len(rows) <= attempt
  /\ at = "writer" /\ scriptId = 0 => Len(rows) < attempt

IInv ==
  /\ TypeOK
  /\ Progress
  /\ ReviewsAreOfVersionInHand
  /\ BestInHistory
  /\ CommittedRow
  /\ ReadyRowIsBest
  /\ OrphansAreDrafts
  /\ RowsPerAttempt

-----------------------------------------------------------------------------
(* Each step preserves it *)

\* The types of what a Review step adds.
LEMMA ReviewIsReview ==
  ASSUME TypeOK, NEW c \in Critics, NEW score \in RawScores, NEW hook \in RawHooks
  PROVE  [critic |-> c, version |-> version, score |-> Clamp(0, 10, score),
          hook |-> IF c = "hook" THEN Clamp(0, NHooks - 1, hook) ELSE 0] \in Review
<1>1. score \in Int /\ hook \in Int /\ NHooks - 1 \in Int /\ 0 <= NHooks - 1
  BY QALoopAssumption
<1>2. Clamp(0, 10, score) \in Scores
  BY <1>1 DEF Clamp, Scores
<1>3. Clamp(0, NHooks - 1, hook) \in HookIdx
  BY <1>1, ClampInRange DEF HookIdx
<1>4. 0 \in HookIdx
  BY <1>1 DEF HookIdx
<1>5. QED
  BY <1>2, <1>3, <1>4 DEF Review, TypeOK

\* What collect reads when all three critics have answered, and what it makes of it.
LEMMA CollectTypes ==
  ASSUME IInv, at \in {"critics", "collected"},
         \A c \in Critics : \E r \in reviews : r.critic = c
  PROVE  /\ Complete(reviews, version)
         /\ MinScore(reviews) \in Scores
         /\ HookOf(reviews) \in HookIdx
         /\ BestNow \in Reviewed
         /\ BestNow.version # 0
<1>1. {r.critic : r \in reviews} = Critics
  BY DEF IInv, TypeOK, Review
<1>2. Complete(reviews, version)
  BY <1>1 DEF Complete, IInv, TypeOK, ReviewsAreOfVersionInHand
<1>3. MinScore(reviews) \in Scores /\ HookOf(reviews) \in HookIdx
  BY <1>2, MinScoreOfComplete, HookOfIsHook DEF Complete
<1>4. version \in Nat /\ version # 0
  BY DEF IInv, TypeOK, Progress
<1>5. best \in Reviewed \cup {NoBest}
  BY DEF IInv, TypeOK
<1>6. BestNow \in Reviewed /\ BestNow.version # 0
  BY <1>3, <1>4, <1>5 DEF BestNow, Reviewed, NoBest
<1>7. QED
  BY <1>2, <1>3, <1>6

LEMMA InitIInv == Init => IInv
<1> SUFFICES ASSUME Init PROVE IInv
  OBVIOUS
<1> USE DEF Init
<1>1. TypeOK
  <2>1. rows \in Seq(Row) /\ Len(rows) = 0 /\ history \in Seq(Reviewed)
    BY EmptySeq
  <2>2. at \in Places /\ attempt \in 0..MaxAttempts /\ iteration \in 0..MaxIter
    BY QALoopAssumption DEF Places
  <2>3. ready \in BOOLEAN /\ warned \in BOOLEAN
    OBVIOUS
  <2>4. best = NoBest /\ version \in Nat /\ made \in Nat /\ scriptId \in 0..Len(rows)
    BY <2>1
  <2>5. reviews \in SUBSET Review
    OBVIOUS
  <2>6. QED
    BY <2>1, <2>2, <2>3, <2>4, <2>5 DEF TypeOK
<1>2. Progress /\ ReviewsAreOfVersionInHand /\ CommittedRow /\ ReadyRowIsBest
  BY DEF Progress, ReviewsAreOfVersionInHand, CommittedRow, ReadyRowIsBest
<1>3. BestInHistory
  BY DEF BestInHistory
<1>4. OrphansAreDrafts /\ RowsPerAttempt
  BY DEF OrphansAreDrafts, RowsPerAttempt
<1>5. QED
  BY <1>1, <1>2, <1>3, <1>4 DEF IInv

LEMMA StartStep == ASSUME IInv, Start PROVE IInv'
<1> USE DEF Start
<1>1. TypeOK'
  BY QALoopAssumption DEF IInv, TypeOK, Places
<1>2. Progress'
  BY QALoopAssumption DEF IInv, Progress
<1>3. ReviewsAreOfVersionInHand' /\ CommittedRow' /\ ReadyRowIsBest'
  BY DEF ReviewsAreOfVersionInHand, CommittedRow, ReadyRowIsBest
<1>4. BestInHistory'
  BY DEF IInv, BestInHistory, Choice!IsEarliestBest
<1>5. OrphansAreDrafts' /\ RowsPerAttempt'
  BY DEF IInv, TypeOK, OrphansAreDrafts, RowsPerAttempt
<1>6. QED
  BY <1>1, <1>2, <1>3, <1>4, <1>5 DEF IInv

LEMMA CommitScriptStep == ASSUME IInv, CommitScript PROVE IInv'
<1> DEFINE row(score) == [version |-> made + 1, score |-> score, hook |-> 0, status |-> "draft"]
<1> USE DEF CommitScript, thread
<1>1. \A score \in Scores \cup {NoScore} : row(score) \in Row
  BY QALoopAssumption DEF IInv, TypeOK, Row, HookIdx
<1>2. NoScore \in Scores \cup {NoScore}
  OBVIOUS
<1>3. rows \in Seq(Row) /\ scriptId \in 0..Len(rows)
  BY DEF IInv, TypeOK
<1>4. /\ rows' \in Seq(Row) /\ Len(rows') \in {Len(rows), Len(rows) + 1}
      /\ scriptId # 0 => Len(rows') = Len(rows)
      /\ rows' # <<>>
      /\ \A i \in 1..Len(rows') : rows'[i].status = "draft" \/
           (i \in 1..Len(rows) /\ i # scriptId /\ rows'[i] = rows[i])
  <2>1. CASE scriptId = 0
    <3>1. rows' = Append(rows, row(NoScore))
      BY <2>1
    <3>2. QED
      BY <1>1, <1>2, <1>3, <2>1, <3>1, AppendProperties
  <2>2. CASE scriptId # 0
    <3>1. rows' = [rows EXCEPT ![scriptId] = row(rows[scriptId].score)]
      BY <2>2
    <3>2. scriptId \in 1..Len(rows) /\ rows[scriptId] \in Row
      BY <1>3, <2>2
    <3>3. row(rows[scriptId].score) \in Row
      BY <1>1, <3>2 DEF Row
    <3>4. QED
      BY <1>3, <2>2, <3>1, <3>2, <3>3, ExceptSeq
  <2>3. QED
    BY <2>1, <2>2
<1>5. TypeOK'
  BY <1>3, <1>4 DEF IInv, TypeOK, Places
<1>6. Progress'
  BY <1>4 DEF IInv, TypeOK, Progress
<1>7. ReviewsAreOfVersionInHand' /\ CommittedRow' /\ ReadyRowIsBest'
  BY DEF ReviewsAreOfVersionInHand, CommittedRow, ReadyRowIsBest
<1>8. BestInHistory'
  BY DEF IInv, BestInHistory, Choice!IsEarliestBest
<1>9. OrphansAreDrafts' /\ RowsPerAttempt'
  BY <1>3, <1>4 DEF IInv, TypeOK, OrphansAreDrafts, RowsPerAttempt
<1>10. QED
  BY <1>5, <1>6, <1>7, <1>8, <1>9 DEF IInv

LEMMA KeepScriptStep == ASSUME IInv, KeepScript PROVE IInv'
<1> USE DEF KeepScript
<1>1. scriptId' \in 1..Len(rows)
  BY DEF IInv, TypeOK, Progress
<1>2. TypeOK'
  <2>1. ready' \in BOOLEAN /\ warned' \in BOOLEAN
    BY DEF IInv, TypeOK
  <2>2. iteration' \in 0..MaxIter
    BY QALoopAssumption DEF IInv, TypeOK, Progress
  <2>3. version' \in Nat /\ reviews' \in SUBSET Review /\ at' \in Places
    BY DEF IInv, TypeOK, Places
  <2>4. QED
    BY <1>1, <2>1, <2>2, <2>3 DEF IInv, TypeOK
<1>3. Progress'
  BY <1>1 DEF IInv, TypeOK, Progress
<1>4. ReviewsAreOfVersionInHand' /\ CommittedRow' /\ ReadyRowIsBest'
  BY DEF ReviewsAreOfVersionInHand, CommittedRow, ReadyRowIsBest
<1>5. BestInHistory'
  BY DEF IInv, BestInHistory, Choice!IsEarliestBest
<1>6. OrphansAreDrafts' /\ RowsPerAttempt'
  BY <1>1 DEF IInv, TypeOK, OrphansAreDrafts, RowsPerAttempt
<1>7. QED
  BY <1>2, <1>3, <1>4, <1>5, <1>6 DEF IInv

LEMMA CriticStep == ASSUME IInv, NEW c \in Critics, Critic(c) PROVE IInv'
<1> USE DEF Critic
<1>1. PICK score \in RawScores, hook \in RawHooks :
        reviews' = reviews \cup
          {[critic |-> c, version |-> version, score |-> Clamp(0, 10, score),
            hook |-> IF c = "hook" THEN Clamp(0, NHooks - 1, hook) ELSE 0]}
  OBVIOUS
<1>2. PICK new \in Review : reviews' = reviews \cup {new} /\ new.critic = c /\ new.version = version
  BY <1>1, ReviewIsReview DEF IInv
<1>3. TypeOK'
  BY <1>2 DEF IInv, TypeOK
<1>4. Progress'
  BY DEF IInv, Progress
<1>5. ReviewsAreOfVersionInHand'
  BY <1>2 DEF IInv, ReviewsAreOfVersionInHand
<1>6. CommittedRow' /\ ReadyRowIsBest'
  BY DEF CommittedRow, ReadyRowIsBest
<1>7. BestInHistory'
  BY DEF IInv, BestInHistory, Choice!IsEarliestBest
<1>8. OrphansAreDrafts' /\ RowsPerAttempt'
  BY DEF IInv, OrphansAreDrafts, RowsPerAttempt
<1>9. QED
  BY <1>3, <1>4, <1>5, <1>6, <1>7, <1>8 DEF IInv

LEMMA CommitReviewsStep == ASSUME IInv, CommitReviews PROVE IInv'
<1> DEFINE new == IF Final THEN [version |-> BestNow.version, score |-> BestNow.score,
                                 hook |-> BestNow.hook, status |-> "ready"]
                  ELSE [rows[scriptId] EXCEPT !.score = MinScore(reviews)]
<1> USE DEF CommitReviews, thread
<1>1. /\ Complete(reviews, version) /\ MinScore(reviews) \in Scores
      /\ BestNow \in Reviewed
  BY CollectTypes
<1>2. rows \in Seq(Row) /\ scriptId \in 1..Len(rows) /\ rows[scriptId] \in Row
  BY DEF IInv, TypeOK, Progress
<1>3. new \in Row
  BY <1>1, <1>2 DEF Row, Reviewed
<1>4. /\ rows' \in Seq(Row) /\ Len(rows') = Len(rows) /\ rows'[scriptId] = new
      /\ \A i \in 1..Len(rows) : i # scriptId => rows'[i] = rows[i]
  <2>1. rows' = [rows EXCEPT ![scriptId] = new]
    OBVIOUS
  <2>2. QED
    BY <1>2, <1>3, <2>1, ExceptSeq
<1>5. TypeOK'
  BY <1>4 DEF IInv, TypeOK, Places
<1>6. Progress'
  BY DEF IInv, Progress
<1>7. ReviewsAreOfVersionInHand'
  BY <1>1 DEF IInv, ReviewsAreOfVersionInHand, Complete
<1>8. CommittedRow'
  <2>1. Final' = Final /\ BestNow' = BestNow
    BY DEF Final, Passed, BestNow
  <2>2. Final => rows'[scriptId] = [version |-> BestNow.version, score |-> BestNow.score,
                                    hook |-> BestNow.hook, status |-> "ready"]
    BY <1>4
  <2>3. QED
    BY <2>1, <2>2 DEF CommittedRow
<1>9. ReadyRowIsBest'
  BY DEF ReadyRowIsBest
<1>10. BestInHistory'
  BY DEF IInv, BestInHistory, Choice!IsEarliestBest
<1>11. OrphansAreDrafts' /\ RowsPerAttempt'
  BY <1>4 DEF IInv, OrphansAreDrafts, RowsPerAttempt
<1>12. QED
  BY <1>5, <1>6, <1>7, <1>8, <1>9, <1>10, <1>11 DEF IInv

\* What KeepReviews appends to the history, and the best script after it.
LEMMA KeepReviewsHistory ==
  ASSUME IInv, KeepReviews
  PROVE  /\ history' \in Seq(Reviewed)
         /\ Len(history') = Len(history) + 1
         /\ history' = Append(history, history'[Len(history')])
         /\ best' \in Reviewed /\ best'.version # 0
         /\ \E i \in 1..Len(history') :
              best' = history'[i] /\ Choice!IsEarliestBest(i, history')
         /\ \A i \in 1..Len(history') : history'[i].version # 0
<1> DEFINE new == [version |-> version, score |-> MinScore(reviews), hook |-> HookOf(reviews)]
<1> USE DEF KeepReviews
<1>1. \A c \in Critics : \E r \in reviews : r.critic = c
  BY DEF IInv, ReviewsAreOfVersionInHand
<1>2. /\ MinScore(reviews) \in Scores /\ HookOf(reviews) \in HookIdx
      /\ BestNow \in Reviewed /\ BestNow.version # 0
  BY <1>1, CollectTypes
<1>3. version \in Nat /\ version # 0 /\ history \in Seq(Reviewed)
  BY DEF IInv, TypeOK, Progress
<1>4. new \in Reviewed /\ new.version # 0 /\ new.score = MinScore(reviews)
  BY <1>2, <1>3 DEF Reviewed
<1>5. history' = Append(history, new)
  OBVIOUS
<1> HIDE DEF new
<1>6. /\ history' \in Seq(Reviewed) /\ Len(history') = Len(history) + 1
      /\ \A i \in 1..Len(history) : history'[i] = history[i]
      /\ history'[Len(history) + 1] = new
  BY <1>3, <1>4, <1>5, AppendProperties
<1>7. \A i \in 1..Len(history') : history'[i] \in Reviewed /\ history'[i].score \in Int
  <2>1. \A i \in 1..Len(history') : history'[i] \in Reviewed
    BY <1>6
  <2>2. \A c \in Reviewed : c.score \in Int
    BY DEF Reviewed, Scores
  <2>3. QED
    BY <2>1, <2>2
<1>8. \A i \in 1..Len(history') : history'[i].version # 0
  BY <1>3, <1>4, <1>6 DEF IInv, BestInHistory
<1>9. \E i \in 1..Len(history') : best' = history'[i] /\ Choice!IsEarliestBest(i, history')
  <2>1. CASE history = <<>>
    <3>1. best' = new
      BY <2>1 DEF BestNow, NoBest, IInv, BestInHistory, new
    <3>2. Len(history') = 1
      BY <1>6, <2>1
    <3>3. QED
      BY <1>6, <1>7, <3>1, <3>2, <2>1 DEF Choice!IsEarliestBest
  <2>2. CASE history # <<>>
    <3>1. PICK i \in 1..Len(history) : best = history[i] /\ Choice!IsEarliestBest(i, history)
      BY <2>2 DEF IInv, BestInHistory
    <3>2. best = history'[i] /\ best.score \in Int /\ new.score \in Int /\ best.version # 0
      BY <1>3, <1>6, <1>7, <3>1 DEF IInv, BestInHistory
    <3>3. \A k \in 1..Len(history) : history'[k].score <= best.score
      BY <1>6, <3>1 DEF Choice!IsEarliestBest
    <3>4. \A k \in 1..(i - 1) : history'[k].score < best.score
      BY <1>3, <1>6, <3>1 DEF Choice!IsEarliestBest
    <3>5. CASE new.score > best.score
      <4>1. best' = new
        BY <1>4, <3>5 DEF BestNow, new
      <4>2. Choice!IsEarliestBest(Len(history) + 1, history')
        <5>1. \A k \in 1..Len(history) : history'[k].score < new.score
          BY <1>6, <1>7, <3>2, <3>3, <3>5
        <5>2. \A k \in 1..Len(history') : history'[k].score <= new.score
          <6>1. \A k \in 1..Len(history') : k \in 1..Len(history) \/ k = Len(history) + 1
            BY <1>3, <1>6
          <6>2. QED
            BY <1>6, <1>7, <3>2, <5>1, <6>1
        <5>3. (Len(history) + 1) - 1 = Len(history)
          BY <1>3
        <5>4. QED
          BY <1>6, <5>1, <5>2, <5>3 DEF Choice!IsEarliestBest
      <4>3. QED
        <5>1. Len(history) + 1 \in 1..Len(history')
          BY <1>3, <1>6
        <5>2. QED
          BY <1>6, <4>1, <4>2, <5>1
    <3>6. CASE ~(new.score > best.score)
      <4>1. best' = best
        BY <1>4, <3>2, <3>6 DEF BestNow
      <4>2. Choice!IsEarliestBest(i, history')
        BY <1>3, <1>6, <3>2, <3>3, <3>4, <3>6 DEF Choice!IsEarliestBest
      <4>3. i \in 1..Len(history')
        BY <1>3, <1>6
      <4>4. QED
        BY <3>2, <4>1, <4>2, <4>3
    <3>7. QED
      BY <3>5, <3>6
  <2>3. QED
    BY <2>1, <2>2
<1>10. best' \in Reviewed /\ best'.version # 0
  BY <1>2
<1>11. QED
  BY <1>5, <1>6, <1>8, <1>9, <1>10

LEMMA KeepReviewsStep == ASSUME IInv, KeepReviews PROVE IInv'
<1> USE DEF KeepReviews
<1>1. /\ history' \in Seq(Reviewed)
      /\ Len(history') = Len(history) + 1
      /\ best' \in Reviewed /\ best'.version # 0
      /\ \E i \in 1..Len(history') :
           best' = history'[i] /\ Choice!IsEarliestBest(i, history')
      /\ \A i \in 1..Len(history') : history'[i].version # 0
  BY KeepReviewsHistory
<1>2. version' \in Nat /\ version' # 0
  BY <1>1 DEF IInv, TypeOK, Progress, Reviewed
<1>3. at' \in {"asset_gen", "writer"} /\ (at' = "asset_gen" <=> Final)
  BY DEF RouteAfterCritics, Final, Passed
<1>4. TypeOK'
  <2>1. ready' \in BOOLEAN /\ warned' \in BOOLEAN
    BY DEF IInv, TypeOK, Final, Passed
  <2>2. at' \in Places
    BY <1>3 DEF Places
  <2>3. QED
    BY <1>1, <1>2, <2>1, <2>2 DEF IInv, TypeOK
<1>5. Progress'
  <2>1. at' = "writer" => iteration < MaxIter
    BY <1>3, QALoopAssumption DEF Final, IInv, TypeOK
  <2>2. QED
    BY <1>2, <1>3, <2>1 DEF IInv, Progress
<1>6. ReviewsAreOfVersionInHand' /\ CommittedRow'
  BY <1>3 DEF ReviewsAreOfVersionInHand, CommittedRow
<1>7. BestInHistory'
  <2>1. Len(history) \in Nat
    BY DEF IInv, TypeOK
  <2>2. history' # <<>>
    BY <1>1, <2>1
  <2>3. QED
    BY <1>1, <2>2 DEF BestInHistory
<1>8. ReadyRowIsBest'
  <2> SUFFICES ASSUME at' = "asset_gen"
               PROVE  /\ ready'
                      /\ version' = best'.version
                      /\ rows'[scriptId'] = [version |-> best'.version, score |-> best'.score,
                                             hook |-> best'.hook, status |-> "ready"]
                      /\ \E i \in 1..Len(history') : history'[i] = best'
    BY DEF ReadyRowIsBest
  <2>1. Final /\ best' = BestNow
    BY <1>3
  <2>2. ready'
    BY <2>1
  <2>3. rows'[scriptId'] = [version |-> best'.version, score |-> best'.score,
                           hook |-> best'.hook, status |-> "ready"]
    BY <2>1 DEF IInv, CommittedRow
  <2>4. QED
    BY <1>1, <2>1, <2>2, <2>3
<1>9. OrphansAreDrafts'
  BY DEF IInv, OrphansAreDrafts, RowsPerAttempt
<1>10. RowsPerAttempt'
  BY DEF IInv, RowsPerAttempt, Progress
<1>11. QED
  BY <1>4, <1>5, <1>6, <1>7, <1>8, <1>9, <1>10 DEF IInv

LEMMA StopStep == ASSUME IInv, NodeFails \/ Crash PROVE IInv'
<1> USE DEF NodeFails, Crash, thread
<1>1. TypeOK'
  BY DEF IInv, TypeOK, Places
<1>2. Progress' /\ ReviewsAreOfVersionInHand' /\ CommittedRow' /\ ReadyRowIsBest'
  BY DEF Progress, ReviewsAreOfVersionInHand, CommittedRow, ReadyRowIsBest
<1>3. BestInHistory'
  BY DEF IInv, BestInHistory, Choice!IsEarliestBest
<1>4. OrphansAreDrafts' /\ RowsPerAttempt'
  BY DEF IInv, OrphansAreDrafts, RowsPerAttempt
<1>5. QED
  BY <1>1, <1>2, <1>3, <1>4 DEF IInv

LEMMA StutterStep == ASSUME IInv, UNCHANGED vars PROVE IInv'
BY DEF IInv, vars, thread, TypeOK, Progress, ReviewsAreOfVersionInHand, BestInHistory,
       CommittedRow, ReadyRowIsBest, OrphansAreDrafts, RowsPerAttempt, Final, Passed,
       BestNow, Choice!IsEarliestBest

LEMMA NextIInv == IInv /\ [Next]_vars => IInv'
<1> SUFFICES ASSUME IInv, [Next]_vars PROVE IInv'
  OBVIOUS
<1>1. CASE Start
  BY <1>1, StartStep
<1>2. CASE CommitScript
  BY <1>2, CommitScriptStep
<1>3. CASE KeepScript
  BY <1>3, KeepScriptStep
<1>4. ASSUME NEW c \in Critics, Critic(c) PROVE IInv'
  BY <1>4, CriticStep
<1>5. CASE CommitReviews
  BY <1>5, CommitReviewsStep
<1>6. CASE KeepReviews
  BY <1>6, KeepReviewsStep
<1>7. CASE NodeFails \/ Crash
  BY <1>7, StopStep
<1>8. CASE UNCHANGED vars
  BY <1>8, StutterStep
<1>9. QED
  BY <1>1, <1>2, <1>3, <1>4, <1>5, <1>6, <1>7, <1>8 DEF Next, Work

LEMMA Invariance == Spec => []IInv
<1>1. Init => IInv
  BY InitIInv
<1>2. IInv /\ [Next]_vars => IInv'
  BY NextIInv
<1>3. QED
  BY <1>1, <1>2, PTL DEF Spec

-----------------------------------------------------------------------------
(* The properties *)

\* The state of the loop always has its types: in particular the iterations
\* never exceed MAX_ITER.
THEOREM TypeCorrect == Spec => []TypeOK
<1>1. IInv => TypeOK
  BY DEF IInv
<1>2. QED
  BY <1>1, Invariance, PTL

\* The reviews that collect and the router read are those of the script in
\* hand, one of each critic.
THEOREM ReviewsMatch == Spec => []ReviewsAreOfVersionInHand
<1>1. IInv => ReviewsAreOfVersionInHand
  BY DEF IInv
<1>2. QED
  BY <1>1, Invariance, PTL

\* The best script kept is the best that was ever collected, whatever the
\* number of attempts and iterations.
THEOREM BestIsTheBest == Spec => []BestIsBest
<1>1. IInv => BestIsBest
  BY DEF IInv, BestInHistory, BestIsBest, Choice!IsEarliestBest
<1>2. QED
  BY <1>1, Invariance, PTL

\* What leaves the loop for the video is the best script, in the thread and in
\* the row.
THEOREM ReadyIsBest == Spec => []ReadyRowIsBest
<1>1. IInv => ReadyRowIsBest
  BY DEF IInv
<1>2. QED
  BY <1>1, Invariance, PTL

\* Only one row of a brief can be ready; the others are drafts of attempts that
\* were cut off.
THEOREM OneReadyRow == Spec => []OrphansAreDrafts
<1>1. IInv => OrphansAreDrafts
  BY DEF IInv
<1>2. QED
  BY <1>1, Invariance, PTL

\* After a collect that does not end the loop, the script in hand did not pass.
THEOREM StopsAtPass == Spec => StopsAtFirstPass
<1> DEFINE Stops == at = "collected" /\ at' = "writer" =>
                      \E r \in reviews : r.score < PassScore /\ r.version = version
<1>1. IInv /\ [Next]_vars => [Stops]_vars
  <2> SUFFICES ASSUME IInv, Next, at = "collected", at' = "writer"
               PROVE  \E r \in reviews : r.score < PassScore /\ r.version = version
    OBVIOUS
  <2>1. KeepReviews
    BY DEF Next, Work, Start, CommitScript, KeepScript, Critic, CommitReviews, NodeFails, Crash
  <2>2. \A c \in Critics : \E r \in reviews : r.critic = c
    BY DEF IInv, ReviewsAreOfVersionInHand
  <2>3. Complete(reviews, version)
    BY <2>2, CollectTypes
  <2>4. ~(MinScore(reviews) >= PassScore)
    BY <2>1, <2>3, MinScoreOfComplete DEF KeepReviews, RouteAfterCritics
  <2>5. PICK r \in reviews : r.score = MinScore(reviews)
    BY <2>3, MinScoreOfComplete
  <2>6. r.score < PassScore
    BY <2>3, <2>4, <2>5, MinScoreOfComplete, QALoopAssumption DEF Scores
  <2>7. QED
    BY <2>3, <2>5, <2>6 DEF Complete
<1>2. QED
  BY <1>1, Invariance, PTL DEF Spec, StopsAtFirstPass

-----------------------------------------------------------------------------
(* The loop implements the selection of the earliest best script *)

chosen == IF ready THEN best ELSE NoBest

LEMMA InitRefines == Init => Choice!Init
BY DEF Init, Choice!Init

LEMMA NextRefines == IInv /\ [Next]_vars => [Choice!Next]_<<history, chosen>>
<1> SUFFICES ASSUME IInv, [Next]_vars PROVE [Choice!Next]_<<history, chosen>>
  OBVIOUS
<1>1. CASE KeepReviews
  <2>1. /\ history' \in Seq(Reviewed)
        /\ Len(history') = Len(history) + 1 /\ Len(history) \in Nat
        /\ history' = Append(history, history'[Len(history')])
        /\ \E i \in 1..Len(history') :
             best' = history'[i] /\ Choice!IsEarliestBest(i, history')
    BY <1>1, KeepReviewsHistory DEF IInv, TypeOK
  <2>2. history' # <<>> /\ history'[Len(history')] \in Reviewed
    BY <2>1
  <2>3. Choice!Grow
    BY <2>1, <2>2 DEF Choice!Grow
  <2>4. chosen = NoBest
    BY <1>1 DEF KeepReviews, IInv, Progress, chosen
  <2>5. CASE Final
    <3>1. chosen' = best'
      BY <1>1, <2>5 DEF KeepReviews, chosen
    <3>2. Choice!Settle
      BY <2>1, <2>3, <2>4, <3>1 DEF Choice!Settle, chosen
    <3>3. QED
      BY <3>2 DEF Choice!Next
  <2>6. CASE ~Final
    <3>1. ~ready'
      BY <1>1, <2>6 DEF KeepReviews, IInv, Progress
    <3>2. Choice!Consider
      BY <2>3, <2>4, <3>1 DEF Choice!Consider, chosen
    <3>3. QED
      BY <3>2 DEF Choice!Next
  <2>7. QED
    BY <2>5, <2>6
<1>2. CASE KeepScript
  BY <1>2 DEF KeepScript, chosen, Choice!Next, Choice!Withdraw
<1>3. CASE Next /\ ~KeepReviews /\ ~KeepScript
  BY <1>3 DEF Next, Work, Start, CommitScript, Critic, CommitReviews, NodeFails, Crash,
              thread, chosen
<1>4. CASE UNCHANGED vars
  BY <1>4 DEF vars, thread, chosen
<1>5. QED
  BY <1>1, <1>2, <1>3, <1>4

\* Every behaviour of the loop is one of the abstract selection: what is chosen
\* is always the earliest best of what was collected.
THEOREM LoopSelects == Spec => Selects
<1>1. Init => Choice!Init
  BY InitRefines
<1>2. IInv /\ [Next]_vars => [Choice!Next]_<<history, chosen>>
  BY NextRefines
<1>3. QED
  BY <1>1, <1>2, Invariance, PTL DEF Spec, Selects, Choice!Spec, chosen
=============================================================================
