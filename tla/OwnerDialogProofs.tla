-------------------------- MODULE OwnerDialogProofs --------------------------
(***************************************************************************)
(* Proofs about Jarvis's journal and the owner's answers, for any number   *)
(* of requests, workspaces and actions: the policy gate, that an answer    *)
(* decides, that it stays in its workspace, and that a decision is final.  *)
(***************************************************************************)
EXTENDS OwnerDialog, FiniteSetTheorems, SequenceTheorems, WellFoundedInduction, TLAPS

-----------------------------------------------------------------------------
(* The inductive invariant, of a journal a *)

Settled(a, i) == a[i].status # "pending"

GatedIn(a) ==
  \A i \in DOMAIN a :
    a[i].type \in NeedsApproval /\ (a[i].sent > 0 \/ a[i].status = "executed") => a[i].approved

\* A request refers to actions of the journal; those it still has to answer with a
\* yes have been approved; each it was given is decided or still to come.
Fits(x, a) ==
  /\ \A k \in DOMAIN x.ids : x.ids[k] \in DOMAIN a
  /\ \A k \in DOMAIN x.todo : x.todo[k] \in DOMAIN a
  /\ x.pc \in {"read", "run", "commit"} => x.todo # <<>>
  /\ x.pc = "done" => x.todo = <<>>
  /\ x.pc = "run" => x.decision = "yes"
  /\ x.decision = "yes" => \A k \in DOMAIN x.todo : a[x.todo[k]].approved
  /\ \A k \in DOMAIN x.ids : Settled(a, x.ids[k]) \/ \E m \in DOMAIN x.todo : x.todo[m] = x.ids[k]

InWs(x, a, w) == \A k \in DOMAIN x.ids : a[x.ids[k]].ws = w

DInv ==
  /\ DialogTypeOK
  /\ GatedIn(acts)
  /\ \A r \in Requests : /\ Fits(req[r], acts)
                         /\ talk[r].pc = "routed" => InWs(req[r], acts, talk[r].ws)

\* What no step does to a journal: lose an action, move it to another workspace, or
\* take back an approval or a decision.
Onward(a, b) ==
  \A i \in DOMAIN a : /\ i \in DOMAIN b /\ b[i].ws = a[i].ws
                      /\ a[i].approved => b[i].approved
                      /\ Settled(a, i) => Settled(b, i)

\* What every step keeps besides the invariant.
Final ==
  \A i \in DOMAIN acts :
    /\ Decided(i) => Decided(i)'
    /\ Decided(i) /\ ~Working(i) => ~Working(i)' /\ acts'[i].sent = acts[i].sent

LEMMA StillFits ==
  ASSUME NEW a, NEW b, NEW x, Onward(a, b), Fits(x, a) PROVE Fits(x, b)
BY DEF Onward, Fits, Settled

LEMMA StillIn ==
  ASSUME NEW a, NEW b, NEW x, NEW w, Onward(a, b), Fits(x, a), InWs(x, a, w) PROVE InWs(x, b, w)
BY DEF Onward, Fits, InWs

LEMMA DialogTypes ==
  ASSUME DialogTypeOK
  PROVE  /\ acts \in Seq(Action) /\ Len(acts) \in 0..MaxActions /\ DOMAIN acts = 1..Len(acts)
         /\ \A i \in DOMAIN acts : acts[i] \in Action
         /\ req \in [Requests -> Request] /\ talk \in [Requests -> Utterance]
         /\ memory \in Seq(Row) /\ Len(memory) \in 0..MemoryRows
<1>1. acts \in Seq(Action) /\ Len(acts) \in 0..MaxActions /\ DOMAIN acts = 1..Len(acts)
  BY LenProperties, JarvisAssumption DEF DialogTypeOK, ActionsTypeOK
<1>2. \A i \in DOMAIN acts : acts[i] \in Action
  BY <1>1, ElementOfSeq
<1>3. memory \in Seq(Row) /\ Len(memory) \in 0..MemoryRows
  BY LenProperties, DialogAssumption DEF DialogTypeOK
<1>4. QED
  BY <1>1, <1>2, <1>3 DEF DialogTypeOK, ActionsTypeOK

-----------------------------------------------------------------------------
(* Journals and sequences *)

\* A journal that is rewritten row by row.
LEMMA Rewritten ==
  ASSUME acts \in Seq(Action), Len(acts) <= MaxActions, NEW b, DOMAIN b = DOMAIN acts,
         b = [i \in DOMAIN acts |-> b[i]], \A i \in DOMAIN acts : b[i] \in Action
  PROVE  b \in Seq(Action) /\ Len(b) <= MaxActions
<1>1. DOMAIN acts = 1..Len(acts) /\ Len(acts) \in Nat
  BY LenProperties
<1>2. b \in [1..Len(acts) -> Action]
  BY <1>1
<1>3. b \in Seq(Action)
  BY <1>1, <1>2, SeqDef
<1>4. DOMAIN b = 1..Len(b) /\ Len(b) \in Nat
  BY <1>3, LenProperties
<1>5. Len(b) = Len(acts)
  BY <1>1, <1>4
<1>6. QED
  BY <1>3, <1>5

\* The sequences the answers are given in.
LEMMA SequenceOf ==
  ASSUME NEW S \in SUBSET (1..MaxActions), NEW T \in SUBSET S, NEW q \in [1..Cardinality(T) -> S]
  PROVE  q \in Seq(1..MaxActions) /\ \A k \in DOMAIN q : q[k] \in S
<1> DEFINE n == Cardinality(T)
           Positions == 1..MaxActions
<1>1. n \in Nat
  <2>1. IsFiniteSet(1..MaxActions)
    BY FS_Interval, JarvisAssumption
  <2>2. T \in SUBSET (1..MaxActions)
    OBVIOUS
  <2>3. IsFiniteSet(T)
    BY <2>1, <2>2, FS_Subset
  <2>4. QED
    BY <2>3, FS_CardinalityType
<1>2. q \in [1..n -> Positions] /\ DOMAIN q = 1..n /\ \A k \in DOMAIN q : q[k] \in S
  OBVIOUS
<1> HIDE DEF n, Positions
<1>3. q \in Seq(Positions)
  BY <1>1, <1>2, SeqDef
<1>4. QED
  BY <1>2, <1>3 DEF Positions

LEMMA OrdersOf ==
  ASSUME NEW S \in SUBSET (1..MaxActions), NEW q \in Orders(S)
  PROVE  q \in Seq(1..MaxActions) /\ \A k \in DOMAIN q : q[k] \in S
BY SequenceOf DEF Orders

LEMMA KeptOf ==
  ASSUME NEW S \in SUBSET (1..MaxActions), NEW ids, NEW q \in Kept(ids, S)
  PROVE  q \in Seq(1..MaxActions) /\ \A k \in DOMAIN q : q[k] \in S
<1> DEFINE T == {ids[k] : k \in DOMAIN ids} \cap S
<1>1. q \in [1..Cardinality(T) -> T]
  BY DEF Kept
<1>2. T \in SUBSET S
  OBVIOUS
<1> HIDE DEF T
<1>3. q \in [1..Cardinality(T) -> S]
  BY <1>1, <1>2
<1>4. QED
  BY <1>2, <1>3, SequenceOf

\* A set of positions that is not empty has a latest one.
LEMMA LatestOf ==
  ASSUME NEW n \in Nat, NEW S \in SUBSET (1..n), S # {}
  PROVE  Latest(S) \in S /\ \A j \in S : j <= Latest(S)
<1> DEFINE T == {n - i : i \in S}
<1>1. T # {}
  OBVIOUS
<1>2. T \subseteq Nat
  <2>1. \A i \in S : i \in 1..n
    OBVIOUS
  <2>2. \A i \in S : n - i \in Nat
    BY <2>1
  <2>3. QED
    BY <2>2
<1>3. \E x \in T : \A y \in T : ~(<<y, x>> \in OpToRel(<, Nat))
  BY <1>1, <1>2, NatLessThanWellFounded, WFMin, Zenon
<1>4. PICK x \in T : \A y \in T : ~(y < x)
  BY <1>2, <1>3 DEF OpToRel
<1>5. PICK i \in S : x = n - i
  OBVIOUS
<1>6. \A j \in S : j <= i
  <2> TAKE j \in S
  <2>1. n - j \in T /\ j \in 1..n /\ i \in 1..n
    OBVIOUS
  <2>2. ~(n - j < n - i)
    BY <1>4, <1>5, <2>1
  <2>3. QED
    BY <2>1, <2>2
<1>7. QED
  BY <1>6 DEF Latest

-----------------------------------------------------------------------------
(* A step of one request *)

\* The request r becomes x and its utterance u, over the journal b.
LEMMA RequestStep ==
  ASSUME DInv, NEW r \in Requests, NEW x \in Request, NEW u \in Utterance,
         NEW b \in Seq(Action), Len(b) <= MaxActions,
         acts' = b, req' = [req EXCEPT ![r] = x], talk' = [talk EXCEPT ![r] = u],
         memory' \in Seq(Row), Len(memory') <= MemoryRows,
         Onward(acts, b), GatedIn(b), Fits(x, b),
         u.pc = "routed" => InWs(x, b, u.ws),
         \A i \in DOMAIN acts : Settled(acts, i) /\ ~Working(i) =>
           b[i].sent = acts[i].sent /\ (x.pc \in {"run", "commit"} => Head(x.todo) # i)
  PROVE  DInv' /\ Final
<1>1. req \in [Requests -> Request] /\ talk \in [Requests -> Utterance]
  BY DialogTypes DEF DInv
<1>2. /\ req' \in [Requests -> Request] /\ req'[r] = x
      /\ talk' \in [Requests -> Utterance] /\ talk'[r] = u
      /\ \A q \in Requests \ {r} : req'[q] = req[q] /\ talk'[q] = talk[q]
  BY <1>1
<1>3. DialogTypeOK'
  BY <1>2 DEF DialogTypeOK, ActionsTypeOK
<1>4. GatedIn(acts)'
  BY DEF GatedIn
<1>5. ASSUME NEW q \in Requests
      PROVE  Fits(req[q], acts)' /\ (talk'[q].pc = "routed" => InWs(req[q], acts, talk[q].ws)')
  <2>1. Fits(req'[q], b)
    BY <1>2, StillFits DEF DInv
  <2>2. talk'[q].pc = "routed" => InWs(req'[q], b, talk'[q].ws)
    BY <1>2, StillIn DEF DInv
  <2>3. QED
    BY <2>1, <2>2 DEF Fits, InWs, Settled
<1>6. DInv'
  BY <1>3, <1>4, <1>5 DEF DInv
<1>7. Final
  <2> SUFFICES ASSUME NEW i \in DOMAIN acts
               PROVE  /\ Decided(i) => Decided(i)'
                      /\ Decided(i) /\ ~Working(i) => ~Working(i)' /\ acts'[i].sent = acts[i].sent
    BY DEF Final
  <2>1. Decided(i) => Decided(i)'
    BY DEF Onward, Settled, Decided
  <2>2. Decided(i) /\ ~Working(i) => ~Working(i)' /\ acts'[i].sent = acts[i].sent
    BY <1>2 DEF Settled, Decided, Working
  <2>3. QED
    BY <2>1, <2>2
<1>8. QED
  BY <1>6, <1>7

\* The journal as it is.
LEMMA SameJournal ==
  ASSUME DInv
  PROVE  /\ acts \in Seq(Action) /\ Len(acts) <= MaxActions
         /\ Onward(acts, acts) /\ GatedIn(acts)
         /\ memory \in Seq(Row) /\ Len(memory) <= MemoryRows
BY DialogTypes DEF DInv, Onward, DialogTypeOK, ActionsTypeOK

\* A step of a request that leaves the journal alone and is not at work after it.
LEMMA QuietStep ==
  ASSUME DInv, NEW r \in Requests, NEW x \in Request, NEW u \in Utterance,
         acts' = acts, req' = [req EXCEPT ![r] = x], talk' = [talk EXCEPT ![r] = u],
         memory' \in Seq(Row), Len(memory') <= MemoryRows,
         Fits(x, acts), u.pc = "routed" => InWs(x, acts, u.ws), x.pc \notin {"run", "commit"}
  PROVE  DInv' /\ Final
BY SameJournal, RequestStep

LEMMA IdleRequest ==
  /\ Idle \in Request /\ Idle.pc = "idle"
  /\ \A a : Fits(Idle, a) /\ \A w : InWs(Idle, a, w)
<1>1. Idle \in Request /\ Idle.pc = "idle" /\ Idle.decision = "no" /\ Idle.ids = <<>> /\ Idle.todo = <<>>
  BY EmptySeq DEF Idle, Request
<1>2. DOMAIN <<>> = {}
  OBVIOUS
<1>3. QED
  BY <1>1, <1>2 DEF Fits, InWs

\* A request is answered with the actions ids.
LEMMA BeginStep ==
  ASSUME DInv, NEW r \in Requests, NEW ids \in Seq(1..MaxActions), NEW d \in {"yes", "no"},
         \A k \in DOMAIN ids : ids[k] \in DOMAIN acts,
         Begin(r, ids, d), UNCHANGED memory,
         NEW u \in Utterance, talk' = [talk EXCEPT ![r] = u],
         u.pc = "routed" => \A k \in DOMAIN ids : acts[ids[k]].ws = u.ws
  PROVE  DInv' /\ Final
<1> DEFINE x == [pc |-> IF ids = <<>> THEN "done" ELSE "read", decision |-> d, ids |-> ids, todo |-> ids]
           b == [i \in DOMAIN acts |-> IF d # "no" /\ \E k \in DOMAIN ids : ids[k] = i
                                      THEN [acts[i] EXCEPT !.approved = TRUE] ELSE acts[i]]
<1>1. x \in Request
  BY DEF Request
<1>2. \A i \in DOMAIN acts : acts[i] \in Action
  BY DialogTypes DEF DInv
<1>3. \A i \in DOMAIN acts : /\ b[i] \in Action /\ b[i].ws = acts[i].ws /\ b[i].type = acts[i].type
                             /\ b[i].sent = acts[i].sent /\ b[i].status = acts[i].status
                             /\ acts[i].approved => b[i].approved
                             /\ d = "yes" /\ (\E k \in DOMAIN ids : ids[k] = i) => b[i].approved
  BY <1>2 DEF Action
<1>4. DOMAIN b = DOMAIN acts /\ b = [i \in DOMAIN acts |-> b[i]]
  OBVIOUS
<1>5. acts' = b /\ req' = [req EXCEPT ![r] = x]
  BY DEF Begin
<1>6. x.pc \in {"done", "read"} /\ (x.pc = "done" <=> ids = <<>>) /\ x.decision = d /\ x.ids = ids /\ x.todo = ids
  OBVIOUS
<1> HIDE DEF x, b
<1>7. b \in Seq(Action) /\ Len(b) <= MaxActions
  BY <1>3, <1>4, SameJournal, Rewritten
<1>8. Onward(acts, b) /\ GatedIn(b)
  BY <1>3, <1>4, SameJournal DEF Onward, GatedIn, Settled
<1>9. Fits(x, b) /\ (u.pc = "routed" => InWs(x, b, u.ws))
  BY <1>3, <1>4, <1>6 DEF Fits, InWs
<1>10. \A i \in DOMAIN acts : b[i].sent = acts[i].sent /\ (x.pc \in {"run", "commit"} => Head(x.todo) # i)
  BY <1>3, <1>6
<1>11. QED
  BY <1>1, <1>5, <1>7, <1>8, <1>9, <1>10, SameJournal, RequestStep

\* A request at work has a first action to answer.
LEMMA AtWork ==
  ASSUME DInv, NEW r \in Requests, req[r].pc \in {"read", "run", "commit"}
  PROVE  LET i == Head(req[r].todo)
         IN /\ i \in DOMAIN acts /\ acts[i] \in Action
            /\ req[r].decision = "yes" => acts[i].approved
            /\ req[r].pc \in {"run", "commit"} => Working(i)
<1> DEFINE todo == req[r].todo
<1>1. req[r] \in Request /\ Fits(req[r], acts)
  BY DialogTypes DEF DInv
<1>2. todo \in Seq(1..MaxActions) /\ todo # <<>>
  BY <1>1 DEF Request, Fits
<1>3. 1 \in DOMAIN todo /\ Head(todo) = todo[1]
  BY <1>2, EmptySeq, LenProperties
<1>4. Head(todo) \in DOMAIN acts /\ (req[r].decision = "yes" => acts[Head(todo)].approved)
  BY <1>1, <1>3 DEF Fits
<1>5. QED
  BY <1>4, DialogTypes DEF DInv, Working

\* What a request goes on with when its first action is decided in the journal b.
LEMMA NextTargetFits ==
  ASSUME DInv, NEW r \in Requests, req[r].pc \in {"read", "run", "commit"},
         NEW b, Onward(acts, b), Settled(b, Head(req[r].todo))
  PROVE  LET x == NextTarget(r)
         IN /\ x \in Request /\ x.pc \in {"read", "done"} /\ x.ids = req[r].ids
            /\ Fits(x, b)
<1> DEFINE todo == req[r].todo
           x == NextTarget(r)
<1>1. req[r] \in Request /\ Fits(req[r], b)
  BY DialogTypes, StillFits DEF DInv
<1>2. todo \in Seq(1..MaxActions) /\ todo # <<>>
  BY <1>1 DEF Request, Fits
<1>3. Len(todo) \in Nat \ {0} /\ DOMAIN todo = 1..Len(todo) /\ Head(todo) = todo[1]
  BY <1>2, EmptySeq, LenProperties
<1>4. CASE Len(todo) = 1
  <2>1. x = [req[r] EXCEPT !.pc = "done", !.todo = <<>>]
    BY <1>4 DEF NextTarget
  <2>2. <<>> \in Seq(1..MaxActions) /\ DOMAIN <<>> = {}
    BY EmptySeq
  <2>3. /\ x \in Request /\ x.pc = "done" /\ x.todo = <<>> /\ x.ids = req[r].ids
        /\ x.decision = req[r].decision
    BY <1>1, <2>1, <2>2 DEF Request
  <2>4. Fits(x, b)
    BY <1>1, <1>3, <1>4, <2>2, <2>3 DEF Fits
  <2>5. QED
    BY <2>3, <2>4
<1>5. CASE Len(todo) # 1
  <2>1. x = [req[r] EXCEPT !.pc = "read", !.todo = Tail(todo)]
    BY <1>5 DEF NextTarget
  <2>2. /\ Tail(todo) \in Seq(1..MaxActions) /\ Len(Tail(todo)) = Len(todo) - 1
        /\ \A k \in 1..Len(Tail(todo)) : Tail(todo)[k] = todo[k + 1]
    BY <1>2, HeadTailProperties
  <2>3. DOMAIN Tail(todo) = 1..(Len(todo) - 1)
    BY <2>2, LenProperties
  <2>4. Tail(todo) # <<>>
    <3>1. Len(Tail(todo)) # 0
      BY <1>3, <1>5, <2>2
    <3>2. Len(<<>>) = 0
      BY EmptySeq
    <3>3. QED
      BY <3>1, <3>2
  <2>5. /\ x \in Request /\ x.pc = "read" /\ x.todo = Tail(todo) /\ x.ids = req[r].ids
        /\ x.decision = req[r].decision
    BY <1>1, <2>1, <2>2 DEF Request
  <2>6. \A k \in DOMAIN x.todo : k + 1 \in DOMAIN todo /\ x.todo[k] = todo[k + 1]
    BY <1>3, <2>2, <2>3, <2>5
  <2>7. \A m \in DOMAIN todo : m = 1 \/ (m - 1 \in DOMAIN x.todo /\ x.todo[m - 1] = todo[m])
    BY <1>3, <2>2, <2>3, <2>5
  <2>8. \A k \in DOMAIN x.ids :
          Settled(b, x.ids[k]) \/ \E m \in DOMAIN x.todo : x.todo[m] = x.ids[k]
    <3> TAKE k \in DOMAIN x.ids
    <3>1. CASE Settled(b, x.ids[k])
      BY <3>1
    <3>2. CASE \E m \in DOMAIN todo : todo[m] = x.ids[k]
      BY <1>3, <2>7, <3>2
    <3>3. QED
      BY <1>1, <2>5, <3>1, <3>2 DEF Fits
  <2>9. Fits(x, b)
    BY <1>1, <2>4, <2>5, <2>6, <2>8 DEF Fits
  <2>10. QED
    BY <2>5, <2>9
<1>6. QED
  BY <1>4, <1>5

\* The utterance goes on as it is.
LEMMA SameTalk ==
  ASSUME DInv, NEW r \in Requests, UNCHANGED <<memory, talk>>
  PROVE  /\ talk[r] \in Utterance /\ talk' = [talk EXCEPT ![r] = talk[r]]
         /\ memory' \in Seq(Row) /\ Len(memory') <= MemoryRows
BY DialogTypes, SameJournal DEF DInv

LEMMA ReadStep ==
  ASSUME DInv, NEW r \in Requests, Read(r), UNCHANGED <<memory, talk>> PROVE DInv' /\ Final
<1> DEFINE i == Head(req[r].todo)
           x == IF acts[i].status # "pending" THEN NextTarget(r)
                ELSE [req[r] EXCEPT !.pc = IF req[r].decision = "no" THEN "commit" ELSE "run"]
<1>1. req[r].pc = "read" /\ acts' = acts /\ req' = [req EXCEPT ![r] = x]
  BY DEF Read
<1>2. req[r] \in Request /\ Fits(req[r], acts) /\ Onward(acts, acts)
  BY DialogTypes, SameJournal DEF DInv
<1>3. talk[r].pc = "routed" => InWs(req[r], acts, talk[r].ws)
  BY DEF DInv
<1>4. CASE acts[i].status # "pending"
  <2>1. x = NextTarget(r)
    BY <1>4
  <2>2. x \in Request /\ x.pc \in {"read", "done"} /\ x.ids = req[r].ids /\ Fits(x, acts)
    BY <1>1, <1>2, <1>4, <2>1, NextTargetFits DEF Settled
  <2> HIDE DEF x
  <2>3. talk[r].pc = "routed" => InWs(x, acts, talk[r].ws)
    BY <1>3, <2>2 DEF InWs
  <2>4. QED
    BY <1>1, <2>2, <2>3, SameTalk, QuietStep
<1>5. CASE acts[i].status = "pending"
  <2>1. x = [req[r] EXCEPT !.pc = IF req[r].decision = "no" THEN "commit" ELSE "run"]
    BY <1>5
  <2>2. /\ x \in Request /\ x.pc \in {"commit", "run"} /\ (x.pc = "run" => req[r].decision # "no")
        /\ x.ids = req[r].ids /\ x.todo = req[r].todo /\ x.decision = req[r].decision
    BY <1>2, <2>1 DEF Request
  <2>3. req[r].decision \in {"yes", "no"}
    BY <1>2 DEF Request
  <2> HIDE DEF x
  <2>4. Fits(x, acts)
    BY <1>1, <1>2, <2>2, <2>3 DEF Fits
  <2>5. talk[r].pc = "routed" => InWs(x, acts, talk[r].ws)
    BY <1>3, <2>2 DEF InWs
  <2>6. \A j \in DOMAIN acts : Settled(acts, j) => Head(x.todo) # j
    BY <1>5, <2>2 DEF Settled
  <2>7. /\ talk[r] \in Utterance /\ talk' = [talk EXCEPT ![r] = talk[r]]
        /\ memory' \in Seq(Row) /\ Len(memory') <= MemoryRows
    BY SameTalk
  <2>8. acts \in Seq(Action) /\ Len(acts) <= MaxActions /\ GatedIn(acts)
    BY SameJournal
  <2>9. \A j \in DOMAIN acts : Settled(acts, j) /\ ~Working(j) =>
          acts[j].sent = acts[j].sent /\ (x.pc \in {"run", "commit"} => Head(x.todo) # j)
    BY <2>6
  <2>10. QED
    BY <1>1, <1>2, <2>2, <2>4, <2>5, <2>7, <2>8, <2>9, RequestStep
<1>6. QED
  BY <1>4, <1>5

\* A request at work on the action i rewrites its row, and becomes x.
LEMMA WorkStep ==
  ASSUME DInv, NEW r \in Requests, req[r].pc \in {"run", "commit"}, UNCHANGED <<memory, talk>>,
         NEW x \in Request, req' = [req EXCEPT ![r] = x],
         NEW new \in Action, acts' = [acts EXCEPT ![Head(req[r].todo)] = new],
         LET old == acts[Head(req[r].todo)]
         IN /\ new.ws = old.ws /\ new.type = old.type /\ new.approved = old.approved
            /\ old.status # "pending" => new.status # "pending"
            /\ new.type \in NeedsApproval /\ (new.sent > 0 \/ new.status = "executed") =>
                 \/ new.approved
                 \/ old.sent > 0 \/ old.status = "executed",
         Fits(x, acts'),
         x.ids = req[r].ids \/ x.ids = <<>>,
         x.pc \in {"run", "commit"} => Head(x.todo) = Head(req[r].todo)
  PROVE  DInv' /\ Final
<1> DEFINE i == Head(req[r].todo)
           b == acts'
<1>1. i \in DOMAIN acts /\ acts[i] \in Action /\ Working(i)
  BY AtWork
<1>2. DOMAIN b = DOMAIN acts /\ b[i] = new /\ \A j \in DOMAIN acts : j # i => b[j] = acts[j]
  BY <1>1
<1>3. b \in Seq(Action) /\ Len(b) <= MaxActions
  BY <1>1, SameJournal, DialogTypes, ExceptSeq DEF DInv
<1>4. Onward(acts, b)
  BY <1>1, <1>2 DEF Onward, Settled
<1>5. GatedIn(b)
  BY <1>1, <1>2 DEF DInv, GatedIn
<1>6. talk[r].pc = "routed" => InWs(x, b, talk[r].ws)
  <2>1. SUFFICES ASSUME talk[r].pc = "routed" PROVE InWs(x, b, talk[r].ws)
    OBVIOUS
  <2>2. InWs(req[r], b, talk[r].ws)
    BY <1>4, <2>1, StillIn DEF DInv
  <2>3. DOMAIN <<>> = {}
    OBVIOUS
  <2>4. QED
    BY <2>2, <2>3 DEF InWs
<1>7. \A j \in DOMAIN acts : Settled(acts, j) /\ ~Working(j) =>
        b[j].sent = acts[j].sent /\ (x.pc \in {"run", "commit"} => Head(x.todo) # j)
  BY <1>1, <1>2
<1> HIDE DEF i
<1>8. talk[r] \in Utterance /\ talk' = [talk EXCEPT ![r] = talk[r]] /\ memory' \in Seq(Row) /\ Len(memory') <= MemoryRows
  BY SameTalk
<1>9. QED
  BY <1>3, <1>4, <1>5, <1>6, <1>7, <1>8, RequestStep

LEMMA EffectOf == ASSUME NEW a \in Action PROVE Effect(a) \in {0, 1}
BY DEF Effect

LEMMA RunStep ==
  ASSUME DInv, NEW r \in Requests, Run(r), UNCHANGED <<memory, talk>> PROVE DInv' /\ Final
<1> DEFINE i == Head(req[r].todo)
           new == [acts[i] EXCEPT !.sent = acts[i].sent + Effect(acts[i])]
           x == [req[r] EXCEPT !.pc = "commit"]
<1>1. /\ req[r].pc = "run" /\ acts[i].sent + Effect(acts[i]) <= MaxSent
      /\ acts' = [acts EXCEPT ![i] = new] /\ req' = [req EXCEPT ![r] = x]
  BY DEF Run
<1>2. req[r] \in Request /\ Fits(req[r], acts) /\ i \in DOMAIN acts /\ acts[i] \in Action /\ acts[i].approved
  <2>1. req[r] \in Request /\ Fits(req[r], acts)
    BY DialogTypes DEF DInv
  <2>2. QED
    BY <1>1, <2>1, AtWork DEF Fits
<1>3. acts[i].sent + Effect(acts[i]) \in 0..MaxSent
  <2>1. Effect(acts[i]) \in {0, 1}
    BY <1>2, EffectOf
  <2>2. acts[i].sent \in 0..MaxSent
    BY <1>2 DEF Action
  <2>3. QED
    BY <1>1, <2>1, <2>2, JarvisAssumption
<1>4. /\ new \in Action /\ new.ws = acts[i].ws /\ new.type = acts[i].type
      /\ new.approved = acts[i].approved /\ new.status = acts[i].status
  BY <1>2, <1>3 DEF Action
<1>5. /\ x \in Request /\ x.pc = "commit" /\ x.ids = req[r].ids /\ x.todo = req[r].todo
      /\ x.decision = req[r].decision
  BY <1>2 DEF Request
<1> HIDE DEF new, x
<1>6. Onward(acts, acts')
  BY <1>1, <1>2, <1>4 DEF Onward, Settled
<1>7. Fits(req[r], acts')
  BY <1>2, <1>6, StillFits
<1>8. req[r].pc = "run"
  BY <1>1
<1>9. Fits(x, acts')
  BY <1>5, <1>7, <1>8 DEF Fits
<1>10. QED
  BY <1>1, <1>2, <1>4, <1>5, <1>9, WorkStep

LEMMA RunFailsStep ==
  ASSUME DInv, NEW r \in Requests, RunFails(r), UNCHANGED <<memory, talk>> PROVE DInv' /\ Final
<1> DEFINE i == Head(req[r].todo)
<1>1. PICK n \in {0, Effect(acts[i])} :
        /\ acts[i].sent + n <= MaxSent
        /\ acts' = [acts EXCEPT ![i].sent = @ + n]
  BY DEF RunFails
<1> DEFINE new == [acts[i] EXCEPT !.sent = acts[i].sent + n]
<1>2. req[r].pc = "run" /\ acts' = [acts EXCEPT ![i] = new] /\ req' = [req EXCEPT ![r] = Idle]
  BY <1>1 DEF RunFails
<1>3. i \in DOMAIN acts /\ acts[i] \in Action /\ acts[i].approved
  <2>1. Fits(req[r], acts)
    BY DEF DInv
  <2>2. QED
    BY <1>2, <2>1, AtWork DEF Fits
<1>4. acts[i].sent + n \in 0..MaxSent
  <2>1. n \in {0, 1}
    BY <1>3, EffectOf
  <2>2. QED
    BY <1>1, <1>3, <2>1, JarvisAssumption DEF Action
<1>5. /\ new \in Action /\ new.ws = acts[i].ws /\ new.type = acts[i].type
      /\ new.approved = acts[i].approved /\ new.status = acts[i].status
  BY <1>3, <1>4 DEF Action
<1> HIDE DEF new
<1>6. Idle \in Request /\ Idle.pc = "idle" /\ Idle.ids = <<>> /\ Fits(Idle, acts')
  BY IdleRequest DEF Idle
<1>7. QED
  BY <1>2, <1>3, <1>5, <1>6, WorkStep

LEMMA CommitStep ==
  ASSUME DInv, NEW r \in Requests, Commit(r), UNCHANGED <<memory, talk>> PROVE DInv' /\ Final
<1> DEFINE i == Head(req[r].todo)
           status == IF req[r].decision = "no" THEN "cancelled" ELSE "executed"
           new == [acts[i] EXCEPT !.status = status]
<1>1. /\ req[r].pc = "commit" /\ acts' = [acts EXCEPT ![i] = new]
      /\ req' = [req EXCEPT ![r] = NextTarget(r)]
  BY DEF Commit
<1>2. /\ i \in DOMAIN acts /\ acts[i] \in Action
      /\ req[r].decision \in {"yes", "no"} /\ (req[r].decision = "yes" => acts[i].approved)
  <2>1. req[r] \in Request
    BY DialogTypes DEF DInv
  <2>2. QED
    BY <1>1, <2>1, AtWork DEF Request
<1>3. /\ new \in Action /\ new.ws = acts[i].ws /\ new.type = acts[i].type /\ new.sent = acts[i].sent
      /\ new.approved = acts[i].approved /\ new.status \in {"cancelled", "executed"}
      /\ new.status = "executed" => new.approved
  BY <1>2 DEF Action
<1> HIDE DEF new
<1>4. Onward(acts, acts') /\ Settled(acts', i)
  BY <1>1, <1>2, <1>3 DEF Onward, Settled
<1>5. /\ NextTarget(r) \in Request /\ NextTarget(r).pc \in {"read", "done"}
      /\ NextTarget(r).ids = req[r].ids /\ Fits(NextTarget(r), acts')
  BY <1>1, <1>4, NextTargetFits
<1>6. QED
  BY <1>1, <1>2, <1>3, <1>5, WorkStep

LEMMA RespondStep ==
  ASSUME DInv, NEW r \in Requests, Respond(r), UNCHANGED <<memory, talk>> PROVE DInv' /\ Final
BY SameTalk, IdleRequest, QuietStep DEF Respond

LEMMA DecideOneStep ==
  ASSUME DInv, NEW r \in Requests, DecideOne(r), talk[r].pc = "off", UNCHANGED <<memory, talk>>
  PROVE  DInv' /\ Final
<1>1. PICK i \in DOMAIN acts, d \in {"yes", "no"} : Begin(r, <<i>>, d)
  BY DEF DecideOne
<1>2. DOMAIN acts \subseteq 1..MaxActions
  BY DialogTypes, JarvisAssumption DEF DInv
<1> DEFINE ids == <<i>>
<1>3. ids \in Seq(1..MaxActions) /\ \A k \in DOMAIN ids : ids[k] \in DOMAIN acts
  BY <1>2
<1>4. Begin(r, ids, d)
  BY <1>1
<1> HIDE DEF ids
<1>5. QED
  BY <1>3, <1>4, SameTalk, BeginStep

\* The pending actions of a workspace, in any order, are a request to be answered.
LEMMA PendingIs ==
  ASSUME DInv, NEW w
  PROVE  /\ PendingOf(w) \in SUBSET (1..MaxActions)
         /\ \A i \in PendingOf(w) : i \in DOMAIN acts /\ acts[i].ws = w
BY DialogTypes, JarvisAssumption DEF DInv, PendingOf

LEMMA BatchApproveStep ==
  ASSUME DInv, NEW r \in Requests, NEW w, BatchApprove(r, w), talk[r].pc = "off",
         UNCHANGED <<memory, talk>>
  PROVE  DInv' /\ Final
<1>1. PICK ids \in Orders(PendingOf(w)) : Begin(r, ids, "yes")
  BY DEF BatchApprove
<1>2. ids \in Seq(1..MaxActions) /\ \A k \in DOMAIN ids : ids[k] \in DOMAIN acts
  BY PendingIs, OrdersOf
<1>3. QED
  BY <1>1, <1>2, SameTalk, BeginStep

-----------------------------------------------------------------------------
(* Utterances *)

LEMMA PendingTargetsOf ==
  ASSUME DInv, NEW r \in Requests, NEW named, NEW ids \in PendingTargets(r, named)
  PROVE  /\ ids \in Seq(1..MaxActions)
         /\ \A k \in DOMAIN ids : ids[k] \in DOMAIN acts /\ acts[ids[k]].ws = talk[r].ws
<1> DEFINE pending == PendingOf(talk[r].ws)
<1>1. /\ pending \in SUBSET (1..MaxActions)
      /\ \A i \in pending : i \in DOMAIN acts /\ acts[i].ws = talk[r].ws
  BY PendingIs
<1>2. \/ ids \in Kept(named, pending) \/ ids \in Kept(talk[r].last, pending)
      \/ ids = <<>> \/ (pending # {} /\ ids = <<Latest(pending)>>)
  BY DEF PendingTargets
<1> HIDE DEF pending
<1>3. CASE ids \in Kept(named, pending)
  BY <1>1, <1>3, KeptOf
<1>4. CASE ids \in Kept(talk[r].last, pending)
  BY <1>1, <1>4, KeptOf
<1>5. CASE ids = <<>>
  BY <1>5, EmptySeq
<1>6. CASE pending # {} /\ ids = <<Latest(pending)>>
  <2>1. Latest(pending) \in pending
    BY <1>1, <1>6, LatestOf, JarvisAssumption
  <2> DEFINE i == Latest(pending)
  <2>2. ids = <<i>> /\ i \in pending
    BY <1>6, <2>1
  <2> HIDE DEF i
  <2>3. QED
    BY <1>1, <2>2
<1>7. QED
  BY <1>2, <1>3, <1>4, <1>5, <1>6

LEMMA RouteDecisionStep == ASSUME DInv, NEW r \in Requests, RouteDecision(r) PROVE DInv' /\ Final
<1> DEFINE u == [talk[r] EXCEPT !.pc = "routed", !.last = <<>>]
<1>1. PICK ids : \E d \in {"yes", "no"} :
        /\ Begin(r, ids, d)
        /\ ids \in Orders(PendingOf(talk[r].ws)) \/ \E named : ids \in PendingTargets(r, named)
  BY DEF RouteDecision, BatchApprove
<1>2. talk[r] \in Utterance /\ talk' = [talk EXCEPT ![r] = u] /\ UNCHANGED memory
  BY DialogTypes DEF DInv, RouteDecision
<1>3. u \in Utterance /\ u.ws = talk[r].ws
  BY <1>2, EmptySeq DEF Utterance
<1>4. /\ ids \in Seq(1..MaxActions)
      /\ \A k \in DOMAIN ids : ids[k] \in DOMAIN acts /\ acts[ids[k]].ws = talk[r].ws
  <2>1. CASE ids \in Orders(PendingOf(talk[r].ws))
    BY <2>1, PendingIs, OrdersOf
  <2>2. CASE \E named : ids \in PendingTargets(r, named)
    BY <2>2, PendingTargetsOf
  <2>3. QED
    BY <1>1, <2>1, <2>2
<1> HIDE DEF u
<1>5. QED
  BY <1>1, <1>2, <1>3, <1>4, BeginStep

LEMMA Rows ==
  /\ UserRow \in Row /\ Off \in Utterance /\ Off.pc = "off"
  /\ \A ws \in Workspaces \cup {NoWs}, ids \in Seq(1..MaxActions) :
       Reply(ws, ids) \in Row /\ [Off EXCEPT !.pc = "replied", !.reply = Reply(ws, ids)] \in Utterance
<1>1. <<>> \in Seq(1..MaxActions)
  BY EmptySeq
<1>2. UserRow \in Row
  BY <1>1 DEF UserRow, Row
<1>3. ASSUME NEW ws \in Workspaces \cup {NoWs}, NEW ids \in Seq(1..MaxActions)
      PROVE  Reply(ws, ids) \in Row
  BY DEF Reply, Row
<1>4. Off \in Utterance /\ Off.pc = "off"
  BY <1>1, <1>3, DialogAssumption DEF Off, Utterance
<1>5. ASSUME NEW ws \in Workspaces \cup {NoWs}, NEW ids \in Seq(1..MaxActions)
      PROVE  [Off EXCEPT !.pc = "replied", !.reply = Reply(ws, ids)] \in Utterance
  BY <1>3, <1>4 DEF Utterance
<1>6. QED
  BY <1>2, <1>3, <1>4, <1>5

\* An utterance ends in a reply that refers to ids.
LEMMA RoutedIs ==
  ASSUME DInv, NEW r \in Requests, NEW ws \in Workspaces \cup {NoWs},
         NEW ids \in Seq(1..MaxActions), Routed(r, ws, ids)
  PROVE  \E u \in Utterance : u.pc = "replied" /\ talk' = [talk EXCEPT ![r] = u]
<1> DEFINE u == [Off EXCEPT !.pc = "replied", !.reply = Reply(ws, ids)]
<1>1. u \in Utterance
  BY Rows
<1>2. u.pc = "replied"
  BY Rows DEF Utterance
<1>3. talk' = [talk EXCEPT ![r] = u]
  BY DEF Routed
<1>4. QED
  BY <1>1, <1>2, <1>3

LEMMA DecisionRepliedStep == ASSUME DInv, NEW r \in Requests, DecisionReplied(r) PROVE DInv' /\ Final
<1>1. PICK u \in Utterance : u.pc = "replied" /\ talk' = [talk EXCEPT ![r] = u]
  BY EmptySeq, RoutedIs DEF DecisionReplied
<1>2. acts' = acts /\ req' = [req EXCEPT ![r] = Idle] /\ UNCHANGED memory
  BY DEF DecisionReplied
<1>3. QED
  BY <1>1, <1>2, IdleRequest, SameJournal, QuietStep

\* A step of the utterance alone; the answers of its request are over.
LEMMA TalkOnly ==
  ASSUME DInv, NEW r \in Requests, NEW u \in Utterance, u.pc # "routed",
         talk' = [talk EXCEPT ![r] = u], UNCHANGED <<acts, req>>,
         memory' \in Seq(Row), Len(memory') <= MemoryRows
  PROVE  DInv' /\ Final
<1>1. /\ DialogTypeOK' /\ talk'[r] = u /\ \A q \in Requests \ {r} : talk'[q] = talk[q]
  BY DialogTypes DEF DInv, DialogTypeOK, ActionsTypeOK
<1>2. DInv'
  BY <1>1 DEF DInv, GatedIn, Fits, InWs, Settled
<1>3. Final
  BY DEF Final, Decided, Working
<1>4. QED
  BY <1>2, <1>3

\* The memory holds the latest rows, whatever row is added.
LEMMA RememberedIs ==
  ASSUME DInv, NEW row \in Row
  PROVE  Remembered(row) \in Seq(Row) /\ Len(Remembered(row)) <= MemoryRows
<1> DEFINE all == Append(memory, row)
<1>1. memory \in Seq(Row) /\ Len(memory) \in Nat /\ Len(memory) <= MemoryRows
  BY DialogTypes, DialogAssumption DEF DInv
<1>2. all \in Seq(Row) /\ all # <<>> /\ Len(all) = Len(memory) + 1
  BY <1>1, AppendProperties
<1> HIDE DEF all
<1>3. Tail(all) \in Seq(Row) /\ Len(Tail(all)) = Len(all) - 1
  BY <1>2, HeadTailProperties
<1>4. CASE Len(all) > MemoryRows
  BY <1>1, <1>2, <1>3, <1>4, DialogAssumption DEF Remembered, all
<1>5. CASE ~(Len(all) > MemoryRows)
  BY <1>1, <1>2, <1>5, DialogAssumption DEF Remembered, all
<1>6. QED
  BY <1>4, <1>5

\* What an utterance finds in the memory is an action list and a workspace.
LEMMA ReadFromMemory ==
  ASSUME DInv, NEW given \in Workspaces \cup {NoWs}
  PROVE  LastTurnIds \in Seq(1..MaxActions) /\ ResolveWorkspace(given) \in Workspaces
<1>1. memory \in Seq(Row) /\ Len(memory) \in Nat /\ DOMAIN memory = 1..Len(memory)
  BY DialogTypes, LenProperties DEF DInv
<1>2. \A i \in 1..Len(memory) : memory[i] \in Row
  BY <1>1, ElementOfSeq
<1>3. LastTurnIds \in Seq(1..MaxActions)
  <2>1. CASE JarvisRows = {}
    BY <2>1, EmptySeq DEF LastTurnIds
  <2>2. CASE JarvisRows # {}
    <3>1. JarvisRows \in SUBSET (1..Len(memory))
      BY <1>1 DEF JarvisRows
    <3>2. Latest(JarvisRows) \in JarvisRows
      BY <1>1, <2>2, <3>1, LatestOf
    <3>3. memory[Latest(JarvisRows)] \in Row
      BY <1>2, <3>1, <3>2
    <3>4. QED
      BY <2>2, <3>3 DEF LastTurnIds, Row
  <2>3. QED
    BY <2>1, <2>2
<1>4. ResolveWorkspace(given) \in Workspaces
  <2> DEFINE choices == {i \in JarvisRows : memory[i].ws # NoWs}
  <2>1. CASE given # NoWs
    BY <2>1 DEF ResolveWorkspace
  <2>2. CASE given = NoWs /\ choices = {}
    BY <2>2, DialogAssumption DEF ResolveWorkspace
  <2>3. CASE given = NoWs /\ choices # {}
    <3>1. choices \in SUBSET (1..Len(memory))
      BY <1>1 DEF JarvisRows
    <3>2. Latest(choices) \in choices
      BY <1>1, <2>3, <3>1, LatestOf
    <3>3. memory[Latest(choices)] \in Row /\ memory[Latest(choices)].ws # NoWs
      BY <1>2, <3>1, <3>2
    <3>4. ResolveWorkspace(given) = memory[Latest(choices)].ws
      BY <2>3 DEF ResolveWorkspace
    <3>5. QED
      BY <3>3, <3>4 DEF Row
  <2>4. QED
    BY <2>1, <2>2, <2>3
<1>5. QED
  BY <1>3, <1>4

LEMMA HearStep == ASSUME DInv, NEW r \in Requests, Hear(r) PROVE DInv' /\ Final
<1>1. PICK given \in Workspaces \cup {NoWs} :
        talk' = [talk EXCEPT ![r] =
          [Off EXCEPT !.pc = "heard", !.ws = ResolveWorkspace(given), !.last = LastTurnIds]]
  BY DEF Hear
<1> DEFINE u == [Off EXCEPT !.pc = "heard", !.ws = ResolveWorkspace(given), !.last = LastTurnIds]
<1>2. u \in Utterance /\ u.pc = "heard"
  BY Rows, ReadFromMemory DEF Utterance
<1>3. talk' = [talk EXCEPT ![r] = u]
  BY <1>1
<1>4. /\ UNCHANGED <<acts, req>>
      /\ memory' \in Seq(Row) /\ Len(memory') <= MemoryRows
  BY Rows, RememberedIs DEF Hear
<1> HIDE DEF u
<1>5. QED
  BY <1>2, <1>3, <1>4, TalkOnly

LEMMA RouteElseStep ==
  ASSUME DInv, NEW r \in Requests, RouteWorkspace(r) \/ RouteOther(r) PROVE DInv' /\ Final
<1>1. \E ws \in Workspaces \cup {NoWs} : Routed(r, ws, <<>>)
  BY DEF RouteWorkspace, RouteOther
<1>2. PICK u \in Utterance : u.pc = "replied" /\ talk' = [talk EXCEPT ![r] = u]
  BY <1>1, EmptySeq, RoutedIs
<1>3. UNCHANGED <<acts, req, memory>>
  BY DEF RouteWorkspace, RouteOther
<1>4. QED
  BY <1>2, <1>3, SameJournal, TalkOnly

LEMMA RememberStep == ASSUME DInv, NEW r \in Requests, Remember(r) PROVE DInv' /\ Final
<1>1. talk[r].reply \in Row
  BY DialogTypes DEF DInv, Utterance
<1>2. /\ UNCHANGED <<acts, req>> /\ talk' = [talk EXCEPT ![r] = Off]
      /\ memory' \in Seq(Row) /\ Len(memory') <= MemoryRows
  BY <1>1, RememberedIs DEF Remember
<1>3. QED
  BY <1>2, Rows, TalkOnly

-----------------------------------------------------------------------------
(* Proposals *)

LEMMA ProposedIs ==
  ASSUME NEW w \in Workspaces, NEW type \in Types, NEW c \in BOOLEAN
  PROVE  LET a == Proposed(w, type, c)
         IN /\ a \in Action
            /\ a.type \in NeedsApproval => a.sent = 0 /\ a.status = "pending"
<1>1. CASE Level(type) = "autonomous"
  <2>1. type \notin NeedsApproval
    BY <1>1 DEF Level, NeedsApproval
  <2>2. Proposed(w, type, c) = [ws |-> w, type |-> type, conversation |-> c, approved |-> FALSE,
                                status |-> "executed", sent |-> 1]
    BY <1>1 DEF Proposed
  <2>3. QED
    BY <2>1, <2>2, JarvisAssumption DEF Action
<1>2. CASE Level(type) # "autonomous"
  <2>1. Proposed(w, type, c) = [ws |-> w, type |-> type, conversation |-> c, approved |-> FALSE,
                                status |-> "pending", sent |-> 0]
    BY <1>2 DEF Proposed
  <2>2. QED
    BY <2>1, JarvisAssumption DEF Action
<1>3. QED
  BY <1>1, <1>2

\* Proposals are added to the journal.
LEMMA ProposalStep ==
  ASSUME DInv, NEW new \in Seq(Action), Len(acts) + Len(new) <= MaxActions,
         \A k \in 1..Len(new) :
           new[k].type \in NeedsApproval => new[k].sent = 0 /\ new[k].status = "pending",
         acts' = acts \o new, UNCHANGED <<req, memory>>,
         talk' \in [Requests -> Utterance],
         \A q \in Requests : talk'[q] = talk[q] \/ talk'[q].pc # "routed"
  PROVE  DInv' /\ Final
<1> DEFINE b == acts \o new
<1>1. acts \in Seq(Action) /\ DOMAIN acts = 1..Len(acts) /\ Len(acts) \in Nat /\ Len(new) \in Nat
  BY DialogTypes, LenProperties DEF DInv
<1>2. /\ b \in Seq(Action) /\ Len(b) = Len(acts) + Len(new)
      /\ \A i \in 1..Len(acts) + Len(new) :
           b[i] = IF i <= Len(acts) THEN acts[i] ELSE new[i - Len(acts)]
  BY <1>1, ConcatProperties
<1> HIDE DEF b
<1>3. DOMAIN b = 1..Len(acts) + Len(new)
  BY <1>2, LenProperties
<1>4. /\ \A i \in DOMAIN acts : i \in DOMAIN b /\ b[i] = acts[i]
      /\ \A i \in DOMAIN b : i \in DOMAIN acts \/ (i - Len(acts) \in 1..Len(new) /\ b[i] = new[i - Len(acts)])
  BY <1>1, <1>2, <1>3
<1>5. Onward(acts, b) /\ GatedIn(b)
  <2>1. Onward(acts, b)
    BY <1>4 DEF Onward, Settled
  <2>2. GatedIn(b)
    <3> SUFFICES ASSUME NEW i \in DOMAIN b, b[i].type \in NeedsApproval,
                        b[i].sent > 0 \/ b[i].status = "executed"
                 PROVE  b[i].approved
      BY DEF GatedIn
    <3>1. CASE i \in DOMAIN acts
      BY <1>4, <3>1 DEF DInv, GatedIn
    <3>2. CASE i \notin DOMAIN acts
      <4>1. b[i].sent = 0 /\ b[i].status = "pending"
        BY <1>4, <3>2
      <4>2. QED
        BY <4>1
    <3>3. QED
      BY <3>1, <3>2
  <2>3. QED
    BY <2>1, <2>2
<1>6. acts' = b
  BY DEF b
<1>7. DialogTypeOK'
  BY <1>2, <1>6, SameJournal DEF DInv, DialogTypeOK, ActionsTypeOK
<1>8. ASSUME NEW q \in Requests
      PROVE  Fits(req[q], b) /\ (talk'[q].pc = "routed" => InWs(req[q], b, talk'[q].ws))
  BY <1>5, StillFits, StillIn DEF DInv
<1>9. DInv'
  BY <1>5, <1>6, <1>7, <1>8 DEF DInv, GatedIn, Fits, InWs, Settled
<1>10. Final
  BY <1>4, <1>6 DEF Final, Decided, Working
<1>11. QED
  BY <1>9, <1>10

LEMMA EventProposal == ASSUME DInv, EventStep PROVE DInv' /\ Final
<1>1. PICK w \in Workspaces, type \in Types : Propose(w, type)
  BY DEF EventStep
<1> DEFINE a == Proposed(w, type, type = "message_lead")
<1>2. a \in Action /\ (a.type \in NeedsApproval => a.sent = 0 /\ a.status = "pending")
  BY ProposedIs
<1>3. Len(acts) < MaxActions /\ acts' = Append(acts, a) /\ UNCHANGED <<req, memory, talk>>
  BY <1>1 DEF Propose, EventStep
<1> HIDE DEF a
<1>4. acts \in Seq(Action) /\ Len(acts) \in Nat
  BY DialogTypes DEF DInv
<1>5. acts' = acts \o <<a>>
  BY <1>2, <1>3, <1>4, AppendIsConcat
<1>6. /\ <<a>> \in Seq(Action) /\ Len(<<a>>) = 1 /\ <<a>>[1] = a
  BY <1>2
<1> DEFINE new == <<a>>
<1>7. /\ new \in Seq(Action) /\ Len(acts) + Len(new) <= MaxActions
      /\ \A k \in 1..Len(new) : new[k].type \in NeedsApproval => new[k].sent = 0 /\ new[k].status = "pending"
  BY <1>2, <1>3, <1>4, <1>6, JarvisAssumption
<1>8. acts' = acts \o new
  BY <1>5
<1>9. talk' \in [Requests -> Utterance] /\ talk' = talk
  BY <1>3, DialogTypes DEF DInv
<1> HIDE DEF new
<1>10. QED
  BY <1>3, <1>7, <1>8, <1>9, ProposalStep

LEMMA RouteProposalStep == ASSUME DInv, NEW r \in Requests, RouteProposal(r) PROVE DInv' /\ Final
<1>1. PICK type \in Types, n \in 1..2 :
        LET ids == [k \in 1..n |-> Len(acts) + k]
        IN /\ Len(acts) + n <= MaxActions
           /\ acts' = acts \o [k \in 1..n |-> Proposed(talk[r].ws, type, FALSE)]
           /\ Routed(r, NoWs, IF type \in NeedsApproval THEN ids ELSE <<>>)
  BY DEF RouteProposal
<1> DEFINE a == Proposed(talk[r].ws, type, FALSE)
           new == [k \in 1..n |-> a]
           ids == [k \in 1..n |-> Len(acts) + k]
<1>2. Len(acts) \in Nat /\ talk[r].ws \in Workspaces
  BY DialogTypes DEF DInv, Utterance
<1>3. a \in Action /\ (a.type \in NeedsApproval => a.sent = 0 /\ a.status = "pending")
  BY <1>2, ProposedIs
<1> HIDE DEF a
<1>4. new \in [1..n -> Action] /\ n \in Nat
  BY <1>3
<1>5. new \in Seq(Action)
  BY <1>4, SeqDef
<1>6. Len(new) = n
  <2>1. DOMAIN new = 1..n /\ DOMAIN new = 1..Len(new) /\ Len(new) \in Nat
    BY <1>5, LenProperties
  <2>2. QED
    BY <1>4, <2>1
<1>7. \A k \in 1..Len(new) : new[k].type \in NeedsApproval => new[k].sent = 0 /\ new[k].status = "pending"
  BY <1>3, <1>6
<1>8. (IF type \in NeedsApproval THEN ids ELSE <<>>) \in Seq(1..MaxActions)
  <2>1. ids \in [1..n -> 1..MaxActions]
    BY <1>1, <1>2, JarvisAssumption
  <2> DEFINE Positions == 1..MaxActions
  <2> HIDE DEF Positions
  <2>2. ids \in Seq(Positions)
    BY <1>4, <2>1, SeqDef DEF Positions
  <2>3. QED
    BY <2>2, EmptySeq DEF Positions
<1>9. PICK u \in Utterance : u.pc = "replied" /\ talk' = [talk EXCEPT ![r] = u]
  BY <1>1, <1>8, RoutedIs
<1>10. /\ talk' \in [Requests -> Utterance]
       /\ \A q \in Requests : talk'[q] = talk[q] \/ talk'[q].pc # "routed"
  BY <1>9, DialogTypes DEF DInv
<1>11. acts' = acts \o new /\ Len(acts) + Len(new) <= MaxActions /\ UNCHANGED <<req, memory>>
  BY <1>1, <1>6 DEF RouteProposal, a
<1> HIDE DEF new
<1>12. QED
  BY <1>5, <1>7, <1>10, <1>11, ProposalStep

-----------------------------------------------------------------------------
(* The first state, a crash and the theorems *)

LEMMA DialogInitInv == ASSUME DialogInit PROVE DInv
<1>1. DOMAIN <<>> = {} /\ Len(<<>>) = 0 /\ <<>> \in Seq(Action) /\ <<>> \in Seq(Row)
  BY EmptySeq
<1>2. DialogTypeOK
  <2>1. acts \in Seq(Action) /\ Len(acts) <= MaxActions
    BY <1>1, JarvisAssumption DEF DialogInit, ActionsInit
  <2>2. memory \in Seq(Row) /\ Len(memory) <= MemoryRows
    BY <1>1, DialogAssumption DEF DialogInit
  <2>3. req \in [Requests -> Request] /\ talk \in [Requests -> Utterance]
    BY IdleRequest, Rows DEF DialogInit, ActionsInit
  <2>4. QED
    BY <2>1, <2>2, <2>3 DEF DialogTypeOK, ActionsTypeOK
<1>3. GatedIn(acts)
  BY <1>1 DEF DialogInit, ActionsInit, GatedIn
<1>4. \A r \in Requests : Fits(req[r], acts) /\ InWs(req[r], acts, talk[r].ws)
  BY IdleRequest DEF DialogInit, ActionsInit
<1>5. QED
  BY <1>2, <1>3, <1>4 DEF DInv

LEMMA CrashStep == ASSUME DInv, Crash PROVE DInv' /\ Final
<1>1. /\ req' = [r \in Requests |-> Idle] /\ talk' = [r \in Requests |-> Off]
      /\ UNCHANGED <<acts, memory>>
  BY DEF Crash
<1>2. DialogTypeOK'
  BY <1>1, IdleRequest, Rows DEF DInv, DialogTypeOK, ActionsTypeOK
<1>3. ASSUME NEW r \in Requests
      PROVE  Fits(req'[r], acts) /\ InWs(req'[r], acts, talk'[r].ws)
  BY <1>1, IdleRequest
<1>4. DInv'
  BY <1>1, <1>2, <1>3 DEF DInv, GatedIn, Fits, InWs, Settled
<1>5. Final
  BY <1>1, IdleRequest DEF Final, Decided, Working
<1>6. QED
  BY <1>4, <1>5

LEMMA ApiStepStep == ASSUME DInv, NEW r \in Requests, ApiStep(r) PROVE DInv' /\ Final
<1>1. UNCHANGED <<memory, talk>>
  BY DEF ApiStep
<1>2. CASE talk[r].pc = "off" /\ DecideOne(r)
  BY <1>1, <1>2, DecideOneStep
<1>3. CASE talk[r].pc = "off" /\ \E w \in Workspaces : BatchApprove(r, w)
  BY <1>1, <1>3, BatchApproveStep
<1>4. CASE Answering(r)
  BY <1>1, <1>4, ReadStep, RunStep, RunFailsStep, CommitStep DEF Answering
<1>5. CASE Respond(r)
  BY <1>1, <1>5, RespondStep
<1>6. QED
  BY <1>2, <1>3, <1>4, <1>5 DEF ApiStep

LEMMA DialogNextStep == ASSUME DInv, [DialogNext]_dialogVars PROVE DInv' /\ (Final \/ UNCHANGED dialogVars)
<1>1. ASSUME NEW r \in Requests, TalkStep(r) PROVE DInv' /\ Final
  BY <1>1, HearStep, RouteDecisionStep, DecisionRepliedStep, RouteProposalStep, RouteElseStep,
     RememberStep DEF TalkStep
<1>2. CASE UNCHANGED dialogVars
  BY <1>2 DEF dialogVars, DInv, DialogTypeOK, ActionsTypeOK, GatedIn, Fits, InWs, Settled
<1>3. QED
  BY <1>1, <1>2, EventProposal, CrashStep, ApiStepStep DEF DialogNext

\* Every state of the dialog has the inductive invariant.
THEOREM DialogInvariant == DialogSpec => []DInv
<1>1. DialogInit => DInv
  BY DialogInitInv
<1>2. DInv /\ [DialogNext]_dialogVars => DInv'
  BY DialogNextStep
<1>3. QED
  BY <1>1, <1>2, PTL DEF DialogSpec

\* The journal, the memory, the requests and the utterances keep their types and bounds
\* (jarvis_action, owner_memory): the memory is never longer than what is read of it.
THEOREM DialogTypeCorrect == DialogSpec => []DialogTypeOK
<1>1. DInv => DialogTypeOK
  BY DEF DInv
<1>2. QED
  BY <1>1, DialogInvariant, PTL

\* The policy gate of docs/06, for any number of requests that answer, propose, fail
\* and crash in any order: nothing that needs the owner's approval is done without it.
THEOREM PolicyGate == DialogSpec => []GatedByOwner
<1>1. DInv => GatedByOwner
  BY DEF DInv, GatedIn, GatedByOwner
<1>2. QED
  BY <1>1, DialogInvariant, PTL

\* A request that has answered the owner (decide, batch_approve) has left none of its
\* actions undecided, whatever the others did.
THEOREM AnswersDecide == DialogSpec => []AnsweredMeansDecided
<1>1. ASSUME DInv PROVE AnsweredMeansDecided
  <2> SUFFICES ASSUME NEW r \in Requests, req[r].pc = "done", NEW k \in DOMAIN req[r].ids
               PROVE  Decided(req[r].ids[k])
    BY DEF AnsweredMeansDecided
  <2>1. Fits(req[r], acts) /\ DOMAIN <<>> = {}
    BY <1>1 DEF DInv
  <2>2. QED
    BY <2>1 DEF Fits, Settled, Decided
<1>2. QED
  BY <1>1, DialogInvariant, PTL

\* A spoken answer (_pending_targets) stays in the workspace of its utterance.
THEOREM AnswersStayInWorkspace == DialogSpec => []AnswerStaysInWorkspace
<1>1. DInv => AnswerStaysInWorkspace
  BY DEF DInv, InWs, AnswerStaysInWorkspace
<1>2. QED
  BY <1>1, DialogInvariant, PTL

\* No step of any request, event or crash takes a decision back.
THEOREM DecisionsAreFinal == DialogSpec => DecidedForever
<1>1. DInv /\ [DialogNext]_dialogVars =>
        [\A i \in DOMAIN acts : Decided(i) => Decided(i)']_<<acts, req>>
  BY DialogNextStep DEF Final, dialogVars
<1>2. QED
  BY <1>1, DialogInvariant, PTL DEF DialogSpec, DecidedForever

\* Once an action is decided and no request is at work on it, no later answer to it
\* runs its executor or writes its row.
THEOREM LateTapsDoNothing == DialogSpec => LateTapDoesNothing
<1>1. DInv /\ [DialogNext]_dialogVars =>
        [\A i \in DOMAIN acts :
           Decided(i) /\ ~Working(i) => ~Working(i)' /\ acts'[i].sent = acts[i].sent]_<<acts, req>>
  BY DialogNextStep DEF Final, dialogVars
<1>2. QED
  BY <1>1, DialogInvariant, PTL DEF DialogSpec, LateTapDoesNothing

=============================================================================
