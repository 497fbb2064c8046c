----------------------------- MODULE JarvisProofs -----------------------------
(***************************************************************************)
(* Proofs about the parts of Jarvis beside the dialog with the owner, for  *)
(* any finite set of tasks, any number of requests and hooks that overlap, *)
(* any contacts, moments and hours, and any bounds. Reminders: what the    *)
(* rows count was handed to notify, and the owner hears of a task only     *)
(* after two reminders or when an event asks. Leads: one without a link is *)
(* the trace of a fault, and a linked contact gets no second one.          *)
(* Deadlines: a task is due at the next moment that the words fit. Last,   *)
(* the types of all the parts side by side.                                *)
(***************************************************************************)
EXTENDS MCJarvis, OwnerDialogProofs, FiniteSetTheorems, SequenceTheorems, TLAPS

-----------------------------------------------------------------------------
(* Tasks: the inductive invariant *)

\* What was handed to notify, whether it was told or dropped.
Announced(t) == told[t].assigned \/ lost[t].assigned
Called(t) == told[t].reminded + lost[t].reminded
OwnerTold(t) == told[t].owner \/ lost[t].owner

\* What an escalation rests on.
Grounds(t) == Called(t) >= EscalateAfter \/ t \in apart.asked

\* What the rows say, and what the owner was told, of one task.
TaskTold(t) ==
  /\ task[t].status # "none" => Announced(t) \/ t \in apart.seeded
  /\ task[t].sent <= Called(t) /\ Called(t) <= MaxTold
  /\ task[t].escalated => OwnerTold(t)
  /\ OwnerTold(t) => Grounds(t)

\* A request at work has a transaction to do, and what it is about to save has been
\* handed to notify: the count it read never exceeds those calls, and an escalation is
\* begun only for tasks that were reminded of twice, or because an event asks.
RunTold(r) ==
  /\ run[r].pc # "idle" => run[r].todo # <<>>
  /\ run[r].pc # "idle" /\ run[r].kind = "escalate" =>
       \A k \in DOMAIN run[r].todo : \A t \in run[r].todo[k] : Grounds(t)
  /\ run[r].pc \in {"tell", "save"} => \A t \in Tasks : run[r].seen[t] <= Called(t)
  /\ run[r].pc = "save" => \A t \in run[r].todo[1] :
       /\ run[r].kind = "assign" => Announced(t)
       /\ run[r].kind = "remind" => run[r].seen[t] + 1 <= Called(t)
       /\ run[r].kind = "escalate" => OwnerTold(t)

TInv ==
  /\ TasksTypeOK
  /\ \A t \in Tasks : TaskTold(t)
  /\ \A r \in Runs : RunTold(r)

LEMMA TaskTypes ==
  ASSUME TasksTypeOK
  PROVE  /\ now \in 0..MaxNow /\ task \in [Tasks -> Task] /\ told \in [Tasks -> Told]
         /\ lost \in [Tasks -> Told] /\ apart \in Apart
         /\ run \in [Runs -> Work]
         /\ \A t \in Tasks : /\ task[t].sent \in Nat /\ task[t].sent <= MaxTold
                             /\ task[t].due \in Nat
                             /\ told[t].reminded \in Nat /\ lost[t].reminded \in Nat
                             /\ Called(t) \in Nat
BY TasksAssumption DEF TasksTypeOK, Task, Told, Called

\* Primed, for a step whose types are known.
LEMMA TaskTypesNext ==
  ASSUME TasksTypeOK' PROVE \A t \in Tasks : Called(t)' \in Nat
BY TasksAssumption DEF TasksTypeOK, Told, Called

LEMMA IdleWork == IdleRun \in Work /\ IdleRun.pc = "idle"
<1>1. <<>> \in Seq(SUBSET Tasks)
  BY EmptySeq
<1>2. [t \in Tasks |-> 0] \in [Tasks -> 0..MaxTold]
  BY TasksAssumption
<1>3. QED
  BY <1>1, <1>2, TasksAssumption DEF IdleRun, Work

LEMMA TasksInitInv == ASSUME TasksInit PROVE TInv
<1>1. TasksTypeOK
  BY IdleWork, TasksAssumption DEF TasksInit, TasksTypeOK, Task, Told, Apart
<1>2. \A t \in Tasks : TaskTold(t)
  BY TasksAssumption DEF TasksInit, TaskTold, Called, OwnerTold
<1>3. \A r \in Runs : RunTold(r)
  BY IdleWork DEF TasksInit, RunTold
<1>4. QED
  BY <1>1, <1>2, <1>3 DEF TInv

\* What the telling of one step never takes back.
ToldOnward ==
  \A t \in Tasks : /\ Announced(t) => Announced(t)'
                   /\ Called(t)' >= Called(t)
                   /\ OwnerTold(t) => OwnerTold(t)'
                   /\ Grounds(t) => Grounds(t)'

\* The other requests rest on what was told, and on nothing a step can take back.
LEMMA OthersTold ==
  ASSUME TInv, TasksTypeOK', ToldOnward, NEW q \in Runs, run'[q] = run[q]
  PROVE  RunTold(q)'
<1>1. run[q] \in Work
  BY TaskTypes DEF TInv
<1>2. \A t \in Tasks : /\ Called(t) \in Nat /\ Called(t)' \in Nat
                       /\ run[q].seen[t] \in Nat
  BY <1>1, TaskTypes, TaskTypesNext, TasksAssumption DEF TInv, Work
<1>3. RunTold(q)
  BY DEF TInv
<1>4. run[q].todo \in Seq(SUBSET Tasks)
  BY <1>1 DEF Work
<1>5. \A k \in DOMAIN run[q].todo : run[q].todo[k] \subseteq Tasks
  BY <1>4, ElementOfSeq, LenProperties
<1>6. run[q].pc # "idle" => 1 \in DOMAIN run[q].todo
  BY <1>3, <1>4, EmptySeq, LenProperties DEF RunTold
<1>7. run'[q].pc # "idle" /\ run'[q].kind = "escalate" =>
        \A k \in DOMAIN run'[q].todo : \A t \in run'[q].todo[k] : Grounds(t)'
  BY <1>3, <1>5 DEF RunTold, ToldOnward
<1>8. run'[q].pc = "save" => \A t \in run'[q].todo[1] :
       /\ run'[q].kind = "assign" => Announced(t)'
       /\ run'[q].kind = "remind" => run'[q].seen[t] + 1 <= Called(t)'
       /\ run'[q].kind = "escalate" => OwnerTold(t)'
  BY <1>2, <1>3, <1>5, <1>6 DEF RunTold, ToldOnward
<1>9. run'[q].pc \in {"tell", "save"} => \A t \in Tasks : run'[q].seen[t] <= Called(t)'
  BY <1>2, <1>3 DEF RunTold, ToldOnward
<1>10. QED
  BY <1>3, <1>7, <1>8, <1>9 DEF RunTold

-----------------------------------------------------------------------------
(* Steps of a request *)

\* The request r becomes w; what is told only grows, and the rows agree with it.
LEMMA TaskRunStep ==
  ASSUME TInv, NEW r \in Runs, NEW w \in Work, run' = [run EXCEPT ![r] = w],
         TasksTypeOK', ToldOnward, \A t \in Tasks : TaskTold(t)', RunTold(r)'
  PROVE  TInv'
<1>1. \A q \in Runs \ {r} : run'[q] = run[q]
  BY TaskTypes DEF TInv
<1>2. QED
  BY <1>1, OthersTold DEF TInv

LEMMA SameTold == ASSUME TInv, UNCHANGED <<told, lost, apart>> PROVE ToldOnward
<1>1. \A t \in Tasks : Called(t)' = Called(t) /\ Called(t) \in Nat
  BY TaskTypes DEF TInv, Called
<1>2. QED
  BY <1>1 DEF ToldOnward, Announced, OwnerTold, Grounds

\* A request begins with a list of transactions.
LEMMA StartStep ==
  ASSUME TInv, NEW r \in Runs, NEW kind \in {"assign", "remind", "escalate"},
         NEW todo \in Seq(SUBSET Tasks), NEW when \in 0..MaxNow, Start(r, kind, todo, when),
         kind = "escalate" =>
           \A k \in DOMAIN todo : \A t \in todo[k] : Grounds(t)',
         UNCHANGED <<now, told, lost>>, apart' \in Apart, apart.asked \subseteq apart'.asked,
         task' \in [Tasks -> Task], \A t \in Tasks : TaskTold(t)'
  PROVE  TInv'
<1> DEFINE w == [IdleRun EXCEPT !.pc = "load", !.kind = kind, !.todo = todo, !.due = when]
<1>1. /\ w \in Work /\ w.pc = "load" /\ w.kind = kind /\ w.todo = todo
  BY IdleWork DEF Work
<1>2. todo # <<>> /\ run' = [run EXCEPT ![r] = w]
  BY DEF Start
<1> HIDE DEF w
<1>3. run' \in [Runs -> Work] /\ run'[r] = w
  BY <1>1, <1>2, TaskTypes DEF TInv
<1>4. TasksTypeOK'
  BY <1>3 DEF TInv, TasksTypeOK
<1>5. RunTold(r)'
  BY <1>1, <1>2, <1>3 DEF RunTold
<1>6. \A t \in Tasks : Called(t)' = Called(t) /\ Called(t) \in Nat
  BY TaskTypes DEF TInv, Called
<1>7. ToldOnward
  BY <1>6 DEF ToldOnward, Announced, OwnerTold, Grounds
<1>8. QED
  BY <1>1, <1>2, <1>4, <1>5, <1>7, TaskRunStep

\* One transaction per task of S.
LEMMA OneByOneOf ==
  ASSUME NEW S \in SUBSET Tasks, NEW todo \in OneByOne(S)
  PROVE  todo \in Seq(SUBSET Tasks) /\ \A k \in DOMAIN todo : todo[k] \subseteq S
<1> DEFINE n == Cardinality(S)
           Sets == SUBSET Tasks
<1>1. n \in Nat
  BY TasksAssumption, FS_Subset, FS_CardinalityType
<1>2. PICK q \in [1..n -> S] : todo = [k \in DOMAIN q |-> {q[k]}]
  BY DEF OneByOne
<1>3. todo \in [1..n -> Sets] /\ \A k \in DOMAIN todo : todo[k] \subseteq S
  BY <1>2
<1> HIDE DEF n, Sets
<1>4. todo \in Seq(Sets)
  BY <1>1, <1>3, SeqDef
<1>5. QED
  BY <1>3, <1>4 DEF Sets

\* A list of one transaction.
LEMMA OneOf ==
  ASSUME NEW S \in SUBSET Tasks
  PROVE  <<S>> \in Seq(SUBSET Tasks) /\ \A k \in DOMAIN <<S>> : <<S>>[k] \subseteq S
OBVIOUS

\* The rows are as they were.
LEMMA SameRows ==
  ASSUME TInv, UNCHANGED <<task, told, lost, apart>>
  PROVE  task' \in [Tasks -> Task] /\ \A t \in Tasks : TaskTold(t)'
BY TaskTypes DEF TInv, TaskTold, Announced, Called, OwnerTold, Grounds

\* Reminders and assignments begin; nothing else changes.
LEMMA BeginsStep ==
  ASSUME TInv, NEW r \in Runs, NEW kind \in {"assign", "remind"}, NEW todo \in Seq(SUBSET Tasks),
         NEW when \in 0..MaxNow, Start(r, kind, todo, when), UNCHANGED <<now, task, told, lost, apart>>
  PROVE  TInv'
BY SameRows, StartStep, TaskTypes DEF TInv

LEMMA AssignStep == ASSUME TInv, NEW r \in Runs, Assign(r) PROVE TInv'
<1>1. PICK t \in Tasks, when \in 0..MaxNow : Start(r, "assign", <<{t}>>, when)
  BY DEF Assign
<1> DEFINE todo == <<{t}>>
<1>2. todo \in Seq(SUBSET Tasks)
  BY OneOf
<1>3. Start(r, "assign", todo, when) /\ UNCHANGED <<now, task, told, lost, apart>>
  BY <1>1 DEF Assign
<1> HIDE DEF todo
<1>4. QED
  BY <1>2, <1>3, BeginsStep

LEMMA RemindOverdueStep == ASSUME TInv, NEW r \in Runs, RemindOverdue(r) PROVE TInv'
<1> DEFINE S == {t \in Tasks : task[t].status = "open" /\ Overdue(t)}
<1>1. PICK todo \in OneByOne(S) : Start(r, "remind", todo, 0)
  BY DEF RemindOverdue
<1>2. S \in SUBSET Tasks /\ 0 \in 0..MaxNow
  BY TasksAssumption
<1> HIDE DEF S
<1>3. todo \in Seq(SUBSET Tasks)
  BY <1>2, OneByOneOf
<1>4. QED
  BY <1>1, <1>2, <1>3, BeginsStep DEF RemindOverdue

LEMMA RemindStaffStep == ASSUME TInv, NEW r \in Runs, RemindStaff(r) PROVE TInv'
<1>1. PICK S \in SUBSET Tasks : Start(r, "remind", <<S>>, 0)
  BY DEF RemindStaff
<1> DEFINE todo == <<S>>
<1>2. todo \in Seq(SUBSET Tasks) /\ 0 \in 0..MaxNow
  BY OneOf, TasksAssumption
<1>3. Start(r, "remind", todo, 0) /\ UNCHANGED <<now, task, told, lost, apart>>
  BY <1>1 DEF RemindStaff
<1> HIDE DEF todo
<1>4. QED
  BY <1>2, <1>3, BeginsStep

LEMMA SchedulerStep == ASSUME TInv, NEW r \in Runs, Scheduler(r) PROVE TInv'
<1>1. UNCHANGED <<now, task, told, lost, apart>> /\ 0 \in 0..MaxNow
  BY TasksAssumption DEF Scheduler
<1>2. RemindersDue \in SUBSET Tasks /\ EscalationsDue \in SUBSET Tasks
  BY DEF RemindersDue, EscalationsDue, Watched
<1>3. CASE \E q \in OneByOne(RemindersDue) : Start(r, "remind", q, 0)
  BY <1>1, <1>2, <1>3, OneByOneOf, BeginsStep
<1>4. CASE \E q \in OneByOne(EscalationsDue) : Start(r, "escalate", q, 0)
  <2>1. PICK q \in OneByOne(EscalationsDue) : Start(r, "escalate", q, 0)
    BY <1>4
  <2>2. q \in Seq(SUBSET Tasks) /\ \A k \in DOMAIN q : q[k] \subseteq EscalationsDue
    BY <1>2, OneByOneOf
  <2>3. \A t \in EscalationsDue : Grounds(t)'
    <3> SUFFICES ASSUME NEW t \in EscalationsDue PROVE Grounds(t)'
      OBVIOUS
    <3>1. t \in Tasks /\ task[t].sent >= EscalateAfter
      BY <1>2 DEF EscalationsDue
    <3>2. task[t].sent <= Called(t) /\ task[t].sent \in Nat /\ Called(t) \in Nat
      BY <3>1, TaskTypes DEF TInv, TaskTold
    <3>3. Grounds(t)
      BY <3>1, <3>2 DEF EscalateAfter, Grounds
    <3>4. QED
      BY <1>1, <3>1, <3>3, SameTold DEF ToldOnward
  <2>4. \A k \in DOMAIN q : \A t \in q[k] : Grounds(t)'
    BY <2>2, <2>3
  <2>5. QED
    BY <1>1, <2>1, <2>2, <2>4, SameRows, StartStep, TaskTypes DEF TInv
<1>5. QED
  BY <1>3, <1>4 DEF Scheduler

\* What is seeded and asked for only grows.
LEMMA OddIs ==
  ASSUME TInv, NEW seeds \in SUBSET Tasks, NEW asks \in SUBSET Tasks, Odd(seeds, asks)
  PROVE  /\ apart' \in Apart /\ apart'.seeded = apart.seeded \cup seeds
         /\ apart'.asked = apart.asked \cup asks
<1>1. apart \in Apart /\ apart.odd + 1 \in 0..MaxOdd
  BY TaskTypes, TasksAssumption DEF TInv, Odd, Apart
<1>2. QED
  BY <1>1 DEF Odd, Apart

LEMMA InjectEventStep == ASSUME TInv, NEW r \in Runs, InjectEvent(r) PROVE TInv'
<1>1. UNCHANGED <<now, task, told, lost>> /\ 0 \in 0..MaxNow
  BY TasksAssumption DEF InjectEvent
<1> DEFINE Reminds(t) == Start(r, "remind", <<{t}>>, 0) /\ Odd({}, {})
           Escalates(t) == Start(r, "escalate", <<{t}>>, 0) /\ Odd({}, {t})
<1>a. \E t \in Tasks : task[t].status # "none" /\ (Reminds(t) \/ Escalates(t))
  BY DEF InjectEvent
<1> HIDE DEF Reminds, Escalates
<1>b. PICK t \in Tasks : Reminds(t) \/ Escalates(t)
  BY <1>a
<1> DEFINE todo == <<{t}>>
<1>2. \/ Start(r, "remind", todo, 0) /\ Odd({}, {})
      \/ Start(r, "escalate", todo, 0) /\ Odd({}, {t})
  BY <1>b DEF Reminds, Escalates
<1>3. todo \in Seq(SUBSET Tasks) /\ \A k \in DOMAIN todo : todo[k] \subseteq {t}
  BY OneOf
<1>4. /\ apart' \in Apart /\ apart'.seeded = apart.seeded /\ apart.asked \subseteq apart'.asked
      /\ Start(r, "escalate", todo, 0) /\ Odd({}, {t}) => t \in apart'.asked
  <2>1. {} \in SUBSET Tasks /\ {t} \in SUBSET Tasks
    OBVIOUS
  <2>2. \A asks \in SUBSET Tasks : Odd({}, asks) =>
          /\ apart' \in Apart /\ apart'.seeded = apart.seeded \cup {}
          /\ apart'.asked = apart.asked \cup asks
    BY <2>1, OddIs
  <2>3. CASE Odd({}, {}) /\ ~Odd({}, {t})
    BY <2>1, <2>2, <2>3
  <2>4. CASE Odd({}, {t})
    BY <2>1, <2>2, <2>4
  <2>5. QED
    BY <1>2, <2>3, <2>4
<1>5. task' \in [Tasks -> Task] /\ \A q \in Tasks : TaskTold(q)'
  BY <1>1, <1>4, TaskTypes DEF TInv, TaskTold, Announced, Called, OwnerTold, Grounds
<1>6. CASE Start(r, "remind", todo, 0)
  <2> HIDE DEF todo
  <2>1. QED
    BY <1>1, <1>3, <1>4, <1>5, <1>6, StartStep
<1>7. CASE Start(r, "escalate", todo, 0) /\ Odd({}, {t})
  <2>1. \A k \in DOMAIN todo : \A q \in todo[k] : Grounds(q)'
    <3> HIDE DEF todo
    <3>1. \A q \in {t} : Grounds(q)'
      BY <1>4, <1>7 DEF Grounds
    <3>2. QED
      BY <1>3, <3>1
  <2> HIDE DEF todo
  <2>2. QED
    BY <1>1, <1>3, <1>4, <1>5, <1>7, <2>1, StartStep
<1>8. QED
  BY <1>2, <1>6, <1>7

\* A request at work has a first transaction, about tasks.
LEMMA FirstOf ==
  ASSUME TInv, NEW r \in Runs, run[r].pc # "idle"
  PROVE  LET todo == run[r].todo
         IN /\ run[r] \in Work /\ todo \in Seq(SUBSET Tasks) /\ todo # <<>>
            /\ 1 \in DOMAIN todo /\ Head(todo) = todo[1] /\ todo[1] \subseteq Tasks
<1> DEFINE todo == run[r].todo
<1>1. run[r] \in Work /\ RunTold(r)
  BY TaskTypes DEF TInv
<1>2. todo \in Seq(SUBSET Tasks) /\ todo # <<>>
  BY <1>1 DEF Work, RunTold
<1>3. 1 \in 1..Len(todo) /\ DOMAIN todo = 1..Len(todo) /\ Head(todo) = todo[1]
  BY <1>2, EmptySeq, LenProperties
<1>4. todo[1] \in SUBSET Tasks
  BY <1>2, <1>3, ElementOfSeq
<1>5. QED
  BY <1>1, <1>2, <1>3, <1>4

LEMMA LoadStep == ASSUME TInv, NEW r \in Runs, Load(r) PROVE TInv'
<1> DEFINE seen == [t \in Tasks |-> IF t \in Head(run[r].todo) THEN task[t].sent ELSE 0]
           w == [run[r] EXCEPT !.pc = "tell", !.seen = seen]
<1>1. run[r].pc = "load" /\ run' = [run EXCEPT ![r] = w] /\ UNCHANGED <<now, task, told, lost, apart>>
  BY DEF Load
<1>2. run[r] \in Work
  BY <1>1, FirstOf
<1>3. /\ seen \in [Tasks -> 0..MaxTold]
      /\ \A t \in Tasks : seen[t] = 0 \/ seen[t] = task[t].sent
  BY TaskTypes, TasksAssumption DEF TInv
<1>4. \A t \in Tasks : seen[t] <= Called(t)
  BY <1>3, TaskTypes DEF TInv, TaskTold
<1> HIDE DEF seen
<1>5. w \in Work /\ w.pc = "tell" /\ w.seen = seen /\ w.todo = run[r].todo /\ w.kind = run[r].kind
  BY <1>2, <1>3 DEF Work
<1> HIDE DEF w
<1>6. run' \in [Runs -> Work] /\ run'[r] = w
  BY <1>1, <1>5, TaskTypes DEF TInv
<1>7. TasksTypeOK'
  BY <1>1, <1>6 DEF TInv, TasksTypeOK
<1>8. RunTold(r)'
  <2>1. \A t \in Tasks : Called(t)' = Called(t) /\ (Grounds(t) => Grounds(t)')
    BY <1>1 DEF Called, Grounds
  <2>2. RunTold(r) /\ run[r].todo \in Seq(SUBSET Tasks)
    BY <1>2 DEF TInv, Work
  <2>3. \A k \in DOMAIN run[r].todo : run[r].todo[k] \subseteq Tasks
    BY <2>2, ElementOfSeq, LenProperties
  <2>4. run[r].kind = "escalate" =>
          \A k \in DOMAIN run[r].todo : \A t \in run[r].todo[k] : Grounds(t)'
    BY <1>1, <2>1, <2>2, <2>3 DEF RunTold
  <2>5. \A t \in Tasks : seen[t] <= Called(t)'
    BY <1>4, <2>1
  <2>6. QED
    BY <1>1, <1>5, <1>6, <2>2, <2>4, <2>5 DEF RunTold
<1>9. QED
  BY <1>1, <1>5, <1>7, <1>8, SameRows, SameTold, TaskRunStep

\* What a notification adds: it never takes back what was noted, and notes one thing.
LEMMA NotedIs ==
  ASSUME NEW notes \in [Tasks -> Told], NEW S \in SUBSET Tasks,
         NEW kind \in {"assign", "remind", "escalate"},
         kind = "remind" => \A t \in S : notes[t].reminded < MaxTold
  PROVE  LET new == Noted(notes, S, kind)
         IN /\ new \in [Tasks -> Told]
            /\ \A t \in Tasks :
                 /\ notes[t].assigned => new[t].assigned
                 /\ notes[t].owner => new[t].owner
                 /\ new[t].owner => notes[t].owner \/ (t \in S /\ kind = "escalate")
                 /\ t \in S /\ kind = "assign" => new[t].assigned
                 /\ t \in S /\ kind = "escalate" => new[t].owner
                 /\ new[t].reminded = notes[t].reminded + (IF t \in S /\ kind = "remind" THEN 1 ELSE 0)
<1> DEFINE new == Noted(notes, S, kind)
           Is(n, t) ==
                 /\ n \in Told
                 /\ notes[t].assigned => n.assigned
                 /\ notes[t].owner => n.owner
                 /\ n.owner => notes[t].owner \/ (t \in S /\ kind = "escalate")
                 /\ t \in S /\ kind = "assign" => n.assigned
                 /\ t \in S /\ kind = "escalate" => n.owner
                 /\ n.reminded = notes[t].reminded + (IF t \in S /\ kind = "remind" THEN 1 ELSE 0)
<1>1. new = [t \in Tasks |->
               IF t \notin S THEN notes[t]
               ELSE CASE kind = "assign" -> [notes[t] EXCEPT !.assigned = TRUE]
                      [] kind = "remind" -> [notes[t] EXCEPT !.reminded = notes[t].reminded + 1]
                      [] kind = "escalate" -> [notes[t] EXCEPT !.owner = TRUE]]
  BY DEF Noted
<1> HIDE DEF new
<1>2. ASSUME NEW t \in Tasks PROVE Is(new[t], t)
  <2>1. /\ notes[t] \in Told /\ notes[t].reminded \in Nat /\ notes[t].reminded <= MaxTold
        /\ notes[t].assigned \in BOOLEAN /\ notes[t].owner \in BOOLEAN
    BY TasksAssumption DEF Told
  <2>2. CASE t \notin S
    <3>1. new[t] = notes[t]
      BY <1>1, <2>2
    <3>2. QED
      BY <2>1, <2>2, <3>1
  <2>3. CASE t \in S /\ kind = "assign"
    <3>1. new[t] = [notes[t] EXCEPT !.assigned = TRUE]
      BY <1>1, <2>3
    <3>2. new[t] \in Told
      BY <2>1, <3>1 DEF Told
    <3>3. /\ new[t].assigned = TRUE /\ new[t].reminded = notes[t].reminded
          /\ new[t].owner = notes[t].owner
      BY <2>1, <3>1 DEF Told
    <3>4. new[t].reminded = notes[t].reminded + (IF t \in S /\ kind = "remind" THEN 1 ELSE 0)
      BY <2>1, <2>3, <3>3
    <3>5. kind # "escalate"
      BY <2>3
    <3>6. QED
      BY <2>3, <3>2, <3>3, <3>4, <3>5, Zenon
  <2>4. CASE t \in S /\ kind = "remind"
    <3>1. new[t] = [notes[t] EXCEPT !.reminded = notes[t].reminded + 1]
      BY <1>1, <2>4
    <3>2. notes[t].reminded + 1 \in 0..MaxTold
      BY <2>1, <2>4, TasksAssumption
    <3>3. new[t] \in Told
      BY <2>1, <3>1, <3>2 DEF Told
    <3>4. /\ new[t].assigned = notes[t].assigned /\ new[t].reminded = notes[t].reminded + 1
          /\ new[t].owner = notes[t].owner
      BY <2>1, <3>1 DEF Told
    <3>5. new[t].reminded = notes[t].reminded + (IF t \in S /\ kind = "remind" THEN 1 ELSE 0)
      BY <2>4, <3>4
    <3>6. kind # "escalate" /\ kind # "assign"
      BY <2>4
    <3>7. QED
      BY <3>3, <3>4, <3>5, <3>6, Zenon
  <2>5. CASE t \in S /\ kind = "escalate"
    <3>1. new[t] = [notes[t] EXCEPT !.owner = TRUE]
      BY <1>1, <2>5
    <3>2. new[t] \in Told
      BY <2>1, <3>1 DEF Told
    <3>3. /\ new[t].owner = TRUE /\ new[t].reminded = notes[t].reminded
          /\ new[t].assigned = notes[t].assigned
      BY <2>1, <3>1 DEF Told
    <3>4. new[t].reminded = notes[t].reminded + (IF t \in S /\ kind = "remind" THEN 1 ELSE 0)
      BY <2>1, <2>5, <3>3
    <3>5. kind # "assign"
      BY <2>5
    <3>6. QED
      BY <2>5, <3>2, <3>3, <3>4, <3>5, Zenon
  <2> HIDE DEF Is
  <2>6. QED
    BY <2>2, <2>3, <2>4, <2>5
<1>3. new \in [Tasks -> Told]
  BY <1>1, <1>2
<1>4. QED
  BY <1>2, <1>3 DEF new

\* A notification is told or dropped; either way it was handed over.
LEMMA TellNotes ==
  ASSUME TInv, NEW r \in Runs, Tell(r)
  PROVE  /\ told' \in [Tasks -> Told] /\ lost' \in [Tasks -> Told] /\ apart' \in Apart
         /\ apart'.seeded = apart.seeded /\ apart'.asked = apart.asked
         /\ \A t \in Tasks :
              /\ Called(t)' \in Nat /\ Called(t)' <= MaxTold
              /\ Called(t)' = Called(t) + (IF t \in Head(run[r].todo) /\ run[r].kind = "remind" THEN 1 ELSE 0)
              /\ Announced(t) => Announced(t)'
              /\ OwnerTold(t) => OwnerTold(t)'
              /\ OwnerTold(t)' => OwnerTold(t) \/ (t \in Head(run[r].todo) /\ run[r].kind = "escalate")
              /\ t \in Head(run[r].todo) /\ run[r].kind = "assign" => Announced(t)'
              /\ t \in Head(run[r].todo) /\ run[r].kind = "escalate" => OwnerTold(t)'
<1> DEFINE S == Head(run[r].todo)
           kind == run[r].kind
           more(t) == IF t \in S /\ kind = "remind" THEN 1 ELSE 0
<1>1. /\ run[r].pc = "tell"
      /\ \A t \in S : kind = "remind" => told[t].reminded + lost[t].reminded < MaxTold
      /\ \/ told' = Noted(told, S, kind) /\ UNCHANGED <<lost, apart>>
         \/ lost' = Noted(lost, S, kind) /\ Odd({}, {}) /\ UNCHANGED told
  BY DEF Tell
<1>2. S \in SUBSET Tasks /\ kind \in {"assign", "remind", "escalate"}
  BY <1>1, FirstOf DEF Work
<1>3. /\ told \in [Tasks -> Told] /\ lost \in [Tasks -> Told] /\ apart \in Apart
      /\ \A t \in Tasks : /\ told[t].reminded \in Nat /\ lost[t].reminded \in Nat
                          /\ Called(t) \in Nat /\ Called(t) <= MaxTold
  BY TaskTypes DEF TInv, TaskTold
<1> HIDE DEF S, kind
<1>4. kind = "remind" => \A t \in S : told[t].reminded < MaxTold /\ lost[t].reminded < MaxTold
  BY <1>1, <1>2, <1>3, TasksAssumption
<1>5. /\ apart' \in Apart /\ apart'.seeded = apart.seeded /\ apart'.asked = apart.asked
  <2>1. CASE UNCHANGED apart
    BY <1>3, <2>1
  <2>2. CASE Odd({}, {})
    <3> DEFINE none == {}
    <3>1. none \in SUBSET Tasks /\ Odd(none, none)
      BY <2>2
    <3> HIDE DEF none
    <3>2. /\ apart' \in Apart /\ apart'.seeded = apart.seeded \cup none
          /\ apart'.asked = apart.asked \cup none
      BY <3>1, OddIs
    <3>3. QED
      BY <3>2 DEF none
  <2>3. QED
    BY <1>1, <2>1, <2>2
<1>6. ASSUME NEW t \in Tasks PROVE Called(t)' = Called(t) + more(t) => Called(t)' \in Nat /\ Called(t)' <= MaxTold
  BY <1>1, <1>2, <1>3, <1>6, TasksAssumption DEF Called
<1>7. CASE told' = Noted(told, S, kind) /\ UNCHANGED <<lost, apart>>
  <2>1. /\ told' \in [Tasks -> Told]
        /\ \A t \in Tasks :
             /\ told[t].assigned => told'[t].assigned
             /\ told[t].owner => told'[t].owner
             /\ told'[t].owner => told[t].owner \/ (t \in S /\ kind = "escalate")
             /\ t \in S /\ kind = "assign" => told'[t].assigned
             /\ t \in S /\ kind = "escalate" => told'[t].owner
             /\ told'[t].reminded = told[t].reminded + more(t)
    BY <1>2, <1>3, <1>4, <1>7, NotedIs
  <2> HIDE DEF more
  <2>2. lost' = lost
    BY <1>7
  <2>3. \A t \in Tasks : more(t) \in Nat
    BY DEF more
  <2>4. \A t \in Tasks : Called(t)' = Called(t) + more(t)
    BY <1>3, <2>1, <2>2, <2>3 DEF Called
  <2>5. \A t \in Tasks :
          /\ Announced(t) => Announced(t)'
          /\ OwnerTold(t) => OwnerTold(t)'
          /\ OwnerTold(t)' => OwnerTold(t) \/ (t \in S /\ kind = "escalate")
          /\ t \in S /\ kind = "assign" => Announced(t)'
          /\ t \in S /\ kind = "escalate" => OwnerTold(t)'
    BY <2>1, <2>2, Zenon DEF Announced, OwnerTold
  <2>6. QED
    BY <1>3, <1>5, <1>6, <2>1, <2>2, <2>4, <2>5 DEF more, S, kind
<1>8. CASE lost' = Noted(lost, S, kind) /\ Odd({}, {}) /\ UNCHANGED told
  <2>1. /\ lost' \in [Tasks -> Told]
        /\ \A t \in Tasks :
             /\ lost[t].assigned => lost'[t].assigned
             /\ lost[t].owner => lost'[t].owner
             /\ lost'[t].owner => lost[t].owner \/ (t \in S /\ kind = "escalate")
             /\ t \in S /\ kind = "assign" => lost'[t].assigned
             /\ t \in S /\ kind = "escalate" => lost'[t].owner
             /\ lost'[t].reminded = lost[t].reminded + more(t)
    BY <1>2, <1>3, <1>4, <1>8, NotedIs
  <2> HIDE DEF more
  <2>2. told' = told
    BY <1>8
  <2>3. \A t \in Tasks : more(t) \in Nat
    BY DEF more
  <2>4. \A t \in Tasks : Called(t)' = Called(t) + more(t)
    BY <1>3, <2>1, <2>2, <2>3 DEF Called
  <2>5. \A t \in Tasks :
          /\ Announced(t) => Announced(t)'
          /\ OwnerTold(t) => OwnerTold(t)'
          /\ OwnerTold(t)' => OwnerTold(t) \/ (t \in S /\ kind = "escalate")
          /\ t \in S /\ kind = "assign" => Announced(t)'
          /\ t \in S /\ kind = "escalate" => OwnerTold(t)'
    BY <2>1, <2>2, Zenon DEF Announced, OwnerTold
  <2>6. QED
    BY <1>3, <1>5, <1>6, <2>1, <2>2, <2>4, <2>5 DEF more, S, kind
<1>9. QED
  BY <1>1, <1>7, <1>8

LEMMA TellStep == ASSUME TInv, NEW r \in Runs, Tell(r) PROVE TInv'
<1> DEFINE S == Head(run[r].todo)
           w == [run[r] EXCEPT !.pc = "save"]
<1>1. run[r].pc = "tell" /\ run' = [run EXCEPT ![r] = w] /\ UNCHANGED <<now, task>>
  BY DEF Tell
<1>2. /\ run[r] \in Work /\ S \subseteq Tasks /\ S = run[r].todo[1] /\ 1 \in DOMAIN run[r].todo
      /\ RunTold(r) /\ run[r].kind \in {"assign", "remind", "escalate"}
  BY <1>1, FirstOf DEF TInv, Work
<1>3. /\ told' \in [Tasks -> Told] /\ lost' \in [Tasks -> Told] /\ apart' \in Apart
      /\ apart'.seeded = apart.seeded /\ apart'.asked = apart.asked
      /\ \A t \in Tasks :
           /\ Called(t)' \in Nat /\ Called(t)' <= MaxTold
           /\ Called(t)' = Called(t) + (IF t \in S /\ run[r].kind = "remind" THEN 1 ELSE 0)
           /\ Announced(t) => Announced(t)'
           /\ OwnerTold(t) => OwnerTold(t)'
           /\ OwnerTold(t)' => OwnerTold(t) \/ (t \in S /\ run[r].kind = "escalate")
           /\ t \in S /\ run[r].kind = "assign" => Announced(t)'
           /\ t \in S /\ run[r].kind = "escalate" => OwnerTold(t)'
  BY TellNotes
<1>4. \A t \in Tasks : Called(t) \in Nat /\ Called(t)' >= Called(t) /\ (Grounds(t) => Grounds(t)')
  BY <1>3, TaskTypes DEF TInv, Grounds, EscalateAfter
<1>5. ToldOnward
  BY <1>3, <1>4 DEF ToldOnward
<1>6. /\ w \in Work /\ w.pc = "save" /\ w.seen = run[r].seen /\ w.todo = run[r].todo
      /\ w.kind = run[r].kind
  BY <1>2 DEF Work
<1> HIDE DEF w
<1>7. run' \in [Runs -> Work] /\ run'[r] = w
  BY <1>1, <1>6, TaskTypes DEF TInv
<1>8. TasksTypeOK'
  BY <1>1, <1>3, <1>7 DEF TInv, TasksTypeOK
<1>9. \A t \in Tasks : run[r].seen[t] \in Nat /\ run[r].seen[t] <= Called(t)
  BY <1>1, <1>2, TasksAssumption DEF RunTold, Work
<1>10. run[r].kind = "escalate" => \A k \in DOMAIN run[r].todo : \A t \in run[r].todo[k] : Grounds(t)
  BY <1>1, <1>2 DEF RunTold
<1>11. \A t \in Tasks : TaskTold(t)'
  <2> SUFFICES ASSUME NEW t \in Tasks PROVE TaskTold(t)'
    OBVIOUS
  <2>1. TaskTold(t) /\ task[t].sent \in Nat /\ task'[t] = task[t]
    BY <1>1, TaskTypes DEF TInv
  <2>2. OwnerTold(t)' => Grounds(t)'
    BY <1>2, <1>3, <1>4, <1>10, <2>1 DEF TaskTold
  <2>3. task'[t].sent <= Called(t)' /\ Called(t)' <= MaxTold
    BY <1>3, <1>4, <2>1 DEF TaskTold
  <2>4. /\ task'[t].status # "none" => Announced(t)' \/ t \in apart'.seeded
        /\ task'[t].escalated => OwnerTold(t)'
    BY <1>3, <2>1, Zenon DEF TaskTold
  <2>5. QED
    BY <2>2, <2>3, <2>4 DEF TaskTold
<1>12. RunTold(r)'
  <2>1. \A k \in DOMAIN run[r].todo : run[r].todo[k] \subseteq Tasks
    BY <1>2, ElementOfSeq, LenProperties DEF Work
  <2>2. run[r].kind = "escalate" =>
          \A k \in DOMAIN run[r].todo : \A t \in run[r].todo[k] : Grounds(t)'
    BY <1>4, <1>10, <2>1
  <2>3. \A t \in Tasks : run[r].seen[t] <= Called(t)'
    BY <1>3, <1>4, <1>9
  <2>4. \A t \in run[r].todo[1] :
          /\ run[r].kind = "assign" => Announced(t)'
          /\ run[r].kind = "remind" => run[r].seen[t] + 1 <= Called(t)'
          /\ run[r].kind = "escalate" => OwnerTold(t)'
    BY <1>2, <1>3, <1>4, <1>9
  <2>5. QED
    BY <1>1, <1>2, <1>6, <1>7, <2>2, <2>3, <2>4 DEF RunTold
<1>13. QED
  BY <1>1, <1>5, <1>6, <1>8, <1>11, <1>12, TaskRunStep

LEMMA SaveStep == ASSUME TInv, NEW r \in Runs, Save(r) PROVE TInv'
<1> DEFINE S == Head(run[r].todo)
           new(t) == IF t \notin S THEN task[t]
                     ELSE CASE run[r].kind = "assign" ->
                                 [task[t] EXCEPT !.status = "open", !.due = run[r].due]
                            [] run[r].kind = "remind" ->
                                 [task[t] EXCEPT !.sent = run[r].seen[t] + 1]
                            [] OTHER -> [task[t] EXCEPT !.escalated = TRUE]
           rest == Tail(run[r].todo)
           w == IF Len(run[r].todo) = 1 THEN IdleRun
                ELSE [IdleRun EXCEPT !.pc = "load", !.kind = run[r].kind, !.todo = rest]
<1>1. /\ run[r].pc = "save" /\ run' = [run EXCEPT ![r] = w] /\ UNCHANGED <<now, told, lost, apart>>
      /\ task' = [t \in Tasks |-> new(t)]
  BY DEF Save
<1>2. /\ run[r] \in Work /\ S \subseteq Tasks /\ S = run[r].todo[1] /\ 1 \in DOMAIN run[r].todo
      /\ run[r].todo \in Seq(SUBSET Tasks) /\ run[r].todo # <<>>
      /\ RunTold(r) /\ run[r].kind \in {"assign", "remind", "escalate"}
  BY <1>1, FirstOf DEF TInv, Work
<1>3. run[r].due \in 0..MaxNow /\ \A t \in Tasks : run[r].seen[t] \in Nat
  BY <1>2, TasksAssumption DEF Work
<1>4. ASSUME NEW t \in Tasks PROVE task'[t] \in Task /\ TaskTold(t)'
  <2>1. /\ task[t] \in Task /\ task'[t] = new(t) /\ TaskTold(t)
        /\ Called(t) \in Nat /\ Called(t) <= MaxTold
        /\ Called(t)' = Called(t) /\ (Announced(t)' <=> Announced(t))
        /\ (OwnerTold(t)' <=> OwnerTold(t)) /\ (Grounds(t)' <=> Grounds(t))
        /\ apart' = apart
    BY <1>1, TaskTypes DEF TInv, TaskTold, Announced, Called, OwnerTold, Grounds
  <2>2. CASE t \notin S
    BY <2>1, <2>2 DEF TaskTold
  <2>3. CASE t \in S /\ run[r].kind = "assign"
    <3>1. task'[t] = [task[t] EXCEPT !.status = "open", !.due = run[r].due]
      BY <2>1, <2>3
    <3>2. task'[t] \in Task
      BY <1>3, <2>1, <3>1 DEF Task
    <3>3. task'[t].sent = task[t].sent /\ task'[t].escalated = task[t].escalated
      BY <2>1, <3>1 DEF Task
    <3>4. Announced(t)
      BY <1>1, <1>2, <2>3, Zenon DEF RunTold
    <3>5. QED
      BY <2>1, <3>2, <3>3, <3>4, Zenon DEF TaskTold
  <2>4. CASE t \in S /\ run[r].kind = "remind"
    <3>1. task'[t] = [task[t] EXCEPT !.sent = run[r].seen[t] + 1]
      BY <2>1, <2>4
    <3>2. run[r].seen[t] + 1 <= Called(t)
      BY <1>1, <1>2, <2>4 DEF RunTold
    <3>3. task'[t] \in Task
      BY <1>3, <2>1, <3>1, <3>2, TasksAssumption DEF Task
    <3>4. /\ task'[t].status = task[t].status /\ task'[t].escalated = task[t].escalated
          /\ task'[t].sent = run[r].seen[t] + 1
      BY <2>1, <3>1 DEF Task
    <3>5. task'[t].sent <= Called(t)'
      BY <2>1, <3>2, <3>4
    <3>6. QED
      BY <2>1, <3>3, <3>4, <3>5, Zenon DEF TaskTold
  <2>5. CASE t \in S /\ run[r].kind = "escalate"
    <3>1. task'[t] = [task[t] EXCEPT !.escalated = TRUE]
      BY <2>1, <2>5
    <3>2. task'[t] \in Task
      BY <2>1, <3>1 DEF Task
    <3>3. task'[t].sent = task[t].sent /\ task'[t].status = task[t].status
      BY <2>1, <3>1 DEF Task
    <3>4. OwnerTold(t)
      BY <1>1, <1>2, <2>5, Zenon DEF RunTold
    <3>5. QED
      BY <2>1, <3>2, <3>3, <3>4, Zenon DEF TaskTold
  <2>6. QED
    BY <1>2, <2>2, <2>3, <2>4, <2>5
<1>5. /\ w \in Work /\ w.pc \in {"idle", "load"}
      /\ w.pc = "load" => w.todo = rest /\ w.kind = run[r].kind /\ Len(run[r].todo) # 1
  <2>1. CASE Len(run[r].todo) = 1
    BY <2>1, IdleWork
  <2>2. CASE Len(run[r].todo) # 1
    <3>1. rest \in Seq(SUBSET Tasks)
      BY <1>2, HeadTailProperties
    <3> HIDE DEF rest
    <3>2. QED
      BY <1>2, <2>2, <3>1, IdleWork DEF Work
  <2>3. QED
    BY <2>1, <2>2
<1>6. Len(run[r].todo) # 1 =>
        /\ rest # <<>>
        /\ \A k \in DOMAIN rest : k + 1 \in DOMAIN run[r].todo /\ rest[k] = run[r].todo[k + 1]
  <2>1. /\ rest \in Seq(SUBSET Tasks) /\ Len(rest) = Len(run[r].todo) - 1
        /\ \A k \in 1..Len(rest) : rest[k] = run[r].todo[k + 1]
        /\ DOMAIN rest = 1..Len(rest) /\ DOMAIN run[r].todo = 1..Len(run[r].todo)
        /\ Len(run[r].todo) \in Nat
    BY <1>2, HeadTailProperties, LenProperties
  <2> HIDE DEF rest
  <2>2. Len(run[r].todo) # 1 => rest # <<>>
    <3>1. Len(run[r].todo) # 0
      BY <1>2, EmptySeq
    <3>2. ASSUME Len(run[r].todo) # 1 PROVE Len(rest) # 0
      BY <2>1, <3>1, <3>2
    <3>3. rest = <<>> => Len(rest) = 0
      OBVIOUS
    <3>4. QED
      BY <3>2, <3>3
  <2>3. \A k \in 1..Len(rest) : k + 1 \in 1..Len(run[r].todo)
    BY <2>1
  <2>4. QED
    BY <2>1, <2>2, <2>3
<1> HIDE DEF w, new, rest
<1>7. run' \in [Runs -> Work] /\ run'[r] = w
  BY <1>1, <1>5, TaskTypes DEF TInv
<1>8. task' \in [Tasks -> Task]
  BY <1>1, <1>4
<1>9. TasksTypeOK'
  BY <1>1, <1>7, <1>8 DEF TInv, TasksTypeOK
<1>10. run[r].kind = "escalate" =>
        \A k \in DOMAIN run[r].todo : \A t \in run[r].todo[k] : Grounds(t)
  BY <1>1, <1>2 DEF RunTold
<1>11. RunTold(r)'
  <2>1. w.pc = "load" => w.todo # <<>>
    BY <1>5, <1>6
  <2>2. w.pc = "load" /\ w.kind = "escalate" =>
          \A k \in DOMAIN w.todo : \A t \in w.todo[k] : Grounds(t)
    BY <1>5, <1>6, <1>10
  <2>3. w.pc = "load" /\ w.kind = "escalate" =>
          \A k \in DOMAIN w.todo : \A t \in w.todo[k] : Grounds(t)'
    BY <1>1, <2>2 DEF Grounds, Called
  <2>4. QED
    BY <1>5, <1>7, <2>1, <2>3 DEF RunTold
<1>12. QED
  BY <1>1, <1>4, <1>5, <1>9, <1>11, SameTold, TaskRunStep

-----------------------------------------------------------------------------
(* The other steps *)

\* The status of a task in the table changes; nothing is told, and nothing counted.
LEMMA StatusChanges ==
  ASSUME TInv, NEW t \in Tasks, task[t].status # "none", NEW new \in {"done", "delayed"},
         task' = [task EXCEPT ![t].status = new], UNCHANGED <<told, lost, apart>>
  PROVE  task' \in [Tasks -> Task] /\ \A q \in Tasks : TaskTold(q)'
<1>1. task \in [Tasks -> Task]
  BY TaskTypes DEF TInv
<1>2. task' \in [Tasks -> Task]
  BY <1>1 DEF Task
<1>3. ASSUME NEW q \in Tasks PROVE TaskTold(q)'
  <2>1. /\ task'[q].sent = task[q].sent /\ task'[q].escalated = task[q].escalated
        /\ task'[q].status # "none" => task[q].status # "none"
    BY <1>1 DEF Task
  <2>2. TaskTold(q)
    BY DEF TInv
  <2>3. /\ Called(q)' = Called(q) /\ (Announced(q)' <=> Announced(q)) /\ apart' = apart
        /\ (OwnerTold(q)' <=> OwnerTold(q)) /\ (Grounds(q)' <=> Grounds(q))
    BY DEF Announced, Called, OwnerTold, Grounds
  <2>4. QED
    BY <2>1, <2>2, <2>3, Zenon DEF TaskTold
<1>4. QED
  BY <1>2, <1>3

\* Requests go on as they were.
LEMMA RunsTold ==
  ASSUME TInv, TasksTypeOK', UNCHANGED <<told, lost, apart>>, \A t \in Tasks : TaskTold(t)', UNCHANGED run
  PROVE  TInv'
BY SameTold, OthersTold DEF TInv

LEMMA CompleteStep == ASSUME TInv, Complete PROVE TInv'
<1>1. PICK t \in Tasks : task[t].status # "none" /\ task' = [task EXCEPT ![t].status = "done"]
  BY DEF Complete
<1>2. UNCHANGED <<now, told, lost, apart, run>>
  BY DEF Complete
<1>3. task' \in [Tasks -> Task] /\ \A q \in Tasks : TaskTold(q)'
  BY <1>1, <1>2, StatusChanges
<1>4. TasksTypeOK'
  BY <1>2, <1>3 DEF TInv, TasksTypeOK
<1>5. QED
  BY <1>2, <1>3, <1>4, RunsTold

LEMMA DelayStep == ASSUME TInv, NEW r \in Runs, Delay(r) PROVE TInv'
<1>1. UNCHANGED <<now, told, lost, apart>>
  BY DEF Delay
<1>2. PICK t \in Tasks : /\ task[t].status # "none"
                         /\ task' = [task EXCEPT ![t].status = "delayed"]
                         /\ IF Overdue(t) THEN Start(r, "remind", <<{t}>>, 0) ELSE UNCHANGED run
  BY DEF Delay
<1>3. task' \in [Tasks -> Task] /\ \A q \in Tasks : TaskTold(q)'
  BY <1>1, <1>2, StatusChanges
<1>4. CASE Overdue(t)
  <2> DEFINE todo == <<{t}>>
  <2>1. todo \in Seq(SUBSET Tasks) /\ 0 \in 0..MaxNow
    BY OneOf, TasksAssumption
  <2>2. Start(r, "remind", todo, 0)
    BY <1>2, <1>4
  <2> HIDE DEF todo
  <2>3. QED
    BY <1>1, <1>3, <2>1, <2>2, StartStep, TaskTypes DEF TInv
<1>5. CASE ~Overdue(t)
  <2>1. UNCHANGED run
    BY <1>2, <1>5
  <2>2. TasksTypeOK'
    BY <1>1, <1>3, <2>1 DEF TInv, TasksTypeOK
  <2>3. QED
    BY <1>1, <1>3, <2>1, <2>2, RunsTold
<1>6. QED
  BY <1>4, <1>5

LEMMA SeedDemoStep == ASSUME TInv, SeedDemo PROVE TInv'
<1>1. UNCHANGED <<now, told, lost, run>>
  BY DEF SeedDemo
<1>a. PICK S \in SUBSET {t \in Tasks : task[t].status = "none"} :
        \E row \in [S -> [status: {"open", "done"}, due: 0..MaxNow]] :
          /\ Odd(S, {})
          /\ task' = [t \in Tasks |-> IF t \notin S THEN task[t] ELSE
                        [task[t] EXCEPT !.status = row[t].status, !.due = row[t].due]]
  <2>1. PICK S \in SUBSET {t \in Tasks : /\ task[t].status = "none"
                                        /\ \A r \in Runs : run[r].kind = "assign" => run[r].todo # <<{t}>>} :
          \E row \in [S -> [status: {"open", "done"}, due: 0..MaxNow]] :
            /\ Odd(S, {})
            /\ task' = [t \in Tasks |-> IF t \notin S THEN task[t] ELSE
                          [task[t] EXCEPT !.status = row[t].status, !.due = row[t].due]]
    BY Zenon DEF SeedDemo
  <2>2. S \in SUBSET {t \in Tasks : task[t].status = "none"}
    OBVIOUS
  <2>3. QED
    BY <2>1, <2>2, Zenon
<1>2. PICK row \in [S -> [status: {"open", "done"}, due: 0..MaxNow]] :
        /\ Odd(S, {})
        /\ task' = [t \in Tasks |-> IF t \notin S THEN task[t] ELSE
                      [task[t] EXCEPT !.status = row[t].status, !.due = row[t].due]]
  BY <1>a
<1>3. /\ apart' \in Apart /\ apart'.seeded = apart.seeded \cup S /\ apart'.asked = apart.asked
  <2> DEFINE none == {}
  <2>1. none \in SUBSET Tasks /\ S \in SUBSET Tasks /\ Odd(S, none)
    BY <1>2
  <2> HIDE DEF none
  <2>2. /\ apart' \in Apart /\ apart'.seeded = apart.seeded \cup S
        /\ apart'.asked = apart.asked \cup none
    BY <2>1, OddIs
  <2>3. QED
    BY <2>2 DEF none
<1>4. ASSUME NEW t \in Tasks
      PROVE  /\ task'[t] \in Task /\ task'[t].sent = task[t].sent
             /\ task'[t].escalated = task[t].escalated
             /\ task'[t].status # "none" => task[t].status # "none" \/ t \in S
  <2>1. task[t] \in Task
    BY TaskTypes DEF TInv
  <2>2. CASE t \notin S
    BY <1>2, <2>1, <2>2
  <2>3. CASE t \in S
    <3>1. row[t].status \in {"open", "done"} /\ row[t].due \in 0..MaxNow
      BY <2>3
    <3>2. task'[t] = [[task[t] EXCEPT !.status = row[t].status] EXCEPT !.due = row[t].due]
      BY <1>2, <2>3
    <3>3. QED
      BY <2>1, <2>3, <3>1, <3>2 DEF Task
  <2>4. QED
    BY <2>2, <2>3
<1>5. task' \in [Tasks -> Task]
  BY <1>2, <1>4
<1>6. ASSUME NEW t \in Tasks PROVE TaskTold(t)'
  <2>1. TaskTold(t)
    BY DEF TInv
  <2>2. /\ Called(t)' = Called(t) /\ (Announced(t)' <=> Announced(t))
        /\ (OwnerTold(t)' <=> OwnerTold(t)) /\ (Grounds(t)' <=> Grounds(t))
    BY <1>1, <1>3 DEF Announced, Called, OwnerTold, Grounds
  <2>3. task'[t].status # "none" => Announced(t)' \/ t \in apart'.seeded
    BY <1>3, <1>4, <2>1, <2>2, Zenon DEF TaskTold
  <2>4. QED
    BY <1>4, <2>1, <2>2, <2>3, Zenon DEF TaskTold
<1>7. TasksTypeOK'
  BY <1>1, <1>3, <1>5 DEF TInv, TasksTypeOK
<1>8. \A t \in Tasks : Called(t)' = Called(t) /\ Called(t) \in Nat
  BY <1>1, TaskTypes DEF TInv, Called
<1>9. ToldOnward
  BY <1>1, <1>3, <1>8 DEF ToldOnward, Announced, OwnerTold, Grounds
<1>10. \A r \in Runs : RunTold(r)'
  BY <1>1, <1>7, <1>9, OthersTold
<1>11. QED
  BY <1>6, <1>7, <1>10 DEF TInv

LEMMA TickStep == ASSUME TInv, Tick PROVE TInv'
<1>1. now' \in 0..MaxNow /\ UNCHANGED <<task, told, lost, apart, run>>
  BY TaskTypes, TasksAssumption DEF TInv, Tick
<1>2. TasksTypeOK'
  BY <1>1 DEF TInv, TasksTypeOK
<1>3. QED
  BY <1>1, <1>2, SameRows, RunsTold

LEMMA RestartStep == ASSUME TInv, Restart PROVE TInv'
<1>1. run' = [r \in Runs |-> IdleRun] /\ UNCHANGED <<now, task, told, lost, apart>>
  BY DEF Restart
<1>2. TasksTypeOK'
  BY <1>1, IdleWork DEF TInv, TasksTypeOK
<1>3. \A r \in Runs : RunTold(r)'
  BY <1>1, IdleWork DEF RunTold
<1>4. QED
  BY <1>1, <1>2, <1>3, SameRows DEF TInv

LEMMA TasksStutter == ASSUME TInv, UNCHANGED taskVars PROVE TInv'
<1>1. UNCHANGED <<now, task, told, lost, apart, run>>
  BY DEF taskVars
<1>2. TasksTypeOK'
  BY <1>1 DEF TInv, TasksTypeOK
<1>3. QED
  BY <1>1, <1>2, SameRows, RunsTold

-----------------------------------------------------------------------------
(* Theorems *)

LEMMA TasksStep == ASSUME TInv, [TasksNext]_taskVars PROVE TInv'
<1>1. CASE Complete \/ Tick \/ Restart \/ SeedDemo
  BY <1>1, CompleteStep, TickStep, RestartStep, SeedDemoStep
<1>2. ASSUME NEW r \in Runs,
             \/ Assign(r) \/ RemindOverdue(r) \/ RemindStaff(r) \/ Scheduler(r)
             \/ InjectEvent(r) \/ Load(r) \/ Tell(r) \/ Save(r) \/ Delay(r)
      PROVE TInv'
  BY <1>2, AssignStep, RemindOverdueStep, RemindStaffStep, SchedulerStep,
     InjectEventStep, LoadStep, TellStep, SaveStep, DelayStep
<1>3. CASE UNCHANGED taskVars
  BY <1>3, TasksStutter
<1>4. QED
  BY <1>1, <1>2, <1>3 DEF TasksNext

\* The invariant the theorems below rest on holds in every state of every run.
THEOREM TasksInvariant == TasksSpec => []TInv
<1>1. TasksInit => TInv
  BY TasksInitInv
<1>2. TInv /\ [TasksNext]_taskVars => TInv'
  BY TasksStep
<1>3. QED
  BY <1>1, <1>2, PTL DEF TasksSpec

\* The rows and requests keep their types: no count passes what can be told.
THEOREM TasksTypeCorrect == TasksSpec => []TasksTypeOK
<1>1. TInv => TasksTypeOK
  BY DEF TInv
<1>2. QED
  BY <1>1, TasksInvariant, PTL

\* A task in the table was announced to its staff unless it was seeded, and every
\* reminder that counts and the escalation of an escalated task were handed to notify,
\* told or dropped, whatever requests overlap and wherever the process stops.
THEOREM CountsAreNotified == TasksSpec => []CountedMeansNotified
<1>1. TInv => CountedMeansNotified
  BY DEF TInv, TaskTold, CountedMeansNotified, Announced, Called, OwnerTold
<1>2. QED
  BY <1>1, TasksInvariant, PTL

\* Unless an event asked for it, the owner is told of an overdue task only after two
\* reminders were handed to notify.
THEOREM OwnerAfterReminders == TasksSpec => []OwnerAfterTwoReminders
<1>1. TInv => OwnerAfterTwoReminders
  BY DEF TInv, TaskTold, OwnerAfterTwoReminders, OwnerTold, Grounds, Called
<1>2. QED
  BY <1>1, TasksInvariant, PTL

\* No open task that is two hours late falls between the reminders that are due and
\* the escalations that are due, or is in both.
THEOREM OverdueIsDue == TasksSpec => []OverdueIsDueForOne
<1>1. TasksTypeOK => OverdueIsDueForOne
  <2> SUFFICES ASSUME TasksTypeOK, NEW t \in Watched, OverdueHours(t) >= 2
               PROVE  (t \in RemindersDue) # (t \in EscalationsDue)
    BY DEF OverdueIsDueForOne
  <2>1. t \in Tasks
    BY DEF Watched
  <2>2. task[t].sent \in Nat /\ now \in Int /\ task[t].due \in Nat
    BY <2>1, TaskTypes, TasksAssumption
  <2>3. CASE task[t].sent < EscalateAfter
    BY <2>2, <2>3 DEF RemindersDue, EscalationsDue, OverdueHours, EscalateAfter, ReminderInterval
  <2>4. CASE task[t].sent >= EscalateAfter
    BY <2>2, <2>4 DEF RemindersDue, EscalationsDue, OverdueHours, EscalateAfter, ReminderInterval
  <2>5. QED
    BY <2>2, <2>3, <2>4 DEF EscalateAfter
<1>2. QED
  BY <1>1, TasksTypeCorrect, PTL

-----------------------------------------------------------------------------
(* Leads: the inductive invariant *)

\* A hook about to link holds the lead it has made, of its own contact; one about to
\* score a new lead holds a lead of the CRM, and one about to answer holds some lead.
HookHolds(h) ==
  /\ hook[h].pc = "link" => /\ hook[h].lead \in DOMAIN leads
                            /\ leads[hook[h].lead].contact = hook[h].contact
  /\ hook[h].pc = "event" => hook[h].lead \in LeadIds
  /\ hook[h].pc = "event" /\ hook[h].kind = "lead.created" => hook[h].lead \in DOMAIN leads

LInv == LeadsTypeOK /\ (\A h \in Hooks : HookHolds(h)) /\ OrphanOnlyByFault

\* A hook that starts, or goes back to rest, is a hook.
LEMMA RestIsHook == Rest \in Hook /\ Rest.pc = "idle"
BY LeadsAssumption DEF Rest, Hook

LEMMA LeadsTypes ==
  ASSUME LeadsTypeOK
  PROVE  /\ leads \in Seq([contact: Contacts, scored: BOOLEAN]) /\ Len(leads) \in Nat
         /\ Len(leads) <= MaxLeads /\ DOMAIN leads = 1..Len(leads)
         /\ \A i \in DOMAIN leads : leads[i].contact \in Contacts
         /\ hook \in [Hooks -> Hook]
         /\ \A h \in Hooks : hook[h].contact \in Contacts /\ hook[h].attempt \in 1..MaxAttempts
<1>1. leads \in Seq([contact: Contacts, scored: BOOLEAN]) /\ Len(leads) <= MaxLeads /\ hook \in [Hooks -> Hook]
  BY DEF LeadsTypeOK
<1>2. leads \in [1..Len(leads) -> [contact: Contacts, scored: BOOLEAN]] /\ Len(leads) \in Nat
      /\ DOMAIN leads = 1..Len(leads)
  BY <1>1, LenProperties
<1>3. \A i \in DOMAIN leads : leads[i].contact \in Contacts
  BY <1>2
<1>4. \A h \in Hooks : hook[h].contact \in Contacts /\ hook[h].attempt \in 1..MaxAttempts
  BY <1>1 DEF Hook
<1>5. QED
  BY <1>1, <1>2, <1>3, <1>4

LEMMA LeadsInitInv == ASSUME LeadsInit PROVE LInv
<1>0. <<>> \in Seq([contact: Contacts, scored: BOOLEAN]) /\ Len(<<>>) = 0
  BY EmptySeq
<1>1. LeadsTypeOK
  <2>1. hook \in [Hooks -> Hook]
    BY RestIsHook DEF LeadsInit
  <2>2. leads \in Seq([contact: Contacts, scored: BOOLEAN]) /\ Len(leads) <= MaxLeads
    BY <1>0, LeadsAssumption DEF LeadsInit
  <2>3. QED
    BY <2>1, <2>2 DEF LeadsInit, LeadsTypeOK
<1>2. \A h \in Hooks : HookHolds(h)
  BY RestIsHook DEF LeadsInit, HookHolds
<1>3. OrphanOnlyByFault
  BY DEF LeadsInit, OrphanOnlyByFault
<1>4. QED
  BY <1>1, <1>2, <1>3 DEF LInv

\* A lead more, at the end of the CRM's list.
LEMMA NewLeadIs ==
  ASSUME LeadsTypeOK, NEW c \in Contacts, NewLead(c)
  PROVE  /\ leads' \in Seq([contact: Contacts, scored: BOOLEAN]) /\ Len(leads') = Len(leads) + 1
         /\ Len(leads') <= MaxLeads /\ Len(leads) + 1 \in LeadIds
         /\ DOMAIN leads' = 1..(Len(leads) + 1)
         /\ leads'[Len(leads) + 1].contact = c
         /\ \A i \in DOMAIN leads : leads'[i] = leads[i]
<1>1. [contact |-> c, scored |-> FALSE] \in [contact: Contacts, scored: BOOLEAN]
  OBVIOUS
<1>2. Len(leads) \in Nat /\ Len(leads) < MaxLeads /\ DOMAIN leads = 1..Len(leads)
  BY LeadsTypes DEF NewLead
<1>3. QED
  BY <1>1, <1>2, LeadsTypes, LeadsAssumption, AppendProperties DEF NewLead, LeadIds

\* One hook takes a step that leaves the leads and the links alone: what the others
\* hold stays, and a lead is orphaned only if it is the one this hook was to link.
LEMMA QuietHook ==
  ASSUME LInv, NEW h \in Hooks, NEW new \in Hook, hook' = [hook EXCEPT ![h] = new],
         UNCHANGED <<leads, links>>, proposals' \subseteq Link, faulted' \in BOOLEAN,
         new.pc # "link", new.pc = "event" => new.lead \in LeadIds,
         new.pc = "event" => new.kind = "lead.reply",
         faulted \/ hook[h].pc = "link" => faulted'
  PROVE  LInv'
<1>. USE DEF LInv
<1>1. hook' \in [Hooks -> Hook] /\ \A k \in Hooks : hook'[k] = IF k = h THEN new ELSE hook[k]
  BY LeadsTypes
<1>2. LeadsTypeOK'
  BY <1>1 DEF LeadsTypeOK
<1>3. \A k \in Hooks : HookHolds(k)'
  BY <1>1 DEF HookHolds
<1>4. OrphanOnlyByFault'
  BY <1>1, LeadsTypes DEF OrphanOnlyByFault, LeadsTypeOK
<1>5. QED
  BY <1>2, <1>3, <1>4

LEMMA DeliverStep == ASSUME LInv, NEW h \in Hooks, Deliver(h) PROVE LInv'
<1>1. PICK c \in Contacts : hook' = [hook EXCEPT ![h] = [Rest EXCEPT !.pc = "look", !.contact = c]]
  BY DEF Deliver
<1>. DEFINE new == [Rest EXCEPT !.pc = "look", !.contact = c]
<1>2. new \in Hook /\ new.pc = "look"
  BY RestIsHook, LeadsAssumption DEF Rest, Hook
<1>3. proposals' \subseteq Link /\ faulted' \in BOOLEAN /\ (faulted => faulted') /\ hook[h].pc = "idle"
  BY DEF Deliver, LInv, LeadsTypeOK
<1>4. UNCHANGED <<leads, links>>
  BY DEF Deliver
<1>. HIDE DEF new
<1>5. hook' = [hook EXCEPT ![h] = new]
  BY <1>1 DEF new
<1>6. QED
  BY <1>2, <1>3, <1>4, <1>5, QuietHook

LEMMA LookStep == ASSUME LInv, NEW h \in Hooks, Look(h) PROVE LInv'
<1>1. proposals' \subseteq Link /\ faulted' \in BOOLEAN /\ (faulted => faulted') /\ hook[h].pc = "look"
      /\ UNCHANGED <<leads, links>>
  BY DEF Look, LInv, LeadsTypeOK
<1>2. hook \in [Hooks -> Hook] /\ hook[h] \in Hook /\ links \subseteq Link
  BY DEF LInv, LeadsTypeOK
<1>3. CASE LinksOf(hook[h].contact) = {}
  <2>. DEFINE new == [hook[h] EXCEPT !.pc = "create"]
  <2>1. new \in Hook /\ new.pc = "create"
    BY <1>2 DEF Hook
  <2>2. hook' = [hook EXCEPT ![h] = new]
    BY <1>2, <1>3 DEF Look
  <2>. HIDE DEF new
  <2>3. QED
    BY <1>1, <2>1, <2>2, QuietHook
<1>4. CASE LinksOf(hook[h].contact) # {}
  <2>1. PICK l \in LinksOf(hook[h].contact) :
          hook' = [hook EXCEPT ![h].pc = "event", ![h].lead = l.lead, ![h].kind = "lead.reply"]
    BY <1>4 DEF Look
  <2>. DEFINE new == [[[hook[h] EXCEPT !.pc = "event"] EXCEPT !.lead = l.lead] EXCEPT !.kind = "lead.reply"]
  <2>2. l.lead \in LeadIds
    BY <1>2 DEF LinksOf, Link
  <2>3. new \in Hook /\ new.pc = "event" /\ new.lead = l.lead /\ new.kind = "lead.reply"
    BY <1>2, <2>2 DEF Hook
  <2>4. hook' = [hook EXCEPT ![h] = new]
    BY <1>2, <2>1
  <2>. HIDE DEF new
  <2>5. QED
    BY <1>1, <2>2, <2>3, <2>4, QuietHook
<1>5. QED
  BY <1>3, <1>4

\* A request that failed is tried again, or given up.
LEMMA TryAgainIs ==
  ASSUME LeadsTypeOK, NEW h \in Hooks, hook[h].pc = "create", TryAgain(h)
  PROVE  \E new \in Hook : /\ hook' = [hook EXCEPT ![h] = new]
                           /\ new.pc = "idle" \/ (new.pc = "create" /\ new.contact = hook[h].contact)
<1>1. hook[h] \in Hook /\ hook \in [Hooks -> Hook]
  BY DEF LeadsTypeOK
<1>2. CASE hook[h].attempt < MaxAttempts
  <2>. DEFINE new == [hook[h] EXCEPT !.attempt = @ + 1]
  <2>1. new \in Hook /\ new.pc = "create" /\ new.contact = hook[h].contact
    BY <1>1, <1>2, LeadsAssumption DEF Hook
  <2>2. hook' = [hook EXCEPT ![h] = new]
    <3>1. hook' = [hook EXCEPT ![h] = IF hook[h].attempt < MaxAttempts
                                      THEN [hook[h] EXCEPT !.attempt = hook[h].attempt + 1] ELSE Rest]
      BY DEF TryAgain
    <3>2. QED
      BY <1>2, <3>1
  <2>. HIDE DEF new
  <2>3. QED
    BY <2>1, <2>2
<1>3. CASE ~(hook[h].attempt < MaxAttempts)
  <2>1. hook' = [hook EXCEPT ![h] = Rest]
    BY <1>1, <1>3 DEF TryAgain
  <2>2. QED
    BY <2>1, RestIsHook
<1>4. QED
  BY <1>2, <1>3

LEMMA CreateLeadStep == ASSUME LInv, NEW h \in Hooks, CreateLead(h) PROVE LInv'
<1>. USE DEF LInv
<1>1. hook[h].pc = "create" /\ hook[h].contact \in Contacts /\ hook[h] \in Hook /\ hook \in [Hooks -> Hook]
      /\ UNCHANGED <<links, proposals>>
  BY LeadsTypes DEF CreateLead, LeadsTypeOK
<1>2. CASE /\ NewLead(hook[h].contact)
           /\ hook' = [hook EXCEPT ![h].pc = "link", ![h].lead = Len(leads) + 1]
           /\ UNCHANGED faulted
  <2>. DEFINE new == [[hook[h] EXCEPT !.pc = "link"] EXCEPT !.lead = Len(leads) + 1]
  <2>1. /\ new \in Hook /\ new.pc = "link" /\ new.lead = Len(leads) + 1
        /\ new.contact = hook[h].contact
    BY <1>1, <1>2, NewLeadIs DEF Hook
  <2>2. hook' = [hook EXCEPT ![h] = new]
    BY <1>1, <1>2
  <2>. HIDE DEF new
  <2>3. hook' \in [Hooks -> Hook] /\ \A k \in Hooks : hook'[k] = IF k = h THEN new ELSE hook[k]
    BY <1>1, <2>1, <2>2
  <2>4. LeadsTypeOK'
    BY <1>1, <1>2, <2>3, NewLeadIs DEF LeadsTypeOK
  <2>5. \A k \in Hooks : HookHolds(k)'
    BY <1>1, <1>2, <2>1, <2>3, NewLeadIs, LeadsTypes DEF HookHolds
  <2>6. OrphanOnlyByFault'
    <3>1. SUFFICES ASSUME ~faulted, NEW i \in DOMAIN leads'
                   PROVE  \/ [contact |-> leads'[i].contact, lead |-> i] \in links
                          \/ \E k \in Hooks : hook'[k].pc = "link" /\ hook'[k].lead = i
      BY <1>1, <1>2 DEF OrphanOnlyByFault
    <3>2. CASE i = Len(leads) + 1
      BY <2>1, <2>3, <3>2
    <3>3. CASE i # Len(leads) + 1
      <4>1. i \in DOMAIN leads /\ leads'[i] = leads[i]
        BY <1>1, <1>2, <3>1, <3>3, NewLeadIs, LeadsTypes
      <4>2. \/ [contact |-> leads[i].contact, lead |-> i] \in links
            \/ \E k \in Hooks : hook[k].pc = "link" /\ hook[k].lead = i
        BY <3>1, <4>1 DEF OrphanOnlyByFault
      <4>3. QED
        BY <1>1, <2>3, <4>1, <4>2
    <3>4. QED
      BY <3>2, <3>3
  <2>7. QED
    BY <2>4, <2>5, <2>6
<1>3. CASE NewLead(hook[h].contact) /\ TryAgain(h) /\ faulted' = TRUE
  <2>1. PICK new \in Hook : /\ hook' = [hook EXCEPT ![h] = new]
                            /\ new.pc = "idle" \/ new.pc = "create"
    BY <1>1, <1>3, TryAgainIs
  <2>2. hook' \in [Hooks -> Hook] /\ \A k \in Hooks : hook'[k] = IF k = h THEN new ELSE hook[k]
    BY <1>1, <2>1
  <2>3. LeadsTypeOK'
    BY <1>1, <1>3, <2>2, NewLeadIs DEF LeadsTypeOK
  <2>4. \A k \in Hooks : HookHolds(k)'
    BY <1>1, <1>3, <2>1, <2>2, NewLeadIs, LeadsTypes DEF HookHolds
  <2>5. QED
    BY <1>3, <2>3, <2>4 DEF OrphanOnlyByFault
<1>4. CASE UNCHANGED <<leads, faulted>> /\ TryAgain(h)
  <2>1. PICK new \in Hook : hook' = [hook EXCEPT ![h] = new] /\ (new.pc = "idle" \/ new.pc = "create")
    BY <1>1, <1>4, TryAgainIs
  <2>2. proposals' \subseteq Link /\ faulted' \in BOOLEAN /\ (faulted => faulted')
    BY <1>1, <1>4 DEF LeadsTypeOK
  <2>3. QED
    BY <1>1, <1>4, <2>1, <2>2, QuietHook
<1>5. CASE UNCHANGED <<leads, faulted>> /\ hook' = [hook EXCEPT ![h] = Rest]
  <2>1. proposals' \subseteq Link /\ faulted' \in BOOLEAN /\ (faulted => faulted')
    BY <1>1, <1>5 DEF LeadsTypeOK
  <2>2. QED
    BY <1>1, <1>5, <2>1, RestIsHook, QuietHook
<1>6. QED
  BY <1>2, <1>3, <1>4, <1>5 DEF CreateLead

LEMMA LinkLeadStep == ASSUME LInv, NEW h \in Hooks, LinkLead(h) PROVE LInv'
<1>. USE DEF LInv
<1>1. hook[h].pc = "link" /\ hook[h] \in Hook /\ hook \in [Hooks -> Hook] /\ UNCHANGED <<leads, proposals>>
  BY DEF LinkLead, LeadsTypeOK
<1>2. /\ hook[h].lead \in DOMAIN leads /\ leads[hook[h].lead].contact = hook[h].contact
      /\ hook[h].lead \in LeadIds /\ hook[h].contact \in Contacts
  BY <1>1, LeadsTypes, LeadsAssumption DEF HookHolds, LeadIds
<1>3. CASE /\ links' = links \cup {[contact |-> hook[h].contact, lead |-> hook[h].lead]}
           /\ hook' = [hook EXCEPT ![h].pc = "event", ![h].kind = "lead.created"]
           /\ UNCHANGED faulted
  <2>. DEFINE new == [[hook[h] EXCEPT !.pc = "event"] EXCEPT !.kind = "lead.created"]
  <2>1. new \in Hook /\ new.pc = "event" /\ new.lead = hook[h].lead
    BY <1>1 DEF Hook
  <2>2. hook' = [hook EXCEPT ![h] = new]
    BY <1>1, <1>3
  <2>. HIDE DEF new
  <2>3. hook' \in [Hooks -> Hook] /\ \A k \in Hooks : hook'[k] = IF k = h THEN new ELSE hook[k]
    BY <1>1, <2>1, <2>2
  <2>4. [contact |-> hook[h].contact, lead |-> hook[h].lead] \in Link
    BY <1>2 DEF Link
  <2>5. LeadsTypeOK'
    BY <1>1, <1>3, <2>3, <2>4 DEF LeadsTypeOK
  <2>6. \A k \in Hooks : HookHolds(k)'
    BY <1>1, <1>2, <2>1, <2>3 DEF HookHolds
  <2>7. OrphanOnlyByFault'
    BY <1>1, <1>2, <1>3, <2>1, <2>3 DEF OrphanOnlyByFault
  <2>8. QED
    BY <2>5, <2>6, <2>7
<1>4. CASE faulted' = TRUE /\ hook' = [hook EXCEPT ![h] = Rest] /\ UNCHANGED links
  <2>1. proposals' \subseteq Link
    BY <1>1 DEF LeadsTypeOK
  <2>2. QED
    BY <1>1, <1>4, <2>1, RestIsHook, QuietHook
<1>5. QED
  BY <1>3, <1>4 DEF LinkLead

\* The new lead gets its score: nothing else of the leads changes.
LEMMA ScoredIs ==
  ASSUME LeadsTypeOK, NEW i \in DOMAIN leads, leads' = [leads EXCEPT ![i].scored = TRUE]
  PROVE  /\ leads' \in Seq([contact: Contacts, scored: BOOLEAN]) /\ Len(leads') = Len(leads)
         /\ DOMAIN leads' = DOMAIN leads
         /\ \A k \in DOMAIN leads : leads'[k].contact = leads[k].contact
<1>. DEFINE L == [contact: Contacts, scored: BOOLEAN]
<1>1. leads \in Seq(L) /\ leads \in [1..Len(leads) -> L] /\ Len(leads) \in Nat /\ DOMAIN leads = 1..Len(leads)
  <2>1. leads \in Seq(L)
    BY LeadsTypes
  <2>. HIDE DEF L
  <2>2. QED
    BY <2>1, LenProperties
<1>2. [leads[i] EXCEPT !.scored = TRUE] \in L /\ leads[i] \in L
  BY <1>1
<1>3. \A k \in DOMAIN leads : leads'[k] = IF k = i THEN [leads[i] EXCEPT !.scored = TRUE] ELSE leads[k]
  BY <1>1
<1>4. leads' = [leads EXCEPT ![i] = [leads[i] EXCEPT !.scored = TRUE]]
  OBVIOUS
<1>5. \A k \in DOMAIN leads : leads'[k].contact = leads[k].contact
  BY <1>1, <1>2, <1>3
<1>. HIDE DEF L
<1>6. leads' \in Seq(L) /\ Len(leads') = Len(leads)
  BY <1>1, <1>2, <1>4, ExceptSeq
<1>7. DOMAIN leads' = DOMAIN leads
  BY <1>4
<1>8. QED
  BY <1>5, <1>6, <1>7 DEF L

LEMMA OfferIs == ASSUME LInv, NEW h \in Hooks, hook[h].pc = "event", Offer(h) PROVE proposals' \subseteq Link
<1>1. hook[h].lead \in LeadIds /\ hook[h].contact \in Contacts /\ proposals \subseteq Link
  BY LeadsTypes DEF LInv, HookHolds, LeadsTypeOK
<1>2. QED
  BY <1>1 DEF Offer, Link

LEMMA HandleEventStep == ASSUME LInv, NEW h \in Hooks, HandleEvent(h) PROVE LInv'
<1>1. hook[h].pc = "event" /\ hook' = [hook EXCEPT ![h] = Rest] /\ UNCHANGED <<links, faulted>>
  BY DEF HandleEvent
<1>2. proposals \subseteq Link /\ faulted' \in BOOLEAN /\ (faulted => faulted')
  BY <1>1 DEF LInv, LeadsTypeOK
<1>3. proposals' \subseteq Link
  BY <1>1, <1>2, OfferIs DEF HandleEvent
<1>4. CASE leads' = leads
  BY <1>1, <1>2, <1>3, <1>4, RestIsHook, QuietHook
<1>5. CASE hook[h].kind = "lead.created" /\ leads' = [leads EXCEPT ![hook[h].lead].scored = TRUE]
  <2>1. hook[h].lead \in DOMAIN leads
    BY <1>1, <1>5 DEF LInv, HookHolds
  <2>2. hook' \in [Hooks -> Hook] /\ \A k \in Hooks : hook'[k] = IF k = h THEN Rest ELSE hook[k]
    BY <1>1, LeadsTypes, RestIsHook DEF LInv
  <2>3. /\ leads' \in Seq([contact: Contacts, scored: BOOLEAN]) /\ Len(leads') = Len(leads)
        /\ DOMAIN leads' = DOMAIN leads
        /\ \A k \in DOMAIN leads : leads'[k].contact = leads[k].contact
    BY <1>5, <2>1, ScoredIs DEF LInv
  <2>4. LeadsTypeOK'
    BY <1>1, <1>2, <1>3, <2>2, <2>3 DEF LInv, LeadsTypeOK
  <2>5. \A k \in Hooks : HookHolds(k)'
    BY <2>2, <2>3, RestIsHook DEF LInv, HookHolds
  <2>6. OrphanOnlyByFault'
    BY <1>1, <2>2, <2>3 DEF LInv, OrphanOnlyByFault
  <2>7. QED
    BY <2>4, <2>5, <2>6 DEF LInv
<1>6. QED
  BY <1>4, <1>5 DEF HandleEvent

LEMMA StopApiStep == ASSUME LInv, StopApi PROVE LInv'
<1>. USE DEF LInv, StopApi
<1>1. LeadsTypeOK'
  BY RestIsHook DEF LeadsTypeOK
<1>2. \A h \in Hooks : HookHolds(h)'
  BY RestIsHook DEF HookHolds
<1>3. OrphanOnlyByFault'
  BY DEF OrphanOnlyByFault, LeadsTypeOK
<1>4. QED
  BY <1>1, <1>2, <1>3

LEMMA LeadsStutter == ASSUME LInv, UNCHANGED leadVars PROVE LInv'
BY DEF LInv, LeadsTypeOK, HookHolds, OrphanOnlyByFault, leadVars

LEMMA LeadsStep == ASSUME LInv, [LeadsNext]_leadVars PROVE LInv'
BY DeliverStep, LookStep, CreateLeadStep, LinkLeadStep, HandleEventStep, StopApiStep, LeadsStutter
   DEF LeadsNext

\* Leads stay within the types of the model, links within the leads.
THEOREM LeadsInvariant == LeadsSpec => []LInv
<1>1. LeadsInit => LInv
  BY LeadsInitInv
<1>2. LInv /\ [LeadsNext]_leadVars => LInv'
  BY LeadsStep
<1>3. QED
  BY <1>1, <1>2, PTL DEF LeadsSpec

\* A lead that nothing links is the trace of a fault, for any number of messages of any
\* contacts, attempts and leads (integrations/chatwoot.py, crm_adapter.py).
THEOREM OrphansAreFaults == LeadsSpec => []OrphanOnlyByFault
<1>1. LInv => OrphanOnlyByFault
  BY DEF LInv
<1>2. QED
  BY <1>1, LeadsInvariant, PTL

\* What a step may do to the leads of a linked contact, none of whose messages is
\* about to make another one: nothing.
LeadsOf(c) ==
  LinksOf(c) # {} /\ ~Creating(c) =>
    /\ ~Creating(c)'
    /\ {i \in DOMAIN leads' : leads'[i].contact = c} = {i \in DOMAIN leads : leads[i].contact = c}

\* One hook takes a step, and is not making a lead of c after it: then no hook is.
LEMMA NotCreating ==
  ASSUME LeadsTypeOK, NEW c, ~Creating(c), NEW h \in Hooks, NEW new, hook' = [hook EXCEPT ![h] = new],
         new.pc \in {"create", "link"} => new.contact # c
  PROVE  ~Creating(c)'
BY DEF LeadsTypeOK, Creating

LEMMA LeadsKeep == ASSUME LInv, [LeadsNext]_leadVars, NEW c \in Contacts PROVE LeadsOf(c)
<1>. SUFFICES ASSUME LinksOf(c) # {}, ~Creating(c)
              PROVE  /\ ~Creating(c)'
                     /\ {i \in DOMAIN leads' : leads'[i].contact = c} = {i \in DOMAIN leads : leads[i].contact = c}
  BY DEF LeadsOf
<1>0. hook \in [Hooks -> Hook] /\ LeadsTypeOK /\ \A h \in Hooks : hook[h] \in Hook
  BY DEF LInv, LeadsTypeOK
<1>1. \A h \in Hooks : hook[h].pc \in {"create", "link"} => hook[h].contact # c
  BY DEF Creating
<1>2. CASE \E h \in Hooks : Deliver(h)
  <2>1. PICK h \in Hooks : Deliver(h)
    BY <1>2
  <2>2. PICK d \in Contacts : hook' = [hook EXCEPT ![h] = [Rest EXCEPT !.pc = "look", !.contact = d]]
    BY <2>1 DEF Deliver
  <2>3. [Rest EXCEPT !.pc = "look", !.contact = d].pc = "look"
    BY DEF Rest
  <2>4. QED
    BY <1>0, <2>1, <2>2, <2>3, NotCreating DEF Deliver
<1>3. CASE \E h \in Hooks : Look(h)
  <2>1. PICK h \in Hooks : Look(h)
    BY <1>3
  <2>2. hook[h] \in Hook /\ leads' = leads
    BY <1>0, <2>1 DEF Look
  <2>3. CASE LinksOf(hook[h].contact) = {}
    <3>1. hook' = [hook EXCEPT ![h] = [hook[h] EXCEPT !.pc = "create"]] /\ hook[h].contact # c
      BY <1>0, <2>1, <2>3 DEF Look
    <3>2. [hook[h] EXCEPT !.pc = "create"].contact # c
      BY <3>1, <2>2 DEF Hook
    <3>3. QED
      BY <1>0, <2>2, <3>1, <3>2, NotCreating
  <2>4. CASE LinksOf(hook[h].contact) # {}
    <3>1. PICK l \in LinksOf(hook[h].contact) :
            hook' = [hook EXCEPT ![h].pc = "event", ![h].lead = l.lead, ![h].kind = "lead.reply"]
      BY <2>1, <2>4 DEF Look
    <3>. DEFINE new == [[[hook[h] EXCEPT !.pc = "event"] EXCEPT !.lead = l.lead] EXCEPT !.kind = "lead.reply"]
    <3>2. hook' = [hook EXCEPT ![h] = new] /\ new.pc = "event"
      BY <1>0, <2>2, <3>1 DEF Hook
    <3>. HIDE DEF new
    <3>3. QED
      BY <1>0, <2>2, <3>2, NotCreating
  <2>5. QED
    BY <2>3, <2>4
<1>4. CASE \E h \in Hooks : CreateLead(h)
  <2>1. PICK h \in Hooks : CreateLead(h)
    BY <1>4
  <2>2. hook[h].pc = "create" /\ hook[h].contact # c /\ hook[h].contact \in Contacts /\ hook[h] \in Hook
    BY <1>0, <1>1, <2>1, LeadsTypes DEF CreateLead
  <2>3. {i \in DOMAIN leads' : leads'[i].contact = c} = {i \in DOMAIN leads : leads[i].contact = c}
    <3>1. CASE NewLead(hook[h].contact)
      BY <1>0, <2>2, <3>1, NewLeadIs, LeadsTypes
    <3>2. CASE leads' = leads
      BY <3>2
    <3>3. QED
      BY <2>1, <3>1, <3>2 DEF CreateLead
  <2>4. CASE TryAgain(h) \/ hook' = [hook EXCEPT ![h] = Rest]
    <3>1. PICK new \in Hook : hook' = [hook EXCEPT ![h] = new] /\ (new.pc = "idle" \/ new.contact # c)
      BY <1>0, <2>2, <2>4, TryAgainIs, RestIsHook
    <3>2. QED
      BY <1>0, <2>3, <3>1, NotCreating
  <2>5. CASE hook' = [hook EXCEPT ![h].pc = "link", ![h].lead = Len(leads) + 1]
    <3>. DEFINE new == [[hook[h] EXCEPT !.pc = "link"] EXCEPT !.lead = Len(leads) + 1]
    <3>1. hook' = [hook EXCEPT ![h] = new] /\ new.contact # c
      BY <1>0, <2>2, <2>5 DEF Hook
    <3>. HIDE DEF new
    <3>2. QED
      BY <1>0, <2>3, <3>1, NotCreating
  <2>6. QED
    BY <2>1, <2>4, <2>5 DEF CreateLead
<1>5. CASE \E h \in Hooks : LinkLead(h)
  <2>1. PICK h \in Hooks : LinkLead(h)
    BY <1>5
  <2>2. hook[h].pc = "link" /\ hook[h].contact # c /\ hook[h] \in Hook /\ leads' = leads
    BY <1>0, <1>1, <2>1 DEF LinkLead
  <2>. DEFINE new == [[hook[h] EXCEPT !.pc = "event"] EXCEPT !.kind = "lead.created"]
  <2>3. new.pc = "event"
    BY <2>2 DEF Hook
  <2>4. hook' = [hook EXCEPT ![h] = new] \/ hook' = [hook EXCEPT ![h] = Rest]
    BY <1>0, <2>1 DEF LinkLead
  <2>. HIDE DEF new
  <2>5. QED
    BY <1>0, <2>2, <2>3, <2>4, RestIsHook, NotCreating
<1>6. CASE \E h \in Hooks : HandleEvent(h)
  <2>1. PICK h \in Hooks : HandleEvent(h)
    BY <1>6
  <2>2. ~Creating(c)'
    BY <1>0, <2>1, RestIsHook, NotCreating DEF HandleEvent
  <2>3. CASE leads' = leads
    BY <2>2, <2>3
  <2>4. CASE hook[h].kind = "lead.created" /\ leads' = [leads EXCEPT ![hook[h].lead].scored = TRUE]
    <3>1. hook[h].lead \in DOMAIN leads
      BY <2>1, <2>4 DEF LInv, HookHolds, HandleEvent
    <3>2. DOMAIN leads' = DOMAIN leads /\ \A k \in DOMAIN leads : leads'[k].contact = leads[k].contact
      BY <1>0, <2>4, <3>1, ScoredIs
    <3>3. QED
      BY <2>2, <3>2
  <2>5. QED
    BY <2>1, <2>3, <2>4 DEF HandleEvent
<1>7. CASE StopApi
  BY <1>7, RestIsHook DEF StopApi, Creating
<1>8. CASE UNCHANGED leadVars
  BY <1>8 DEF leadVars, Creating
<1>9. QED
  BY <1>2, <1>3, <1>4, <1>5, <1>6, <1>7, <1>8 DEF LeadsNext

\* Once a contact is linked and none of its messages is on its way to a lead of its own,
\* nothing ever makes it a second one: later messages find the link.
THEOREM LinkedContactsKeepLeads == LeadsSpec => LinkedContactKeepsItsLeads
<1>1. LInv /\ [LeadsNext]_leadVars =>
        [\A c \in Contacts :
           LinksOf(c) # {} /\ ~Creating(c) =>
             /\ ~Creating(c)'
             /\ {i \in DOMAIN leads' : leads'[i].contact = c}
                  = {i \in DOMAIN leads : leads[i].contact = c}]_leadVars
  BY LeadsKeep DEF LeadsOf
<1>2. QED
  BY <1>1, LeadsInvariant, PTL DEF LeadsSpec, LinkedContactKeepsItsLeads

-----------------------------------------------------------------------------
(* Deadlines: what the words of a command name *)

\* The clock time a command asks for: what its words name, else the end of the day.
Asked(t) == IF NamesTime(t) THEN Clock(t) ELSE EndOfDay

LEMMA TimeIs ==
  ASSUME NEW t \in Times
  PROVE  /\ t.of \in {"none", "noon", "end", "hhmm", "said"}
         /\ t.hour \in Nat /\ t.half \in 0..1 /\ t.morning \in BOOLEAN /\ t.evening \in BOOLEAN
<1>1. CASE t \in [of: {"hhmm"}, hour: Hours, half: 0..1, morning: {FALSE}, evening: {FALSE}]
  BY <1>1, DeadlineAssumption
<1>2. CASE t \in [of: {"said"}, hour: Hours, half: 0..1, morning: BOOLEAN, evening: BOOLEAN]
  BY <1>2, DeadlineAssumption
<1>3. CASE t \in {[of |-> k, hour |-> 0, half |-> 0, morning |-> FALSE, evening |-> FALSE] :
                     k \in {"none", "noon", "end"}}
  <2>1. PICK k \in {"none", "noon", "end"} :
          t = [of |-> k, hour |-> 0, half |-> 0, morning |-> FALSE, evening |-> FALSE]
    BY <1>3
  <2>2. QED
    BY <2>1
<1>4. QED
  BY <1>1, <1>2, <1>3 DEF Times

\* The least of a number and the same number twelve later, within a range.
LEMMA FirstOfFace ==
  ASSUME NEW h \in Nat, NEW a \in Nat, NEW b \in Nat
  PROVE  /\ h \in a..b => Min({h, h + 12} \cap a..b) = h
         /\ h \notin a..b /\ h + 12 \in a..b => Min({h, h + 12} \cap a..b) = h + 12
         /\ ({h, h + 12} \cap a..b = {}) <=> (h \notin a..b /\ h + 12 \notin a..b)
<1>. DEFINE S == {h, h + 12} \cap a..b
<1>1. CASE h \in a..b
  <2>1. h \in S /\ (\A y \in S : h <= y) /\ \A x \in S : (\A y \in S : x <= y) => x = h
    BY <1>1
  <2>2. Min(S) = h
    BY <2>1 DEF Min
  <2>3. QED
    BY <1>1, <2>2
<1>2. CASE h \notin a..b /\ h + 12 \in a..b
  <2>1. S = {h + 12}
    BY <1>2
  <2>2. Min(S) = h + 12
    BY <2>1 DEF Min
  <2>3. QED
    BY <1>2, <2>2
<1>3. QED
  BY <1>1, <1>2

LEMMA FirstAfterNoon ==
  ASSUME NEW h \in Nat, h <= 23
  PROVE  /\ {h, h + 12} \cap 12..23 # {}
         /\ Min({h, h + 12} \cap 12..23) = h + IF h < 12 THEN 12 ELSE 0
<1>1. CASE h < 12
  <2>1. h \notin 12..23 /\ h + 12 \in 12..23
    BY <1>1
  <2>2. {h, h + 12} \cap 12..23 = {h + 12}
    BY <2>1
  <2>3. Min({h + 12}) = h + 12
    BY DEF Min
  <2>4. QED
    BY <1>1, <2>2, <2>3
<1>2. CASE h \in 12..23
  <2>1. Min({h, h + 12} \cap 12..23) = h /\ {h, h + 12} \cap 12..23 # {}
    BY <1>2, FirstOfFace
  <2>2. QED
    BY <1>2, <2>1
<1>3. QED
  BY <1>1, <1>2

\* _parse_clock finds the time of the clock face that the words mean.
LEMMA ClockFits ==
  ASSUME NEW t \in Times
  PROVE  /\ Asked(t) \in 0..47
         /\ (Clock(t) = NoTime) <=> ~NamesTime(t)
         /\ \A x : FitsTime(t, x) <=> ClockOf(x) = Asked(t)
<1>. USE TimeIs DEF NoTime, EndOfDay
<1>1. CASE t.of = "none"
  BY <1>1 DEF Asked, NamesTime, Clock, FitsTime
<1>2. CASE t.of \in {"noon", "end"}
  BY <1>2 DEF Asked, NamesTime, Clock, FitsTime
<1>3. CASE t.of = "hhmm"
  BY <1>3 DEF Asked, NamesTime, Clock, FitsTime
<1>4. CASE t.of = "said" /\ ~(t.hour <= 23)
  BY <1>4 DEF Asked, NamesTime, Clock, FitsTime
<1>5. CASE t.of = "said" /\ t.hour <= 23
  <2>. DEFINE face == {t.hour, t.hour + 12}
              first(S) == IF S = {} THEN t.hour ELSE Min(S)
              hour == CASE t.evening -> first(face \cap 12..23)
                        [] t.morning \/ t.hour = 0 -> t.hour
                        [] OTHER -> first(face \cap 8..23)
              late == (t.evening /\ t.hour < 12) \/ (t.hour \in 1..7 /\ ~t.morning)
  <2>1. Clock(t) = 2 * t.hour + t.half + IF late THEN 24 ELSE 0
    BY <1>5 DEF Clock
  <2>2. NamesTime(t)
    BY <1>5 DEF NamesTime
  <2>3. \A x : FitsTime(t, x) <=> ClockOf(x) = 2 * hour + t.half
    BY <1>5, <2>2 DEF FitsTime
  <2>4. hour = t.hour + IF late THEN 12 ELSE 0
    <3>1. CASE t.evening
      <4>1. first(face \cap 12..23) = t.hour + IF t.hour < 12 THEN 12 ELSE 0
        BY <1>5, FirstAfterNoon
      <4>2. hour = first(face \cap 12..23)
        BY <3>1
      <4>3. QED
        BY <1>5, <3>1, <4>1, <4>2
    <3>2. CASE ~t.evening /\ (t.morning \/ t.hour = 0)
      <4>1. hour = t.hour
        BY <3>2
      <4>2. QED
        BY <3>2, <4>1
    <3>3. CASE ~t.evening /\ ~(t.morning \/ t.hour = 0)
      <4>1. first(face \cap 8..23) = t.hour + IF t.hour \in 1..7 THEN 12 ELSE 0
        <5>1. t.hour \in 8..23 \/ (t.hour \notin 8..23 /\ t.hour + 12 \in 8..23 /\ t.hour \in 1..7)
          BY <1>5, <3>3
        <5>2. face \cap 8..23 # {}
          BY <5>1
        <5>3. Min(face \cap 8..23) = IF t.hour \in 8..23 THEN t.hour ELSE t.hour + 12
          BY <5>1, FirstOfFace
        <5>4. QED
          BY <5>1, <5>2, <5>3
      <4>2. hour = first(face \cap 8..23)
        BY <3>3
      <4>3. QED
        BY <1>5, <3>3, <4>1, <4>2
    <3>4. QED
      BY <3>1, <3>2, <3>3
  <2>. HIDE DEF hour, late
  <2>5. 2 * hour + t.half = Clock(t)
    BY <2>1, <2>4
  <2>6. Clock(t) \in 0..47
    BY <1>5, <2>1 DEF late
  <2>7. QED
    BY <2>2, <2>3, <2>5, <2>6 DEF Asked
<1>6. QED
  BY <1>1, <1>2, <1>3, <1>4, <1>5

\* A moment is its date and its clock time.
LEMMA MomentIs ==
  ASSUME NEW x \in Nat
  PROVE  /\ DateOf(x) \in Nat /\ ClockOf(x) \in 0..47 /\ x = DateOf(x) * 48 + ClockOf(x)
         /\ Weekday(x) \in 0..6
BY DEF DateOf, ClockOf, Weekday, Day

LEMMA MomentOf ==
  ASSUME NEW q \in Nat, NEW w \in 0..47
  PROVE  q * 48 + w \in Nat /\ DateOf(q * 48 + w) = q /\ ClockOf(q * 48 + w) = w
BY DEF DateOf, ClockOf, Day

LEMMA DayIs ==
  ASSUME NEW d \in Days
  PROVE  /\ d.of \in {"none", "days", "weeks", "word", "weekday"}
         /\ d.of \in {"days", "weeks"} => d.n \in 1..3
         /\ d.of = "word" => d.n \in 0..2
         /\ d.of = "weekday" => d.n \in 0..6
BY DEF Days

LEMMA Weeks == ASSUME NEW d \in Nat PROVE d \div 7 \in Nat /\ d = (d \div 7) * 7 + (d % 7)
OBVIOUS

LEMMA HalvesAre ==
  ASSUME NEW n \in Nat
  PROVE  RoundHalves(n) \in Nat /\ 2 * RoundHalves(n) \in n - 1..n + 1
BY DEF RoundHalves

\* parse_uz_datetime finds a day that the words mean, and no day in the past.
LEMMA OffsetFits ==
  ASSUME NEW c \in Command
  PROVE  /\ (DayOffset(c) = NoTime) <=> c.day.of = "none"
         /\ c.day.of # "none" => DayOffset(c) \in Nat
         /\ c.day.of = "word" => DayOffset(c) = c.day.n
         /\ c.day.of = "days" => 2 * DayOffset(c) \in c.day.n - 1..c.day.n + 1
         /\ c.day.of = "weeks" => /\ 2 * DayOffset(c) \in 7 * c.day.n - 1..7 * c.day.n + 1
                                  /\ DayOffset(c) > 0
         /\ c.day.of = "weekday" => /\ DayOffset(c) \in 1..7
                                    /\ (DateOf(c.now) + DayOffset(c)) % 7 = c.day.n
<1>. USE DEF NoTime
<1>0. c.now \in Nat /\ c.day \in Days
  BY DeadlineAssumption DEF Command
<1>1. CASE c.day.of \in {"none", "word"}
  BY <1>0, <1>1, DayIs DEF DayOffset
<1>2. CASE c.day.of = "days"
  <2>1. DayOffset(c) = RoundHalves(c.day.n) /\ c.day.n \in 1..3
    BY <1>0, <1>2, DayIs DEF DayOffset
  <2>2. RoundHalves(c.day.n) \in Nat /\ 2 * RoundHalves(c.day.n) \in c.day.n - 1..c.day.n + 1
    BY <2>1, HalvesAre
  <2>3. QED
    BY <1>2, <2>1, <2>2
<1>3. CASE c.day.of = "weeks"
  <2>1. DayOffset(c) = RoundHalves(7 * c.day.n) /\ c.day.n \in 1..3
    BY <1>0, <1>3, DayIs DEF DayOffset
  <2>2. /\ RoundHalves(7 * c.day.n) \in Nat /\ RoundHalves(7 * c.day.n) > 0
        /\ 2 * RoundHalves(7 * c.day.n) \in 7 * c.day.n - 1..7 * c.day.n + 1
    <3>1. 7 * c.day.n \in Nat /\ 7 * c.day.n >= 7
      BY <2>1
    <3>2. RoundHalves(7 * c.day.n) \in Nat /\ 2 * RoundHalves(7 * c.day.n) \in 7 * c.day.n - 1..7 * c.day.n + 1
      BY <3>1, HalvesAre
    <3>3. QED
      BY <3>1, <3>2
  <2>3. QED
    BY <1>3, <2>1, <2>2
<1>4. CASE c.day.of = "weekday"
  <2>. DEFINE ahead == (c.day.n - Weekday(c.now)) % 7
  <2>1. DayOffset(c) = IF ahead = 0 THEN 7 ELSE ahead
    BY <1>4 DEF DayOffset
  <2>2. c.day.n \in 0..6 /\ DateOf(c.now) \in Nat /\ Weekday(c.now) = DateOf(c.now) % 7
    BY <1>0, <1>4, DayIs, MomentIs DEF Weekday
  <2>3. ahead \in 0..6 /\ (DateOf(c.now) + ahead) % 7 = c.day.n
    <3>. DEFINE D == DateOf(c.now)
                r == D % 7
                n == c.day.n
    <3>1. D \in Nat /\ r \in 0..6 /\ n \in 0..6 /\ ahead = (n - r) % 7
      BY <2>2
    <3>2. PICK k \in Nat : D = 7 * k + r
      <4>1. D \div 7 \in Nat /\ D = (D \div 7) * 7 + r
        BY <3>1, Weeks
      <4>2. QED
        BY <4>1
    <3>. HIDE DEF D, r, n, ahead
    <3>3. ahead = IF r <= n THEN n - r ELSE n - r + 7
      BY <3>1
    <3>4. D + ahead = 7 * k + n \/ D + ahead = 7 * (k + 1) + n
      BY <3>1, <3>2, <3>3
    <3>5. (D + ahead) % 7 = n
      BY <3>1, <3>2, <3>4
    <3>6. QED
      BY <3>1, <3>3, <3>5 DEF D, n
  <2>4. (DateOf(c.now) + 7) % 7 = DateOf(c.now) % 7
    BY <2>2
  <2>. HIDE DEF ahead
  <2>5. QED
    BY <1>4, <2>1, <2>2, <2>3, <2>4
<1>5. QED
  BY <1>0, <1>1, <1>2, <1>3, <1>4, DayIs

\* The date and the clock time of the moment that parse_uz_datetime gives.
LEMMA DueIs ==
  ASSUME NEW c \in Command, c.ahead = 0, NamesTime(c.time) \/ c.day.of # "none"
  PROVE  LET D == DateOf(c.now)
             w == Asked(c.time)
             q == IF c.day.of # "none" THEN D + DayOffset(c)
                  ELSE IF D * 48 + w <= c.now THEN D + 1 ELSE D
         IN q \in Nat /\ w \in 0..47 /\ DueOf(c) = q * 48 + w
<1>. DEFINE D == DateOf(c.now)
            w == Asked(c.time)
            q == IF c.day.of # "none" THEN D + DayOffset(c)
                 ELSE IF D * 48 + w <= c.now THEN D + 1 ELSE D
            o == IF DayOffset(c) = NoTime THEN 0 ELSE DayOffset(c)
            at == (D + o) * 48 + w
<1>1. c.now \in Nat /\ D \in Nat /\ w \in 0..47 /\ c.time \in Times
  BY DeadlineAssumption, MomentIs, ClockFits DEF Command
<1>2. o \in Nat /\ (c.day.of = "none" => o = 0)
  BY OffsetFits DEF NoTime
<1>3. (IF Clock(c.time) = NoTime THEN EndOfDay ELSE Clock(c.time)) = w
  BY <1>1, ClockFits DEF Asked
<1>4. ParseUzDatetime(c) = IF DayOffset(c) = NoTime /\ at <= c.now THEN at + 48 ELSE at
  BY <1>1, <1>3, ClockFits, OffsetFits DEF ParseUzDatetime, Day
<1>5. at \in Nat /\ q \in Nat /\ ParseUzDatetime(c) = q * 48 + w
  <2>. HIDE DEF D, w, o
  <2>1. CASE c.day.of = "none"
    BY <1>1, <1>2, <1>4, <2>1, OffsetFits
  <2>2. CASE c.day.of # "none"
    <3>1. DayOffset(c) # NoTime /\ o = DayOffset(c)
      BY <2>2, OffsetFits DEF o
    <3>2. QED
      BY <1>1, <1>2, <1>4, <2>2, <3>1
  <2>3. QED
    BY <2>1, <2>2
<1>6. ParseUzDatetime(c) # NoTime
  <2>. HIDE DEF q, w
  <2>1. QED
    BY <1>1, <1>5 DEF NoTime
<1>7. QED
  BY <1>1, <1>5, <1>6 DEF DueOf

LEMMA DueInNat == ASSUME NEW c \in Command PROVE DueOf(c) \in Nat
<1>0. c.now \in Nat /\ c.ahead \in 0..3
  BY DeadlineAssumption DEF Command
<1>1. CASE c.ahead > 0
  BY <1>0, <1>1 DEF DueOf, ParseUzDatetime, Sla, NoTime
<1>2. CASE c.ahead = 0 /\ (NamesTime(c.time) \/ c.day.of # "none")
  <2>. DEFINE D == DateOf(c.now)
              w == Asked(c.time)
              q == IF c.day.of # "none" THEN D + DayOffset(c)
                   ELSE IF D * 48 + w <= c.now THEN D + 1 ELSE D
  <2>1. q \in Nat /\ w \in 0..47 /\ DueOf(c) = q * 48 + w
    BY <1>2, DueIs
  <2>. HIDE DEF q, w
  <2>2. QED
    BY <2>1
<1>3. CASE c.ahead = 0 /\ ~NamesTime(c.time) /\ c.day.of = "none"
  <2>1. DayOffset(c) = NoTime /\ Clock(c.time) = NoTime
    BY <1>3, OffsetFits, ClockFits DEF Command
  <2>2. QED
    BY <1>0, <1>3, <2>1 DEF DueOf, ParseUzDatetime, Sla
<1>4. QED
  BY <1>0, <1>1, <1>2, <1>3

\* The moment given is the next one that the words fit.
LEMMA DueIsNext ==
  ASSUME NEW c \in Command, c.ahead = 0, NamesTime(c.time) \/ c.day.of # "none", NEW due1, due1 = DueOf(c)
  PROVE  LET fits(x) == FitsDay(c, x) /\ FitsTime(c.time, x)
         IN /\ fits(due1)
            /\ due1 <= c.now => c.day.of \in {"word", "days"} /\ DateOf(due1) = DateOf(c.now)
            /\ c.day.of \in {"none", "word", "weekday"} => \A x \in (c.now + 1)..(due1 - 1) : ~fits(x)
<1>. DEFINE D == DateOf(c.now)
            w == Asked(c.time)
            q == IF c.day.of # "none" THEN D + DayOffset(c)
                 ELSE IF D * 48 + w <= c.now THEN D + 1 ELSE D
<1>1. q \in Nat /\ w \in 0..47 /\ due1 = q * 48 + w
  BY DueIs
<1>2. c.now \in Nat /\ c.time \in Times /\ c.day \in Days
  BY DeadlineAssumption DEF Command
<1>3. D \in Nat /\ ClockOf(c.now) \in 0..47 /\ c.now = D * 48 + ClockOf(c.now)
  BY <1>2, MomentIs
<1>4. \A x : FitsTime(c.time, x) <=> ClockOf(x) = w
  BY <1>2, ClockFits
<1>5. c.day.of # "none" => q = D + DayOffset(c) /\ DayOffset(c) \in Nat
  BY OffsetFits
<1>6. c.day.of = "none" => \/ D * 48 + w <= c.now /\ q = D + 1
                           \/ ~(D * 48 + w <= c.now) /\ q = D
  OBVIOUS
<1>. HIDE DEF q, w
<1>7. due1 \in Nat /\ DateOf(due1) = q /\ ClockOf(due1) = w
  <2>1. q * 48 + w \in Nat /\ DateOf(q * 48 + w) = q /\ ClockOf(q * 48 + w) = w
    BY <1>1, MomentOf
  <2>2. QED
    BY <1>1, <2>1
<1>8. FitsDay(c, due1)
  <2>1. CASE c.day.of = "weekday"
    BY <1>3, <1>5, <1>7, <2>1, OffsetFits DEF FitsDay, Weekday
  <2>2. CASE c.day.of = "word"
    BY <1>3, <1>5, <1>7, <2>2, OffsetFits DEF FitsDay
  <2>3. CASE c.day.of = "days"
    BY <1>3, <1>5, <1>7, <2>3, OffsetFits, DayIs, <1>2 DEF FitsDay
  <2>4. CASE c.day.of = "weeks"
    BY <1>3, <1>5, <1>7, <2>4, OffsetFits, DayIs, <1>2 DEF FitsDay
  <2>5. CASE c.day.of = "none"
    BY <2>5 DEF FitsDay
  <2>6. QED
    BY <1>2, <2>1, <2>2, <2>3, <2>4, <2>5, DayIs
<1>9. ASSUME due1 <= c.now PROVE c.day.of \in {"word", "days"} /\ DateOf(due1) = D
  <2>0. q <= D
    BY <1>1, <1>3, <1>9
  <2>1. c.day.of # "none"
    BY <1>1, <1>3, <1>6, <1>9
  <2>2. c.day.of # "weekday" /\ c.day.of # "weeks"
    BY <1>3, <1>5, <2>0, <2>1, OffsetFits
  <2>3. QED
    BY <1>2, <1>3, <1>5, <1>7, <2>0, <2>1, <2>2, DayIs
<1>10. ASSUME c.day.of \in {"none", "word", "weekday"}, NEW x \in (c.now + 1)..(due1 - 1),
              FitsDay(c, x), ClockOf(x) = w
       PROVE  FALSE
  <2>. DEFINE p == DateOf(x)
  <2>1. x \in Nat /\ p \in Nat /\ x = p * 48 + w /\ x > c.now /\ x < due1
    BY <1>2, <1>7, <1>10, MomentIs
  <2>. HIDE DEF p
  <2>2. p >= D /\ p < q
    BY <1>1, <1>3, <2>1
  <2>3. CASE c.day.of = "none"
    BY <1>1, <1>2, <1>3, <1>6, <2>1, <2>2, <2>3
  <2>4. CASE c.day.of = "word"
    BY <1>3, <1>5, <2>2, <2>4, <1>10, OffsetFits DEF FitsDay, p
  <2>5. CASE c.day.of = "weekday"
    <3>1. p % 7 = c.day.n /\ p > D /\ c.day.n \in 0..6
      BY <1>2, <1>10, <2>5, DayIs DEF FitsDay, Weekday, p
    <3>2. q % 7 = c.day.n /\ q <= D + 7
      BY <1>3, <1>5, <2>5, OffsetFits
    <3>3. QED
      BY <1>1, <1>3, <2>1, <2>2, <3>1, <3>2
  <2>6. QED
    BY <1>10, <2>3, <2>4, <2>5
<1>11. QED
  BY <1>4, <1>7, <1>8, <1>9, <1>10

-----------------------------------------------------------------------------
(* Deadlines: the inductive invariant *)

\* A task that has a deadline has the one that its command means.
DueInv == said \in Command /\ due \in Nat \cup {NoTime} /\ (due # NoTime => due = DueOf(said))

LEMMA SilenceIsCommand == Silence \in Command
BY DeadlineAssumption DEF Silence, Command, Days, Times

LEMMA DeadlinesInitInv == ASSUME DeadlinesInit PROVE DueInv
BY SilenceIsCommand DEF DeadlinesInit, DueInv

LEMMA DeadlinesStep == ASSUME DueInv, [DeadlinesNext]_deadlineVars PROVE DueInv'
BY SilenceIsCommand, DueInNat DEF DueInv, DeadlinesNext, AssignWithDeadline, NextCommand, deadlineVars

LEMMA DeadlinesTypes == ASSUME DueInv PROVE DeadlinesTypeOK
BY DEF DueInv, DeadlinesTypeOK, Command

THEOREM DeadlinesInvariant == DeadlinesSpec => []DueInv
<1>1. DeadlinesInit => DueInv
  BY DeadlinesInitInv
<1>2. DueInv /\ [DeadlinesNext]_deadlineVars => DueInv'
  BY DeadlinesStep
<1>3. QED
  BY <1>1, <1>2, PTL DEF DeadlinesSpec

\* Whatever moment and hour the owner speaks at, and whatever hours he names, the task
\* is due at the next moment that fits his words (parse_uz_datetime, _parse_clock).
THEOREM DueAtTheNextSuch == DeadlinesSpec => []DueIsTheNextSuch
<1>1. DueInv => DueIsTheNextSuch
  BY DueIsNext DEF DueInv, DueIsTheNextSuch
<1>2. QED
  BY <1>1, DeadlinesInvariant, PTL

-----------------------------------------------------------------------------
(* All the parts, side by side *)

MCInv == DInv /\ TInv /\ LInv /\ DueInv

\* A step of one part leaves the rows of the others alone.
LEMMA MCStep == ASSUME MCInv, [MCNext]_mcVars PROVE MCInv'
<1>1. DInv'
  BY DialogNextStep DEF MCInv, MCNext, mcVars
<1>2. TInv'
  BY TasksStep DEF MCInv, MCNext, mcVars
<1>3. LInv'
  BY LeadsStep DEF MCInv, MCNext, mcVars
<1>4. DueInv'
  BY DeadlinesStep DEF MCInv, MCNext, mcVars
<1>5. QED
  BY <1>1, <1>2, <1>3, <1>4 DEF MCInv

\* Whichever part moves, every row, request and message stays within its type: the
\* bounds of the memory, of the actions, of the attempts and of the reminders hold.
THEOREM JarvisTypeCorrect == MCSpec => []TypeOK
<1>1. MCInit => MCInv
  BY DialogInitInv, TasksInitInv, LeadsInitInv, DeadlinesInitInv DEF MCInit, MCInv
<1>2. MCInv /\ [MCNext]_mcVars => MCInv'
  BY MCStep
<1>3. MCInv => TypeOK
  BY DeadlinesTypes DEF MCInv, DInv, TInv, LInv, TypeOK
<1>4. QED
  BY <1>1, <1>2, <1>3, PTL DEF MCSpec

=============================================================================
