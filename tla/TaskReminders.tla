---------------------------- MODULE TaskReminders ----------------------------
(***************************************************************************)
(* The tasks of the staff (jarvis/task_manager.py), what changes them (the *)
(* voice routes, the buttons of the bot in api/routes.py, staff replies)   *)
(* and the reminders and escalations of jarvis/supervisor.py.  A reminder  *)
(* is a list of tasks read first and, for each, a transaction of its own   *)
(* that reads the task, tells the staff and commits; the process may stop  *)
(* and tasks may change anywhere in between, and a notification that Redis *)
(* refuses is dropped while its transaction commits (jarvis_routes.py:31). *)
(* Nothing in src calls reminders_due and escalations_due: Scheduler       *)
(* stands for the caller that the tests play.  Events that are posted to   *)
(* the API remind or escalate with no look at the counts.                  *)
(***************************************************************************)
EXTENDS Integers, Sequences, FiniteSets

CONSTANTS
  Tasks,     \* at most one task each
  Runs,      \* requests that remind, escalate or assign at a time
  MaxNow,    \* bound: hours
  MaxTold,   \* bound: reminders about one task that are handed to notify
  MaxOdd     \* bound: events posted, notifications dropped and demo seeds, in all

ASSUME TasksAssumption == IsFiniteSet(Tasks) /\ MaxNow \in Nat /\ MaxTold \in Nat /\ MaxOdd \in Nat

VARIABLES
  now,   \* hours
  task,  \* the task rows
  told,  \* what the staff and the owner have been told of a task (notify; not in the code)
  lost,  \* what notify dropped (not in the code)
  apart, \* tasks seeded, and escalated by an event, with nobody told before (not in the code)
  run    \* the requests at work

taskVars == <<now, task, told, lost, apart, run>>

ReminderInterval == 1        \* REMINDER_INTERVAL_HOURS
EscalateAfter == 2           \* ESCALATE_AFTER_REMINDERS

Task == [status: {"none", "open", "delayed", "done"}, due: 0..MaxNow,
         sent: 0..MaxTold, escalated: BOOLEAN]
Apart == [seeded: SUBSET Tasks, asked: SUBSET Tasks, odd: 0..MaxOdd]
Told == [assigned: BOOLEAN, reminded: 0..MaxTold, owner: BOOLEAN]

\* todo: the transactions to come, each about a set of tasks; seen: the reminders
\* of the tasks of the first one, as this transaction read them.
Work == [pc: {"idle", "load", "tell", "save"}, kind: {"assign", "remind", "escalate"},
        todo: Seq(SUBSET Tasks), seen: [Tasks -> 0..MaxTold], due: 0..MaxNow]
IdleRun == [pc |-> "idle", kind |-> "remind", todo |-> <<>>, seen |-> [t \in Tasks |-> 0], due |-> 0]

TasksTypeOK ==
  /\ now \in 0..MaxNow /\ task \in [Tasks -> Task] /\ run \in [Runs -> Work]
  /\ told \in [Tasks -> Told] /\ lost \in [Tasks -> Told] /\ apart \in Apart

TasksInit ==
  /\ now = 0
  /\ task = [t \in Tasks |-> [status |-> "none", due |-> 0, sent |-> 0, escalated |-> FALSE]]
  /\ told = [t \in Tasks |-> [assigned |-> FALSE, reminded |-> 0, owner |-> FALSE]]
  /\ lost = told /\ apart = [seeded |-> {}, asked |-> {}, odd |-> 0]
  /\ run = [r \in Runs |-> IdleRun]

Overdue(t) == task[t].due < now
OverdueHours(t) == now - task[t].due

\* _open_tasks_with_deadline
Watched == {t \in Tasks : task[t].status = "open" /\ ~task[t].escalated}

\* (mutants) the last reminder is never due; the owner is told after the first
RemindersDueOnceLess ==
  {t \in Watched : /\ OverdueHours(t) >= ReminderInterval * (task[t].sent + 1)
                   /\ task[t].sent < EscalateAfter - 1}
EscalationsDueEarly ==
  {t \in Watched : /\ task[t].sent >= EscalateAfter - 1
                   /\ OverdueHours(t) >= ReminderInterval * EscalateAfter}

RemindersDue ==
  {t \in Watched : /\ OverdueHours(t) >= ReminderInterval * (task[t].sent + 1)
                   /\ task[t].sent < EscalateAfter}
EscalationsDue ==
  {t \in Watched : /\ task[t].sent >= EscalateAfter
                   /\ OverdueHours(t) >= ReminderInterval * EscalateAfter}

Start(r, kind, todo, due) ==
  /\ run[r].pc = "idle" /\ todo # <<>>
  /\ run' = [run EXCEPT ![r] = [IdleRun EXCEPT !.pc = "load", !.kind = kind,
                                               !.todo = todo, !.due = due]]

\* One task.overdue event per task, in some order.
OneByOne(S) == {[k \in DOMAIN q |-> {q[k]}] : q \in {f \in [1..Cardinality(S) -> S] :
                                       \A t \in S : \E k \in DOMAIN f : f[k] = t}}

\* _route_assign_task: the deadline the owner names, which "bugun" can put in the past
\* (SpokenDeadlines), or the SLA of the temperature.
Assign(r) ==
  /\ \E t \in Tasks, due \in 0..MaxNow :
       /\ task[t].status = "none"
       /\ \A q \in Runs : run[q].kind = "assign" => run[q].todo # <<{t}>>   \* a task of its own
       /\ Start(r, "assign", <<{t}>>, due)
  /\ UNCHANGED <<now, task, told, lost, apart>>

\* _remind_overdue_staff and _route_remind_staff with no name.
RemindOverdue(r) ==
  /\ \E q \in OneByOne({t \in Tasks : task[t].status = "open" /\ Overdue(t)}) :
       Start(r, "remind", q, 0)
  /\ UNCHANGED <<now, task, told, lost, apart>>

\* _route_remind_staff: all open tasks of one of the staff, overdue or not, in one transaction.
RemindStaff(r) ==
  /\ \E S \in SUBSET {t \in Tasks : task[t].status = "open"} :
       S # {} /\ Start(r, "remind", <<S>>, 0)
  /\ UNCHANGED <<now, task, told, lost, apart>>

\* The periodic check that feeds task.overdue events to Jarvis.
Scheduler(r) ==
  /\ \/ \E q \in OneByOne(RemindersDue) : Start(r, "remind", q, 0)
     \/ \E q \in OneByOne(EscalationsDue) : Start(r, "escalate", q, 0)
  /\ UNCHANGED <<now, task, told, lost, apart>>

\* One more of what MaxOdd bounds: tasks are seeded, or escalated because an event asks.
Odd(seeds, asks) ==
  /\ apart.odd < MaxOdd
  /\ apart' = [seeded |-> apart.seeded \cup seeds, asked |-> apart.asked \cup asks, odd |-> apart.odd + 1]

\* POST /v1/jarvis/events: task.overdue and task.due_soon of any task in the table,
\* done or not, with whatever "escalate" the event carries.
InjectEvent(r) ==
  /\ \E t \in Tasks :
       /\ task[t].status # "none"
       /\ \/ Start(r, "remind", <<{t}>>, 0) /\ Odd({}, {})
          \/ Start(r, "escalate", <<{t}>>, 0) /\ Odd({}, {t})
  /\ UNCHANGED <<now, task, told, lost>>

\* POST /v1/crm/demo-seed, once: tasks open or done, some overdue, announced to nobody.
SeedDemo ==
  /\ apart.seeded = {}
  /\ \E S \in SUBSET {t \in Tasks : /\ task[t].status = "none"
                                   /\ \A r \in Runs : run[r].kind = "assign" => run[r].todo # <<{t}>>} :
       \E row \in [S -> [status: {"open", "done"}, due: 0..MaxNow]] :
         /\ Odd(S, {})
         /\ task' = [t \in Tasks |-> IF t \notin S THEN task[t] ELSE
                       [task[t] EXCEPT !.status = row[t].status, !.due = row[t].due]]
  /\ UNCHANGED <<now, told, lost, run>>

\* (mutant) only reminders are told before they are saved
LoadQuietly(r) ==
  /\ run[r].pc = "load"
  /\ run' = [run EXCEPT ![r].pc = IF run[r].kind = "remind" THEN "tell" ELSE "save",
                         ![r].seen = [t \in Tasks |-> IF t \in Head(run[r].todo) THEN task[t].sent ELSE 0]]
  /\ UNCHANGED <<now, task, told, lost, apart>>

\* The execute of the action reads the task rows again, in its own transaction.
Load(r) ==
  /\ run[r].pc = "load"
  /\ run' = [run EXCEPT ![r].pc = "tell", ![r].seen = [t \in Tasks |->
               IF t \in Head(run[r].todo) THEN task[t].sent ELSE 0]]
  /\ UNCHANGED <<now, task, told, lost, apart>>

\* What one notification adds to those of before.
Noted(notes, S, kind) ==
  [t \in Tasks |->
     IF t \notin S THEN notes[t]
     ELSE CASE kind = "assign" -> [notes[t] EXCEPT !.assigned = TRUE]
            [] kind = "remind" -> [notes[t] EXCEPT !.reminded = @ + 1]
            [] kind = "escalate" -> [notes[t] EXCEPT !.owner = TRUE]]

\* notify, before the commit: an error of Redis is logged and the transaction goes on.
Tell(r) ==
  LET S == Head(run[r].todo)
      kind == run[r].kind
  IN /\ run[r].pc = "tell"
     /\ \A t \in S : kind = "remind" => told[t].reminded + lost[t].reminded < MaxTold
     /\ \/ told' = Noted(told, S, kind) /\ UNCHANGED <<lost, apart>>
        \/ lost' = Noted(lost, S, kind) /\ Odd({}, {}) /\ UNCHANGED told
     /\ run' = [run EXCEPT ![r].pc = "save"]
     /\ UNCHANGED <<now, task>>

\* create_task, mark_reminded (the value read, plus one) or mark_escalated, committed.
Save(r) ==
  LET S == Head(run[r].todo)
  IN /\ run[r].pc = "save"
     /\ task' = [t \in Tasks |->
          IF t \notin S THEN task[t]
          ELSE CASE run[r].kind = "assign" ->
                      [task[t] EXCEPT !.status = "open", !.due = run[r].due]
                 [] run[r].kind = "remind" -> [task[t] EXCEPT !.sent = run[r].seen[t] + 1]
                 [] OTHER -> [task[t] EXCEPT !.escalated = TRUE]]
     /\ run' = [run EXCEPT ![r] = IF Len(run[r].todo) = 1 THEN IdleRun
                  ELSE [IdleRun EXCEPT !.pc = "load", !.kind = run[r].kind, !.todo = Tail(run[r].todo)]]
     /\ UNCHANGED <<now, told, lost, apart>>

\* "bajarildi" of the staff, or the button: complete_task, whatever the status.
Complete ==
  /\ \E t \in Tasks : /\ task[t].status # "none"
                      /\ task' = [task EXCEPT ![t].status = "done"]
  /\ UNCHANGED <<now, told, lost, apart, run>>

\* The "Kechikadi" button: the task leaves the open ones, and one that is overdue
\* already goes through task.overdue.
Delay(r) ==
  /\ \E t \in Tasks :
       /\ task[t].status # "none"
       /\ task' = [task EXCEPT ![t].status = "delayed"]
       /\ IF Overdue(t) THEN Start(r, "remind", <<{t}>>, 0) ELSE UNCHANGED run
  /\ UNCHANGED <<now, told, lost, apart>>

Tick == now < MaxNow /\ now' = now + 1 /\ UNCHANGED <<task, told, lost, apart, run>>

\* The API process ends: open transactions are rolled back, what was told stays told.
Restart == run' = [r \in Runs |-> IdleRun] /\ UNCHANGED <<now, task, told, lost, apart>>

TasksNext ==
  \/ Complete \/ Tick \/ Restart \/ SeedDemo
  \/ \E r \in Runs : \/ Assign(r) \/ RemindOverdue(r) \/ RemindStaff(r) \/ Scheduler(r)
                     \/ InjectEvent(r) \/ Load(r) \/ Tell(r) \/ Save(r) \/ Delay(r)
TasksSpec == TasksInit /\ [][TasksNext]_taskVars

----------------------------------------------------------------------------

\* What the rows count was handed to notify: a task in the table was announced to its
\* staff unless it was seeded, a reminder that counts and the escalation of an escalated
\* task were told, or dropped by Redis.  Escalation rests on these counts: stops,
\* overlapping reminders and lost updates may lose a count but never invent one, so that
\* a count beyond what was told is never more than the notifications that were dropped.
CountedMeansNotified ==
  \A t \in Tasks :
    /\ task[t].status # "none" => told[t].assigned \/ lost[t].assigned \/ t \in apart.seeded
    /\ task[t].sent <= told[t].reminded + lost[t].reminded
    /\ task[t].escalated => told[t].owner \/ lost[t].owner

\* docs/04, as far as it goes: unless an event asked for the escalation, the owner is
\* told of an overdue task only after two reminders were handed to notify, though
\* reminders of several sources overlap and some are dropped.
OwnerAfterTwoReminders ==
  \A t \in Tasks : told[t].owner /\ t \notin apart.asked =>
                     told[t].reminded + lost[t].reminded >= EscalateAfter

\* No overdue task falls between the two lists: two hours past its deadline an
\* open task is due for exactly one of a reminder and an escalation, until it is
\* escalated, whatever reminders were counted before the deadline.
OverdueIsDueForOne ==
  \A t \in Watched : OverdueHours(t) >= 2 =>
    (t \in RemindersDue) # (t \in EscalationsDue)

=============================================================================
