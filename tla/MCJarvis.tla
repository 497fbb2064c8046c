------------------------------- MODULE MCJarvis -------------------------------
(***************************************************************************)
(* The parts of Jarvis, side by side in one run: they share no state but   *)
(* the database's rows modelled in each of them, so that one part moves in *)
(* a behaviour while the others rest.                                      *)
(***************************************************************************)
EXTENDS OwnerDialog, TaskReminders, ChatwootLeads, SpokenDeadlines, TLC

VARIABLES part   \* the part that moves: "odd" is the tasks with events, seeds and dropped notifications

mcVars == <<part, dialogVars, taskVars, leadVars, deadlineVars>>

MCInit ==
  /\ part \in {"dialog", "tasks", "odd", "leads", "deadlines"}
  /\ DialogInit /\ TasksInit /\ LeadsInit /\ DeadlinesInit

\* Bound: what is odd happens to one task, the lists of several tasks to the others' part.
OneTask == Cardinality({t \in Tasks : task[t].status # "none"}) <= 1

MCNext ==
  /\ part' = part
  /\ \/ part = "dialog" /\ DialogNext /\ UNCHANGED <<taskVars, leadVars, deadlineVars>>
     \/ part = "tasks" /\ TasksNext /\ UNCHANGED <<apart, dialogVars, leadVars, deadlineVars>>
     \/ part = "odd" /\ TasksNext /\ OneTask' /\ UNCHANGED <<dialogVars, leadVars, deadlineVars>>
     \/ part = "leads" /\ LeadsNext /\ UNCHANGED <<dialogVars, taskVars, deadlineVars>>
     \/ part = "deadlines" /\ DeadlinesNext /\ UNCHANGED <<dialogVars, taskVars, leadVars>>

MCSpec == MCInit /\ [][MCNext]_mcVars

\* The types of all four parts: every row, request and message stays within its bounds.
TypeOK == DialogTypeOK /\ TasksTypeOK /\ LeadsTypeOK /\ DeadlinesTypeOK

Symmetric == Permutations(Requests) \cup Permutations(Tasks)

=============================================================================
