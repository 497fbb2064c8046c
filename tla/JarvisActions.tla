---------------------------- MODULE JarvisActions ----------------------------
(***************************************************************************)
(* The journal of Jarvis and its policy gate (jarvis/supervisor.py,        *)
(* jarvis/policy.py).  An action is proposed: an autonomous one is executed*)
(* at once, any other waits for the owner.  The owner answers one action   *)
(* (a button of the bot, the CRM page, the API) or all that wait; a request*)
(* answers its actions one after the other, and for each of them it reads  *)
(* the status, runs the executor and commits, with no lock in between: two *)
(* requests interleave between these steps.                                *)
(***************************************************************************)
EXTENDS Integers, Sequences, FiniteSets

CONSTANTS
  Requests,     \* the requests that may be in flight at a time
  Workspaces,
  Types,        \* the action types that are proposed
  MaxActions,   \* bound: rows of the journal
  MaxSent       \* bound: effects of one action, in executors that failed half-way

ASSUME JarvisAssumption == MaxActions \in Nat /\ MaxSent \in Nat \ {0}

VARIABLES
  acts,  \* the jarvis_action rows, in the order of created_at
  req    \* the requests that answer actions

\* What docs/06 puts under the owner's approval; the rest of Types is autonomous.
NeedsApproval == {"message_lead", "call_lead", "change_deal"}

\* What an event leads to, and what the owner can ask for by voice.
EventTypes == {"message_lead", "remind_staff", "escalate_owner", "send_report"}
VoiceTypes == {"message_lead", "call_lead", "assign_task", "remind_staff"}

\* (mutant) message_lead is missing from the table, and autonomous by default.
LevelLax(type) == IF type \in {"call_lead", "change_deal"} THEN "requires_approval" ELSE "autonomous"

Level(type) ==
  IF type \in {"send_report", "assign_task", "remind_staff", "escalate_owner"}
  THEN "autonomous" ELSE "requires_approval"

\* approved (the owner has said yes) and sent (what the executor did in the
\* world: replies to the lead, tasks given) are not columns.
Action == [ws: Workspaces, type: Types, conversation: BOOLEAN,
           status: {"pending", "executed", "cancelled"}, approved: BOOLEAN, sent: 0..MaxSent]

\* A request reads the first action of todo, runs its executor and commits it.
Request == [pc: {"idle", "read", "run", "commit", "done"}, decision: {"yes", "no"},
            ids: Seq(1..MaxActions), todo: Seq(1..MaxActions)]
Idle == [pc |-> "idle", decision |-> "no", ids |-> <<>>, todo |-> <<>>]

ActionsTypeOK ==
  /\ acts \in Seq(Action) /\ Len(acts) <= MaxActions
  /\ req \in [Requests -> Request]

ActionsInit == acts = <<>> /\ req = [r \in Requests |-> Idle]

PendingOf(w) == {i \in DOMAIN acts : acts[i].ws = w /\ acts[i].status = "pending"}

\* The sequences of all of S, each once: the database gives its rows in any order.
Orders(S) == {q \in [1..Cardinality(S) -> S] : \A i \in S : \E k \in DOMAIN q : q[k] = i}

\* propose_action, for an event: a message of a lead comes with its conversation.
\* The executor of an autonomous action runs in the transaction that inserts it.
Proposed(w, type, conversation) ==
  LET auto == Level(type) = "autonomous"
  IN [ws |-> w, type |-> type, conversation |-> conversation, approved |-> FALSE,
      status |-> IF auto THEN "executed" ELSE "pending",
      sent |-> IF auto THEN 1 ELSE 0]

Propose(w, type) ==
  /\ Len(acts) < MaxActions /\ type \in EventTypes
  /\ acts' = Append(acts, Proposed(w, type, type = "message_lead"))
  /\ UNCHANGED req

Begin(r, ids, decision) ==
  /\ req[r].pc = "idle"
  /\ req' = [req EXCEPT ![r] = [pc |-> IF ids = <<>> THEN "done" ELSE "read",
                                decision |-> decision, ids |-> ids, todo |-> ids]]
  /\ acts' = [i \in DOMAIN acts |->
                IF decision # "no" /\ \E k \in DOMAIN ids : ids[k] = i
                THEN [acts[i] EXCEPT !.approved = TRUE] ELSE acts[i]]

\* POST .../decision of the API, of the bot and of the CRM page; "edit" is a yes
\* with another text.
DecideOne(r) == \E i \in DOMAIN acts, d \in {"yes", "no"} : Begin(r, <<i>>, d)

\* batch_approve: owner.command "hammasiga ha", or the report's button.
BatchApprove(r, w) == \E ids \in Orders(PendingOf(w)) : Begin(r, ids, "yes")

NextTarget(r) ==
  IF Len(req[r].todo) = 1 THEN [req[r] EXCEPT !.pc = "done", !.todo = <<>>]
  ELSE [req[r] EXCEPT !.pc = "read", !.todo = Tail(@)]

\* (mutant) the status is not asked
ReadBlind(r) ==
  /\ req[r].pc = "read"
  /\ req' = [req EXCEPT ![r].pc = IF req[r].decision = "no" THEN "commit" ELSE "run"]
  /\ UNCHANGED acts

\* decide: session.get, and an action that was decided before is returned as it is.
Read(r) ==
  /\ req[r].pc = "read"
  /\ req' = [req EXCEPT ![r] =
       IF acts[Head(req[r].todo)].status # "pending" THEN NextTarget(r)
       ELSE [req[r] EXCEPT !.pc = IF req[r].decision = "no" THEN "commit" ELSE "run"]]
  /\ UNCHANGED acts

\* What an executor does: a reply needs the conversation, a call is only logged.
Effect(a) ==
  CASE a.type = "message_lead" -> IF a.conversation THEN 1 ELSE 0
    [] a.type = "call_lead" -> 0
    [] OTHER -> 1

Run(r) ==
  LET i == Head(req[r].todo)
  IN /\ req[r].pc = "run"
     /\ acts[i].sent + Effect(acts[i]) <= MaxSent
     /\ acts' = [acts EXCEPT ![i].sent = @ + Effect(acts[i])]
     /\ req' = [req EXCEPT ![r].pc = "commit"]

\* (mutants) a batch goes on after an executor that raised; the row that was read is put back
RunFailsOn(r) ==
  req[r].pc = "run" /\ req' = [req EXCEPT ![r] = NextTarget(r)] /\ UNCHANGED acts
RunFailsRestores(r) ==
  /\ req[r].pc = "run"
  /\ acts' = [acts EXCEPT ![Head(req[r].todo)].status = "pending"]
  /\ req' = [req EXCEPT ![r] = Idle]

\* The executor raises, before its effect or (a reply that timed out) after it:
\* the transaction is rolled back and the actions behind this one stay undecided.
RunFails(r) ==
  LET i == Head(req[r].todo)
  IN /\ req[r].pc = "run"
     /\ \E n \in {0, Effect(acts[i])} :
          /\ acts[i].sent + n <= MaxSent
          /\ acts' = [acts EXCEPT ![i].sent = @ + n]
     /\ req' = [req EXCEPT ![r] = Idle]

\* The row this request loaded is written back, whatever it has become meanwhile.
Commit(r) ==
  /\ req[r].pc = "commit"
  /\ acts' = [acts EXCEPT ![Head(req[r].todo)].status =
                IF req[r].decision = "no" THEN "cancelled" ELSE "executed"]
  /\ req' = [req EXCEPT ![r] = NextTarget(r)]

Respond(r) ==
  /\ req[r].pc = "done"
  /\ req' = [req EXCEPT ![r] = Idle]
  /\ UNCHANGED acts

Answering(r) == Read(r) \/ Run(r) \/ RunFails(r) \/ Commit(r)

----------------------------------------------------------------------------

Decided(i) == acts[i].status # "pending"
Working(i) == \E r \in Requests : req[r].pc \in {"run", "commit"} /\ Head(req[r].todo) = i

\* The policy gate of docs/06: nothing that needs the owner's approval is done,
\* or journalled as done, unless the owner has answered that very action with
\* yes or edit, however the answers of several requests interleave or fail.
GatedByOwner ==
  \A i \in DOMAIN acts :
    acts[i].type \in NeedsApproval /\ (acts[i].sent > 0 \/ acts[i].status = "executed")
      => acts[i].approved

\* A request that answers the owner has left none of its actions undecided:
\* the count in "n ta harakat bajarildi" is that of decided actions, and one
\* that another request decided meanwhile does not stop a batch.
AnsweredMeansDecided ==
  \A r \in Requests : req[r].pc = "done" =>
    \A k \in DOMAIN req[r].ids : Decided(req[r].ids[k])

\* A decided action is never offered to the owner again, even when a request
\* that read it before fails after the other one's commit.
DecidedForever == [][\A i \in DOMAIN acts : Decided(i) => Decided(i)']_<<acts, req>>

\* A late tap does nothing: once an action is decided and no request is at work
\* on it, no answer makes its executor run, or write its row, again.
LateTapDoesNothing ==
  [][\A i \in DOMAIN acts :
       Decided(i) /\ ~Working(i) => ~Working(i)' /\ acts'[i].sent = acts[i].sent]_<<acts, req>>

=============================================================================
