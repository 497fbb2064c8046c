----------------------------- MODULE OwnerDialog -----------------------------
(***************************************************************************)
(* The owner's commands to Jarvis, typed or spoken (jarvis/voice.py,       *)
(* jarvis/owner_memory.py, api/voice_routes.py).  An utterance reads the   *)
(* memory of the chat and resolves the workspace, commits its row, has the *)
(* LLM tell the intent, takes the route of that intent and remembers the   *)
(* reply.  Only the latest rows of the memory are ever read.  Utterances of*)
(* one chat overlap: what one has read may be old when it takes its route. *)
(***************************************************************************)
EXTENDS JarvisActions

CONSTANTS
  First,     \* the workspace of the owner that was created first
  MemoryRows,\* settings.owner_memory_turns * 2: the rows an utterance reads
  NoWs       \* model value: no workspace given, or none in a row

ASSUME DialogAssumption == First \in Workspaces /\ MemoryRows \in Nat /\ NoWs \notin Workspaces

VARIABLES
  memory,    \* the last MemoryRows rows of owner_memory, oldest first
  talk       \* the utterance each request carries

dialogVars == <<acts, req, memory, talk>>

Row == [role: {"user", "jarvis"}, ws: Workspaces \cup {NoWs}, ids: Seq(1..MaxActions)]
Utterance == [pc: {"off", "heard", "routed", "replied"}, ws: Workspaces,
              last: Seq(1..MaxActions), reply: Row]
UserRow == [role |-> "user", ws |-> NoWs, ids |-> <<>>]
Reply(ws, ids) == [role |-> "jarvis", ws |-> ws, ids |-> ids]
Off == [pc |-> "off", ws |-> First, last |-> <<>>, reply |-> Reply(NoWs, <<>>)]

DialogTypeOK ==
  /\ ActionsTypeOK
  /\ memory \in Seq(Row) /\ Len(memory) <= MemoryRows
  /\ talk \in [Requests -> Utterance]

DialogInit ==
  ActionsInit /\ memory = <<>> /\ talk = [r \in Requests |-> Off]

\* (mutant) the memory is read without a limit
RememberedAll(row) == Append(memory, row)

Remembered(row) ==
  LET all == Append(memory, row)
  IN IF Len(all) > MemoryRows THEN Tail(all) ELSE all

JarvisRows == {i \in DOMAIN memory : memory[i].role = "jarvis"}
Latest(S) == CHOOSE i \in S : \A j \in S : j <= i

\* _resolve_workspace: the one the caller gives, else the latest that a reply in
\* the memory selected, else the owner's first.
ResolveWorkspace(given) ==
  LET choices == {i \in JarvisRows : memory[i].ws # NoWs}
  IN IF given # NoWs THEN given
     ELSE IF choices # {} THEN memory[Latest(choices)].ws ELSE First

LastTurnIds == IF JarvisRows = {} THEN <<>> ELSE memory[Latest(JarvisRows)].ids

\* handle_owner_utterance up to the commit of the owner's row; a voice message
\* that is not understood, or silent, is answered before and leaves no trace.
Hear(r) ==
  /\ talk[r].pc = "off" /\ req[r].pc = "idle"
  /\ \E given \in Workspaces \cup {NoWs} :
       talk' = [talk EXCEPT ![r] =
         [Off EXCEPT !.pc = "heard", !.ws = ResolveWorkspace(given), !.last = LastTurnIds]]
  /\ memory' = Remembered(UserRow)
  /\ UNCHANGED <<acts, req>>

Routed(r, ws, ids) ==
  talk' = [talk EXCEPT ![r] = [Off EXCEPT !.pc = "replied", !.reply = Reply(ws, ids)]]

\* What is left of ids in S, in the order of ids: a set of one sequence.
Kept(ids, S) ==
  LET left == {ids[k] : k \in DOMAIN ids} \cap S
  IN {q \in [1..Cardinality(left) -> left] :
        \A k \in DOMAIN q : \E a \in DOMAIN ids : ids[a] = q[k] /\
          \A n \in 1..(k - 1) : \E b \in 1..(a - 1) : ids[b] = q[n]}

\* (mutant) the workspace of the actions is not compared
PendingTargetsAnywhere(r, named) ==
  LET pending == {i \in DOMAIN acts : acts[i].status = "pending"}
  IN {q \in Kept(named, pending) \cup Kept(talk[r].last, pending) : q # <<>> \/ pending = {}}

\* _pending_targets: the action the LLM names, else those of the last reply, else
\* the newest; an action of another workspace, or one decided meanwhile, is no target.
PendingTargets(r, named) ==
  LET pending == PendingOf(talk[r].ws)
      some(ids) == Kept(ids, pending) \ {<<>>}
  IN IF some(named) # {} THEN some(named)
     ELSE IF some(talk[r].last) # {} THEN some(talk[r].last)
     ELSE IF pending = {} THEN {<<>>} ELSE {<<Latest(pending)>>}

\* "ha", "yo'q", "hammasiga ha"
RouteDecision(r) ==
  /\ talk[r].pc = "heard"
  /\ \/ \E named \in {<<>>} \cup {<<i>> : i \in DOMAIN acts}, d \in {"yes", "no"} :
          \E ids \in PendingTargets(r, named) : Begin(r, ids, d)
     \/ BatchApprove(r, talk[r].ws)
  /\ talk' = [talk EXCEPT ![r].pc = "routed", ![r].last = <<>>]
  /\ UNCHANGED memory

\* The decisions are made, or one of them raised and the owner gets an apology.
DecisionReplied(r) ==
  /\ talk[r].pc = "routed" /\ req[r].pc \in {"done", "idle"}
  /\ Routed(r, NoWs, <<>>)
  /\ req' = [req EXCEPT ![r] = Idle]
  /\ UNCHANGED <<acts, memory>>

\* message_lead, call_lead: one proposal per lead, for the owner to answer; their
\* payload names the lead, never a conversation.  assign_task is done at once.
RouteProposal(r) ==
  /\ talk[r].pc = "heard"
  /\ \E type \in Types \cap VoiceTypes, n \in 1..2 :
       LET ids == [k \in 1..n |-> Len(acts) + k]
       IN /\ Len(acts) + n <= MaxActions
          /\ type \notin NeedsApproval => n = 1
          /\ acts' = acts \o [k \in 1..n |-> Proposed(talk[r].ws, type, FALSE)]
          /\ Routed(r, NoWs, IF type \in NeedsApproval THEN ids ELSE <<>>)
  /\ UNCHANGED <<req, memory>>

\* select_workspace and create_brief move the chat to a workspace of the owner.
RouteWorkspace(r) ==
  /\ talk[r].pc = "heard"
  /\ \E w \in Workspaces : Routed(r, w, <<>>)
  /\ UNCHANGED <<acts, req, memory>>

\* Reports, queries, settings, small talk, a question back, a route that raised.
RouteOther(r) ==
  /\ talk[r].pc = "heard"
  /\ Routed(r, NoWs, <<>>)
  /\ UNCHANGED <<acts, req, memory>>

\* The reply is synthesized, and its row committed: then the owner gets it.
Remember(r) ==
  /\ talk[r].pc = "replied"
  /\ memory' = Remembered(talk[r].reply)
  /\ talk' = [talk EXCEPT ![r] = Off]
  /\ UNCHANGED <<acts, req>>

\* The API process ends: what its requests had not committed is gone.
Crash ==
  /\ req' = [r \in Requests |-> Idle]
  /\ talk' = [r \in Requests |-> Off]
  /\ UNCHANGED <<acts, memory>>

ApiStep(r) ==
  /\ \/ talk[r].pc = "off" /\ (DecideOne(r) \/ \E w \in Workspaces : BatchApprove(r, w))
     \/ Answering(r)
     \/ talk[r].pc = "off" /\ Respond(r)
  /\ UNCHANGED <<memory, talk>>

EventStep ==
  /\ \E w \in Workspaces, type \in Types : Propose(w, type)
  /\ UNCHANGED <<memory, talk>>

TalkStep(r) ==
  \/ Hear(r) \/ RouteDecision(r) \/ DecisionReplied(r)
  \/ RouteProposal(r) \/ RouteWorkspace(r) \/ RouteOther(r) \/ Remember(r)

DialogNext == EventStep \/ Crash \/ \E r \in Requests : ApiStep(r) \/ TalkStep(r)
DialogSpec == DialogInit /\ [][DialogNext]_dialogVars

----------------------------------------------------------------------------

\* A spoken answer never reaches an action of another workspace than the one the
\* utterance is for, though the last reply, or the action the LLM names, may be
\* about another client of the same owner.
AnswerStaysInWorkspace ==
  \A r \in Requests : talk[r].pc = "routed" =>
    \A k \in DOMAIN req[r].ids : acts[req[r].ids[k]].ws = talk[r].ws

\* voice.py:400 tells the owner that the actions are done ("Tasdiqlandi: n ta
\* harakat bajarildi"): a message journalled as executed has been sent.
ExecutedMessageWasSent ==
  \A i \in DOMAIN acts :
    acts[i].type = "message_lead" /\ acts[i].status = "executed" => acts[i].sent > 0

=============================================================================
