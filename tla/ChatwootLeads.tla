---------------------------- MODULE ChatwootLeads ----------------------------
(***************************************************************************)
(* Incoming messages of leads (integrations/chatwoot.py, the webhook of    *)
(* api/jarvis_routes.py), the CRM they are written to                      *)
(* (integrations/crm_adapter.py) and what Jarvis makes of them             *)
(* (supervisor's lead events, jarvis/lead_scorer.py).  The webhook answers *)
(* at once and handles the message in the background: several messages of  *)
(* one contact are handled side by side.  A request to Twenty is tried up  *)
(* to three times, and one whose answer was lost has been done already.    *)
(***************************************************************************)
EXTENDS Integers, Sequences, FiniteSets

CONSTANTS
  Contacts,
  Hooks,        \* background tasks at a time
  MaxAttempts,  \* TwentyCRM._MAX_ATTEMPTS
  MaxLeads      \* bound: leads of the CRM

ASSUME LeadsAssumption == Contacts # {} /\ MaxAttempts \in Nat \ {0} /\ MaxLeads \in Nat

VARIABLES
  leads,      \* the leads of the CRM, in the order of creation
  links,      \* the crm_link rows
  hook,       \* the background tasks
  proposals,  \* the message_lead actions these messages led to
  faulted     \* an answer was lost, a write failed or the process stopped (not in the code)

leadVars == <<leads, links, hook, proposals, faulted>>

LeadIds == 1..MaxLeads
NoLead == 0
Link == [contact: Contacts, lead: LeadIds]
Hook == [pc: {"idle", "look", "create", "link", "event"}, contact: Contacts,
         lead: LeadIds \cup {NoLead}, attempt: 1..MaxAttempts, kind: {"lead.reply", "lead.created"}]
Rest == [pc |-> "idle", contact |-> CHOOSE c \in Contacts : TRUE, lead |-> NoLead,
         attempt |-> 1, kind |-> "lead.reply"]

LeadsTypeOK ==
  /\ leads \in Seq([contact: Contacts, scored: BOOLEAN]) /\ Len(leads) <= MaxLeads
  /\ links \subseteq Link /\ proposals \subseteq Link
  /\ hook \in [Hooks -> Hook] /\ faulted \in BOOLEAN

LeadsInit ==
  leads = <<>> /\ links = {} /\ hook = [h \in Hooks |-> Rest] /\ proposals = {} /\ faulted = FALSE

\* chatwoot_webhook and the guard of handle_webhook: only an incoming message of a
\* known contact, with the right secret, gets past the first lines.
Deliver(h) ==
  /\ hook[h].pc = "idle"
  /\ \E c \in Contacts : hook' = [hook EXCEPT ![h] = [Rest EXCEPT !.pc = "look", !.contact = c]]
  /\ UNCHANGED <<leads, links, proposals, faulted>>

LinksOf(c) == {l \in links : l.contact = c}

\* (mutant) the link is not looked for
LookAfresh(h) ==
  /\ hook[h].pc = "look"
  /\ hook' = [hook EXCEPT ![h].pc = "create"]
  /\ UNCHANGED <<leads, links, proposals, faulted>>

Look(h) ==
  LET known == LinksOf(hook[h].contact)
  IN /\ hook[h].pc = "look"
     /\ IF known = {} THEN hook' = [hook EXCEPT ![h].pc = "create"]
        ELSE \E l \in known :
               hook' = [hook EXCEPT ![h].pc = "event", ![h].lead = l.lead, ![h].kind = "lead.reply"]
     /\ UNCHANGED <<leads, links, proposals, faulted>>

\* TwentyCRM._request: a connection error or a 5xx is tried again, until the last attempt.
TryAgain(h) ==
  hook' = [hook EXCEPT ![h] = IF hook[h].attempt < MaxAttempts
                              THEN [hook[h] EXCEPT !.attempt = hook[h].attempt + 1] ELSE Rest]

NewLead(c) == Len(leads) < MaxLeads /\ leads' = Append(leads, [contact |-> c, scored |-> FALSE])

\* crm.create_lead
CreateLead(h) ==
  /\ hook[h].pc = "create"
  /\ \/ /\ NewLead(hook[h].contact)
        /\ hook' = [hook EXCEPT ![h].pc = "link", ![h].lead = Len(leads) + 1]
        /\ UNCHANGED faulted
     \/ /\ NewLead(hook[h].contact)            \* done, and the answer timed out
        /\ TryAgain(h)
        /\ faulted' = TRUE
     \/ UNCHANGED <<leads, faulted>> /\ TryAgain(h)
     \/ UNCHANGED <<leads, faulted>> /\ hook' = [hook EXCEPT ![h] = Rest]    \* 4xx
  /\ UNCHANGED <<links, proposals>>

\* (mutant) a contact that is linked meanwhile is not linked again
LinkLeadOnce(h) ==
  /\ hook[h].pc = "link"
  /\ links' = IF LinksOf(hook[h].contact) # {} THEN links
              ELSE links \cup {[contact |-> hook[h].contact, lead |-> hook[h].lead]}
  /\ hook' = [hook EXCEPT ![h].pc = "event", ![h].kind = "lead.created"]
  /\ UNCHANGED <<leads, proposals, faulted>>

\* link_contact_to_lead and the commit, which can fail
LinkLead(h) ==
  /\ hook[h].pc = "link"
  /\ \/ /\ links' = links \cup {[contact |-> hook[h].contact, lead |-> hook[h].lead]}
        /\ hook' = [hook EXCEPT ![h].pc = "event", ![h].kind = "lead.created"]
        /\ UNCHANGED faulted
     \/ /\ faulted' = TRUE
        /\ hook' = [hook EXCEPT ![h] = Rest]
        /\ UNCHANGED links
  /\ UNCHANGED <<leads, proposals>>

Offer(h) == proposals' = proposals \cup {[contact |-> hook[h].contact, lead |-> hook[h].lead]}

\* _handle_lead_created scores the lead first (get_lead, the LLM, the score, a note);
\* _handle_lead_reply does not.  Whatever raises is logged, and the message forgotten.
HandleEvent(h) ==
  /\ hook[h].pc = "event"
  /\ \/ hook[h].kind = "lead.reply" /\ UNCHANGED leads /\ Offer(h)
     \/ /\ hook[h].kind = "lead.created"
        /\ leads' = [leads EXCEPT ![hook[h].lead].scored = TRUE]
        /\ Offer(h) \/ UNCHANGED proposals
     \/ UNCHANGED <<leads, proposals>>
  /\ hook' = [hook EXCEPT ![h] = Rest]
  /\ UNCHANGED <<links, faulted>>

StopApi ==
  /\ hook' = [h \in Hooks |-> Rest]
  /\ faulted' = (faulted \/ \E h \in Hooks : hook[h].pc = "link")
  /\ UNCHANGED <<leads, links, proposals>>

LeadsNext ==
  \/ StopApi
  \/ \E h \in Hooks : Deliver(h) \/ Look(h) \/ CreateLead(h) \/ LinkLead(h) \/ HandleEvent(h)
LeadsSpec == LeadsInit /\ [][LeadsNext]_leadVars

----------------------------------------------------------------------------

\* A lead that no link leads to is the trace of a lost answer, of a failed write or
\* of a stop: with none of them every lead is linked, or about to be.
OrphanOnlyByFault ==
  ~faulted => \A i \in DOMAIN leads :
    \/ [contact |-> leads[i].contact, lead |-> i] \in links
    \/ \E h \in Hooks : hook[h].pc = "link" /\ hook[h].lead = i

Creating(c) == \E h \in Hooks : hook[h].contact = c /\ hook[h].pc \in {"create", "link"}

\* Once a contact is linked, and no message of it is still on its way to a lead of
\* its own, no later message makes a second lead.
LinkedContactKeepsItsLeads ==
  [][\A c \in Contacts :
       LinksOf(c) # {} /\ ~Creating(c) =>
         /\ ~Creating(c)'
         /\ {i \in DOMAIN leads' : leads'[i].contact = c}
              = {i \in DOMAIN leads : leads[i].contact = c}]_leadVars

=============================================================================
