------------------------------ MODULE MCServices ------------------------------
(***************************************************************************)
(* The services around the pipeline and Jarvis, side by side in one run:   *)
(* they share no state, so that one of them moves in a behaviour while the *)
(* others rest.                                                            *)
(***************************************************************************)
EXTENDS StyleThemes, VaultIndex, MediaCosts, RenderQueue, CrmDashboard, OwnerBot,
        VideoTiming, TLC

VARIABLES service   \* the service that moves; "vault" and "rest" are two parts of the index

mcVars == <<service, styleVars, vaultVars, costVars, renderVars, crmVars, botVars, timingVars>>

MCInit ==
  /\ service \in {"styles", "vault", "rest", "costs", "render", "crm", "bot", "timing"}
  /\ StylesInit /\ VaultInit /\ CostsInit /\ RenderInit /\ CrmInit /\ BotInit /\ TimingInit

\* Bound of the part with REST requests: one reindex at a time.
OneRun == \A i, j \in Indexers : ix[i].pc # "idle" /\ ix[j].pc # "idle" => i = j

MCNext ==
  /\ service' = service
  /\ \/ service = "styles" /\ StylesNext
        /\ UNCHANGED <<vaultVars, costVars, renderVars, crmVars, botVars, timingVars>>
     \/ service = "vault" /\ VaultNext /\ page'.rest = "none"
        /\ UNCHANGED <<styleVars, costVars, renderVars, crmVars, botVars, timingVars>>
     \/ service = "rest" /\ VaultNext /\ OneRun'
        /\ UNCHANGED <<styleVars, costVars, renderVars, crmVars, botVars, timingVars>>
     \/ service = "costs" /\ CostsNext
        /\ UNCHANGED <<styleVars, vaultVars, renderVars, crmVars, botVars, timingVars>>
     \/ service = "render" /\ RenderNext
        /\ UNCHANGED <<styleVars, vaultVars, costVars, crmVars, botVars, timingVars>>
     \/ service = "crm" /\ CrmNext
        /\ UNCHANGED <<styleVars, vaultVars, costVars, renderVars, botVars, timingVars>>
     \/ service = "bot" /\ BotNext
        /\ UNCHANGED <<styleVars, vaultVars, costVars, renderVars, crmVars, timingVars>>
     \/ service = "timing" /\ TimingNext
        /\ UNCHANGED <<styleVars, vaultVars, costVars, renderVars, crmVars, botVars>>

MCSpec == MCInit /\ [][MCNext]_mcVars

\* The types of all seven services: every row, request, queue and message stays within its bounds.
TypeOK ==
  /\ StylesTypeOK /\ VaultTypeOK /\ CostsTypeOK
  /\ RenderTypeOK /\ CrmTypeOK /\ BotTypeOK /\ TimingTypeOK

Symmetric == Permutations(Ops) \cup Permutations(Texts) \cup Permutations(Titles)

=============================================================================
