----------------------------- MODULE CrmDashboard -----------------------------
(***************************************************************************)
(* The CRM page of a workspace (api/crm_routes.py): a dashboard that reads *)
(* leads and then deals and adds them up over two windows, and the demo    *)
(* data its button loads into a workspace that has no lead.  Nothing else  *)
(* in src writes a lead or a deal.  The lists that only format rows (cost, *)
(* tasks, staff, journal) are left out.                                    *)
(***************************************************************************)
EXTENDS Integers, FiniteSets

CONSTANTS
  Requests,   \* HTTP requests at a time
  Windows,    \* the values of days
  Day,        \* ticks of the clock in a day
  MaxNow,     \* bound: the clock
  MaxSeeds    \* bound: demo-seed requests that find no lead

ASSUME DashboardAssumption ==
  /\ IsFiniteSet(Requests) /\ Windows \subseteq Nat \ {0} /\ Day \in Nat \ {0}
  /\ MaxNow \in Nat /\ MaxSeeds \in Nat

VARIABLES
  now,        \* the clock, in ticks
  leads,      \* the lead rows, with the deal of a lead in stage deal
  seeds,      \* how often the demo data was written
  req         \* the requests

crmVars == <<now, leads, seeds, req>>

Stages == {"new", "deal"}             \* of five: those that matter to the deals
Temperatures == {"hot", "cold"}
DealStatuses == {"none", "open", "won", "lost"}
First == -(2 * Day)                   \* the demo data goes back so far
Moments == First..MaxNow
Lead == [id: 1..MaxSeeds, at: Moments, stage: Stages, temperature: Temperatures,
         campaign: BOOLEAN, deal: DealStatuses, closed: Moments]

\* What a request has read so far; started: its now, days: its parameter.
NoRequest == [pc |-> "idle", days |-> 1, started |-> 0, leads |-> {}, deals |-> {}]

CrmTypeOK ==
  /\ now \in 0..MaxNow /\ seeds \in 0..MaxSeeds
  /\ leads \subseteq Lead
  /\ req \in [Requests -> [pc: {"idle", "seed", "leads", "deals", "done"},
                           days: Windows \cup {1}, started: 0..MaxNow,
                           leads: SUBSET Lead, deals: SUBSET Lead]]

CrmInit ==
  /\ now = 0 /\ leads = {} /\ seeds = 0
  /\ req = [r \in Requests |-> NoRequest]

\* crm_demo_seed: it counts the leads, and writes in a transaction of its own.
CountLeads(r) ==
  /\ req[r].pc = "idle" /\ leads = {}
  /\ seeds + Cardinality({x \in Requests : req[x].pc = "seed"}) < MaxSeeds
  /\ req' = [req EXCEPT ![r].pc = "seed"]
  /\ UNCHANGED <<now, leads, seeds>>

\* _seed_demo_data, one lead of it: a lead in stage deal is hot and has a
\* deal, closed a day or more after the lead came, or just now if that is too late.
DemoLeads(id) ==
  {l \in [id: {id}, at: First..now, stage: Stages, temperature: Temperatures,
          campaign: BOOLEAN, deal: DealStatuses, closed: First..now] :
     /\ l.stage = "deal" <=> l.deal # "none"
     /\ l.stage = "deal" => l.temperature = "hot"
     /\ l.closed \in IF l.deal \in {"won", "lost"} THEN {now - 1} \cup (l.at + Day)..(now - 1) ELSE {l.at}}

SeedDemo(r) ==
  /\ req[r].pc = "seed"
  /\ \E l \in DemoLeads(seeds + 1) : leads' = leads \cup {l}
  /\ seeds' = seeds + 1
  /\ req' = [req EXCEPT ![r] = NoRequest]
  /\ UNCHANGED now

\* crm_dashboard: now is taken before the first read.
AskDashboard(r) ==
  /\ req[r].pc = "idle"
  /\ \E d \in Windows :
       req' = [req EXCEPT ![r] = [NoRequest EXCEPT !.pc = "leads", !.days = d, !.started = now]]
  /\ UNCHANGED <<now, leads, seeds>>

ReadLeads(r) ==
  /\ req[r].pc = "leads"
  /\ req' = [req EXCEPT ![r].pc = "deals", ![r].leads = leads]
  /\ UNCHANGED <<now, leads, seeds>>

\* The deals of the leads that were read
DealsOf(read) == {l \in leads : l.deal # "none" /\ \E k \in read : k.id = l.id}

ReadDeals(r) ==
  /\ req[r].pc = "deals"
  /\ req' = [req EXCEPT ![r].pc = "done", ![r].deals = DealsOf(req[r].leads)]
  /\ UNCHANGED <<now, leads, seeds>>

Answered(r) ==
  /\ req[r].pc = "done"
  /\ req' = [req EXCEPT ![r] = NoRequest]
  /\ UNCHANGED <<now, leads, seeds>>

Clock == now < MaxNow /\ now' = now + 1 /\ UNCHANGED <<leads, seeds, req>>

CrmNext ==
  \/ Clock
  \/ \E r \in Requests : \/ CountLeads(r) \/ SeedDemo(r) \/ AskDashboard(r) \/ ReadLeads(r)
                         \/ ReadDeals(r) \/ Answered(r)
CrmSpec == CrmInit /\ [][CrmNext]_crmVars

----------------------------------------------------------------------------

\* What the page shows.

InWindowClosed(at, since, until) == since <= at /\ at <= until   \* (mutant)

InWindow(at, since, until) == since <= at /\ at < until
Count(S, P(_)) == Cardinality({x \in S : P(x)})
DateOf(at) == at \div Day

\* _compute_kpis
Kpis(q, since, until) ==
  LET came == {l \in q.leads : InWindow(l.at, since, until)}
  IN [total |-> Cardinality(came),
      today |-> Count(came, LAMBDA l : DateOf(l.at) = DateOf(until)),
      hot |-> Count(came, LAMBDA l : l.temperature = "hot"),
      cold |-> Count(came, LAMBDA l : l.temperature = "cold"),
      won |-> Count(q.deals, LAMBDA l : l.deal = "won" /\ InWindow(l.closed, since, until))]

Current(q) == Kpis(q, q.started - q.days * Day, q.started)
Previous(q) == Kpis(q, q.started - 2 * q.days * Day, q.started - q.days * Day)

\* _bucket_leads_by_day: exactly days dates, today's the last
Buckets(q) ==
  [d \in (DateOf(q.started) - q.days + 1)..DateOf(q.started) |-> {l \in q.leads : DateOf(l.at) = d}]

\* The sum of the days, a lead counted as often as it is in one.
Bucketed(q) == Cardinality({b \in (DOMAIN Buckets(q)) \X q.leads : b[2] \in Buckets(q)[b[1]]})

Funnel(q) == [s \in Stages |-> Count(q.leads, LAMBDA l : l.stage = s)]

\* _campaigns_roi: over all time
Campaign(q) == [leads |-> Count(q.leads, LAMBDA l : l.campaign),
                won |-> Count(q.deals, LAMBDA l : l.deal = "won" /\ l.campaign)]

\* The numbers of one page agree, whatever was seeded between its reads:
\* each temperature adds up, the two windows never count a lead or a won deal twice, no
\* more deals are won than leads are in stage deal, none in a campaign without its leads,
\* and a lead that is in a day of the chart but not in the window came as the page was read,
\* or, the other way round, on the part of a day that the window has before the chart.
DashboardAddsUp ==
  \A r \in Requests : LET q == req[r] IN q.pc = "done" =>
    /\ \A k \in {Current(q), Previous(q)} : k.total = k.hot + k.cold /\ k.today <= k.total
    /\ Current(q).total + Previous(q).total <= Cardinality(q.leads)
    /\ Current(q).won + Previous(q).won <= Funnel(q)["deal"]
    /\ Campaign(q).won <= Campaign(q).leads /\ Campaign(q).leads <= Funnel(q)["new"] + Funnel(q)["deal"]
    /\ LET early == Count(q.leads, LAMBDA l : /\ DateOf(l.at) = DateOf(q.started) - q.days
                                              /\ l.at >= q.started - q.days * Day)
           late == Count(q.leads, LAMBDA l : l.at >= q.started /\ DateOf(l.at) = DateOf(q.started))
       IN Bucketed(q) - late = Current(q).total - early

=============================================================================
