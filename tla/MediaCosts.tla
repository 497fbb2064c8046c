------------------------------ MODULE MediaCosts ------------------------------
(***************************************************************************)
(* Paid calls and the book of their costs (llm.py, integrations/tts.py,    *)
(* stt.py and images.py, cost_tracker.py), and the graph node that makes   *)
(* most of them at once, asset_gen.  A call is retried, or falls back to   *)
(* another provider, or both; what it costs is booked when its answer is   *)
(* in hand, in a list that all calls of the process share and that forgets *)
(* its oldest entries.  The node reads its own cost out of that list.      *)
(***************************************************************************)
EXTENDS Integers, Sequences, FiniteSets

CONSTANTS
  Calls,       \* calls in flight
  MaxTries,    \* settings.llm_max_retries, at least 1
  MaxRecent,   \* maxlen of cost_tracker.RECENT
  MaxTotal     \* bound: entries that are counted since a run began

ASSUME CostsAssumption == MaxTries \in Nat \ {0} /\ MaxRecent \in Nat \ {0} /\ MaxTotal \in Nat

VARIABLES
  call,        \* the calls
  recent,      \* RECENT
  assets       \* the run of asset_gen

costVars == <<call, recent, assets>>

CallKinds == {"json", "tts", "stt", "image", "depth"}

\* got: usable answers that arrived, booked: those whose price was booked (neither
\* is in the code); mine: of the run of asset_gen that is at work.
Call == [pc: {"idle", "ask", "fetch", "book", "back", "raised"}, kind: CallKinds, mine: BOOLEAN,
         tries: 1..MaxTries, again: BOOLEAN, fallen: BOOLEAN, got: 0..2, booked: 0..2]
NoCall == [pc |-> "idle", kind |-> "json", mine |-> FALSE, tries |-> 1, again |-> FALSE,
           fallen |-> FALSE, got |-> 0, booked |-> 0]

\* An entry: of this workspace, since started_at of the run, and whether it has a price.
Entry == [ws: BOOLEAN, since: BOOLEAN, usd: 0..1]
NoRun == [pc |-> "idle", cost |-> 0, spent |-> 0, total |-> 0]

CostsTypeOK ==
  /\ call \in [Calls -> Call]
  /\ recent \in Seq(Entry) /\ Len(recent) <= MaxRecent
  /\ assets \in [pc: {"idle", "assets", "depth", "done", "failed"}, cost: 0..MaxRecent,
                 spent: 0..MaxTotal, total: 0..MaxTotal]

CostsInit == call = [c \in Calls |-> NoCall] /\ recent = <<>> /\ assets = NoRun

\* (mutant) RECENT never forgets
BookForever(ws, usd) ==
  /\ assets.total < MaxTotal
  /\ recent' = Append(recent, [ws |-> ws, since |-> TRUE, usd |-> usd])
  /\ UNCHANGED assets

\* _emit: RECENT drops its oldest entry; the sink's errors are swallowed.  The run
\* remembers what was spent in its workspace, and how much was booked, since it began.
Book(ws, usd) ==
  /\ assets.total < MaxTotal
  /\ LET all == Append(recent, [ws |-> ws, since |-> TRUE, usd |-> usd])
     IN recent' = IF Len(all) > MaxRecent THEN Tail(all) ELSE all
  /\ assets' = IF assets.pc \in {"assets", "depth"}
               THEN [assets EXCEPT !.total = @ + 1, !.spent = @ + IF ws THEN usd ELSE 0]
               ELSE assets

Working == assets.pc \in {"assets", "depth"}
Mine == {c \in Calls : call[c].mine}

\* complete_json of some node, transcribe of a voice command
CallModel(c) ==
  /\ call[c].pc = "idle" /\ ~Working
  /\ \E k \in {"json", "stt"} : call' = [call EXCEPT ![c] = [NoCall EXCEPT !.pc = "ask", !.kind = k]]
  /\ UNCHANGED <<recent, assets>>

\* The provider's client raises what is transient for the language models (a timeout,
\* a lost connection, 408, 429, 5xx), or anything else: _with_retry, or the fallback
\* of synthesize and transcribe when one is set, or the error goes up.
Retried(c) ==
  /\ call[c].kind \in {"json", "stt"} /\ ~call[c].fallen /\ call[c].tries < MaxTries
  /\ call' = [call EXCEPT ![c].tries = @ + 1]
FallsBack(c) ==
  /\ call[c].kind \in {"tts", "stt"} /\ ~call[c].fallen
  /\ call' = [call EXCEPT ![c].fallen = TRUE, ![c].tries = 1]
RaisesPaid(c) == call' = [call EXCEPT ![c].pc = "raised", ![c].booked = @ + 1]   \* (mutant)

Raises(c) == call' = [call EXCEPT ![c].pc = "raised"]

AskProvider(c) ==
  /\ call[c].pc = "ask"
  /\ \/ call' = [call EXCEPT ![c].got = @ + 1,
                             ![c].pc = IF call[c].kind \in {"image", "depth"} THEN "fetch" ELSE "book"]
     \/ Retried(c) \/ FallsBack(c) \/ Raises(c)
  /\ UNCHANGED <<recent, assets>>

\* download_to_storage of generate_image and depth_map, before their price is booked
Fetch(c) ==
  /\ call[c].pc = "fetch"
  /\ call' = [call EXCEPT ![c].pc = "book"] \/ Raises(c)
  /\ UNCHANGED <<recent, assets>>

\* complete, synthesize, transcribe, generate_image, depth_map book one entry.  An
\* answer without usage has no price: GeminiSTT then leaves it to transcribe to book an
\* estimate.  complete_json asks once more for an answer it cannot parse.
Booked(c) ==
  LET new == [call[c] EXCEPT !.booked = @ + 1]
  IN /\ call[c].pc = "book"
     /\ \/ Book(TRUE, 1) /\ call' = [call EXCEPT ![c] = [new EXCEPT !.pc = "back"]]
        \/ /\ call[c].kind = "stt" /\ ~call[c].fallen /\ ~call[c].again
           /\ Book(TRUE, 0) /\ call' = [call EXCEPT ![c].again = TRUE]
        \/ /\ call[c].kind = "json"
           /\ Book(TRUE, 1)
           /\ call' = [call EXCEPT ![c] = IF call[c].again THEN [new EXCEPT !.pc = "raised"]
                                          ELSE [new EXCEPT !.pc = "ask", !.again = TRUE, !.tries = 1]]

Return(c) ==
  /\ call[c].pc \in {"back", "raised"} /\ ~call[c].mine
  /\ call' = [call EXCEPT ![c] = NoCall]
  /\ UNCHANGED <<recent, assets>>

\* Another job of the process books something, for this workspace or another one.
OtherJob == (\E ws \in BOOLEAN : Book(ws, 1)) /\ UNCHANGED call

\* asset_gen: the voice and the images at once
StartAssets ==
  /\ ~Working
  /\ \E t, i \in Calls :
       /\ t # i /\ call[t].pc = "idle" /\ call[i].pc = "idle"
       /\ call' = [call EXCEPT ![t] = [NoCall EXCEPT !.pc = "ask", !.kind = "tts", !.mine = TRUE],
                               ![i] = [NoCall EXCEPT !.pc = "ask", !.kind = "image", !.mine = TRUE]]
  /\ recent' = [k \in DOMAIN recent |-> [recent[k] EXCEPT !.since = FALSE]]
  /\ assets' = [NoRun EXCEPT !.pc = "assets"]

\* gather raises with the first error; the calls that are left go on without the node.
AssetsFail ==
  /\ assets.pc = "assets" /\ \E c \in Mine : call[c].pc = "raised"
  /\ assets' = [assets EXCEPT !.pc = "failed"]
  /\ call' = [c \in Calls |-> [call[c] EXCEPT !.mine = FALSE]]
  /\ UNCHANGED recent

\* (mutant) the prices of all workspaces
RunCostOfAll == Cardinality({k \in DOMAIN recent : recent[k].since /\ recent[k].usd = 1})

\* run_cost: the prices in RECENT of this workspace since started_at
RunCost == Cardinality({k \in DOMAIN recent : recent[k].ws /\ recent[k].since /\ recent[k].usd = 1})

Finish ==
  /\ assets' = [assets EXCEPT !.pc = "done", !.cost = RunCost]
  /\ call' = [c \in Calls |-> IF call[c].mine THEN NoCall ELSE call[c]]

\* Depth maps follow when parallax is asked for; those that fail are left out.
AssetsGathered ==
  /\ assets.pc = "assets" /\ \A c \in Mine : call[c].pc = "back"
  /\ \/ Finish
     \/ /\ assets' = [assets EXCEPT !.pc = "depth"]
        /\ call' = [c \in Calls |->
             IF ~call[c].mine THEN call[c]
             ELSE IF call[c].kind = "image" THEN [NoCall EXCEPT !.pc = "ask", !.kind = "depth", !.mine = TRUE]
             ELSE NoCall]
  /\ UNCHANGED recent

DepthGathered ==
  /\ assets.pc = "depth" /\ \A c \in Mine : call[c].pc \in {"back", "raised"}
  /\ Finish
  /\ UNCHANGED recent

\* The process ends, and RECENT with it.
Stop == call' = [c \in Calls |-> NoCall] /\ recent' = <<>> /\ assets' = NoRun

CostsNext ==
  \/ OtherJob \/ StartAssets \/ AssetsFail \/ AssetsGathered \/ DepthGathered \/ Stop
  \/ \E c \in Calls : CallModel(c) \/ AskProvider(c) \/ Fetch(c) \/ Booked(c) \/ Return(c)
CostsSpec == CostsInit /\ [][CostsNext]_costVars

----------------------------------------------------------------------------

\* cost_tracker.py:1: every call is booked.  However it is retried, re-asked or handed
\* to a fallback, a call never books an answer twice, one that returns has booked each
\* answer it got, and one that raises has, too, unless a picture could not be fetched.
BookedOncePerAnswer ==
  \A c \in Calls :
    /\ call[c].booked <= call[c].got
    /\ call[c].pc = "back" => call[c].booked = call[c].got
    /\ call[c].pc = "raised" /\ call[c].booked # call[c].got => call[c].kind \in {"image", "depth"}

\* cost_usd of a run is what its workspace has spent since it began, calls that an
\* earlier, failed run left behind included, as long as RECENT has not overflowed
\* with the entries of all workspaces meanwhile; then it is less, never more.
CostOfRun ==
  assets.pc = "done" =>
    /\ assets.cost <= assets.spent
    /\ assets.total <= MaxRecent => assets.cost = assets.spent

=============================================================================
