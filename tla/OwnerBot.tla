------------------------------- MODULE OwnerBot -------------------------------
(***************************************************************************)
(* The owner's chat with the Telegram bot (apps/bot/bot): the screens the  *)
(* API pushes over tg:notify (notify.py), their buttons                    *)
(* (handlers/approval.py, keyboards.py), and the one answer the chat may   *)
(* be asked for at a time (states.py, kept in memory).  Updates are        *)
(* handled concurrently, each call of the API can fail, and the bot can    *)
(* stop.                                                                   *)
(***************************************************************************)
EXTENDS Integers, FiniteSets

CONSTANTS
  Scripts,    \* scripts with their videos
  Taps,       \* updates that are handled at a time
  NoScreen    \* a sentinel

VARIABLES
  up,         \* the bot runs
  screen,     \* what each screen shows, and the hook its keyboard has selected
  fsm,        \* the state of the chat and the screen it is about
  tap,        \* updates that call the API
  taken,      \* the decisions the API took on each screen
  dead        \* screens whose reason was lost (not in the code)

botVars == <<up, screen, fsm, tap, taken, dead>>

Screens == Scripts \X {"script", "video"}
ASSUME BotAssumption == NoScreen \notin Screens

Hooks == {"hook_0", "hook_1"}
Decisions == Hooks \cup {"retry", "publish", "schedule", "reject"}

NoChat == [state |-> "none", of |-> NoScreen]
NoTap == [pc |-> "idle", does |-> "reject", of |-> NoScreen]

BotTypeOK ==
  /\ up \in BOOLEAN
  /\ screen \in [Screens -> [shows: {"none", "missed", "buttons", "ask"} \cup Decisions, hook: Hooks]]
  /\ fsm \in [state: {"none", "brief", "reason", "correction"}, of: Screens \cup {NoScreen}]
  /\ tap \in [Taps -> [pc: {"idle", "call", "edit"}, does: Decisions, of: Screens \cup {NoScreen}]]
  /\ taken \in [Screens -> SUBSET Decisions] /\ dead \subseteq Screens

BotInit ==
  /\ up = TRUE /\ screen = [x \in Screens |-> [shows |-> "none", hook |-> "hook_0"]]
  /\ fsm = NoChat /\ tap = [t \in Taps |-> NoTap]
  /\ taken = [x \in Screens |-> {}] /\ dead = {}

\* The reason the chat waits for, lost when its state changes.
Forgotten == IF fsm.state = "reason" THEN {fsm.of} ELSE {}

\* run_notify_subscriber: pub/sub reaches the bot only while it listens.
Push(x) ==
  /\ screen[x].shows = "none"
  /\ screen' = [screen EXCEPT ![x].shows = IF up THEN "buttons" ELSE "missed"]
  /\ UNCHANGED <<up, fsm, tap, taken, dead>>

\* The radio of the hooks is redrawn, and its approve button with it.
SelectHook(x) ==
  /\ up /\ x[2] = "script" /\ screen[x].shows = "buttons"
  /\ \E h \in Hooks \ {screen[x].hook} : screen' = [screen EXCEPT ![x].hook = h]
  /\ UNCHANGED <<up, fsm, tap, taken, dead>>

\* The buttons that call the API at once
Direct(x) == IF x[2] = "script" THEN {screen[x].hook, "retry"} ELSE {"publish", "schedule"}

Press(t, x) ==
  /\ up /\ screen[x].shows = "buttons" /\ tap[t] = NoTap
  /\ \E d \in Direct(x) : tap' = [tap EXCEPT ![t] = [pc |-> "call", does |-> d, of |-> x]]
  /\ UNCHANGED <<up, screen, fsm, taken, dead>>

\* script_edit, script_no and video_no: a question takes the place of the buttons.
Ask(x) ==
  /\ up /\ screen[x].shows = "buttons"
  /\ fsm' = [state |-> "reason", of |-> x]
  /\ dead' = dead \cup Forgotten
  /\ screen' = [screen EXCEPT ![x].shows = "ask"]
  /\ UNCHANGED <<up, tap, taken>>

\* The state is cleared before the API is called.
Reason(t) ==
  /\ up /\ fsm.state = "reason" /\ tap[t] = NoTap
  /\ tap' = [tap EXCEPT ![t] = [pc |-> "call", does |-> "reject", of |-> fsm.of]]
  /\ fsm' = NoChat
  /\ UNCHANGED <<up, screen, taken, dead>>

\* The menu's brief, /brief without a text, and the button that corrects a transcript
Wait(state) ==
  /\ up /\ fsm.state # state
  /\ fsm' = [state |-> state, of |-> NoScreen]
  /\ dead' = dead \cup Forgotten
  /\ UNCHANGED <<up, screen, tap, taken>>

\* The brief's text or the corrected one
Said ==
  /\ up /\ fsm.state \in {"brief", "correction"}
  /\ fsm' = NoChat
  /\ UNCHANGED <<up, screen, tap, taken, dead>>

ApiTakes(t) ==
  /\ tap[t].pc = "call"
  /\ taken' = [taken EXCEPT ![tap[t].of] = @ \cup {tap[t].does}]
  /\ tap' = [tap EXCEPT ![t].pc = "edit"]
  /\ UNCHANGED <<up, screen, fsm, dead>>

\* (mutant) the screen is edited though the API refused
ApiFailsShown(t) ==
  /\ tap[t].pc = "call"
  /\ screen' = [screen EXCEPT ![tap[t].of].shows = tap[t].does]
  /\ tap' = [tap EXCEPT ![t] = NoTap]
  /\ UNCHANGED <<up, fsm, taken, dead>>

\* ApiError: refused, or never answered, whether or not the API had taken it.
ApiFails(t) ==
  /\ tap[t].pc \in {"call", "edit"}
  /\ tap' = [tap EXCEPT ![t] = NoTap]
  /\ dead' = IF tap[t].does = "reject" THEN dead \cup {tap[t].of} ELSE dead
  /\ UNCHANGED <<up, screen, fsm, taken>>

\* The decision takes the place of the buttons; a reject is a message of its own.
Edit(t) ==
  /\ tap[t].pc = "edit"
  /\ screen' = IF tap[t].does = "reject" THEN screen
               ELSE [screen EXCEPT ![tap[t].of].shows = tap[t].does]
  /\ tap' = [tap EXCEPT ![t] = NoTap]
  /\ UNCHANGED <<up, fsm, taken, dead>>

\* The state of the chat is in memory, and so are the updates under way.
StopBot ==
  /\ up
  /\ up' = FALSE /\ fsm' = NoChat
  /\ tap' = [t \in Taps |-> NoTap]
  /\ dead' = dead \cup Forgotten
                  \cup {tap[t].of : t \in {u \in Taps : tap[u] # NoTap /\ tap[u].does = "reject"}}
  /\ UNCHANGED <<screen, taken>>

StartBot == ~up /\ up' = TRUE /\ UNCHANGED <<screen, fsm, tap, taken, dead>>

BotNext ==
  \/ \E x \in Screens : Push(x) \/ SelectHook(x) \/ Ask(x) \/ \E t \in Taps : Press(t, x)
  \/ \E t \in Taps : Reason(t) \/ ApiTakes(t) \/ ApiFails(t) \/ Edit(t)
  \/ Wait("brief") \/ Wait("correction") \/ Said \/ StopBot \/ StartBot
BotSpec == BotInit /\ [][BotNext]_botVars

----------------------------------------------------------------------------

\* A screen says approved (with its hook), rewritten, published or scheduled only when
\* the API took that decision on it; and a screen that lost its buttons to a question is
\* decided, waits for the reason, has it on its way, or lost it to an error, another
\* question, the menu or a stop: no other order of updates leaves it without an answer.
OwnerNotMisled ==
  /\ \A x \in Screens : screen[x].shows \in Decisions => screen[x].shows \in taken[x]
  /\ \A x \in Screens : screen[x].shows = "ask" =>
       taken[x] # {} \/ fsm.of = x \/ x \in dead \/ \E t \in Taps : tap[t].of = x

=============================================================================
