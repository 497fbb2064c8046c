---------------------------- MODULE SpokenDeadlines ----------------------------
(***************************************************************************)
(* The deadlines the owner speaks (jarvis/intents.py, jarvis/voice.py): the*)
(* words of a command are read for a day and for a clock time, in the time *)
(* zone of the workspace, and give the moment a task is due.  Time is      *)
(* counted in half hours from the midnight that began a Monday; the zone of*)
(* the workspaces has no summer time.                                      *)
(***************************************************************************)
EXTENDS Integers, FiniteSetsExt

CONSTANTS
  Moments,    \* when the owner speaks
  Hours       \* bound: the hours that are named, some of them above 23

ASSUME DeadlineAssumption == Moments \subseteq Nat /\ Moments # {} /\ Hours \subseteq Nat

VARIABLES
  said,       \* what the owner said, and when
  due         \* the due_at of the task, NoTime before it is given

deadlineVars == <<said, due>>

NoTime == -1
Day == 48
DateOf(t) == t \div Day
Weekday(t) == DateOf(t) % 7
ClockOf(t) == t % Day

\* DEFAULT_DEADLINE_HOUR, and the SLA of a lead whose temperature is not known
EndOfDay == 36
Sla == 48

\* What a command can hold: "3 soatdan keyin" (in half hours); a day: "2 kundan keyin",
\* "yarim haftadan keyin" (in halves of the unit), bugun, ertaga, indinga, a day of
\* the week, or none; and a time: "15:30", "soat 3 yarimda" with ertalab or kechqurun,
\* "tushgacha", "kechgacha", or none.  An hour above 23 is no time.
Days == {[of |-> "none", n |-> 0]}
          \cup [of: {"days", "weeks"}, n: 1..3]
          \cup [of: {"word"}, n: 0..2] \cup [of: {"weekday"}, n: 0..6]
Times == {[of |-> k, hour |-> 0, half |-> 0, morning |-> FALSE, evening |-> FALSE] :
            k \in {"none", "noon", "end"}}
           \cup [of: {"hhmm"}, hour: Hours, half: 0..1, morning: {FALSE}, evening: {FALSE}]
           \cup [of: {"said"}, hour: Hours, half: 0..1, morning: BOOLEAN, evening: BOOLEAN]
Command == [now: Moments, ahead: 0..3, day: Days, time: Times]

DeadlinesTypeOK ==
  /\ said.now \in Moments /\ said.day \in Days /\ said.time \in Times
  /\ due \in Nat \cup {NoTime}

\* round of Python: a half goes to the even number.
RoundHalves(n) == IF n % 4 = 1 THEN n \div 2 ELSE (n + 1) \div 2

\* (mutant) today's day of the week is today
DayOffsetToday(c) ==
  CASE c.day.of = "weekday" -> (c.day.n - Weekday(c.now)) % 7
    [] c.day.of = "word" -> c.day.n
    [] OTHER -> NoTime

\* parse_uz_datetime: the days from today, NoTime when no day is named
DayOffset(c) ==
  CASE c.day.of = "days" -> RoundHalves(c.day.n)
    [] c.day.of = "weeks" -> RoundHalves(7 * c.day.n)
    [] c.day.of = "word" -> c.day.n
    [] c.day.of = "weekday" ->
         LET ahead == (c.day.n - Weekday(c.now)) % 7 IN IF ahead = 0 THEN 7 ELSE ahead
    [] OTHER -> NoTime

\* _parse_clock: business hours, so that 1 to 7 are after noon unless it is the morning.
Clock(t) ==
  LET evening == t.evening /\ t.hour < 12
      afternoon == t.hour \in 1..7 /\ ~t.morning
  IN CASE t.of = "noon" -> 24
       [] t.of = "end" -> EndOfDay
       [] t.of = "hhmm" /\ t.hour <= 23 -> 2 * t.hour + t.half
       [] t.of = "said" /\ t.hour <= 23 ->
            2 * t.hour + t.half + IF evening \/ afternoon THEN 24 ELSE 0
       [] OTHER -> NoTime

ParseUzDatetime(c) ==
  LET at == (DateOf(c.now) + IF DayOffset(c) = NoTime THEN 0 ELSE DayOffset(c)) * Day
              + IF Clock(c.time) = NoTime THEN EndOfDay ELSE Clock(c.time)
  IN IF c.ahead > 0 THEN c.now + c.ahead
     ELSE IF DayOffset(c) = NoTime /\ Clock(c.time) = NoTime THEN NoTime
     ELSE IF DayOffset(c) = NoTime /\ at <= c.now THEN at + Day
     ELSE at

\* _route_assign_task: without words of time the task has the SLA.
DueOf(c) == IF ParseUzDatetime(c) = NoTime THEN c.now + Sla ELSE ParseUzDatetime(c)

Silence == [now |-> CHOOSE m \in Moments : TRUE, ahead |-> 0, day |-> [of |-> "none", n |-> 0],
            time |-> [of |-> "none", hour |-> 0, half |-> 0, morning |-> FALSE, evening |-> FALSE]]
DeadlinesInit == said = Silence /\ due = NoTime

AssignWithDeadline ==
  /\ due = NoTime
  /\ \E c \in Command :
       /\ c.ahead > 0 => c.day.of = "none" /\ c.time.of = "none"   \* they are not looked at then
       /\ said' = c /\ due' = DueOf(c)

NextCommand == due # NoTime /\ said' = Silence /\ due' = NoTime

DeadlinesNext == AssignWithDeadline \/ NextCommand
DeadlinesSpec == DeadlinesInit /\ [][DeadlinesNext]_deadlineVars

----------------------------------------------------------------------------

\* What the words mean: the moments that they fit.  An hour of the clock face is the
\* first of its two in the part of the day that is named, or in the working day from 8;
\* a day without a time ends at 18:00.
NamesTime(t) == t.of \in {"noon", "end"} \/ (t.of \in {"hhmm", "said"} /\ t.hour <= 23)
FitsTime(t, x) ==
  LET face == {t.hour, t.hour + 12}
      first(S) == IF S = {} THEN t.hour ELSE Min(S)
      hour == CASE t.of = "hhmm" -> t.hour
                [] t.evening -> first(face \cap 12..23)
                [] t.morning \/ t.hour = 0 -> t.hour
                [] OTHER -> first(face \cap 8..23)
  IN ClockOf(x) = CASE ~NamesTime(t) \/ t.of = "end" -> EndOfDay
                    [] t.of = "noon" -> 24
                    [] OTHER -> 2 * hour + t.half
FitsDay(c, x) ==
  CASE c.day.of = "none" -> TRUE
    [] c.day.of = "weekday" -> Weekday(x) = c.day.n /\ DateOf(x) > DateOf(c.now)
    [] c.day.of = "word" -> DateOf(x) = DateOf(c.now) + c.day.n
    [] c.day.of = "days" -> 2 * (DateOf(x) - DateOf(c.now)) \in c.day.n - 1..c.day.n + 1
    [] OTHER -> 2 * (DateOf(x) - DateOf(c.now)) \in 7 * c.day.n - 1..7 * c.day.n + 1

\* A task is due at the next moment that fits what the owner said, whatever the hour
\* and the day of the week it is said: no earlier moment to come fits, and it is past
\* when it is given only if the words put it on that very day, as "bugun" does.
DueIsTheNextSuch ==
  due # NoTime /\ said.ahead = 0 /\ (NamesTime(said.time) \/ said.day.of # "none") =>
    LET fits(x) == FitsDay(said, x) /\ FitsTime(said.time, x)
    IN /\ fits(due)
       /\ due <= said.now => said.day.of \in {"word", "days"} /\ DateOf(due) = DateOf(said.now)
       /\ said.day.of \in {"none", "word", "weekday"} => \A x \in (said.now + 1)..(due - 1) : ~fits(x)

=============================================================================
