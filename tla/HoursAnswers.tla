---------------------------- MODULE HoursAnswers ----------------------------
(***************************************************************************)
(* What callers are told of the opening hours: conversation/hours_answer.py *)
(* as operators on a week, which gives each day its entry or none, and on  *)
(* the day and the minute it is.  A sentence is known by its kind and by   *)
(* the days and times it names.  Then what a week means, minute by minute, *)
(* without regard to how the answers are found.                            *)
(***************************************************************************)
EXTENDS Integers, Sequences

CONSTANTS
  WeekLen, \* days of a week
  Minutes  \* minutes of a day

ASSUME HoursAssumption == {WeekLen, Minutes} \subseteq Nat \ {0}

Day == 0 .. WeekLen - 1
Minute == 0 .. Minutes - 1

Missing == [is_closed |-> TRUE, opening |-> 0, closing |-> 0, row |-> FALSE]
Closed == [is_closed |-> TRUE, opening |-> 0, closing |-> 0, row |-> TRUE]
Hours(opening, closing) ==
  [is_closed |-> FALSE, opening |-> opening, closing |-> closing, row |-> TRUE]

NothingOnFile(week) == \A d \in Day : ~week[d].row
IsOpenOn(entry) == entry.row /\ ~entry.is_closed

-----------------------------------------------------------------------------
(* The answers.                                                             *)

Unknown == [kind |-> "unknown"]

\* _next_open_day, as the number of days from today; 0 if there is none.  Today itself
\* is the last to be tried.
NextOpenDay(week, day) ==
  LET offsets == {k \in 1 .. WeekLen : IsOpenOn(week[(day + k) % WeekLen])}
  IN IF offsets = {} THEN 0 ELSE CHOOSE k \in offsets : \A j \in offsets : k <= j

OpensAgain(kind, week, day) ==
  LET offset == NextOpenDay(week, day)
  IN [kind |-> kind, offset |-> offset,
      opening |-> week[(day + offset) % WeekLen].opening]

\* (mutant: open for one minute after closing)
AnswerOpenNow_Late(week, day, minute) ==
  LET entry == week[day] IN
    CASE NothingOnFile(week) \/ (~IsOpenOn(entry) /\ NextOpenDay(week, day) = 0) -> Unknown
      [] ~IsOpenOn(entry) /\ NextOpenDay(week, day) # 0 -> OpensAgain("closed_today", week, day)
      [] IsOpenOn(entry) /\ minute < entry.opening ->
           [kind |-> "open_later", opening |-> entry.opening, closing |-> entry.closing]
      [] IsOpenOn(entry) /\ entry.opening <= minute /\ minute <= entry.closing ->
           [kind |-> "open_now", closing |-> entry.closing]
      [] OTHER -> OpensAgain("closed_tonight", week, day)

\* answer_open_now
AnswerOpenNow(week, day, minute) ==
  LET entry == week[day] IN
    CASE NothingOnFile(week) \/ (~IsOpenOn(entry) /\ NextOpenDay(week, day) = 0) -> Unknown
      [] ~IsOpenOn(entry) /\ NextOpenDay(week, day) # 0 -> OpensAgain("closed_today", week, day)
      [] IsOpenOn(entry) /\ minute < entry.opening ->
           [kind |-> "open_later", opening |-> entry.opening, closing |-> entry.closing]
      [] IsOpenOn(entry) /\ entry.opening <= minute /\ minute < entry.closing ->
           [kind |-> "open_now", closing |-> entry.closing]
      [] OTHER -> OpensAgain("closed_tonight", week, day)

\* answer_hours_tomorrow
AnswerHoursTomorrow(week, day) ==
  LET entry == week[(day + 1) % WeekLen] IN
    CASE NothingOnFile(week) -> Unknown
      [] ~NothingOnFile(week) /\ ~IsOpenOn(entry) -> [kind |-> "closed"]
      [] OTHER -> [kind |-> "open", opening |-> entry.opening, closing |-> entry.closing]

\* answer_closing_time_tonight
AnswerClosingTimeTonight(week, day) ==
  IF IsOpenOn(week[day]) THEN [kind |-> "closes", closing |-> week[day].closing]
  ELSE [kind |-> "closed"]

\* How format_hours_summary tells days apart: no row and closed are the same to it, and
\* are nothing like any pair of times.
Key(entry) ==
  IF IsOpenOn(entry) THEN [open |-> TRUE, opening |-> entry.opening, closing |-> entry.closing]
  ELSE [open |-> FALSE, opening |-> 0, closing |-> 0]

\* format_hours_summary: runs of days that share their hours.
Groups(week) ==
  LET upto[d \in Day] ==
        LET key == Key(week[d])
            before == IF d = 0 THEN <<>> ELSE upto[d - 1]
        IN IF before # <<>> /\ before[Len(before)].key = key
           THEN [before EXCEPT ![Len(before)].last = d]
           ELSE Append(before, [first |-> d, last |-> d, key |-> key])
  IN upto[WeekLen - 1]

-----------------------------------------------------------------------------
(* What a week means.                                                       *)

\* An entry whose closing time is not after its opening time runs into the next day: until
\* midnight if it closes at the first minute, around the clock if it opens then too.
RunsPastMidnight(entry) == IsOpenOn(entry) /\ entry.closing <= entry.opening

\* The door is open by an entry in a minute of its own day, and in one of the next.
Opened(entry, minute) ==
  /\ IsOpenOn(entry)
  /\ entry.opening <= minute
  /\ minute < entry.closing \/ RunsPastMidnight(entry)
StillOpen(entry, minute) == RunsPastMidnight(entry) /\ minute < entry.closing

\* The entries of the day, and of the day before, `time` minutes into the week.
Today(week, time) == week[(time \div Minutes) % WeekLen]
Yesterday(week, time) == week[((time \div Minutes) + WeekLen - 1) % WeekLen]

\* Whether the door is open, `time` minutes after the beginning of the week.
OpenAt(week, time) ==
  \/ Opened(Today(week, time), time % Minutes)
  \/ StillOpen(Yesterday(week, time), time % Minutes)

\* It is open by an entry that runs past midnight, on either side of midnight.
OpenPastMidnight(week, time) ==
  \/ /\ RunsPastMidnight(Today(week, time))
     /\ Opened(Today(week, time), time % Minutes)
  \/ StillOpen(Yesterday(week, time), time % Minutes)

NeverOpen(week) == \A time \in 0 .. WeekLen * Minutes - 1 : ~OpenAt(week, time)

\* How long from `time` until the door is next open, if it ever is.
WaitFrom(week, time) ==
  LET waits == {k \in 0 .. WeekLen * Minutes : OpenAt(week, time + k)}
  IN CHOOSE k \in waits : \A j \in waits : k <= j

\* There is nothing to tell two days apart by: both shut, or both open at the same times.
SameHours(entry, other) ==
  /\ IsOpenOn(entry) <=> IsOpenOn(other)
  /\ IsOpenOn(entry) => entry.opening = other.opening /\ entry.closing = other.closing
=============================================================================
