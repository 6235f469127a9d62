-------------------------------- MODULE Night --------------------------------
(***************************************************************************)
(* When the kiosk rests: is_night() of install/kiosk_night.py, and of      *)
(* dashboard/night.py, which it mirrors.  A schedule has the switch, the   *)
(* times of the working days and the weekend's rule; a day has DAY         *)
(* minutes, Monday is 0.  What the nights are meant to be is InANight.     *)
(* The clock that counts the minutes is Clock's, the calendar may begin    *)
(* with any weekday.                                                       *)
(***************************************************************************)
EXTENDS Integers

CONSTANT DAY
ASSUME DayAssumption == DAY \in Nat \ {0}

VARIABLE wall   \* the device's clock

Weekdays  == 0..6
Times     == 0..(DAY - 1)
Schedules == [enabled : BOOLEAN, off : Times, on : Times,
              weekend : {"same", "times", "all_day"}, weekend_off : Times, weekend_on : Times]

\* The night that starts on this weekday.
Rule(schedule, weekday) ==
  IF weekday >= 5 /\ schedule.weekend = "all_day" THEN [all_day |-> TRUE, off |-> 0, on |-> 0]
  ELSE IF weekday >= 5 /\ schedule.weekend = "times"
       THEN [all_day |-> FALSE, off |-> schedule.weekend_off, on |-> schedule.weekend_on]
       ELSE [all_day |-> FALSE, off |-> schedule.off, on |-> schedule.on]

Yesterday(weekday) == (weekday + 6) % 7

\* Mutant: the day before does not count.
IsNightToday(schedule, weekday, t) ==
  LET today == Rule(schedule, weekday)
  IN /\ schedule.enabled
     /\ \/ today.all_day
        \/ today.off < today.on /\ today.off <= t /\ t < today.on
        \/ today.off > today.on /\ t >= today.off

IsNight(schedule, weekday, t) ==
  LET today     == Rule(schedule, weekday)
      yesterday == Rule(schedule, Yesterday(weekday))
  IN /\ schedule.enabled
     /\ \/ today.all_day
        \/ today.off < today.on /\ today.off <= t /\ t < today.on
        \/ today.off > today.on /\ t >= today.off
        \/ yesterday.all_day /\ today.off # today.on /\ t < today.on
        \/ ~yesterday.all_day /\ yesterday.off > yesterday.on /\ t < yesterday.on

\* The docstring's words.  A night belongs to the day it started on and lasts until the next `on`; a
\* day of rest lasts all day, and until the next day's own `on`; equal times are no night.
Lasts(rule, next, m) ==   \* m minutes after that day's midnight
  IF rule.all_day
  THEN m < DAY \/ (~next.all_day /\ next.off # next.on /\ m < DAY + next.on)
  ELSE /\ rule.off # rule.on /\ rule.off <= m
       /\ m < (IF rule.off < rule.on THEN rule.on ELSE DAY + rule.on)

InANight(schedule, weekday, t) ==
  LET today     == Rule(schedule, weekday)
      yesterday == Rule(schedule, Yesterday(weekday))
      tomorrow  == Rule(schedule, (weekday + 1) % 7)
  IN schedule.enabled /\ (Lasts(today, tomorrow, t) \/ Lasts(yesterday, today, DAY + t))

\* Every moment of the week, and whether is_night() is right about every schedule then.
Verdicts ==
  {<<weekday, t, \A schedule \in Schedules : IsNight(schedule, weekday, t) <=> InANight(schedule, weekday, t)>> :
     weekday \in Weekdays, t \in Times}

Weekday(first) == (first + wall \div DAY) % 7
Minute         == wall % DAY

\* Whatever the clock shows, the kiosk rests exactly in the nights its schedule means, whichever that
\* is, also across midnight and at the weekend's edges (dashboard/night.py, install/kiosk_night.py:
\* is_night()).
NightAsPlanned == \A first \in Weekdays : <<Weekday(first), Minute, TRUE>> \in Verdicts
=============================================================================
