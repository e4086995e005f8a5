------------------------------- MODULE Schedule -------------------------------
(***************************************************************************)
(* The times that --schedule, --schedule-in and later remind --in accept   *)
(* (schedule_time.go).  A moment is a number of minutes since midnight of  *)
(* some Sunday, in the local zone, whose days all have 24 hours here.  An  *)
(* argument is what the grammar reads of it: a moment (a unix or an ISO    *)
(* timestamp), an amount of a unit, or words; 0 also stands for "refused", *)
(* as in the code, and no argument tested here means moment 0.             *)
(***************************************************************************)
EXTENDS Integers

CONSTANTS MaxScheduleDays

MinutesPerDay == 1440
DayOf(t) == t \div MinutesPerDay
Weekday(t) == DayOf(t) % 7

Refused == 0

(* Arguments.  A day is a weekday's number, or one of these two; a clock's  *)
(* half is "am", "pm" or "24", and a named clock is the 24-hour one it means.*)
Today == 7
Tomorrow == 8
Absent == [form |-> "absent"]
Moment(t, written) == [form |-> "moment", at |-> t, written |-> written]
Duration(amount, unit) == [form |-> "duration", amount |-> amount, unit |-> unit]
Words(next, day, clock) == [form |-> "words", next |-> next, day |-> day, clock |-> clock]

Clock(hour, minute, half) == [hour |-> hour, minute |-> minute, half |-> half]
Noon == Clock(12, 0, "24")
Midnight == Clock(0, 0, "24")
DefaultClock == Clock(9, 0, "24")

(* relativeDurationRe and its switch, in minutes.                           *)
UnitMinutes == [m |-> 1, h |-> 60, d |-> MinutesPerDay]

(* parseTimeOfDay: the minute of the day, or -1.                            *)
ClockAccepted(c) ==
  /\ c.minute \in 0..59
  /\ IF c.half = "24" THEN c.hour <= 23 ELSE c.hour \in 1..12

Hour24(c) ==
  CASE c.half = "am" /\ c.hour = 12 -> 0
    [] c.half = "pm" /\ c.hour # 12 -> c.hour + 12
    [] OTHER -> c.hour

ParseTimeOfDay(c) == IF ClockAccepted(c) THEN 60 * Hour24(c) + c.minute ELSE -1

(* The days from now's that a weekday is away.                              *)
DaysUntil(target, now, next) ==
  LET days == target - Weekday(now)
  IN IF days < 0 \/ next THEN days + 7 ELSE days

(* at(daysFromNow) of parseNamedFutureTime.                                 *)
OnDay(now, days, minute) == (DayOf(now) + days) * MinutesPerDay + minute

(* Seeded fault: a weekday that is today's means today, even when it is past.*)
WeekdayTimeAsIs(w, now, minute) == OnDay(now, DaysUntil(w.day, now, w.next), minute)

WeekdayTime(w, now, minute) ==
  LET candidate == OnDay(now, DaysUntil(w.day, now, w.next), minute)
  IN IF candidate > now THEN candidate ELSE candidate + 7 * MinutesPerDay

(* parseNamedFutureTime.  Words without a clock have the default one.       *)
ParseNamedFutureTime(w, now) ==
  LET minute == ParseTimeOfDay(w.clock)
      today == OnDay(now, 0, minute)
  IN CASE minute = -1 -> Refused
       [] w.day = Today -> IF today > now THEN today ELSE Refused
       [] w.day = Tomorrow -> OnDay(now, 1, minute)
       [] OTHER -> WeekdayTime(w, now, minute)

(* A moment is written as a unix timestamp, or as an ISO one with or without*)
(* a zone.                                                                  *)
ParseAbsoluteSchedule(arg) ==
  IF arg.form = "moment" /\ arg.written \in {"unix", "zoned"} THEN arg.at ELSE Refused

ParseRelativeSchedule(arg, now) ==
  CASE arg.form = "moment" /\ arg.written = "unix" -> arg.at
    [] arg.form = "duration" -> now + arg.amount * UnitMinutes[arg.unit]
    [] arg.form = "words" -> ParseNamedFutureTime(arg, now)
    [] OTHER -> Refused

(* Both flags together are refused; neither schedules nothing.              *)
ResolveSchedulePostAt(at, within, now) ==
  LET postAt == IF at # Absent THEN ParseAbsoluteSchedule(at) ELSE ParseRelativeSchedule(within, now)
  IN IF (at # Absent) = (within # Absent) \/ postAt <= now
          \/ postAt > now + MaxScheduleDays * MinutesPerDay
     THEN Refused ELSE postAt

(* later remind --in: neither a past nor a far moment is refused.           *)
ParseReminderDuration(arg, now) == ParseRelativeSchedule(arg, now)

-----------------------------------------------------------------------------
(* What words mean: the minute of a clock on a dial, and the first moment   *)
(* after now with that weekday and minute, of the next week if so worded.   *)
DialMinute(c) ==
  IF c.half = "24" THEN 60 * c.hour + c.minute
  ELSE 60 * (c.hour % 12) + c.minute + (IF c.half = "pm" THEN 720 ELSE 0)

Means(w, now, t) ==
  /\ t % MinutesPerDay = DialMinute(w.clock)
  /\ CASE w.day = Today -> DayOf(t) = DayOf(now)
       [] w.day = Tomorrow -> DayOf(t) = DayOf(now) + 1
       [] OTHER -> Weekday(t) = w.day /\ (w.next => DayOf(t) \div 7 = DayOf(now) \div 7 + 1)

(* What words schedule is the first future moment they describe, and they   *)
(* are refused only when there is none or the clock does not exist          *)
(* (parseNamedFutureTime, ResolveSchedulePostAt).                           *)
WordsMeanTheNextMoment(w, now) ==
  LET got == ResolveSchedulePostAt(Absent, w, now)
      moments == {OnDay(now, n, DialMinute(w.clock)) : n \in 0..14}
      ahead == {t \in moments : t > now /\ Means(w, now, t)}
  IN ParseTimeOfDay(w.clock) # -1 =>
       IF ahead = {} THEN got = Refused
       ELSE got \in ahead /\ \A t \in ahead : got <= t

(* A time that send accepts, remind accepts as well and means the same.     *)
RemindersAgree(arg, now) ==
  LET got == ResolveSchedulePostAt(Absent, arg, now)
  IN got # Refused => ParseReminderDuration(arg, now) = got
=============================================================================
