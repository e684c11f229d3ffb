---------------------------- MODULE CronSchedule ----------------------------
(***************************************************************************)
(* Cron expressions of automations                                          *)
(* (crates/renoa-local/src/host/automations/cron.rs) on a small calendar:   *)
(* days of Hours hours of Minutes minutes, a month of MonthDays days and a  *)
(* week of WeekDays days.  The zone's clock is moved once, within a day.   *)
(* The schedule is walked from one occurrence to the next.   *)
(***************************************************************************)
EXTENDS Integers, FiniteSets, FiniteSetsExt

CONSTANTS
    Hours, Minutes, MonthDays, WeekDays,
    MinGap,      \* MIN_GAP_MINUTES
    SearchDays,  \* SEARCH_DAYS
    Horizon,     \* bound: days walked
    Shifts,      \* by how many minutes the clock may move
    MinuteItems, HourItems, DayItems, WeekdayItems  \* the items (low, high, step) fields are made of

CronAssumption ==
    /\ {Hours, Minutes, MonthDays, WeekDays, MinGap, SearchDays, Horizon} \subseteq Nat \ {0}
    /\ Shifts \subseteq (-Minutes)..Minutes /\ MonthDays <= SearchDays /\ WeekDays <= SearchDays

VARIABLES
    cron,   \* the parsed expression
    zone,   \* the local minute at which the clock moves, and by how much
    now,    \* the time the next occurrence is looked for from
    walked  \* now is an occurrence

vars == <<cron, zone, now, walked>>
DayLen == Hours * Minutes

(* parse_field: the union of its items; an item without step has step 1.     *)
ParseField(items) == UNION {{v \in i[1]..i[2] : (v - i[1]) % i[3] = 0} : i \in items}
Star(max) == <<0, max, 1>>
(* Weekday 7 is Sunday too.                                                  *)
FoldWeekdays(set) == {w % WeekDays : w \in set}
(* Neighbouring minutes, the last and the next hour's first included, are    *)
(* MinGap apart.                                                             *)
Gaps(ms) == \A m, n \in ms : /\ m < n => n - m >= MinGap
                            /\ n + Minutes - m >= MinGap
Crons == {[minutes |-> ParseField({m}), hours |-> ParseField({h}),
           days |-> {k + 1 : k \in ParseField({d})}, weekdays |-> FoldWeekdays(ParseField({w})),
           daysRestricted |-> d # Star(MonthDays - 1), weekdaysRestricted |-> w # Star(WeekDays)] :
              m \in MinuteItems, h \in HourItems, d \in DayItems, w \in WeekdayItems}
Parse == {c \in Crons : Gaps(c.minutes)}

(* The clock of the zone: local minutes of a time, and the time of a local   *)
(* minute: the earlier of two, and past the gap by its length for none.      *)
MovedAt == zone.at
LocalOf(t) == IF t < MovedAt THEN t ELSE t + zone.by
TimeOf(l) ==
    CASE l < MovedAt -> l
      [] l >= MovedAt /\ l < MovedAt + zone.by -> l
      [] OTHER -> l - zone.by

RunsOn(date) ==
    LET day == (date % MonthDays) + 1 \in cron.days  weekday == date % WeekDays \in cron.weekdays
    IN  IF cron.daysRestricted /\ cron.weekdaysRestricted THEN day \/ weekday ELSE day /\ weekday

(* next_after: the first date, from today's, with an occurrence after now.   *)
TimesOn(date) == {TimeOf(date * DayLen + h * Minutes + m) : h \in cron.hours, m \in cron.minutes}
LaterOn(date) == IF RunsOn(date) THEN {t \in TimesOn(date) : t > now} ELSE {}
Dates == {d \in 0..(SearchDays - 1) : LaterOn(LocalOf(now) \div DayLen + d) # {}}
NextAfter == Min(LaterOn(LocalOf(now) \div DayLen + Min(Dates)))

Init ==
    /\ cron \in Parse /\ now \in 0..(2 * DayLen) /\ walked = FALSE
    /\ zone \in [at : {DayLen + h * Minutes : h \in 1..(Hours - 2)}, by : Shifts]

Advance ==
    /\ LocalOf(now) < Horizon * DayLen /\ Dates # {} /\ now' = NextAfter /\ walked' = TRUE /\ UNCHANGED <<cron, zone>>
Next == Advance
Spec == Init /\ [][Next]_vars
-----------------------------------------------------------------------------
(* The occurrences: every local time of the expression, wherever its date.   *)
Occurrences == {TimeOf(l) : l \in {k \in 0..((Horizon + SearchDays) * DayLen) :
    RunsOn(k \div DayLen) /\ (k % DayLen) \div Minutes \in cron.hours /\ k % Minutes \in cron.minutes}}

(* The search by date finds the least occurrence after now, also on the day  *)
(* the clock moves and when a time of that day does not exist or exists      *)
(* twice: nothing is skipped and nothing runs twice.                         *)
NextIsLeast == LocalOf(now) < Horizon * DayLen /\ Dates # {} =>
    LET later == {t \in Occurrences : t > now} IN later # {} => NextAfter = Min(later)

(* An expression that was accepted runs at least MinGap apart.               *)
RunsApart ==
  walked => now' - now >= MinGap
==============================================================================
