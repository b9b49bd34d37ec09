-------------------------------- MODULE Cron --------------------------------
(***************************************************************************)
(* The schedule of a job (internal/manifest/cron.go): how the five fields  *)
(* of an expression are read, and the search for the first tick after a    *)
(* time, which jumps over the months, days and hours that cannot match.    *)
(*                                                                         *)
(* A time is a number of minutes; the calendar says in which minute, hour, *)
(* day, month and weekday it falls, and when the next of each begins.      *)
(***************************************************************************)
EXTENDS Integers

CONSTANTS MinuteOf(_), HourOf(_), DayOf(_), MonthOf(_), WeekdayOf(_),
          NextHour(_), NextDay(_), NextMonth(_),  \* the first minute of the next one
          LimitOf(_),    \* where a search that began at a time gives up
          Horizon,       \* bound: the last time of the calendar
          Bounds,        \* the least and the greatest value of each field
          Expressions    \* the expressions that are written: a set of entries for each field


ASSUME CalendarAssumption ==
    /\ Horizon \in Nat
    /\ \A t \in 0..Horizon :
         /\ LimitOf(t) \in t..Horizon
         /\ NextHour(t) \in Nat /\ NextDay(t) \in Nat /\ NextMonth(t) \in Nat
         /\ NextHour(t) > t /\ NextDay(t) > t /\ NextMonth(t) > t
         /\ \A u \in t..(NextHour(t) - 1)  : HourOf(u) = HourOf(t)
         /\ \A u \in t..(NextDay(t) - 1)   : DayOf(u) = DayOf(t) /\ WeekdayOf(u) = WeekdayOf(t)
                                             /\ MonthOf(u) = MonthOf(t)
         /\ \A u \in t..(NextMonth(t) - 1) : MonthOf(u) = MonthOf(t)

VARIABLES cron,   \* the parsed expression
          after,  \* the time the search is after
          t,      \* where it is
          out     \* "searching", "found" or "none"

vars == <<cron, after, t, out>>
------------------------------------------------------------------------------
\* parseCronField.  An entry is *, a number, or a range, with a step or not; a step on a number is the
\* range from it to the end of the field.
Low(e, f)  == IF e.star THEN Bounds[f].min ELSE e.from
High(e, f) == IF e.star \/ (e.to < e.from /\ e.step > 1) THEN Bounds[f].max
              ELSE IF e.to < e.from THEN e.from ELSE e.to
Values(e, f) == {v \in Low(e, f)..High(e, f) : (v - Low(e, f)) % e.step = 0}
FieldSet(es, f) == UNION {Values(e, f) : e \in es}
Any(es) == \E e \in es : e.star

\* ParseCron: a bitmap for each field, Sunday under both its numbers, and which day fields carry a *.
Sunday == Bounds["dow"].max
Parse(x) ==
    [minute |-> FieldSet(x.minute, "minute"), hour |-> FieldSet(x.hour, "hour"),
     dom |-> FieldSet(x.dom, "dom"), month |-> FieldSet(x.month, "month"),
     dow |-> {IF v = Sunday THEN 0 ELSE v : v \in FieldSet(x.dow, "dow")},
     domAny |-> Any(x.dom), dowAny |-> Any(x.dow)]

\* The two day fields taken together, whether they are restricted or not.
BothDays(c, u) == DayOf(u) \in c.dom /\ WeekdayOf(u) \in c.dow

\* matchesDay: restricted both, either is enough.
MatchesDay(c, u) ==
    CASE c.domAny /\ c.dowAny   -> TRUE
      [] c.domAny /\ ~c.dowAny  -> WeekdayOf(u) \in c.dow
      [] ~c.domAny /\ c.dowAny  -> DayOf(u) \in c.dom
      [] ~c.domAny /\ ~c.dowAny -> DayOf(u) \in c.dom \/ WeekdayOf(u) \in c.dow
------------------------------------------------------------------------------
Init ==
    /\ cron \in {Parse(x) : x \in Expressions}
    /\ after \in {s \in 0..Horizon : s + 1 <= Horizon}
    /\ t = after + 1
    /\ out = "searching"

Limit == LimitOf(after + 1)
Searches == out = "searching" /\ t < Limit
To(u) == t' = u /\ UNCHANGED <<cron, after, out>>

SkipMonth  == Searches /\ MonthOf(t) \notin cron.month /\ To(NextMonth(t))

SkipDay ==
    /\ Searches /\ MonthOf(t) \in cron.month
    /\ ~MatchesDay(cron, t) /\ To(NextDay(t))

SkipHour ==
    /\ Searches /\ MonthOf(t) \in cron.month /\ MatchesDay(cron, t)
    /\ HourOf(t) \notin cron.hour /\ To(NextHour(t))

SkipMinute ==
    /\ Searches /\ MonthOf(t) \in cron.month /\ MatchesDay(cron, t) /\ HourOf(t) \in cron.hour
    /\ MinuteOf(t) \notin cron.minute /\ To(t + 1)

Found ==
    /\ Searches /\ MonthOf(t) \in cron.month /\ MatchesDay(cron, t)
    /\ HourOf(t) \in cron.hour /\ MinuteOf(t) \in cron.minute
    /\ out' = "found" /\ UNCHANGED <<cron, after, t>>

GiveUp ==
    /\ out = "searching" /\ t >= Limit
    /\ out' = "none" /\ UNCHANGED <<cron, after, t>>

Next == SkipMonth \/ SkipDay \/ SkipHour \/ SkipMinute \/ Found \/ GiveUp

Spec == Init /\ [][Next]_vars
------------------------------------------------------------------------------
\* What an expression means, without the search: a minute that all five fields take, a day that both
\* restricted day fields may take in either way (the docs of Cron, cron.go).
Ticks(c, u) ==
    /\ MinuteOf(u) \in c.minute /\ HourOf(u) \in c.hour /\ MonthOf(u) \in c.month
    /\ \/ DayOf(u) \in c.dom /\ (~c.domAny \/ c.dowAny)
       \/ WeekdayOf(u) \in c.dow /\ (~c.dowAny \/ c.domAny)
       \/ c.domAny /\ c.dowAny

\* Next answers the first tick strictly after the time given, and answers none only when there is
\* none before the limit: no jump over a month, a day or an hour passes a tick by (cron.go Next).
FirstTick ==
    /\ \A u \in (after + 1)..(t - 1) : u < Limit => ~Ticks(cron, u)
    /\ out = "found" => t > after /\ Ticks(cron, t)
    /\ out = "none" => \A u \in (after + 1)..(Limit - 1) : ~Ticks(cron, u)
==============================================================================
