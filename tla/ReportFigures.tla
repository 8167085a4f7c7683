----------------------------- MODULE ReportFigures -----------------------------
(***************************************************************************)
(* The figures of the dashboard and of the analytics page, as operators on *)
(* the tables they are read from (backend/src/shared/utils/date-range.ts,  *)
(* modules/analytics, modules/dashboard): ranges of local days, the        *)
(* aggregations, the series of days, and the ranking of contacts.          *)
(*                                                                         *)
(* Time is counted in hours, Day of them to a day, and a local day is a    *)
(* number; a zone is ahead of UTC by one offset before an instant and by   *)
(* another from then on.  Import batches are summed like calls and are     *)
(* left out, as are the rates derived from the counts.                     *)
(***************************************************************************)
EXTENDS Integers, Sequences, FiniteSets, FiniteSetsExt

CONSTANTS Day,          \* the hours of a day
          MonthOf,      \* the month a local day is in
          MaxRangeDays, \* MAX_CUSTOM_RANGE_DAYS
          WeekFrom,     \* more days than this are shown by week
          MonthFrom,    \* more days than this are shown by month
          Recent        \* how many records the dashboard lists

CallStatus == {"queued", "initiated", "ringing", "in_progress", "completed", "no_answer", "busy",
               "failed", "canceled"}
EmailStatus == {"draft", "queued", "sending", "sent", "failed"}

ASSUME FiguresAssumption ==
  Day \in Nat \ {0} /\ {MaxRangeDays, WeekFrom, MonthFrom, Recent} \subseteq Nat

-----------------------------------------------------------------------------
(***************************************************************************)
(* date-range.ts                                                           *)
(***************************************************************************)

\* offsetMinutes()
Offset(t, zone) == IF t < zone.at THEN zone.before ELSE zone.after

\* localParts(): a calendar day
LocalDay(t, zone) == (t + Offset(t, zone)) \div Day

\* startOfLocalDay(): the offset is resolved twice.
StartOfLocalDay(d, zone) ==
  LET guess == Day * d - Offset(Day * d, zone)
  IN  Day * d - Offset(guess, zone)

Days(preset, first, last, zone) ==
  [preset |-> preset, zone |-> zone,
   from |-> StartOfLocalDay(first, zone), to |-> StartOfLocalDay(last + 1, zone)]

\* resolveDateRange(); the presets end today.
ResolveDateRange(query, now) ==
  LET today == LocalDay(now, query.zone) IN
  CASE query.preset = "custom" -> Days("custom", query.from, query.to, query.zone)
    [] query.preset = "week"   -> Days("week", today - 6, today, query.zone)
    [] query.preset = "month"  -> Days("month", today - 29, today, query.zone)
    [] OTHER                   -> Days("today", today, today, query.zone)

\* rangeDayCount(), rounded
RangeDayCount(range) == (2 * (range.to - range.from) + Day) \div (2 * Day)

\* resolveRange(), and the validation of the dashboard's query
IsAccepted(query, now) ==
  /\ query.preset = "custom" => query.from <= query.to
  /\ RangeDayCount(ResolveDateRange(query, now)) <= MaxRangeDays

\* defaultGranularity(), unless the client chose one
Granularity(query, range) ==
  IF query.by # "any" THEN query.by
  ELSE IF RangeDayCount(range) > MonthFrom THEN "month"
  ELSE IF RangeDayCount(range) > WeekFrom THEN "week" ELSE "day"

\* bucketKey() and isoWeekKey(), and the same in the database
Key(day, by) ==
  CASE by = "day" -> <<"day", day>> [] by = "week" -> <<"week", day \div 7>> [] OTHER -> <<"month", MonthOf[day]>>

-----------------------------------------------------------------------------
(***************************************************************************)
(* The repositories: a record is a call or an e-mail of a workspace, with  *)
(* its contact, its status and the time it began.                          *)
(***************************************************************************)

Within(records, range) == {e \in records : range.from <= e.at /\ e.at < range.to}
Having(records, statuses) == {e \in records : e.status \in statuses}

\* callAnalytics(), emailAnalytics(), callStats(), emailStats()
Totals(records) ==
  [total     |-> Cardinality(records),
   succeeded |-> Cardinality(Having(records, {"completed", "sent"})),
   missed    |-> Cardinality(Having(records, {"no_answer", "busy"})),
   failed    |-> Cardinality(Having(records, {"failed", "canceled"}))]

\* callStatusBreakdown(), emailStatusBreakdown()
Breakdown(records) ==
  [s \in {e.status : e \in records} |-> Cardinality(Having(records, {s}))]

\* callBuckets(), emailBuckets(), activitySeries(): grouped by the local time of each
Buckets(records, range, by) ==
  LET KeyOf(e) == Key(LocalDay(e.at, range.zone), by)
  IN  [k \in {KeyOf(e) : e \in Within(records, range)} |->
         Totals({e \in Within(records, range) : KeyOf(e) = k})]

\* mostContacted(): one of the rankings cut to the limit
Interactions(calls, emails, range, c) == Within({e \in calls \cup emails : e.contact = c}, range)

MostContacted(calls, emails, range, contacts, limit) ==
  LET met == {c \in contacts : Interactions(calls, emails, range, c) # {}}
      times(c) == Cardinality(Interactions(calls, emails, range, c))
      last(c) == Max({e.at : e \in Interactions(calls, emails, range, c)})
      Ahead(c, d) == times(c) > times(d) \/ (times(c) = times(d) /\ last(c) > last(d))
  IN  {top \in SUBSET met : /\ Cardinality(top) = Min({limit, Cardinality(met)})
                            /\ \A c \in top, d \in met \ top : ~Ahead(d, c)}

\* recentCalls(), recentEmails()
RecentOf(records) == {e \in records : Cardinality({f \in records : f.at > e.at}) < Recent}

-----------------------------------------------------------------------------
(***************************************************************************)
(* The services: series without gaps                                       *)
(***************************************************************************)

\* Mutant of NextDay: a day is Day hours long.
NextDayExactly(cursor, zone) == StartOfLocalDay(LocalDay(cursor + Day, zone), zone)

\* From one local midnight to the next, by way of the middle of the next day.
NextDay(cursor, zone) == StartOfLocalDay(LocalDay(cursor + Day + Day \div 2, zone), zone)

\* eachLocalDay()
EachLocalDay(range) ==
  LET cursor[n \in 0 .. RangeDayCount(range) + 1] ==
        IF n = 0 THEN StartOfLocalDay(LocalDay(range.from, range.zone), range.zone)
                 ELSE NextDay(cursor[n - 1], range.zone)
  IN  {LocalDay(cursor[n], range.zone) : n \in {m \in DOMAIN cursor : cursor[m] < range.to}}

None == [total |-> 0, succeeded |-> 0, missed |-> 0, failed |-> 0]

\* buildActivitySeries() of the analytics: a point for each period of the range
ActivitySeries(range, by, buckets) ==
  [k \in {Key(d, by) : d \in EachLocalDay(range)} |-> IF k \in DOMAIN buckets THEN buckets[k] ELSE None]

\* buildActivitySeries() of the dashboard: as many days of the calendar as the range has
DaySeries(range, buckets) ==
  LET first == LocalDay(range.from, range.zone)
  IN  [k \in {Key(d, "day") : d \in first .. first + RangeDayCount(range) - 1} |->
         IF k \in DOMAIN buckets THEN buckets[k] ELSE None]

\* What counts, and the points of a series, add up to.
SumOf(counts) == MapThenSumSet(LAMBDA k : counts[k], DOMAIN counts)
Sum(series) == SumOf([k \in DOMAIN series |-> series[k].total])
SumSucceeded(series) == SumOf([k \in DOMAIN series |-> series[k].succeeded])

=============================================================================
