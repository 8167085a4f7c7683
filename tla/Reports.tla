------------------------------- MODULE Reports -------------------------------
(***************************************************************************)
(* The two report screens and what serves them: AnalyticsService with its  *)
(* TtlCache, DashboardService, and the pages that ask for a range and show *)
(* the answer.  The queries of a request are sent at once and here see one *)
(* state of the tables.  Of the writes there are the calls and e-mails of  *)
(* our workspace, which begin and end; no contact is deleted.              *)
(***************************************************************************)
EXTENDS ReportFigures

CONSTANTS Space,     \* workspaces
          Ours,      \* the one whose user looks at the screens
          Person,    \* contacts of each
          Questions, \* the ranges and bucket sizes a user may choose, first the page's own
          Request,   \* requests that may be served at once
          Limit,     \* size of the ranking
          Ttl,       \* hours an answer is kept
          MaxEntries,
          MaxTime,   \* bound: the last hour
          MaxRecords \* bound: calls and e-mails

VARIABLES
  now,
  calls, emails,  \* the records
  cache,          \* what is kept, the least recently used first
  request,        \* the requests being served
  screen,         \* "analytics" or "dashboard"
  chosen,         \* the range chosen on it
  shown,          \* the answer shown
  trouble         \* history: two requests of ours were under way at once, or the last one failed

tables == <<calls, emails>>
reportVars == <<now, tables, cache, request, screen, chosen, shown, trouble>>

ASSUME ReportAssumption ==
  /\ Ours \in Space /\ Questions # {} /\ MaxEntries \in Nat \ {0} /\ {Ttl, Limit, MaxRecords} \subseteq Nat
  /\ \A q \in Questions : /\ {"preset", "zone", "from", "to", "by"} = DOMAIN q
                        /\ q.preset \in {"today", "week", "month", "custom"}
                        /\ {q.from, q.to, q.zone.before, q.zone.after, q.zone.at} \subseteq Int

NoAnswer == [space |-> "none"]
Idle == [pc |-> "idle"]

ReportInit ==
  /\ now = 0 /\ calls = {} /\ emails = {} /\ cache = << >>
  /\ request = [r \in Request |-> Idle]
  /\ screen \in {"analytics", "dashboard"} /\ chosen \in Questions /\ shown = NoAnswer /\ trouble = "none"

-----------------------------------------------------------------------------
CallsOf(s) == {e \in calls : e.space = s}
EmailsOf(s) == {e \in emails : e.space = s}

\* Mutant of CacheKey: the days the preset stands for are left out.
CacheKeyByPreset(s, range, by) == <<s, range.preset, range.zone, by>>

CacheKey(s, range, by) == <<s, range, by, Limit>>

Held(key) == {i \in DOMAIN cache : cache[i].key = key}

\* get(): an entry that has not expired
Kept(key) == {i \in Held(key) : cache[i].until > now}

\* delete() of the Map
Without(key) ==
  IF Held(key) = {} THEN cache
  ELSE LET i == CHOOSE i \in Held(key) : TRUE IN SubSeq(cache, 1, i - 1) \o SubSeq(cache, i + 1, Len(cache))

\* It becomes the most recently used, or is deleted.
Touched(key) ==
  IF Kept(key) = {} THEN Without(key) ELSE Append(Without(key), cache[CHOOSE i \in Kept(key) : TRUE])

\* set(): the least recently used goes once there are too many.
Stored(key, answer) ==
  LET all == Append(Without(key), [key |-> key, answer |-> answer, until |-> now + Ttl])
  IN  IF Len(all) > MaxEntries THEN Tail(all) ELSE all

\* What the queries of a request find.
Figures(r) ==
  LET c == CallsOf(r.space)
      m == EmailsOf(r.space)
      Both(Of(_)) == <<Of(c), Of(m)>>
      Ranged(e) == Totals(Within(e, r.range))
      Today(e) == Totals(Within(e, r.today))
      Statuses(e) == Breakdown(Within(e, r.range))
      Points(e) == ActivitySeries(r.range, r.by, Buckets(e, r.range, r.by))
      ByDay(e) == DaySeries(r.range, Buckets(e, r.range, "day"))
  IN  IF r.kind = "analytics"
      THEN {[totals |-> Both(Ranged), statuses |-> Both(Statuses), series |-> Both(Points), people |-> top] :
              top \in MostContacted(c, m, r.range, Person, Limit)}
      ELSE {[totals |-> Both(Totals), today |-> Both(Today), series |-> Both(ByDay), recent |-> Both(RecentOf)]}

\* getSummary() up to its queries, or to a cached answer; getSnapshot() likewise
Begin(r, kind, s, question) ==
  LET range == ResolveDateRange(question, now)
      by == IF kind = "analytics" THEN Granularity(question, range) ELSE "day"
      key == CacheKey(s, range, by)
      today == ResolveDateRange([question EXCEPT !.preset = "today"], now)
      asked == [pc |-> "reading", kind |-> kind, space |-> s, range |-> range, by |-> by,
                today |-> today, figures |-> << >>]
  IN  /\ request[r] = Idle
      /\ IF ~IsAccepted(question, now)
         THEN request' = [request EXCEPT ![r] = [asked EXCEPT !.pc = "refused"]] /\ UNCHANGED cache
         ELSE IF kind = "dashboard"
         THEN request' = [request EXCEPT ![r] = asked] /\ UNCHANGED cache
         ELSE /\ cache' = Touched(key)
              /\ request' = [request EXCEPT ![r] =
                   IF Kept(key) = {} THEN asked
                   ELSE [asked EXCEPT !.pc = "served",
                           !.figures = cache[CHOOSE i \in Kept(key) : TRUE].answer]]

Read(r) ==
  /\ request[r].pc = "reading" /\ request[r].figures = << >>
  /\ \E f \in Figures(request[r]) : request' = [request EXCEPT ![r].figures = f]
  /\ UNCHANGED <<now, tables, cache, screen, chosen, shown, trouble>>

\* The answer is kept for the next request; an answer stands for
\* its figures by what they are figures of.
Answer(r) ==
  LET q == request[r]
      answer == [space |-> q.space, range |-> q.range, by |-> q.by, kind |-> q.kind]
  IN  /\ q.pc = "reading" /\ q.figures # << >>
      /\ request' = [request EXCEPT ![r].pc = "served", ![r].figures = answer]
      /\ cache' = IF q.kind = "analytics" THEN Stored(CacheKey(q.space, q.range, q.by), answer) ELSE cache
      /\ UNCHANGED <<now, tables, screen, chosen, shown, trouble>>

-----------------------------------------------------------------------------
OursUnderWay == {r \in Request : request[r] # Idle /\ request[r].space = Ours}

\* Bound: once two requests crossed the screen is not used again.
Ask == trouble # "crossed" /\ trouble' = IF OursUnderWay = {} THEN trouble ELSE "crossed"

\* Mutant of Choose: the range is asked for before it is set.
ChooseLate(r, question) ==
  /\ question.zone = chosen.zone /\ chosen' = question /\ Ask
  /\ Begin(r, screen, Ours, chosen)
  /\ UNCHANGED <<now, tables, screen, shown>>

\* load(), setRange(), setGranularity(), changeRange(), in the zone of the browser
Choose(r, question) ==
  /\ question.zone = chosen.zone /\ chosen' = question /\ Ask
  /\ Begin(r, screen, Ours, question)
  /\ UNCHANGED <<now, tables, screen, shown>>

\* Somebody else asks the same of theirs.
Elsewhere(r, s) ==
  /\ s # Ours /\ Begin(r, "analytics", s, chosen)
  /\ UNCHANGED <<now, tables, screen, chosen, shown, trouble>>

\* The answer is shown, whatever has been chosen since, and the bucket size
\* that the server chose.
Show(r) ==
  LET answer == request[r].figures IN
  /\ request[r].pc = "served" /\ request' = [request EXCEPT ![r] = Idle]
  /\ IF request[r].space = Ours
     THEN /\ shown' = answer /\ chosen' = [chosen EXCEPT !.by = IF screen = "analytics" THEN answer.by ELSE @]
          /\ trouble' = IF trouble = "failed" THEN "none" ELSE trouble
     ELSE UNCHANGED <<shown, chosen, trouble>>
  /\ UNCHANGED <<now, tables, cache, screen>>

\* A refusal, a failing query or a lost answer: the dashboard drops what it
\* shows, the analytics keep it.
Fails(r) ==
  /\ request[r] # Idle /\ request' = [request EXCEPT ![r] = Idle]
  /\ shown' = IF request[r].space = Ours /\ screen = "dashboard" THEN NoAnswer ELSE shown
  /\ trouble' = IF request[r].space = Ours /\ trouble = "none" THEN "failed" ELSE trouble
  /\ UNCHANGED <<now, tables, cache, screen, chosen>>

Log(s, c, table) ==
  LET e == [id |-> Cardinality(calls \cup emails) + 1, space |-> s, contact |-> c, at |-> now, status |-> "queued"]
  IN  /\ Cardinality(calls) + Cardinality(emails) < MaxRecords
      /\ \/ table = "calls" /\ calls' = calls \cup {e} /\ UNCHANGED emails
         \/ table = "emails" /\ emails' = emails \cup {e} /\ UNCHANGED calls
      /\ UNCHANGED <<now, cache, request, screen, chosen, shown, trouble>>

Settled(e, table, status) ==
  /\ e.status = "queued"
  /\ \/ /\ table = "calls" /\ e \in calls /\ status \in {"completed", "no_answer"}
        /\ calls' = (calls \ {e}) \cup {[e EXCEPT !.status = status]} /\ UNCHANGED emails
     \/ /\ table = "emails" /\ e \in emails /\ status = "sent"
        /\ emails' = (emails \ {e}) \cup {[e EXCEPT !.status = status]} /\ UNCHANGED calls
  /\ UNCHANGED <<now, cache, request, screen, chosen, shown, trouble>>

Tick ==
  /\ now < MaxTime /\ now' = now + 1
  /\ UNCHANGED <<tables, cache, request, screen, chosen, shown, trouble>>

ReportNext ==
  \/ Tick
  \/ \E r \in Request :
       \/ Read(r) \/ Answer(r) \/ Show(r) \/ Fails(r)
       \/ \E question \in Questions \cup {chosen} : Choose(r, question)
       \/ \E s \in Space : Elsewhere(r, s)
  \/ \E c \in Person, table \in {"calls", "emails"} : Log(Ours, c, table)
  \/ \E e \in calls \cup emails, table \in {"calls", "emails"}, status \in CallStatus \cup EmailStatus :
       Settled(e, table, status)

ReportSpec == ReportInit /\ [][ReportNext]_reportVars

-----------------------------------------------------------------------------
(***************************************************************************)
(* Properties.                                                             *)
(***************************************************************************)

(***************************************************************************)
(* An answer, kept or new, is of the workspace that asks, of the range as  *)
(* it is when it asks, past midnight too, and in the buckets it asks for.  *)
(***************************************************************************)
AnswersTheQuestion ==
  \A r \in Request : request[r].pc = "served" =>
    LET answer == request[r].figures
    IN  /\ answer.space = request[r].space /\ answer.kind = request[r].kind
        /\ answer.range = request[r].range /\ answer.by = request[r].by

(***************************************************************************)
(* With nothing under way a screen shows the range chosen on it, unless    *)
(* two requests crossed, whose answers are shown in the order they come,   *)
(* or the last one failed and left the answer before it on the screen.     *)
(***************************************************************************)
ShownIsChosen ==
  trouble = "none" /\ OursUnderWay = {} /\ shown # NoAnswer =>
    shown.range.preset = chosen.preset /\ shown.range.zone = chosen.zone /\ shown.space = Ours

\* A day begins between two local times, at the first or before the second.
DayBegins(from, to) == from <= Day * ((to - 1) \div Day)

\* The clocks change by less than half a day.  They skip no midnight but one they
\* go forward from, ahead of UTC, and pass none twice but one they go back to,
\* behind UTC.
Regular(zone) ==
  LET from == zone.at + zone.before
      to == zone.at + zone.after
  IN  /\ 2 * (to - from) < Day /\ 2 * (from - to) < Day
      /\ ~DayBegins(from + IF zone.before >= 0 THEN 1 ELSE 0, to)
      /\ ~DayBegins(to + IF zone.after < 0 THEN 1 ELSE 0, from)

(***************************************************************************)
(* The figures of a report agree: the series adds up to the totals and to  *)
(* the breakdown beside it, and its point for today to the totals of       *)
(* today, though the buckets are made by the database and the days by the  *)
(* service, also over a change of the clocks.  That is, unless the clocks  *)
(* skip a midnight or pass it twice: startOfLocalDay() then takes a day to *)
(* begin in another one, whose records have no point.                      *)
(***************************************************************************)
FiguresAddUp ==
  \A r \in Request, t \in {1, 2} :
    LET q == request[r]
        f == q.figures
    IN  q.pc = "reading" /\ f # << >> /\ Regular(q.range.zone) =>
          IF q.kind = "analytics"
          THEN /\ Sum(f.series[t]) = f.totals[t].total /\ SumSucceeded(f.series[t]) = f.totals[t].succeeded
               /\ SumOf(f.statuses[t]) = f.totals[t].total
          ELSE q.range.to >= q.today.to /\ q.range.from <= q.today.from =>
                 f.series[t][Key(LocalDay(q.today.from, q.today.zone), "day")] = f.today[t]

=============================================================================
