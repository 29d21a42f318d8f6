----------------------------- MODULE Navigation ------------------------------
(* frontend/server.go and readmodel/window: which window a URL asks for, and   *)
(* the links of a page to other windows and pages.  A page keeps the links it  *)
(* was rendered with while days pass and data arrives.  Day 0 is the Monday    *)
(* 2026-01-05 that sprints are counted from; instants are ticks.               *)
EXTENDS Integers, FiniteSetsExt

CONSTANTS
  NoDate,        \* a parameter that is not set
  DayTicks,      \* ticks of a day
  FirstDate,     \* bounds on the windows a reader goes to
  LastDate,
  FirstToday,    \* the clock runs between these days
  LastToday,
  Weeks,         \* Mondays of weeks that may have data
  DefaultWeek,   \* the configured week, or NoDate
  RelativeDays,  \* RelativeDayOptions of the trends page
  Entries        \* queries a reader types or has kept

Paths == {"/", "report", "patterns", "global", "run-log", "trends", "api/trends", "api/patterns", "api/run-log"}
(* The queries of the pages: a parameter is a number or not set.               *)
Parameter == Int \cup {NoDate}
QueryModes == {"", "rolling", "sprint", "weekly", "relative", "all"}
Queries ==
  [path : Paths, first : Parameter, last : Parameter, from : Parameter, to : Parameter,
   week : Parameter, day : Parameter, mode : QueryModes, days : Int]

ASSUME NavigationAssumption ==
  /\ DayTicks \in Nat \ {0} /\ FirstToday \in Int /\ LastToday \in Int /\ FirstToday <= LastToday
  /\ NoDate \notin Int /\ Weeks \subseteq Int /\ Entries \subseteq Queries
  /\ RelativeDays \subseteq Nat \ {0} /\ 7 \in RelativeDays

VARIABLES
  date,       \* today
  dataWeeks,  \* Mondays of the weeks with runs or metrics
  page        \* the page that is read: path, scope, mode and links

navvars == <<date, dataWeeks, page>>

Scope(start, end, exact) == [start |-> start, end |-> end, exact |-> exact]
Dates(first, last) == Scope(first * DayTicks, (last + 1) * DayTicks, FALSE)
Always == Scope(NoDate, NoDate, FALSE)  \* trends of all there is
First(s) == s.start \div DayTicks
Last(s) == (s.end - 1) \div DayTicks

(* A query: dates, instants, a week or a day, and the mode or relative days.   *)
Query(path) ==
  [path |-> path, first |-> NoDate, last |-> NoDate, from |-> NoDate, to |-> NoDate,
   week |-> NoDate, day |-> NoDate, mode |-> "", days |-> 0]
AskDates(path, first, last, mode) ==
  [Query(path) EXCEPT !.first = first, !.last = last, !.mode = mode]
AskTimes(path, from, to, mode) == [Query(path) EXCEPT !.from = from, !.to = to, !.mode = mode]
AskScope(path, s, mode) ==
  IF s.exact THEN AskTimes(path, s.start, s.end, mode) ELSE AskDates(path, First(s), Last(s), mode)

-----------------------------------------------------------------------------
(* Weeks and sprints.                                                          *)

IsMonday(d) == d % 7 = 0
MondayOf(d) == d - (d % 7)
WeekOf(d) == Dates(MondayOf(d), MondayOf(d) + 6)
SprintDays == 14

(* SprintWindowForDate: the quotient of Go's integers is cut off towards zero. *)
SprintOf(d) ==
  LET number == IF d >= 0 THEN d \div SprintDays ELSE -((-d) \div SprintDays) IN
  Dates(number * SprintDays, (number + 1) * SprintDays - 1)

Rolling(last, days) == Dates(last + 1 - days, last)

(* LatestCompleteWeek, of a set that is not empty.                             *)
LatestCompleteWeek(weeks) ==
  LET past == {w \in weeks : w < MondayOf(date)} IN Max(IF past = {} THEN weeks ELSE past)

(* ResolveWindow for no requested week: the configured one, not while it runs. *)
ResolveWindow ==
  IF /\ DefaultWeek \in dataWeeks
     /\ DefaultWeek # MondayOf(date) \/ dataWeeks = {DefaultWeek}
  THEN DefaultWeek ELSE LatestCompleteWeek(dataWeeks)
ResolveWeekWindow == IF dataWeeks = {} THEN {} ELSE {WeekOf(ResolveWindow)}

(* window.Resolve: the window, as a set of one; none for an error.             *)
Resolve(q, default) ==
  LET Ordered(first, last) ==
        IF NoDate \notin {first, last} /\ first <= last THEN {Dates(first, last)} ELSE {}
  IN
  IF {q.from, q.to} # {NoDate}
  THEN IF NoDate \notin {q.from, q.to} /\ {q.first, q.last, q.week, q.day} = {NoDate} /\ q.from < q.to
       THEN {Scope(q.from, q.to, TRUE)} ELSE {}
  ELSE IF q.day # NoDate THEN Ordered(q.day, q.day)
  ELSE IF {q.first, q.last} # {NoDate} THEN Ordered(q.first, q.last)
  ELSE IF q.week # NoDate THEN IF IsMonday(q.week) THEN {WeekOf(q.week)} ELSE {}
  ELSE CASE default = "latest week" -> ResolveWeekWindow
         [] default = "rolling" -> {Rolling(date, 7)}
         [] default = "sprint" -> {SprintOf(date)}
         [] OTHER -> {}

-----------------------------------------------------------------------------
(* The time selector.                                                          *)

IsDay(s) == s.start % DayTicks = 0 /\ s.end = s.start + DayTicks
IsWeekly(s) ==
  s.start % DayTicks = 0 /\ IsMonday(First(s)) /\ s.end = s.start + 7 * DayTicks
IsSprint(s) ==
  s.start = SprintOf(First(s)).start /\ s.end = SprintOf(First(s)).end

InferredMode(s) ==
  CASE IsDay(s) -> "day" [] IsSprint(s) -> "sprint" [] IsWeekly(s) -> "weekly" [] OTHER -> "custom"

SpanDaysExclusive(s) == Last(s) - First(s)  \* fault: the last day does not count
SpanDays(s) == Last(s) - First(s) + 1       \* timeWindowSpanDays

(* By how much the previous and next controls move the window.                 *)
Shift(mode, s) ==
  CASE mode = "rolling" -> 0
    [] mode = "weekly" -> 7 * DayTicks
    [] mode = "sprint" -> SprintDays * DayTicks
    [] mode = "day" -> DayTicks
    [] OTHER -> IF s.exact THEN s.end - s.start ELSE SpanDays(s) * DayTicks

(* The mode that a link to a page of that mode carries.                        *)
ModeValue(mode) == IF mode \in {"rolling", "sprint"} THEN mode ELSE ""

(* A link to a window that is shifted is offered if the window resolves.  For  *)
(* one with exact bounds the dates are asked for, too, a combination that      *)
(* Resolve refuses: such windows have no previous and next.                    *)
Validated(s, link) ==
  LET request == [AskDates("", First(s), Last(s), "") EXCEPT
                    !.from = IF s.exact THEN s.start ELSE NoDate,
                    !.to = IF s.exact THEN s.end ELSE NoDate]
  IN IF Resolve(request, "") = {} THEN {} ELSE {link}

Shifted(path, s, mode, by) ==
  LET target == Scope(s.start + by, s.end + by, s.exact) IN
  IF mode = "rolling" \/ by = 0 THEN {}
  ELSE Validated(target, AskScope(path, target, ModeValue(mode)))

(* The window a report compares its own with: as many days before it.          *)
MetricDates(s) == First(s)..Last(s)
Comparison(s) == Dates(First(s) - Cardinality(MetricDates(s)), First(s) - 1)

(* A page has two groups of links: the presets of its time selector and others.*)
Rels == {"previous", "next", "rolling", "weekly", "sprint", "day", "patterns", "api", "apply"}
Page(path, s, mode, presets, others) ==
  [path |-> path, scope |-> s, mode |-> mode,
   links |-> [rel \in Rels |-> IF rel \in DOMAIN presets THEN presets[rel]
                               ELSE IF rel \in DOMAIN others THEN others[rel] ELSE {}]]

-----------------------------------------------------------------------------
(* The report: the latest complete week unless its mode says otherwise.        *)

LandingQuery == AskScope("report", Rolling(date, 7), "rolling")

ReportWindow(q) ==
  Resolve([q EXCEPT !.from = NoDate, !.to = NoDate, !.day = NoDate],
          IF ModeValue(q.mode) = "" THEN "latest week" ELSE q.mode)

ReportPresets(s) ==
  [rolling |-> {LandingQuery},
   weekly |-> {AskScope("report", WeekOf(Last(s)), "")},
   sprint |-> {AskScope("report", SprintOf(Last(s)), "sprint")}]

ReportPage(q) ==
  LET Of(s) ==
        LET mode == IF ModeValue(q.mode) = "" THEN InferredMode(s) ELSE q.mode IN
        Page("report", s, mode, ReportPresets(s),
             [previous |-> Shifted("report", s, mode, -Shift(mode, s)),
              next |-> Shifted("report", s, mode, Shift(mode, s)),
              patterns |-> {AskScope("patterns", s, ModeValue(mode))}])
  IN {Of(s) : s \in ReportWindow(q)}

-----------------------------------------------------------------------------
(* The failure patterns: the last seven days unless asked for something else.  *)
(* Their form sends the instants that are shown and no mode.                   *)

Explicit(q) == {q.first, q.last, q.from, q.to, q.week} # {NoDate}

PatternsWindow(q) ==
  Resolve([q EXCEPT !.day = NoDate], IF q.mode = "sprint" THEN "sprint" ELSE "rolling")

PatternsMode(q, s) ==
  IF ModeValue(q.mode) # "" THEN q.mode ELSE IF Explicit(q) THEN InferredMode(s) ELSE "rolling"

PatternsPresets(s) ==
  [rolling |-> {AskScope("patterns", Rolling(Last(s), 7), "rolling")},
   weekly |-> {AskScope("patterns", WeekOf(Last(s)), "")},
   sprint |-> {AskScope("patterns", SprintOf(Last(s)), "sprint")},
   day |-> {AskScope("patterns", Dates(Last(s), Last(s)), "")}]

PatternsPage(q) ==
  LET Of(s) ==
        LET mode == PatternsMode(q, s) IN
        Page("patterns", s, mode, PatternsPresets(s),
             [previous |-> Shifted("patterns", s, mode, -Shift(mode, s)),
              next |-> Shifted("patterns", s, mode, Shift(mode, s)),
              api |-> {AskScope("api/patterns", s, "")},
              apply |-> {AskTimes("patterns", s.start, s.end, "")}])
  IN {Of(s) : s \in PatternsWindow(q)}

-----------------------------------------------------------------------------
(* The run log of a day: of a week its last day that has begun, else today.    *)

AskDay(path, d) == [Query(path) EXCEPT !.day = d]
BegunDate(d) == Min({d, date})

RunLogDays(q) ==
  IF q.day # NoDate THEN {q.day}
  ELSE IF q.week # NoDate THEN {BegunDate(Last(s)) : s \in Resolve([Query("") EXCEPT !.week = q.week], "")}
  ELSE {date}

ShiftedRunLog(d) == {AskDay("run-log", n) : n \in {n \in {d} : n <= date}}

RunLogPage(q) ==
  LET Of(d) ==
        Page("run-log", Dates(d, d), "day", <<>>,
             [previous |-> ShiftedRunLog(d - 1), next |-> ShiftedRunLog(d + 1),
              patterns |-> {AskDates("patterns", d, d, "")}, api |-> {AskDay("api/run-log", d)}])
  IN {Of(d) : d \in RunLogDays(q)}

-----------------------------------------------------------------------------
(* The trends: 30 days back unless asked for something else, or all there is.  *)

WithDefaults(q) ==
  IF q.mode = "" /\ {q.first, q.last} = {NoDate} /\ q.days = 0
  THEN [q EXCEPT !.mode = "relative", !.days = 30] ELSE q

(* relativeDays, as a set of one; none for an error.                           *)
DaysBack(q) ==
  IF q.mode = "relative" THEN {q.days} \cap RelativeDays
  ELSE IF q.days # 0 THEN {} ELSE IF q.mode = "rolling" THEN {7} ELSE {0}

TrendsScopes(q, days) ==
  CASE q.mode \in {"relative", "rolling"} -> {Rolling(date, days)}
    [] q.mode = "weekly" -> {WeekOf(date)}
    [] q.mode = "sprint" -> {SprintOf(date)}
    [] q.mode = "all" -> {Always}
    [] OTHER -> Resolve(AskDates("", q.first, q.last, ""), "")

TrendsMode(q, s) ==
  CASE q.mode \in {"relative", "rolling"} -> "rolling"
    [] q.mode \in {"weekly", "sprint"} -> q.mode
    [] OTHER -> IF s = Always THEN "custom" ELSE InferredMode(s)

AskTrends(path, mode, first, last, days) ==
  [AskDates(path, first, last, mode) EXCEPT !.days = days]

RelativeLinks == {AskTrends("trends", "relative", NoDate, NoDate, n) : n \in RelativeDays}
TrendsAnchor(s) == IF s = Always THEN date ELSE Last(s)
TrendsPresets(s) ==
  [rolling |-> RelativeLinks,
   weekly |-> {AskScope("trends", WeekOf(TrendsAnchor(s)), "")},
   sprint |-> {AskScope("trends", SprintOf(TrendsAnchor(s)), "")}]

ShiftedTrends(s, mode, by) ==
  IF mode = "rolling" \/ by = 0 THEN {}
  ELSE {AskScope("trends", Scope(s.start + by, s.end + by, FALSE), "")}

TrendsPage(asked) ==
  LET q == WithDefaults(asked)
      api == {AskTrends("api/trends", q.mode, q.first, q.last, q.days)}
      Of(s) ==
        LET mode == TrendsMode(q, s) IN
        Page("trends", s, mode, TrendsPresets(s),
             IF s = Always THEN [api |-> api]
             ELSE [previous |-> ShiftedTrends(s, mode, -Shift(mode, s)),
                   next |-> ShiftedTrends(s, mode, Shift(mode, s)),
                   api |-> api, apply |-> {AskDates("trends", First(s), Last(s), "")}])
  IN {Of(s) : s \in UNION {TrendsScopes(q, days) : days \in DaysBack(q)}}

-----------------------------------------------------------------------------
(* What is answered: a page, or the window that an API call is for.            *)
AnswerOf(path, s) == Page(path, s, "", <<>>, <<>>)
Serve(q) ==
  CASE q.path = "/" -> ReportPage(LandingQuery)
    [] q.path = "report" -> ReportPage(q)
    [] q.path = "patterns" -> PatternsPage(q)
    [] q.path = "global" -> PatternsPage([Query("patterns") EXCEPT !.week = q.week])
    [] q.path = "run-log" -> RunLogPage(q)
    [] q.path \in {"trends", "api/trends"} -> TrendsPage(q)
    [] q.path = "api/patterns" -> {AnswerOf(q.path, s) : s \in Resolve(q, "latest week")}
    [] q.path = "api/run-log" -> {AnswerOf(q.path, s) : s \in Resolve(q, "")}

-----------------------------------------------------------------------------
NoPage == AnswerOf("", Always)

NavigationInit == date = FirstToday /\ dataWeeks = {} /\ page = NoPage

Tomorrow ==
  /\ date < LastToday
  /\ date' = date + 1
  /\ UNCHANGED <<dataWeeks, page>>

(* Runs or metrics of a day are stored that has begun.                         *)
DataArrives(week) ==
  /\ IsMonday(week) /\ week <= date /\ week \notin dataWeeks
  /\ dataWeeks' = dataWeeks \cup {week}
  /\ UNCHANGED <<date, page>>

Open(q) ==
  /\ \E p \in Serve(q) :
       /\ p.scope # Always => FirstDate <= First(p.scope) /\ Last(p.scope) <= LastDate
       /\ page' = p
  /\ UNCHANGED <<date, dataWeeks>>

Visit == \E q \in Entries : Open(q)
Follow == \E rel \in Rels \ {"api"} : \E q \in page.links[rel] : Open(q)

NavigationNext ==
  \/ Tomorrow
  \/ \E week \in Weeks : DataArrives(week)
  \/ Visit
  \/ Follow

NavigationSpec == NavigationInit /\ [][NavigationNext]_navvars

(* A query that names a mode names it alone or beside dates of this mode: all  *)
(* links do, and what a reader types is taken to.  A page that is asked for    *)
(* other dates believes the mode all the same.                                 *)
Truthful(q) ==
  q.path \in {"report", "patterns"} /\ ModeValue(q.mode) # "" =>
    /\ {q.from, q.to, q.week} = {NoDate}
    /\ {q.first, q.last} # {NoDate} /\ NoDate \notin {q.first, q.last} =>
         IF q.mode = "rolling" THEN SpanDays(Dates(q.first, q.last)) = 7 ELSE IsSprint(Dates(q.first, q.last))

ASSUME EntriesTruthful == \A q \in Entries : Truthful(q)

-----------------------------------------------------------------------------
NavigationTypeOK ==
  /\ date \in FirstToday..LastToday
  /\ dataWeeks \subseteq Weeks
  /\ page.mode \in {"", "day", "weekly", "sprint", "rolling", "custom"}
  /\ page.scope = Always \/ page.scope.start < page.scope.end

Opened(rel) == UNION {Serve(q) : q \in page.links[rel]}

(* Every link opens a page, days after it was rendered, too.                   *)
LinksOpen == \A rel \in Rels : \A q \in page.links[rel] : Serve(q) # {}

(* Previous and next lead to windows of the same kind that touch the page's    *)
(* and lead back to it; a run log has no day after today.                      *)
BackAgain ==
  LET Back(there, rel) == {<<p.scope, p.mode>> : p \in UNION {Serve(q) : q \in there.links[rel]}}
      here == {<<page.scope, page.mode>>}
  IN
  /\ \A there \in Opened("previous") :
       /\ there.scope.end = page.scope.start
       /\ Back(there, "next") = IF page.path = "run-log" /\ First(page.scope) > date THEN {} ELSE here
  /\ \A there \in Opened("next") :
       /\ there.scope.start = page.scope.end
       /\ Back(there, "previous") = here

(* A report is compared with the window that its previous control opens.       *)
ComparedWithPrevious ==
  page.path = "report" => \A there \in Opened("previous") : there.scope = Comparison(page.scope)

(* What the time selector says of the window is so.                            *)
ModeTrue ==
  CASE page.mode = "weekly" -> IsWeekly(page.scope)
    [] page.mode = "sprint" -> IsSprint(page.scope)
    [] page.mode = "day" -> IsDay(page.scope)
    [] page.mode = "rolling" ->
         SpanDays(page.scope) \in (IF page.path = "trends" THEN RelativeDays ELSE {7})
    [] OTHER -> TRUE

(* The failure patterns and the API beside a page show its window, and the     *)
(* failure patterns call it the same.                                          *)
SameWindowBeside ==
  /\ \A p \in Opened("patterns") : p.scope = page.scope /\ p.mode = page.mode
  /\ \A q \in page.links["api"] : q.mode = "" => \A p \in Serve(q) : p.scope = page.scope

(* The presets hold the last day of the page's window, and the one marked as   *)
(* active is the page; sprints of days before the first one aside.             *)
PresetsAround ==
  \A rel \in {"weekly", "sprint", "day"} : \A p \in Opened(rel) :
    page.scope # Always /\ (rel = "sprint" => Last(page.scope) >= 0) =>
      /\ First(p.scope) <= Last(page.scope) /\ Last(page.scope) <= Last(p.scope)
      /\ page.mode = rel => <<p.scope.start, p.scope.end>> = <<page.scope.start, page.scope.end>>

(* The report opens with a week that is over when there is data of one,        *)
(* whatever week is configured.                                                *)
ReportOpensComplete ==
  (\E week \in dataWeeks : week + 6 < date) =>
    \A p \in Serve(Query("report")) : Last(p.scope) < date

(* Moving through the pages is sound: what the links of server.go promise, on  *)
(* every page a reader reaches by them, across midnights and new data.         *)
NavigationSound ==
  /\ LinksOpen /\ BackAgain /\ ComparedWithPrevious /\ ModeTrue
  /\ SameWindowBeside /\ PresetsAround /\ ReportOpensComplete

(* SprintWindowForDate: "returns the inclusive start and end dates of the      *)
(* sprint containing the given date".                                          *)
SprintContainsDate ==
  page.scope # Always =>
    \A p \in Opened("sprint") : First(p.scope) <= Last(page.scope) /\ Last(page.scope) <= Last(p.scope)
=============================================================================
