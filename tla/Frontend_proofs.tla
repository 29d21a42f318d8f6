-------------------------- MODULE Frontend_proofs ----------------------------
(* The windows and links of the pages, for any calendar, configured week and   *)
(* truthful queries, and the four parts of the frontend together.              *)
EXTENDS Pages_proofs, MCFrontend

-----------------------------------------------------------------------------
(* The pages and their links.                                                  *)

Modes == {"", "day", "weekly", "sprint", "rolling", "custom"}
Span == {s \in [start : Int, end : Int, exact : BOOLEAN] : s.start < s.end}

(* A page shows a window that is not empty, or everything there is, and each   *)
(* of its links is a query.                                                    *)
PageOK(p) ==
  /\ p.mode \in Modes
  /\ p.scope = Always \/ p.scope \in Span
  /\ \A rel \in Rels : p.links[rel] \subseteq Queries

NavigationInv ==
  /\ date \in FirstToday..LastToday
  /\ dataWeeks \subseteq Weeks /\ IsFiniteSet(dataWeeks)
  /\ PageOK(page)

LEMMA TicksAre == DayTicks \in Nat /\ DayTicks > 0 /\ \A m \in Int : m * DayTicks \in Int
<1>1. DayTicks \in Nat \ {0}
  BY NavigationAssumption
<1> QED
  BY <1>1

LEMMA DatesOK ==
  ASSUME NEW first \in Int, NEW last \in Int, first <= last
  PROVE  Dates(first, last) \in Span
<1>1. DayTicks * first \in Int /\ DayTicks * (last + 1) \in Int /\ DayTicks * first + DayTicks <= DayTicks * (last + 1)
  BY TicksAre, TimesGrow
<1>2. first * DayTicks = DayTicks * first /\ (last + 1) * DayTicks = DayTicks * (last + 1)
  BY TicksAre
<1>3. first * DayTicks \in Int /\ (last + 1) * DayTicks \in Int /\ first * DayTicks < (last + 1) * DayTicks
  BY <1>1, <1>2, TicksAre
<1> QED
  BY <1>3 DEF Dates, Scope, Span

LEMMA SpanDates ==
  ASSUME NEW s \in Span
  PROVE  First(s) \in Int /\ Last(s) \in Int
<1>1. s.start \in Int /\ s.end - 1 \in Int /\ DayTicks \in Nat \ {0}
  BY NavigationAssumption DEF Span
<1> QED
  BY <1>1, Quotient DEF First, Last

LEMMA WeekOfOK == \A d \in Int : WeekOf(d) \in Span /\ MondayOf(d) \in Int
<1> SUFFICES ASSUME NEW d \in Int PROVE WeekOf(d) \in Span /\ MondayOf(d) \in Int
  OBVIOUS
<1>1. MondayOf(d) \in Int /\ MondayOf(d) + 6 \in Int /\ MondayOf(d) <= MondayOf(d) + 6
  BY DEF MondayOf
<1> QED
  BY <1>1, DatesOK DEF WeekOf

LEMMA SprintOfOK == \A d \in Int : SprintOf(d) \in Span
<1> SUFFICES ASSUME NEW d \in Int PROVE SprintOf(d) \in Span
  OBVIOUS
<1> DEFINE number == IF d >= 0 THEN d \div SprintDays ELSE -((-d) \div SprintDays)
<1>1. number \in Int
  BY DEF SprintDays
<1>2. SprintOf(d) = Dates(number * SprintDays, (number + 1) * SprintDays - 1)
  BY DEF SprintOf
<1> HIDE DEF number
<1>3. /\ number * SprintDays \in Int /\ (number + 1) * SprintDays - 1 \in Int
      /\ number * SprintDays <= (number + 1) * SprintDays - 1
  BY <1>1 DEF SprintDays
<1> QED
  BY <1>2, <1>3, DatesOK

LEMMA RollingOK == \A last \in Int, n \in Nat \ {0} : Rolling(last, n) \in Span
BY DatesOK DEF Rolling

(* Queries of dates, of instants and of a page's window.                       *)
LEMMA QueryOK == \A path \in Paths : Query(path) \in Queries
BY DEF Query, Queries, Parameter, QueryModes

LEMMA AskDatesOK ==
  ASSUME NEW path \in Paths, NEW first \in Parameter, NEW last \in Parameter, NEW mode \in QueryModes
  PROVE  AskDates(path, first, last, mode) \in Queries
<1> DEFINE q == Query(path)
<1>1. q \in Queries
  BY QueryOK
<1>2. AskDates(path, first, last, mode) = [q EXCEPT !.first = first, !.last = last, !.mode = mode]
  BY DEF AskDates
<1> HIDE DEF q
<1> QED
  BY <1>1, <1>2 DEF Queries

LEMMA AskTimesOK ==
  ASSUME NEW path \in Paths, NEW from \in Parameter, NEW to \in Parameter, NEW mode \in QueryModes
  PROVE  AskTimes(path, from, to, mode) \in Queries
<1> DEFINE q == Query(path)
<1>1. q \in Queries
  BY QueryOK
<1>2. AskTimes(path, from, to, mode) = [q EXCEPT !.from = from, !.to = to, !.mode = mode]
  BY DEF AskTimes
<1> HIDE DEF q
<1> QED
  BY <1>1, <1>2 DEF Queries

LEMMA AskScopeOK ==
  ASSUME NEW path \in Paths, NEW s, s.start \in Int, s.end \in Int, NEW mode \in QueryModes
  PROVE  AskScope(path, s, mode) \in Queries
<1>1. s.start \in Int /\ s.end - 1 \in Int /\ DayTicks \in Nat \ {0}
  BY NavigationAssumption
<1>2. First(s) \in Int /\ Last(s) \in Int
  BY <1>1, Quotient DEF First, Last
<1>3. /\ s.start \in Parameter /\ s.end \in Parameter /\ First(s) \in Parameter /\ Last(s) \in Parameter
  BY <1>2 DEF Parameter
<1> QED
  BY <1>3, AskDatesOK, AskTimesOK DEF AskScope

LEMMA MondaysAre ==
  ASSUME NavigationInv, dataWeeks # {}
  PROVE  ResolveWindow \in Int
<1>1. dataWeeks \subseteq Int /\ IsFiniteSet(dataWeeks)
  BY NavigationAssumption DEF NavigationInv
<1> DEFINE past == {w \in dataWeeks : w < MondayOf(date)}
           some == IF past = {} THEN dataWeeks ELSE past
<1>2. past \subseteq Int /\ IsFiniteSet(past)
  BY <1>1, FS_Subset
<1>3. some \in SUBSET Int /\ IsFiniteSet(some) /\ some # {}
  BY <1>1, <1>2
<1>4. LatestCompleteWeek(dataWeeks) = Max(some)
  BY DEF LatestCompleteWeek
<1> HIDE DEF some
<1>5. Max(some) \in Int
  BY <1>3, MaxIs
<1> QED
  BY <1>1, <1>4, <1>5 DEF ResolveWindow

Asked(q) ==
  /\ q.first \in Parameter /\ q.last \in Parameter /\ q.from \in Parameter /\ q.to \in Parameter
  /\ q.week \in Parameter /\ q.day \in Parameter

(* Whatever window is resolved, it is not empty.                               *)
LEMMA ResolveOK ==
  ASSUME NavigationInv, NEW q, Asked(q), NEW default
  PROVE  Resolve(q, default) \subseteq Span
<1> DEFINE Ordered(first, last) ==
             IF NoDate \notin {first, last} /\ first <= last THEN {Dates(first, last)} ELSE {}
<1>1. date \in Int
  BY NavigationAssumption DEF NavigationInv
<1>2. /\ q.first \in Parameter /\ q.last \in Parameter /\ q.from \in Parameter /\ q.to \in Parameter
      /\ q.week \in Parameter /\ q.day \in Parameter
  BY DEF Asked
<1>3. \A first, last \in Parameter : Ordered(first, last) \subseteq Span
  BY DatesOK DEF Parameter
<1>4. NoDate \notin {q.from, q.to} /\ q.from < q.to => {Scope(q.from, q.to, TRUE)} \subseteq Span
  <2> SUFFICES ASSUME NoDate \notin {q.from, q.to}, q.from < q.to PROVE Scope(q.from, q.to, TRUE) \in Span
    OBVIOUS
  <2>1. q.from \in Int /\ q.to \in Int
    BY <1>2 DEF Parameter
  <2> QED
    BY <2>1 DEF Scope, Span
<1>5. q.week # NoDate => WeekOf(q.week) \in Span
  BY <1>2, WeekOfOK DEF Parameter
<1>6. ResolveWeekWindow \subseteq Span
  BY MondaysAre, WeekOfOK DEF ResolveWeekWindow
<1>7. Rolling(date, 7) \in Span /\ SprintOf(date) \in Span
  BY <1>1, RollingOK, SprintOfOK
<1> HIDE DEF Ordered
<1>8. CASE {q.from, q.to} # {NoDate}
  <2>1. Resolve(q, default) =
          IF NoDate \notin {q.from, q.to} /\ {q.first, q.last, q.week, q.day} = {NoDate} /\ q.from < q.to
          THEN {Scope(q.from, q.to, TRUE)} ELSE {}
    BY <1>8 DEF Resolve
  <2> QED
    BY <1>4, <2>1
<1>9. CASE {q.from, q.to} = {NoDate} /\ q.day # NoDate
  <2>1. Resolve(q, default) = Ordered(q.day, q.day)
    BY <1>9 DEF Resolve, Ordered
  <2> QED
    BY <1>2, <1>3, <2>1
<1>10. CASE {q.from, q.to} = {NoDate} /\ q.day = NoDate /\ {q.first, q.last} # {NoDate}
  <2>1. Resolve(q, default) = Ordered(q.first, q.last)
    BY <1>10 DEF Resolve, Ordered
  <2> QED
    BY <1>2, <1>3, <2>1
<1>11. CASE {q.from, q.to} = {NoDate} /\ q.day = NoDate /\ {q.first, q.last} = {NoDate}
  BY <1>5, <1>6, <1>7, <1>11 DEF Resolve
<1> QED
  BY <1>8, <1>9, <1>10, <1>11

(* A page of links of two groups.                                              *)
LEMMA PageOf2OK ==
  ASSUME NEW path, NEW s, s = Always \/ s \in Span, NEW mode \in Modes, NEW presets, NEW others,
         \A rel \in Rels : rel \in DOMAIN presets => presets[rel] \subseteq Queries,
         \A rel \in Rels : rel \in DOMAIN others => others[rel] \subseteq Queries
  PROVE  PageOK(Page(path, s, mode, presets, others)) /\ Page(path, s, mode, presets, others).path = path
<1> DEFINE p == Page(path, s, mode, presets, others)
<1>1. p.path = path /\ p.scope = s /\ p.mode = mode
  BY DEF Page
<1>2. \A rel \in Rels : p.links[rel] = IF rel \in DOMAIN presets THEN presets[rel]
                                       ELSE IF rel \in DOMAIN others THEN others[rel] ELSE {}
  BY DEF Page
<1> HIDE DEF p
<1>3. PageOK(p)
  BY <1>1, <1>2 DEF PageOK
<1> QED
  BY <1>1, <1>3 DEF p

LEMMA AnswerOK == \A path, s : s = Always \/ s \in Span => PageOK(AnswerOf(path, s))
<1> TAKE path, s
<1>1. \A rel \in Rels : rel \notin DOMAIN <<>>
  BY DEF Rels
<1>2. "" \in Modes
  BY DEF Modes
<1> QED
  BY <1>1, <1>2, PageOf2OK DEF AnswerOf

LEMMA ModesAre ==
  /\ \A s : InferredMode(s) \in Modes
  /\ \A mode : ModeValue(mode) \in QueryModes /\ (ModeValue(mode) # "" => mode \in {"rolling", "sprint"})
  /\ \A mode \in {"", "rolling", "sprint", "weekly"} : mode \in QueryModes
  /\ \A mode \in {"rolling", "sprint", "weekly", "day", "custom"} : mode \in Modes
<1>1. \A s : InferredMode(s) \in Modes
  BY DEF InferredMode, Modes
<1> QED
  BY <1>1 DEF ModeValue, Modes, QueryModes

LEMMA PathsAre ==
  {"/", "report", "patterns", "global", "run-log", "trends", "api/trends", "api/patterns", "api/run-log"} \subseteq Paths
BY DEF Paths

LEMMA ShiftIs ==
  ASSUME NEW s \in Span, NEW mode
  PROVE  Shift(mode, s) \in Int
<1>1. s.start \in Int /\ s.end \in Int /\ First(s) \in Int /\ Last(s) \in Int
  BY SpanDates DEF Span
<1>2. SpanDays(s) \in Int
  BY <1>1 DEF SpanDays
<1>3. SpanDays(s) * DayTicks \in Int /\ 7 * DayTicks \in Int /\ SprintDays * DayTicks \in Int /\ DayTicks \in Int
  BY <1>2, TicksAre DEF SprintDays
<1> QED
  BY <1>1, <1>3 DEF Shift

LEMMA ShiftedOK ==
  ASSUME NEW path \in Paths, NEW s \in Span, NEW mode, NEW by \in Int
  PROVE  Shifted(path, s, mode, by) \subseteq Queries
<1> DEFINE target == Scope(s.start + by, s.end + by, s.exact)
           link == AskScope(path, target, ModeValue(mode))
<1>1. target.start \in Int /\ target.end \in Int
  BY DEF Scope, Span
<1> HIDE DEF target
<1>2. link \in Queries
  BY <1>1, ModesAre, AskScopeOK
<1> HIDE DEF link
<1>3. Validated(target, link) \subseteq {link}
  BY DEF Validated
<1>4. Shifted(path, s, mode, by) \subseteq Validated(target, link)
  BY DEF Shifted, target, link
<1> QED
  BY <1>2, <1>3, <1>4

(* Links to a window of a page.                                                *)
LEMMA AskSpanOK == \A path \in Paths, s \in Span, mode \in QueryModes : AskScope(path, s, mode) \in Queries
BY AskScopeOK DEF Span

LEMMA TodayIs == NavigationInv => date \in Int /\ Rolling(date, 7) \in Span
BY NavigationAssumption, RollingOK DEF NavigationInv

(* The presets of a time selector.                                             *)
LEMMA PresetsOK ==
  ASSUME NEW path \in Paths, NEW d \in Int
  PROVE  /\ \A mode \in QueryModes : /\ AskScope(path, WeekOf(d), mode) \in Queries
                                     /\ AskScope(path, SprintOf(d), mode) \in Queries
                                     /\ AskScope(path, Rolling(d, 7), mode) \in Queries
                                     /\ AskScope(path, Dates(d, d), mode) \in Queries
BY WeekOfOK, SprintOfOK, RollingOK, DatesOK, AskSpanOK

LEMMA ReportOK ==
  ASSUME NavigationInv, NEW q \in Queries, NEW p \in ReportPage(q)
  PROVE  PageOK(p)
<1> DEFINE asked == [q EXCEPT !.from = NoDate, !.to = NoDate, !.day = NoDate]
           mode(s) == IF ModeValue(q.mode) = "" THEN InferredMode(s) ELSE q.mode
           others(s) == [previous |-> Shifted("report", s, mode(s), -Shift(mode(s), s)),
                         next |-> Shifted("report", s, mode(s), Shift(mode(s), s)),
                         patterns |-> {AskScope("patterns", s, ModeValue(mode(s)))}]
<1>1. PICK s \in ReportWindow(q) : p = Page("report", s, mode(s), ReportPresets(s), others(s))
  BY DEF ReportPage
<1> HIDE DEF mode
<1>2. Asked(asked)
  BY DEF Asked, Queries, Parameter
<1>3. s \in Span
  <2> HIDE DEF asked
  <2>1. \A default : Resolve(asked, default) \subseteq Span
    BY <1>2, ResolveOK
  <2> QED
    BY <2>1 DEF ReportWindow, asked
<1>4. Last(s) \in Int /\ Shift(mode(s), s) \in Int /\ -Shift(mode(s), s) \in Int
  <2>1. Last(s) \in Int
    BY <1>3, SpanDates
  <2>2. Shift(mode(s), s) \in Int
    BY <1>3, ShiftIs
  <2> QED
    BY <2>1, <2>2
<1>5. mode(s) \in Modes /\ ModeValue(mode(s)) \in QueryModes
  <2>1. InferredMode(s) \in Modes /\ ModeValue(mode(s)) \in QueryModes
    BY ModesAre
  <2>2. ModeValue(q.mode) # "" => q.mode \in Modes
    BY DEF ModeValue, Modes
  <2> QED
    BY <2>1, <2>2 DEF mode
<1>6. \A rel \in Rels : rel \in DOMAIN ReportPresets(s) => ReportPresets(s)[rel] \subseteq Queries
  <2>1. LandingQuery \in Queries
    BY TodayIs, AskSpanOK, PathsAre, ModesAre DEF LandingQuery
  <2>2. AskScope("report", WeekOf(Last(s)), "") \in Queries /\ AskScope("report", SprintOf(Last(s)), "sprint") \in Queries
    BY <1>4, PresetsOK, PathsAre, ModesAre
  <2>3. DOMAIN ReportPresets(s) = {"rolling", "weekly", "sprint"}
    BY DEF ReportPresets
  <2>4. /\ ReportPresets(s).rolling \subseteq Queries /\ ReportPresets(s).weekly \subseteq Queries
        /\ ReportPresets(s).sprint \subseteq Queries
    BY <2>1, <2>2 DEF ReportPresets
  <2> QED
    BY <2>3, <2>4
<1>7. \A rel \in Rels : rel \in DOMAIN others(s) => others(s)[rel] \subseteq Queries
  <2>1. /\ Shifted("report", s, mode(s), -Shift(mode(s), s)) \subseteq Queries
        /\ Shifted("report", s, mode(s), Shift(mode(s), s)) \subseteq Queries
    BY <1>3, <1>4, ShiftedOK, PathsAre
  <2>2. AskScope("patterns", s, ModeValue(mode(s))) \in Queries
    BY <1>3, <1>5, AskSpanOK, PathsAre
  <2> QED
    BY <2>1, <2>2
<1> HIDE DEF others
<1> QED
  BY <1>1, <1>3, <1>5, <1>6, <1>7, PageOf2OK

LEMMA PatternsOK ==
  ASSUME NavigationInv, NEW q \in Queries, NEW p \in PatternsPage(q)
  PROVE  PageOK(p)
<1> DEFINE asked == [q EXCEPT !.day = NoDate]
           mode(s) == PatternsMode(q, s)
           others(s) == [previous |-> Shifted("patterns", s, mode(s), -Shift(mode(s), s)),
                         next |-> Shifted("patterns", s, mode(s), Shift(mode(s), s)),
                         api |-> {AskScope("api/patterns", s, "")},
                         apply |-> {AskTimes("patterns", s.start, s.end, "")}]
<1>1. PICK s \in PatternsWindow(q) : p = Page("patterns", s, mode(s), PatternsPresets(s), others(s))
  BY DEF PatternsPage
<1> HIDE DEF mode
<1>2. Asked(asked)
  BY DEF Asked, Queries, Parameter
<1>3. s \in Span
  <2> HIDE DEF asked
  <2>1. \A default : Resolve(asked, default) \subseteq Span
    BY <1>2, ResolveOK
  <2> QED
    BY <2>1 DEF PatternsWindow, asked
<1>4. Last(s) \in Int /\ Shift(mode(s), s) \in Int /\ -Shift(mode(s), s) \in Int
  <2>1. Last(s) \in Int
    BY <1>3, SpanDates
  <2>2. Shift(mode(s), s) \in Int
    BY <1>3, ShiftIs
  <2> QED
    BY <2>1, <2>2
<1>5. mode(s) \in Modes
  <2>1. InferredMode(s) \in Modes /\ "rolling" \in Modes
    BY ModesAre DEF Modes
  <2>2. ModeValue(q.mode) # "" => q.mode \in Modes
    BY DEF ModeValue, Modes
  <2> QED
    BY <2>1, <2>2 DEF PatternsMode, mode
<1>6. \A rel \in Rels : rel \in DOMAIN PatternsPresets(s) => PatternsPresets(s)[rel] \subseteq Queries
  <2>1. /\ AskScope("patterns", Rolling(Last(s), 7), "rolling") \in Queries
        /\ AskScope("patterns", WeekOf(Last(s)), "") \in Queries
        /\ AskScope("patterns", SprintOf(Last(s)), "sprint") \in Queries
        /\ AskScope("patterns", Dates(Last(s), Last(s)), "") \in Queries
    BY <1>4, PresetsOK, PathsAre, ModesAre
  <2>2. DOMAIN PatternsPresets(s) = {"rolling", "weekly", "sprint", "day"}
    BY DEF PatternsPresets
  <2>3. /\ PatternsPresets(s).rolling \subseteq Queries /\ PatternsPresets(s).weekly \subseteq Queries
        /\ PatternsPresets(s).sprint \subseteq Queries /\ PatternsPresets(s).day \subseteq Queries
    BY <2>1 DEF PatternsPresets
  <2> QED
    BY <2>2, <2>3
<1>7. \A rel \in Rels : rel \in DOMAIN others(s) => others(s)[rel] \subseteq Queries
  <2>1. /\ Shifted("patterns", s, mode(s), -Shift(mode(s), s)) \subseteq Queries
        /\ Shifted("patterns", s, mode(s), Shift(mode(s), s)) \subseteq Queries
    BY <1>3, <1>4, ShiftedOK, PathsAre
  <2>2. AskScope("api/patterns", s, "") \in Queries
    BY <1>3, AskSpanOK, PathsAre, ModesAre
  <2>3. s.start \in Parameter /\ s.end \in Parameter
    BY <1>3 DEF Span, Parameter
  <2>4. AskTimes("patterns", s.start, s.end, "") \in Queries
    BY <2>3, AskTimesOK, PathsAre, ModesAre
  <2>5. DOMAIN others(s) = {"previous", "next", "api", "apply"}
    OBVIOUS
  <2>6. /\ others(s).previous \subseteq Queries /\ others(s).next \subseteq Queries
        /\ others(s).api \subseteq Queries /\ others(s).apply \subseteq Queries
    BY <2>1, <2>2, <2>4
  <2> HIDE DEF others
  <2> QED
    BY <2>5, <2>6
<1> HIDE DEF others
<1> QED
  BY <1>1, <1>3, <1>5, <1>6, <1>7, PageOf2OK

LEMMA AskDayOK == \A path \in Paths, d \in Int : AskDay(path, d) \in Queries
<1> TAKE path \in Paths, d \in Int
<1> DEFINE q == Query(path)
<1>1. q \in Queries /\ d \in Parameter
  BY QueryOK DEF Parameter
<1>2. AskDay(path, d) = [q EXCEPT !.day = d]
  BY DEF AskDay
<1> HIDE DEF q
<1> QED
  BY <1>1, <1>2 DEF Queries

LEMMA RunLogDaysOK ==
  ASSUME NavigationInv, NEW q \in Queries, NEW d \in RunLogDays(q)
  PROVE  d \in Int
<1> DEFINE asked == [Query("") EXCEPT !.week = q.week]
<1>1. Asked(asked)
  BY DEF Asked, Query, Queries, Parameter
<1> HIDE DEF asked
<1>2. \A s \in Resolve(asked, "") : BegunDate(Last(s)) \in Int
  <2> TAKE s \in Resolve(asked, "")
  <2>1. Last(s) \in Int /\ date \in Int
    BY <1>1, ResolveOK, SpanDates, TodayIs
  <2>2. {Last(s), date} \in SUBSET Int /\ {Last(s), date} # {} /\ IsFiniteSet({Last(s), date})
    <3>1. IsFiniteSet({Last(s)})
      BY FS_Singleton
    <3>2. IsFiniteSet({Last(s)} \cup {date}) /\ {Last(s)} \cup {date} = {Last(s), date}
      BY <3>1, FS_AddElement
    <3> QED
      BY <2>1, <3>2
  <2> QED
    BY <2>2, MinIs DEF BegunDate
<1>3. date \in Int
  BY TodayIs
<1>4. q.day # NoDate => q.day \in Int
  BY DEF Queries, Parameter
<1> QED
  BY <1>2, <1>3, <1>4 DEF RunLogDays, asked

LEMMA RunLogOK ==
  ASSUME NavigationInv, NEW q \in Queries, NEW p \in RunLogPage(q)
  PROVE  PageOK(p)
<1> DEFINE others(d) == [previous |-> ShiftedRunLog(d - 1), next |-> ShiftedRunLog(d + 1),
                         patterns |-> {AskDates("patterns", d, d, "")}, api |-> {AskDay("api/run-log", d)}]
<1>1. PICK d \in RunLogDays(q) : p = Page("run-log", Dates(d, d), "day", <<>>, others(d))
  BY DEF RunLogPage
<1>3. d \in Int
  BY RunLogDaysOK
<1>4. Dates(d, d) \in Span /\ "day" \in Modes
  BY <1>3, DatesOK DEF Modes
<1>5. \A rel \in Rels : rel \in DOMAIN others(d) => others(d)[rel] \subseteq Queries
  <2>1. \A n \in Int : ShiftedRunLog(n) \subseteq Queries
    BY AskDayOK, PathsAre DEF ShiftedRunLog
  <2>2. d - 1 \in Int /\ d + 1 \in Int
    BY <1>3
  <2>3. d \in Parameter
    BY <1>3 DEF Parameter
  <2>4. AskDates("patterns", d, d, "") \in Queries /\ AskDay("api/run-log", d) \in Queries
    BY <1>3, <2>3, AskDatesOK, AskDayOK, PathsAre, ModesAre
  <2>5. DOMAIN others(d) = {"previous", "next", "patterns", "api"}
    OBVIOUS
  <2>6. /\ others(d).previous \subseteq Queries /\ others(d).next \subseteq Queries
        /\ others(d).patterns \subseteq Queries /\ others(d).api \subseteq Queries
    BY <2>1, <2>2, <2>4
  <2> HIDE DEF others
  <2> QED
    BY <2>5, <2>6
<1>6. \A rel \in Rels : rel \notin DOMAIN <<>>
  BY DEF Rels
<1> HIDE DEF others
<1> QED
  BY <1>1, <1>4, <1>5, <1>6, PageOf2OK

(* The scopes of the trends.                                                   *)
LEMMA TrendsScopesOK ==
  ASSUME NavigationInv, NEW q, Asked(q), NEW days \in DaysBack(q), NEW s \in TrendsScopes(q, days)
  PROVE  s = Always \/ s \in Span
<1>1. date \in Int
  BY TodayIs
<1>2. CASE q.mode \in {"relative", "rolling"}
  <2>1. days \in Nat \ {0}
    <3>1. RelativeDays \subseteq Nat \ {0}
      BY NavigationAssumption
    <3>2. CASE q.mode = "relative"
      BY <3>1, <3>2 DEF DaysBack
    <3>3. CASE q.mode = "rolling"
      BY <3>3 DEF DaysBack
    <3> QED
      BY <1>2, <3>2, <3>3
  <2>2. TrendsScopes(q, days) = {Rolling(date, days)}
    BY <1>2 DEF TrendsScopes
  <2> QED
    BY <1>1, <2>1, <2>2, RollingOK
<1>3. CASE q.mode = "weekly"
  <2>1. TrendsScopes(q, days) = {WeekOf(date)}
    BY <1>3 DEF TrendsScopes
  <2> QED
    BY <1>1, <2>1, WeekOfOK
<1>4. CASE q.mode = "sprint"
  <2>1. TrendsScopes(q, days) = {SprintOf(date)}
    BY <1>4 DEF TrendsScopes
  <2> QED
    BY <1>1, <2>1, SprintOfOK
<1>5. CASE q.mode = "all"
  BY <1>5 DEF TrendsScopes
<1>6. CASE q.mode \notin {"relative", "rolling", "weekly", "sprint", "all"}
  <2> DEFINE asked == AskDates("", q.first, q.last, "")
  <2>1. TrendsScopes(q, days) = Resolve(asked, "")
    BY <1>6 DEF TrendsScopes
  <2>2. Asked(asked)
    BY DEF Asked, AskDates, Query, Parameter
  <2> HIDE DEF asked
  <2>3. Resolve(asked, "") \subseteq Span
    BY <2>2, ResolveOK
  <2> QED
    BY <2>1, <2>3
<1> QED
  BY <1>2, <1>3, <1>4, <1>5, <1>6

LEMMA AskTrendsOK ==
  ASSUME NEW path \in Paths, NEW mode \in QueryModes, NEW first \in Parameter, NEW last \in Parameter,
         NEW days \in Int
  PROVE  AskTrends(path, mode, first, last, days) \in Queries
<1> DEFINE q == AskDates(path, first, last, mode)
<1>1. q \in Queries
  BY AskDatesOK
<1>2. AskTrends(path, mode, first, last, days) = [q EXCEPT !.days = days]
  BY DEF AskTrends
<1> HIDE DEF q
<1> QED
  BY <1>1, <1>2 DEF Queries

LEMMA WithDefaultsOK == \A q \in Queries : WithDefaults(q) \in Queries /\ Asked(WithDefaults(q))
<1> TAKE q \in Queries
<1> DEFINE r == [q EXCEPT !.mode = "relative", !.days = 30]
<1>1. r \in Queries
  <2>1. "relative" \in QueryModes /\ 30 \in Int
    BY DEF QueryModes
  <2> QED
    BY <2>1 DEF Queries
<1> HIDE DEF r
<1>2. WithDefaults(q) \in Queries
  BY <1>1 DEF WithDefaults, r
<1>3. \A x \in Queries : Asked(x)
  BY DEF Queries, Asked
<1> QED
  BY <1>2, <1>3

LEMMA ShiftedTrendsOK ==
  ASSUME NEW s \in Span, NEW mode, NEW by \in Int
  PROVE  ShiftedTrends(s, mode, by) \subseteq Queries
<1> DEFINE target == Scope(s.start + by, s.end + by, FALSE)
<1>1. target.start \in Int /\ target.end \in Int
  BY DEF Scope, Span
<1> HIDE DEF target
<1>2. AskScope("trends", target, "") \in Queries
  BY <1>1, AskScopeOK, PathsAre, ModesAre
<1> QED
  BY <1>2 DEF ShiftedTrends, target

LEMMA TrendsPresetsOK ==
  ASSUME NavigationInv, NEW s, s = Always \/ s \in Span
  PROVE  \A rel \in Rels : rel \in DOMAIN TrendsPresets(s) => TrendsPresets(s)[rel] \subseteq Queries
<1>1. TrendsAnchor(s) \in Int
  BY TodayIs, SpanDates DEF TrendsAnchor
<1>2. RelativeLinks \subseteq Queries
  <2>1. "relative" \in QueryModes /\ NoDate \in Parameter /\ RelativeDays \subseteq Int
    BY NavigationAssumption DEF QueryModes, Parameter
  <2> QED
    BY <2>1, AskTrendsOK, PathsAre DEF RelativeLinks
<1>3. /\ AskScope("trends", WeekOf(TrendsAnchor(s)), "") \in Queries
      /\ AskScope("trends", SprintOf(TrendsAnchor(s)), "") \in Queries
  BY <1>1, PresetsOK, PathsAre, ModesAre
<1>4. DOMAIN TrendsPresets(s) = {"rolling", "weekly", "sprint"}
  BY DEF TrendsPresets
<1>5. /\ TrendsPresets(s).rolling \subseteq Queries /\ TrendsPresets(s).weekly \subseteq Queries
      /\ TrendsPresets(s).sprint \subseteq Queries
  BY <1>2, <1>3 DEF TrendsPresets
<1> QED
  BY <1>4, <1>5

LEMMA TrendsOK ==
  ASSUME NavigationInv, NEW asked \in Queries, NEW p \in TrendsPage(asked)
  PROVE  PageOK(p)
<1> DEFINE q == WithDefaults(asked)
           api == {AskTrends("api/trends", q.mode, q.first, q.last, q.days)}
           mode(s) == TrendsMode(q, s)
           others(s) == IF s = Always THEN [api |-> api]
                        ELSE [previous |-> ShiftedTrends(s, mode(s), -Shift(mode(s), s)),
                              next |-> ShiftedTrends(s, mode(s), Shift(mode(s), s)),
                              api |-> api, apply |-> {AskDates("trends", First(s), Last(s), "")}]
<1>1. PICK days \in DaysBack(q) : \E s \in TrendsScopes(q, days) :
        p = Page("trends", s, mode(s), TrendsPresets(s), others(s))
  BY DEF TrendsPage
<1>2. PICK s \in TrendsScopes(q, days) : p = Page("trends", s, mode(s), TrendsPresets(s), others(s))
  BY <1>1
<1>3. q \in Queries /\ Asked(q)
  BY WithDefaultsOK
<1>4. api \subseteq Queries
  <2> HIDE DEF q
  <2>1. q.mode \in QueryModes /\ q.first \in Parameter /\ q.last \in Parameter /\ q.days \in Int
    BY <1>3 DEF Queries
  <2> QED
    BY <2>1, AskTrendsOK, PathsAre
<1> HIDE DEF q, api, mode
<1>5. s = Always \/ s \in Span
  BY <1>3, TrendsScopesOK
<1>6. mode(s) \in Modes
  <2>1. InferredMode(s) \in Modes
    BY ModesAre
  <2> QED
    BY <2>1 DEF mode, TrendsMode, Modes
<1>7. \A rel \in Rels : rel \in DOMAIN TrendsPresets(s) => TrendsPresets(s)[rel] \subseteq Queries
  BY <1>5, TrendsPresetsOK
<1>8. \A rel \in Rels : rel \in DOMAIN others(s) => others(s)[rel] \subseteq Queries
  <2>1. CASE s = Always
    <3>1. DOMAIN others(s) = {"api"} /\ others(s).api = api
      BY <2>1
    <3> HIDE DEF others
    <3> QED
      BY <1>4, <3>1
  <2>2. CASE s # Always
    <3>1. s \in Span
      BY <1>5, <2>2
    <3>2. Shift(mode(s), s) \in Int
      BY <3>1, ShiftIs
    <3>3. -Shift(mode(s), s) \in Int
      BY <3>2
    <3>4. /\ ShiftedTrends(s, mode(s), -Shift(mode(s), s)) \subseteq Queries
          /\ ShiftedTrends(s, mode(s), Shift(mode(s), s)) \subseteq Queries
      BY <3>1, <3>2, <3>3, ShiftedTrendsOK
    <3>5. First(s) \in Parameter /\ Last(s) \in Parameter
      BY <3>1, SpanDates DEF Parameter
    <3>6. AskDates("trends", First(s), Last(s), "") \in Queries
      BY <3>5, AskDatesOK, PathsAre, ModesAre
    <3>7. DOMAIN others(s) = {"previous", "next", "api", "apply"}
      BY <2>2
    <3>8. /\ others(s).previous \subseteq Queries /\ others(s).next \subseteq Queries
          /\ others(s).api \subseteq Queries /\ others(s).apply \subseteq Queries
      BY <1>4, <2>2, <3>4, <3>6
    <3> HIDE DEF others
    <3> QED
      BY <3>7, <3>8
  <2> QED
    BY <2>1, <2>2
<1> HIDE DEF others
<1> QED
  BY <1>2, <1>5, <1>6, <1>7, <1>8, PageOf2OK

(* Whatever is asked for, the answer is a page with links to pages.            *)
LEMMA ServeOK ==
  ASSUME NavigationInv, NEW q \in Queries, NEW p \in Serve(q)
  PROVE  PageOK(p)
<1>1. CASE q.path = "/"
  <2>1. LandingQuery \in Queries
    BY TodayIs, AskSpanOK, PathsAre, ModesAre DEF LandingQuery
  <2> QED
    BY <1>1, <2>1, ReportOK DEF Serve
<1>2. CASE q.path = "report"
  BY <1>2, ReportOK DEF Serve
<1>3. CASE q.path = "patterns"
  BY <1>3, PatternsOK DEF Serve
<1>4. CASE q.path = "global"
  <2> DEFINE r == Query("patterns")
             g == [r EXCEPT !.week = q.week]
  <2>1. r \in Queries /\ q.week \in Parameter
    BY QueryOK, PathsAre DEF Queries
  <2>2. p \in PatternsPage(g)
    BY <1>4 DEF Serve
  <2> HIDE DEF r
  <2>3. g \in Queries
    BY <2>1 DEF Queries
  <2> HIDE DEF g
  <2> QED
    BY <2>2, <2>3, PatternsOK
<1>5. CASE q.path = "run-log"
  BY <1>5, RunLogOK DEF Serve
<1>6. CASE q.path \in {"trends", "api/trends"}
  BY <1>6, TrendsOK DEF Serve
<1>7. CASE q.path \in {"api/patterns", "api/run-log"}
  <2>1. Asked(q)
    BY DEF Asked, Queries
  <2>2. \A default : Resolve(q, default) \subseteq Span
    BY <2>1, ResolveOK
  <2>3. \E s \in Span : p = AnswerOf(q.path, s)
    BY <1>7, <2>2 DEF Serve
  <2> QED
    BY <2>3, AnswerOK
<1> QED
  <2>1. q.path \in Paths
    BY DEF Queries
  <2> QED
    BY <1>1, <1>2, <1>3, <1>4, <1>5, <1>6, <1>7, <2>1 DEF Paths

LEMMA InitNavigation == NavigationInit => NavigationInv
<1> SUFFICES ASSUME NavigationInit PROVE NavigationInv
  OBVIOUS
<1>1. date \in FirstToday..LastToday
  BY NavigationAssumption DEF NavigationInit
<1>2. IsFiniteSet(dataWeeks) /\ dataWeeks \subseteq Weeks
  BY FS_EmptySet DEF NavigationInit
<1>3. PageOK(page)
  BY AnswerOK DEF NavigationInit, NoPage
<1> QED
  BY <1>1, <1>2, <1>3 DEF NavigationInv

LEMMA OpenKeeps ==
  ASSUME NavigationInv, NEW q \in Queries, Open(q)
  PROVE  NavigationInv'
<1>1. PageOK(page')
  BY ServeOK DEF Open
<1>2. PageOK(page)'
  BY <1>1 DEF PageOK
<1> QED
  BY <1>2 DEF NavigationInv, Open

LEMMA NavigationStep == NavigationInv /\ [NavigationNext]_navvars => NavigationInv'
<1> SUFFICES ASSUME NavigationInv, [NavigationNext]_navvars PROVE NavigationInv'
  OBVIOUS
<1>1. CASE Tomorrow
  <2>1. date' \in FirstToday..LastToday
    BY <1>1, NavigationAssumption DEF Tomorrow, NavigationInv
  <2> QED
    BY <1>1, <2>1 DEF Tomorrow, NavigationInv, PageOK
<1>2. ASSUME NEW week \in Weeks, DataArrives(week) PROVE NavigationInv'
  <2>1. IsFiniteSet(dataWeeks')
    BY <1>2, FS_AddElement DEF DataArrives, NavigationInv
  <2>2. dataWeeks' \subseteq Weeks
    BY <1>2 DEF DataArrives, NavigationInv
  <2> QED
    BY <1>2, <2>1, <2>2 DEF DataArrives, NavigationInv, PageOK
<1>3. CASE Visit
  <2>1. Entries \subseteq Queries
    BY NavigationAssumption
  <2> QED
    BY <1>3, <2>1, OpenKeeps DEF Visit
<1>4. CASE Follow
  <2>1. \A rel \in Rels : page.links[rel] \subseteq Queries
    BY DEF NavigationInv, PageOK
  <2> QED
    BY <1>4, <2>1, OpenKeeps DEF Follow
<1>5. CASE UNCHANGED navvars
  BY <1>5 DEF navvars, NavigationInv, PageOK
<1> QED
  BY <1>1, <1>2, <1>3, <1>4, <1>5 DEF NavigationNext

LEMMA NavigationTyped == NavigationInv => NavigationTypeOK
<1> SUFFICES ASSUME NavigationInv PROVE NavigationTypeOK
  OBVIOUS
<1>1. page.scope = Always \/ page.scope.start < page.scope.end
  BY DEF NavigationInv, PageOK, Span
<1> QED
  BY <1>1 DEF NavigationInv, PageOK, Modes, NavigationTypeOK

(* On every page that is reached by its links, days after it was rendered,     *)
(* too, the window is not empty or everything there is, and the mode is one of *)
(* the time selector's.                                                        *)
THEOREM NavigationTypesCorrect == NavigationSpec => []NavigationTypeOK
BY InitNavigation, NavigationStep, NavigationTyped, PTL DEF NavigationSpec

-----------------------------------------------------------------------------
(* Windows of whole days, and which kind they are of.                          *)

Exact(s) == s \in Span /\ s.exact
Dated(s) == \E first, last \in Int : first <= last /\ s = Dates(first, last)

LEMMA DivisionIs ==
  ASSUME NEW s \in Nat \ {0}, NEW a \in Int, NEW k \in Int, s * k <= a, a < s * k + s
  PROVE  a \div s = k
<1>1. a \div s \in Int /\ s * (a \div s) \in Int /\ s * (a \div s) <= a /\ a < s * (a \div s) + s
  BY Quotient
<1>2. a \div s < k => s * (a \div s) + s <= s * k
  BY <1>1, TimesGrow
<1>3. k < a \div s => s * k + s <= s * (a \div s)
  BY <1>1, TimesGrow
<1>4. s * k \in Int
  BY TimesGrow, k < k + 1
<1> QED
  BY <1>1, <1>2, <1>3, <1>4

LEMMA Tick == DayTicks \in Nat \ {0} /\ \A m \in Int : m * DayTicks = DayTicks * m /\ DayTicks * m \in Int
<1>1. DayTicks \in Nat \ {0}
  BY NavigationAssumption
<1> QED
  BY <1>1

LEMMA DatesAre ==
  ASSUME NEW first \in Int, NEW last \in Int
  PROVE  /\ Dates(first, last).start = DayTicks * first /\ Dates(first, last).end = DayTicks * (last + 1)
         /\ ~Dates(first, last).exact
         /\ First(Dates(first, last)) = first /\ Last(Dates(first, last)) = last
         /\ SpanDays(Dates(first, last)) = last - first + 1
<1>1. /\ Dates(first, last).start = DayTicks * first /\ Dates(first, last).end = DayTicks * (last + 1)
      /\ ~Dates(first, last).exact
  BY Tick DEF Dates, Scope
<1>2. DayTicks * first \in Int /\ DayTicks * last \in Int /\ DayTicks * (last + 1) = DayTicks * last + DayTicks
  BY Tick
<1>3. DayTicks * first < DayTicks * first + DayTicks
  BY <1>2, Tick
<1>4. First(Dates(first, last)) = first
  BY <1>1, <1>2, <1>3, DivisionIs, Tick DEF First
<1>5. /\ DayTicks * (last + 1) - 1 \in Int /\ DayTicks * last <= DayTicks * (last + 1) - 1
      /\ DayTicks * (last + 1) - 1 < DayTicks * last + DayTicks
  BY <1>2, Tick
<1>6. Last(Dates(first, last)) = last
  BY <1>1, <1>5, DivisionIs, Tick DEF Last
<1> QED
  BY <1>1, <1>4, <1>6 DEF SpanDays

LEMMA SameTicks == \A m, n \in Int : (DayTicks * m = DayTicks * n <=> m = n) /\ (m * DayTicks = n * DayTicks <=> m = n)
<1> TAKE m, n \in Int
<1>1. m < n => DayTicks * m + DayTicks <= DayTicks * n /\ DayTicks * m \in Int /\ DayTicks * n \in Int
  BY TimesGrow, Tick
<1>2. n < m => DayTicks * n + DayTicks <= DayTicks * m /\ DayTicks * m \in Int /\ DayTicks * n \in Int
  BY TimesGrow, Tick
<1>3. DayTicks * m = DayTicks * n => m = n
  BY <1>1, <1>2, Tick
<1>4. m * DayTicks = DayTicks * m /\ n * DayTicks = DayTicks * n
  BY Tick
<1> QED
  BY <1>3, <1>4

LEMMA NoRest ==
  ASSUME NEW s \in Nat \ {0}, NEW a \in Int, NEW m \in Int, a = s * m
  PROVE  a % s = 0
OBVIOUS

LEMMA NoRemainder == \A m \in Int : (DayTicks * m) % DayTicks = 0
<1> TAKE m \in Int
<1>1. DayTicks * m \in Int /\ DayTicks \in Nat \ {0}
  BY Tick
<1> QED
  BY <1>1, NoRest

(* The sprint of a day by its number, which is cut off towards zero.           *)
SprintNumber(d) == IF d >= 0 THEN d \div SprintDays ELSE -((-d) \div SprintDays)

LEMMA SprintIs ==
  ASSUME NEW d \in Int
  PROVE  /\ SprintNumber(d) \in Int
         /\ SprintOf(d) = Dates(14 * SprintNumber(d), 14 * SprintNumber(d) + 13)
         /\ d >= 0 => 14 * SprintNumber(d) <= d /\ d <= 14 * SprintNumber(d) + 13
         /\ d % 14 = 0 <=> d = 14 * SprintNumber(d)
<1>1. SprintNumber(d) \in Int
  BY DEF SprintNumber, SprintDays
<1>2. /\ d >= 0 => 14 * SprintNumber(d) <= d /\ d <= 14 * SprintNumber(d) + 13
      /\ d % 14 = 0 <=> d = 14 * SprintNumber(d)
  BY DEF SprintNumber, SprintDays
<1>3. SprintOf(d) = Dates(SprintNumber(d) * SprintDays, (SprintNumber(d) + 1) * SprintDays - 1)
  BY DEF SprintOf, SprintNumber
<1> HIDE DEF SprintNumber
<1>4. SprintNumber(d) * SprintDays = 14 * SprintNumber(d) /\ (SprintNumber(d) + 1) * SprintDays - 1 = 14 * SprintNumber(d) + 13
  BY <1>1 DEF SprintDays
<1> QED
  BY <1>1, <1>2, <1>3, <1>4

(* The kinds of windows by their first and last days.                          *)
LEMMA KindsAre ==
  ASSUME NEW first \in Int, NEW last \in Int, NEW s, s = Dates(first, last)
  PROVE  /\ IsDay(s) <=> last = first
         /\ IsWeekly(s) <=> first % 7 = 0 /\ last = first + 6
         /\ IsSprint(s) <=> first % 14 = 0 /\ last = first + 13
<1>1. s.start = DayTicks * first /\ s.end = DayTicks * (last + 1) /\ First(s) = first
  BY DatesAre
<1>2. s.start % DayTicks = 0
  BY <1>1, NoRemainder
<1>3. IsDay(s) <=> last = first
  <2>1. s.start + DayTicks = DayTicks * (first + 1) /\ first + 1 \in Int /\ last + 1 \in Int
    BY <1>1, Tick
  <2>2. s.end = s.start + DayTicks <=> last + 1 = first + 1
    BY <1>1, <2>1, SameTicks
  <2> QED
    BY <1>2, <2>2 DEF IsDay
<1>4. IsWeekly(s) <=> first % 7 = 0 /\ last = first + 6
  <2>1. s.start + 7 * DayTicks = DayTicks * (first + 7) /\ first + 7 \in Int /\ last + 1 \in Int
    BY <1>1, Tick
  <2>2. s.end = s.start + 7 * DayTicks <=> last + 1 = first + 7
    BY <1>1, <2>1, SameTicks
  <2> QED
    BY <1>1, <1>2, <2>2 DEF IsWeekly, IsMonday
<1>5. IsSprint(s) <=> first % 14 = 0 /\ last = first + 13
  <2> DEFINE n == 14 * SprintNumber(first)
  <2>1. n \in Int /\ SprintOf(first) = Dates(n, n + 13) /\ (first % 14 = 0 <=> first = n)
    BY SprintIs
  <2> HIDE DEF n
  <2>2. SprintOf(first).start = DayTicks * n /\ SprintOf(first).end = DayTicks * (n + 13 + 1)
    <3> DEFINE m == n + 13
    <3>1. m \in Int /\ SprintOf(first) = Dates(n, m)
      BY <2>1
    <3> HIDE DEF m
    <3>2. SprintOf(first).start = DayTicks * n /\ SprintOf(first).end = DayTicks * (m + 1)
      BY <2>1, <3>1, DatesAre
    <3> QED
      BY <3>2 DEF m
  <2>3. s.start = SprintOf(first).start <=> first = n
    BY <1>1, <2>1, <2>2, SameTicks
  <2>4. s.end = SprintOf(first).end <=> last + 1 = n + 13 + 1
    BY <1>1, <2>1, <2>2, SameTicks
  <2> QED
    BY <1>1, <2>1, <2>3, <2>4 DEF IsSprint
<1> QED
  BY <1>3, <1>4, <1>5

LEMMA DatedIs ==
  ASSUME NEW s, Dated(s)
  PROVE  /\ First(s) \in Int /\ Last(s) \in Int /\ First(s) <= Last(s) /\ s = Dates(First(s), Last(s))
         /\ ~s.exact /\ s \in Span /\ SpanDays(s) = Last(s) - First(s) + 1
         /\ s.start = DayTicks * First(s) /\ s.end = DayTicks * (Last(s) + 1)
<1>1. PICK first \in Int, last \in Int : first <= last /\ s = Dates(first, last)
  BY DEF Dated
<1>2. /\ s.start = DayTicks * first /\ s.end = DayTicks * (last + 1) /\ ~s.exact
      /\ First(s) = first /\ Last(s) = last /\ SpanDays(s) = last - first + 1
  BY <1>1, DatesAre
<1>3. s \in Span
  BY <1>1, DatesOK
<1> QED
  BY <1>1, <1>2, <1>3

LEMMA WeekIs ==
  ASSUME NEW d \in Int
  PROVE  /\ MondayOf(d) \in Int /\ MondayOf(d) % 7 = 0 /\ MondayOf(d) <= d /\ d <= MondayOf(d) + 6
         /\ WeekOf(d) = Dates(MondayOf(d), MondayOf(d) + 6) /\ Dated(WeekOf(d)) /\ IsWeekly(WeekOf(d))
<1>1. MondayOf(d) \in Int /\ MondayOf(d) % 7 = 0 /\ MondayOf(d) <= d /\ d <= MondayOf(d) + 6
  BY DEF MondayOf
<1>2. WeekOf(d) = Dates(MondayOf(d), MondayOf(d) + 6)
  BY DEF WeekOf
<1>3. MondayOf(d) + 6 \in Int /\ MondayOf(d) <= MondayOf(d) + 6
  BY <1>1
<1> QED
  BY <1>1, <1>2, <1>3, KindsAre DEF Dated

LEMMA SprintDated ==
  ASSUME NEW d \in Int
  PROVE  Dated(SprintOf(d)) /\ IsSprint(SprintOf(d))
<1> DEFINE n == 14 * SprintNumber(d)
           m == n + 13
<1>1. n \in Int /\ n % 14 = 0 /\ SprintOf(d) = Dates(n, n + 13)
  BY SprintIs
<1> HIDE DEF n
<1>2. m \in Int /\ n <= m /\ m = n + 13
  BY <1>1
<1> HIDE DEF m
<1> QED
  BY <1>1, <1>2, KindsAre DEF Dated

LEMMA RollingDated ==
  ASSUME NEW d \in Int, NEW n \in Nat \ {0}
  PROVE  Dated(Rolling(d, n)) /\ SpanDays(Rolling(d, n)) = n
<1> DEFINE first == d + 1 - n
<1>1. first \in Int /\ first <= d /\ d - first + 1 = n
  OBVIOUS
<1> HIDE DEF first
<1>2. SpanDays(Dates(first, d)) = d - first + 1
  BY <1>1, DatesAre
<1>3. Rolling(d, n) = Dates(first, d)
  BY DEF Rolling, first
<1> QED
  BY <1>1, <1>2, <1>3 DEF Dated

LEMMA WeekRolling == \A d \in Int : Dated(Rolling(d, 7)) /\ SpanDays(Rolling(d, 7)) = 7
BY RollingDated

LEMMA DayDated == \A d \in Int : Dated(Dates(d, d)) /\ IsDay(Dates(d, d))
BY KindsAre DEF Dated

(* The kinds exclude each other.                                               *)
LEMMA InferredIs ==
  ASSUME NEW s, Dated(s)
  PROVE  /\ IsDay(s) <=> InferredMode(s) = "day"
         /\ IsSprint(s) <=> InferredMode(s) = "sprint"
         /\ IsWeekly(s) <=> InferredMode(s) = "weekly"
         /\ InferredMode(s) \in {"day", "sprint", "weekly", "custom"}
<1>1. /\ IsDay(s) <=> Last(s) = First(s)
      /\ IsWeekly(s) <=> First(s) % 7 = 0 /\ Last(s) = First(s) + 6
      /\ IsSprint(s) <=> First(s) % 14 = 0 /\ Last(s) = First(s) + 13
  BY DatedIs, KindsAre
<1>2. First(s) \in Int /\ Last(s) \in Int
  BY DatedIs
<1>3. ~(IsDay(s) /\ IsSprint(s)) /\ ~(IsDay(s) /\ IsWeekly(s)) /\ ~(IsSprint(s) /\ IsWeekly(s))
  BY <1>1, <1>2
<1> QED
  BY <1>3, Zenon DEF InferredMode

(* The windows before and after one.                                           *)
WindowBefore(s) == Dates(First(s) - SpanDays(s), First(s) - 1)
WindowAfter(s) == Dates(Last(s) + 1, Last(s) + SpanDays(s))

LEMMA BeforeIs ==
  ASSUME NEW s, Dated(s)
  PROVE  /\ Dated(WindowBefore(s)) /\ WindowBefore(s).end = s.start /\ WindowAfter(WindowBefore(s)) = s
         /\ SpanDays(WindowBefore(s)) = SpanDays(s) /\ InferredMode(WindowBefore(s)) = InferredMode(s)
         /\ WindowBefore(s) = Scope(s.start - SpanDays(s) * DayTicks, s.end - SpanDays(s) * DayTicks, FALSE)
<1> DEFINE f == First(s)
           l == Last(s)
           n == SpanDays(s)
           ef == f - n
           el == f - 1
           e == Dates(ef, el)
<1>1. f \in Int /\ l \in Int /\ f <= l /\ n = l - f + 1 /\ s = Dates(f, l) /\ s.start = DayTicks * f /\ s.end = DayTicks * (l + 1)
  BY DatedIs
<1>2. e = WindowBefore(s)
  BY DEF WindowBefore
<1> HIDE DEF f, l, n
<1>3. n \in Int /\ ef \in Int /\ el \in Int /\ ef <= el /\ el - ef + 1 = n /\ el + 1 = f /\ el + n = l
      /\ ef + n = f
  BY <1>1
<1> HIDE DEF ef, el
<1>4. Dated(e)
  BY <1>3 DEF Dated
<1>5. First(e) = ef /\ Last(e) = el /\ SpanDays(e) = n /\ e.start = DayTicks * ef /\ e.end = DayTicks * (el + 1)
      /\ ~e.exact
  BY <1>3, DatesAre
<1>6. WindowAfter(e) = s
  BY <1>1, <1>3, <1>5 DEF WindowAfter
<1>7. InferredMode(e) = InferredMode(s)
  <2>1. /\ IsDay(s) <=> l = f
        /\ IsWeekly(s) <=> f % 7 = 0 /\ l = f + 6
        /\ IsSprint(s) <=> f % 14 = 0 /\ l = f + 13
        /\ IsDay(e) <=> el = ef
        /\ IsWeekly(e) <=> ef % 7 = 0 /\ el = ef + 6
        /\ IsSprint(e) <=> ef % 14 = 0 /\ el = ef + 13
    BY <1>1, <1>3, KindsAre
  <2>2. (IsDay(s) <=> IsDay(e)) /\ (IsWeekly(s) <=> IsWeekly(e)) /\ (IsSprint(s) <=> IsSprint(e))
    BY <1>1, <1>3, <2>1
  <2> QED
    BY <2>2 DEF InferredMode
<1>8. e = Scope(s.start - n * DayTicks, s.end - n * DayTicks, FALSE)
  <2>1. DayTicks * f - n * DayTicks = DayTicks * ef /\ DayTicks * (l + 1) - n * DayTicks = DayTicks * (el + 1)
    <3>1. DayTicks \in Nat
      BY Tick
    <3>2. DayTicks * f - n * DayTicks = DayTicks * (f - n) /\ DayTicks * (l + 1) - n * DayTicks = DayTicks * (l + 1 - n)
      BY <1>1, <1>3, <3>1
    <3>3. f - n = ef /\ l + 1 - n = el + 1
      BY <1>1, <1>3
    <3> QED
      BY <3>2, <3>3
  <2>2. e = Scope(ef * DayTicks, (el + 1) * DayTicks, FALSE)
    BY DEF Dates
  <2>3. ef * DayTicks = DayTicks * ef /\ (el + 1) * DayTicks = DayTicks * (el + 1)
    BY <1>3, Tick
  <2> QED
    BY <1>1, <2>1, <2>2, <2>3
<1>9. e.end = s.start
  BY <1>1, <1>3, <1>5
<1> HIDE DEF e
<1> QED
  BY <1>2, <1>4, <1>5, <1>6, <1>7, <1>8, <1>9 DEF n

LEMMA AfterIs ==
  ASSUME NEW s, Dated(s)
  PROVE  /\ Dated(WindowAfter(s)) /\ WindowAfter(s).start = s.end /\ WindowBefore(WindowAfter(s)) = s
         /\ SpanDays(WindowAfter(s)) = SpanDays(s) /\ InferredMode(WindowAfter(s)) = InferredMode(s)
         /\ WindowAfter(s) = Scope(s.start + SpanDays(s) * DayTicks, s.end + SpanDays(s) * DayTicks, FALSE)
<1> DEFINE f == First(s)
           l == Last(s)
           n == SpanDays(s)
           af == l + 1
           al == l + n
           a == Dates(af, al)
<1>1. f \in Int /\ l \in Int /\ f <= l /\ n = l - f + 1 /\ s = Dates(f, l) /\ s.start = DayTicks * f /\ s.end = DayTicks * (l + 1)
  BY DatedIs
<1>2. a = WindowAfter(s)
  BY DEF WindowAfter
<1> HIDE DEF f, l, n
<1>3. n \in Int /\ af \in Int /\ al \in Int /\ af <= al /\ al - af + 1 = n /\ af - n = f /\ af - 1 = l
      /\ l + 1 = af
  BY <1>1
<1> HIDE DEF af, al
<1>4. Dated(a)
  BY <1>3 DEF Dated
<1>5. First(a) = af /\ Last(a) = al /\ SpanDays(a) = n /\ a.start = DayTicks * af /\ a.end = DayTicks * (al + 1)
      /\ ~a.exact
  BY <1>3, DatesAre
<1>6. WindowBefore(a) = s
  BY <1>1, <1>3, <1>5 DEF WindowBefore
<1>7. InferredMode(a) = InferredMode(s)
  <2>1. /\ IsDay(s) <=> l = f
        /\ IsWeekly(s) <=> f % 7 = 0 /\ l = f + 6
        /\ IsSprint(s) <=> f % 14 = 0 /\ l = f + 13
        /\ IsDay(a) <=> al = af
        /\ IsWeekly(a) <=> af % 7 = 0 /\ al = af + 6
        /\ IsSprint(a) <=> af % 14 = 0 /\ al = af + 13
    BY <1>1, <1>3, KindsAre
  <2>2. (IsDay(s) <=> IsDay(a)) /\ (IsWeekly(s) <=> IsWeekly(a)) /\ (IsSprint(s) <=> IsSprint(a))
    BY <1>1, <1>3, <2>1
  <2> QED
    BY <2>2 DEF InferredMode
<1>8. a = Scope(s.start + n * DayTicks, s.end + n * DayTicks, FALSE)
  <2>1. DayTicks * f + n * DayTicks = DayTicks * af /\ DayTicks * (l + 1) + n * DayTicks = DayTicks * (al + 1)
    <3>1. DayTicks \in Nat
      BY Tick
    <3>2. DayTicks * f + n * DayTicks = DayTicks * (f + n) /\ DayTicks * (l + 1) + n * DayTicks = DayTicks * (l + 1 + n)
      BY <1>1, <1>3, <3>1
    <3>3. f + n = af /\ l + 1 + n = al + 1
      BY <1>1, <1>3
    <3> QED
      BY <3>2, <3>3
  <2>2. a = Scope(af * DayTicks, (al + 1) * DayTicks, FALSE)
    BY DEF Dates
  <2>3. af * DayTicks = DayTicks * af /\ (al + 1) * DayTicks = DayTicks * (al + 1)
    BY <1>3, Tick
  <2> QED
    BY <1>1, <2>1, <2>2, <2>3
<1>9. a.start = s.end
  BY <1>1, <1>3, <1>5
<1> HIDE DEF a
<1> QED
  BY <1>2, <1>4, <1>5, <1>6, <1>7, <1>8, <1>9 DEF n

LEMMA DatesNumbers == \A d \in Int : d # NoDate
BY NavigationAssumption

(* What is resolved of dates, of instants, and of no instants.                 *)
LEMMA ResolveDates ==
  ASSUME NEW q, q.from = NoDate, q.to = NoDate, q.day = NoDate, q.first \in Int, q.last \in Int,
         q.first <= q.last, NEW default
  PROVE  Resolve(q, default) = {Dates(q.first, q.last)}
<1>1. q.first # NoDate /\ q.last # NoDate
  BY DatesNumbers
<1> QED
  BY <1>1 DEF Resolve

LEMMA ResolveTimes ==
  ASSUME NEW q, q.first = NoDate, q.last = NoDate, q.week = NoDate, q.day = NoDate,
         q.from \in Int, q.to \in Int, q.from < q.to, NEW default
  PROVE  Resolve(q, default) = {Scope(q.from, q.to, TRUE)}
<1>1. q.from # NoDate /\ q.to # NoDate
  BY DatesNumbers
<1> QED
  BY <1>1 DEF Resolve

LEMMA ResolveDay ==
  ASSUME NEW q, q.from = NoDate, q.to = NoDate, q.day \in Int, NEW default
  PROVE  Resolve(q, default) = {Dates(q.day, q.day)}
<1>1. q.day # NoDate
  BY DatesNumbers
<1> QED
  BY <1>1 DEF Resolve

LEMMA ResolvedKinds ==
  ASSUME NavigationInv, NEW q, Asked(q), NEW default, NEW s \in Resolve(q, default)
  PROVE  Dated(s) \/ (Exact(s) /\ {q.from, q.to} # {NoDate})
<1>1. date \in Int
  BY TodayIs
<1>2. CASE {q.from, q.to} # {NoDate}
  <2>1. s = Scope(q.from, q.to, TRUE)
    BY <1>2 DEF Resolve
  <2>2. s \in Span
    BY ResolveOK
  <2> QED
    BY <1>2, <2>1, <2>2 DEF Scope, Exact
<1>3. CASE {q.from, q.to} = {NoDate} /\ q.day # NoDate
  <2>1. q.day \in Int
    BY <1>3 DEF Asked, Parameter
  <2>2. s = Dates(q.day, q.day)
    BY <1>3, <2>1, ResolveDay
  <2> QED
    BY <2>1, <2>2, DayDated
<1>4. CASE {q.from, q.to} = {NoDate} /\ q.day = NoDate /\ {q.first, q.last} # {NoDate}
  <2>1. NoDate \notin {q.first, q.last} /\ q.first <= q.last /\ s = Dates(q.first, q.last)
    BY <1>4 DEF Resolve
  <2>2. q.first \in Int /\ q.last \in Int
    BY <2>1 DEF Asked, Parameter
  <2> QED
    BY <2>1, <2>2 DEF Dated
<1>5. CASE {q.from, q.to} = {NoDate} /\ q.day = NoDate /\ {q.first, q.last} = {NoDate}
  <2>1. q.week # NoDate => q.week \in Int /\ Dated(WeekOf(q.week))
    BY WeekIs DEF Asked, Parameter
  <2>2. \A w \in ResolveWeekWindow : Dated(w)
    BY MondaysAre, WeekIs DEF ResolveWeekWindow
  <2>3. Dated(Rolling(date, 7)) /\ Dated(SprintOf(date))
    BY <1>1, RollingDated, SprintDated
  <2>4. \/ q.week # NoDate /\ s = WeekOf(q.week)
        \/ s \in ResolveWeekWindow \/ s = Rolling(date, 7) \/ s = SprintOf(date)
    BY <1>5 DEF Resolve
  <2> QED
    BY <2>1, <2>2, <2>3, <2>4
<1> QED
  BY <1>2, <1>3, <1>4, <1>5

-----------------------------------------------------------------------------
(* What a page of a window looks like.                                         *)

(* The mode of a page is that of its window, or rolling over so many days.     *)
Fits(s, mode, days) == mode = InferredMode(s) \/ (mode = "rolling" /\ SpanDays(s) \in days)

LEMMA ShiftBy ==
  ASSUME NEW s, Dated(s), NEW mode, NEW days, Fits(s, mode, days), mode # "rolling"
  PROVE  Shift(mode, s) = SpanDays(s) * DayTicks /\ Shift(mode, s) \in Int /\ Shift(mode, s) # 0
<1>1. mode = InferredMode(s) /\ ~s.exact /\ SpanDays(s) \in Int /\ SpanDays(s) >= 1
  BY DatedIs DEF Fits
<1>2. Last(s) \in Int /\ First(s) \in Int /\ SpanDays(s) = Last(s) - First(s) + 1
  BY DatedIs
<1>3. /\ mode = "day" => SpanDays(s) = 1
      /\ mode = "weekly" => SpanDays(s) = 7
      /\ mode = "sprint" => SpanDays(s) = 14
  <2>1. /\ IsDay(s) <=> Last(s) = First(s)
        /\ IsWeekly(s) <=> First(s) % 7 = 0 /\ Last(s) = First(s) + 6
        /\ IsSprint(s) <=> First(s) % 14 = 0 /\ Last(s) = First(s) + 13
    BY DatedIs, KindsAre
  <2> QED
    BY <1>1, <1>2, <2>1, InferredIs
<1>4. mode \in {"day", "sprint", "weekly", "custom"}
  BY <1>1, InferredIs
<1>5. Shift(mode, s) = SpanDays(s) * DayTicks
  <2>1. CASE mode = "custom"
    BY <1>1, <2>1 DEF Shift
  <2>2. CASE mode = "day"
    BY <1>3, <2>2, Tick DEF Shift
  <2>3. CASE mode = "weekly"
    BY <1>3, <2>3, Tick DEF Shift
  <2>4. CASE mode = "sprint"
    BY <1>3, <2>4, Tick DEF Shift, SprintDays
  <2> QED
    BY <1>4, <2>1, <2>2, <2>3, <2>4
<1>6. SpanDays(s) * DayTicks \in Int /\ SpanDays(s) * DayTicks # 0
  <2> DEFINE n == SpanDays(s)
  <2>1. n \in Int /\ 0 < n /\ DayTicks \in Nat \ {0}
    BY <1>1, Tick
  <2> HIDE DEF n
  <2>2. DayTicks * 0 + DayTicks <= DayTicks * n /\ DayTicks * n = n * DayTicks /\ DayTicks * 0 = 0 /\ DayTicks * n \in Int
    BY <2>1, TimesGrow
  <2>3. n * DayTicks \in Int /\ n * DayTicks # 0
    BY <2>1, <2>2
  <2> QED
    BY <2>3 DEF n
<1> QED
  BY <1>5, <1>6

(* The link to a window that is shifted passes its validation.                 *)
LEMMA ValidDates ==
  ASSUME NEW s, Dated(s), NEW link
  PROVE  Validated(s, link) = {link}
<1> DEFINE r == AskDates("", First(s), Last(s), "")
           request == [r EXCEPT !.from = IF s.exact THEN s.start ELSE NoDate,
                                !.to = IF s.exact THEN s.end ELSE NoDate]
<1>1. First(s) \in Int /\ Last(s) \in Int /\ First(s) <= Last(s) /\ ~s.exact
  BY DatedIs
<1>2. /\ request.from = NoDate /\ request.to = NoDate /\ request.day = NoDate
      /\ request.first = First(s) /\ request.last = Last(s)
  BY <1>1 DEF AskDates, Query
<1> HIDE DEF request
<1>3. Resolve(request, "") = {Dates(First(s), Last(s))}
  BY <1>1, <1>2, ResolveDates
<1> QED
  BY <1>3 DEF Validated, request

LEMMA ValidTimes ==
  ASSUME NEW s, s.exact, s.start \in Int, s.end \in Int, NEW link
  PROVE  Validated(s, link) = {}
<1> DEFINE r == AskDates("", First(s), Last(s), "")
           request == [r EXCEPT !.from = IF s.exact THEN s.start ELSE NoDate,
                                !.to = IF s.exact THEN s.end ELSE NoDate]
<1>1. First(s) # NoDate /\ s.start # NoDate
  <2>1. First(s) \in Int
    BY Tick, Quotient DEF First
  <2> QED
    BY <2>1, DatesNumbers
<1>2. request.from = s.start /\ request.first = First(s)
  BY DEF AskDates, Query
<1> HIDE DEF request
<1>3. Resolve(request, "") = {}
  BY <1>1, <1>2 DEF Resolve
<1> QED
  BY <1>3 DEF Validated, request

LEMMA ShiftedIs ==
  ASSUME NEW path, NEW s, Dated(s), NEW mode, NEW days, Fits(s, mode, days), mode # "rolling"
  PROVE  /\ Shifted(path, s, mode, -Shift(mode, s)) = {AskScope(path, WindowBefore(s), ModeValue(mode))}
         /\ Shifted(path, s, mode, Shift(mode, s)) = {AskScope(path, WindowAfter(s), ModeValue(mode))}
<1> DEFINE by == SpanDays(s) * DayTicks
           back == -by
<1>1. Shift(mode, s) = by /\ by \in Int /\ by # 0 /\ ~s.exact /\ s.start \in Int /\ s.end \in Int
  BY ShiftBy, DatedIs DEF Span
<1>2. /\ WindowBefore(s) = Scope(s.start - by, s.end - by, FALSE) /\ Dated(WindowBefore(s))
      /\ WindowAfter(s) = Scope(s.start + by, s.end + by, FALSE) /\ Dated(WindowAfter(s))
  BY BeforeIs, AfterIs
<1> HIDE DEF by
<1>3. back \in Int /\ back # 0 /\ s.start + back = s.start - by /\ s.end + back = s.end - by
  BY <1>1
<1>4. -Shift(mode, s) = back
  BY <1>1
<1> HIDE DEF back
<1>5. /\ Scope(s.start + back, s.end + back, s.exact) = WindowBefore(s)
      /\ Scope(s.start + by, s.end + by, s.exact) = WindowAfter(s)
  <2>1. s.exact = FALSE
    <3>1. s.exact \in BOOLEAN /\ ~s.exact
      BY DatedIs DEF Span
    <3> QED
      BY <3>1
  <2> QED
    BY <1>2, <1>3, <2>1
<1>6. Shifted(path, s, mode, back) = Validated(WindowBefore(s), AskScope(path, WindowBefore(s), ModeValue(mode)))
  BY <1>3, <1>5 DEF Shifted
<1>7. Shifted(path, s, mode, by) = Validated(WindowAfter(s), AskScope(path, WindowAfter(s), ModeValue(mode)))
  BY <1>1, <1>5 DEF Shifted
<1> QED
  BY <1>1, <1>2, <1>4, <1>6, <1>7, ValidDates

LEMMA NotShifted ==
  ASSUME NEW path, NEW s \in Span, NEW mode, s.exact \/ mode = "rolling", NEW by \in Int
  PROVE  Shifted(path, s, mode, by) = {}
<1> DEFINE target == Scope(s.start + by, s.end + by, s.exact)
           link == AskScope(path, target, ModeValue(mode))
<1>1. CASE mode = "rolling"
  BY <1>1 DEF Shifted
<1>2. CASE s.exact
  <2>1. target.exact /\ target.start \in Int /\ target.end \in Int
    BY <1>2 DEF Scope, Span
  <2> HIDE DEF target, link
  <2>2. Validated(target, link) = {}
    BY <2>1, ValidTimes
  <2> QED
    BY <2>2 DEF Shifted, target, link
<1> QED
  BY <1>1, <1>2

-----------------------------------------------------------------------------
(* What pages look like, whenever they were rendered.                          *)

(* The mode that the links to the windows around carry.                        *)
Carried(path, mode) == IF path = "trends" THEN "" ELSE ModeValue(mode)
Beside(p, s) ==
  IF p.mode = "rolling" \/ p.scope.exact THEN {} ELSE {AskScope(p.path, s, Carried(p.path, p.mode))}
RollingLinks(path) ==
  IF path = "trends" THEN RelativeLinks ELSE {AskScope(path, Rolling(d, 7), "rolling") : d \in Int}

(* A call for the trends of a window, of a mode if one is said.                *)
TrendsCall(q, s) ==
  /\ q \in Queries /\ q.path = "api/trends" /\ WithDefaults(q) = q /\ DaysBack(q) # {}
  /\ q.mode = "" => q.first \in Int /\ q.last \in Int /\ q.first <= q.last /\ s = Dates(q.first, q.last)

WindowPage(p) ==
  /\ p.path \in {"report", "patterns", "trends"}
  /\ Dated(p.scope) \/ (p.path = "patterns" /\ Exact(p.scope))
  /\ Fits(p.scope, p.mode, IF p.path = "trends" THEN RelativeDays ELSE {7})
  /\ p.links["previous"] = Beside(p, WindowBefore(p.scope))
  /\ p.links["next"] = Beside(p, WindowAfter(p.scope))
  /\ p.links["weekly"] = {AskScope(p.path, WeekOf(Last(p.scope)), "")}
  /\ p.links["sprint"] = {AskScope(p.path, SprintOf(Last(p.scope)), Carried(p.path, "sprint"))}
  /\ p.links["rolling"] \subseteq RollingLinks(p.path)
  /\ p.links["day"] = IF p.path = "patterns" THEN {AskScope("patterns", Dates(Last(p.scope), Last(p.scope)), "")} ELSE {}
  /\ p.links["patterns"] = IF p.path = "report" THEN {AskScope("patterns", p.scope, ModeValue(p.mode))} ELSE {}
  /\ p.path = "report" => p.links["apply"] = {} /\ p.links["api"] = {}
  /\ p.path = "patterns" => /\ p.links["apply"] = {AskTimes("patterns", p.scope.start, p.scope.end, "")}
                            /\ p.links["api"] = {AskScope("api/patterns", p.scope, "")}
  /\ p.path = "trends" => /\ p.links["apply"] = {AskScope("trends", p.scope, "")}
                          /\ \E q : p.links["api"] = {q} /\ TrendsCall(q, p.scope)

(* The trends of all there is.                                                 *)
AllPage(p) ==
  /\ p.path = "trends" /\ p.scope = Always /\ p.mode = "custom"
  /\ p.links["rolling"] = RelativeLinks
  /\ \E d \in Int : /\ p.links["weekly"] = {AskScope("trends", WeekOf(d), "")}
                    /\ p.links["sprint"] = {AskScope("trends", SprintOf(d), "")}
  /\ \E q : p.links["api"] = {q} /\ TrendsCall(q, Always)
  /\ \A rel \in Rels \ {"rolling", "weekly", "sprint", "api"} : p.links[rel] = {}

(* The run log of a day, rendered on day t.                                    *)
DayPage(p, d, t) ==
  /\ p.path = "run-log" /\ p.scope = Dates(d, d) /\ p.mode = "day"
  /\ p.links["previous"] = IF d - 1 <= t THEN {AskDay("run-log", d - 1)} ELSE {}
  /\ p.links["next"] = IF d + 1 <= t THEN {AskDay("run-log", d + 1)} ELSE {}
  /\ p.links["patterns"] = {AskDates("patterns", d, d, "")}
  /\ p.links["api"] = {AskDay("api/run-log", d)}
  /\ \A rel \in Rels \ {"previous", "next", "patterns", "api"} : p.links[rel] = {}

(* What an API answers, and no page at all.                                    *)
NoLinks(p) == p.mode = "" /\ \A rel \in Rels : p.links[rel] = {}

PageShape(p, today) ==
  WindowPage(p) \/ AllPage(p) \/ NoLinks(p) \/ \E d \in Int, t \in Int : t <= today /\ DayPage(p, d, t)

LEMMA LinkOf ==
  ASSUME NEW path, NEW s, NEW mode, NEW presets, NEW others, NEW p, p = Page(path, s, mode, presets, others)
  PROVE  /\ p.path = path /\ p.scope = s /\ p.mode = mode
         /\ \A rel \in Rels : /\ rel \in DOMAIN presets => p.links[rel] = presets[rel]
                              /\ rel \notin DOMAIN presets /\ rel \in DOMAIN others => p.links[rel] = others[rel]
                              /\ rel \notin DOMAIN presets /\ rel \notin DOMAIN others => p.links[rel] = {}
BY DEF Page

LEMMA RelsAre == {"previous", "next", "rolling", "weekly", "sprint", "day", "patterns", "api", "apply"} = Rels
BY DEF Rels

(* The controls beside a report's or the patterns' window.                     *)
LEMMA BesideIs ==
  ASSUME NEW p, p.path \in {"report", "patterns"}, Fits(p.scope, p.mode, {7}),
         Dated(p.scope) \/ Exact(p.scope)
  PROVE  /\ Shifted(p.path, p.scope, p.mode, -Shift(p.mode, p.scope)) = Beside(p, WindowBefore(p.scope))
         /\ Shifted(p.path, p.scope, p.mode, Shift(p.mode, p.scope)) = Beside(p, WindowAfter(p.scope))
<1>1. p.scope \in Span
  BY DatedIs DEF Exact
<1>2. Shift(p.mode, p.scope) \in Int /\ -Shift(p.mode, p.scope) \in Int
  <2>1. Shift(p.mode, p.scope) \in Int
    BY <1>1, ShiftIs
  <2> QED
    BY <2>1
<1>3. CASE p.mode = "rolling" \/ p.scope.exact
  BY <1>1, <1>2, <1>3, NotShifted DEF Beside
<1>4. CASE ~(p.mode = "rolling" \/ p.scope.exact)
  <2>1. Dated(p.scope) /\ Carried(p.path, p.mode) = ModeValue(p.mode)
    BY <1>4 DEF Carried, Exact
  <2> QED
    BY <1>4, <2>1, ShiftedIs DEF Beside
<1> QED
  BY <1>3, <1>4

(* The windows of a truthful query are of its mode.                            *)
LEMMA TruthFits ==
  ASSUME NavigationInv, NEW q \in Queries, Truthful(q), q.path \in {"report", "patterns"}, ModeValue(q.mode) # "",
         NEW r, r.first = q.first, r.last = q.last, r.from = NoDate, r.to = NoDate, r.day = NoDate, r.week = NoDate,
         NEW s \in Resolve(r, q.mode)
  PROVE  Fits(s, q.mode, {7})
<1>1. date \in Int
  BY TodayIs
<1>2. q.mode \in {"rolling", "sprint"}
  BY ModesAre
<1>3. CASE {q.first, q.last} = {NoDate}
  <2>1. s = IF q.mode = "rolling" THEN Rolling(date, 7) ELSE SprintOf(date)
    BY <1>2, <1>3 DEF Resolve
  <2>2. SpanDays(Rolling(date, 7)) = 7 /\ Dated(SprintOf(date)) /\ IsSprint(SprintOf(date))
    <3>2. SpanDays(Rolling(date, 7)) = 7
      BY <1>1, WeekRolling
    <3>3. Dated(SprintOf(date)) /\ IsSprint(SprintOf(date))
      BY <1>1, SprintDated
    <3> QED
      BY <3>2, <3>3
  <2>3. InferredMode(SprintOf(date)) = "sprint"
    BY <2>2, InferredIs
  <2> QED
    BY <1>2, <2>1, <2>2, <2>3 DEF Fits
<1>4. CASE {q.first, q.last} # {NoDate}
  <2>1. NoDate \notin {q.first, q.last} /\ q.first <= q.last /\ s = Dates(q.first, q.last)
    BY <1>4 DEF Resolve
  <2>2. q.first \in Int /\ q.last \in Int
    BY <2>1 DEF Queries, Parameter
  <2>3. Dated(s)
    BY <2>1, <2>2 DEF Dated
  <2>4. IF q.mode = "rolling" THEN SpanDays(s) = 7 ELSE IsSprint(s)
    BY <1>4, <2>1 DEF Truthful
  <2>5. q.mode = "sprint" => InferredMode(s) = "sprint"
    BY <2>3, <2>4, InferredIs
  <2> QED
    BY <1>2, <2>4, <2>5 DEF Fits
<1> QED
  BY <1>3, <1>4

(* A page of the report and of the patterns, by what was resolved.             *)
LEMMA ReportPageIs ==
  ASSUME NEW q, NEW p \in ReportPage(q)
  PROVE  /\ p.path = "report" /\ p.scope \in ReportWindow(q)
         /\ p.mode = IF ModeValue(q.mode) = "" THEN InferredMode(p.scope) ELSE q.mode
         /\ p.links["previous"] = Shifted("report", p.scope, p.mode, -Shift(p.mode, p.scope))
         /\ p.links["next"] = Shifted("report", p.scope, p.mode, Shift(p.mode, p.scope))
         /\ p.links["patterns"] = {AskScope("patterns", p.scope, ModeValue(p.mode))}
         /\ p.links["rolling"] = {LandingQuery}
         /\ p.links["weekly"] = {AskScope("report", WeekOf(Last(p.scope)), "")}
         /\ p.links["sprint"] = {AskScope("report", SprintOf(Last(p.scope)), "sprint")}
         /\ p.links["day"] = {} /\ p.links["api"] = {} /\ p.links["apply"] = {}
<1> DEFINE mode(s) == IF ModeValue(q.mode) = "" THEN InferredMode(s) ELSE q.mode
           others(s) == [previous |-> Shifted("report", s, mode(s), -Shift(mode(s), s)),
                         next |-> Shifted("report", s, mode(s), Shift(mode(s), s)),
                         patterns |-> {AskScope("patterns", s, ModeValue(mode(s)))}]
<1>1. PICK s \in ReportWindow(q) : p = Page("report", s, mode(s), ReportPresets(s), others(s))
  BY DEF ReportPage
<1> DEFINE m == mode(s)
           o == others(s)
           r == ReportPresets(s)
<1>2. DOMAIN o = {"previous", "next", "patterns"} /\ DOMAIN r = {"rolling", "weekly", "sprint"}
  BY DEF ReportPresets
<1>3. /\ o["previous"] = Shifted("report", s, m, -Shift(m, s)) /\ o["next"] = Shifted("report", s, m, Shift(m, s))
      /\ o["patterns"] = {AskScope("patterns", s, ModeValue(m))}
      /\ r["rolling"] = {LandingQuery} /\ r["weekly"] = {AskScope("report", WeekOf(Last(s)), "")}
      /\ r["sprint"] = {AskScope("report", SprintOf(Last(s)), "sprint")}
  BY DEF ReportPresets
<1>4. m = IF ModeValue(q.mode) = "" THEN InferredMode(s) ELSE q.mode
  OBVIOUS
<1>5. p = Page("report", s, m, r, o)
  BY <1>1
<1> HIDE DEF m, o, r
<1>6. p.path = "report" /\ p.scope = s /\ p.mode = m
  BY <1>5, LinkOf
<1>7. /\ p.links["previous"] = o["previous"] /\ p.links["next"] = o["next"] /\ p.links["patterns"] = o["patterns"]
      /\ p.links["rolling"] = r["rolling"] /\ p.links["weekly"] = r["weekly"] /\ p.links["sprint"] = r["sprint"]
      /\ p.links["day"] = {} /\ p.links["api"] = {} /\ p.links["apply"] = {}
  BY <1>2, <1>5, LinkOf, RelsAre
<1>8. /\ p.links["previous"] = Shifted("report", p.scope, p.mode, -Shift(p.mode, p.scope))
      /\ p.links["next"] = Shifted("report", p.scope, p.mode, Shift(p.mode, p.scope))
      /\ p.links["patterns"] = {AskScope("patterns", p.scope, ModeValue(p.mode))}
  BY <1>3, <1>6, <1>7
<1>9. /\ p.links["rolling"] = {LandingQuery}
      /\ p.links["weekly"] = {AskScope("report", WeekOf(Last(p.scope)), "")}
      /\ p.links["sprint"] = {AskScope("report", SprintOf(Last(p.scope)), "sprint")}
  BY <1>3, <1>6, <1>7
<1>10. p.scope \in ReportWindow(q) /\ p.mode = IF ModeValue(q.mode) = "" THEN InferredMode(p.scope) ELSE q.mode
  BY <1>1, <1>4, <1>6
<1> QED
  BY <1>6, <1>7, <1>8, <1>9, <1>10

LEMMA PatternsPageIs ==
  ASSUME NEW q, NEW p \in PatternsPage(q)
  PROVE  /\ p.path = "patterns" /\ p.scope \in PatternsWindow(q) /\ p.mode = PatternsMode(q, p.scope)
         /\ p.links["previous"] = Shifted("patterns", p.scope, p.mode, -Shift(p.mode, p.scope))
         /\ p.links["next"] = Shifted("patterns", p.scope, p.mode, Shift(p.mode, p.scope))
         /\ p.links["patterns"] = {}
         /\ p.links["rolling"] = {AskScope("patterns", Rolling(Last(p.scope), 7), "rolling")}
         /\ p.links["weekly"] = {AskScope("patterns", WeekOf(Last(p.scope)), "")}
         /\ p.links["sprint"] = {AskScope("patterns", SprintOf(Last(p.scope)), "sprint")}
         /\ p.links["day"] = {AskScope("patterns", Dates(Last(p.scope), Last(p.scope)), "")}
         /\ p.links["api"] = {AskScope("api/patterns", p.scope, "")}
         /\ p.links["apply"] = {AskTimes("patterns", p.scope.start, p.scope.end, "")}
<1> DEFINE mode(s) == PatternsMode(q, s)
           others(s) == [previous |-> Shifted("patterns", s, mode(s), -Shift(mode(s), s)),
                         next |-> Shifted("patterns", s, mode(s), Shift(mode(s), s)),
                         api |-> {AskScope("api/patterns", s, "")},
                         apply |-> {AskTimes("patterns", s.start, s.end, "")}]
<1>1. PICK s \in PatternsWindow(q) : p = Page("patterns", s, mode(s), PatternsPresets(s), others(s))
  BY DEF PatternsPage
<1> DEFINE m == mode(s)
           o == others(s)
           r == PatternsPresets(s)
<1>2. DOMAIN o = {"previous", "next", "api", "apply"} /\ DOMAIN r = {"rolling", "weekly", "sprint", "day"}
  BY DEF PatternsPresets
<1>3. /\ o["previous"] = Shifted("patterns", s, m, -Shift(m, s)) /\ o["next"] = Shifted("patterns", s, m, Shift(m, s))
      /\ o["api"] = {AskScope("api/patterns", s, "")} /\ o["apply"] = {AskTimes("patterns", s.start, s.end, "")}
      /\ r["rolling"] = {AskScope("patterns", Rolling(Last(s), 7), "rolling")}
      /\ r["weekly"] = {AskScope("patterns", WeekOf(Last(s)), "")}
      /\ r["sprint"] = {AskScope("patterns", SprintOf(Last(s)), "sprint")}
      /\ r["day"] = {AskScope("patterns", Dates(Last(s), Last(s)), "")}
  BY DEF PatternsPresets
<1>4. m = PatternsMode(q, s)
  OBVIOUS
<1>5. p = Page("patterns", s, m, r, o)
  BY <1>1
<1> HIDE DEF m, o, r
<1>6. p.path = "patterns" /\ p.scope = s /\ p.mode = m
  BY <1>5, LinkOf
<1>7. /\ p.links["previous"] = o["previous"] /\ p.links["next"] = o["next"]
      /\ p.links["api"] = o["api"] /\ p.links["apply"] = o["apply"]
      /\ p.links["rolling"] = r["rolling"] /\ p.links["weekly"] = r["weekly"] /\ p.links["sprint"] = r["sprint"]
      /\ p.links["day"] = r["day"] /\ p.links["patterns"] = {}
  BY <1>2, <1>5, LinkOf, RelsAre
<1> QED
  BY <1>1, <1>3, <1>4, <1>6, <1>7

(* The page of a window, of a query that is truthful.                          *)
LEMMA ReportWindowPage ==
  ASSUME NavigationInv, NEW q \in Queries, q.path = "report", Truthful(q), NEW p \in ReportPage(q)
  PROVE  WindowPage(p)
<1> DEFINE asked == [q EXCEPT !.from = NoDate, !.to = NoDate, !.day = NoDate]
           s == p.scope
<1>1. /\ p.path = "report" /\ s \in ReportWindow(q)
      /\ p.mode = IF ModeValue(q.mode) = "" THEN InferredMode(s) ELSE q.mode
  BY ReportPageIs
<1>2. /\ asked.first = q.first /\ asked.last = q.last /\ asked.week = q.week
      /\ asked.from = NoDate /\ asked.to = NoDate /\ asked.day = NoDate /\ Asked(asked)
  BY DatesNumbers DEF Asked, Queries, Parameter
<1>3. ReportWindow(q) = Resolve(asked, IF ModeValue(q.mode) = "" THEN "latest week" ELSE q.mode)
  BY DEF ReportWindow
<1> HIDE DEF asked, s
<1>4. Dated(s)
  BY <1>1, <1>2, <1>3, ResolvedKinds
<1>5. Fits(s, p.mode, {7})
  <2>1. CASE ModeValue(q.mode) = ""
    BY <1>1, <2>1 DEF Fits
  <2>2. CASE ModeValue(q.mode) # ""
    <3>1. asked.week = NoDate
      BY <1>2, <2>2 DEF Truthful
    <3>2. s \in Resolve(asked, q.mode) /\ p.mode = q.mode
      BY <1>1, <1>3, <2>2
    <3> QED
      BY <1>2, <2>2, <3>1, <3>2, TruthFits
  <2> QED
    BY <2>1, <2>2
<1>6. /\ p.links["previous"] = Beside(p, WindowBefore(s)) /\ p.links["next"] = Beside(p, WindowAfter(s))
  <2>1. /\ p.links["previous"] = Shifted("report", p.scope, p.mode, -Shift(p.mode, p.scope))
        /\ p.links["next"] = Shifted("report", p.scope, p.mode, Shift(p.mode, p.scope))
    BY ReportPageIs
  <2>2. p.path \in {"report", "patterns"} /\ Dated(p.scope) /\ Fits(p.scope, p.mode, {7})
    BY <1>1, <1>4, <1>5 DEF s
  <2>3. /\ Shifted(p.path, p.scope, p.mode, -Shift(p.mode, p.scope)) = Beside(p, WindowBefore(p.scope))
        /\ Shifted(p.path, p.scope, p.mode, Shift(p.mode, p.scope)) = Beside(p, WindowAfter(p.scope))
    BY <2>2, BesideIs
  <2> QED
    BY <1>1, <2>1, <2>3 DEF s
<1>7. LandingQuery \in RollingLinks("report")
  BY TodayIs DEF LandingQuery, RollingLinks
<1>8. Carried("report", "sprint") = "sprint"
  BY DEF Carried, ModeValue
<1>9. /\ p.links["patterns"] = {AskScope("patterns", p.scope, ModeValue(p.mode))}
      /\ p.links["rolling"] = {LandingQuery}
      /\ p.links["weekly"] = {AskScope("report", WeekOf(Last(p.scope)), "")}
      /\ p.links["sprint"] = {AskScope("report", SprintOf(Last(p.scope)), "sprint")}
      /\ p.links["day"] = {} /\ p.links["api"] = {} /\ p.links["apply"] = {}
  BY ReportPageIs
<1>10. p.path = "report"
  BY <1>1
<1>11. Dated(p.scope) /\ Fits(p.scope, p.mode, {7})
  BY <1>4, <1>5 DEF s
<1>12. p.links["previous"] = Beside(p, WindowBefore(p.scope)) /\ p.links["next"] = Beside(p, WindowAfter(p.scope))
  BY <1>6 DEF s
<1>13. /\ p.links["weekly"] = {AskScope(p.path, WeekOf(Last(p.scope)), "")}
       /\ p.links["sprint"] = {AskScope(p.path, SprintOf(Last(p.scope)), Carried(p.path, "sprint"))}
       /\ p.links["rolling"] \subseteq RollingLinks(p.path)
  <2>1. {LandingQuery} \subseteq RollingLinks("report")
    BY <1>7
  <2> QED
    BY <1>8, <1>9, <1>10, <2>1
<1>14. /\ p.links["day"] = IF p.path = "patterns" THEN {AskScope("patterns", Dates(Last(p.scope), Last(p.scope)), "")} ELSE {}
       /\ p.links["patterns"] = IF p.path = "report" THEN {AskScope("patterns", p.scope, ModeValue(p.mode))} ELSE {}
       /\ p.links["apply"] = {} /\ p.links["api"] = {}
  BY <1>9, <1>10
<1>15. /\ p.path \in {"report", "patterns", "trends"} /\ p.path # "patterns" /\ p.path # "trends"
       /\ Fits(p.scope, p.mode, IF p.path = "trends" THEN RelativeDays ELSE {7})
  BY <1>10, <1>11
<1> HIDE DEF s
<1> QED
  BY <1>11, <1>12, <1>13, <1>14, <1>15, Zenon DEF WindowPage

LEMMA PatternsWindowPage ==
  ASSUME NavigationInv, NEW q \in Queries, q.path = "patterns", Truthful(q), NEW p \in PatternsPage(q)
  PROVE  WindowPage(p)
<1>0. p.path = "patterns" /\ p.scope \in PatternsWindow(q) /\ p.mode = PatternsMode(q, p.scope)
  BY ONLY p \in PatternsPage(q), PatternsPageIs
<1> DEFINE asked == [q EXCEPT !.day = NoDate]
           s == p.scope
<1>1. p.path = "patterns" /\ s \in PatternsWindow(q) /\ p.mode = PatternsMode(q, s)
  BY ONLY <1>0
<1>2. /\ asked.first = q.first /\ asked.last = q.last /\ asked.week = q.week
      /\ asked.from = q.from /\ asked.to = q.to /\ asked.day = NoDate /\ Asked(asked)
  BY DEF Asked, Queries, Parameter
<1>3. PatternsWindow(q) = Resolve(asked, IF q.mode = "sprint" THEN "sprint" ELSE "rolling")
  BY DEF PatternsWindow
<1> HIDE DEF asked, s
<1>4. Dated(s) \/ Exact(s)
  BY <1>1, <1>2, <1>3, ResolvedKinds
<1>5. Fits(s, p.mode, {7})
  <2>1. CASE ModeValue(q.mode) # ""
    <3>1. q.mode \in {"rolling", "sprint"}
      BY <2>1, ModesAre
    <3>2. asked.week = NoDate /\ asked.from = NoDate /\ asked.to = NoDate
      BY <1>2, <2>1 DEF Truthful
    <3>3. s \in Resolve(asked, q.mode) /\ p.mode = q.mode
      BY <1>1, <1>3, <2>1, <3>1 DEF PatternsMode
    <3> QED
      BY <1>2, <2>1, <3>2, <3>3, TruthFits
  <2>2. CASE ModeValue(q.mode) = "" /\ Explicit(q)
    BY <1>1, <2>2 DEF Fits, PatternsMode
  <2>3. CASE ModeValue(q.mode) = "" /\ ~Explicit(q)
    <3>1. q.first = NoDate /\ q.last = NoDate /\ q.from = NoDate /\ q.to = NoDate /\ q.week = NoDate
      BY <2>3 DEF Explicit
    <3>2. q.mode # "sprint" /\ q.mode # "rolling"
      BY <2>3 DEF ModeValue
    <3>3. s = Rolling(date, 7)
      BY <1>1, <1>2, <1>3, <3>1, <3>2 DEF Resolve
    <3>4. p.mode = "rolling"
      BY <1>1, <2>3 DEF PatternsMode
    <3>5. SpanDays(s) \in {7}
      BY <3>3, TodayIs, WeekRolling
    <3> QED
      BY <3>4, <3>5 DEF Fits
  <2> QED
    BY <2>1, <2>2, <2>3
<1>6. /\ p.links["previous"] = Beside(p, WindowBefore(s)) /\ p.links["next"] = Beside(p, WindowAfter(s))
  <2>1. /\ p.links["previous"] = Shifted("patterns", p.scope, p.mode, -Shift(p.mode, p.scope))
        /\ p.links["next"] = Shifted("patterns", p.scope, p.mode, Shift(p.mode, p.scope))
    BY PatternsPageIs
  <2>2. /\ p.path \in {"report", "patterns"} /\ (Dated(p.scope) \/ Exact(p.scope))
        /\ Fits(p.scope, p.mode, {7})
    BY <1>1, <1>4, <1>5 DEF s
  <2>3. /\ Shifted(p.path, p.scope, p.mode, -Shift(p.mode, p.scope)) = Beside(p, WindowBefore(p.scope))
        /\ Shifted(p.path, p.scope, p.mode, Shift(p.mode, p.scope)) = Beside(p, WindowAfter(p.scope))
    BY <1>1, <2>2, BesideIs
  <2> QED
    BY <1>1, <2>1, <2>3 DEF s
<1>7. AskScope("patterns", Rolling(Last(s), 7), "rolling") \in RollingLinks("patterns")
  <2>1. s \in Span
    BY <1>4, DatedIs DEF Exact
  <2>2. Last(s) \in Int
    BY <2>1, SpanDates
  <2> QED
    BY <2>2 DEF RollingLinks
<1>8. Carried("patterns", "sprint") = "sprint"
  BY DEF Carried, ModeValue
<1> USE DEF s
<1>9. /\ p.links["patterns"] = {}
      /\ p.links["rolling"] = {AskScope("patterns", Rolling(Last(p.scope), 7), "rolling")}
      /\ p.links["weekly"] = {AskScope("patterns", WeekOf(Last(p.scope)), "")}
      /\ p.links["sprint"] = {AskScope("patterns", SprintOf(Last(p.scope)), "sprint")}
      /\ p.links["day"] = {AskScope("patterns", Dates(Last(p.scope), Last(p.scope)), "")}
      /\ p.links["api"] = {AskScope("api/patterns", p.scope, "")}
      /\ p.links["apply"] = {AskTimes("patterns", p.scope.start, p.scope.end, "")}
  BY PatternsPageIs
<1> QED
  BY <1>1, <1>4, <1>5, <1>6, <1>7, <1>8, <1>9 DEF WindowPage

(* The run log of a day.                                                       *)
LEMMA RunLogDayPage ==
  ASSUME NavigationInv, NEW q \in Queries, NEW p \in RunLogPage(q)
  PROVE  \E d \in RunLogDays(q) : d \in Int /\ DayPage(p, d, date)
<1> DEFINE others(d) == [previous |-> ShiftedRunLog(d - 1), next |-> ShiftedRunLog(d + 1),
                         patterns |-> {AskDates("patterns", d, d, "")}, api |-> {AskDay("api/run-log", d)}]
           none == <<>>
<1>1. PICK d \in RunLogDays(q) : p = Page("run-log", Dates(d, d), "day", none, others(d))
  BY DEF RunLogPage
<1>2. d \in Int
  BY RunLogDaysOK
<1> DEFINE o == others(d)
<1>3. DOMAIN o = {"previous", "next", "patterns", "api"} /\ DOMAIN none = {}
  OBVIOUS
<1>4. /\ o["previous"] = ShiftedRunLog(d - 1) /\ o["next"] = ShiftedRunLog(d + 1)
      /\ o["patterns"] = {AskDates("patterns", d, d, "")} /\ o["api"] = {AskDay("api/run-log", d)}
  OBVIOUS
<1>5. p = Page("run-log", Dates(d, d), "day", none, o)
  BY <1>1
<1> HIDE DEF o, none
<1>6. p.path = "run-log" /\ p.scope = Dates(d, d) /\ p.mode = "day"
  BY <1>5, LinkOf
<1>7. \A rel \in Rels : p.links[rel] = IF rel \in DOMAIN o THEN o[rel] ELSE {}
  <2> TAKE rel \in Rels
  <2>1. rel \notin DOMAIN none
    BY <1>3
  <2>2. /\ rel \in DOMAIN o => p.links[rel] = o[rel]
        /\ rel \notin DOMAIN o => p.links[rel] = {}
    BY <1>5, <2>1, LinkOf
  <2> QED
    BY <2>2
<1>8. \A n : ShiftedRunLog(n) = IF n <= date THEN {AskDay("run-log", n)} ELSE {}
  BY DEF ShiftedRunLog
<1> QED
  BY <1>2, <1>3, <1>4, <1>6, <1>7, <1>8, RelsAre DEF DayPage

TrendsOf(p, q) ==
  /\ p.path = "trends" /\ p.mode = TrendsMode(q, p.scope)
  /\ \E days \in DaysBack(q) : p.scope \in TrendsScopes(q, days)

(* The trends, of a window or of all there is.                                 *)
LEMMA TrendsPageIs ==
  ASSUME NEW asked, NEW p \in TrendsPage(asked), NEW q, q = WithDefaults(asked)
  PROVE  /\ TrendsOf(p, q)
         /\ p.links["rolling"] = RelativeLinks
         /\ p.links["weekly"] = {AskScope("trends", WeekOf(TrendsAnchor(p.scope)), "")}
         /\ p.links["sprint"] = {AskScope("trends", SprintOf(TrendsAnchor(p.scope)), "")}
         /\ p.links["day"] = {} /\ p.links["patterns"] = {}
         /\ p.links["api"] = {AskTrends("api/trends", q.mode, q.first, q.last, q.days)}
         /\ p.links["previous"] = IF p.scope = Always THEN {} ELSE ShiftedTrends(p.scope, p.mode, -Shift(p.mode, p.scope))
         /\ p.links["next"] = IF p.scope = Always THEN {} ELSE ShiftedTrends(p.scope, p.mode, Shift(p.mode, p.scope))
         /\ p.links["apply"] = IF p.scope = Always THEN {} ELSE {AskDates("trends", First(p.scope), Last(p.scope), "")}
<1> DEFINE api == {AskTrends("api/trends", q.mode, q.first, q.last, q.days)}
           mode(s) == TrendsMode(q, s)
           others(s) == IF s = Always THEN [api |-> api]
                        ELSE [previous |-> ShiftedTrends(s, mode(s), -Shift(mode(s), s)),
                              next |-> ShiftedTrends(s, mode(s), Shift(mode(s), s)),
                              api |-> api, apply |-> {AskDates("trends", First(s), Last(s), "")}]
<1>1. PICK days \in DaysBack(q) : \E s \in TrendsScopes(q, days) :
        p = Page("trends", s, mode(s), TrendsPresets(s), others(s))
  BY DEF TrendsPage
<1>2. PICK s \in TrendsScopes(q, days) : p = Page("trends", s, mode(s), TrendsPresets(s), others(s))
  BY <1>1
<1> DEFINE m == mode(s)
           o == others(s)
           r == TrendsPresets(s)
<1>3. DOMAIN o = (IF s = Always THEN {"api"} ELSE {"previous", "next", "api", "apply"})
      /\ DOMAIN r = {"rolling", "weekly", "sprint"}
  BY DEF TrendsPresets
<1>4. /\ o["api"] = api
      /\ s # Always => /\ o["previous"] = ShiftedTrends(s, m, -Shift(m, s)) /\ o["next"] = ShiftedTrends(s, m, Shift(m, s))
                       /\ o["apply"] = {AskDates("trends", First(s), Last(s), "")}
      /\ r["rolling"] = RelativeLinks
      /\ r["weekly"] = {AskScope("trends", WeekOf(TrendsAnchor(s)), "")}
      /\ r["sprint"] = {AskScope("trends", SprintOf(TrendsAnchor(s)), "")}
  BY DEF TrendsPresets
<1>5. p = Page("trends", s, m, r, o) /\ m = TrendsMode(q, s)
  BY <1>2
<1> HIDE DEF m, o, r
<1>6. p.path = "trends" /\ p.scope = s /\ p.mode = m
  BY <1>5, LinkOf
<1>7. /\ p.links["api"] = o["api"] /\ p.links["day"] = {} /\ p.links["patterns"] = {}
      /\ p.links["rolling"] = r["rolling"] /\ p.links["weekly"] = r["weekly"] /\ p.links["sprint"] = r["sprint"]
  BY <1>3, <1>5, LinkOf, RelsAre
<1>8. /\ p.links["previous"] = IF s = Always THEN {} ELSE o["previous"]
      /\ p.links["next"] = IF s = Always THEN {} ELSE o["next"]
      /\ p.links["apply"] = IF s = Always THEN {} ELSE o["apply"]
  <2>1. ASSUME NEW rel \in Rels, rel \notin DOMAIN r
        PROVE  p.links[rel] = IF rel \in DOMAIN o THEN o[rel] ELSE {}
    <3>1. /\ rel \in DOMAIN o => p.links[rel] = o[rel]
          /\ rel \notin DOMAIN o => p.links[rel] = {}
      BY <1>5, <2>1, LinkOf
    <3> QED
      BY <3>1
  <2>2. \A rel \in {"previous", "next", "apply"} : rel \in Rels /\ rel \notin DOMAIN r
    BY <1>3, RelsAre
  <2>3. \A rel \in {"previous", "next", "apply"} : rel \in DOMAIN o <=> s # Always
    BY <1>3
  <2>4. \A rel \in {"previous", "next", "apply"} : p.links[rel] = IF s = Always THEN {} ELSE o[rel]
    BY <2>1, <2>2, <2>3
  <2> QED
    BY <2>4
<1> QED
  <2>1. TrendsOf(p, q)
    BY <1>2, <1>5, <1>6 DEF TrendsOf
  <2> QED
    BY <1>4, <1>6, <1>7, <1>8, <2>1 DEF api

LEMMA NotAlways == \A s : Dated(s) \/ s \in Span => s # Always
<1> SUFFICES ASSUME NEW s, Dated(s) \/ s \in Span PROVE s # Always
  OBVIOUS
<1>1. s.start \in Int
  BY DatedIs DEF Span
<1>2. Always.start = NoDate
  BY DEF Always, Scope
<1> QED
  BY <1>1, <1>2, DatesNumbers

(* What is served of a query for trends has the defaults filled in.            *)
Bare(q) == q.mode = "" /\ {q.first, q.last} = {NoDate} /\ q.days = 0

LEMMA DefaultsFilled ==
  ASSUME NEW q \in Queries
  PROVE  ~Bare(WithDefaults(q)) /\ (~Bare(q) => WithDefaults(q) = q)
<1> DEFINE r == [q EXCEPT !.mode = "relative", !.days = 30]
<1>1. WithDefaults(q) = IF Bare(q) THEN r ELSE q
  BY DEF WithDefaults, Bare
<1>2. r.mode = "relative"
  BY DEF Queries
<1> HIDE DEF r
<1>3. ~Bare(r)
  BY <1>2 DEF Bare
<1> QED
  BY <1>1, <1>3

LEMMA TrendsCalled ==
  ASSUME NEW q \in Queries, ~Bare(q), NEW days \in DaysBack(q), NEW s \in TrendsScopes(q, days),
         NEW call, call = AskTrends("api/trends", q.mode, q.first, q.last, q.days)
  PROVE  TrendsCall(call, s)
<1>1. q.mode \in QueryModes /\ q.first \in Parameter /\ q.last \in Parameter /\ q.days \in Int
  BY DEF Queries
<1>2. call \in Queries
  BY <1>1, AskTrendsOK, PathsAre
<1>3. /\ call.path = "api/trends" /\ call.mode = q.mode /\ call.first = q.first /\ call.last = q.last
      /\ call.days = q.days
  BY DEF AskTrends, AskDates, Query
<1>4. ~Bare(call)
  BY <1>3 DEF Bare
<1>5. DaysBack(call) = DaysBack(q)
  BY <1>3 DEF DaysBack
<1>6. ASSUME q.mode = ""
      PROVE  q.first \in Int /\ q.last \in Int /\ q.first <= q.last /\ s = Dates(q.first, q.last)
  <2> DEFINE asked == AskDates("", q.first, q.last, "")
  <2>1. s \in Resolve(asked, "")
    BY <1>6 DEF TrendsScopes
  <2>2. /\ asked.from = NoDate /\ asked.to = NoDate /\ asked.day = NoDate
        /\ asked.first = q.first /\ asked.last = q.last
    BY DEF AskDates, Query
  <2> HIDE DEF asked
  <2>3. q.days = 0
    BY <1>6 DEF DaysBack
  <2>4. {q.first, q.last} # {NoDate}
    BY <1>6, <2>3 DEF Bare
  <2>5. NoDate \notin {q.first, q.last} /\ q.first <= q.last /\ s = Dates(q.first, q.last)
    BY <2>1, <2>2, <2>4 DEF Resolve
  <2> QED
    BY <1>1, <2>5 DEF Parameter
<1> QED
  BY <1>2, <1>3, <1>4, <1>5, <1>6, DefaultsFilled DEF TrendsCall

LEMMA TrendsScopeIs ==
  ASSUME NavigationInv, NEW q \in Queries, ~Bare(q), NEW days \in DaysBack(q), NEW s \in TrendsScopes(q, days)
  PROVE  \/ s = Always /\ TrendsMode(q, s) = "custom"
         \/ Dated(s) /\ Fits(s, TrendsMode(q, s), RelativeDays)
<1>1. date \in Int
  BY TodayIs
<1>2. CASE q.mode \in {"relative", "rolling"}
  <2>1. days \in RelativeDays /\ RelativeDays \subseteq Nat \ {0}
    BY <1>2, NavigationAssumption DEF DaysBack
  <2>2. s = Rolling(date, days) /\ TrendsMode(q, s) = "rolling"
    BY <1>2 DEF TrendsScopes, TrendsMode
  <2>3. days \in Nat \ {0}
    BY <2>1
  <2>4. Dated(s) /\ SpanDays(s) = days
    BY <1>1, <2>2, <2>3, RollingDated
  <2> QED
    BY <2>1, <2>2, <2>4 DEF Fits
<1>3. CASE q.mode = "weekly"
  <2>1. s = WeekOf(date) /\ TrendsMode(q, s) = "weekly"
    BY <1>3 DEF TrendsScopes, TrendsMode
  <2>2. Dated(s) /\ IsWeekly(s)
    BY <1>1, <2>1, WeekIs
  <2> QED
    BY <2>1, <2>2, InferredIs DEF Fits
<1>4. CASE q.mode = "sprint"
  <2>1. s = SprintOf(date) /\ TrendsMode(q, s) = "sprint"
    BY <1>4 DEF TrendsScopes, TrendsMode
  <2>2. Dated(s) /\ IsSprint(s)
    BY <1>1, <2>1, SprintDated
  <2> QED
    BY <2>1, <2>2, InferredIs DEF Fits
<1>5. CASE q.mode = "all"
  BY <1>5 DEF TrendsScopes, TrendsMode
<1>6. CASE q.mode = ""
  <2>1. TrendsCall(AskTrends("api/trends", q.mode, q.first, q.last, q.days), s)
    BY TrendsCalled
  <2>2. q.first \in Int /\ q.last \in Int /\ q.first <= q.last /\ s = Dates(q.first, q.last)
    BY <1>6, <2>1 DEF TrendsCall, AskTrends, AskDates, Query
  <2>3. Dated(s)
    BY <2>2 DEF Dated
  <2>4. s # Always
    BY <2>3, NotAlways
  <2>5. TrendsMode(q, s) = InferredMode(s)
    BY <1>6, <2>4 DEF TrendsMode
  <2> QED
    BY <2>3, <2>5 DEF Fits
<1> QED
  BY <1>2, <1>3, <1>4, <1>5, <1>6 DEF Queries, QueryModes

LEMMA ShiftedTrendsIs ==
  ASSUME NEW s, Dated(s), NEW mode, NEW days, Fits(s, mode, days), mode # "rolling"
  PROVE  /\ ShiftedTrends(s, mode, -Shift(mode, s)) = {AskScope("trends", WindowBefore(s), "")}
         /\ ShiftedTrends(s, mode, Shift(mode, s)) = {AskScope("trends", WindowAfter(s), "")}
<1> DEFINE by == SpanDays(s) * DayTicks
           back == -by
<1>1. Shift(mode, s) = by /\ by \in Int /\ by # 0 /\ s.start \in Int /\ s.end \in Int
  BY ShiftBy, DatedIs DEF Span
<1>2. WindowBefore(s) = Scope(s.start - by, s.end - by, FALSE) /\ WindowAfter(s) = Scope(s.start + by, s.end + by, FALSE)
  BY BeforeIs, AfterIs
<1> HIDE DEF by
<1>3. back \in Int /\ back # 0 /\ s.start + back = s.start - by /\ s.end + back = s.end - by
  BY <1>1
<1>4. -Shift(mode, s) = back
  BY <1>1
<1> HIDE DEF back
<1>5. Scope(s.start + back, s.end + back, FALSE) = WindowBefore(s)
  BY <1>2, <1>3
<1>6. ShiftedTrends(s, mode, back) = {AskScope("trends", WindowBefore(s), "")}
  BY <1>3, <1>5 DEF ShiftedTrends
<1>7. ShiftedTrends(s, mode, by) = {AskScope("trends", WindowAfter(s), "")}
  BY <1>1, <1>2 DEF ShiftedTrends
<1> QED
  BY <1>1, <1>4, <1>6, <1>7

LEMMA TrendsShape ==
  ASSUME NavigationInv, NEW asked \in Queries, NEW p \in TrendsPage(asked)
  PROVE  WindowPage(p) \/ AllPage(p)
<1> DEFINE q == WithDefaults(asked)
           s == p.scope
           call == AskTrends("api/trends", q.mode, q.first, q.last, q.days)
<1>1. q \in Queries /\ ~Bare(q)
  BY WithDefaultsOK, DefaultsFilled
<1>2. TrendsOf(p, q)
  BY TrendsPageIs
<1>3. p.path = "trends" /\ p.mode = TrendsMode(q, s) /\ \E n \in DaysBack(q) : s \in TrendsScopes(q, n)
  BY <1>2 DEF TrendsOf
<1>9. PICK days \in DaysBack(q) : s \in TrendsScopes(q, days)
  BY <1>3
<1>4. /\ p.links["rolling"] = RelativeLinks
      /\ p.links["weekly"] = {AskScope("trends", WeekOf(TrendsAnchor(s)), "")}
      /\ p.links["sprint"] = {AskScope("trends", SprintOf(TrendsAnchor(s)), "")}
      /\ p.links["day"] = {} /\ p.links["patterns"] = {}
      /\ p.links["api"] = {call}
      /\ p.links["previous"] = IF s = Always THEN {} ELSE ShiftedTrends(s, p.mode, -Shift(p.mode, s))
      /\ p.links["next"] = IF s = Always THEN {} ELSE ShiftedTrends(s, p.mode, Shift(p.mode, s))
      /\ p.links["apply"] = IF s = Always THEN {} ELSE {AskDates("trends", First(s), Last(s), "")}
  BY TrendsPageIs
<1>5. TrendsCall(call, s)
  BY <1>1, <1>9, TrendsCalled
<1> HIDE DEF q, call
<1>6. CASE s = Always /\ p.mode = "custom"
  <2>1. TrendsAnchor(s) \in Int
    BY <1>6, TodayIs DEF TrendsAnchor
  <2>2. \A rel \in Rels \ {"rolling", "weekly", "sprint", "api"} : p.links[rel] = {}
    BY <1>4, <1>6 DEF Rels
  <2>3. \E d \in Int : /\ p.links["weekly"] = {AskScope("trends", WeekOf(d), "")}
                       /\ p.links["sprint"] = {AskScope("trends", SprintOf(d), "")}
    BY <1>4, <2>1
  <2>4. \E c : p.links["api"] = {c} /\ TrendsCall(c, Always)
    BY <1>4, <1>5, <1>6
  <2> QED
    BY <1>3, <1>4, <1>6, <2>2, <2>3, <2>4 DEF AllPage
<1>7. CASE Dated(s) /\ Fits(s, p.mode, RelativeDays)
  <2>1. s # Always
    BY <1>7, NotAlways
  <2>2. TrendsAnchor(s) = Last(s)
    BY <2>1 DEF TrendsAnchor
  <2>3. Carried(p.path, p.mode) = "" /\ Carried(p.path, "sprint") = ""
    BY <1>3 DEF Carried
  <2>4. ~s.exact
    BY <1>7, DatedIs
  <2>5. p.links["previous"] = Beside(p, WindowBefore(s)) /\ p.links["next"] = Beside(p, WindowAfter(s))
    <3>1. CASE p.mode = "rolling"
      BY <1>4, <2>1, <3>1 DEF Beside, ShiftedTrends
    <3>2. CASE p.mode # "rolling"
      BY <1>3, <1>4, <1>7, <2>1, <2>3, <2>4, <3>2, ShiftedTrendsIs DEF Beside
    <3> QED
      BY <3>1, <3>2
  <2>6. p.links["apply"] = {AskScope("trends", s, "")}
    BY <1>4, <2>1, <2>4 DEF AskScope
  <2>7. p.links["rolling"] \subseteq RollingLinks("trends")
    BY <1>4 DEF RollingLinks
  <2>8. \E c : p.links["api"] = {c} /\ TrendsCall(c, s)
    BY <1>4, <1>5
  <2> QED
    BY <1>3, <1>4, <1>7, <2>2, <2>3, <2>5, <2>6, <2>7, <2>8 DEF WindowPage
<1>8. \/ s = Always /\ p.mode = "custom"
      \/ Dated(s) /\ Fits(s, p.mode, RelativeDays)
  BY <1>1, <1>3, <1>9, TrendsScopeIs
<1> QED
  BY <1>6, <1>7, <1>8

-----------------------------------------------------------------------------
(* What the links of pages open.                                               *)

(* A link to a window, with the mode it carries.                               *)
WindowLink(path, s, m) ==
  /\ path \in {"report", "patterns", "trends"}
  /\ Dated(s) \/ (path = "patterns" /\ m = "" /\ Exact(s))
  /\ m \in {"", "rolling", "sprint"} /\ (path = "trends" => m = "")
  /\ m = "rolling" => SpanDays(s) = 7
  /\ m = "sprint" => IsSprint(s)

AsksDates(q, path, s, m) ==
  /\ q.path = path /\ q.first = First(s) /\ q.last = Last(s) /\ q.mode = m /\ q.days = 0
  /\ q.from = NoDate /\ q.to = NoDate /\ q.week = NoDate /\ q.day = NoDate
  /\ q = AskDates(path, First(s), Last(s), m)

LEMMA DatedAsked == \A path, s, m : Dated(s) => AsksDates(AskScope(path, s, m), path, s, m)
<1> TAKE path, s, m
<1> SUFFICES ASSUME Dated(s) PROVE AsksDates(AskScope(path, s, m), path, s, m)
  OBVIOUS
<1>1. AskScope(path, s, m) = AskDates(path, First(s), Last(s), m)
  BY DatedIs DEF AskScope
<1> QED
  BY <1>1 DEF AsksDates, AskDates, Query

AsksTimes(q, path, s, m) ==
  /\ q.path = path /\ q.from = s.start /\ q.to = s.end /\ q.mode = m
  /\ q.first = NoDate /\ q.last = NoDate /\ q.week = NoDate /\ q.day = NoDate
  /\ s = Scope(s.start, s.end, TRUE)

LEMMA TimesAsked == \A path, s, m : Exact(s) => AsksTimes(AskScope(path, s, m), path, s, m)
<1> TAKE path, s, m
<1> SUFFICES ASSUME Exact(s) PROVE AsksTimes(AskScope(path, s, m), path, s, m)
  OBVIOUS
<1>1. AskScope(path, s, m) = AskTimes(path, s.start, s.end, m)
  BY DEF AskScope, Exact
<1>2. s.exact = TRUE
  <2>1. s.exact \in BOOLEAN /\ s.exact
    BY DEF Span, Exact
  <2> QED
    BY <2>1
<1>3. s = Scope(s.start, s.end, TRUE)
  BY <1>2 DEF Span, Scope, Exact
<1> QED
  BY <1>1, <1>3 DEF AsksTimes, AskTimes, Query

LEMMA ModeValues ==
  /\ ModeValue("") = "" /\ ModeValue("rolling") = "rolling" /\ ModeValue("sprint") = "sprint"
  /\ ModeValue("weekly") = "" /\ ModeValue("day") = "" /\ ModeValue("custom") = ""
BY DEF ModeValue

LinkOK(q, path, m) == q \in Queries /\ Truthful(q) /\ q.path = path /\ q.mode = m

LEMMA LinkTruthful == \A path, s, m : WindowLink(path, s, m) => LinkOK(AskScope(path, s, m), path, m)
<1> SUFFICES ASSUME NEW path, NEW s, NEW m, WindowLink(path, s, m), NEW q, q = AskScope(path, s, m)
             PROVE  LinkOK(q, path, m)
  OBVIOUS
<1>1. s \in Span /\ path \in Paths /\ m \in QueryModes
  <2>1. Dated(s) \/ s \in Span
    BY DEF WindowLink, Exact
  <2>2. path \in Paths /\ m \in QueryModes
    BY DEF WindowLink, Paths, QueryModes
  <2> QED
    BY <2>1, <2>2, DatedIs
<1>2. q \in Queries
  BY <1>1, AskSpanOK
<1>3. CASE Dated(s)
  <2>1. /\ q.path = path /\ q.first = First(s) /\ q.last = Last(s) /\ q.mode = m
        /\ q.from = NoDate /\ q.to = NoDate /\ q.week = NoDate
    BY <1>3, DatedAsked DEF AsksDates
  <2>2. s = Dates(First(s), Last(s))
    BY <1>3, DatedIs
  <2>3. ModeValue(m) # "" => m \in {"rolling", "sprint"}
    BY ModesAre
  <2>4. Truthful(q)
    BY <2>1, <2>2, <2>3 DEF Truthful, WindowLink
  <2> QED
    BY <1>2, <2>1, <2>4 DEF LinkOK
<1>4. CASE ~Dated(s)
  <2>1. Exact(s) /\ m = ""
    BY <1>4 DEF WindowLink
  <2>2. q.path = path /\ q.mode = m
    <3>1. AsksTimes(q, path, s, m)
      BY <2>1, TimesAsked
    <3> QED
      BY <3>1 DEF AsksTimes
  <2>3. ModeValue(q.mode) = ""
    BY <2>1, <2>2, ModeValues
  <2>4. Truthful(q)
    BY <2>3 DEF Truthful
  <2> QED
    BY <1>2, <2>2, <2>4 DEF LinkOK
<1> QED
  BY <1>3, <1>4

(* What a link to a window opens: the window, in the mode it carries.          *)
ShowsWindow(q, path, s, m) ==
  /\ Serve(q) # {}
  /\ \A p \in Serve(q) : p.path = path /\ p.scope = s /\ p.mode = IF m = "" THEN InferredMode(s) ELSE m

LEMMA ReportOpens ==
  ASSUME NavigationInv, NEW s, NEW m, WindowLink("report", s, m), NEW q, q = AskScope("report", s, m)
  PROVE  Serve(q) = ReportPage(q) /\ ShowsWindow(q, "report", s, m)
<1> DEFINE asked == [q EXCEPT !.from = NoDate, !.to = NoDate, !.day = NoDate]
<1>1. Dated(s) /\ (ModeValue(m) = "" <=> m = "")
  BY ModeValues DEF WindowLink
<1>2. q \in Queries /\ q.path = "report" /\ q.first = First(s) /\ q.last = Last(s) /\ q.mode = m
  <2>1. q \in Queries
    BY LinkTruthful DEF LinkOK
  <2>2. q.path = "report" /\ q.first = First(s) /\ q.last = Last(s) /\ q.mode = m
    <3>1. AsksDates(q, "report", s, m)
      BY <1>1, DatedAsked
    <3> QED
      BY <3>1 DEF AsksDates
  <2> QED
    BY <2>1, <2>2
<1>3. First(s) \in Int /\ Last(s) \in Int /\ First(s) <= Last(s) /\ s = Dates(First(s), Last(s))
  BY <1>1, DatedIs
<1>4. /\ asked.from = NoDate /\ asked.to = NoDate /\ asked.day = NoDate
      /\ asked.first = First(s) /\ asked.last = Last(s)
  BY <1>2 DEF Queries
<1>5. \A default : Resolve(asked, default) = {Dates(First(s), Last(s))}
  <2> HIDE DEF asked
  <2> QED
    BY <1>3, <1>4, ResolveDates
<1>6. ReportWindow(q) = {s}
  BY <1>3, <1>5 DEF ReportWindow
<1>7. Serve(q) = ReportPage(q)
  BY <1>2 DEF Serve
<1>8. ReportPage(q) # {}
  BY <1>6 DEF ReportPage
<1>9. ASSUME NEW p \in ReportPage(q)
      PROVE  p.path = "report" /\ p.scope = s /\ p.mode = IF m = "" THEN InferredMode(s) ELSE m
  <2>1. p.path = "report" /\ p.scope \in ReportWindow(q)
        /\ p.mode = IF ModeValue(q.mode) = "" THEN InferredMode(p.scope) ELSE q.mode
    BY ReportPageIs
  <2> QED
    BY <1>1, <1>2, <1>6, <2>1
<1> QED
  BY <1>7, <1>8, <1>9 DEF ShowsWindow

LEMMA PatternsOpens ==
  ASSUME NavigationInv, NEW s, NEW m, WindowLink("patterns", s, m), NEW q, q = AskScope("patterns", s, m)
  PROVE  Serve(q) = PatternsPage(q) /\ ShowsWindow(q, "patterns", s, m)
<1> DEFINE asked == [q EXCEPT !.day = NoDate]
<1>1. (ModeValue(m) = "" <=> m = "")
  BY ModeValues DEF WindowLink
<1>2. q \in Queries /\ q.path = "patterns" /\ q.mode = m
  BY LinkTruthful DEF LinkOK
<1>3. /\ asked.from = q.from /\ asked.to = q.to /\ asked.day = NoDate /\ asked.week = q.week
      /\ asked.first = q.first /\ asked.last = q.last
  BY <1>2 DEF Queries
<1>4. Explicit(q) /\ \A default : Resolve(asked, default) = {s}
  <2> HIDE DEF asked
  <2>1. CASE Dated(s)
    <3>1. q.first = First(s) /\ q.last = Last(s) /\ q.from = NoDate /\ q.to = NoDate
      BY <2>1, DatedAsked DEF AsksDates
    <3>2. First(s) \in Int /\ Last(s) \in Int /\ First(s) <= Last(s) /\ s = Dates(First(s), Last(s))
      BY <2>1, DatedIs
    <3>3. \A default : Resolve(asked, default) = {Dates(First(s), Last(s))}
      BY <1>3, <3>1, <3>2, ResolveDates
    <3> QED
      BY <3>1, <3>2, <3>3, DatesNumbers DEF Explicit
  <2>2. CASE ~Dated(s)
    <3>1. Exact(s)
      BY <2>2 DEF WindowLink
    <3>2. /\ q.from = s.start /\ q.to = s.end /\ q.first = NoDate /\ q.last = NoDate /\ q.week = NoDate
          /\ s = Scope(s.start, s.end, TRUE)
      <4>1. AsksTimes(q, "patterns", s, m)
        BY <3>1, TimesAsked
      <4> QED
        BY <4>1 DEF AsksTimes
    <3>3. s.start \in Int /\ s.end \in Int /\ s.start < s.end
      BY <3>1 DEF Span, Exact
    <3>4. \A default : Resolve(asked, default) = {Scope(s.start, s.end, TRUE)}
      BY <1>3, <3>2, <3>3, ResolveTimes
    <3> QED
      BY <3>2, <3>3, <3>4, DatesNumbers DEF Explicit
  <2> QED
    BY <2>1, <2>2
<1>5. PatternsWindow(q) = {s}
  BY <1>4 DEF PatternsWindow
<1>6. PatternsMode(q, s) = IF m = "" THEN InferredMode(s) ELSE m
  BY <1>1, <1>2, <1>4 DEF PatternsMode
<1>7. Serve(q) = PatternsPage(q)
  BY <1>2 DEF Serve
<1>8. PatternsPage(q) # {}
  BY <1>5 DEF PatternsPage
<1>9. ASSUME NEW p \in PatternsPage(q)
      PROVE  p.path = "patterns" /\ p.scope = s /\ p.mode = IF m = "" THEN InferredMode(s) ELSE m
  <2>1. p.path = "patterns" /\ p.scope \in PatternsWindow(q) /\ p.mode = PatternsMode(q, p.scope)
    BY ONLY p \in PatternsPage(q), PatternsPageIs
  <2> QED
    BY <1>5, <1>6, <2>1
<1> QED
  BY <1>7, <1>8, <1>9 DEF ShowsWindow

LEMMA TrendsShown == \A asked : \A p \in TrendsPage(asked) : TrendsOf(p, WithDefaults(asked))
BY TrendsPageIs

LEMMA TrendsServed ==
  ASSUME NEW q, q.path \in {"trends", "api/trends"}
  PROVE  Serve(q) = TrendsPage(q)
BY DEF Serve

(* There are trends if there is a window.                                      *)
LEMMA TrendsFound ==
  ASSUME NEW q, NEW days \in DaysBack(WithDefaults(q)), NEW s \in TrendsScopes(WithDefaults(q), days)
  PROVE  TrendsPage(q) # {}
BY DEF TrendsPage

LEMMA TrendsOpens ==
  ASSUME NavigationInv, NEW s, Dated(s), NEW q, q = AskScope("trends", s, "")
  PROVE  /\ q \in Queries /\ q.path = "trends" /\ Serve(q) # {} /\ Serve(q) = TrendsPage(q)
         /\ \A p \in Serve(q) : p.path = "trends" /\ p.scope = s /\ p.mode = InferredMode(s)
<1> DEFINE asked == AskDates("", q.first, q.last, "")
<1>1. WindowLink("trends", s, "")
  BY DEF WindowLink
<1>2. q \in Queries
  BY <1>1, LinkTruthful DEF LinkOK
<1>3. AsksDates(q, "trends", s, "")
  BY DatedAsked
<1>4. q.path = "trends" /\ q.first = First(s) /\ q.last = Last(s) /\ q.mode = "" /\ q.days = 0
  BY <1>3 DEF AsksDates
<1>5. First(s) \in Int /\ Last(s) \in Int /\ First(s) <= Last(s) /\ s = Dates(First(s), Last(s))
  BY DatedIs
<1>6. /\ asked.from = NoDate /\ asked.to = NoDate /\ asked.day = NoDate
      /\ asked.first = First(s) /\ asked.last = Last(s)
  BY <1>4 DEF AskDates, Query
<1>7. ~Bare(q) /\ WithDefaults(q) = q
  BY <1>2, <1>4, <1>5, DatesNumbers, DefaultsFilled DEF Bare
<1>8. DaysBack(q) = {0}
  BY <1>4 DEF DaysBack
<1>9. Resolve(asked, "") = {s}
  <2> HIDE DEF asked
  <2> QED
    BY <1>5, <1>6, ResolveDates
<1>10. \A days : TrendsScopes(q, days) = {s}
  BY <1>4, <1>9 DEF TrendsScopes
<1>11. TrendsMode(q, s) = InferredMode(s)
  <2>1. s # Always
    BY NotAlways
  <2> QED
    BY <1>4, <2>1 DEF TrendsMode
<1>12. Serve(q) = TrendsPage(q) /\ TrendsPage(q) # {}
  <2>1. 0 \in DaysBack(WithDefaults(q)) /\ s \in TrendsScopes(WithDefaults(q), 0)
    BY <1>7, <1>8, <1>10
  <2>2. TrendsPage(q) # {}
    BY <2>1, TrendsFound
  <2>3. q.path \in {"trends", "api/trends"}
    BY <1>4
  <2>4. Serve(q) = TrendsPage(q)
    BY ONLY <2>3, TrendsServed
  <2> QED
    BY <2>2, <2>4
<1>13. ASSUME NEW p \in TrendsPage(q)
       PROVE  p.path = "trends" /\ p.scope = s /\ p.mode = InferredMode(s)
  <2>1. TrendsOf(p, q)
    BY <1>7, TrendsShown
  <2> QED
    BY <1>10, <1>11, <2>1 DEF TrendsOf
<1> QED
  BY <1>2, <1>4, <1>12, <1>13

(* A call or a link for trends that are found is answered with their window.   *)
LEMMA CallOpens ==
  ASSUME NavigationInv, NEW s, NEW q, TrendsCall(q, s)
  PROVE  Serve(q) # {} /\ (q.mode = "" => \A p \in Serve(q) : p.scope = s)
<1>1. q \in Queries /\ WithDefaults(q) = q /\ Serve(q) = TrendsPage(q)
  <2>1. q \in Queries /\ WithDefaults(q) = q /\ q.path \in {"trends", "api/trends"}
    BY DEF TrendsCall
  <2> QED
    BY <2>1, TrendsServed
<1>2. PICK days : days \in DaysBack(q)
  BY DEF TrendsCall
<1>3. CASE q.mode = ""
  <2> DEFINE asked == AskDates("", q.first, q.last, "")
  <2>1. q.first \in Int /\ q.last \in Int /\ q.first <= q.last /\ s = Dates(q.first, q.last)
    BY <1>3 DEF TrendsCall
  <2>2. /\ asked.from = NoDate /\ asked.to = NoDate /\ asked.day = NoDate
        /\ asked.first = q.first /\ asked.last = q.last
    BY DEF AskDates, Query
  <2>3. Resolve(asked, "") = {s}
    <3> HIDE DEF asked
    <3> QED
      BY <2>1, <2>2, ResolveDates
  <2>4. \A n : TrendsScopes(q, n) = {s}
    BY <1>3, <2>3 DEF TrendsScopes
  <2>5. Serve(q) # {}
    BY <1>1, <1>2, <2>4, TrendsFound
  <2>6. ASSUME NEW p \in TrendsPage(q)
        PROVE  p.scope = s
    <3>1. \E n \in DaysBack(q) : p.scope \in TrendsScopes(q, n)
      BY <1>1, TrendsShown DEF TrendsOf
    <3> QED
      BY <2>4, <3>1
  <2> QED
    BY <1>1, <2>5, <2>6
<1>4. CASE q.mode # ""
  <2>1. TrendsScopes(q, days) # {}
    BY <1>1, <1>4 DEF TrendsScopes, Queries, QueryModes
  <2> QED
    BY <1>1, <1>2, <1>4, <2>1, TrendsFound
<1> QED
  BY <1>3, <1>4

LEMMA RelativeOpens ==
  ASSUME NavigationInv, NEW q \in RelativeLinks
  PROVE  q \in Queries /\ q.path = "trends" /\ Serve(q) # {}
<1>1. PICK n \in RelativeDays : q = AskTrends("trends", "relative", NoDate, NoDate, n)
  BY DEF RelativeLinks
<1>2. n \in Int
  BY NavigationAssumption
<1>3. q \in Queries
  <2>1. "relative" \in QueryModes /\ NoDate \in Parameter /\ "trends" \in Paths
    BY DEF QueryModes, Parameter, Paths
  <2> QED
    BY <1>1, <1>2, <2>1, AskTrendsOK
<1>4. q.path = "trends" /\ q.mode = "relative" /\ q.days = n
  BY <1>1 DEF AskTrends, AskDates, Query
<1>5. WithDefaults(q) = q
  BY <1>3, <1>4, DefaultsFilled DEF Bare
<1>6. n \in DaysBack(q)
  BY <1>4 DEF DaysBack
<1>7. TrendsScopes(q, n) = {Rolling(date, n)}
  BY <1>4 DEF TrendsScopes
<1>8. TrendsPage(q) # {}
  BY <1>5, <1>6, <1>7, TrendsFound
<1> QED
  BY <1>3, <1>4, <1>8, TrendsServed

(* The run log of a day, and its data.                                         *)
AsksDay(q, path, d) ==
  q \in Queries /\ q.path = path /\ q.day = d /\ q.from = NoDate /\ q.to = NoDate /\ q.mode = ""

LEMMA DayAsked == \A path \in Paths, d \in Int : AsksDay(AskDay(path, d), path, d)
<1> TAKE path \in Paths, d \in Int
<1>1. AskDay(path, d) \in Queries
  BY AskDayOK
<1> QED
  BY <1>1 DEF AsksDay, AskDay, Query

LEMMA RunLogOpens ==
  ASSUME NavigationInv, NEW d \in Int, NEW q, q = AskDay("run-log", d)
  PROVE  q \in Queries /\ q.path = "run-log" /\ Serve(q) # {} /\ \A p \in Serve(q) : DayPage(p, d, date)
<1>1. q \in Queries /\ q.path = "run-log" /\ q.day = d
  <2>1. AsksDay(q, "run-log", d)
    BY DayAsked, PathsAre
  <2> QED
    BY <2>1 DEF AsksDay
<1>2. RunLogDays(q) = {d}
  BY <1>1, DatesNumbers DEF RunLogDays
<1>3. Serve(q) = RunLogPage(q)
  BY <1>1 DEF Serve
<1>4. RunLogPage(q) # {}
  BY <1>2 DEF RunLogPage
<1>5. ASSUME NEW p \in RunLogPage(q)
      PROVE  DayPage(p, d, date)
  BY <1>1, <1>2, RunLogDayPage
<1> QED
  BY <1>1, <1>3, <1>4, <1>5

LEMMA AnswerIs == \A path, s : AnswerOf(path, s).scope = s /\ NoLinks(AnswerOf(path, s))
BY DEF AnswerOf, Page, NoLinks

LEMMA RunLogDataOpens ==
  ASSUME NEW d \in Int, NEW q, q = AskDay("api/run-log", d)
  PROVE  Serve(q) # {} /\ \A p \in Serve(q) : p.scope = Dates(d, d)
<1>1. q.path = "api/run-log" /\ q.day = d /\ q.from = NoDate /\ q.to = NoDate
  <2>1. AsksDay(q, "api/run-log", d)
    BY DayAsked, PathsAre
  <2> QED
    BY <2>1 DEF AsksDay
<1>2. Resolve(q, "") = {Dates(d, d)}
  BY <1>1, ResolveDay
<1>3. Serve(q) = {AnswerOf(q.path, s) : s \in Resolve(q, "")}
  BY <1>1 DEF Serve
<1> QED
  BY <1>2, <1>3, AnswerIs

LEMMA PatternsDataOpens ==
  ASSUME NEW s, Dated(s) \/ Exact(s), NEW q, q = AskScope("api/patterns", s, "")
  PROVE  Serve(q) # {} /\ \A p \in Serve(q) : p.scope = s
<1>1. q.path = "api/patterns" /\ Resolve(q, "latest week") = {s}
  <2>1. CASE Dated(s)
    <3>1. AsksDates(q, "api/patterns", s, "")
      BY <2>1, DatedAsked
    <3>2. q.path = "api/patterns" /\ q.first = First(s) /\ q.last = Last(s) /\ q.from = NoDate /\ q.to = NoDate
          /\ q.day = NoDate
      BY <3>1 DEF AsksDates
    <3>3. First(s) \in Int /\ Last(s) \in Int /\ First(s) <= Last(s) /\ s = Dates(First(s), Last(s))
      BY <2>1, DatedIs
    <3>4. Resolve(q, "latest week") = {Dates(First(s), Last(s))}
      BY <3>2, <3>3, ResolveDates
    <3> QED
      BY <3>2, <3>3, <3>4
  <2>2. CASE Exact(s)
    <3>1. AsksTimes(q, "api/patterns", s, "")
      BY <2>2, TimesAsked
    <3>2. /\ q.path = "api/patterns" /\ q.from = s.start /\ q.to = s.end /\ q.first = NoDate /\ q.last = NoDate
          /\ q.week = NoDate /\ q.day = NoDate /\ s = Scope(s.start, s.end, TRUE)
      BY <3>1 DEF AsksTimes
    <3>3. s.start \in Int /\ s.end \in Int /\ s.start < s.end
      BY <2>2 DEF Span, Exact
    <3>4. Resolve(q, "latest week") = {Scope(s.start, s.end, TRUE)}
      BY <3>2, <3>3, ResolveTimes
    <3> QED
      BY <3>2, <3>4
  <2> QED
    BY <2>1, <2>2
<1>2. Serve(q) = {AnswerOf(q.path, x) : x \in Resolve(q, "latest week")}
  BY <1>1 DEF Serve
<1> QED
  BY <1>1, <1>2, AnswerIs

(* The page of a window, of which such a link is served.                       *)
Opens(q, path, s, m) ==
  /\ Serve(q) # {}
  /\ \A p \in Serve(q) : WindowPage(p) /\ p.path = path /\ p.scope = s /\ p.mode = IF m = "" THEN InferredMode(s) ELSE m

LEMMA WindowOpens ==
  ASSUME NavigationInv
  PROVE  \A path, s, m : WindowLink(path, s, m) => Opens(AskScope(path, s, m), path, s, m)
<1> SUFFICES ASSUME NEW path, NEW s, NEW m, WindowLink(path, s, m), NEW q, q = AskScope(path, s, m)
             PROVE  Opens(q, path, s, m)
  OBVIOUS
<1>1. q \in Queries /\ Truthful(q) /\ q.path = path
  BY LinkTruthful DEF LinkOK
<1>2. CASE path = "report"
  <2>1. Serve(q) = ReportPage(q) /\ ShowsWindow(q, "report", s, m)
    <3>1. WindowLink("report", s, m) /\ q = AskScope("report", s, m)
      BY <1>2
    <3> QED
      BY ONLY <3>1, NavigationInv, ReportOpens
  <2>2. \A p \in ReportPage(q) : WindowPage(p)
    BY <1>1, <1>2, ReportWindowPage
  <2> QED
    BY <1>2, <2>1, <2>2 DEF Opens, ShowsWindow
<1>3. CASE path = "patterns"
  <2>1. Serve(q) = PatternsPage(q) /\ ShowsWindow(q, "patterns", s, m)
    <3>1. WindowLink("patterns", s, m) /\ q = AskScope("patterns", s, m)
      BY <1>3
    <3> QED
      BY ONLY <3>1, NavigationInv, PatternsOpens
  <2>2. \A p \in PatternsPage(q) : WindowPage(p)
    BY <1>1, <1>3, PatternsWindowPage
  <2> QED
    BY <1>3, <2>1, <2>2 DEF Opens, ShowsWindow
<1>4. CASE path = "trends"
  <2>1. Dated(s) /\ m = ""
    BY <1>4 DEF WindowLink
  <2>2. /\ Serve(q) # {} /\ Serve(q) = TrendsPage(q)
        /\ \A p \in Serve(q) : p.path = "trends" /\ p.scope = s /\ p.mode = InferredMode(s)
    BY <1>4, <2>1, TrendsOpens
  <2>3. ASSUME NEW p \in TrendsPage(q)
        PROVE  WindowPage(p)
    <3>1. WindowPage(p) \/ AllPage(p)
      BY <1>1, TrendsShape
    <3>2. p.scope # Always
      BY <2>1, <2>2, NotAlways
    <3> QED
      BY <3>1, <3>2 DEF AllPage
  <2> QED
    BY <1>4, <2>1, <2>2, <2>3 DEF Opens
<1> QED
  BY <1>2, <1>3, <1>4 DEF WindowLink

(* The windows that a page of a window links to.                               *)
LEMMA WindowsBeside ==
  ASSUME NEW p, WindowPage(p), p.mode # "rolling", ~p.scope.exact
  PROVE  /\ Dated(p.scope) /\ p.mode = InferredMode(p.scope)
         /\ WindowLink(p.path, WindowBefore(p.scope), Carried(p.path, p.mode))
         /\ WindowLink(p.path, WindowAfter(p.scope), Carried(p.path, p.mode))
         /\ p.mode = IF Carried(p.path, p.mode) = "" THEN InferredMode(p.scope) ELSE Carried(p.path, p.mode)
<1> DEFINE s == p.scope
           c == Carried(p.path, p.mode)
<1>1. Dated(s) /\ p.mode = InferredMode(s) /\ p.path \in {"report", "patterns", "trends"}
  BY DEF WindowPage, Fits, Exact
<1>2. c = IF p.path # "trends" /\ p.mode = "sprint" THEN "sprint" ELSE ""
  <2>1. p.mode \in {"day", "sprint", "weekly", "custom"}
    BY <1>1, InferredIs
  <2> QED
    BY <2>1, ModeValues DEF Carried
<1> HIDE DEF c
<1>3. ASSUME NEW w, Dated(w), InferredMode(w) = InferredMode(s)
      PROVE  WindowLink(p.path, w, c)
  <2>1. c = "sprint" => IsSprint(w)
    BY <1>1, <1>2, <1>3, InferredIs
  <2> QED
    BY <1>1, <1>2, <1>3, <2>1 DEF WindowLink
<1>4. /\ Dated(WindowBefore(s)) /\ InferredMode(WindowBefore(s)) = InferredMode(s)
      /\ Dated(WindowAfter(s)) /\ InferredMode(WindowAfter(s)) = InferredMode(s)
  BY <1>1, BeforeIs, AfterIs
<1>5. WindowLink(p.path, WindowBefore(s), c) /\ WindowLink(p.path, WindowAfter(s), c)
  BY <1>3, <1>4
<1> QED
  BY <1>1, <1>2, <1>5 DEF c

LEMMA PresetWindows ==
  ASSUME NEW path \in {"report", "patterns", "trends"}, NEW d \in Int
  PROVE  /\ WindowLink(path, WeekOf(d), "") /\ WindowLink(path, SprintOf(d), Carried(path, "sprint"))
         /\ WindowLink(path, Dates(d, d), "")
         /\ path # "trends" => WindowLink(path, Rolling(d, 7), "rolling")
<1>1. Carried(path, "sprint") = IF path = "trends" THEN "" ELSE "sprint"
  BY ModeValues DEF Carried
<1>2. Dated(WeekOf(d)) /\ Dated(SprintOf(d)) /\ IsSprint(SprintOf(d)) /\ Dated(Dates(d, d))
  BY WeekIs, SprintDated, DayDated
<1>3. Dated(Rolling(d, 7)) /\ SpanDays(Rolling(d, 7)) = 7
  BY WeekRolling
<1> QED
  BY <1>1, <1>2, <1>3 DEF WindowLink

LEMMA LastDay == \A p : WindowPage(p) => p.scope \in Span /\ Last(p.scope) \in Int
<1> SUFFICES ASSUME NEW p, WindowPage(p) PROVE p.scope \in Span /\ Last(p.scope) \in Int
  OBVIOUS
<1>1. p.scope \in Span
  BY DatedIs DEF WindowPage, Exact
<1> QED
  BY <1>1, SpanDates

(* The same window, on the failure patterns or by its form.                    *)
LEMMA SameWindows ==
  ASSUME NEW p, WindowPage(p)
  PROVE  /\ p.path = "report" => WindowLink("patterns", p.scope, ModeValue(p.mode))
         /\ p.path = "trends" => WindowLink("trends", p.scope, "")
         /\ p.path = "patterns" => WindowLink("patterns", Scope(p.scope.start, p.scope.end, TRUE), "")
<1> DEFINE s == p.scope
           m == ModeValue(p.mode)
<1>1. p.path = "report" => WindowLink("patterns", s, m)
  <2> SUFFICES ASSUME p.path = "report" PROVE WindowLink("patterns", s, m)
    OBVIOUS
  <2>1. Dated(s) /\ Fits(s, p.mode, {7})
    BY DEF WindowPage
  <2>2. m \in {"", "rolling", "sprint"} /\ (m = "rolling" => p.mode = "rolling") /\ (m = "sprint" => p.mode = "sprint")
    BY DEF ModeValue
  <2>3. m = "rolling" => SpanDays(s) = 7
    BY <2>1, <2>2, InferredIs DEF Fits
  <2>4. m = "sprint" => IsSprint(s)
    BY <2>1, <2>2, InferredIs DEF Fits
  <2> HIDE DEF m
  <2> QED
    BY <2>1, <2>2, <2>3, <2>4 DEF WindowLink
<1>2. p.path = "trends" => WindowLink("trends", s, "")
  BY DEF WindowPage, WindowLink
<1>3. p.path = "patterns" => WindowLink("patterns", Scope(s.start, s.end, TRUE), "")
  <2>1. s \in Span
    BY LastDay
  <2>2. Exact(Scope(s.start, s.end, TRUE))
    BY <2>1 DEF Exact, Span, Scope
  <2> QED
    BY <2>2 DEF WindowLink
<1> QED
  BY <1>1, <1>2, <1>3

(* Whatever is asked for truthfully, the page has one of the known shapes.     *)
LEMMA ServeShape ==
  ASSUME NavigationInv, NEW q \in Queries, Truthful(q), NEW p \in Serve(q)
  PROVE  PageShape(p, date)
<1>1. CASE q.path = "/"
  <2>1. WindowLink("report", Rolling(date, 7), "rolling")
    BY TodayIs, PresetWindows
  <2>2. LandingQuery \in Queries /\ Truthful(LandingQuery) /\ LandingQuery.path = "report"
    BY <2>1, LinkTruthful DEF LandingQuery, LinkOK
  <2>3. p \in ReportPage(LandingQuery)
    BY <1>1 DEF Serve
  <2> QED
    BY <2>2, <2>3, ReportWindowPage DEF PageShape
<1>2. CASE q.path = "report"
  BY <1>2, ReportWindowPage DEF Serve, PageShape
<1>3. CASE q.path = "patterns"
  BY <1>3, PatternsWindowPage DEF Serve, PageShape
<1>4. CASE q.path = "global"
  <2> DEFINE base == Query("patterns")
             asked == [base EXCEPT !.week = q.week]
  <2>1. base \in Queries /\ q.week \in Parameter
    BY QueryOK, PathsAre DEF Queries
  <2>2. base.path = "patterns" /\ base.mode = ""
    BY DEF Query
  <2>3. p \in PatternsPage(asked)
    BY <1>4 DEF Serve
  <2> HIDE DEF base
  <2>4. asked \in Queries /\ asked.path = "patterns" /\ asked.mode = ""
    BY <2>1, <2>2 DEF Queries
  <2> HIDE DEF asked
  <2>5. Truthful(asked)
    BY <2>4, ModeValues DEF Truthful
  <2> QED
    BY <2>3, <2>4, <2>5, PatternsWindowPage DEF PageShape
<1>5. CASE q.path = "run-log"
  <2>1. p \in RunLogPage(q)
    BY <1>5 DEF Serve
  <2>2. PICK d \in RunLogDays(q) : d \in Int /\ DayPage(p, d, date)
    BY <2>1, RunLogDayPage
  <2>3. date \in Int /\ date <= date
    BY TodayIs
  <2> QED
    BY <2>2, <2>3 DEF PageShape
<1>6. CASE q.path \in {"trends", "api/trends"}
  <2>1. p \in TrendsPage(q)
    BY <1>6, TrendsServed
  <2> QED
    BY <2>1, TrendsShape DEF PageShape
<1>7. CASE q.path = "api/patterns"
  BY <1>7, AnswerIs DEF Serve, PageShape
<1>8. CASE q.path = "api/run-log"
  BY <1>8, AnswerIs DEF Serve, PageShape
<1> QED
  BY <1>1, <1>2, <1>3, <1>4, <1>5, <1>6, <1>7, <1>8 DEF Queries, Paths

GoodLink(q) == Truthful(q) /\ Serve(q) # {}

LEMMA GoodWindowLink ==
  ASSUME NavigationInv
  PROVE  \A path, s, m : WindowLink(path, s, m) => GoodLink(AskScope(path, s, m))
<1> SUFFICES ASSUME NEW path, NEW s, NEW m, WindowLink(path, s, m) PROVE GoodLink(AskScope(path, s, m))
  OBVIOUS
<1>1. LinkOK(AskScope(path, s, m), path, m) /\ Opens(AskScope(path, s, m), path, s, m)
  BY LinkTruthful, WindowOpens
<1> QED
  BY <1>1 DEF LinkOK, Opens, GoodLink

LEMMA PlainTruthful == \A q : q.path \notin {"report", "patterns"} => Truthful(q)
BY DEF Truthful

LEMMA WindowPageLinks ==
  ASSUME NavigationInv, NEW p, WindowPage(p), NEW rel \in Rels, NEW q \in p.links[rel]
  PROVE  GoodLink(q)
<1> DEFINE s == p.scope
<1>1. s \in Span /\ Last(s) \in Int /\ p.path \in {"report", "patterns", "trends"}
  BY LastDay DEF WindowPage
<1>2. CASE rel \in {"previous", "next"}
  <2>1. p.links["previous"] = Beside(p, WindowBefore(s)) /\ p.links["next"] = Beside(p, WindowAfter(s))
    BY DEF WindowPage
  <2>2. p.mode # "rolling" /\ ~s.exact
    BY <1>2, <2>1 DEF Beside
  <2>3. /\ WindowLink(p.path, WindowBefore(s), Carried(p.path, p.mode))
        /\ WindowLink(p.path, WindowAfter(s), Carried(p.path, p.mode))
    BY <2>2, WindowsBeside
  <2>4. \/ q = AskScope(p.path, WindowBefore(s), Carried(p.path, p.mode))
        \/ q = AskScope(p.path, WindowAfter(s), Carried(p.path, p.mode))
    BY <1>2, <2>1, <2>2 DEF Beside
  <2> QED
    BY <2>3, <2>4, GoodWindowLink
<1>3. CASE rel \in {"weekly", "sprint", "day"}
  <2>1. /\ WindowLink(p.path, WeekOf(Last(s)), "") /\ WindowLink(p.path, SprintOf(Last(s)), Carried(p.path, "sprint"))
        /\ WindowLink(p.path, Dates(Last(s), Last(s)), "")
    BY <1>1, PresetWindows
  <2>2. \/ q = AskScope(p.path, WeekOf(Last(s)), "")
        \/ q = AskScope(p.path, SprintOf(Last(s)), Carried(p.path, "sprint"))
        \/ q = AskScope(p.path, Dates(Last(s), Last(s)), "")
    BY <1>3 DEF WindowPage
  <2> QED
    BY <2>1, <2>2, GoodWindowLink
<1>4. CASE rel = "rolling"
  <2>1. q \in RollingLinks(p.path)
    BY <1>4 DEF WindowPage
  <2>2. CASE p.path = "trends"
    <3>1. q \in RelativeLinks
      BY <2>1, <2>2 DEF RollingLinks
    <3>2. q.path = "trends" /\ Serve(q) # {}
      BY <3>1, RelativeOpens
    <3> QED
      BY <3>2, PlainTruthful DEF GoodLink
  <2>3. CASE p.path # "trends"
    <3>1. PICK d \in Int : q = AskScope(p.path, Rolling(d, 7), "rolling")
      BY <2>1, <2>3 DEF RollingLinks
    <3>2. WindowLink(p.path, Rolling(d, 7), "rolling")
      BY <1>1, <2>3, PresetWindows
    <3> QED
      BY <3>1, <3>2, GoodWindowLink
  <2> QED
    BY <2>2, <2>3
<1>5. CASE rel = "patterns"
  <2>1. p.path = "report" /\ q = AskScope("patterns", s, ModeValue(p.mode))
    BY <1>5 DEF WindowPage
  <2>2. WindowLink("patterns", s, ModeValue(p.mode))
    BY <2>1, SameWindows
  <2> QED
    BY <2>1, <2>2, GoodWindowLink
<1>6. CASE rel = "apply"
  <2>1. CASE p.path = "trends"
    <3>1. q = AskScope("trends", s, "")
      BY <1>6, <2>1 DEF WindowPage
    <3>2. WindowLink("trends", s, "")
      BY <2>1, SameWindows
    <3> QED
      BY <3>1, <3>2, GoodWindowLink
  <2>2. CASE p.path = "patterns"
    <3>1. q = AskTimes("patterns", s.start, s.end, "")
      BY <1>6, <2>2 DEF WindowPage
    <3>2. q = AskScope("patterns", Scope(s.start, s.end, TRUE), "")
      BY <3>1 DEF AskScope, Scope
    <3>3. WindowLink("patterns", Scope(s.start, s.end, TRUE), "")
      BY <2>2, SameWindows
    <3> QED
      BY <3>2, <3>3, GoodWindowLink
  <2>3. CASE p.path = "report"
    BY <1>6, <2>3 DEF WindowPage
  <2> QED
    BY <1>1, <2>1, <2>2, <2>3
<1>7. CASE rel = "api"
  <2>1. CASE p.path = "trends"
    <3>1. TrendsCall(q, s)
      BY <1>7, <2>1 DEF WindowPage
    <3>2. q.path = "api/trends"
      BY <3>1 DEF TrendsCall
    <3>3. Serve(q) # {}
      BY <3>1, CallOpens
    <3> QED
      BY <3>2, <3>3, PlainTruthful DEF GoodLink
  <2>2. CASE p.path = "patterns"
    <3>1. q = AskScope("api/patterns", s, "")
      BY <1>7, <2>2 DEF WindowPage
    <3>2. Dated(s) \/ Exact(s)
      BY DEF WindowPage
    <3>3. Serve(q) # {}
      BY <3>1, <3>2, PatternsDataOpens
    <3>4. q.path = "api/patterns"
      <4>1. AsksDates(q, "api/patterns", s, "") \/ AsksTimes(q, "api/patterns", s, "")
        BY <3>1, <3>2, DatedAsked, TimesAsked
      <4> QED
        BY <4>1 DEF AsksDates, AsksTimes
    <3> QED
      BY <3>3, <3>4, PlainTruthful DEF GoodLink
  <2>3. CASE p.path = "report"
    BY <1>7, <2>3 DEF WindowPage
  <2> QED
    BY <1>1, <2>1, <2>2, <2>3
<1> QED
  BY <1>2, <1>3, <1>4, <1>5, <1>6, <1>7 DEF Rels

LEMMA AllPageLinks ==
  ASSUME NavigationInv, NEW p, AllPage(p), NEW rel \in Rels, NEW q \in p.links[rel]
  PROVE  GoodLink(q)
<1>1. rel \in {"rolling", "weekly", "sprint", "api"}
  BY DEF AllPage
<1>2. CASE rel = "rolling"
  <2>1. q \in RelativeLinks
    BY <1>2 DEF AllPage
  <2>2. q.path = "trends" /\ Serve(q) # {}
    BY <2>1, RelativeOpens
  <2> QED
    BY <2>2, PlainTruthful DEF GoodLink
<1>3. CASE rel \in {"weekly", "sprint"}
  <2>1. PICK d \in Int : /\ p.links["weekly"] = {AskScope("trends", WeekOf(d), "")}
                         /\ p.links["sprint"] = {AskScope("trends", SprintOf(d), "")}
    BY DEF AllPage
  <2>2. WindowLink("trends", WeekOf(d), "") /\ WindowLink("trends", SprintOf(d), Carried("trends", "sprint"))
    BY PresetWindows
  <2>3. Carried("trends", "sprint") = ""
    BY DEF Carried
  <2>4. GoodLink(AskScope("trends", WeekOf(d), "")) /\ GoodLink(AskScope("trends", SprintOf(d), ""))
    BY <2>2, <2>3, GoodWindowLink
  <2> QED
    BY <1>3, <2>1, <2>4
<1>4. CASE rel = "api"
  <2>1. TrendsCall(q, Always)
    BY <1>4 DEF AllPage
  <2>2. q.path = "api/trends"
    BY <2>1 DEF TrendsCall
  <2>3. Serve(q) # {}
    BY <2>1, CallOpens
  <2> QED
    BY <2>2, <2>3, PlainTruthful DEF GoodLink
<1> QED
  BY <1>1, <1>2, <1>3, <1>4

LEMMA DayPageLinks ==
  ASSUME NavigationInv, NEW p, NEW d \in Int, NEW t, DayPage(p, d, t), NEW rel \in Rels, NEW q \in p.links[rel]
  PROVE  GoodLink(q)
<1>1. rel \in {"previous", "next", "patterns", "api"}
  BY DEF DayPage
<1>2. CASE rel \in {"previous", "next"}
  <2>1. PICK n \in Int : q = AskDay("run-log", n)
    <3>1. d - 1 \in Int /\ d + 1 \in Int
      OBVIOUS
    <3>2. q = AskDay("run-log", d - 1) \/ q = AskDay("run-log", d + 1)
      BY <1>2 DEF DayPage
    <3> QED
      BY <3>1, <3>2
  <2>2. q.path = "run-log" /\ Serve(q) # {}
    BY <2>1, RunLogOpens
  <2> QED
    BY <2>2, PlainTruthful DEF GoodLink
<1>3. CASE rel = "patterns"
  <2>1. q = AskDates("patterns", d, d, "")
    BY <1>3 DEF DayPage
  <2>2. q = AskScope("patterns", Dates(d, d), "")
    BY <2>1, DatesAre DEF AskScope
  <2>3. WindowLink("patterns", Dates(d, d), "")
    BY PresetWindows
  <2> QED
    BY <2>2, <2>3, GoodWindowLink
<1>4. CASE rel = "api"
  <2>1. q = AskDay("api/run-log", d)
    BY <1>4 DEF DayPage
  <2>2. AsksDay(q, "api/run-log", d)
    BY <2>1, DayAsked, PathsAre
  <2>3. q.path = "api/run-log"
    BY <2>2 DEF AsksDay
  <2>4. Serve(q) # {}
    BY <2>1, RunLogDataOpens
  <2> QED
    BY <2>3, <2>4, PlainTruthful DEF GoodLink
<1> QED
  BY <1>1, <1>2, <1>3, <1>4

LEMMA PageLinks ==
  ASSUME NavigationInv, NEW p, PageShape(p, date), NEW rel \in Rels, NEW q \in p.links[rel]
  PROVE  GoodLink(q)
<1>1. CASE WindowPage(p)
  BY <1>1, WindowPageLinks
<1>2. CASE AllPage(p)
  BY <1>2, AllPageLinks
<1>3. CASE NoLinks(p)
  BY <1>3 DEF NoLinks
<1>4. CASE \E d \in Int, t \in Int : t <= date /\ DayPage(p, d, t)
  BY <1>4, DayPageLinks
<1> QED
  BY <1>1, <1>2, <1>3, <1>4 DEF PageShape

-----------------------------------------------------------------------------
(* The pages that are reached by links.                                        *)

ShapeInv ==
  /\ NavigationInv
  /\ PageShape(page, date)
  /\ \A w \in dataWeeks : w % 7 = 0 /\ w <= date

LEMMA InitShape == NavigationInit => ShapeInv
<1> SUFFICES ASSUME NavigationInit PROVE ShapeInv
  OBVIOUS
<1>1. PageShape(page, date)
  BY AnswerIs DEF NavigationInit, NoPage, PageShape
<1> QED
  BY <1>1, InitNavigation DEF NavigationInit, ShapeInv

LEMMA ShapeStep == ShapeInv /\ [NavigationNext]_navvars => ShapeInv'
<1> SUFFICES ASSUME ShapeInv, [NavigationNext]_navvars PROVE ShapeInv'
  OBVIOUS
<1>1. NavigationInv /\ NavigationInv' /\ date \in Int
  BY NavigationStep, TodayIs DEF ShapeInv
<1>2. ASSUME NEW q \in Queries, Truthful(q), Open(q)
      PROVE  ShapeInv'
  <2>1. page' \in Serve(q) /\ UNCHANGED <<date, dataWeeks>>
    BY <1>2 DEF Open
  <2>2. PageShape(page', date')
    BY <1>1, <1>2, <2>1, ServeShape
  <2> QED
    BY <1>1, <2>1, <2>2 DEF ShapeInv
<1>3. CASE Tomorrow
  <2>1. page' = page /\ dataWeeks' = dataWeeks /\ date' = date + 1 /\ date <= date'
    BY <1>1, <1>3 DEF Tomorrow
  <2>2. \A t \in Int : t <= date => t <= date'
    BY <1>1, <2>1
  <2>3. PageShape(page', date')
    BY <2>1, <2>2 DEF ShapeInv, PageShape
  <2>4. \A w \in dataWeeks : w \in Int
    BY <1>1, NavigationAssumption DEF NavigationInv
  <2>5. \A w \in dataWeeks' : w % 7 = 0 /\ w <= date'
    BY <2>1, <2>2, <2>4 DEF ShapeInv
  <2> QED
    BY <1>1, <2>3, <2>5 DEF ShapeInv
<1>4. ASSUME NEW week \in Weeks, DataArrives(week) PROVE ShapeInv'
  <2>1. \A w \in dataWeeks' : w % 7 = 0 /\ w <= date'
    BY <1>4 DEF DataArrives, ShapeInv, IsMonday
  <2>2. PageShape(page', date')
    BY <1>4 DEF DataArrives, ShapeInv
  <2> QED
    BY <1>1, <2>1, <2>2 DEF ShapeInv
<1>5. CASE Visit
  <2>1. \A q \in Entries : q \in Queries /\ Truthful(q)
    BY NavigationAssumption, EntriesTruthful
  <2> QED
    BY <1>2, <1>5, <2>1 DEF Visit
<1>6. CASE Follow
  <2>1. \A rel \in Rels : \A q \in page.links[rel] : q \in Queries /\ Truthful(q)
    BY <1>1, PageLinks DEF ShapeInv, NavigationInv, PageOK, GoodLink
  <2> QED
    BY <1>2, <1>6, <2>1 DEF Follow
<1>7. CASE UNCHANGED navvars
  BY <1>1, <1>7 DEF navvars, ShapeInv
<1> QED
  BY <1>3, <1>4, <1>5, <1>6, <1>7 DEF NavigationNext

LEMMA AllOpen == ShapeInv => LinksOpen
BY PageLinks DEF ShapeInv, LinksOpen, GoodLink

(* The mode says what the window is.                                           *)
LEMMA InferredMeans ==
  \A s : /\ InferredMode(s) = "day" => IsDay(s)
         /\ InferredMode(s) = "sprint" => IsSprint(s)
         /\ InferredMode(s) = "weekly" => IsWeekly(s)
         /\ InferredMode(s) \in {"day", "sprint", "weekly", "custom"}
BY DEF InferredMode

LEMMA ModesTrue == ShapeInv => ModeTrue
<1> SUFFICES ASSUME ShapeInv PROVE ModeTrue
  OBVIOUS
<1>1. CASE WindowPage(page)
  <2>1. \/ page.mode = InferredMode(page.scope)
        \/ page.mode = "rolling" /\ SpanDays(page.scope) \in (IF page.path = "trends" THEN RelativeDays ELSE {7})
    BY <1>1 DEF WindowPage, Fits
  <2> QED
    BY <2>1, InferredMeans DEF ModeTrue
<1>2. CASE AllPage(page) \/ NoLinks(page)
  BY <1>2 DEF AllPage, NoLinks, ModeTrue
<1>3. ASSUME NEW d \in Int, NEW t \in Int, DayPage(page, d, t) PROVE ModeTrue
  <2>1. page.mode = "day" /\ IsDay(page.scope)
    BY <1>3, DayDated DEF DayPage
  <2> QED
    BY <2>1 DEF ModeTrue
<1> QED
  BY <1>1, <1>2, <1>3 DEF ShapeInv, PageShape

(* A page that is opened by the previous or next control of a window.          *)
LEMMA OpenedBeside ==
  ASSUME NavigationInv, NEW p, WindowPage(p), NEW rel \in {"previous", "next"}, NEW q \in p.links[rel]
  PROVE  /\ p.mode # "rolling" /\ Dated(p.scope) /\ p.mode = InferredMode(p.scope)
         /\ q = AskScope(p.path, IF rel = "previous" THEN WindowBefore(p.scope) ELSE WindowAfter(p.scope),
                         Carried(p.path, p.mode))
         /\ Opens(q, p.path, IF rel = "previous" THEN WindowBefore(p.scope) ELSE WindowAfter(p.scope),
                  Carried(p.path, p.mode))
<1> DEFINE s == p.scope
           c == Carried(p.path, p.mode)
           w == IF rel = "previous" THEN WindowBefore(s) ELSE WindowAfter(s)
<1>1. p.links[rel] = Beside(p, w)
  BY DEF WindowPage
<1> HIDE DEF w
<1>2. p.mode # "rolling" /\ ~s.exact /\ q = AskScope(p.path, w, c)
  BY <1>1 DEF Beside
<1>3. Dated(s) /\ p.mode = InferredMode(s) /\ WindowLink(p.path, WindowBefore(s), c) /\ WindowLink(p.path, WindowAfter(s), c)
  BY <1>2, WindowsBeside
<1>4. WindowLink(p.path, w, c)
  BY <1>3 DEF w
<1>5. Opens(q, p.path, w, c)
  BY <1>2, <1>4, WindowOpens
<1> QED
  BY <1>2, <1>3, <1>5 DEF w

(* The page beside the page of a window, whose control leads back.             *)
LEMMA ThereAndBack ==
  ASSUME NavigationInv, NEW p, WindowPage(p), NEW rel \in {"previous", "next"}, NEW there,
         there \in UNION {Serve(q) : q \in p.links[rel]},
         NEW back, back = IF rel = "previous" THEN "next" ELSE "previous"
  PROVE  /\ rel = "previous" => there.scope = WindowBefore(p.scope) /\ there.scope.end = p.scope.start
         /\ rel = "next" => there.scope = WindowAfter(p.scope) /\ there.scope.start = p.scope.end
         /\ {<<x.scope, x.mode>> : x \in UNION {Serve(q) : q \in there.links[back]}} = {<<p.scope, p.mode>>}
<1> DEFINE s == p.scope
           c == Carried(p.path, p.mode)
           w == IF rel = "previous" THEN WindowBefore(s) ELSE WindowAfter(s)
           b == IF back = "previous" THEN WindowBefore(w) ELSE WindowAfter(w)
<1>1. PICK q \in p.links[rel] : there \in Serve(q)
  OBVIOUS
<1>2. p.mode # "rolling" /\ Dated(s) /\ p.mode = InferredMode(s) /\ Opens(q, p.path, w, c)
  BY OpenedBeside
<1>3. /\ Dated(w) /\ InferredMode(w) = InferredMode(s) /\ b = s
      /\ rel = "previous" => w.end = s.start
      /\ rel = "next" => w.start = s.end
  BY <1>2, BeforeIs, AfterIs
<1>4. WindowPage(there) /\ there.path = p.path /\ there.scope = w /\ there.mode = IF c = "" THEN InferredMode(w) ELSE c
  BY <1>1, <1>2 DEF Opens
<1>5. c = "" \/ c = p.mode
  BY <1>2 DEF Carried, ModeValue
<1> HIDE DEF w, c, b
<1>6. there.mode = p.mode
  BY <1>2, <1>3, <1>4, <1>5
<1>7. ~w.exact
  BY <1>3, DatedIs
<1>8. there.links[back] = Beside(there, b)
  BY <1>4 DEF WindowPage, b
<1>9. there.links[back] = {AskScope(p.path, s, c)}
  BY <1>2, <1>3, <1>4, <1>6, <1>7, <1>8 DEF Beside, c
<1>10. Opens(AskScope(p.path, s, c), p.path, s, c)
  <2> DEFINE e == AskScope(p.path, s, c)
  <2>1. e \in there.links[back] /\ back \in {"previous", "next"}
    BY <1>9
  <2> HIDE DEF e
  <2>2. Opens(e, there.path, IF back = "previous" THEN WindowBefore(there.scope) ELSE WindowAfter(there.scope),
              Carried(there.path, there.mode))
    BY <1>4, <2>1, OpenedBeside
  <2>3. Opens(e, there.path, b, c)
    BY <1>4, <1>6, <2>2 DEF b, c
  <2> QED
    BY <1>3, <1>4, <2>3 DEF e
<1>11. \A x \in Serve(AskScope(p.path, s, c)) : x.scope = s /\ x.mode = p.mode
  BY <1>2, <1>5, <1>10 DEF Opens
<1>12. Serve(AskScope(p.path, s, c)) # {}
  BY <1>10 DEF Opens
<1>13. UNION {Serve(x) : x \in there.links[back]} = Serve(AskScope(p.path, s, c))
  BY <1>9
<1>14. {<<x.scope, x.mode>> : x \in UNION {Serve(y) : y \in there.links[back]}} = {<<s, p.mode>>}
  BY <1>11, <1>12, <1>13
<1>15. /\ rel = "previous" => there.scope = WindowBefore(s)
       /\ rel = "next" => there.scope = WindowAfter(s)
  BY <1>4 DEF w
<1>16. /\ rel = "previous" => there.scope.end = s.start
       /\ rel = "next" => there.scope.start = s.end
  BY <1>3, <1>4
<1> QED
  BY <1>14, <1>15, <1>16

(* The same for the days of the run log, of which tomorrow has none.           *)
LEMMA DayAndBack ==
  ASSUME NavigationInv, NEW p, NEW d \in Int, NEW t \in Int, t <= date, DayPage(p, d, t),
         NEW rel \in {"previous", "next"}, NEW there,
         there \in UNION {Serve(q) : q \in p.links[rel]},
         NEW back, back = IF rel = "previous" THEN "next" ELSE "previous"
  PROVE  /\ rel = "previous" => there.scope.end = p.scope.start
         /\ rel = "next" => there.scope.start = p.scope.end
         /\ {<<x.scope, x.mode>> : x \in UNION {Serve(q) : q \in there.links[back]}}
              = IF rel = "previous" /\ First(p.scope) > date THEN {} ELSE {<<p.scope, p.mode>>}
<1> DEFINE n == IF rel = "previous" THEN d - 1 ELSE d + 1
<1>1. PICK q \in p.links[rel] : there \in Serve(q)
  OBVIOUS
<1>2. q = AskDay("run-log", n) /\ n \in Int /\ n <= t
  <2>1. p.links[rel] = IF n <= t THEN {AskDay("run-log", n)} ELSE {}
    BY DEF DayPage
  <2>2. n \in Int
    OBVIOUS
  <2> HIDE DEF n
  <2> QED
    BY <1>1, <2>1, <2>2
<1>3. date \in Int
  BY TodayIs
<1>4. DayPage(there, n, date)
  BY <1>1, <1>2, RunLogOpens
<1>5. p.scope = Dates(d, d) /\ p.mode = "day" /\ there.scope = Dates(n, n)
  BY <1>4 DEF DayPage
<1>6. /\ p.scope.start = DayTicks * d /\ p.scope.end = DayTicks * (d + 1) /\ First(p.scope) = d
      /\ there.scope.start = DayTicks * n /\ there.scope.end = DayTicks * (n + 1)
  <2> HIDE DEF n
  <2>1. p.scope.start = DayTicks * d /\ p.scope.end = DayTicks * (d + 1) /\ First(p.scope) = d
    BY <1>5, DatesAre
  <2>2. there.scope.start = DayTicks * n /\ there.scope.end = DayTicks * (n + 1)
    BY <1>2, <1>5, DatesAre
  <2> QED
    BY <2>1, <2>2
<1>7. /\ rel = "previous" => n + 1 = d
      /\ rel = "next" => n = d + 1 /\ d <= date
  BY <1>2, <1>3
<1>8. there.links[back] = IF d <= date THEN {AskDay("run-log", d)} ELSE {}
  <2>1. rel = "previous" => there.links["next"] = IF n + 1 <= date THEN {AskDay("run-log", n + 1)} ELSE {}
    BY <1>4 DEF DayPage
  <2>2. rel = "next" => there.links["previous"] = IF n - 1 <= date THEN {AskDay("run-log", n - 1)} ELSE {}
    BY <1>4 DEF DayPage
  <2>3. rel = "next" => n - 1 = d
    BY <1>7
  <2> QED
    BY <1>7, <2>1, <2>2, <2>3
<1> HIDE DEF n
<1>9. CASE d <= date
  <2> DEFINE e == AskDay("run-log", d)
  <2>1. Serve(e) # {} /\ \A x \in Serve(e) : DayPage(x, d, date)
    BY RunLogOpens
  <2> HIDE DEF e
  <2>2. \A x \in Serve(e) : x.scope = p.scope /\ x.mode = p.mode
    BY <1>5, <2>1 DEF DayPage
  <2>3. UNION {Serve(x) : x \in there.links[back]} = Serve(e)
    BY <1>8, <1>9 DEF e
  <2>4. {<<x.scope, x.mode>> : x \in UNION {Serve(y) : y \in there.links[back]}} = {<<p.scope, p.mode>>}
    BY <2>1, <2>2, <2>3
  <2> QED
    BY <1>3, <1>6, <1>7, <1>9, <2>4
<1>10. CASE ~(d <= date)
  <2>1. there.links[back] = {} /\ rel = "previous" /\ d > date
    BY <1>3, <1>7, <1>8, <1>10
  <2> QED
    BY <1>6, <1>7, <2>1
<1> QED
  BY <1>9, <1>10

LEMMA LeadsBack == ShapeInv => BackAgain
<1> SUFFICES ASSUME ShapeInv PROVE BackAgain
  OBVIOUS
<1> DEFINE Back(there, rel) == {<<p.scope, p.mode>> : p \in UNION {Serve(q) : q \in there.links[rel]}}
           here == {<<page.scope, page.mode>>}
<1>1. NavigationInv
  BY DEF ShapeInv
<1>2. SUFFICES ASSUME NEW rel \in {"previous", "next"}, NEW there \in Opened(rel)
               PROVE  /\ rel = "previous" =>
                           /\ there.scope.end = page.scope.start
                           /\ Back(there, "next") = IF page.path = "run-log" /\ First(page.scope) > date THEN {} ELSE here
                      /\ rel = "next" =>
                           /\ there.scope.start = page.scope.end
                           /\ Back(there, "previous") = here
  BY DEF BackAgain
<1> DEFINE back == IF rel = "previous" THEN "next" ELSE "previous"
<1>3. there \in UNION {Serve(q) : q \in page.links[rel]}
  BY DEF Opened
<1>4. CASE WindowPage(page)
  <2>1. page.path # "run-log"
    BY <1>4 DEF WindowPage
  <2>2. /\ rel = "previous" => there.scope.end = page.scope.start
        /\ rel = "next" => there.scope.start = page.scope.end
        /\ Back(there, back) = here
    BY <1>1, <1>3, <1>4, ThereAndBack
  <2> QED
    BY <2>1, <2>2
<1>5. CASE AllPage(page) \/ NoLinks(page)
  <2>1. rel \in Rels \ {"rolling", "weekly", "sprint", "api"}
    BY DEF Rels
  <2>2. page.links[rel] = {}
    BY <1>5, <2>1 DEF AllPage, NoLinks
  <2> QED
    BY <1>3, <2>2
<1>6. ASSUME NEW d \in Int, NEW t \in Int, t <= date, DayPage(page, d, t)
      PROVE  /\ rel = "previous" =>
                  /\ there.scope.end = page.scope.start
                  /\ Back(there, "next") = IF page.path = "run-log" /\ First(page.scope) > date THEN {} ELSE here
             /\ rel = "next" =>
                  /\ there.scope.start = page.scope.end
                  /\ Back(there, "previous") = here
  <2>1. page.path = "run-log"
    BY <1>6 DEF DayPage
  <2>2. /\ rel = "previous" => there.scope.end = page.scope.start
        /\ rel = "next" => there.scope.start = page.scope.end
        /\ Back(there, back) = IF rel = "previous" /\ First(page.scope) > date THEN {} ELSE here
    BY <1>1, <1>3, <1>6, DayAndBack
  <2> QED
    BY <2>1, <2>2
<1> QED
  BY <1>4, <1>5, <1>6 DEF ShapeInv, PageShape

(* The report's previous window has as many days as its own.                   *)
LEMMA PreviousCompared == ShapeInv => ComparedWithPrevious
<1> SUFFICES ASSUME ShapeInv, page.path = "report", NEW there \in Opened("previous")
             PROVE  there.scope = Comparison(page.scope)
  BY DEF ComparedWithPrevious
<1> DEFINE s == page.scope
<1>1. NavigationInv
  BY DEF ShapeInv
<1>2. there \in UNION {Serve(q) : q \in page.links["previous"]}
  BY DEF Opened
<1>3. WindowPage(page)
  <2>1. page.links["previous"] # {}
    BY <1>2
  <2>2. ~NoLinks(page)
    BY <2>1, RelsAre DEF NoLinks
  <2> QED
    BY <2>2 DEF ShapeInv, PageShape, AllPage, DayPage
<1>4. there.scope = WindowBefore(s)
  BY <1>1, <1>2, <1>3, ThereAndBack
<1>5. First(s) \in Int /\ Last(s) \in Int /\ First(s) <= Last(s) /\ SpanDays(s) = Last(s) - First(s) + 1
  BY <1>3, DatedIs DEF WindowPage
<1>6. Cardinality(First(s)..Last(s)) = SpanDays(s)
  <2> DEFINE a == First(s)
             b == Last(s)
  <2>1. a \in Int /\ b \in Int /\ a <= b
    BY <1>5
  <2> HIDE DEF a, b
  <2>2. Cardinality(a..b) = IF a > b THEN 0 ELSE b - a + 1
    BY <2>1, FS_Interval
  <2>3. Cardinality(a..b) = b - a + 1
    BY <2>1, <2>2
  <2> QED
    BY <1>5, <2>3 DEF a, b
<1> QED
  BY <1>4, <1>6 DEF WindowBefore, Comparison, MetricDates


LEMMA BesideTheSame == ShapeInv => SameWindowBeside
<1> SUFFICES ASSUME ShapeInv PROVE SameWindowBeside
  OBVIOUS
<1> DEFINE s == page.scope
<1>1. NavigationInv
  BY DEF ShapeInv
<1>2. SUFFICES /\ \A q \in page.links["patterns"] : \A p \in Serve(q) : p.scope = s /\ p.mode = page.mode
               /\ \A q \in page.links["api"] : q.mode = "" => \A p \in Serve(q) : p.scope = s
  BY DEF SameWindowBeside, Opened
<1>3. CASE WindowPage(page)
  <2>1. ASSUME page.path = "report", NEW q \in page.links["patterns"], NEW p \in Serve(q)
        PROVE  p.scope = s /\ p.mode = page.mode
    <3> DEFINE m == ModeValue(page.mode)
    <3>1. q = AskScope("patterns", s, m)
      BY <1>3, <2>1 DEF WindowPage
    <3>2. WindowLink("patterns", s, m)
      BY <1>3, <2>1, SameWindows
    <3>3. Opens(q, "patterns", s, m)
      BY <1>1, <3>1, <3>2, WindowOpens
    <3>4. page.mode = IF m = "" THEN InferredMode(s) ELSE m
      <4>1. page.mode = InferredMode(s) \/ page.mode = "rolling"
        BY <1>3 DEF WindowPage, Fits
      <4>2. page.mode \in {"day", "sprint", "weekly", "custom", "rolling"}
        BY <4>1, InferredMeans
      <4> QED
        BY <4>1, <4>2, ModeValues
    <3> QED
      BY <2>1, <3>3, <3>4 DEF Opens
  <2>2. page.path # "report" => page.links["patterns"] = {}
    BY <1>3 DEF WindowPage
  <2>3. ASSUME page.path = "patterns", NEW q \in page.links["api"], NEW p \in Serve(q)
        PROVE  p.scope = s
    <3>1. q = AskScope("api/patterns", s, "") /\ (Dated(s) \/ Exact(s))
      BY <1>3, <2>3 DEF WindowPage
    <3> QED
      BY <2>3, <3>1, PatternsDataOpens
  <2>4. ASSUME page.path = "trends", NEW q \in page.links["api"], q.mode = "", NEW p \in Serve(q)
        PROVE  p.scope = s
    <3>1. TrendsCall(q, s)
      BY <1>3, <2>4 DEF WindowPage
    <3> QED
      BY <1>1, <2>4, <3>1, CallOpens
  <2>5. page.path = "report" => page.links["api"] = {}
    BY <1>3 DEF WindowPage
  <2>6. page.path \in {"report", "patterns", "trends"}
    BY <1>3 DEF WindowPage
  <2> QED
    BY <2>1, <2>2, <2>3, <2>4, <2>5, <2>6
<1>4. CASE AllPage(page)
  <2>1. page.links["patterns"] = {}
    BY <1>4, RelsAre DEF AllPage
  <2>2. ASSUME NEW q \in page.links["api"], q.mode = "", NEW p \in Serve(q)
        PROVE  p.scope = s
    <3>1. TrendsCall(q, Always) /\ s = Always
      BY <1>4, <2>2 DEF AllPage
    <3> QED
      BY <1>1, <2>2, <3>1, CallOpens
  <2> QED
    BY <2>1, <2>2
<1>5. CASE NoLinks(page)
  BY <1>5, RelsAre DEF NoLinks
<1>6. ASSUME NEW d \in Int, NEW t \in Int, DayPage(page, d, t)
      PROVE  /\ \A q \in page.links["patterns"] : \A p \in Serve(q) : p.scope = s /\ p.mode = page.mode
             /\ \A q \in page.links["api"] : q.mode = "" => \A p \in Serve(q) : p.scope = s
  <2> DEFINE w == Dates(d, d)
  <2>1. s = w /\ page.mode = "day" /\ page.links["patterns"] = {AskDates("patterns", d, d, "")}
        /\ page.links["api"] = {AskDay("api/run-log", d)}
    BY <1>6 DEF DayPage
  <2>2. Dated(w) /\ InferredMode(w) = "day" /\ ~w.exact /\ First(w) = d /\ Last(w) = d
    <3>1. Dated(w) /\ IsDay(w) /\ ~w.exact /\ First(w) = d /\ Last(w) = d
      BY DayDated, DatesAre
    <3> HIDE DEF w
    <3> QED
      BY <3>1, InferredIs
  <2>3. AskScope("patterns", w, "") = AskDates("patterns", d, d, "")
    BY <2>2 DEF AskScope
  <2>4. Opens(AskScope("patterns", w, ""), "patterns", w, "")
    BY <1>1, PresetWindows, WindowOpens
  <2>5. \A p \in Serve(AskDay("api/run-log", d)) : p.scope = w
    BY RunLogDataOpens
  <2> HIDE DEF w
  <2>6. \A p \in Serve(AskDates("patterns", d, d, "")) : p.scope = w /\ p.mode = "day"
    BY <2>2, <2>3, <2>4 DEF Opens
  <2> QED
    BY <2>1, <2>5, <2>6
<1> QED
  BY <1>3, <1>4, <1>5, <1>6 DEF ShapeInv, PageShape

-----------------------------------------------------------------------------
(* The presets of a page, and the window the report opens with.                *)

(* A window that begins and ends with a day has a first and a last day.        *)
LEMMA WholeDays ==
  ASSUME NEW s, NEW m \in Int, NEW n \in Int, s.start = DayTicks * m, s.end = DayTicks * (n + 1)
  PROVE  First(s) = m /\ Last(s) = n
<1> DEFINE d == Dates(m, n)
<1>1. d.start = DayTicks * m /\ d.end = DayTicks * (n + 1) /\ First(d) = m /\ Last(d) = n
  BY DatesAre
<1> HIDE DEF d
<1>2. First(s) = First(d) /\ Last(s) = Last(d)
  BY <1>1 DEF First, Last
<1> QED
  BY <1>1, <1>2

LEMMA WholeStart ==
  ASSUME NEW s \in Span, s.start % DayTicks = 0
  PROVE  First(s) \in Int /\ s.start = DayTicks * First(s)
<1> DEFINE a == s.start
           b == DayTicks
<1>1. a \in Int /\ b \in Nat \ {0} /\ a % b = 0
  BY Tick DEF Span
<1> HIDE DEF a, b
<1>2. a % b = a - b * (a \div b) /\ a \div b \in Int /\ b * (a \div b) \in Int
  BY <1>1
<1>3. a = b * (a \div b)
  BY <1>1, <1>2
<1> QED
  BY <1>2, <1>3 DEF First, a, b

(* A window of a kind is one of whole days, with exact bounds, too.            *)
KindDays(s, m, n) ==
  /\ m \in Int /\ n \in Int /\ s.start = DayTicks * m /\ s.end = DayTicks * (n + 1)
  /\ First(s) = m /\ Last(s) = n

LEMMA KindsOfSpan ==
  ASSUME NEW s \in Span
  PROVE  /\ IsDay(s) => \E m \in Int : KindDays(s, m, m)
         /\ IsWeekly(s) => \E m \in Int : m % 7 = 0 /\ KindDays(s, m, m + 6)
         /\ IsSprint(s) => \E m \in Int : m % 14 = 0 /\ KindDays(s, m, m + 13)
<1> DEFINE m == First(s)
<1>1. m \in Int
  BY SpanDates
<1>2. IsDay(s) => KindDays(s, m, m)
  <2> SUFFICES ASSUME IsDay(s) PROVE KindDays(s, m, m)
    OBVIOUS
  <2>1. s.start = DayTicks * m /\ s.end = s.start + DayTicks
    BY WholeStart DEF IsDay
  <2> HIDE DEF m
  <2>2. s.end = DayTicks * (m + 1)
    BY <1>1, <2>1, Tick
  <2> QED
    BY <1>1, <2>1, <2>2, WholeDays DEF KindDays
<1>3. IsWeekly(s) => m % 7 = 0 /\ KindDays(s, m, m + 6)
  <2> SUFFICES ASSUME IsWeekly(s) PROVE m % 7 = 0 /\ KindDays(s, m, m + 6)
    OBVIOUS
  <2>1. s.start = DayTicks * m /\ s.end = s.start + 7 * DayTicks /\ m % 7 = 0
    BY WholeStart DEF IsWeekly, IsMonday
  <2> DEFINE n == m + 6
  <2> HIDE DEF m
  <2>2. n \in Int /\ s.end = DayTicks * (n + 1)
    BY <1>1, <2>1, Tick
  <2> HIDE DEF n
  <2>3. KindDays(s, m, n)
    BY <1>1, <2>1, <2>2, WholeDays DEF KindDays
  <2> QED
    BY <2>1, <2>3 DEF n
<1>4. IsSprint(s) => \E k \in Int : k % 14 = 0 /\ KindDays(s, k, k + 13)
  <2> SUFFICES ASSUME IsSprint(s) PROVE \E k \in Int : k % 14 = 0 /\ KindDays(s, k, k + 13)
    OBVIOUS
  <2> DEFINE k == 14 * SprintNumber(m)
             n == k + 13
  <2>1. s.start = SprintOf(m).start /\ s.end = SprintOf(m).end
    BY DEF IsSprint
  <2> HIDE DEF m
  <2>2. SprintNumber(m) \in Int /\ SprintOf(m) = Dates(k, k + 13)
    BY <1>1, SprintIs
  <2>3. k \in Int /\ k % 14 = 0 /\ SprintOf(m) = Dates(k, k + 13)
    <3> DEFINE j == SprintNumber(m)
    <3>1. j \in Int
      BY <2>2
    <3> HIDE DEF j
    <3>2. 14 * j \in Int /\ (14 * j) % 14 = 0
      BY <3>1
    <3> QED
      BY <2>2, <3>2 DEF j
  <2> HIDE DEF k
  <2>4. n \in Int /\ SprintOf(m) = Dates(k, n)
    BY <2>3
  <2> HIDE DEF n
  <2>5. s.start = DayTicks * k /\ s.end = DayTicks * (n + 1)
    <3>1. Dates(k, n).start = DayTicks * k /\ Dates(k, n).end = DayTicks * (n + 1)
      BY <2>3, <2>4, DatesAre
    <3> QED
      BY <2>1, <2>4, <3>1
  <2>6. KindDays(s, k, n)
    BY <2>3, <2>4, <2>5, WholeDays DEF KindDays
  <2> QED
    BY <2>3, <2>6 DEF n
<1> QED
  BY <1>1, <1>2, <1>3, <1>4

(* The windows of a kind around a day.                                         *)
Preset(rel, d) == IF rel = "weekly" THEN WeekOf(d) ELSE IF rel = "sprint" THEN SprintOf(d) ELSE Dates(d, d)

LEMMA PresetHolds ==
  ASSUME NEW d \in Int, NEW rel \in {"weekly", "sprint", "day"}, rel = "sprint" => d >= 0
  PROVE  First(Preset(rel, d)) <= d /\ d <= Last(Preset(rel, d))
<1>1. CASE rel = "weekly"
  <2> DEFINE m == MondayOf(d)
             n == m + 6
  <2>1. m \in Int /\ m <= d /\ d <= m + 6 /\ WeekOf(d) = Dates(m, m + 6)
    BY WeekIs
  <2> HIDE DEF m
  <2>2. n \in Int /\ d <= n /\ WeekOf(d) = Dates(m, n)
    BY <2>1
  <2> HIDE DEF n
  <2> QED
    BY <1>1, <2>1, <2>2, DatesAre DEF Preset
<1>2. CASE rel = "sprint"
  <2> DEFINE m == 14 * SprintNumber(d)
             n == m + 13
  <2>1. m \in Int /\ m <= d /\ d <= m + 13 /\ SprintOf(d) = Dates(m, m + 13)
    BY <1>2, SprintIs
  <2> HIDE DEF m
  <2>2. n \in Int /\ d <= n /\ SprintOf(d) = Dates(m, n)
    BY <2>1
  <2> HIDE DEF n
  <2> QED
    BY <1>2, <2>1, <2>2, DatesAre DEF Preset
<1>3. CASE rel = "day"
  <2>1. First(Dates(d, d)) = d /\ Last(Dates(d, d)) = d
    BY DatesAre
  <2> QED
    BY <1>3, <2>1 DEF Preset
<1> QED
  BY <1>1, <1>2, <1>3

(* The preset of a window of its kind is the window.                           *)
SameBounds(s, w) == <<w.start, w.end>> = <<s.start, s.end>>

LEMMA SameDates ==
  ASSUME NEW s, NEW m, NEW n, KindDays(s, m, n)
  PROVE  SameBounds(s, Dates(m, n))
BY DatesAre DEF KindDays, SameBounds

LEMMA PresetSame ==
  ASSUME NEW s \in Span, NEW rel \in {"weekly", "sprint", "day"}, InferredMode(s) = rel,
         rel = "sprint" => Last(s) >= 0
  PROVE  SameBounds(s, Preset(rel, Last(s)))
<1>1. CASE rel = "weekly"
  <2>1. IsWeekly(s)
    BY <1>1, InferredMeans
  <2>2. PICK m \in Int : m % 7 = 0 /\ KindDays(s, m, m + 6)
    BY <2>1, KindsOfSpan
  <2>3. Last(s) = m + 6 /\ MondayOf(m + 6) = m
    BY <2>2 DEF KindDays, MondayOf
  <2>4. WeekOf(Last(s)) = Dates(m, m + 6)
    BY <2>3 DEF WeekOf
  <2>5. SameBounds(s, Dates(m, m + 6))
    BY <2>2, SameDates
  <2> QED
    BY <1>1, <2>4, <2>5 DEF Preset
<1>2. CASE rel = "sprint"
  <2>1. IsSprint(s)
    BY <1>2, InferredMeans
  <2>2. PICK m \in Int : m % 14 = 0 /\ KindDays(s, m, m + 13)
    BY <2>1, KindsOfSpan
  <2> DEFINE d == m + 13
             k == 14 * SprintNumber(d)
  <2>3. Last(s) = d /\ d \in Int /\ d >= 0
    BY <1>2, <2>2 DEF KindDays
  <2> HIDE DEF d
  <2>4. SprintNumber(d) \in Int /\ SprintOf(d) = Dates(k, k + 13) /\ k <= d /\ d <= k + 13
    BY <2>3, SprintIs
  <2>5. k = m
    BY <2>2, <2>4 DEF d
  <2>6. SprintOf(Last(s)) = Dates(m, m + 13)
    BY <2>3, <2>4, <2>5
  <2>7. SameBounds(s, Dates(m, m + 13))
    BY <2>2, SameDates
  <2> QED
    BY <1>2, <2>6, <2>7 DEF Preset
<1>3. CASE rel = "day"
  <2>1. IsDay(s)
    BY <1>3, InferredMeans
  <2>2. PICK m \in Int : KindDays(s, m, m)
    BY <2>1, KindsOfSpan
  <2>3. Last(s) = m /\ SameBounds(s, Dates(m, m))
    BY <2>2, SameDates DEF KindDays
  <2> QED
    BY <1>3, <2>3 DEF Preset
<1> QED
  BY <1>1, <1>2, <1>3

LEMMA PresetsHold == ShapeInv => PresetsAround
<1> SUFFICES ASSUME ShapeInv, NEW rel \in {"weekly", "sprint", "day"}, NEW p \in Opened(rel),
                    page.scope # Always, rel = "sprint" => Last(page.scope) >= 0
             PROVE  /\ First(p.scope) <= Last(page.scope) /\ Last(page.scope) <= Last(p.scope)
                    /\ page.mode = rel => SameBounds(page.scope, p.scope)
  BY DEF PresetsAround, SameBounds
<1> DEFINE s == page.scope
<1>1. NavigationInv
  BY DEF ShapeInv
<1>2. PICK q \in page.links[rel] : p \in Serve(q)
  BY DEF Opened
<1>3. WindowPage(page)
  <2>1. ~NoLinks(page)
    BY <1>2, RelsAre DEF NoLinks
  <2>2. ~AllPage(page)
    BY DEF AllPage
  <2>3. \A d, t \in Int : ~DayPage(page, d, t)
    <3>1. rel \in Rels \ {"previous", "next", "patterns", "api"} /\ page.links[rel] # {}
      BY <1>2, RelsAre
    <3> QED
      BY <3>1 DEF DayPage
  <2> QED
    BY <2>1, <2>2, <2>3 DEF ShapeInv, PageShape
<1>4. s \in Span /\ Last(s) \in Int /\ page.path \in {"report", "patterns", "trends"}
  BY <1>3, LastDay DEF WindowPage
<1> DEFINE w == Preset(rel, Last(s))
           c == IF rel = "sprint" THEN Carried(page.path, "sprint") ELSE ""
<1>5. q = AskScope(page.path, w, c)
  <2>1. /\ page.links["weekly"] = {AskScope(page.path, WeekOf(Last(s)), "")}
        /\ page.links["sprint"] = {AskScope(page.path, SprintOf(Last(s)), Carried(page.path, "sprint"))}
        /\ page.links["day"] \subseteq {AskScope(page.path, Dates(Last(s), Last(s)), "")}
    BY <1>3 DEF WindowPage
  <2> QED
    BY <1>2, <2>1 DEF Preset
<1>6. WindowLink(page.path, w, c)
  BY <1>4, PresetWindows DEF Preset
<1>7. p.scope = w
  <2>1. Opens(q, page.path, w, c)
    BY <1>1, <1>5, <1>6, WindowOpens
  <2> QED
    BY <1>2, <2>1 DEF Opens
<1>8. First(w) <= Last(s) /\ Last(s) <= Last(w)
  BY <1>4, PresetHolds
<1>9. ASSUME page.mode = rel PROVE SameBounds(s, w)
  <2>1. InferredMode(s) = rel
    BY <1>3, <1>9 DEF WindowPage, Fits
  <2> QED
    BY <1>4, <2>1, PresetSame
<1> HIDE DEF w
<1> QED
  BY <1>7, <1>8, <1>9

(* A Monday that has begun, and is not that of today's week, is of one before. *)
LEMMA WeekOver ==
  ASSUME NEW d \in Int, NEW w \in Int, w % 7 = 0
  PROVE  /\ w <= d /\ w # MondayOf(d) => w < MondayOf(d)
         /\ w < MondayOf(d) => Last(WeekOf(w)) < d
         /\ w + 6 < d => w < MondayOf(d) /\ Last(WeekOf(w)) < d
<1> DEFINE m == MondayOf(d)
<1>1. m \in Int /\ m % 7 = 0 /\ m <= d /\ d <= m + 6
  BY WeekIs
<1> HIDE DEF m
<1>2. /\ w <= d /\ w # m => w < m
      /\ w < m <=> w + 6 < d
  BY <1>1
<1>3. MondayOf(w) = w
  BY DEF MondayOf
<1>4. Last(WeekOf(w)) = w + 6
  <2> DEFINE n == w + 6
  <2>1. n \in Int
    OBVIOUS
  <2> HIDE DEF n
  <2>2. Last(Dates(w, n)) = n
    BY <2>1, DatesAre
  <2> QED
    BY <1>3, <2>2 DEF WeekOf, n
<1> QED
  BY <1>2, <1>4 DEF m

LEMMA OpensComplete == ShapeInv => ReportOpensComplete
<1> SUFFICES ASSUME ShapeInv, NEW week \in dataWeeks, week + 6 < date, NEW p \in Serve(Query("report"))
             PROVE  Last(p.scope) < date
  BY DEF ReportOpensComplete
<1> DEFINE monday == MondayOf(date)
           past == {w \in dataWeeks : w < monday}
<1>1. dataWeeks \subseteq Int /\ IsFiniteSet(dataWeeks) /\ date \in Int /\ \A w \in dataWeeks : w % 7 = 0 /\ w <= date
  BY TodayIs, NavigationAssumption DEF ShapeInv, NavigationInv
<1>2. week \in past
  BY <1>1, WeekOver
<1>3. past \in SUBSET Int /\ IsFiniteSet(past) /\ past # {}
  BY <1>1, <1>2, FS_Subset
<1>4. LatestCompleteWeek(dataWeeks) = Max(past)
  BY <1>2 DEF LatestCompleteWeek
<1>5. LatestCompleteWeek(dataWeeks) \in past
  <2> HIDE DEF past
  <2> QED
    BY <1>3, <1>4, MaxIs
<1>6. ResolveWindow \in dataWeeks /\ Last(WeekOf(ResolveWindow)) < date
  <2>1. CASE ResolveWindow = LatestCompleteWeek(dataWeeks)
    BY <1>1, <1>5, <2>1, WeekOver
  <2>2. CASE DefaultWeek \in dataWeeks /\ DefaultWeek # monday /\ ResolveWindow = DefaultWeek
    BY <1>1, <2>2, WeekOver
  <2>3. CASE dataWeeks = {DefaultWeek} /\ ResolveWindow = DefaultWeek
    <3>1. ResolveWindow = week
      BY <2>3
    <3> QED
      BY <1>1, <3>1, WeekOver
  <2> QED
    BY <2>1, <2>2, <2>3 DEF ResolveWindow
<1>7. p.scope = WeekOf(ResolveWindow)
  <2> DEFINE q == Query("report")
             asked == [q EXCEPT !.from = NoDate, !.to = NoDate, !.day = NoDate]
  <2>1. /\ q.path = "report" /\ ModeValue(q.mode) = ""
        /\ asked.from = NoDate /\ asked.to = NoDate /\ asked.day = NoDate
        /\ asked.first = NoDate /\ asked.last = NoDate /\ asked.week = NoDate
    BY ModeValues DEF Query
  <2>2. Resolve(asked, "latest week") = ResolveWeekWindow
    <3> HIDE DEF asked
    <3> QED
      BY <2>1 DEF Resolve
  <2>3. ReportWindow(q) = ResolveWeekWindow
    BY <2>1, <2>2 DEF ReportWindow
  <2>4. Serve(q) = ReportPage(q)
    BY <2>1 DEF Serve
  <2>5. p.scope \in ReportWindow(q)
    BY <2>4, ReportPageIs
  <2> QED
    BY <1>2, <2>3, <2>5 DEF ResolveWeekWindow
<1> QED
  BY <1>6, <1>7

LEMMA ShapeSound == ShapeInv => NavigationSound
BY AllOpen, LeadsBack, PreviousCompared, ModesTrue, BesideTheSame, PresetsHold, OpensComplete DEF NavigationSound

(* Moving through the pages is sound, whatever is read, typed and configured:  *)
(* every link opens, previous and next lead there and back, the time selector  *)
(* tells the truth, and the report opens with a week that is over.             *)
THEOREM NavigationAlwaysSound == NavigationSpec => []NavigationSound
<1>1. NavigationSpec => []ShapeInv
  BY InitShape, ShapeStep, PTL DEF NavigationSpec
<1> QED
  BY <1>1, ShapeSound, PTL

-----------------------------------------------------------------------------
(* The four parts together, of which each behavior moves one.                  *)

CallOK ==
  writes \in 0..MaxWrites /\ gone \in BOOLEAN /\ failed \in BOOLEAN /\ answer \in {"none", "facts", "error"}

LEMMA CallStep == CallOK /\ [LoadNext]_lvars => CallOK'
<1> SUFFICES ASSUME CallOK, [LoadNext]_lvars PROVE CallOK'
  OBVIOUS
<1>1. ASSUME NEW u \in LoadRuns, WriteRun(u) PROVE CallOK'
  BY <1>1, LoadAssumption DEF CallOK, WriteRun, reading
<1>2. ASSUME NEW f \in LoadRows, WriteRow(f) PROVE CallOK'
  BY <1>2, LoadAssumption DEF CallOK, WriteRow, reading
<1>3. CASE StartLoad \/ CallerGone \/ Answer
  BY <1>3 DEF CallOK, StartLoad, CallerGone, Answer
<1>4. ASSUME NEW e \in LoadEnvs,
             \/ Acquire(e) \/ GiveUp(e) \/ ListRunsOf(e) \/ ListRowsOf(e) \/ GetMissingRun(e)
             \/ KeepFacts(e) \/ QueryFails(e)
      PROVE  CallOK'
  BY <1>4 DEF CallOK, Acquire, GiveUp, ListRunsOf, ListRowsOf, GetMissingRun, KeepFacts, QueryFails, Advance
<1>5. CASE UNCHANGED lvars
  BY <1>5 DEF CallOK, lvars
<1> QED
  BY <1>1, <1>2, <1>3, <1>4, <1>5 DEF LoadNext

LEMMA LoadTyped == LoadInv /\ CallOK => LoadTypeOK
BY DEF LoadInv, CallOK, LoadTypeOK, StoreInv, LoaderType, Facts

FrontendInv == FactsInv /\ LoadInv /\ CallOK /\ TrendsInv /\ ShapeInv

LEMMA InitFrontend == Init => FrontendInv
<1>1. ASSUME LoadInit PROVE CallOK
  <2>1. writes \in 0..MaxWrites
    BY <1>1, LoadAssumption DEF LoadInit
  <2> QED
    BY <1>1, <2>1 DEF LoadInit, CallOK
<1> QED
  BY <1>1, InitFacts, InitLoad, InitTrends, InitShape DEF Init, FrontendInv

LEMMA FrontendStep == FrontendInv /\ [Next]_<<part, fvars, lvars, nvars, navvars>> => FrontendInv'
<1>1. [Next]_<<part, fvars, lvars, nvars, navvars>> =>
        [FactsNext]_fvars /\ [LoadNext]_lvars /\ [TrendsNext]_nvars /\ [NavigationNext]_navvars
  BY DEF Next
<1> QED
  BY <1>1, FactsStep, LoadStep, CallStep, TrendsStep, ShapeStep DEF FrontendInv

LEMMA FrontendIsTyped == FrontendInv => FrontendTypeOK
BY FactsTyped, LoadTyped, TrendsTyped, NavigationTyped DEF FrontendInv, ShapeInv, FrontendTypeOK

(* Facts, flags and pages, loads, trends and metrics, and pages with their     *)
(* links keep their types.                                                     *)
THEOREM FrontendTyped == Spec => []FrontendTypeOK
BY InitFrontend, FrontendStep, FrontendIsTyped, PTL DEF Spec

LEMMA FrontendIsSafe ==
  FrontendInv => /\ FlagJustified /\ SurfacesAgree /\ NewMeansUnseen
                 /\ LoadKeepsStoredRows /\ TrendsHonest /\ OverviewMatchesTrends
                 /\ NavigationSound
BY FlagIsJustified, SurfacesDoAgree, NewIsUnseen, LoadIsWhole, TrendsAreHonest, OverviewDoesMatch, ShapeSound
   DEF FrontendInv

(* The frontend as it is checked keeps its promises in all parts at once: the  *)
(* flags of the patterns, what surfaces and pages agree on, whole loads,       *)
(* honest trends and overview, and links that lead where they say.             *)
THEOREM FrontendSafe ==
  Spec => [](/\ FlagJustified /\ SurfacesAgree /\ NewMeansUnseen
             /\ LoadKeepsStoredRows /\ TrendsHonest /\ OverviewMatchesTrends
             /\ NavigationSound)
BY InitFrontend, FrontendStep, FrontendIsSafe, PTL DEF Spec
=============================================================================
