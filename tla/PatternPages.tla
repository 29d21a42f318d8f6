---------------------------- MODULE PatternPages ----------------------------
(* Three views of one store of facts: the failure-patterns page               *)
(* (readmodel/patterns), a day of the run log (readmodel/runlog) and the      *)
(* review signals (readmodel/review).  Each prepares a window of its own and  *)
(* reads parts of it.  Only the facts are state: they grow and change as the  *)
(* controllers write them, and a view is what a request at that moment shows. *)
EXTENDS FailurePatterns, Functions

CONSTANTS
  SignalWeeks,   \* signalHorizonMinWeeks
  RunEnv,        \* [runs -> environments]
  RunPRs,        \* [runs -> sets of pull requests they may test, 0 for none]
  RunTimes,      \* [runs -> sets of times they may be said to have started at]
  FailureRun,    \* [failures -> runs]
  Shapes,        \* [failures -> sets of what they may be: artifact, test and text]
  Scopes,        \* windows a reader asks for
  EnvChoices,    \* sets of environments a reader asks for, {} for any
  MaxRestates    \* bound: how often a run's start is restated

VARIABLES facts, restates
fvars == <<facts, restates>>

ASSUME PagesAssumption ==
  /\ SignalWeeks \in Nat \ {0} /\ MaxRestates \in Nat
  /\ \A u \in DOMAIN RunEnv : RunTimes[u] \subseteq Int
  /\ \A w \in Scopes : w.start \in Int /\ w.end \in Int /\ w.start < w.end
  /\ \A f \in DOMAIN FailureRun : \A shape \in Shapes[f] : shape.backed =>
       {shape.text.sig, shape.text.phrase, shape.text.search, AlertIdentity[shape.test]} \subseteq Nat

(* No artifact reads like the text that stands for missing ones                *)
(* (rawFailureSyntheticText).                                                  *)
ASSUME MarkersApart ==
  \A f, g \in DOMAIN FailureRun : \A shape \in Shapes[f], other \in Shapes[g] :
    shape.backed /\ ~other.backed => shape.text.sig # other.text.sig

Runs == DOMAIN RunEnv
Failures == DOMAIN FailureRun
Envs == {RunEnv[u] : u \in Runs}
RunOf(u) == CHOOSE r \in facts.runs : r.url = u
Known(u) == \E r \in facts.runs : r.url = u
Replaced(old, new) == [facts EXCEPT !.runs = (@ \ {old}) \cup {new}]

FactsInit == facts = [runs |-> {}, rows |-> {}] /\ restates = 0

(* A source stores a failed run.                                               *)
StoreRun(u) ==
  /\ ~Known(u)
  /\ \E t \in RunTimes[u], pr \in RunPRs[u] :
       facts' = [facts EXCEPT !.runs = @ \cup {[url |-> u, env |-> RunEnv[u], time |-> t,
                                                 failed |-> TRUE, good |-> FALSE, pr |-> pr]}]
  /\ UNCHANGED restates

(* facts.runs finds that the pull request merged the commit the run tested.    *)
FindPostGood(u) ==
  /\ Known(u) /\ RunOf(u).env = "dev" /\ RunOf(u).pr # 0 /\ ~RunOf(u).good
  /\ facts' = Replaced(RunOf(u), [RunOf(u) EXCEPT !.good = TRUE])
  /\ UNCHANGED restates

(* Fault: the row of the run is inserted, not updated.                         *)
RestateInserting(u) ==
  /\ Known(u) /\ restates < MaxRestates
  /\ \E t \in RunTimes[u] \ {RunOf(u).time} :
       facts' = [facts EXCEPT !.runs = @ \cup {[RunOf(u) EXCEPT !.time = t]}]
  /\ restates' = restates + 1
(* The other source says the run started at another time.                      *)
Restate(u) ==
  /\ Known(u) /\ restates < MaxRestates
  /\ \E t \in RunTimes[u] \ {RunOf(u).time} :
       facts' = Replaced(RunOf(u), [RunOf(u) EXCEPT !.time = t])
  /\ restates' = restates + 1

RowOf(f, shape, t) ==
  [id |-> f, url |-> FailureRun[f], env |-> RunEnv[FailureRun[f]], time |-> t,
   backed |-> shape.backed, alerts |-> shape.alerts, suite |-> shape.suite, aro |-> shape.aro,
   test |-> shape.test, text |-> shape.text]
(* facts.raw-failures derives a failure; it keeps the time its run has now.    *)
StoreFailure(f) ==
  LET u == FailureRun[f] IN
  /\ Known(u) /\ \A row \in facts.rows : row.id # f
  /\ \E shape \in Shapes[f] :
       facts' = [facts EXCEPT !.rows = @ \cup {RowOf(f, shape, RunOf(u).time)}]
  /\ UNCHANGED restates

FactsNext ==
  \/ \E u \in Runs : StoreRun(u)
  \/ \E u \in Runs : FindPostGood(u)
  \/ \E u \in Runs : Restate(u)
  \/ \E f \in Failures : StoreFailure(f)

FactsSpec == FactsInit /\ [][FactsNext]_fvars

-----------------------------------------------------------------------------
(* Environments.  A reader who asks for none gets those that have something.   *)
TargetEnvironments(asked) == IF asked = {} THEN Envs ELSE asked
AvailableEnvironments(current) ==
  {r.env : r \in current.facts.runs} \cup {row.env : row \in current.facts.rows}
  \cup {p.env : p \in current.patterns}
FinalEnvironments(asked, current) == IF asked = {} THEN AvailableEnvironments(current) ELSE asked

-----------------------------------------------------------------------------
(* The failure-patterns page.                                                  *)

Earlier(a, b) == IF a < b THEN a ELSE b
MergeKey(p) == <<p.env, p.phrase, p.search>>

(* What the horizon knows of a pattern: failures of the patterns of its name.  *)
SignalReferences(p, horizon) == UNION {q.rows : q \in {q \in horizon.patterns : MergeKey(q) = MergeKey(p)}}
JobsAffected(rows) == Cardinality({x.url : x \in rows})
PostGoodCount(rows) == Cardinality({x \in rows : x.good})
SeenIn(p, patterns) == {q.env : q \in {q \in patterns : q.phrase = p.phrase}} \ {p.env}

(* buildInlineFailurePatternsRow: failures of the current window, the signal   *)
(* horizon's for the count after the last push, and the history's verdict.     *)
InlineRow(p, current, horizon, history, pw) ==
  LET horizonRefs == SignalReferences(p, horizon)
      scoringRefs == IF horizonRefs = {} THEN p.rows ELSE horizonRefs
  IN
  [id |-> p.id, env |-> p.env, phrase |-> p.phrase, search |-> p.search, source |-> p.id[2],
   refs |-> p.rows, failures |-> p.support, jobsAffected |-> JobsAffected(p.rows),
   afterLastPush |-> PostGoodCount(scoringRefs),
   presence |-> Presence(history.patterns, pw, p.env, p.phrase),
   seenIn |-> SeenIn(p, current.patterns)]

FilterBySource(rows, sources) == {row \in rows : sources = {} \/ row.source \in sources}

(* The numbers above the rows of an environment, of a window with bounds.      *)
EnvironmentSummary(env, page, sources) ==
  LET rows == FilterBySource({row \in page.rows : row.env = env}, sources)
      runs == {r \in page.facts.runs : r.env = env}
  IN
  [runs |-> Cardinality(runs), failedRuns |-> Cardinality({r \in runs : r.failed}),
   rawFailures |-> Cardinality({row \in page.facts.rows : row.env = env}),
   matched |-> SumFunctionOnSet([row \in rows |-> row.failures], rows),
   jobsAffected |-> JobsAffected(UNION {row.refs : row \in rows})]

(* buildFailurePatternsInline.                                                 *)
FailurePatternsPage(store, asked, scope) ==
  LET pw == PresenceWindow(scope.end)
      signalStart == Earlier(scope.start, WeekStart(scope.end - 1) - SignalWeeks * Week)
      historyStart == Earlier(scope.start, pw.start)
      prepared == Prepare(store, TargetEnvironments(asked), Window(Earlier(signalStart, historyStart), scope.end))
      current == ResultForWindow(prepared, scope)
      horizon == ResultForWindow(prepared, Window(signalStart, scope.end))
      history == ResultForWindow(prepared, Window(historyStart, scope.end))
  IN
  [environments |-> FinalEnvironments(asked, current), facts |-> current.facts,
   rows |-> {InlineRow(p, current, horizon, history, pw) : p \in current.patterns}]

-----------------------------------------------------------------------------
(* The run log.                                                                *)

(* Fault: the verdict is of the day itself.                                    *)
DayHistoryOfDay(prepared, day, pw) == ResultForWindow(prepared, day)
DayHistory(prepared, day, pw) == ResultForWindow(prepared, Window(Earlier(day.start, pw.start), day.end))

(* The pattern a failure is shown under: the one that has it as a reference,   *)
(* otherwise one with its run, time and text; of those the one of more         *)
(* failures, then the lesser phrase.                                           *)
SameRow(row, x) == row.env = x.env /\ row.id = x.id
SameTuple(row, x) == row.env = x.env /\ row.url = x.url /\ row.time = x.time /\ row.text.sig = x.sig
Preferred(patterns) ==
  LET most == {p \in patterns : \A q \in patterns : q.support <= p.support} IN
  CHOOSE p \in most : \A q \in most : p.phrase <= q.phrase
Attachment(row, patterns) ==
  LET own == {p \in patterns : \E x \in p.rows : SameRow(row, x)}
      alike == {p \in patterns : \E x \in p.rows : SameTuple(row, x)}
  IN
  IF own # {} THEN {Preferred(own)} ELSE IF alike # {} THEN {Preferred(alike)} ELSE {}

FailureRow(row, patterns, history, pw) ==
  LET clusters == Attachment(row, patterns) IN
  [id |-> row.id, lane |-> DeriveLane(row), sig |-> row.text.sig,
   test |-> row.test, suite |-> row.suite,
   clusters |-> {p.id : p \in clusters},
   verdicts |-> {Presence(history.patterns, pw, p.env, p.phrase) : p \in clusters}]

(* The summary of what a run's failures are attached to.                       *)
AttachmentSummary(run, failures) ==
  LET sigs == {x.sig : x \in failures}
      clusters == UNION {x.clusters : x \in failures}
      unmatched == {x \in failures : x.clusters = {}}
  IN
  CASE failures = {} -> IF run.failed THEN "failed_without_raw_rows" ELSE "no_failures"
    [] failures # {} /\ unmatched = failures -> "unmatched_only"
    [] unmatched # {} /\ unmatched # failures -> "mixed"
    [] OTHER -> IF Cardinality(sigs) = 1 /\ Cardinality(clusters) = 1
                THEN "single_clustered" ELSE "multiple_clustered"

(* Failures without a name count one by one.                                   *)
FailedTestCount(failures) ==
  Cardinality({IF x.test = "" /\ x.suite = "" THEN <<x.id>> ELSE <<x.suite, x.test>> : x \in failures})
RunBadPR(failures) == \E x \in failures : \E verdict \in x.verdicts : verdict.badPR

RunRow(run, rows, patterns, history, pw) ==
  LET failures == {FailureRow(row, patterns, history, pw) : row \in {row \in rows : row.url = run.url}} IN
  [url |-> run.url, env |-> run.env, failed |-> run.failed, failures |-> failures,
   sources |-> {BucketSource(x.lane) : x \in failures},
   failedTests |-> FailedTestCount(failures),
   summary |-> AttachmentSummary(run, failures),
   badPR |-> RunBadPR(failures)]

(* BuildDay: the runs of the day by their own time, with the failures of the   *)
(* day by theirs.                                                              *)
RunLogDay(store, asked, t) ==
  LET day == Window(t, t + 1)
      pw == PresenceWindow(day.end)
      prepared == Prepare(store, TargetEnvironments(asked), Window(Earlier(day.start, pw.start), day.end))
      current == ResultForWindow(prepared, day)
      history == DayHistory(prepared, day, pw)
      rows == {row \in prepared.facts.rows : Within(row.time, day)}
  IN
  {RunRow(run, {row \in rows : row.env = run.env}, current.patterns, history, pw) :
     run \in {run \in prepared.facts.runs : /\ run.env \in FinalEnvironments(asked, current)
                                            /\ Within(run.time, day)}}

FilterRunsByFailedAt(runs, sources) == {run \in runs : sources = {} \/ run.sources \cap sources # {}}

(* The numbers above the runs.                                                 *)
RunLogSummary(runs) ==
  [total |-> Cardinality(runs), failedRuns |-> Cardinality({run \in runs : run.failed}),
   withFailures |-> Cardinality({run \in runs : run.failures # {}}),
   matched |-> Cardinality({run \in runs : \E x \in run.failures : x.clusters # {}}),
   unmatched |-> Cardinality({run \in runs : \E x \in run.failures : x.clusters = {}})]

-----------------------------------------------------------------------------
(* Review signals.                                                             *)

(* Fault: one week of history is forgotten.                                    *)
ReviewHistoryStartShort(scope) == scope.start - (HistoryWeeks - 1) * Week
ReviewHistoryStart(scope) == scope.start - HistoryWeeks * Week

(* The patterns a review item is about: those that share a failure, or a run   *)
(* and a text, with it.                                                        *)
Matched(item, patterns) ==
  {q \in patterns : /\ q.env = item.pattern.env
                    /\ \E x \in item.pattern.rows, y \in q.rows :
                         x.url = y.url /\ (x.id = y.id \/ x.sig = y.sig)}

(* crossWindowPatternSignals: patterns whose name is not in the window before. *)
CrossWindowSignals(current, previous, history) ==
  LET Names(patterns) == {MergeKey(p) : p \in patterns} IN
  {[pattern |-> p,
    reason |-> IF MergeKey(p) \in Names(history) THEN "recurrence" ELSE "new_pattern",
    severity |-> IF MergeKey(p) \in Names(history) THEN "low"
                 ELSE IF p.support >= 5 THEN "high" ELSE "medium"] :
     p \in {p \in current : MergeKey(p) \notin Names(previous)}}

(* BuildWindow; all environments are looked at.                                *)
ReviewWindow(store, scope) ==
  LET compareStart == scope.start - (scope.end - scope.start)
      historyStart == ReviewHistoryStart(scope)
      prepared == Prepare(store, Envs, Window(Earlier(compareStart, historyStart), scope.end))
      current == ResultForWindow(prepared, scope)
      previous == ResultForWindow(prepared, Window(compareStart, scope.start))
      history == ResultForWindow(prepared, Window(historyStart, scope.start))
  IN
  [patterns |-> current.patterns,
   signals |-> CrossWindowSignals(current.patterns, previous.patterns, history.patterns),
   items |-> {[reason |-> item.reason, severity |-> ReviewSeverity(item.pattern.support),
               matched |-> Matched(item, current.patterns)] : item \in ReviewItems(current.patterns)}]

-----------------------------------------------------------------------------
(* Properties.                                                                 *)

AllFailures(asked) ==
  {x \in ExtractedRows([rows |-> facts.rows, runs |-> facts.runs]) : x.env \in TargetEnvironments(asked)}
NamedIn(rows, bucket) == Compile(bucket, {x \in rows : BucketOf(x) = bucket})

(* Each run has one row, and a failure only a stored run can have.             *)
FactsTypeOK ==
  /\ facts.runs \subseteq UNION {[url : {u}, env : {RunEnv[u]}, time : RunTimes[u], failed : {TRUE},
                                  good : BOOLEAN, pr : RunPRs[u]] : u \in Runs}
  /\ \A r, s \in facts.runs : r.url = s.url => r = s
  /\ \A row \in facts.rows : row.id \in Failures /\ row.url = FailureRun[row.id] /\ Known(row.url)
  /\ \A row, other \in facts.rows : row.id = other.id => row = other
  /\ restates \in 0..MaxRestates

(* A pattern flagged as a bad pull request earns it over the whole history     *)
(* horizon, not only over the window that is shown: its failures, post-good    *)
(* ones and those of earlier weeks included, are all of one known pull request *)
(* before its last push, in the window's last week, and no other environment   *)
(* that was asked for has a pattern of that name.  A pattern that went by      *)
(* another name over the history is excused: presence is looked up by name     *)
(* (BadPRScoreAndReasons, BuildPresenceResolverFromFailurePatterns).           *)
FlagJustified ==
  \A scope \in Scopes, asked \in EnvChoices :
    LET anchor == WeekStart(scope.end - 1)
        lookback == anchor - HistoryWeeks * Week
        past == {x \in AllFailures(asked) : Within(x.time, Window(Earlier(scope.start, lookback), scope.end))}
        Recent(x) == Within(x.time, Window(lookback, scope.end))
    IN
    \A row \in FailurePatternsPage(facts, asked, scope).rows :
      row.presence.badPR /\ NamedIn(past, row.id).phrase = row.phrase =>
        /\ \A x \in past : BucketOf(x) = row.id /\ Recent(x) =>
             /\ ~x.good /\ x.pr # 0 /\ x.time >= anchor
             /\ \A y \in past : BucketOf(y) = row.id /\ Recent(y) => x.pr = y.pr
        /\ \A x \in past : Recent(x) /\ x.env # row.env => NamedIn(past, BucketOf(x)).phrase # row.phrase

(* The page of a day and the run log of that day tell one story, filtered by   *)
(* source or not: every failure a page row counts is in the run log, under the *)
(* same pattern and with the same presence, unless its run has been said to    *)
(* have started on another day; every failure the run log attaches is counted  *)
(* by that row; a run is flagged when one of its patterns is; no failure is    *)
(* counted twice or lost; and the numbers of an environment are those of its   *)
(* runs in the log and of the runs that were moved.                            *)
SurfacesAgree ==
  \A scope \in {scope \in Scopes : scope.end = scope.start + 1}, asked \in EnvChoices :
    LET page == FailurePatternsPage(facts, asked, scope)
        log == RunLogDay(facts, asked, scope.start)
        shown == {x \in AllFailures(asked) : Within(x.time, scope)}
        Moved(urls) == {u \in urls : ~Within(RunOf(u).time, scope)}
    IN
    /\ \A row, other \in page.rows : row # other => row.refs \cap other.refs = {}
    /\ UNION {row.refs : row \in page.rows} = shown
    /\ \A sources \in {{}, {"provision"}, {"e2e", "alert"}} :
         \A row \in FilterBySource(page.rows, sources) : \A x \in row.refs :
           Within(RunOf(x.url).time, scope) =>
             \E run \in FilterRunsByFailedAt(log, sources) :
               /\ run.url = x.url
               /\ \E f \in run.failures : f.id = x.id /\ f.clusters = {row.id} /\ f.verdicts = {row.presence}
    /\ \A run \in log :
         /\ \A f \in run.failures : \A c \in f.clusters :
              \E row \in page.rows : row.id = c /\ \E x \in row.refs : x.id = f.id
         /\ run.badPR <=> \E row \in page.rows : row.presence.badPR /\ \E x \in row.refs : x.url = run.url /\ \E f \in run.failures : f.id = x.id
    /\ \A env \in page.environments :
         LET summary == EnvironmentSummary(env, page, {})
             runs == RunLogSummary({run \in log : run.env = env})
             failures == {x \in shown : x.env = env}
             rows == {row \in facts.rows : row.env = env /\ Within(row.time, scope)}
         IN
         /\ summary.matched = Cardinality(failures)
         /\ summary.jobsAffected = runs.matched + Cardinality(Moved({x.url : x \in failures}))
         /\ summary.failedRuns = runs.failedRuns + Cardinality(Moved({row.url : row \in rows}))

(* A review signal "new_pattern" is about a failure that was not seen in the   *)
(* history horizon before the window, nor in the window before it; a           *)
(* "recurrence" about one not seen in the window before; and a pattern without *)
(* signal was seen there.  A pattern that went by another name then, or        *)
(* another that had its name, is excused (crossWindowPatternSignals joins      *)
(* windows by name).                                                           *)
NewMeansUnseen ==
  \A scope \in Scopes :
    LET review == ReviewWindow(facts, scope)
        Before(start) == {x \in AllFailures(Envs) : Within(x.time, Window(start, scope.start))}
        previous == Before(scope.start - (scope.end - scope.start))
        history == Before(scope.start - HistoryWeeks * Week)
        UnderItsName(p, rows) ==
          /\ \E x \in rows : BucketOf(x) = p.id
          /\ MergeKey(NamedIn(rows, p.id)) = MergeKey(p)
        Reasons(p) == {s.reason : s \in {s \in review.signals : s.pattern = p}}
    IN
    \A p \in review.patterns :
      /\ UnderItsName(p, previous) => Reasons(p) = {}
      /\ UnderItsName(p, history) => "new_pattern" \notin Reasons(p)
      /\ Reasons(p) = {} => \E x \in previous : x.env = p.env /\ NamedIn(previous, BucketOf(x)).phrase = p.phrase
=============================================================================
