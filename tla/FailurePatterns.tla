--------------------------- MODULE FailurePatterns ---------------------------
(* pkg/failurepatterns, its window package and pkg/source/lanes: how the raw   *)
(* failures of a window become failure patterns, and what is said of a pattern *)
(* from the weeks before.  No state: each operator is a function of loaded     *)
(* facts, [runs, rows], two sets of records as they are read from the store.   *)
(*   run: url, env, time, failed, good (post-good commit), pr (0: none)        *)
(*   row: id, url, env, time, backed (by an artifact), alerts (its artifact is *)
(*        junit_alerts.xml), suite, aro (the test name is one of ARO-HCP's),   *)
(*        test, text                                                           *)
(* A text is what the extractor makes of a failure's text: sig stands for the  *)
(* text itself; key, phrase, search and provider may be missing (0).  Phrases  *)
(* are numbers so that they have an order; a day is a unit of time.            *)
EXTENDS Integers, FiniteSets, FiniteSetsExt

CONSTANTS
  Week,           \* days of a week
  HistoryWeeks,   \* the history horizon, in weeks
  WeakPhrases,    \* phrases that say nothing of the cause ("context deadline exceeded")
  AlertIdentity   \* [tests -> phrases], the alert a test asserts not to fire, 0 for none

ASSUME PatternsAssumption == Week \in Nat \ {0} /\ HistoryWeeks \in Nat \ {0}

Window(start, end) == [start |-> start, end |-> end]
Within(t, w) == w.start <= t /\ t < w.end
WeekStart(t) == t - (t % Week)

-----------------------------------------------------------------------------
(* Lanes.                                                                      *)

(* The rules of an environment: suite, whether only ARO-HCP's tests count, and *)
(* the lane.  No suite has two rules.                                          *)
LaneRules(env) ==
  CASE env = "dev" -> {<<"rp-api-compat-all/parallel", FALSE, "e2e">>,
                       <<"step graph", TRUE, "provision">>,
                       <<"templatize-pipeline", TRUE, "provision">>}
    [] env = "int" -> {<<"integration/parallel", FALSE, "e2e">>}
    [] env = "stg" -> {<<"stage/parallel", FALSE, "e2e">>}
    [] env = "prod" -> {<<"prod/parallel", FALSE, "e2e">>}
    [] OTHER -> {}

ClassifyLane(env, suite, aro) ==
  LET lanes == {rule[3] : rule \in {rule \in LaneRules(env) : rule[1] = suite /\ (rule[2] => aro)}} IN
  IF lanes = {} THEN "unknown" ELSE CHOOSE lane \in lanes : TRUE

DeriveLane(row) == IF row.alerts THEN "alert" ELSE ClassifyLane(row.env, row.suite, row.aro)

BucketSource(lane) == IF lane \in {"provision", "e2e", "alert"} THEN lane ELSE "other"

-----------------------------------------------------------------------------
(* Facts of a window.                                                          *)

ListRuns(store, env, w) == {r \in store.runs : r.env = env /\ Within(r.time, w)}
ListRows(store, env, w) == {row \in store.rows : row.env = env /\ Within(row.time, w)}
RunsOfRows(runs, rows) == {r \in runs : \E row \in rows : row.env = r.env /\ row.url = r.url}

(* LoadDateScopedFacts on a store at rest: the runs of the window and the run  *)
(* of every row of the window, in it or not (fillMissingRuns).                 *)
LoadFacts(store, envs, w) ==
  LET rows == UNION {ListRows(store, e, w) : e \in envs} IN
  [rows |-> rows,
   runs |-> (UNION {ListRuns(store, e, w) : e \in envs}) \cup RunsOfRows(store.runs, rows)]

(* sliceFactsByWindow: a row of the window brings its run.                     *)
SliceFacts(facts, w) ==
  LET rows == {row \in facts.rows : Within(row.time, w)} IN
  [rows |-> rows,
   runs |-> {r \in facts.runs : Within(r.time, w)} \cup RunsOfRows(facts.runs, rows)]

(* buildExtractedFailureRows, for one row with its run: an alert is named by   *)
(* what its test asserts, whatever its text is.                                *)
Extract(row, run) ==
  LET lane == DeriveLane(row)
      alert == IF lane = "alert" THEN AlertIdentity[row.test] ELSE 0
      Named(field) == IF alert # 0 THEN alert ELSE field
  IN
  [id |-> row.id, env |-> row.env, url |-> row.url, time |-> row.time, sig |-> row.text.sig,
   pr |-> run.pr, good |-> run.good, lane |-> lane, test |-> row.test,
   provider |-> row.text.provider, key |-> Named(row.text.key),
   phrase |-> Named(row.text.phrase), search |-> Named(row.text.search)]

(* Rows that stand for missing artifacts, and rows without run, are skipped.   *)
ExtractedRows(facts) ==
  {Extract(p[1], p[2]) : p \in {p \in facts.rows \X facts.runs :
                                  p[1].backed /\ p[1].env = p[2].env /\ p[1].url = p[2].url}}

-----------------------------------------------------------------------------
(* Patterns.                                                                   *)

(* aggregateExtractedRows: rows of one environment, source and key make one    *)
(* pattern; a row without key is one by itself.                                *)
BucketOf(x) == <<x.env, BucketSource(x.lane), x.key, IF x.key = 0 THEN x.id ELSE 0>>

(* The most common of the phrases that are there, the least of those.          *)
MostCommon(phraseOf) ==
  LET Count(p) == Cardinality({x \in DOMAIN phraseOf : phraseOf[x] = p})
      phrases == {phraseOf[x] : x \in DOMAIN phraseOf} \ {0}
  IN
  IF phrases = {} THEN 0 ELSE Min({p \in phrases : \A q \in phrases : Count(q) <= Count(p)})

(* compileFailurePattern; without any phrase a pattern shows its text.         *)
Compile(bucket, rows) ==
  LET common == MostCommon([x \in rows |-> x.phrase])
      phrase == IF common # 0 THEN common ELSE Min({x.sig : x \in rows})
      search == MostCommon([x \in rows |-> x.search])
  IN
  [id |-> bucket, env |-> bucket[1], phrase |-> phrase,
   search |-> IF search # 0 THEN search ELSE phrase, rows |-> rows, support |-> Cardinality(rows)]

PatternsOf(rows) ==
  {Compile(b, {x \in rows : BucketOf(x) = b}) : b \in {BucketOf(x) : x \in rows}}

WeakCanonical(x) == x.key = 0 \/ x.phrase \in WeakPhrases

(* Review items: a pattern with a row that hardly says anything, otherwise one *)
(* whose rows point at several providers.                                      *)
ReviewItems(patterns) ==
  {[reason |-> "weak_canonical_needs_review", pattern |-> p] :
     p \in {p \in patterns : \E x \in p.rows : WeakCanonical(x)}}
  \cup
  {[reason |-> "ambiguous_provider_anchor", pattern |-> p] :
     p \in {p \in patterns : /\ \A x \in p.rows : ~WeakCanonical(x)
                             /\ Cardinality({x.provider : x \in p.rows} \ {0}) > 1}}

ReviewSeverity(support) == IF support >= 5 THEN "high" ELSE IF support >= 2 THEN "medium" ELSE "low"

(* Prepare: facts and rows are kept for the whole window, whatever part is     *)
(* asked for later.                                                            *)
Prepare(store, envs, w) ==
  LET facts == LoadFacts(store, envs, w) IN
  [window |-> w, facts |-> facts, rows |-> ExtractedRows(facts)]

(* ResultForWindow; a window outside the prepared one is refused.              *)
Covers(prepared, w) == prepared.window.start <= w.start /\ w.end <= prepared.window.end
ResultForWindow(prepared, w) ==
  LET rows == {x \in prepared.rows : Within(x.time, w)} IN
  [facts |-> SliceFacts(prepared.facts, w), rows |-> rows, patterns |-> PatternsOf(rows)]

-----------------------------------------------------------------------------
(* Presence in the weeks before.                                               *)

(* Fault: one week too few.                                                    *)
PresenceWindowShort(end) ==
  LET anchor == WeekStart(end - 1) IN
  [start |-> anchor - (HistoryWeeks - 1) * Week, end |-> end, anchor |-> anchor]

(* ResolvePresenceWindow: the week of the window's last moment, and the weeks  *)
(* of the horizon before it.                                                   *)
PresenceWindow(end) ==
  LET anchor == WeekStart(end - 1) IN
  [start |-> anchor - HistoryWeeks * Week, end |-> end, anchor |-> anchor]

(* BadPRScoreAndReasons: dev only, no failure after the last push of a merged  *)
(* pull request, one known pull request, no earlier week.                      *)
BadPR(env, rows, otherEnvs, weeks) ==
  /\ \A x \in rows : ~x.good
  /\ env = "dev" /\ otherEnvs = {}
  /\ rows # {} /\ \A x, y \in rows : x.pr # 0 /\ x.pr = y.pr
  /\ weeks = {}

SeenInOther(named, env) == {p.env : p \in named} \ {env}

(* PresenceFor, of the resolver built from patterns: looked up by environment  *)
(* and phrase, whichever patterns bear it.                                     *)
Presence(patterns, pw, env, phrase) ==
  LET Seen(p) == {x \in p.rows : Within(x.time, pw)}
      named == {p \in patterns : p.phrase = phrase /\ Seen(p) # {}}
      rows == UNION {Seen(p) : p \in {p \in named : p.env = env}}
      weeks == {WeekStart(x.time) : x \in {x \in rows : x.time < pw.anchor}}
  IN
  [weeks |-> weeks, runs |-> {x.url : x \in rows},
   badPR |-> BadPR(env, rows, SeenInOther(named, env), weeks)]
=============================================================================
