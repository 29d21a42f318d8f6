# Verification of the CI-health service

TLA+ models of ARO-HCP-CIHealth: the controllers of `cihealth run`, which copy what Sippy, Prow and GitHub
say of CI runs into PostgreSQL and derive facts from it, the migrations both run when they start, and the read
models, the cache and the pages of `cihealth app`.
TLC checks the models on small instances; TLAPS proves their safety properties for every value of the
constants.

Everything hard in this service comes from one design decision: the controllers are independent loops that
share tables and nothing else. There are no transactions around a controller's read, compute and write, so every
write may rest on rows that others have changed since, every step may fail and be retried, and the process may
stop between any two statements. The models keep exactly these steps apart and leave the texts out. The frontend
has the same problem from the other side: a page is put together from several queries over several overlapping
windows of facts that keep changing, and different pages must tell the same story of them.

## 1. Inventory

| Component | State it keeps | Operations | What makes it hard |
|---|---|---|---|
| work-queue loop (each controller) | queue, dirty, processing and waiting keys; workers | list keys every interval, process, retry with backoff, cancel, shut down | keys added while processed, shutdown with workers busy, the store closed underneath |
| `source.sippy.runs`, `source.prow.runs` | `cfa_runs`, one checkpoint per environment in `cfa_checkpoints` | list runs since the checkpoint minus a replay, merge with the stored rows, upsert, move the checkpoint; one run by `run-once` | runs published late and out of order; overlap of two processes; a failure between upsert and checkpoint |
| `facts.runs` | PR signals in `cfa_runs` | read a run, read its PR, compare, write the whole row back | full-row writes from stale copies |
| `source.prow.metadata` | timing and region columns of `cfa_runs` | two fetches, two statements, retry window from the first check | one of the two fails; rows overwritten by the upserts above |
| `source.prow.failures` | `cfa_artifact_failures`, a retry checkpoint per run | read JUnit files one by one; rows, a checkpoint or the marker "artifacts missing" | artifacts come late, partially or never; restarts within the retry window |
| `facts.raw-failures` | `cfa_raw_failures` | read run, artifacts and raw rows, compare, replace | three reads and a write while the run is corrected |
| `metrics.rollup.daily` | `cfa_metrics_daily` | per day and environment: list runs, list raw failures, read single runs anew, compare; one transaction for all environments | counts of several readings in one row |
| `source.github.pull-requests` | `cfa_pull_requests`, a checkpoint | pages of updated PRs until the checkpoint is met | page limit, equal times |
| `source.sippy.tests-daily` | `cfa_test_metadata_daily` | daily datapoints per period | partly present days |
| prepared window cache | one snapshot under a lock, a singleflight group, a timer | lookup, shared preparation, store, refresh | shared failures, late stores, change of week |
| failure-pattern windows | none: facts of a window, loaded per request | load environments side by side, slice, group, name and count patterns, presence in the weeks before | runs and failures are read apart while they are written; errors and cancelled callers |
| lane rules | none, a table | the lane of a suite and a test name | - |
| patterns page, run log, review | none | windows cut out of one prepared window, rows, attachment of failures, verdicts and signals | three pages, three sets of windows, one truth |
| trends, overview | none | buckets, validity, rates, changes | metrics missing, of older releases, or counted while runs changed |
| windows and page navigation | none; the links in pages that readers keep | query to window, time selector, presets, previous and next | five pages with defaults of their own, links followed days later |
| schema migrations | `cfa_meta_migrations` and the schema | each file in one transaction under an advisory lock | several processes of several releases start together and may die |
| extraction | none | failure texts to keys and phrases by regular expressions | text processing only |
| store: queries, normalisation, options | rows; an embedded database for development | statements of the parts above | - |
| clients, options, CLI, HTML | none or configuration | parsing, wiring, rendering | - |

Interaction: the run sources write rows that `facts.runs`, `source.prow.metadata`, `source.prow.failures` and
`facts.raw-failures` list and change; the raw failures and runs feed the rollup; PRs feed `facts.runs`; the app
reads everything. All of it goes through PostgreSQL. In the app, requests and the refresh goroutine share the
cache of prepared failure-pattern windows; trends and overview read the daily metrics. Every controller runs the
same loop. A command first migrates the schema when `--storage.postgres.initialize` is set.

What has to be right, by component, is in the properties of section 3; PROJECT.json lists the hazards at their
lines and the properties that would catch them.

## 2. Modules

| Module | Models | Notes |
|---|---|---|
| `KeyedReconciler` | what a controller's loop promises: a key that is asked for is reconciled, one at a time | abstract specification |
| `WorkQueue` | client-go's queue as the controllers use it, workers, lister, shutdown, closing of the store | refines `KeyedReconciler` by INSTANCE |
| `RunFacts` | a row of `cfa_runs` and the four controllers that write it | `Merged`, `Upserted`, `TimingAfter` translate the merges and the SQL |
| `RunIngest` | how the two run sources find runs: since, replay, window, checkpoint | complements RunFacts, which has what they write |
| `FailureFacts` | from JUnit artifacts to raw failures, two controllers | artifact rows as sets of failures |
| `DailyMetrics` | the rollup and its three readings | `DayMetrics` is the counting |
| `PreparedWindowCache` | requests, refresh, singleflight and snapshot | week and window in ticks |
| `PullRequestSync` | `source.github.pull-requests`: paging over a list that moves, limits, checkpoint | complements RunFacts, which has what the rows mean to runs |
| `TestsDaily` | `source.sippy.tests-daily`: missing periods, filters, the transaction | one environment, several dates |
| `Migrations` | processes of several releases that migrate one schema | a migration's change is its number |
| `FailurePatterns` | lanes, slices of facts, patterns and presence, as operators | no state; what the extractor says of a text is any value |
| `FactsLoad` | `LoadDateScopedFacts`: goroutines, errors, a caller who leaves, writers meanwhile | the detailed form of `LoadFacts` of FailurePatterns |
| `PatternPages` | patterns page, run log and review as views of one store of facts | extends FailurePatterns; the facts are its state |
| `Trends` | the rollup's metrics as they may be stored, and `BuildTrends` | extends FailurePatterns for weeks |
| `WeeklyReport` | the overview's numbers from the same metrics | extends Trends |
| `Navigation` | queries, windows, time selector and links of all pages; a reader | days are numbers, 0 is the Monday sprints count from |
| `MC*` | the instances for TLC; `MCSources` and `MCFrontend` put parts that share no state into one run each | |
| `*_proofs` | theorems and proofs | `Sources_proofs` has RunIngest, Migrations, PullRequestSync and TestsDaily; `Pages_proofs` has PatternPages, FactsLoad, Trends and WeeklyReport; `Frontend_proofs` has Navigation and the composition |

How state and actions correspond to the code:

* `WorkQueue`. `queue`, `dirty`, `processing` and `waiting` are the fields of client-go's queue with its delayed
  adds; `worker[w]` is a goroutine in `processNextWorkItem`; `version[k]` counts the changes of what key k
  stands for, so that "this was processed after that change" can be said. `CloseStore` is the deferred cleanup
  of `pkg/run/runtime.go`: `Run` of a controller returns when its context ends without waiting for its workers.
* `RunFacts`. A row is a record of its verdict, PR number, commit, PR signals and the timing and region groups.
  `SyncList`, `SyncGet`, `SyncUpsert` are one pass of a run source: it reads the rows one by one and upserts
  them together. `FactsGet`, `FactsReconcile` and `FactsUpsert` are `processKey` of `facts.runs`, whose PR query
  lies between its read and its write. `MetaTiming` and `MetaRegion` are the two statements of
  `source.prow.metadata`, with the outcome of the fetch. In its outcomes "invalid" also stands for an artifact
  that was read but cannot be parsed.
* `RunIngest`. Time is the run's start, which both sources use for `since` and the checkpoint. A Sippy sync reads
  the checkpoint first and then lists job after job; a Prow sync takes its snapshot first and reads the
  checkpoint after it. `Covers` is what either leaves out: Sippy is asked for starts after `since` (client.go:392),
  which is rounded down to the hour, Prow's jobs are dropped when they started before it. `source` picks the controller in the initial state.
* `FailureFacts`. `FetchPath` reads one JUnit file; any error discards the whole listing. An uploaded or
  forbidden file is taken not to be replaced. `ImportedRuns` have their marker from `migrate import-legacy-data`.
* `DailyMetrics`. `job[d]` holds what the rollup of day d has read; `passed` is a history variable.
* `PreparedWindowCache`. `Ask` joins a preparation of the same key or leads one (singleflight), `Deliver` and
  `Fail` hand the outcome to all who wait, `Store` is done by each of them on their own afterwards. The cache is
  modelled as enabled.

* `PullRequestSync`. `PageOf(k)` is the k-th page of GitHub's list now, latest update first; `Ahead(k)` and `Behind(k)`
  are what lies before and after it. `pullSync` is `processKey` between two requests. `late` and `cut` are history
  variables: pull requests the code cannot see and does not promise to (see section 3).
* `TestsDaily`. A job asks filter by filter (`Fetch`), period by period, and writes once (`Upsert`). A key keeps its
  date, so two workers may work on yesterday's and today's; that none works on another's date is
  `OneWorkerPerKey` of WorkQueue.
* `Migrations`. `schema` is the sequence of the changes that were committed, `recorded` the table. `Execute` does not
  show outside its transaction; `Stop` rolls it back and releases the session's lock.
* `FactsLoad`. `loader[e]` is the goroutine of environment e: semaphore, runs, rows, then one query for each run
  that the rows name and the window lacks. `steady` is a history variable.
* `FailurePatterns`, `PatternPages`. A row of `cfa_raw_failures` carries the flags the rules look at and, as `text`, any
  result of the extractor. The operators have the names of the functions they translate where there is one.
* `Trends`. `counting[d]` is what a rollup has read first and `RollupStores` what it stores; which keys it stores is the
  release's. `DailyMetrics` has the rollup in detail; here it is two readings.
* `Navigation`. `Serve(q)` is the page a query leads to, with all its links; `Follow` takes one of the links the page was
  rendered with, whatever day it is by then.

## 3. Runs

CHECK_DEADLOCK is FALSE throughout: the controllers idle when nothing changes, pages may be read without end, and the
clocks and the numbers of changes are bounded (`MaxTime`, `MaxVersion`, `MaxChanges`, `MaxPullRevs`, `MaxCorrections`,
`MaxEdits`, `LastSecond`, `LastDay`, `MaxStat`, `MaxWrites`, `MaxRestates`, `LastToday`, each in its guard).

| Run | Properties | Instance, and why it is enough |
|---|---|---|
| run_signals | `SignalsJustified` | one presubmit, two commits, both sources, facts.runs, one correction and one merge: one stale copy per writer needs no more |
| run_metadata | `TypeOK`, `MetadataGroupsWhole`, `FirstCheckedFixed`, `MetadataSettles` | one run with a region, outcomes of both fetches of every kind, an alias of its URL, both sources, retry window closing, running clock |
| run_converge | `SignalsConverge`, `SourceConverges` | both sources and facts.runs under fairness |
| run_forbidden | `TerminalMetadataFinal` (violated) | see section 6 |
| queue | `TypeOK`, `OneWorkerPerKey`, `NoLostRequest`, `KeepsPromise`, `EveryChangeCovered`, `WorkersEnd` | two keys, two workers, a change of a key, errors, shutdown |
| failures_safety | `TypeOK`, `MarkerEarned`, `RawFollowsArtifacts`, `ArtifactRowsFinal` | two files, one with a legible and one with an illegible failure; corrections of the run's time and verdict, expiry |
| failures_liveness | `FailedRunsGetRawFailures` | one file that comes or does not |
| daily_metrics | `TypeOK`, `LanesConsistent`, `NoApparentSuccess`, `MetricsConverge` | two environments, dev with a presubmit and a batch, three changes anywhere between the readings |
| window_cache | `TypeOK`, `AnswersCover`, `RequestsEnd`, `CacheCatchesUp` | a request and the refresh, three kinds of request, a change of week, facts whose text exceeds the budget |
| sources | `SourcesTypeOK`, `NothingSkipped`, `SyncFindsAll`, `SchemaExact`, `NoUpdateSkipped`, `DatapointFrozen` | four parts, each explored alone: two overlapping syncs and two jobs with one run each, one unusable for Sippy; releases of 1, 2 and 3 migrations; three pull requests on pages of one, two pages a sync, so that the limit, a full page and a push over the boundary all occur; two workers, dates, periods and filters |
| frontend | `FrontendTypeOK`, `LoadKeepsStoredRows`, `FlagJustified`, `SurfacesAgree`, `NewMeansUnseen`, `TrendsHonest`, `OverviewMatchesTrends`, `NavigationSound` | four parts, each explored alone: two environments loaded during four writes; three runs and four failures of two wordings over two weeks of two days; two runs of dev on three days and metrics of three releases; all pages from 15 entries, a week's and a sprint's end, two sprints around |
| sprints | `SprintContainsDate` (violated) | see section 6 |

`sources` and `frontend` hold parts that share no variable: the first step chooses the part and the others stay where they
are, so the states of the parts add up and no behaviour of a part is lost. The runs of the trends are interchangeable
(`SYMMETRY`; only invariants are checked there).

What they say:

* `SignalsJustified`: the PR signals of a stored row follow from that row's own PR number and commit. A row is
  written whole by three controllers from copies of any age; nothing else keeps a post-good mark from moving to
  another commit. A source may leave the pull request or commit blank and never names others than it did
  (`ReportsOf`): what a changed commit of one run would do to its inherited signals is not shown. `SignalsConverge`, `SourceConverges`: stale writes are repaired.
* `MetadataGroupsWhole`, `FirstCheckedFixed`: the conditional columns of the upsert never mix two checks, and no
  upsert reopens the retry window; `MetadataSettles`: so a run's timing reaches a terminal state.
* `OneWorkerPerKey` .. `WorkersEnd`: the promises of `KeyedReconciler`, and that a cancelled controller's workers
  end although the store may be closed before them.
* `MarkerEarned`, `ArtifactRowsFinal`, `RawFollowsArtifacts`, `FailedRunsGetRawFailures`: a run is marked only when
  an artifact is forbidden or its window is over; rows once stored never change; raw failures derive from one
  state of them; a run that stays failed ends up with raw failures under its current time, unless all its failures have an
  empty text: then the code derives none, and the property excuses it.
* `LanesConsistent` (the lanes add up to the failures, post-good failures are among all), `NoApparentSuccess`: a stored
  day is consistent although its counts come from three readings, and never shows more successes than there were. `MetricsConverge`: when
  the facts of a day rest, its row equals `Reference`, a count written independently of the code's.
* `AnswersCover`: an answer holds all that was asked for, also when the week changes between lookup, preparation
  and store. `RequestsEnd`: sharing never leaves a request waiting. `CacheCatchesUp`: when clock and facts rest,
  the snapshot becomes the current window of the current facts.
* `NothingSkipped`, `SyncFindsAll`: a run that the next sync no longer looks back to is stored, provided it was
  `Prompt`: published no later after its start than the replay, less the time a listing takes, and for Sippy, whose
  filter is strict, sooner than that. The instance has a replay of three ticks for Sippy, listings of one and hours
  of two, so that a run may start exactly at the hour the next `since` is rounded down to: were `Prompt` not strict
  for Sippy, TLC would find both properties violated by such a run. Beyond this limit the code promises nothing: a
  run that is published later than that, after a later-started one moved the checkpoint, is never listed again. In
  the instance Sippy's window exceeds the clock's bound, so an outage loses nothing there; Prow's does not, and the
  property then speaks of the runs still in the window. A listing of one job is one step: Sippy's paging is not
  modelled.

* `SchemaExact`: whichever releases start together and stop anywhere, the schema has each change once and in order, the
  table records exactly these, and a process that serves finds all its migrations.
* `NoUpdateSkipped`: up to the checkpoint every update of a pull request is in its row, although the list moves while it
  is paged. Two cases are excused and are what the code does: an update in the very second a listing was taken up to
  (`late`: times are compared, and equal counts as known), and one beyond the last page a sync may read (`cut`).
* `DatapointFrozen`: the statistics of a date and period are stored once and stay what that one sync was told.
* `LoadKeepsStoredRows`: facts handed out without an error have the run of every row and every row that was in the
  window throughout the load. A caller whose context has ended may get fewer environments without an error
  (`GiveUp` returns none); nobody looks at that answer any more, and the property excuses it.
* `FlagJustified`: a failure pattern flagged as a bad pull request earns it over the whole history horizon, not only in
  the window shown. Presence is looked up by name, so a pattern that bore another name over the history is excused.
* `SurfacesAgree`: the page of a day and the run log of the day show the same failures under the same patterns, verdicts
  and numbers. A run that is said to have started on another day since its failures were derived is in neither day
  whole (runs are listed by their time, failures by theirs), and is counted apart (`Moved`).
* `NewMeansUnseen`: "new" and "recurrence" mean that the failures were not there before, changes of name aside.
* `TrendsHonest`: "Missing or inconsistent facts must not become apparent successes" (trends.go). `OverviewMatchesTrends`:
  whenever the trends show a rate the overview shows the same, "Matching Overview's stage denominators"
  (docs/design.md:150); where they leave a gap it need not.
* `NavigationSound`: links open, previous and next are inverse and adjacent, a report is compared with the window
  before it, the selector's mode is true of the window, presets hold the page's last day (before day 0 the sprint
  does not, section 6), and the report opens with a complete week. From a run log of a day to come there is no way
  forward, so none back to it.

Bounds grow the state space and not the kinds of behaviour: rows of different runs do not meet in any statement, so
one run (two for counting and for the checkpoint) shows all races on it, and the proofs of section 5 do without
bounds. The views of the frontend are functions of the facts: what matters there is that every case of a rule occurs,
which the mutants of the rules confirm.

## 4. Fairness

* Controllers list at an interval for ever and rate-limited retries come back, so their steps are fair. A step may
  be disabled again and again (a sync under way, a restart, an error), and fails only sometimes: strong fairness on
  the reading and writing steps in `RunFacts` and `FailureFacts`, no fairness on restarts, on what the sources publish
  or on errors (only a listing that has met an error is sure to end). `MetadataSettles` speaks of runs whose retry
  window closes before the bounded clock stops.
* The modules new to `sources` and `frontend` have safety properties only and assume no fairness.
* `WorkQueue` assumes weak fairness of the goroutines and strong fairness of a key being processed without error.
* `DailyMetrics`: a rollup starts over when a query fails, so strong fairness on each step would not do (an
  error between any two steps starves it). It assumes weak fairness of the rollup and that failures and restarts
  end (`FaultsEnd`), which is what "queries fail no more" means.
* `PreparedWindowCache`: goroutines, the timer and the end of a preparation (by the refresh timeout or the
  client's context) are weakly fair; only for the primary windows, which the refresh asks for again and again, a
  preparation that is repeated for ever is assumed to succeed again and again. No client needs to ask.

## 5. Proofs

Assumed are the named assumptions of the modules (`RunsAssumption`, `BoundsAssumption`, `WorkQueueAssumption`,
`FailuresAssumption`, `MetricsAssumption`, `CacheAssumption`, `IngestAssumption`, `MigrationsAssumption`,
`PullRequestSyncAssumption`, `TestsDailyAssumption`, `LoadAssumption`, `PatternsAssumption`, `PagesAssumption`,
`TrendsAssumption`, `NavigationAssumption`): the constants have their types, "none" values lie outside them, an hour, a week
and a day are not empty, and seven days are among the relative ones (readmodel/trends/trends.go, `RelativeDayOptions`). Three
more say something of the environment: `MarkersApart` (no artifact reads like the text written for runs without one),
`NothingToCome` (metrics are of days that have come) and `EntriesTruthful` (what a reader types does not call dates a sprint or
seven days that are not). TLC evaluates all of them on every run. All theorems are of the form `Spec => []Inv` or
`Spec => [][A]_vars`, for any sets of runs, keys, workers, environments, syncs and callers.

| Module | Theorems | Argument |
|---|---|---|
| `RunFacts_proofs` | `TypeCorrect`, `SignalsAlwaysJustified`, `MetadataAlwaysWhole`, `FirstCheckNeverMoves` | `SignalsInv`: not only the rows but every copy a controller holds is justified, by the PRs now, since a PR once merged keeps its head. `MetadataInv`: copies are whole, and their first check is Never or that of the row |
| `WorkQueue_proofs` | `TypeCorrect`, `WorkersApart`, `CoveredNeverShrinks`, `RequestsKept`, `LoopReconciles` | `QueueInv`: processing keys are those workers hold, queued keys are the dirty ones that are not processed, once each. `VersionInv`: what was read lies between covered and current |
| `FailureFacts_proofs` | `TypeCorrect`, `ArtifactRowsNeverChange`, `MarkersEarned`, `RawAlwaysFollows` | `ListingInv`: while a listing is under way its run has no rows. `DeriveInv`: what is about to be written derives from rows that are final |
| `DailyMetrics_proofs` | `TypeCorrect`, `MetricsInvariant`, `LanesAlwaysConsistent`, `NeverApparentSuccess` | every run of a lane count is in exactly one lane; a listed run that did not fail has passed once, and `passed` only grows, so what was read stays consistent until it is stored |
| `PreparedWindowCache_proofs` | `TypeCorrect`, `AnswersAlwaysCover` | `AllRight`: what a caller prepares covers what it was asked for, a result is of the window it is shared under, and the snapshot's window is what was prepared for it |
| `Sources_proofs` | `IngestTypesCorrect`, `IngestInvariant`, `NothingIsSkipped`, `SyncAlwaysFindsAll`, `SchemaAlwaysExact`, `NoUpdateEverSkipped`, `DailyTypesCorrect`, `DatapointsStayFrozen`, `SourcesTyped`, `SourcesSafe` | below |
| `Pages_proofs` | `FactsTypesCorrect`, `FlagsAlwaysJustified`, `NewAlwaysUnseen`, `SurfacesAlwaysAgree`, `LoadsAlwaysWhole`, `TrendsAlwaysHonest`, `OverviewAlwaysMatches` | below |
| `Frontend_proofs` | `NavigationTypesCorrect`, `NavigationAlwaysSound`, `FrontendTyped`, `FrontendSafe` | below |

`Sources_proofs`. *RunIngest*: `Reached(v)` says that with v as checkpoint a sync looks back far enough. It holds of the
checkpoint and of every value a sync may write, and stays so (`ReachedKept`): what is published promptly now started too late
to lie before v. `NothingSkipped` is not inductive: an older checkpoint that a sync has read may be written back, so the
invariant speaks of every base and, once the runs are stored, of the start of every run a sync has listed (`BaseRight`,
`GotRight`), and of what is still to be listed (`FoundRight`). It was checked with TLC on the run's instance before it was
proved.
*Migrations*: the schema is the sequence 1..n and the table its image; only the holder of the lock is in
the middle of its files, and all before its next are recorded, so that its commit appends n + 1. *TestsDaily*: what a worker
asks for is missing in its date, and stays so until it writes, because no other worker has that date. *PullRequestSync*:
`PullsInv`, and in it `SyncRight`: while a sync pages, a pull request newer than the checkpoint, no newer than the latest time
seen, that it has not read is late or not ahead of the next page. `EditPushes` (an update never moves another pull request
forward in the list) and `RankSorted` (what lies ahead was not updated before) carry it over an edit and over a page; both rest
on the cardinality of finite sets, which is why `Pulls` is assumed finite. Checkpoints never exceed the clock, which makes an
update made now either late or newer than the checkpoint.

`Pages_proofs`. Everything the pages show is a count, a sum or a maximum over finite sets. The induction theorems of the library
cannot be instantiated, but its theorem on well-founded relations can: the subsets of a finite set are well-founded under
inclusion, so a set of subsets that has each set whose smaller ones it has is all of them (`ShrinkingSets`, `GrowingSets`).
From this come `SumFunctionOnSet` by one element, over unions and pointwise, and that finite sets of numbers have extremes.

* *PatternPages*: `FactsInv` says of the store that each row is that of its failure in one of its shapes at a time its run
  once had, and that runs and rows are named once. The rest is about the operators. A pattern is the class of the failures
  with its key, wherever it is formed; a slice of the prepared window has what a load of the smaller window would have; so the
  run log of a day, which slices, and its page, which prepares, form the same patterns. `FlagsAlwaysJustified` and
  `NewAlwaysUnseen` follow because what is counted in a window is counted over the history; `SurfacesAlwaysAgree` compares the
  numbers by bijections between failures, runs and rows.
* *FactsLoad*: `LoadInv`: stored times are times; each loader (`LoaderWhole`) holds the steady rows once it has listed rows,
  and the runs of its rows are read or still to be filled.
* *Trends*: `TrendsInv` says that what is stored of a day is no better than what is known of it now. Runs are counted first and
  are only added to lanes, so subtracting the failures read later from the runs read earlier never gives more successes than
  there are. The sums over the days of a bucket then keep the order day by day.
* *WeeklyReport*: where the trends have a rate, all days of the window have the metrics it needs, and repairing missing metrics
  changes nothing. Overview and trends then sum the same numbers, grouped differently.

The proof of `OverviewMatchesTrends` showed an imprecision of the model: alternatives of a CASE that overlapped, of which TLC
takes the first and the definition any. They are IF chains now, in the order of the code.

`Frontend_proofs`. *Navigation*: `NavigationInv` types the page and its links. `ShapeInv` adds that the page has one of four
shapes (`PageShape`): a window with its links (`WindowPage`), the trends of all there is, the run log of a day rendered on some
day not after today, or an answer without links. The links of each shape are known by their windows, so that what they open does
not depend on the day they are followed (`WindowOpens`): this is why pages survive midnights. It rests on arithmetic of windows
(`DatesAre`, `BeforeIs`, `AfterIs`): the windows before and after one are of its kind, touch it, and lead back. Three facts make
links and pages fit: the shape's mode is that of its window or rolling over seven (for trends, relative) days (`Fits`); links
carry a mode that is true of their dates (`LinkTruthful`); a Monday that has begun and is not that of today's week belongs to a
week that is over (`WeekOver`). Without `EntriesTruthful` the property is false, as TLC shows at once: a typed
`mode=sprint` beside the dates of a week makes the page say sprint, and its controls move by a sprint.

*The frontend*: its four parts share no variable, so `FrontendInv` is the conjunction of their invariants and a step of the
composition is a step or a stutter of each.

Only model-checked: all liveness properties (liveness under fairness is out of the prover's reach), and that `DayMetrics` equals
`Reference` when the facts rest, which `MetricsConverge` says. The bounds of the model's clocks and counters are constants of
the theorems; those of `FirstDate` and `LastDate` only limit where TLC's reader goes.

## 6. Disagreements found

*A 403 is not final.* README.md:88 says that `403 Forbidden` responses are terminal, docs/design.md likewise. `facts.runs`
writes back the whole row it read before, timing columns included, and the upsert accepts any state that is not empty. When
the metadata controller stores "forbidden" between that read and that write, the state returns to what was read, for
instance "pending", and the run is looked up again. Run run_forbidden shows it; `MetadataSettles` in run_metadata shows that
the state becomes terminal again all the same.

*Sprints before the first.* `SprintWindowForDate` "returns the inclusive start and end dates of the sprint containing the
given date" (readmodel/window/sprint.go:15), but Go's division truncates: for a date before 2026-01-05 that does not start a
sprint it returns the following sprint. Run sprints gets there by the Previous control and the Sprint preset.

Observations without a contradicting text:

* an artifact that appears after its turn in a listing which then succeeds is never read; a run all of whose failures have
  empty texts gets no raw failures; raw failures stay when a run's verdict is corrected to success, and the rollup goes on
  counting it as failed;
* windows with exact bounds have no Previous and Next: the validation of the link sends dates and instants together
  (server.go:1530-1540), which window.Resolve refuses (resolve.go:33);
* a kept URL of a rolling report with dates says "Last 7 Days" for ever; the patterns page's preset of that name ends on the
  page's last day, not today;
* the overview takes missing failure metrics for no failures (the trends leave a gap), and lets the parts of a day's bar
  exceed its runs when there are more failures than runs;
* the day whose tests are listed below the target is never the window's own end date (weekly_data.go:617-651).

## 7. Not modelled, and what is left

Not modelled, and why: the extractor (pure rewriting of texts by regular expressions: every result it may have is taken);
HTML (given data to text, no state); JUnit and JSON parsing, HTTP, and retries within one client call (they end in an answer or an
error, both of which the actions have); flags, configuration and the embedded database; the copying of legacy tables (what it
leaves behind is modelled); ordering, sparklines and quality labels of rows. Code that only tests call is left out:
`BuildWeeklyReportData` and what only it needs, `BuildFailurePatternReportData`, `BuildPresenceResolver`, `LoadRange`,
`ShiftSprintWindow` and some link builders of server.go.

Two processes working on the same row are modelled for the listing of runs (`RunIngest`) and for migrations only.

Left to do:

1. An abstract "every prompt run is stored" specification that `RunIngest` implements, and the composition of
   `PullRequestSync` with the signals of `RunFacts` (there pull-request rows change by themselves).
2. A proof that `DayMetrics` equals `Reference` for runs and failures that rest, the safety half of `MetricsConverge`.
3. `run-once` beside a daemon on one key of `facts.runs` or `source.prow.failures`.
