------------------------------ MODULE RunFacts ------------------------------
(***************************************************************************)
(* The run-fact table cfa_runs and the controllers that share its rows:    *)
(*                                                                         *)
(*   source.sippy.runs     reads a row, merges Sippy's report into it and  *)
(*   source.prow.runs      upserts the whole row (one batch, one tx);      *)
(*   facts.runs            reads a row, reads its pull request, upserts    *)
(*                         the whole row when the PR signals changed;      *)
(*   source.prow.metadata  reads a row, fetches artifacts and updates only *)
(*                         the timing, then only the region columns.       *)
(*                                                                         *)
(* None of them locks a row between its read and its write, so each write  *)
(* may be computed from a stale copy.  A work queue hands a key to one     *)
(* worker of a controller at a time (module WorkQueue), hence one process  *)
(* per controller and key here.                                            *)
(***************************************************************************)
EXTENDS Naturals

CONSTANTS
  Runs,           \* run keys (environment, run_url)
  Envs,           \* environments
  EnvOf,          \* [Runs -> Envs]
  LookupEnvs,     \* environments whose runs are presubmits with a PR lookup
  RegionRuns,     \* runs whose job publishes a region artifact
  AliasedRuns,    \* runs whose URL in Sippy is not the canonical one
  Pulls, NoPull,  \* pull-request numbers; no number (0 in the code)
  SHAs, NoSHA,    \* commits; the empty string
  RunPull,        \* [Runs -> Pulls \cup {NoPull}], the PR a run tests
  RunSHA,         \* [Runs -> SHAs \cup {NoSHA}], the commit it tests
  Sources,        \* run sources that are enabled, of {"sippy", "prow"}
  Enrichers,      \* a bound: those of "facts.runs" and "source.prow.metadata" that act
  TimingOutcomes, \* what a fetch of prowjob.json can give
  RegionOutcomes, \* what a fetch of the lease-acquire log can give
  RetryWindow,    \* --source.prow.artifact-retry-window
  MaxTime,        \* bound on the clock
  MaxPullRevs,    \* bound on the changes of a pull request
  MaxCorrections  \* bound on the changes of a report after publication

AllTimingOutcomes == {"complete", "incomplete", "forbidden", "invalid", "missing"}
AllRegionOutcomes == {"found", "forbidden", "invalid", "missing"}

ASSUME RunsAssumption ==
  /\ EnvOf \in [Runs -> Envs]
  /\ LookupEnvs \subseteq Envs
  /\ RegionRuns \subseteq Runs
  /\ AliasedRuns \subseteq Runs
  /\ RunPull \in [Runs -> Pulls \cup {NoPull}]
  /\ RunSHA \in [Runs -> SHAs \cup {NoSHA}]
  /\ NoPull \notin Pulls
  /\ NoSHA \notin SHAs

ASSUME BoundsAssumption ==
  /\ Sources \subseteq {"sippy", "prow"}
  /\ TimingOutcomes \subseteq AllTimingOutcomes
  /\ RegionOutcomes \subseteq AllRegionOutcomes
  /\ RetryWindow \in Nat
  /\ MaxTime \in Nat
  /\ MaxPullRevs \in Nat
  /\ MaxCorrections \in Nat

VARIABLES
  now,          \* the clock
  age,          \* age[r]: inside the replay window, only the history window, or neither
  published,    \* published[s]: runs source s lists
  report,       \* report[s][r]: what source s says of run r
  corrections,  \* number of reports changed after publication
  pulls,        \* cfa_pull_requests
  stored,       \* keys of cfa_runs
  row,          \* row[r]: the row of r, BlankRow (a zero record) when absent
  sync,         \* sync[s][e]: source s ingesting environment e
  facts,        \* facts[r]: facts.runs on key r
  meta          \* meta[r]: source.prow.metadata on key r

world == <<now, age, published, report, corrections, pulls>>
vars == <<world, stored, row, sync, facts, meta>>

-----------------------------------------------------------------------------
(* Data.  A timestamp column is a time, 0 when blank; started_at,          *)
(* completed_at and region only matter as blank or not.                    *)

Never == 0
Terminal == {"found", "forbidden", "missing", "invalid"}
MetadataStates == Terminal \cup {"", "pending"}

Signals == [state: {"", "open", "closed"}, final: SHAs \cup {NoSHA},
            merged: BOOLEAN, postGood: BOOLEAN]
Timing == [started: BOOLEAN, completed: BOOLEAN, state: MetadataStates, first: Nat]
Region == [known: BOOLEAN, state: MetadataStates, first: Nat]
RunRecord == [pull: Pulls \cup {NoPull}, sha: SHAs \cup {NoSHA}, signals: Signals,
              failed: BOOLEAN, timing: Timing, region: Region]
Report == [pull: Pulls \cup {NoPull}, sha: SHAs \cup {NoSHA}, failed: BOOLEAN]
PullRecord == [found: BOOLEAN, state: {"", "open", "closed"}, merged: BOOLEAN,
               head: SHAs \cup {NoSHA}, rev: Nat]

NoSignals == [state |-> "", final |-> NoSHA, merged |-> FALSE, postGood |-> FALSE]
MergedCode == [state |-> "", final |-> NoSHA, merged |-> TRUE, postGood |-> TRUE]
BlankTiming == [started |-> FALSE, completed |-> FALSE, state |-> "", first |-> Never]
BlankRegion == [known |-> FALSE, state |-> "", first |-> Never]
BlankRow == [pull |-> NoPull, sha |-> NoSHA, signals |-> NoSignals, failed |-> FALSE,
             timing |-> BlankTiming, region |-> BlankRegion]
BlankReport == [pull |-> NoPull, sha |-> NoSHA, failed |-> FALSE]

SyncIdle == [pc |-> "idle", todo |-> {}, done |-> {},
             seen |-> [r \in Runs |-> BlankReport], batch |-> [r \in Runs |-> BlankRow]]
FactsIdle == [pc |-> "idle", row |-> BlankRow]
MetaIdle == [pc |-> "idle", row |-> BlankRow, region |-> FALSE, err |-> FALSE]

SupportsPRLookup(r) == EnvOf[r] \in LookupEnvs

-----------------------------------------------------------------------------
(* Pure parts of the handlers.                                             *)

FillSignals(s, t) ==  \* fields blank or FALSE in s taken from t
  [state |-> IF s.state = "" THEN t.state ELSE s.state,
   final |-> IF s.final = NoSHA THEN t.final ELSE s.final,
   merged |-> s.merged \/ t.merged,
   postGood |-> s.postGood \/ t.postGood]

(* Fault: the verdict of a stored row stands. *)
SippyMergedKeepingVerdict(r, old, found, rep) ==
  [BlankRow EXCEPT !.pull = rep.pull, !.sha = rep.sha,
                   !.failed = IF found THEN old.failed ELSE rep.failed,
                   !.signals = IF SupportsPRLookup(r) THEN NoSignals ELSE MergedCode]

(* Fault: a blank SHA replaces the known one, whose signals are kept. *)
SippyMergedDroppingSHA(r, old, found, rep) ==
  LET pull == IF rep.pull = NoPull THEN old.pull ELSE rep.pull
      base == IF ~SupportsPRLookup(r) THEN MergedCode ELSE NoSignals IN
  [pull |-> pull, sha |-> rep.sha, failed |-> rep.failed,
   signals |-> IF old.pull = pull THEN FillSignals(base, old.signals) ELSE base,
   timing |-> BlankTiming, region |-> BlankRegion]

(* Sippy wins, but a blank PR number or SHA keeps the known one and the PR *)
(* signals of an unchanged PR number are inherited.                        *)
SippyMerged(r, old, found, rep) ==
  LET pull == IF found /\ rep.pull = NoPull THEN old.pull ELSE rep.pull
      sha == IF found /\ rep.sha = NoSHA /\ old.pull = pull THEN old.sha ELSE rep.sha
      mapped == IF ~SupportsPRLookup(r) THEN MergedCode
                ELSE IF found /\ old.pull = rep.pull THEN old.signals
                ELSE NoSignals
      signals == IF found /\ old.pull = pull /\ pull # NoPull
                 THEN FillSignals(mapped, old.signals) ELSE mapped
  IN  [pull |-> pull, sha |-> sha, signals |-> signals, failed |-> rep.failed,
       timing |-> BlankTiming, region |-> BlankRegion]

(* An existing row wins over Prow, with its metadata columns as read.      *)
ProwMerged(r, old, found, rep) ==
  LET mapped == [pull |-> rep.pull, sha |-> rep.sha, failed |-> rep.failed,
                 signals |-> IF SupportsPRLookup(r) THEN NoSignals ELSE MergedCode,
                 timing |-> BlankTiming, region |-> BlankRegion]
      pull == IF old.pull = NoPull THEN rep.pull ELSE old.pull
      sha == IF old.sha = NoSHA /\ pull = rep.pull THEN rep.sha ELSE old.sha
  IN  IF ~found THEN mapped
      ELSE [old EXCEPT !.pull = pull, !.sha = sha,
                       !.signals = FillSignals(old.signals, mapped.signals)]

Merged(s, r, old, found, rep) ==
  IF s = "sippy" THEN SippyMerged(r, old, found, rep) ELSE ProwMerged(r, old, found, rep)

(* The PR signals facts.runs derives for a row from the pull-request table. *)
ReconciledSignals(r, rec) ==
  IF ~SupportsPRLookup(r) THEN MergedCode
  ELSE IF rec.pull = NoPull THEN NoSignals
  ELSE LET pr == pulls[rec.pull] IN
       IF ~pr.found THEN NoSignals
       ELSE IF pr.merged /\ pr.head # NoSHA
       THEN [state |-> pr.state, final |-> pr.head, merged |-> TRUE,
             postGood |-> rec.sha # NoSHA /\ rec.sha = pr.head]
       ELSE [NoSignals EXCEPT !.state = pr.state]

(* INSERT ... ON CONFLICT DO UPDATE: the timing (region) columns move as   *)
(* one group, and only when the new record has a metadata state.           *)
UpsertedPerColumn(old, new) ==  \* fault: a blank completed_at keeps the old one
  [new EXCEPT !.timing = IF new.timing.state = "" THEN old.timing
                         ELSE [new.timing EXCEPT
                                 !.completed = new.timing.completed \/ old.timing.completed],
              !.region = IF new.region.state = "" THEN old.region ELSE new.region]

Upserted(old, new) ==
  [new EXCEPT !.timing = IF new.timing.state = "" THEN old.timing ELSE new.timing,
              !.region = IF new.region.state = "" THEN old.region ELSE new.region]

UpsertRow(r, new) == IF r \in stored THEN Upserted(row[r], new) ELSE new

FirstChecked(first) == IF first = Never THEN now ELSE first
RetryWindowElapsed(first) == now >= first + RetryWindow
PendingOr(state, first) == IF RetryWindowElapsed(first) THEN state ELSE "pending"

TimingAfterRestartingWindow(t, outcome) ==  \* fault: every check is the first
  [t EXCEPT !.first = now,
            !.state = IF outcome \in {"complete"} THEN "found" ELSE "pending",
            !.started = outcome = "complete", !.completed = outcome = "complete"]

TimingAfterUnvalidated(t, outcome) ==  \* fault: the outcome is stored as the state
  [t EXCEPT !.first = FirstChecked(t.first), !.state = outcome]

TimingAfter(t, outcome) ==
  LET first == FirstChecked(t.first) IN
  CASE outcome = "complete" ->
         [started |-> TRUE, completed |-> TRUE, state |-> "found", first |-> first]
    [] outcome = "incomplete" ->
         [started |-> TRUE, completed |-> FALSE,
          state |-> PendingOr("invalid", first), first |-> first]
    [] outcome = "forbidden" ->
         [started |-> FALSE, completed |-> FALSE, state |-> "forbidden", first |-> first]
    [] outcome = "invalid" ->
         [started |-> FALSE, completed |-> FALSE,
          state |-> PendingOr("invalid", first), first |-> first]
    [] outcome = "missing" ->
         [t EXCEPT !.state = PendingOr("missing", first), !.first = first]

RegionAfter(g, outcome) ==
  LET first == FirstChecked(g.first) IN
  CASE outcome = "found" -> [known |-> TRUE, state |-> "found", first |-> first]
    [] outcome = "forbidden" -> [known |-> FALSE, state |-> "forbidden", first |-> first]
    [] outcome = "invalid" ->
         [known |-> FALSE, state |-> PendingOr("invalid", first), first |-> first]
    [] outcome = "missing" ->
         [g EXCEPT !.state = PendingOr("missing", first), !.first = first]

TimingTerminal(t) == (t.started /\ t.completed) \/ t.state \in Terminal
RegionTerminal(g) == g.known \/ g.state \in Terminal

-----------------------------------------------------------------------------
Init ==
  /\ now = 1
  /\ age = [r \in Runs |-> "replay"]
  /\ published = [s \in Sources |-> {}]
  /\ report = [s \in Sources |-> [r \in Runs |-> BlankReport]]
  /\ corrections = 0
  /\ pulls = [p \in Pulls |-> [found |-> FALSE, state |-> "", merged |-> FALSE,
                               head |-> NoSHA, rev |-> 0]]
  /\ stored = {}
  /\ row = [r \in Runs |-> BlankRow]
  /\ sync = [s \in Sources |-> [e \in Envs |-> SyncIdle]]
  /\ facts = [r \in Runs |-> FactsIdle]
  /\ meta = [r \in Runs |-> MetaIdle]

-----------------------------------------------------------------------------
(* The world around the controllers.                                       *)

(* A source may lack the PR link or the SHA of a run, never have another;  *)
(* Prow's refs carry both.                                                 *)
ReportsOf(s, r) ==
  {rep \in Report : /\ rep.pull \in {NoPull, RunPull[r]}
                    /\ rep.sha \in {NoSHA, RunSHA[r]}
                    /\ s = "prow" => rep.pull = RunPull[r] /\ rep.sha = RunSHA[r]}

Publish(s, r, rep) ==
  /\ r \notin published[s]
  /\ rep \in ReportsOf(s, r)
  /\ published' = [published EXCEPT ![s] = @ \cup {r}]
  /\ report' = [report EXCEPT ![s][r] = rep]
  /\ UNCHANGED <<now, age, corrections, pulls, stored, row, sync, facts, meta>>

(* Sippy may change its verdict on a listed run or learn its PR link.      *)
Correct(r, rep) ==
  /\ "sippy" \in Sources
  /\ r \in published["sippy"]
  /\ corrections < MaxCorrections
  /\ rep \in ReportsOf("sippy", r)
  /\ rep # report["sippy"][r]
  /\ report["sippy"][r].pull # NoPull => rep.pull = report["sippy"][r].pull
  /\ report["sippy"][r].sha # NoSHA => rep.sha = report["sippy"][r].sha
  /\ report' = [report EXCEPT !["sippy"][r] = rep]
  /\ corrections' = corrections + 1
  /\ UNCHANGED <<now, age, published, pulls, stored, row, sync, facts, meta>>

(* source.github.pull-requests stores what GitHub last said of a PR: a     *)
(* merged one is closed and changes no more.                               *)
PullChanges(p, state, merged, head) ==
  /\ ~pulls[p].merged
  /\ pulls[p].rev < MaxPullRevs
  /\ merged => state = "closed"
  /\ pulls' = [pulls EXCEPT ![p] = [found |-> TRUE, state |-> state, merged |-> merged,
                                    head |-> head, rev |-> pulls[p].rev + 1]]
  /\ UNCHANGED <<now, age, published, report, corrections, stored, row, sync, facts, meta>>

(* A run leaves the source replay windows, then the history window.        *)
AgeRun(r) ==
  /\ age[r] # "expired"
  /\ age' = [age EXCEPT ![r] = IF @ = "replay" THEN "active" ELSE "expired"]
  /\ UNCHANGED <<now, published, report, corrections, pulls, stored, row, sync, facts, meta>>

Tick ==
  /\ now < MaxTime
  /\ now' = now + 1
  /\ UNCHANGED <<age, published, report, corrections, pulls, stored, row, sync, facts, meta>>

(* The process restarts: queues and local copies are lost, the store stays. *)
Restart ==
  /\ sync' = [s \in Sources |-> [e \in Envs |-> SyncIdle]]
  /\ facts' = [r \in Runs |-> FactsIdle]
  /\ meta' = [r \in Runs |-> MetaIdle]
  /\ UNCHANGED <<world, stored, row>>

-----------------------------------------------------------------------------
(* source.sippy.runs and source.prow.runs: syncEnvironment.                *)

SyncList(s, e) ==
  LET listed == {r \in published[s] : EnvOf[r] = e /\ age[r] = "replay"} IN
  /\ sync[s][e].pc = "idle"
  /\ listed # {}
  /\ sync' = [sync EXCEPT ![s][e] = [SyncIdle EXCEPT !.pc = "reading", !.todo = listed,
                                                     !.seen = [r \in Runs |->
                                      IF r \in listed THEN report[s][r] ELSE BlankReport]]]
  /\ UNCHANGED <<world, stored, row, facts, meta>>

(* Sippy's URL is looked up as it came, Prow's in canonical form.          *)
Found(s, r) == r \in stored /\ (s = "sippy" => r \notin AliasedRuns)

SyncGet(s, e, r) ==
  LET job == sync[s][e]
      old == IF Found(s, r) THEN row[r] ELSE BlankRow
      new == Merged(s, r, old, Found(s, r), job.seen[r])
      batch == [job.batch EXCEPT ![r] = new]
  IN
  /\ job.pc = "reading"
  /\ r \in job.todo
  /\ sync' = [sync EXCEPT ![s][e] = [job EXCEPT !.todo = job.todo \ {r},
                                                !.done = job.done \cup {r}, !.batch = batch]]
  /\ UNCHANGED <<world, stored, row, facts, meta>>

(* One transaction upserts the batch.                                      *)
SyncUpsert(s, e) ==
  /\ sync[s][e].pc = "reading"
  /\ sync[s][e].todo = {}
  /\ row' = [r \in Runs |-> IF r \in sync[s][e].done
                            THEN UpsertRow(r, sync[s][e].batch[r]) ELSE row[r]]
  /\ stored' = stored \cup sync[s][e].done
  /\ sync' = [sync EXCEPT ![s][e] = SyncIdle]
  /\ UNCHANGED <<world, facts, meta>>

(* Any read or write may fail; the key is retried from the start.          *)
SyncFail(s, e) ==
  /\ sync[s][e].pc = "reading"
  /\ sync' = [sync EXCEPT ![s][e] = SyncIdle]
  /\ UNCHANGED <<world, stored, row, facts, meta>>

-----------------------------------------------------------------------------
(* facts.runs.                                                             *)

FactsEnqueue(r) ==
  /\ "facts.runs" \in Enrichers
  /\ facts[r].pc = "idle"
  /\ r \in stored
  /\ age[r] # "expired"
  /\ facts' = [facts EXCEPT ![r].pc = "queued"]
  /\ UNCHANGED <<world, stored, row, sync, meta>>

FactsGet(r) ==
  /\ facts[r].pc = "queued"
  /\ facts' = [facts EXCEPT ![r] = IF r \in stored THEN [pc |-> "got", row |-> row[r]]
                                   ELSE FactsIdle]
  /\ UNCHANGED <<world, stored, row, sync, meta>>

SignalsEqualWhenMerged(a, b) ==  \* fault: the state is not compared
  a.merged = b.merged /\ a.postGood = b.postGood
SignalsEqual(a, b) == a = b

FactsReconcile(r) ==
  /\ facts[r].pc = "got"
  /\ LET rec == facts[r].row
         signals == ReconciledSignals(r, rec)
     IN  facts' = [facts EXCEPT ![r] =
                     IF SignalsEqual(signals, rec.signals) THEN FactsIdle
                     ELSE [pc |-> "write", row |-> [rec EXCEPT !.signals = signals]]]
  /\ UNCHANGED <<world, stored, row, sync, meta>>

FactsUpsert(r) ==
  /\ facts[r].pc = "write"
  /\ row' = [row EXCEPT ![r] = UpsertRow(r, facts[r].row)]
  /\ stored' = stored \cup {r}
  /\ facts' = [facts EXCEPT ![r] = FactsIdle]
  /\ UNCHANGED <<world, sync, meta>>

FactsFail(r) ==
  /\ facts[r].pc \in {"got", "write"}
  /\ facts' = [facts EXCEPT ![r] = [FactsIdle EXCEPT !.pc = "queued"]]
  /\ UNCHANGED <<world, stored, row, sync, meta>>

-----------------------------------------------------------------------------
(* source.prow.metadata.                                                   *)

NeedsFirstTiming(r) == row[r].timing.state = ""  \* fault: pending is not listed
NeedsTiming(r) == row[r].timing.state \in {"", "pending"}
NeedsRegion(r) == r \in RegionRuns /\ ~row[r].region.known
                                   /\ row[r].region.state \in {"", "pending"}

MetaEnqueue(r) ==
  /\ "source.prow.metadata" \in Enrichers
  /\ meta[r].pc = "idle"
  /\ r \in stored
  /\ age[r] # "expired"
  /\ NeedsTiming(r) \/ NeedsRegion(r)
  /\ meta' = [meta EXCEPT ![r].pc = "queued"]
  /\ UNCHANGED <<world, stored, row, sync, facts>>

MetaGet(r) ==
  /\ meta[r].pc = "queued"
  /\ LET timing == r \in stored /\ ~TimingTerminal(row[r].timing)
         region == r \in stored /\ r \in RegionRuns /\ ~RegionTerminal(row[r].region)
     IN  meta' = [meta EXCEPT ![r] =
                    IF ~timing /\ ~region THEN MetaIdle
                    ELSE [pc |-> IF timing THEN "timing" ELSE "region", row |-> row[r],
                          region |-> region, err |-> FALSE]]
  /\ UNCHANGED <<world, stored, row, sync, facts>>

(* A key whose processing reported an error is queued again.               *)
MetaDone(err) == [MetaIdle EXCEPT !.pc = IF err THEN "queued" ELSE "idle"]
AfterTiming(r, err) ==
  IF meta[r].region THEN [meta[r] EXCEPT !.pc = "region", !.err = err] ELSE MetaDone(err)

MetaTiming(r, outcome) ==
  /\ meta[r].pc = "timing"
  /\ row' = [row EXCEPT ![r] = [@ EXCEPT !.timing = TimingAfter(meta[r].row.timing, outcome)]]
  /\ meta' = [meta EXCEPT ![r] = AfterTiming(r, FALSE)]
  /\ UNCHANGED <<world, stored, sync, facts>>

MetaTimingFails(r) ==
  /\ meta[r].pc = "timing"
  /\ meta' = [meta EXCEPT ![r] = AfterTiming(r, TRUE)]
  /\ UNCHANGED <<world, stored, row, sync, facts>>

MetaRegion(r, outcome) ==
  /\ meta[r].pc = "region"
  /\ row' = [row EXCEPT ![r] = [@ EXCEPT !.region = RegionAfter(meta[r].row.region, outcome)]]
  /\ meta' = [meta EXCEPT ![r] = MetaDone(meta[r].err)]
  /\ UNCHANGED <<world, stored, sync, facts>>

MetaRegionFails(r) ==
  /\ meta[r].pc = "region"
  /\ meta' = [meta EXCEPT ![r] = MetaDone(TRUE)]
  /\ UNCHANGED <<world, stored, row, sync, facts>>

-----------------------------------------------------------------------------
Environment ==
  \/ \E s \in Sources, r \in Runs : \E rep \in ReportsOf(s, r) : Publish(s, r, rep)
  \/ \E r \in Runs : \E rep \in ReportsOf("sippy", r) : Correct(r, rep)
  \/ \E p \in Pulls, state \in {"open", "closed"}, merged \in BOOLEAN, head \in SHAs :
        PullChanges(p, state, merged, head)
  \/ \E r \in Runs : AgeRun(r)
  \/ Tick
  \/ Restart

SyncStep(s, e) ==
  \/ SyncList(s, e)
  \/ \E r \in Runs : SyncGet(s, e, r)
  \/ SyncUpsert(s, e)
  \/ SyncFail(s, e)

FactsStep(r) ==
  \/ FactsEnqueue(r) \/ FactsGet(r) \/ FactsReconcile(r) \/ FactsUpsert(r) \/ FactsFail(r)

MetaStep(r) ==
  \/ MetaEnqueue(r)
  \/ MetaGet(r)
  \/ \E outcome \in TimingOutcomes : MetaTiming(r, outcome)
  \/ MetaTimingFails(r)
  \/ \E outcome \in RegionOutcomes : MetaRegion(r, outcome)
  \/ MetaRegionFails(r)

Next ==
  \/ Environment
  \/ \E s \in Sources, e \in Envs : SyncStep(s, e)
  \/ \E r \in Runs : FactsStep(r)
  \/ \E r \in Runs : MetaStep(r)

Spec == Init /\ [][Next]_vars

(* The loops list and retry for ever, so a call that is tried over and over *)
(* succeeds once in a while, whatever restarts and errors come between, and *)
(* the clock runs.  Nothing is assumed of the sources and pull requests.   *)
SippyFairness ==
  \A e \in Envs : /\ SF_vars(SyncList("sippy", e))
                  /\ \A r \in Runs : SF_vars(SyncGet("sippy", e, r))
                  /\ SF_vars(SyncUpsert("sippy", e))

FactsFairness ==
  \A r \in Runs : /\ SF_vars(FactsEnqueue(r)) /\ SF_vars(FactsGet(r))
                  /\ SF_vars(FactsReconcile(r)) /\ SF_vars(FactsUpsert(r))

MetaFairness ==
  /\ WF_vars(Tick)
  /\ \A r \in Runs : /\ SF_vars(MetaEnqueue(r)) /\ SF_vars(MetaGet(r))
                     /\ SF_vars(\E outcome \in TimingOutcomes : MetaTiming(r, outcome))
                     /\ SF_vars(\E outcome \in RegionOutcomes : MetaRegion(r, outcome))

RowsFairSpec == Spec /\ SippyFairness /\ FactsFairness
MetaFairSpec == Spec /\ MetaFairness

-----------------------------------------------------------------------------
(* Types: in particular, only the six metadata states ever reach a row, as *)
(* UpdateRunTimingMetadata and UpdateRunRegionMetadata insist.             *)
TypeOK ==
  /\ now \in Nat
  /\ age \in [Runs -> {"replay", "active", "expired"}]
  /\ published \in [Sources -> SUBSET Runs]
  /\ report \in [Sources -> [Runs -> Report]]
  /\ corrections \in Nat
  /\ pulls \in [Pulls -> PullRecord]
  /\ stored \subseteq Runs
  /\ row \in [Runs -> RunRecord]
  /\ sync \in [Sources -> [Envs -> [pc: {"idle", "reading"}, todo: SUBSET Runs,
                                    done: SUBSET Runs, seen: [Runs -> Report],
                                    batch: [Runs -> RunRecord]]]]
  /\ facts \in [Runs -> [pc: {"idle", "queued", "got", "write"}, row: RunRecord]]
  /\ meta \in [Runs -> [pc: {"idle", "queued", "timing", "region"}, row: RunRecord,
                        region: BOOLEAN, err: BOOLEAN]]

(* The PR signals of rec, a record of run r, follow from its own PR number *)
(* and SHA, given the PRs prs: only a PR that GitHub reports merged makes its run merged, with *)
(* the head that merged, and only a run of that very head is post-good.    *)
Justified(prs, r, rec) ==
  LET s == rec.signals IN
  IF SupportsPRLookup(r)
  THEN /\ s.merged => /\ rec.pull \in Pulls
                      /\ prs[rec.pull].merged
                      /\ s.final = prs[rec.pull].head
       /\ s.final # NoSHA => s.merged
       /\ s.postGood => s.merged /\ rec.sha = s.final
  ELSE s = MergedCode

(* Whatever rows Sippy, Prow and facts.runs write over one another, from    *)
(* copies read before or after the pull request was merged, a stored row    *)
(* never mixes the signals of one state of the run with the PR number or SHA *)
(* of another (post_good_commit selects the rows behind the trends).        *)
SignalsJustified == \A r \in stored : Justified(pulls, r, row[r])

(* A timing group is whole: completed exactly when found.                   *)
TimingWhole(t) ==
  /\ t.completed <=> t.state = "found"
  /\ t.completed => t.started
  /\ t.state = "" <=> t.first = Never
RegionWhole(g) ==
  /\ g.known <=> g.state = "found"
  /\ g.state = "" <=> g.first = Never

(* Full-row upserts of stale copies and column updates of the metadata      *)
(* controller never leave a row with the state of one check and the values  *)
(* of another: found rows have both times, the others have no completion.   *)
MetadataGroupsWhole ==
  \A r \in stored : TimingWhole(row[r].timing) /\ RegionWhole(row[r].region)

(* The first check of a row is remembered once and for all, so the retry    *)
(* window closes: no stale upsert erases it and no retry moves it.          *)
FirstCheckedFixed ==
  [][\A r \in stored :
       /\ row[r].timing.first # Never => row'[r].timing.first = row[r].timing.first
       /\ row[r].region.first # Never => row'[r].region.first = row[r].region.first]_vars

(* README, "Artifact `403 Forbidden` responses are terminal": a row marked  *)
(* forbidden is never looked up again, as its state stays forbidden.        *)
TerminalMetadataFinal ==
  [][\A r \in stored :
       row[r].timing.state = "forbidden" => row'[r].timing.state = "forbidden"]_vars

(* facts.runs repairs signals, whatever stale rows the sources write back:  *)
(* a row that stays in the history window has, again and again, the signals *)
(* that follow from its PR.                                                 *)
SignalsConverge ==
  \A r \in Runs :
    <>[](r \in stored /\ age[r] # "expired")
      => []<>(row[r].signals = ReconciledSignals(r, row[r]))

(* While a run stays in the replay window, what Sippy says of it reaches    *)
(* its row, even when facts.runs or Prow wrote an older copy back.          *)
SourceConverges ==
  \A r \in Runs :
    <>[](r \in published["sippy"] /\ age[r] = "replay")
      => []<>LET rep == report["sippy"][r] IN
             /\ r \in stored
             /\ row[r].failed = rep.failed
             /\ rep.pull # NoPull => row[r].pull = rep.pull
             /\ rep.sha # NoSHA => row[r].sha = rep.sha

(* The timing and the region of a run that stays in the history window each *)
(* reach a terminal state again and again, although stale upserts may set   *)
(* them back to pending (the bounded clock must last until the retry window *)
(* of the first check closes).                                              *)
MetadataSettles ==
  \A r \in Runs :
    <>[](r \in stored /\ age[r] # "expired")
      => /\ []<>(\/ TimingTerminal(row[r].timing)
                 \/ row[r].timing.first + RetryWindow > MaxTime)
         /\ []<>(\/ r \notin RegionRuns
                 \/ RegionTerminal(row[r].region)
                 \/ row[r].region.first + RetryWindow > MaxTime)
=============================================================================
