---------------------------- MODULE DailyMetrics ----------------------------
(* metrics.rollup.daily: for one day, environment by environment, it reads the *)
(* runs of the day, then their raw failures, then (for dev) once more each run *)
(* that has raw failures, counts, and stores all counts that changed in one    *)
(* transaction.  Runs are stored, corrected and classified meanwhile, so the   *)
(* reads of one rollup may see different states.                               *)
EXTENDS Naturals, FiniteSets

CONSTANTS
  Runs,        \* run URLs
  Envs,        \* environments
  EnvOf,       \* [Runs -> Envs]
  Days,        \* UTC dates
  DayOf,       \* [Runs -> Days], the date of occurred_at
  Dev,         \* the environment with post-good metrics
  BatchRuns,   \* Tide batches
  MaxChanges   \* bound on the changes of runs and raw failures

ASSUME MetricsAssumption ==
  /\ IsFiniteSet(Runs)
  /\ EnvOf \in [Runs -> Envs]
  /\ DayOf \in [Runs -> Days]
  /\ BatchRuns \subseteq Runs
  /\ MaxChanges \in Nat

VARIABLES
  changes,  \* number of changes of runs and raw failures
  active,   \* days in the history window
  run,      \* run[r]: the row of r in cfa_runs, in part
  raw,      \* raw[r]: lanes of the rows of r in cfa_raw_failures
  passed,   \* runs that were ever stored as not failed (for the properties)
  metrics,  \* metrics[e][d]: cfa_metrics_daily
  job       \* job[d]: the rollup of day d

world == <<changes, active, run, raw, passed>>
vars == <<world, metrics, job>>

Lanes == {"provision", "e2e", "ci_infra"}
RunRow == [stored: BOOLEAN, failed: BOOLEAN, postGood: BOOLEAN]
ByLane == [provision: Nat, e2e: Nat, ci: Nat]
Metrics == [runs: Nat, failed: Nat, by: ByLane, good: Nat, goodBy: ByLane]

NoLanes == [provision |-> 0, e2e |-> 0, ci |-> 0]
NoMetrics == [runs |-> 0, failed |-> 0, by |-> NoLanes, good |-> 0, goodBy |-> NoLanes]

RunsOf(e, d) == {r \in Runs : EnvOf[r] = e /\ DayOf[r] = d}
PostGood(r) == run[r].postGood \/ r \in BatchRuns

-----------------------------------------------------------------------------
(* Counting.                                                                   *)

(* Provision outranks e2e, which outranks CI infrastructure; a failed run      *)
(* without raw failures counts as CI infrastructure.                           *)
Lane(lanes) ==
  IF "provision" \in lanes THEN "provision" ELSE IF "e2e" \in lanes THEN "e2e" ELSE "ci_infra"

CountLane(runs, lanes, lane) == Cardinality({r \in runs : Lane(lanes[r]) = lane})

LaneCounts(runs, lanes) ==
  [provision |-> CountLane(runs, lanes, "provision"), e2e |-> CountLane(runs, lanes, "e2e"),
   ci |-> CountLane(runs, lanes, "ci_infra")]

Classified(lanes) == {r \in Runs : lanes[r] # {}}

(* Fault: failed runs that have no raw failures yet are not counted.           *)
DayMetricsClassified(e, listed, failed, good, lanes, goodRaw) ==
  LET goodFailed == IF e = Dev THEN (failed \cap good) \cup goodRaw ELSE {} IN
  [runs |-> Cardinality(listed), failed |-> Cardinality(Classified(lanes)),
   by |-> LaneCounts(Classified(lanes), lanes),
   good |-> IF e = Dev THEN Cardinality(good) ELSE 0,
   goodBy |-> LaneCounts(goodFailed, lanes)]

(* Fault: they are counted but not attributed to a lane.                       *)
DayMetricsUnattributed(e, listed, failed, good, lanes, goodRaw) ==
  LET goodFailed == IF e = Dev THEN (failed \cap good) \cup goodRaw ELSE {} IN
  [runs |-> Cardinality(listed), failed |-> Cardinality(failed \cup Classified(lanes)),
   by |-> LaneCounts(Classified(lanes), lanes),
   good |-> IF e = Dev THEN Cardinality(good) ELSE 0,
   goodBy |-> LaneCounts(goodFailed, lanes)]

(* Fault: CI infrastructure gets what provision and e2e leave of the runs that *)
(* say they failed.                                                            *)
DayMetricsBySubtraction(e, listed, failed, good, lanes, goodRaw) ==
  LET goodFailed == IF e = Dev THEN (failed \cap good) \cup goodRaw ELSE {}
      classified == LaneCounts(Classified(lanes), lanes) IN
  [runs |-> Cardinality(listed), failed |-> Cardinality(failed \cup Classified(lanes)),
   by |-> [classified EXCEPT !.ci = Cardinality(failed) - classified.provision - classified.e2e],
   good |-> IF e = Dev THEN Cardinality(good) ELSE 0,
   goodBy |-> LaneCounts(goodFailed, lanes)]

(* listed, failed and good as the runs were read; lanes and goodRaw as the raw *)
(* failures and the single runs were.                                          *)
DayMetrics(e, listed, failed, good, lanes, goodRaw) ==
  LET allFailed == failed \cup Classified(lanes)
      goodFailed == IF e = Dev THEN (failed \cap good) \cup goodRaw ELSE {} IN
  [runs |-> Cardinality(listed), failed |-> Cardinality(allFailed),
   by |-> LaneCounts(allFailed, lanes),
   good |-> IF e = Dev THEN Cardinality(good) ELSE 0,
   goodBy |-> LaneCounts(goodFailed, lanes)]

-----------------------------------------------------------------------------
NoLanesRead == [r \in Runs |-> {}]

Job(pc, todo, out, env, listed, failed, good, lanes, gets, goodRaw) ==
  [pc |-> pc, todo |-> todo, out |-> out, env |-> env, listed |-> listed, failed |-> failed,
   good |-> good, lanes |-> lanes, gets |-> gets, goodRaw |-> goodRaw]

(* Between two environments.                                                   *)
JobAt(pc, todo, out) == Job(pc, todo, out, Dev, {}, {}, {}, NoLanesRead, {}, {})
NoOutput == [e \in Envs |-> NoMetrics]

Init ==
  /\ changes = 0
  /\ active = Days
  /\ run = [r \in Runs |-> [stored |-> FALSE, failed |-> FALSE, postGood |-> FALSE]]
  /\ raw = [r \in Runs |-> {}]
  /\ passed = {}
  /\ metrics = [e \in Envs |-> [d \in Days |-> NoMetrics]]
  /\ job = [d \in Days |-> JobAt("idle", {}, NoOutput)]

-----------------------------------------------------------------------------
(* The world around the controller.                                            *)

(* A source stores or corrects run r, or facts.runs its post-good mark.        *)
RunChanges(r, failed, postGood) ==
  /\ changes < MaxChanges
  /\ run' = [run EXCEPT ![r] = [stored |-> TRUE, failed |-> failed, postGood |-> postGood]]
  /\ passed' = IF failed THEN passed ELSE passed \cup {r}
  /\ changes' = changes + 1
  /\ UNCHANGED <<active, raw, metrics, job>>

(* facts.raw-failures stores or replaces the raw failures of a failed run.     *)
RawChanges(r, lanes) ==
  /\ changes < MaxChanges
  /\ run[r].stored /\ run[r].failed
  /\ lanes # {}
  /\ raw' = [raw EXCEPT ![r] = lanes]
  /\ changes' = changes + 1
  /\ UNCHANGED <<active, run, passed, metrics, job>>

Expire(d) ==
  /\ active' = active \ {d}
  /\ UNCHANGED <<changes, run, raw, passed, metrics, job>>

Restart ==
  /\ job' = [d \in Days |-> JobAt("idle", {}, NoOutput)]
  /\ UNCHANGED <<world, metrics>>

-----------------------------------------------------------------------------
(* The rollup of day d: listKeys, processKey.                                  *)

RollupEnqueue(d) ==
  /\ job[d].pc = "idle"
  /\ d \in active
  /\ \E r \in Runs : run[r].stored /\ DayOf[r] = d
  /\ job' = [job EXCEPT ![d] = JobAt("env", Envs, NoOutput)]
  /\ UNCHANGED <<world, metrics>>

RollupListRuns(d, e) ==
  LET listed == {r \in RunsOf(e, d) : run[r].stored} IN
  /\ job[d].pc = "env"
  /\ e \in job[d].todo
  /\ job' = [job EXCEPT ![d] =
               Job("runs", job[d].todo, job[d].out, e, listed,
                   {r \in listed : run[r].failed}, {r \in listed : PostGood(r)},
                   NoLanesRead, {}, {})]
  /\ UNCHANGED <<world, metrics>>

RollupListRaw(d) ==
  LET j == job[d]
      lanes == [r \in Runs |-> IF r \in RunsOf(j.env, d) THEN raw[r] ELSE {}] IN
  /\ j.pc = "runs"
  /\ job' = [job EXCEPT ![d] =
               IF j.listed = {} /\ Classified(lanes) = {}
               THEN JobAt("env", j.todo \ {j.env}, j.out)
               ELSE Job("raw", j.todo, j.out, j.env, j.listed, j.failed, j.good, lanes,
                        IF j.env = Dev THEN Classified(lanes) ELSE {}, {})]
  /\ UNCHANGED <<world, metrics>>

(* isMetricPostGoodRun reads the run anew.                                     *)
RollupGetRun(d, r) ==
  LET j == job[d] IN
  /\ j.pc = "raw"
  /\ r \in j.gets
  /\ job' = [job EXCEPT ![d] =
               Job("raw", j.todo, j.out, j.env, j.listed, j.failed, j.good, j.lanes,
                   j.gets \ {r}, IF PostGood(r) THEN j.goodRaw \cup {r} ELSE j.goodRaw)]
  /\ UNCHANGED <<world, metrics>>

(* Fault: a day is rolled up once.                                             *)
MetricsMatchAny(old, new) == old # NoMetrics
MetricsMatch(old, new) == old = new

RollupCompare(d) ==
  LET j == job[d]
      new == DayMetrics(j.env, j.listed, j.failed, j.good, j.lanes, j.goodRaw) IN
  /\ j.pc = "raw"
  /\ j.gets = {}
  /\ job' = [job EXCEPT ![d] =
               JobAt("env", j.todo \ {j.env},
                     IF MetricsMatch(metrics[j.env][d], new) THEN j.out
                     ELSE [j.out EXCEPT ![j.env] = new])]
  /\ UNCHANGED <<world, metrics>>

(* UpsertMetricsDaily replaces the rows of the environments it is given.       *)
Stored(old, new) == IF new = NoMetrics THEN old ELSE new

RollupUpsert(d) ==
  /\ job[d].pc = "env"
  /\ job[d].todo = {}
  /\ metrics' = [e \in Envs |-> [metrics[e] EXCEPT ![d] = Stored(metrics[e][d], job[d].out[e])]]
  /\ job' = [job EXCEPT ![d] = JobAt("idle", {}, NoOutput)]
  /\ UNCHANGED world

(* A query failed; the key is retried from the start.                          *)
RollupFails(d) ==
  /\ job[d].pc # "idle"
  /\ job' = [job EXCEPT ![d] = JobAt("env", Envs, NoOutput)]
  /\ UNCHANGED <<world, metrics>>

-----------------------------------------------------------------------------
FactsChange ==
  \/ \E r \in Runs, failed, postGood \in BOOLEAN : RunChanges(r, failed, postGood)
  \/ \E r \in Runs, lanes \in SUBSET Lanes : RawChanges(r, lanes)
  \/ \E d \in Days : Expire(d)

RollupAdvances(d) ==
  \/ RollupEnqueue(d) \/ RollupListRaw(d) \/ RollupCompare(d) \/ RollupUpsert(d)
  \/ \E e \in Envs : RollupListRuns(d, e)
  \/ \E r \in Runs : RollupGetRun(d, r)

Next ==
  \/ FactsChange
  \/ Restart
  \/ \E d \in Days : RollupAdvances(d) \/ RollupFails(d)

Spec == Init /\ [][Next]_vars

(* A day is listed and retried for ever.  A rollup starts over when one of its *)
(* queries fails, so it completes only once queries fail no more.              *)
FaultsEnd == <>[][FactsChange \/ \E d \in Days : RollupAdvances(d)]_vars

Fairness == FaultsEnd /\ \A d \in Days : WF_vars(RollupAdvances(d))

FairSpec == Spec /\ Fairness

-----------------------------------------------------------------------------
TypeOK ==
  /\ changes \in Nat
  /\ active \subseteq Days
  /\ run \in [Runs -> RunRow]
  /\ raw \in [Runs -> SUBSET Lanes]
  /\ passed \subseteq Runs
  /\ metrics \in [Envs -> [Days -> Metrics]]
  /\ job \in [Days -> [pc: {"idle", "env", "runs", "raw"}, todo: SUBSET Envs,
                       out: [Envs -> Metrics], env: Envs \cup {Dev}, listed: SUBSET Runs,
                       failed: SUBSET Runs, good: SUBSET Runs, lanes: [Runs -> SUBSET Lanes],
                       gets: SUBSET Runs, goodRaw: SUBSET Runs]]

LaneSum(by) == by.provision + by.e2e + by.ci

(* "so the failed-run lane partition remains complete for visualization": the  *)
(* lanes of a day add up to its failures, also when a run fails or is          *)
(* classified between the reads of the rollup.                                 *)
LanesPartitionFailures ==
  \A e \in Envs, d \in Days : LaneSum(metrics[e][d].by) = metrics[e][d].failed

(* The post-good failures of a lane are among all its failures, although they  *)
(* are counted from another reading of the runs.                               *)
GoodFailuresAmongAll ==
  \A e \in Envs, d \in Days :
    LET m == metrics[e][d] IN
    m.goodBy.provision <= m.by.provision /\ m.goodBy.e2e <= m.by.e2e /\ m.goodBy.ci <= m.by.ci

(* What the pages that draw lanes rely on, of all runs and of post-good ones.  *)
LanesConsistent == LanesPartitionFailures /\ GoodFailuresAmongAll

(* Missing facts do not become successes: at most the runs that were stored    *)
(* as not failed at some time count as successes (run_count - failure_count),  *)
(* of all runs and of the post-good ones.                                      *)
NoApparentSuccess ==
  \A e \in Envs, d \in Days :
    LET m == metrics[e][d]
        successes == Cardinality(passed \cap RunsOf(e, d)) IN
    /\ m.runs <= m.failed + successes
    /\ m.good <= LaneSum(m.goodBy) + successes

(* Counted without reading in steps: run r failed if it says so or has raw     *)
(* failures, and a post-good run is one that is marked or a batch.             *)
Reference(e, d) ==
  LET runs == {r \in RunsOf(e, d) : run[r].stored}
      failed == {r \in runs : run[r].failed \/ raw[r] # {}}
      good == IF e = Dev THEN {r \in runs : PostGood(r)} ELSE {}
      Count(S, lane) == Cardinality({r \in S : /\ lane \in raw[r] \/ (lane = "ci_infra" /\ raw[r] = {})
                                               /\ lane = "e2e" => "provision" \notin raw[r]
                                               /\ lane = "ci_infra" => raw[r] \subseteq {lane}})
      Counts(S) == [provision |-> Count(S, "provision"), e2e |-> Count(S, "e2e"),
                    ci |-> Count(S, "ci_infra")] IN
  [runs |-> Cardinality(runs), failed |-> Cardinality(failed), by |-> Counts(failed),
   good |-> Cardinality(good), goodBy |-> Counts(failed \cap good)]

(* Once the facts of a day in the history window change no more, its metrics   *)
(* end up what the facts say.                                                  *)
MetricsConverge ==
  \A d \in Days :
    <>[](d \in active) =>
      <>[](\A e \in Envs : metrics[e][d] = Reference(e, d))
=============================================================================
