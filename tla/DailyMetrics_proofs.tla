------------------------- MODULE DailyMetrics_proofs -------------------------
(* The daily metrics are consistent for any finite set of runs, any            *)
(* environments and days and any number of changes between the reads.          *)
EXTENDS DailyMetrics, FiniteSetTheorems, TLAPS

-----------------------------------------------------------------------------
(* Counting.                                                                   *)

LEMMA SubsetCounts ==
  ASSUME NEW S \in SUBSET Runs, NEW T \in SUBSET S
  PROVE  /\ IsFiniteSet(S) /\ Cardinality(S) \in Nat /\ Cardinality(T) \in Nat
         /\ Cardinality(T) <= Cardinality(S)
<1>1. IsFiniteSet(S)
  BY MetricsAssumption, FS_Subset
<1>2. IsFiniteSet(T) /\ Cardinality(T) <= Cardinality(S)
  BY <1>1, FS_Subset
<1> QED
  BY <1>1, <1>2, FS_CardinalityType

(* Two sets that cover a third count at least as much.                         *)
LEMMA CoverCounts ==
  ASSUME NEW S \in SUBSET Runs, NEW T \in SUBSET Runs, NEW U \in SUBSET (S \cup T)
  PROVE  Cardinality(U) <= Cardinality(S) + Cardinality(T)
<1>1. IsFiniteSet(S) /\ IsFiniteSet(T) /\ IsFiniteSet(S \cap T)
  BY SubsetCounts
<1>2. Cardinality(S \cup T) = Cardinality(S) + Cardinality(T) - Cardinality(S \cap T)
  BY <1>1, FS_Union
<1>3. Cardinality(U) \in Nat /\ Cardinality(U) <= Cardinality(S \cup T)
  BY SubsetCounts
<1>4. Cardinality(S) \in Nat /\ Cardinality(T) \in Nat /\ Cardinality(S \cap T) \in Nat
  BY <1>1, FS_CardinalityType
<1>5. Cardinality(S \cup T) \in Nat
  BY SubsetCounts
<1> QED
  BY <1>2, <1>3, <1>4, <1>5

(* Every run counts in one lane.                                               *)
LEMMA LanesCountRuns ==
  ASSUME NEW S \in SUBSET Runs, NEW lanes
  PROVE  /\ LaneCounts(S, lanes) \in ByLane
         /\ LaneSum(LaneCounts(S, lanes)) = Cardinality(S)
<1> DEFINE Of(lane) == {r \in S : Lane(lanes[r]) = lane}
           P == Of("provision")
           E == Of("e2e")
           C == Of("ci_infra")
<1>1. P \subseteq S /\ E \subseteq S /\ C \subseteq S
  OBVIOUS
<1>2. S = (P \cup E) \cup C /\ P \cap E = {} /\ (P \cup E) \cap C = {}
  BY DEF Lane
<1> HIDE DEF P, E, C
<1>3. IsFiniteSet(P) /\ IsFiniteSet(E) /\ IsFiniteSet(C) /\ IsFiniteSet(P \cup E)
  BY <1>1, SubsetCounts
<1>4. /\ Cardinality(P) \in Nat /\ Cardinality(E) \in Nat /\ Cardinality(C) \in Nat
      /\ Cardinality(P \cup E) \in Nat
  BY <1>3, FS_CardinalityType
<1>5. Cardinality(P \cup E) = Cardinality(P) + Cardinality(E)
  <2>1. Cardinality(P \cup E) = Cardinality(P) + Cardinality(E) - Cardinality(P \cap E)
    BY <1>3, FS_Union
  <2>2. Cardinality(P \cap E) = 0
    BY <1>2, FS_EmptySet
  <2> QED
    BY <2>1, <2>2, <1>4
<1>6. Cardinality(S) = Cardinality(P \cup E) + Cardinality(C)
  <2>1. Cardinality(S) = Cardinality(P \cup E) + Cardinality(C) - Cardinality((P \cup E) \cap C)
    BY <1>2, <1>3, FS_Union
  <2>2. Cardinality((P \cup E) \cap C) = 0
    BY <1>2, FS_EmptySet
  <2> QED
    BY <2>1, <2>2, <1>4
<1>7. LaneCounts(S, lanes) = [provision |-> Cardinality(P), e2e |-> Cardinality(E),
                              ci |-> Cardinality(C)]
  BY DEF LaneCounts, CountLane, P, E, C
<1> QED
  BY <1>4, <1>5, <1>6, <1>7 DEF ByLane, LaneSum

(* Fewer runs count less in every lane.                                        *)
LEMMA LanesCountMonotone ==
  ASSUME NEW S \in SUBSET Runs, NEW T \in SUBSET S, NEW lanes
  PROVE  /\ LaneCounts(T, lanes).provision <= LaneCounts(S, lanes).provision
         /\ LaneCounts(T, lanes).e2e <= LaneCounts(S, lanes).e2e
         /\ LaneCounts(T, lanes).ci <= LaneCounts(S, lanes).ci
<1> SUFFICES ASSUME NEW lane
             PROVE  CountLane(T, lanes, lane) <= CountLane(S, lanes, lane)
  BY DEF LaneCounts
<1> DEFINE Of(U) == {r \in U : Lane(lanes[r]) = lane}
<1>1. Of(S) \in SUBSET Runs /\ Of(T) \in SUBSET Of(S)
  OBVIOUS
<1>2. Cardinality(Of(T)) <= Cardinality(Of(S))
  BY <1>1, SubsetCounts
<1> QED
  BY <1>2 DEF CountLane

-----------------------------------------------------------------------------
(* Types.                                                                      *)

LEMMA DayMetricsType ==
  ASSUME NEW e, NEW listed \in SUBSET Runs, NEW failed \in SUBSET Runs,
         NEW good \in SUBSET Runs, NEW lanes \in [Runs -> SUBSET Lanes],
         NEW goodRaw \in SUBSET Runs
  PROVE  DayMetrics(e, listed, failed, good, lanes, goodRaw) \in Metrics
<1> DEFINE allFailed == failed \cup Classified(lanes)
           goodFailed == IF e = Dev THEN (failed \cap good) \cup goodRaw ELSE {}
<1>1. allFailed \in SUBSET Runs /\ goodFailed \in SUBSET Runs
  BY DEF Classified
<1> HIDE DEF allFailed, goodFailed
<1>2. LaneCounts(allFailed, lanes) \in ByLane /\ LaneCounts(goodFailed, lanes) \in ByLane
  BY <1>1, LanesCountRuns
<1>3. /\ Cardinality(listed) \in Nat /\ Cardinality(good) \in Nat
      /\ Cardinality(allFailed) \in Nat
  BY <1>1, SubsetCounts
<1>4. DayMetrics(e, listed, failed, good, lanes, goodRaw) =
        [runs |-> Cardinality(listed), failed |-> Cardinality(allFailed),
         by |-> LaneCounts(allFailed, lanes),
         good |-> IF e = Dev THEN Cardinality(good) ELSE 0,
         goodBy |-> LaneCounts(goodFailed, lanes)]
  BY DEF DayMetrics, allFailed, goodFailed
<1> QED
  BY <1>2, <1>3, <1>4 DEF Metrics

LEMMA NoMetricsType == NoMetrics \in Metrics
BY DEF NoMetrics, NoLanes, Metrics, ByLane

LEMMA TypeStep == TypeOK /\ [Next]_vars => TypeOK'
<1> SUFFICES ASSUME TypeOK, [Next]_vars
             PROVE  TypeOK'
  OBVIOUS
<1> USE MetricsAssumption, NoMetricsType DEF TypeOK, Job, JobAt, NoOutput, NoLanesRead
<1>1. ASSUME NEW r \in Runs, NEW failed \in BOOLEAN, NEW postGood \in BOOLEAN,
             RunChanges(r, failed, postGood)
      PROVE  TypeOK'
  BY <1>1 DEF RunChanges, RunRow
<1>2. ASSUME NEW r \in Runs, NEW lanes \in SUBSET Lanes, RawChanges(r, lanes)
      PROVE  TypeOK'
  BY <1>2 DEF RawChanges
<1>3. ASSUME NEW d \in Days, Expire(d)
      PROVE  TypeOK'
  BY <1>3 DEF Expire
<1>4. CASE Restart
  BY <1>4 DEF Restart, world
<1>5. ASSUME NEW d \in Days, RollupEnqueue(d)
      PROVE  TypeOK'
  BY <1>5 DEF RollupEnqueue, world
<1>6. ASSUME NEW d \in Days, NEW e \in Envs, RollupListRuns(d, e)
      PROVE  TypeOK'
  BY <1>6 DEF RollupListRuns, RunsOf, world
<1>7. ASSUME NEW d \in Days, RollupListRaw(d)
      PROVE  TypeOK'
  BY <1>7, ZenonT(60) DEF RollupListRaw, Classified, world
<1>8. ASSUME NEW d \in Days, NEW r \in Runs, RollupGetRun(d, r)
      PROVE  TypeOK'
  BY <1>8 DEF RollupGetRun, world
<1>9. ASSUME NEW d \in Days, RollupCompare(d)
      PROVE  TypeOK'
  <2> DEFINE new == DayMetrics(job[d].env, job[d].listed, job[d].failed, job[d].good,
                               job[d].lanes, job[d].goodRaw)
  <2>1. new \in Metrics
    BY DayMetricsType
  <2> HIDE DEF new
  <2> DEFINE out == IF MetricsMatch(metrics[job[d].env][d], new) THEN job[d].out
                    ELSE [job[d].out EXCEPT ![job[d].env] = new]
  <2>2. out \in [Envs -> Metrics]
    BY <2>1
  <2>3. job' = [job EXCEPT ![d] = JobAt("env", job[d].todo \ {job[d].env}, out)]
    BY <1>9 DEF RollupCompare, new
  <2>4. UNCHANGED <<world, metrics>>
    BY <1>9 DEF RollupCompare
  <2> HIDE DEF out
  <2> QED
    BY <2>2, <2>3, <2>4 DEF world
<1>10. ASSUME NEW d \in Days, RollupUpsert(d)
       PROVE  TypeOK'
  BY <1>10 DEF RollupUpsert, Stored, world
<1>11. ASSUME NEW d \in Days, RollupFails(d)
       PROVE  TypeOK'
  BY <1>11 DEF RollupFails, world
<1>12. CASE UNCHANGED vars
  BY <1>12 DEF vars, world
<1> QED
  BY <1>1, <1>2, <1>3, <1>4, <1>5, <1>6, <1>7, <1>8, <1>9, <1>10, <1>11, <1>12
     DEF Next, FactsChange, RollupAdvances

(* Every variable keeps its type; in particular no count is ever negative.     *)
THEOREM TypeCorrect == Spec => []TypeOK
<1>1. Init => TypeOK
  BY MetricsAssumption, NoMetricsType
     DEF Init, TypeOK, RunRow, Job, JobAt, NoOutput, NoLanesRead
<1> QED
  BY <1>1, TypeStep, PTL DEF Spec

-----------------------------------------------------------------------------
(* Consistency.  What is stored, and what a rollup is about to store, is        *)
(* consistent because it is counted from the sets the rollup read: a run that  *)
(* was read as not failed has been stored as not failed.                       *)

Successes(e, d) == Cardinality(passed \cap RunsOf(e, d))

Consistent(m, successes) ==
  /\ LaneSum(m.by) = m.failed
  /\ m.goodBy.provision <= m.by.provision /\ m.goodBy.e2e <= m.by.e2e /\ m.goodBy.ci <= m.by.ci
  /\ m.runs <= m.failed + successes
  /\ m.good <= LaneSum(m.goodBy) + successes

ReadRight(j, succeeded) ==
  /\ j.failed \subseteq j.listed
  /\ j.good \subseteq j.listed
  /\ j.listed \ j.failed \subseteq succeeded
  /\ j.gets \cup j.goodRaw \subseteq Classified(j.lanes)

PassedInv == \A r \in Runs : run[r].stored /\ ~run[r].failed => r \in passed
ReadInv == \A d \in Days : ReadRight(job[d], passed \cap RunsOf(job[d].env, d))
OutInv == \A e \in Envs, d \in Days : Consistent(job[d].out[e], Successes(e, d))
StoredInv == \A e \in Envs, d \in Days : Consistent(metrics[e][d], Successes(e, d))

MetricsInv == TypeOK /\ PassedInv /\ ReadInv /\ OutInv /\ StoredInv

LEMMA NoMetricsConsistent ==
  ASSUME NEW n \in Nat
  PROVE  Consistent(NoMetrics, n)
BY DEF Consistent, NoMetrics, NoLanes, LaneSum

(* Counts stay consistent when more runs have passed.                          *)
LEMMA ConsistentLater ==
  ASSUME NEW m \in Metrics, NEW n \in Nat, NEW k \in Nat, n <= k, Consistent(m, n)
  PROVE  Consistent(m, k)
<1>1. m.runs \in Nat /\ m.failed \in Nat /\ m.good \in Nat /\ LaneSum(m.goodBy) \in Nat
  BY DEF Metrics, ByLane, LaneSum
<1> QED
  BY <1>1 DEF Consistent

LEMMA DayMetricsConsistent ==
  ASSUME NEW e, NEW listed \in SUBSET Runs, NEW failed \in SUBSET listed,
         NEW good \in SUBSET listed, NEW lanes \in [Runs -> SUBSET Lanes],
         NEW goodRaw \in SUBSET Classified(lanes),
         NEW P \in SUBSET Runs, listed \ failed \subseteq P
  PROVE  Consistent(DayMetrics(e, listed, failed, good, lanes, goodRaw), Cardinality(P))
<1> DEFINE allFailed == failed \cup Classified(lanes)
           goodFailed == IF e = Dev THEN (failed \cap good) \cup goodRaw ELSE {}
           goods == IF e = Dev THEN good ELSE {}
           m == DayMetrics(e, listed, failed, good, lanes, goodRaw)
<1>1. /\ allFailed \in SUBSET Runs /\ goodFailed \in SUBSET allFailed
      /\ listed \in SUBSET (allFailed \cup P) /\ goods \in SUBSET (goodFailed \cup P)
  BY DEF Classified
<1>2. /\ m.runs = Cardinality(listed) /\ m.failed = Cardinality(allFailed)
      /\ m.by = LaneCounts(allFailed, lanes) /\ m.goodBy = LaneCounts(goodFailed, lanes)
      /\ m.good = Cardinality(goods)
  BY FS_EmptySet DEF DayMetrics
<1> HIDE DEF allFailed, goodFailed, goods, m
<1>3. goodFailed \in SUBSET Runs
  BY <1>1
<1>4. LaneSum(m.by) = m.failed
  BY <1>1, <1>2, LanesCountRuns
<1>5. /\ m.goodBy.provision <= m.by.provision /\ m.goodBy.e2e <= m.by.e2e
      /\ m.goodBy.ci <= m.by.ci
  BY <1>1, <1>2, LanesCountMonotone
<1>6. m.runs <= m.failed + Cardinality(P)
  BY <1>1, <1>2, CoverCounts
<1>7. m.good <= LaneSum(m.goodBy) + Cardinality(P)
  <2>1. LaneSum(m.goodBy) = Cardinality(goodFailed)
    BY <1>2, <1>3, LanesCountRuns
  <2>2. Cardinality(goods) <= Cardinality(goodFailed) + Cardinality(P)
    BY <1>1, <1>3, CoverCounts
  <2> QED
    BY <1>2, <2>1, <2>2
<1> QED
  BY <1>4, <1>5, <1>6, <1>7 DEF Consistent, m

(* The number of runs that have passed is a number and only grows.             *)
LEMMA SuccessesGrow ==
  ASSUME TypeOK, TypeOK', passed \subseteq passed', NEW e, NEW d
  PROVE  Successes(e, d) \in Nat /\ Successes(e, d)' \in Nat /\ Successes(e, d) <= Successes(e, d)'
<1> DEFINE S == passed' \cap RunsOf(e, d)
           T == passed \cap RunsOf(e, d)
<1>1. S \in SUBSET Runs /\ T \in SUBSET S
  BY DEF TypeOK
<1>2. Cardinality(S) \in Nat /\ Cardinality(T) \in Nat /\ Cardinality(T) <= Cardinality(S)
  BY <1>1, SubsetCounts
<1> QED
  BY <1>2 DEF Successes, RunsOf

LEMMA InvInit == Init => MetricsInv
<1> SUFFICES ASSUME Init
             PROVE  MetricsInv
  OBVIOUS
<1>1. TypeOK
  BY MetricsAssumption, NoMetricsType
     DEF Init, TypeOK, RunRow, Job, JobAt, NoOutput, NoLanesRead
<1>2. PassedInv /\ ReadInv
  BY DEF Init, PassedInv, ReadInv, ReadRight, JobAt, Job
<1>3. OutInv /\ StoredInv
  <2> SUFFICES ASSUME NEW e \in Envs, NEW d \in Days
               PROVE  /\ Consistent(job[d].out[e], Successes(e, d))
                      /\ Consistent(metrics[e][d], Successes(e, d))
    BY DEF OutInv, StoredInv
  <2>1. job[d].out[e] = NoMetrics /\ metrics[e][d] = NoMetrics
    BY DEF Init, JobAt, Job, NoOutput
  <2>2. Successes(e, d) \in Nat
    <3>1. passed \cap RunsOf(e, d) \in SUBSET Runs
      BY <1>1 DEF TypeOK
    <3> QED
      BY <3>1, SubsetCounts DEF Successes
  <2> QED
    BY <2>1, <2>2, NoMetricsConsistent
<1> QED
  BY <1>1, <1>2, <1>3 DEF MetricsInv

(* A step that changes what passed, but no count, keeps the counts consistent. *)
LEMMA CountsKept ==
  ASSUME MetricsInv, TypeOK', passed \subseteq passed', UNCHANGED <<metrics, job>>
  PROVE  OutInv' /\ StoredInv'
<1> USE DEF MetricsInv
<1> SUFFICES ASSUME NEW e \in Envs, NEW d \in Days
             PROVE  /\ Consistent(job'[d].out[e], Successes(e, d)')
                    /\ Consistent(metrics'[e][d], Successes(e, d)')
  BY DEF OutInv, StoredInv
<1>1. Successes(e, d) \in Nat /\ Successes(e, d)' \in Nat /\ Successes(e, d) <= Successes(e, d)'
  BY SuccessesGrow
<1>2. job[d].out[e] \in Metrics /\ metrics[e][d] \in Metrics
  BY DEF TypeOK
<1>3. Consistent(job[d].out[e], Successes(e, d)) /\ Consistent(metrics[e][d], Successes(e, d))
  BY DEF OutInv, StoredInv
<1>4. job'[d].out[e] = job[d].out[e] /\ metrics'[e][d] = metrics[e][d]
  OBVIOUS
<1> HIDE DEF MetricsInv
<1> QED
  BY <1>1, <1>2, <1>3, <1>4, ConsistentLater

(* A step of the rollup of d leaves the world alone; it is enough that the new  *)
(* state of the job is right.                                                  *)
LEMMA JobStep ==
  ASSUME MetricsInv, TypeOK', UNCHANGED <<world, metrics>>, NEW d \in Days, NEW j,
         job' = [job EXCEPT ![d] = j], ReadRight(j, passed \cap RunsOf(j.env, d)),
         \A e \in Envs : Consistent(j.out[e], Successes(e, d))
  PROVE  MetricsInv'
<1> USE DEF MetricsInv
<1>1. UNCHANGED <<run, passed, metrics>>
  BY DEF world
<1>2. \A c \in Days : job'[c] = IF c = d THEN j ELSE job[c]
  BY DEF TypeOK
<1>3. PassedInv'
  BY <1>1 DEF PassedInv
<1>4. ReadInv'
  <2> SUFFICES ASSUME NEW c \in Days
               PROVE  ReadRight(job'[c], passed \cap RunsOf(job'[c].env, c))
    BY <1>1 DEF ReadInv, RunsOf
  <2> QED
    BY <1>2 DEF ReadInv
<1>5. \A e \in Envs, c \in Days : Successes(e, c)' = Successes(e, c)
  BY <1>1 DEF Successes, RunsOf
<1>6. OutInv'
  <2> SUFFICES ASSUME NEW e \in Envs, NEW c \in Days
               PROVE  Consistent(job'[c].out[e], Successes(e, c))
    BY <1>5 DEF OutInv
  <2> QED
    BY <1>2 DEF OutInv
<1>7. StoredInv'
  BY <1>1, <1>5 DEF StoredInv
<1> QED
  BY <1>3, <1>4, <1>6, <1>7

(* Between two environments the job holds nothing it has read.                 *)
LEMMA NothingRead ==
  ASSUME NEW pc, NEW todo, NEW out, NEW succeeded
  PROVE  ReadRight(JobAt(pc, todo, out), succeeded) /\ JobAt(pc, todo, out).out = out
BY DEF ReadRight, JobAt, Job

LEMMA NoOutputConsistent ==
  ASSUME TypeOK, NEW e \in Envs, NEW d
  PROVE  Consistent(NoOutput[e], Successes(e, d))
<1>1. passed \cap RunsOf(e, d) \in SUBSET Runs
  BY DEF TypeOK
<1>2. Successes(e, d) \in Nat
  BY <1>1, SubsetCounts DEF Successes
<1> QED
  BY <1>2, NoMetricsConsistent DEF NoOutput

LEMMA StartOver ==
  ASSUME MetricsInv, TypeOK', UNCHANGED <<world, metrics>>, NEW d \in Days,
         job' = [job EXCEPT ![d] = JobAt("env", Envs, NoOutput)]
  PROVE  MetricsInv'
<1> DEFINE j == JobAt("env", Envs, NoOutput)
<1>1. ReadRight(j, passed \cap RunsOf(j.env, d)) /\ j.out = NoOutput
  BY NothingRead
<1>2. \A e \in Envs : Consistent(j.out[e], Successes(e, d))
  BY <1>1, NoOutputConsistent DEF MetricsInv
<1> HIDE DEF j
<1>3. job' = [job EXCEPT ![d] = j]
  BY DEF j
<1> QED
  BY <1>1, <1>2, <1>3, JobStep

LEMMA InvStep == MetricsInv /\ [Next]_vars => MetricsInv'
<1> SUFFICES ASSUME MetricsInv, [Next]_vars
             PROVE  MetricsInv'
  OBVIOUS
<1>0. TypeOK /\ TypeOK'
  BY TypeStep DEF MetricsInv
<1>1. ASSUME NEW r \in Runs, NEW failed \in BOOLEAN, NEW postGood \in BOOLEAN,
             RunChanges(r, failed, postGood)
      PROVE  MetricsInv'
  <2>1. passed \subseteq passed' /\ UNCHANGED <<metrics, job>>
    BY <1>1 DEF RunChanges
  <2>2. PassedInv'
    <3>1. \A s \in Runs : s # r => run'[s] = run[s]
      BY <1>0, <1>1 DEF RunChanges, TypeOK
    <3>2. run'[r].failed = failed
      BY <1>0, <1>1 DEF RunChanges, TypeOK
    <3>3. ~failed => r \in passed'
      BY <1>1 DEF RunChanges
    <3> QED
      BY <2>1, <3>1, <3>2, <3>3 DEF MetricsInv, PassedInv
  <2>3. ReadInv'
    BY <2>1 DEF MetricsInv, ReadInv, ReadRight, RunsOf
  <2> QED
    BY <1>0, <2>1, <2>2, <2>3, CountsKept DEF MetricsInv
<1>2. ASSUME UNCHANGED <<run, passed, metrics, job>>
      PROVE  MetricsInv'
  <2>1. PassedInv' /\ ReadInv'
    BY <1>2 DEF MetricsInv, PassedInv, ReadInv, RunsOf
  <2> QED
    BY <1>0, <1>2, <2>1, CountsKept DEF MetricsInv
<1>3. ASSUME NEW r \in Runs, NEW lanes \in SUBSET Lanes, RawChanges(r, lanes)
      PROVE  MetricsInv'
  BY <1>2, <1>3 DEF RawChanges
<1>4. ASSUME NEW d \in Days, Expire(d)
      PROVE  MetricsInv'
  BY <1>2, <1>4 DEF Expire
<1>5. CASE Restart
  <2>1. UNCHANGED <<run, passed, metrics>> /\ \A d \in Days : job'[d] = JobAt("idle", {}, NoOutput)
    BY <1>5 DEF Restart, world
  <2>2. PassedInv' /\ StoredInv'
    BY <2>1 DEF MetricsInv, PassedInv, StoredInv, Successes, RunsOf
  <2>3. ReadInv'
    BY <2>1, NothingRead DEF ReadInv
  <2>4. OutInv'
    <3> SUFFICES ASSUME NEW e \in Envs, NEW d \in Days
                 PROVE  Consistent(job'[d].out[e], Successes(e, d)')
      BY DEF OutInv
    <3>1. Successes(e, d)' = Successes(e, d)
      BY <2>1 DEF Successes, RunsOf
    <3> QED
      BY <1>0, <2>1, <3>1, NothingRead, NoOutputConsistent
  <2> QED
    BY <1>0, <2>2, <2>3, <2>4 DEF MetricsInv
<1>6. ASSUME NEW d \in Days, RollupEnqueue(d)
      PROVE  MetricsInv'
  <2>1. job' = [job EXCEPT ![d] = JobAt("env", Envs, NoOutput)] /\ UNCHANGED <<world, metrics>>
    BY <1>6 DEF RollupEnqueue
  <2> QED
    BY <1>0, <2>1, StartOver
<1>7. ASSUME NEW d \in Days, RollupFails(d)
      PROVE  MetricsInv'
  <2>1. job' = [job EXCEPT ![d] = JobAt("env", Envs, NoOutput)] /\ UNCHANGED <<world, metrics>>
    BY <1>7 DEF RollupFails
  <2> QED
    BY <1>0, <2>1, StartOver
<1>8. ASSUME NEW d \in Days, NEW e \in Envs, RollupListRuns(d, e)
      PROVE  MetricsInv'
  <2> DEFINE listed == {r \in RunsOf(e, d) : run[r].stored}
             failed == {r \in listed : run[r].failed}
             good == {r \in listed : PostGood(r)}
             j == Job("runs", job[d].todo, job[d].out, e, listed, failed, good, NoLanesRead, {}, {})
  <2>1. job' = [job EXCEPT ![d] = j] /\ UNCHANGED <<world, metrics>>
    BY <1>8 DEF RollupListRuns
  <2>2. listed \ failed \subseteq passed \cap RunsOf(e, d)
    BY DEF MetricsInv, PassedInv, RunsOf
  <2>3. ReadRight(j, passed \cap RunsOf(j.env, d))
    BY <2>2 DEF ReadRight, Job
  <2>4. \A c \in Envs : Consistent(j.out[c], Successes(c, d))
    BY DEF MetricsInv, OutInv, Job
  <2> HIDE DEF j
  <2> QED
    BY <1>0, <2>1, <2>3, <2>4, JobStep
<1>9. ASSUME NEW d \in Days, RollupListRaw(d)
      PROVE  MetricsInv'
  <2> DEFINE o == job[d]
             lanes == [r \in Runs |-> IF r \in RunsOf(o.env, d) THEN raw[r] ELSE {}]
             gets == IF o.env = Dev THEN Classified(lanes) ELSE {}
             read == Job("raw", o.todo, o.out, o.env, o.listed, o.failed, o.good, lanes, gets, {})
             skip == JobAt("env", o.todo \ {o.env}, o.out)
  <2>1. /\ job' = [job EXCEPT ![d] = skip] \/ job' = [job EXCEPT ![d] = read]
        /\ UNCHANGED <<world, metrics>>
    BY <1>9 DEF RollupListRaw
  <2>2. ReadRight(o, passed \cap RunsOf(o.env, d))
    BY DEF MetricsInv, ReadInv
  <2>3. \A c \in Envs : Consistent(o.out[c], Successes(c, d))
    BY DEF MetricsInv, OutInv
  <2>4. ReadRight(read, passed \cap RunsOf(read.env, d)) /\ read.out = o.out
    BY <2>2 DEF ReadRight, Job
  <2>5. ReadRight(skip, passed \cap RunsOf(skip.env, d)) /\ skip.out = o.out
    BY NothingRead
  <2> HIDE DEF read, skip, o
  <2> QED
    BY <1>0, <2>1, <2>3, <2>4, <2>5, JobStep
<1>10. ASSUME NEW d \in Days, NEW r \in Runs, RollupGetRun(d, r)
       PROVE  MetricsInv'
  <2> DEFINE o == job[d]
             goodRaw == IF PostGood(r) THEN o.goodRaw \cup {r} ELSE o.goodRaw
             j == Job("raw", o.todo, o.out, o.env, o.listed, o.failed, o.good, o.lanes,
                      o.gets \ {r}, goodRaw)
  <2>1. job' = [job EXCEPT ![d] = j] /\ UNCHANGED <<world, metrics>> /\ r \in o.gets
    BY <1>10 DEF RollupGetRun
  <2>2. ReadRight(o, passed \cap RunsOf(o.env, d))
    BY DEF MetricsInv, ReadInv
  <2>3. ReadRight(j, passed \cap RunsOf(j.env, d)) /\ j.out = o.out
    BY <2>1, <2>2 DEF ReadRight, Job
  <2>4. \A c \in Envs : Consistent(j.out[c], Successes(c, d))
    BY <2>3 DEF MetricsInv, OutInv
  <2> HIDE DEF j, o
  <2> QED
    BY <1>0, <2>1, <2>3, <2>4, JobStep
<1>11. ASSUME NEW d \in Days, RollupCompare(d)
       PROVE  MetricsInv'
  <2> DEFINE o == job[d]
             P == passed \cap RunsOf(o.env, d)
             new == DayMetrics(o.env, o.listed, o.failed, o.good, o.lanes, o.goodRaw)
  <2>1. /\ o.listed \subseteq Runs /\ o.lanes \in [Runs -> SUBSET Lanes]
        /\ P \subseteq Runs /\ o.out \in [Envs -> Metrics]
    BY <1>0 DEF TypeOK
  <2>2. ReadRight(o, P)
    BY DEF MetricsInv, ReadInv
  <2>3. Consistent(new, Successes(o.env, d))
    <3> HIDE DEF o
    <3>1. /\ o.failed \subseteq o.listed /\ o.good \subseteq o.listed
          /\ o.listed \ o.failed \subseteq P /\ o.goodRaw \subseteq Classified(o.lanes)
      BY <2>2 DEF ReadRight
    <3> QED
      BY <2>1, <3>1, DayMetricsConsistent DEF Successes
  <2>4. \A c \in Envs : Consistent(o.out[c], Successes(c, d))
    BY DEF MetricsInv, OutInv
  <2> DEFINE out == IF MetricsMatch(metrics[o.env][d], new) THEN o.out
                    ELSE [o.out EXCEPT ![o.env] = new]
             j == JobAt("env", o.todo \ {o.env}, out)
  <2>5. job' = [job EXCEPT ![d] = j] /\ UNCHANGED <<world, metrics>>
    BY <1>11 DEF RollupCompare
  <2> HIDE DEF new, o
  <2>6. \A c \in Envs : Consistent(out[c], Successes(c, d))
    BY <2>1, <2>3, <2>4
  <2> HIDE DEF out
  <2>7. ReadRight(j, passed \cap RunsOf(j.env, d)) /\ j.out = out
    BY NothingRead
  <2> HIDE DEF j
  <2> QED
    BY <1>0, <2>5, <2>6, <2>7, JobStep
<1>12. ASSUME NEW d \in Days, RollupUpsert(d)
       PROVE  MetricsInv'
  <2>1. UNCHANGED <<run, passed>>
    BY <1>12 DEF RollupUpsert, world
  <2>2. \A e \in Envs, c \in Days : Successes(e, c)' = Successes(e, c)
    BY <2>1 DEF Successes, RunsOf
  <2>3. \A e \in Envs, c \in Days :
          metrics'[e][c] = IF c = d THEN Stored(metrics[e][d], job[d].out[e]) ELSE metrics[e][c]
    BY <1>0, <1>12 DEF RollupUpsert, TypeOK
  <2>4. \A c \in Days : job'[c] = IF c = d THEN JobAt("idle", {}, NoOutput) ELSE job[c]
    BY <1>0, <1>12 DEF RollupUpsert, TypeOK
  <2>5. PassedInv'
    BY <2>1 DEF MetricsInv, PassedInv
  <2>6. ReadInv'
    <3> SUFFICES ASSUME NEW c \in Days
                 PROVE  ReadRight(job'[c], passed \cap RunsOf(job'[c].env, c))
      BY <2>1 DEF ReadInv, RunsOf
    <3> QED
      BY <2>4, NothingRead DEF MetricsInv, ReadInv
  <2>7. OutInv'
    <3> SUFFICES ASSUME NEW e \in Envs, NEW c \in Days
                 PROVE  Consistent(job'[c].out[e], Successes(e, c))
      BY <2>2 DEF OutInv
    <3>1. CASE c = d
      BY <1>0, <2>4, <3>1, NothingRead, NoOutputConsistent
    <3>2. CASE c # d
      BY <2>4, <3>2 DEF MetricsInv, OutInv
    <3> QED
      BY <3>1, <3>2
  <2>8. StoredInv'
    <3> SUFFICES ASSUME NEW e \in Envs, NEW c \in Days
                 PROVE  Consistent(metrics'[e][c], Successes(e, c))
      BY <2>2 DEF StoredInv
    <3>1. Consistent(metrics[e][c], Successes(e, c)) /\ Consistent(job[c].out[e], Successes(e, c))
      BY DEF MetricsInv, StoredInv, OutInv
    <3>2. metrics'[e][c] = metrics[e][c] \/ metrics'[e][c] = job[c].out[e]
      BY <2>3 DEF Stored
    <3> QED
      BY <3>1, <3>2
  <2> QED
    BY <1>0, <2>5, <2>6, <2>7, <2>8 DEF MetricsInv
<1>13. CASE UNCHANGED vars
  BY <1>2, <1>13 DEF vars, world
<1> QED
  BY <1>1, <1>3, <1>4, <1>5, <1>6, <1>7, <1>8, <1>9, <1>10, <1>11, <1>12, <1>13
     DEF Next, FactsChange, RollupAdvances

THEOREM MetricsInvariant == Spec => []MetricsInv
BY InvInit, InvStep, PTL DEF Spec

(* The lanes of a day always add up to its failures (the comment above         *)
(* unclassifiedFailedRuns).                                                    *)
THEOREM LanesAlwaysPartition == Spec => []LanesPartitionFailures
<1>1. MetricsInv => LanesPartitionFailures
  BY DEF MetricsInv, StoredInv, Consistent, LanesPartitionFailures
<1> QED
  BY <1>1, MetricsInvariant, PTL

(* Post-good failures never outnumber the failures of their lane.              *)
THEOREM GoodFailuresAlwaysAmongAll == Spec => []GoodFailuresAmongAll
<1>1. MetricsInv => GoodFailuresAmongAll
  BY DEF MetricsInv, StoredInv, Consistent, GoodFailuresAmongAll
<1> QED
  BY <1>1, MetricsInvariant, PTL

(* Lanes are consistent, of all runs and of the post-good ones.                *)
THEOREM LanesAlwaysConsistent == Spec => []LanesConsistent
<1>1. LanesPartitionFailures /\ GoodFailuresAmongAll => LanesConsistent
  BY DEF LanesConsistent
<1> QED
  BY <1>1, LanesAlwaysPartition, GoodFailuresAlwaysAmongAll, PTL

(* Missing facts never count as successes.                                     *)
THEOREM NeverApparentSuccess == Spec => []NoApparentSuccess
<1>1. MetricsInv => NoApparentSuccess
  BY DEF MetricsInv, StoredInv, Consistent, NoApparentSuccess, Successes
<1> QED
  BY <1>1, MetricsInvariant, PTL
=============================================================================
