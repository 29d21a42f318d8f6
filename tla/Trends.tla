------------------------------- MODULE Trends -------------------------------
(* readmodel/trends: success rates of dev from the daily metrics of a window,  *)
(* day by day or week by week.  Days may lack metrics, be of an earlier        *)
(* release that knew fewer of them, or have been counted while runs were       *)
(* still being stored and classified.                                          *)
EXTENDS FailurePatterns, Functions

CONSTANTS
  TrendRuns,    \* runs of dev
  TrendDays,    \* days with runs, a set of numbers
  Today,        \* the day of the request
  TrendQueries  \* what is asked for: a mode and its days or dates

(* Windows of dates, or of days counted from today.                            *)
ASSUME TrendsAssumption ==
  /\ IsFiniteSet(TrendRuns) /\ IsFiniteSet(TrendDays) /\ TrendDays \subseteq Int /\ Today \in Int
  /\ \A query \in TrendQueries :
       /\ query.mode = "relative" => query.days \in Int
       /\ query.mode \notin {"relative", "weekly", "all"} => query.first \in Int /\ query.last \in Int

VARIABLES
  ended,    \* ended[r]: day, lane ("passed" or where it failed), good; lane "none" before
  counting, \* counting[d]: what the rollup of d has read first, {} or one record
  metrics   \* metrics[d]: stored metrics, a function from some of the keys

nvars == <<ended, counting, metrics>>

FailureLanes == {"provision", "e2e", "other"}
RawKeys == {"runs", "failed", "provision", "e2e", "other"}
GoodKeys == {"good", "goodProvision", "goodE2E", "goodOther"}

RunsWith(d, lanes) == {r \in TrendRuns : ended[r].day = d /\ ended[r].lane \in lanes}
GoodWith(d, lanes) == {r \in RunsWith(d, lanes) : ended[r].good}

(* The counts of a rollup: runs and post-good runs as they were read first,    *)
(* failures and their lanes as they are now.                                   *)
CountsOf(d, first) ==
  LET N(lane) == Cardinality(RunsWith(d, {lane}))
      G(lane) == Cardinality(GoodWith(d, {lane})) IN
  [runs |-> first.runs, failed |-> N("provision") + N("e2e") + N("other"),
   provision |-> N("provision"), e2e |-> N("e2e"), other |-> N("other"),
   good |-> first.good, goodProvision |-> G("provision"), goodE2E |-> G("e2e"), goodOther |-> G("other")]

TrendsInit ==
  /\ ended = [r \in TrendRuns |-> [day |-> 0, lane |-> "none", good |-> FALSE]]
  /\ counting = [d \in TrendDays |-> {}]
  /\ metrics = [d \in TrendDays |-> <<>>]

RunEnds(r) ==
  /\ ended[r].lane = "none"
  /\ \E d \in TrendDays, lane \in FailureLanes \cup {"passed"}, good \in BOOLEAN :
       ended' = [ended EXCEPT ![r] = [day |-> d, lane |-> lane, good |-> good]]
  /\ UNCHANGED <<counting, metrics>>

BecomesGood(r) ==
  /\ ended[r].lane # "none" /\ ~ended[r].good
  /\ ended' = [ended EXCEPT ![r].good = TRUE]
  /\ UNCHANGED <<counting, metrics>>

RollupReadsRuns(d) ==
  LET all == FailureLanes \cup {"passed"} IN
  /\ counting[d] = {} /\ RunsWith(d, all) # {}
  /\ counting' = [counting EXCEPT ![d] = {[runs |-> Cardinality(RunsWith(d, all)),
                                           good |-> Cardinality(GoodWith(d, all))]}]
  /\ UNCHANGED <<ended, metrics>>

(* The rows of the day are replaced; an earlier release, or its imported       *)
(* metrics, leaves keys out.                                                   *)
RollupStores(d, keys) ==
  /\ \E first \in counting[d] : metrics' = [metrics EXCEPT ![d] = Restrict(CountsOf(d, first), keys)]
  /\ counting' = [counting EXCEPT ![d] = {}]
  /\ UNCHANGED ended

ReleaseKeys == {RawKeys \cup GoodKeys, {"runs", "failed"}, (RawKeys \cup GoodKeys) \ {"other", "goodOther"}}

TrendsNext ==
  \/ \E r \in TrendRuns : RunEnds(r) \/ BecomesGood(r)
  \/ \E d \in TrendDays : RollupReadsRuns(d)
  \/ \E d \in TrendDays, keys \in ReleaseKeys : RollupStores(d, keys)

TrendsSpec == TrendsInit /\ [][TrendsNext]_nvars

-----------------------------------------------------------------------------
(* BuildTrends.                                                                *)

(* counts: a missing key counts as zero and spoils the day.                    *)
Count(m, key) == IF key \in DOMAIN m THEN m[key] ELSE 0
(* Fault: a missing key is a zero like any other.                              *)
ValidAnyway(m, keys) == keys \cap DOMAIN m # {}
Valid(m, keys) == keys \subseteq DOMAIN m

RawComplete(m) == Valid(m, {"runs", "failed"}) /\ Count(m, "failed") <= Count(m, "runs")
LanesComplete(m) ==
  /\ Valid(m, FailureLanes)
  /\ Count(m, "provision") + Count(m, "e2e") + Count(m, "other") = Count(m, "failed")
GoodFailed(m) == Count(m, "goodProvision") + Count(m, "goodE2E") + Count(m, "goodOther")
FilteredComplete(m) ==
  /\ Valid(m, GoodKeys) /\ Valid(m, {"runs", "failed"})
  /\ GoodFailed(m) <= Count(m, "good") /\ Count(m, "good") <= Count(m, "runs")
  /\ GoodFailed(m) <= Count(m, "failed")

Outcomes(runs, failed, provision, e2e, other, defined, lanesDefined) ==
  [runs |-> runs, failed |-> failed, provision |-> provision, e2e |-> e2e, other |-> other,
   defined |-> defined /\ runs > 0, lanesDefined |-> lanesDefined]

(* One bucket of a chart: days outside the window, after today or without      *)
(* metrics do not count, and one incomplete day leaves its rate undefined.     *)
Bucket(start, step, first, last) ==
  LET days == {d \in TrendDays : /\ start <= d /\ d < start + step
                                 /\ first <= d /\ d <= last /\ d <= Today
                                 /\ metrics[d] # <<>>}
      Key(key) == SumFunctionOnSet([d \in days |-> Count(metrics[d], key)], days)
      All(P(_)) == days # {} /\ \A d \in days : P(metrics[d])
  IN
  [start |-> start, days |-> days,
   partial |-> start < first \/ start + step > last + 1 \/ start + step > Today,
   raw |-> Outcomes(Key("runs"), Key("failed"), Key("provision"), Key("e2e"), Key("other"),
                    All(RawComplete), All(LanesComplete)),
   filtered |-> Outcomes(Key("good"), SumFunctionOnSet([d \in days |-> GoodFailed(metrics[d])], days),
                         Key("goodProvision"), Key("goodE2E"), Key("goodOther"),
                         All(FilteredComplete), All(FilteredComplete))]

(* resolveTrendsWindow: the last days, the week of today, or everything that   *)
(* there is; otherwise the dates that were given.                              *)
TrendsWindow(query) ==
  LET known == {d \in TrendDays : metrics[d] # <<>>} IN
  CASE query.mode = "relative" -> [first |-> Today + 1 - query.days, last |-> Today]
    [] query.mode = "weekly" -> [first |-> WeekStart(Today), last |-> WeekStart(Today) + Week - 1]
    [] query.mode = "all" -> [first |-> Min(known), last |-> Max(known)]
    [] OTHER -> [first |-> query.first, last |-> query.last]

(* Nothing is shown when no day of the window has metrics.                     *)
BuildTrends(query, step) ==
  IF \A d \in TrendDays : metrics[d] = <<>> THEN {}
  ELSE LET w == TrendsWindow(query)
           axis == IF step = Week THEN WeekStart(w.first) ELSE w.first
           starts == {axis + step * k : k \in 0..((w.last - axis) \div step)}
           buckets == {Bucket(start, step, w.first, w.last) : start \in starts}
       IN IF \A b \in buckets : b.days = {} THEN {} ELSE buckets

(* appendRatePoint                                                             *)
Point(count, total, valid) ==
  [count |-> count, total |-> total, defined |-> valid /\ total > 0 /\ 0 <= count /\ count <= total]
OverallRate(o) == Point(o.runs - o.failed, o.runs, o.defined)
ProvisionRate(o) ==
  LET reached == o.runs - o.failed + o.e2e IN
  Point(reached, reached + o.provision, o.defined /\ o.lanesDefined)
E2ERate(o) == Point(o.runs - o.failed, o.runs - o.failed + o.e2e, o.defined /\ o.lanesDefined)
OtherShare(o) == Point(o.other, o.runs, o.defined /\ o.lanesDefined)

-----------------------------------------------------------------------------
TrendsTypeOK ==
  /\ ended \in [TrendRuns -> [day : TrendDays \cup {0}, lane : FailureLanes \cup {"passed", "none"},
                              good : BOOLEAN]]
  /\ \A d \in TrendDays : /\ \A first \in counting[d] : first.good <= first.runs
                          /\ DOMAIN metrics[d] \subseteq RawKeys \cup GoodKeys
                          /\ \A key \in DOMAIN metrics[d] : metrics[d][key] \in Nat

AllRuns(buckets) == SumFunctionOnSet([b \in buckets |-> b.raw.runs], buckets)
AllGoodFailed(buckets) == SumFunctionOnSet([b \in buckets |-> b.filtered.failed], buckets)

(* "Missing or inconsistent facts must not become apparent successes": a rate  *)
(* that is shown never counts more successes than runs really had on the days  *)
(* it stands for, whatever was missing, older or read while it changed; the    *)
(* filtered population is part of the raw one when a share is shown; and a     *)
(* window tells the same totals by day and by week (BuildTrends, counts).      *)
TrendsHonest ==
  \A query \in TrendQueries :
    LET daily == BuildTrends(query, 1)
        weekly == BuildTrends(query, Week)
        Honest(rate, runs) == rate.defined => rate.count <= Cardinality(runs)
    IN
    /\ \A b \in daily \cup weekly :
         LET passed == {r \in TrendRuns : ended[r].day \in b.days /\ ended[r].lane = "passed"}
             reached == {r \in TrendRuns : ended[r].day \in b.days /\ ended[r].lane \in {"passed", "e2e"}}
             good == {r \in TrendRuns : ended[r].good}
         IN
         /\ Honest(OverallRate(b.raw), passed) /\ Honest(OverallRate(b.filtered), passed \cap good)
         /\ Honest(ProvisionRate(b.raw), reached) /\ Honest(ProvisionRate(b.filtered), reached \cap good)
         /\ Honest(E2ERate(b.raw), passed) /\ Honest(E2ERate(b.filtered), passed \cap good)
         /\ b.raw.defined /\ b.filtered.defined => b.filtered.runs <= b.raw.runs
         /\ b.raw.defined /\ b.raw.lanesDefined => OtherShare(b.raw).defined
    /\ AllRuns(daily) = AllRuns(weekly) /\ AllGoodFailed(daily) = AllGoodFailed(weekly)
=============================================================================
