---------------------------- MODULE WeeklyReport ----------------------------
(* readmodel/reports and report: the Overview page, which tells success rates  *)
(* and stage rates of every environment from the same daily metrics as the     *)
(* trends, but repairs days whose metrics are missing instead of leaving gaps. *)
(* Rates are kept as a numerator and a denominator.                            *)
EXTENDS Trends

CONSTANTS
  TargetRate, NearTarget  \* percentages of the goal, and of being near to it

(* The runs of a day are not counted before it has come.                       *)
ASSUME NothingToCome == \A d \in TrendDays : d <= Today

-----------------------------------------------------------------------------
(* A metric that is not stored counts as zero.                                 *)
CollectCounts(d) ==
  [key \in RawKeys \cup GoodKeys |-> IF d \in TrendDays THEN Count(metrics[d], key) ELSE 0]

RunOutcomes(total, passed, other, provision, e2e) ==
  [total |-> total, passed |-> passed, other |-> other, provision |-> provision, e2e |-> e2e]
NoOutcomes == RunOutcomes(0, 0, 0, 0, 0)

(* Failed runs without a lane are added to the other ones.                     *)
DailyRunOutcomes(c) ==
  LET unclassified == c.failed - (c.other + c.provision + c.e2e)
      other == c.other + Max({unclassified, 0})
  IN RunOutcomes(c.runs, Max({c.runs - (other + c.provision + c.e2e), 0}), other, c.provision, c.e2e)
(* There are at least as many post-good runs as failed ones.                   *)
PostGoodRunOutcomes(c) ==
  LET failed == c.goodOther + c.goodProvision + c.goodE2E
      total == Max({c.good, failed})
  IN RunOutcomes(total, total - failed, c.goodOther, c.goodProvision, c.goodE2E)

EnvReport(env, first, last) ==
  LET counts == [d \in first..last |-> CollectCounts(d)] IN
  [env |-> env,
   totals |-> [key \in RawKeys |-> SumFunctionOnSet([d \in first..last |-> counts[d][key]], first..last)],
   raw |-> [d \in first..last |-> DailyRunOutcomes(counts[d])],
   good |-> [d \in first..last |-> IF env = "dev" THEN PostGoodRunOutcomes(counts[d]) ELSE NoOutcomes]]

(* Of the days of a report: steps that were attempted, and that succeeded.     *)
Summed(outcomes, part) == SumFunctionOnSet([d \in DOMAIN outcomes |-> outcomes[d][part]], DOMAIN outcomes)
Rate(succeeded, total) == [count |-> succeeded, total |-> total]
(* Fault: failures elsewhere count as attempts to provision.                   *)
ProvisionOfAll(outcomes) ==
  LET reached == Summed(outcomes, "passed") + Summed(outcomes, "e2e") IN
  Rate(reached, reached + Summed(outcomes, "provision") + Summed(outcomes, "other"))
Provision(outcomes) ==
  LET reached == Summed(outcomes, "passed") + Summed(outcomes, "e2e") IN
  Rate(reached, reached + Summed(outcomes, "provision"))
E2EStep(outcomes) ==
  LET passed == Summed(outcomes, "passed") IN
  Rate(passed, passed + Summed(outcomes, "e2e"))

SuccessPct(total, failed) == Rate(Max({total - failed, 0}), total)

(* The goal of dev is about its post-good runs and batches only.               *)
GoalOutcomes(report) == IF report.env = "dev" THEN report.good ELSE report.raw
GoalRate(report) ==
  IF report.env = "dev"
  THEN SuccessPct(Summed(report.good, "total"),
                  Summed(report.good, "other") + Summed(report.good, "provision") + Summed(report.good, "e2e"))
  ELSE SuccessPct(report.totals.runs, report.totals.failed)

(* A cell is empty without runs; provisioning has one for dev only.            *)
Cell(rate) == IF rate.total > 0 THEN {rate} ELSE {}
GoalCell(report) == Cell(GoalRate(report))
ProvisionCell(report) == IF report.env = "dev" THEN Cell(Provision(report.good)) ELSE {}
E2ECell(report) == Cell(E2EStep(GoalOutcomes(report)))

Sign(a, b) == IF a > b THEN "up" ELSE IF a < b THEN "down" ELSE "same"
Change(cell, previous) ==
  {Sign(r.count * p.total, p.count * r.total) : r \in cell, p \in previous}

TargetStatus(rate) ==
  IF 100 * rate.count >= TargetRate * rate.total THEN "on track"
  ELSE IF 100 * rate.count >= NearTarget * rate.total THEN "near target" ELSE "off track"

(* A row of the executive table, and the cards of all runs below it.           *)
ExecutiveRow(report, previous) ==
  [goal |-> GoalCell(report), change |-> Change(GoalCell(report), GoalCell(previous)),
   status |-> {TargetStatus(r) : r \in GoalCell(report)},
   provision |-> ProvisionCell(report),
   provisionChange |-> Change(ProvisionCell(report), ProvisionCell(previous)),
   e2e |-> E2ECell(report), e2eChange |-> Change(E2ECell(report), E2ECell(previous))]
Cards(report) ==
  [runs |-> report.totals.runs, success |-> SuccessPct(report.totals.runs, report.totals.failed),
   provision |-> IF report.env = "dev" THEN {Provision(report.raw)} ELSE {},
   e2e |-> E2EStep(report.raw)]

(* The window before the one of the report, of the same length.                *)
PreviousReport(env, w) == EnvReport(env, w.first - (w.last - w.first + 1), w.first - 1)

(* The day whose tests below the target are listed, of those with measurements *)
(* in the store: the first one after the window, otherwise the last one before *)
(* the end of the window.                                                      *)
TestsDay(end, dates) ==
  LET after == {d \in dates : d > end}
      before == {d \in dates : d < end}
  IN IF after # {} THEN {Min(after)} ELSE IF before # {} THEN {Max(before)} ELSE {}

-----------------------------------------------------------------------------
(* "Matching Overview's stage denominators" (docs/design.md), of the trends:   *)
(* whenever the trends have a rate for a whole window, the overview of that    *)
(* window counts the same runs for it, for all runs and for the filtered ones, *)
(* and tells the same change; and "Keep the chart partition complete"          *)
(* (report.go): the parts of a day's bar are its runs, and no failure without  *)
(* a lane passed, unless there are more failures than runs.  The listed tests  *)
(* of a past window stay those of one day, however many are measured later.    *)
OverviewMatchesTrends ==
  \A query \in {q \in TrendQueries : BuildTrends(q, 1) # {}} :
    LET w == TrendsWindow(query)
        days == w.last - w.first + 1
        whole == Bucket(w.first, days, w.first, w.last)
        before == Bucket(w.first - days, days, w.first - days, w.first - 1)
        dev == EnvReport("dev", w.first, w.last)
        row == ExecutiveRow(dev, PreviousReport("dev", w))
        allRuns == EnvReport("int", w.first, w.last)
        allRow == ExecutiveRow(allRuns, PreviousReport("int", w))
        Shows(cell, point) == point.defined => cell = {Rate(point.count, point.total)}
        Compares(change, now, then) ==
          now.defined /\ then.defined => change = {Sign(now.count * then.total, then.count * now.total)}
        Parts(o) == o.passed + o.other + o.provision + o.e2e
    IN
    /\ Shows(row.goal, OverallRate(whole.filtered)) /\ Shows(row.provision, ProvisionRate(whole.filtered))
    /\ Shows(row.e2e, E2ERate(whole.filtered)) /\ Shows(allRow.goal, OverallRate(whole.raw))
    /\ Shows({Cards(dev).success}, OverallRate(whole.raw)) /\ Shows({Cards(dev).e2e}, E2ERate(whole.raw))
    /\ Shows(Cards(dev).provision, ProvisionRate(whole.raw)) /\ Shows(allRow.e2e, E2ERate(whole.raw))
    /\ Compares(row.change, OverallRate(whole.filtered), OverallRate(before.filtered))
    /\ Compares(allRow.change, OverallRate(whole.raw), OverallRate(before.raw))
    /\ Compares(row.provisionChange, ProvisionRate(whole.filtered), ProvisionRate(before.filtered))
    /\ Compares(row.e2eChange, E2ERate(whole.filtered), E2ERate(before.filtered))
    /\ \A d \in w.first..w.last :
         /\ Parts(dev.good[d]) = dev.good[d].total
         /\ LET c == CollectCounts(d) IN
            c.failed <= c.runs /\ c.other + c.provision + c.e2e <= c.failed
              => Parts(dev.raw[d]) = dev.raw[d].total /\ dev.raw[d].passed = c.runs - c.failed
    /\ \A dates \in SUBSET TrendDays, d \in TrendDays :
         w.last < d /\ (\E e \in dates : w.last < e /\ e < d)
           => TestsDay(w.last, dates) = TestsDay(w.last, dates \cup {d})
=============================================================================
