----------------------------- MODULE TestsDaily -----------------------------
(* source.sippy.tests-daily: once an hour each environment's key of the day is *)
(* queued; its sync asks Sippy, filter after filter, for the test statistics   *)
(* of the periods that have no row on the key's date yet, and stores them in   *)
(* one transaction.  A key keeps its date: one that is retried or queued       *)
(* across midnight is worked on the next day.  One environment is modelled; a  *)
(* key is with one worker at a time (WorkQueue's OneWorkerPerKey).             *)
EXTENDS Naturals, Sequences

CONSTANTS
  Workers,  \* workers of the controller
  Periods,  \* requiredSippyTestsDailyPeriods, a sequence: p is a position in it
  Filters,  \* the environment's test filters, a sequence
  LastDay,  \* bound on the days
  MaxStat   \* bound on the different answers of Sippy to a filter

ASSUME TestsDailyAssumption ==
  /\ Periods \in Seq(STRING) /\ Filters \in Seq(STRING) /\ Filters # <<>>
  /\ LastDay \in Nat \ {0} /\ MaxStat \in Nat

VARIABLES
  day,      \* today
  sippy,    \* sippy[p][f]: Sippy's answer for period p and the f-th filter, 0 for no test
  rows,     \* rows[d][p]: the answers of which date d and period p have the rows
  job       \* job[w]: the key and the progress of worker w

tvars == <<day, sippy, rows, job>>

NoTests == [f \in DOMAIN Filters |-> 0]
HasTests(answers) == \E f \in DOMAIN answers : answers[f] > 0
Job(date, missing, filter, out) == [date |-> date, missing |-> missing, filter |-> filter, out |-> out]
NoAnswers == [p \in DOMAIN Periods |-> NoTests]
NoJob == Job(0, {}, 1, NoAnswers)

TestsInit ==
  /\ day = 1
  /\ sippy = NoAnswers
  /\ rows = [d \in 1..LastDay |-> NoAnswers]
  /\ job = [w \in Workers |-> NoJob]

Midnight ==
  /\ day < LastDay
  /\ day' = day + 1
  /\ UNCHANGED <<sippy, rows, job>>

(* Sippy's statistics of a filter change; tests may vanish.                    *)
Measure(p, f) ==
  /\ \E stat \in 0..MaxStat : sippy' = [sippy EXCEPT ![p][f] = stat]
  /\ UNCHANGED <<day, rows, job>>

-----------------------------------------------------------------------------
(* Fault: a period without rows makes all periods of the date missing.         *)
MissingUnlessAll(d) ==
  IF \A p \in DOMAIN Periods : HasTests(rows[d][p]) THEN {} ELSE DOMAIN Periods
(* The periods of a date with no row.                                          *)
Missing(d) == {p \in DOMAIN Periods : ~HasTests(rows[d][p])}

(* listKeys, parseSippyTestsDailyKey, processKey up to the first request.      *)
Begin(w, d) ==
  /\ job[w].date = 0
  /\ d \in 1..day /\ \A v \in Workers : job[v].date # d
  /\ Missing(d) # {}
  /\ job' = [job EXCEPT ![w] = Job(d, Missing(d), 1, NoAnswers)]
  /\ UNCHANGED <<day, sippy, rows>>

FirstOf(missing, p) == p \in missing /\ \A q \in missing : p <= q
Answered(out, p, f) ==
  [q \in DOMAIN Periods |-> IF q = p THEN [out[p] EXCEPT ![f] = sippy[p][f]] ELSE out[q]]

(* Fault: the next period does not start over with the first filter.           *)
FetchNoReset(w) ==
  LET j == job[w]
      last == j.filter = Len(Filters)
  IN
  /\ j.filter \in DOMAIN Filters
  /\ \E p \in DOMAIN Periods :
       /\ FirstOf(j.missing, p)
       /\ job' = [job EXCEPT ![w] =
            Job(j.date, j.missing \ (IF last THEN {p} ELSE {}), j.filter + 1, Answered(j.out, p, j.filter))]
  /\ UNCHANGED <<day, sippy, rows>>

(* listFilteredTests: the answers to the filters of a period, merged.          *)
Fetch(w) ==
  LET j == job[w]
      last == j.filter = Len(Filters)
  IN
  /\ \E p \in DOMAIN Periods :
       /\ FirstOf(j.missing, p)
       /\ job' = [job EXCEPT ![w] =
            Job(j.date, j.missing \ (IF last THEN {p} ELSE {}), IF last THEN 1 ELSE j.filter + 1,
                Answered(j.out, p, j.filter))]
  /\ UNCHANGED <<day, sippy, rows>>

(* upsertTestMetadataDailyImpl: in one transaction the periods that have new   *)
(* rows lose theirs and get the new ones; a period without tests is left.      *)
Upsert(w) ==
  LET j == job[w] IN
  /\ j.date # 0 /\ j.missing = {}
  /\ rows' = [rows EXCEPT ![j.date] =
       [p \in DOMAIN Periods |-> IF HasTests(j.out[p]) THEN j.out[p] ELSE @[p]]]
  /\ job' = [job EXCEPT ![w] = NoJob]
  /\ UNCHANGED <<day, sippy>>

(* A request or the transaction fails, or the process stops: nothing is stored *)
(* and the key is retried, or listed again while its day lasts.                *)
Fail(w) ==
  /\ job[w].date # 0
  /\ job' = [job EXCEPT ![w] = NoJob]
  /\ UNCHANGED <<day, sippy, rows>>

TestsWorld == Midnight \/ \E p \in DOMAIN Periods, f \in DOMAIN Filters : Measure(p, f)
TestsStep == \E w \in Workers : Fetch(w) \/ Upsert(w) \/ Fail(w) \/ \E d \in 1..LastDay : Begin(w, d)
TestsNext == TestsWorld \/ TestsStep

TestsSpec == TestsInit /\ [][TestsNext]_tvars

-----------------------------------------------------------------------------
TestsTypeOK ==
  LET Answers == [DOMAIN Filters -> 0..MaxStat]
      ByPeriod == [DOMAIN Periods -> Answers]
  IN
  /\ day \in 1..LastDay
  /\ sippy \in ByPeriod
  /\ rows \in [1..LastDay -> ByPeriod]
  /\ job \in [Workers -> [date: 0..LastDay, missing: SUBSET DOMAIN Periods,
                          filter: DOMAIN Filters, out: ByPeriod]]

(* A datapoint is taken once: whichever requests fail and however Sippy's      *)
(* answers change, the rows of a date and period stay what the one sync that   *)
(* completed them was told, while the other period of the date may come later. *)
DatapointFrozen ==
  [][\A d \in 1..LastDay, p \in DOMAIN Periods :
       HasTests(rows[d][p]) => rows'[d][p] = rows[d][p]]_tvars
=============================================================================
