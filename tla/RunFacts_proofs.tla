--------------------------- MODULE RunFacts_proofs ---------------------------
(* Proofs of the safety properties of RunFacts, for all values of the         *)
(* constants that satisfy RunsAssumption and BoundsAssumption.                *)
EXTENDS RunFacts, TLAPS

USE DEF AllTimingOutcomes, AllRegionOutcomes, Never, Terminal, MetadataStates

-----------------------------------------------------------------------------
(* Types of the pure parts of the handlers.                                   *)

LEMMA BlankTypes ==
  /\ BlankRow \in RunRecord
  /\ BlankReport \in Report
  /\ NoSignals \in Signals
  /\ MergedCode \in Signals
  /\ BlankTiming \in Timing
  /\ BlankRegion \in Region
BY DEF BlankRow, RunRecord, BlankReport, Report, NoSignals, MergedCode, Signals,
       BlankTiming, Timing, BlankRegion, Region

LEMMA FillSignalsType ==
  ASSUME NEW s \in Signals, NEW t \in Signals
  PROVE  FillSignals(s, t) \in Signals
BY DEF FillSignals, Signals

LEMMA MergedType ==
  ASSUME NEW s \in Sources, NEW r \in Runs, NEW old \in RunRecord,
         NEW found \in BOOLEAN, NEW rep \in Report
  PROVE  Merged(s, r, old, found, rep) \in RunRecord
<1>1. /\ old.signals \in Signals /\ rep.failed \in BOOLEAN
      /\ rep.pull \in Pulls \cup {NoPull} /\ rep.sha \in SHAs \cup {NoSHA}
      /\ old.pull \in Pulls \cup {NoPull} /\ old.sha \in SHAs \cup {NoSHA}
  BY DEF RunRecord, Report
<1>2. SippyMerged(r, old, found, rep) \in RunRecord
  <2> DEFINE mapped == IF ~SupportsPRLookup(r) THEN MergedCode
                       ELSE IF found /\ old.pull = rep.pull THEN old.signals
                       ELSE NoSignals
  <2>1. mapped \in Signals
    BY <1>1, BlankTypes
  <2>2. FillSignals(mapped, old.signals) \in Signals
    BY <1>1, <2>1, FillSignalsType
  <2> QED
    BY <1>1, <2>1, <2>2, BlankTypes DEF SippyMerged, RunRecord
<1>3. ProwMerged(r, old, found, rep) \in RunRecord
  <2> DEFINE mapped == IF SupportsPRLookup(r) THEN NoSignals ELSE MergedCode
  <2>1. mapped \in Signals
    BY BlankTypes
  <2>2. FillSignals(old.signals, mapped) \in Signals
    BY <1>1, <2>1, FillSignalsType
  <2> QED
    BY <1>1, <2>1, <2>2, BlankTypes DEF ProwMerged, RunRecord
<1> QED
  BY <1>2, <1>3 DEF Merged

LEMMA UpsertedType ==
  ASSUME NEW old \in RunRecord, NEW new \in RunRecord
  PROVE  Upserted(old, new) \in RunRecord
BY DEF Upserted, RunRecord

LEMMA TimingAfterType ==
  ASSUME now \in Nat, NEW t \in Timing, NEW outcome \in AllTimingOutcomes
  PROVE  TimingAfter(t, outcome) \in Timing
<1>1. FirstChecked(t.first) \in Nat
  BY DEF FirstChecked, Timing
<1>2. \A state \in MetadataStates : PendingOr(state, FirstChecked(t.first)) \in MetadataStates
  BY DEF PendingOr
<1> QED
  BY <1>1, <1>2 DEF TimingAfter, Timing

LEMMA RegionAfterType ==
  ASSUME now \in Nat, NEW g \in Region, NEW outcome \in AllRegionOutcomes
  PROVE  RegionAfter(g, outcome) \in Region
<1>1. FirstChecked(g.first) \in Nat
  BY DEF FirstChecked, Region
<1>2. \A state \in MetadataStates : PendingOr(state, FirstChecked(g.first)) \in MetadataStates
  BY DEF PendingOr
<1> QED
  BY <1>1, <1>2 DEF RegionAfter, Region

LEMMA ReconciledType ==
  ASSUME pulls \in [Pulls -> PullRecord], NEW r \in Runs, NEW rec \in RunRecord
  PROVE  ReconciledSignals(r, rec) \in Signals
<1>1. CASE SupportsPRLookup(r) /\ rec.pull # NoPull
  <2>1. /\ rec.pull \in Pulls
        /\ pulls[rec.pull] \in PullRecord
    BY <1>1 DEF RunRecord
  <2> QED
    BY <1>1, <2>1, BlankTypes DEF ReconciledSignals, PullRecord, Signals, NoSignals
<1>2. CASE ~(SupportsPRLookup(r) /\ rec.pull # NoPull)
  BY <1>2, BlankTypes DEF ReconciledSignals
<1> QED
  BY <1>1, <1>2

-----------------------------------------------------------------------------
(* The types of the record-valued variables, entry by entry.                 *)

SyncType == [pc: {"idle", "reading"}, todo: SUBSET Runs, done: SUBSET Runs,
             seen: [Runs -> Report], batch: [Runs -> RunRecord]]
FactsType == [pc: {"idle", "queued", "got", "write"}, row: RunRecord]
MetaType == [pc: {"idle", "queued", "timing", "region"}, row: RunRecord,
             region: BOOLEAN, err: BOOLEAN]

LEMMA IdleTypes ==
  /\ SyncIdle \in SyncType
  /\ FactsIdle \in FactsType
  /\ MetaIdle \in MetaType
BY BlankTypes DEF SyncIdle, SyncType, FactsIdle, FactsType, MetaIdle, MetaType

LEMMA InitTypeOK == Init => TypeOK
<1> SUFFICES ASSUME Init PROVE TypeOK
  OBVIOUS
<1>1. pulls \in [Pulls -> PullRecord]
  BY DEF Init, PullRecord
<1>2. sync \in [Sources -> [Envs -> SyncType]]
  BY IdleTypes DEF Init
<1>3. facts \in [Runs -> FactsType] /\ meta \in [Runs -> MetaType]
  BY IdleTypes DEF Init
<1> QED
  BY <1>1, <1>2, <1>3, BlankTypes DEF Init, TypeOK, SyncType, FactsType, MetaType

LEMMA EnvironmentTypeOK ==
  ASSUME TypeOK, Environment
  PROVE  TypeOK'
<1> USE DEF TypeOK
<1>1. ASSUME NEW s \in Sources, NEW r \in Runs, NEW rep \in ReportsOf(s, r), Publish(s, r, rep)
      PROVE  TypeOK'
  <2>1. rep \in Report
    BY DEF ReportsOf
  <2>2. report' \in [Sources -> [Runs -> Report]]
    BY <1>1, <2>1 DEF Publish
  <2>3. published' \in [Sources -> SUBSET Runs]
    BY <1>1 DEF Publish
  <2> QED
    BY <1>1, <2>2, <2>3 DEF Publish
<1>2. ASSUME NEW r \in Runs, NEW rep \in ReportsOf("sippy", r), Correct(r, rep)
      PROVE  TypeOK'
  <2>1. rep \in Report
    BY DEF ReportsOf
  <2>2. report' \in [Sources -> [Runs -> Report]] /\ corrections' \in Nat
    BY <1>2, <2>1 DEF Correct
  <2> QED
    BY <1>2, <2>2 DEF Correct
<1>3. ASSUME NEW p \in Pulls, NEW state \in {"open", "closed"}, NEW merged \in BOOLEAN,
             NEW head \in SHAs, PullChanges(p, state, merged, head)
      PROVE  TypeOK'
  <2>1. pulls[p].rev \in Nat
    BY DEF PullRecord
  <2>2. [found |-> TRUE, state |-> state, merged |-> merged, head |-> head,
         rev |-> pulls[p].rev + 1] \in PullRecord
    <3>1. pulls[p].rev + 1 \in Nat
      BY <2>1
    <3>2. state \in {"", "open", "closed"} /\ head \in SHAs \cup {NoSHA} /\ merged \in BOOLEAN
      OBVIOUS
    <3> QED
      BY <3>1, <3>2, Zenon DEF PullRecord
  <2>3. pulls' \in [Pulls -> PullRecord]
    BY <1>3, <2>2 DEF PullChanges
  <2> QED
    BY <1>3, <2>3 DEF PullChanges
<1>4. ASSUME NEW r \in Runs, AgeRun(r)
      PROVE  TypeOK'
  BY <1>4 DEF AgeRun
<1>5. CASE Tick
  BY <1>5 DEF Tick
<1>6. CASE Restart
  <2>1. /\ sync' \in [Sources -> [Envs -> SyncType]]
        /\ facts' \in [Runs -> FactsType]
        /\ meta' \in [Runs -> MetaType]
    BY <1>6, IdleTypes DEF Restart
  <2> QED
    BY <1>6, <2>1 DEF Restart, world, SyncType, FactsType, MetaType
<1> QED
  BY <1>1, <1>2, <1>3, <1>4, <1>5, <1>6 DEF Environment

LEMMA SyncTypeOK ==
  ASSUME TypeOK, NEW s \in Sources, NEW e \in Envs, SyncStep(s, e)
  PROVE  TypeOK'
<1> USE DEF TypeOK
<1>0. sync \in [Sources -> [Envs -> SyncType]] /\ sync[s][e] \in SyncType
  BY DEF SyncType
<1>1. ASSUME sync' \in [Sources -> [Envs -> SyncType]], UNCHANGED <<world, stored, row, facts, meta>>
      PROVE  TypeOK'
  BY <1>1 DEF world, SyncType
<1>2. CASE SyncList(s, e)
  <2> DEFINE listed == {r \in published[s] : EnvOf[r] = e /\ age[r] = "replay"}
             seen == [r \in Runs |-> IF r \in listed THEN report[s][r] ELSE BlankReport]
  <2>1. listed \in SUBSET Runs /\ seen \in [Runs -> Report]
    BY BlankTypes
  <2>2. [SyncIdle EXCEPT !.pc = "reading", !.todo = listed, !.seen = seen] \in SyncType
    BY <2>1, IdleTypes DEF SyncType
  <2> QED
    BY <1>0, <1>1, <1>2, <2>2 DEF SyncList
<1>3. ASSUME NEW r \in Runs, SyncGet(s, e, r)
      PROVE  TypeOK'
  <2> DEFINE old == IF Found(s, r) THEN row[r] ELSE BlankRow
             new == Merged(s, r, old, Found(s, r), sync[s][e].seen[r])
  <2>1. old \in RunRecord /\ sync[s][e].seen[r] \in Report /\ Found(s, r) \in BOOLEAN
    BY <1>0, BlankTypes DEF SyncType, Found
  <2>2. new \in RunRecord
    BY <2>1, MergedType
  <2> HIDE DEF new
  <2> DEFINE batch == [sync[s][e].batch EXCEPT ![r] = new]
             next == [sync[s][e] EXCEPT !.todo = sync[s][e].todo \ {r},
                                        !.done = sync[s][e].done \cup {r}, !.batch = batch]
  <2>3. batch \in [Runs -> RunRecord]
    BY <1>0, <2>2 DEF SyncType
  <2>4. next \in SyncType
    BY <1>0, <2>3 DEF SyncType
  <2>5. sync' = [sync EXCEPT ![s][e] = next]
    BY <1>3 DEF SyncGet, new
  <2>6. sync' \in [Sources -> [Envs -> SyncType]]
    BY <1>0, <2>4, <2>5
  <2> QED
    BY <1>1, <1>3, <2>6 DEF SyncGet
<1>4. CASE SyncUpsert(s, e)
  <2>1. \A r \in Runs : UpsertRow(r, sync[s][e].batch[r]) \in RunRecord
    BY <1>0, UpsertedType DEF UpsertRow, SyncType
  <2>2. row' \in [Runs -> RunRecord] /\ stored' \subseteq Runs
    BY <1>0, <1>4, <2>1 DEF SyncUpsert, SyncType
  <2>3. sync' \in [Sources -> [Envs -> SyncType]]
    BY <1>0, <1>4, IdleTypes DEF SyncUpsert
  <2> QED
    BY <1>4, <2>2, <2>3 DEF SyncUpsert, world, SyncType
<1>5. CASE SyncFail(s, e)
  BY <1>0, <1>1, <1>5, IdleTypes DEF SyncFail
<1> QED
  BY <1>2, <1>3, <1>4, <1>5 DEF SyncStep

LEMMA FactsTypeOK ==
  ASSUME TypeOK, NEW r \in Runs, FactsStep(r)
  PROVE  TypeOK'
<1> USE DEF TypeOK
<1>0. facts \in [Runs -> FactsType] /\ facts[r] \in FactsType /\ row[r] \in RunRecord
  BY DEF FactsType
<1>1. ASSUME facts' \in [Runs -> FactsType], UNCHANGED <<world, stored, row, sync, meta>>
      PROVE  TypeOK'
  BY <1>1 DEF world, FactsType
<1>2. CASE FactsEnqueue(r)
  <2>1. [facts[r] EXCEPT !.pc = "queued"] \in FactsType
    BY <1>0 DEF FactsType
  <2> QED
    BY <1>0, <1>1, <1>2, <2>1 DEF FactsEnqueue
<1>3. CASE FactsGet(r)
  <2>1. [pc |-> "got", row |-> row[r]] \in FactsType
    BY <1>0 DEF FactsType
  <2> QED
    BY <1>0, <1>1, <1>3, <2>1, IdleTypes DEF FactsGet
<1>4. CASE FactsReconcile(r)
  <2> DEFINE signals == ReconciledSignals(r, facts[r].row)
  <2>1. facts[r].row \in RunRecord
    BY <1>0 DEF FactsType
  <2>2. signals \in Signals
    BY <2>1, ReconciledType
  <2>3. [facts[r].row EXCEPT !.signals = signals] \in RunRecord
    BY <2>1, <2>2 DEF RunRecord
  <2>4. [pc |-> "write", row |-> [facts[r].row EXCEPT !.signals = signals]] \in FactsType
    BY <2>3 DEF FactsType
  <2> HIDE DEF signals
  <2>5. facts' = [facts EXCEPT ![r] =
                    IF SignalsEqual(signals, facts[r].row.signals) THEN FactsIdle
                    ELSE [pc |-> "write", row |-> [facts[r].row EXCEPT !.signals = signals]]]
    BY <1>4 DEF FactsReconcile, signals
  <2>6. facts' \in [Runs -> FactsType]
    BY <1>0, <2>4, <2>5, IdleTypes
  <2> QED
    BY <1>1, <1>4, <2>6 DEF FactsReconcile
<1>5. CASE FactsUpsert(r)
  <2>1. UpsertRow(r, facts[r].row) \in RunRecord
    BY <1>0, UpsertedType DEF UpsertRow, FactsType
  <2>2. row' \in [Runs -> RunRecord] /\ stored' \subseteq Runs
    BY <1>5, <2>1 DEF FactsUpsert
  <2>3. facts' \in [Runs -> FactsType]
    BY <1>0, <1>5, IdleTypes DEF FactsUpsert
  <2> QED
    BY <1>5, <2>2, <2>3 DEF FactsUpsert, world, FactsType
<1>6. CASE FactsFail(r)
  <2>1. [FactsIdle EXCEPT !.pc = "queued"] \in FactsType
    BY IdleTypes DEF FactsType
  <2> QED
    BY <1>0, <1>1, <1>6, <2>1 DEF FactsFail
<1> QED
  BY <1>2, <1>3, <1>4, <1>5, <1>6 DEF FactsStep

LEMMA MetaTypeOK ==
  ASSUME TypeOK, NEW r \in Runs, MetaStep(r)
  PROVE  TypeOK'
<1> USE DEF TypeOK
<1>0. /\ meta \in [Runs -> MetaType] /\ meta[r] \in MetaType /\ row[r] \in RunRecord
      /\ meta[r].row.timing \in Timing /\ meta[r].row.region \in Region
  BY DEF MetaType, RunRecord
<1>1. ASSUME meta' \in [Runs -> MetaType], UNCHANGED <<world, stored, row, sync, facts>>
      PROVE  TypeOK'
  BY <1>1 DEF world, MetaType
<1>2. \A err \in BOOLEAN : MetaDone(err) \in MetaType /\ AfterTiming(r, err) \in MetaType
  BY <1>0, IdleTypes DEF MetaDone, AfterTiming, MetaType
<1>3. CASE MetaEnqueue(r)
  <2>1. [meta[r] EXCEPT !.pc = "queued"] \in MetaType
    BY <1>0 DEF MetaType
  <2> QED
    BY <1>0, <1>1, <1>3, <2>1 DEF MetaEnqueue
<1>4. CASE MetaGet(r)
  <2>1. \A timing, region \in BOOLEAN :
          [pc |-> IF timing THEN "timing" ELSE "region", row |-> row[r],
           region |-> region, err |-> FALSE] \in MetaType
    BY <1>0 DEF MetaType
  <2> QED
    BY <1>0, <1>1, <1>4, <2>1, IdleTypes DEF MetaGet, TimingTerminal, RegionTerminal
<1>5. ASSUME NEW outcome \in TimingOutcomes, MetaTiming(r, outcome)
      PROVE  TypeOK'
  <2>1. TimingAfter(meta[r].row.timing, outcome) \in Timing
    BY <1>0, TimingAfterType, BoundsAssumption
  <2>2. [row[r] EXCEPT !.timing = TimingAfter(meta[r].row.timing, outcome)] \in RunRecord
    BY <1>0, <2>1 DEF RunRecord
  <2>3. row' \in [Runs -> RunRecord]
    BY <1>5, <2>2 DEF MetaTiming
  <2>4. meta' \in [Runs -> MetaType]
    BY <1>0, <1>2, <1>5 DEF MetaTiming
  <2> QED
    BY <1>5, <2>3, <2>4 DEF MetaTiming, world, MetaType
<1>6. CASE MetaTimingFails(r)
  BY <1>0, <1>1, <1>2, <1>6 DEF MetaTimingFails
<1>7. ASSUME NEW outcome \in RegionOutcomes, MetaRegion(r, outcome)
      PROVE  TypeOK'
  <2>1. RegionAfter(meta[r].row.region, outcome) \in Region
    BY <1>0, RegionAfterType, BoundsAssumption
  <2>2. [row[r] EXCEPT !.region = RegionAfter(meta[r].row.region, outcome)] \in RunRecord
    BY <1>0, <2>1 DEF RunRecord
  <2>3. row' \in [Runs -> RunRecord]
    BY <1>7, <2>2 DEF MetaRegion
  <2>4. meta[r].err \in BOOLEAN
    BY <1>0 DEF MetaType
  <2>5. meta' \in [Runs -> MetaType]
    BY <1>0, <1>2, <1>7, <2>4 DEF MetaRegion
  <2> QED
    BY <1>7, <2>3, <2>5 DEF MetaRegion, world, MetaType
<1>8. CASE MetaRegionFails(r)
  BY <1>0, <1>1, <1>2, <1>8 DEF MetaRegionFails
<1> QED
  BY <1>3, <1>4, <1>5, <1>6, <1>7, <1>8 DEF MetaStep

(* Every variable keeps its type; only the six metadata states are stored.   *)
THEOREM TypeCorrect == Spec => []TypeOK
<1>1. TypeOK /\ [Next]_vars => TypeOK'
  <2> SUFFICES ASSUME TypeOK, [Next]_vars PROVE TypeOK'
    OBVIOUS
  <2>1. CASE UNCHANGED vars
    BY <2>1 DEF vars, world, TypeOK
  <2> QED
    BY <2>1, EnvironmentTypeOK, SyncTypeOK, FactsTypeOK, MetaTypeOK DEF Next
<1> QED
  BY InitTypeOK, <1>1, PTL DEF Spec

-----------------------------------------------------------------------------
(* Signals.  Every copy of a row that may be written back is Justified, and  *)
(* so is what Merged and ReconciledSignals make of it: this rests on a SHA   *)
(* that is either blank or the run's own, in reports and in rows.            *)

ShaOK(r, sha) == sha \in {NoSHA, RunSHA[r]}

ReportsOK == \A s \in Sources, r \in Runs : ShaOK(r, report[s][r].sha)
PullsOK == \A p \in Pulls : pulls[p].merged => pulls[p].head \in SHAs
RecordOK(prs, r, rec) == ShaOK(r, rec.sha) /\ Justified(prs, r, rec)

RowsOK == \A r \in stored : RecordOK(pulls, r, row[r])
SyncCopiesOK ==
  \A s \in Sources, e \in Envs, r \in Runs :
    /\ ShaOK(r, sync[s][e].seen[r].sha)
    /\ r \in sync[s][e].done => RecordOK(pulls, r, sync[s][e].batch[r])
FactsCopiesOK ==
  \A r \in Runs : facts[r].pc \in {"got", "write"} => RecordOK(pulls, r, facts[r].row)

SignalsInv == TypeOK /\ ReportsOK /\ PullsOK /\ RowsOK /\ SyncCopiesOK /\ FactsCopiesOK

(* Signals inherited along with the PR number and SHA they were made for.    *)
LEMMA InheritedJustified ==
  ASSUME NEW r \in Runs, SupportsPRLookup(r),
         NEW old, RecordOK(pulls, r, old), PullsOK, pulls \in [Pulls -> PullRecord],
         old \in RunRecord,
         NEW new, new.signals = [old.signals EXCEPT !.state = new.signals.state],
         new.pull = old.pull, new.sha \in {old.sha, RunSHA[r]},
         old.sha = NoSHA \/ new.sha = old.sha
  PROVE  Justified(pulls, r, new)
<1>1. /\ new.signals.merged = old.signals.merged
      /\ new.signals.final = old.signals.final
      /\ new.signals.postGood = old.signals.postGood
  BY DEF RunRecord, Signals
<1>2. old.signals.postGood => old.sha # NoSHA
  BY RunsAssumption DEF RecordOK, Justified, PullsOK
<1> QED
  BY <1>1, <1>2 DEF RecordOK, Justified

LEMMA UnmergedJustified ==
  ASSUME NEW r \in Runs, SupportsPRLookup(r), NEW rec,
         ~rec.signals.merged, ~rec.signals.postGood, rec.signals.final = NoSHA
  PROVE  Justified(pulls, r, rec)
BY DEF Justified

LEMMA NoSignalsFields ==
  ~NoSignals.merged /\ ~NoSignals.postGood /\ NoSignals.final = NoSHA
BY DEF NoSignals

LEMMA FillIdentity ==
  ASSUME NEW s \in Signals
  PROVE  /\ FillSignals(s, s) = s
         /\ FillSignals(s, NoSignals) = s
         /\ FillSignals(NoSignals, s) = s
BY DEF FillSignals, Signals, NoSignals

LEMMA SippyMergedOK ==
  ASSUME NEW r \in Runs, NEW found \in BOOLEAN, NEW old \in RunRecord, NEW rep \in Report,
         pulls \in [Pulls -> PullRecord], PullsOK,
         found => RecordOK(pulls, r, old), ShaOK(r, rep.sha)
  PROVE  RecordOK(pulls, r, SippyMerged(r, old, found, rep))
<1> DEFINE new == SippyMerged(r, old, found, rep)
           pull == IF found /\ rep.pull = NoPull THEN old.pull ELSE rep.pull
           mapped == IF ~SupportsPRLookup(r) THEN MergedCode
                     ELSE IF found /\ old.pull = rep.pull THEN old.signals
                     ELSE NoSignals
<1>1. ShaOK(r, new.sha)
  BY DEF SippyMerged, RecordOK, ShaOK
<1>2. old.signals \in Signals
  BY DEF RunRecord
<1>3. CASE ~SupportsPRLookup(r)
  <2>1. found => FillSignals(mapped, old.signals) = MergedCode
    BY <1>3, FillIdentity, BlankTypes DEF RecordOK, Justified
  <2>2. new.signals = MergedCode
    BY <1>3, <2>1 DEF SippyMerged
  <2> QED
    BY <1>1, <1>3, <2>2 DEF RecordOK, Justified
<1>4. CASE SupportsPRLookup(r) /\ found /\ old.pull = pull
  <2>1. mapped \in {old.signals, NoSignals}
    BY <1>4
  <2>2. FillSignals(mapped, old.signals) = old.signals
    BY <1>2, <2>1, FillIdentity
  <2>3. new.signals \in {old.signals, NoSignals}
    BY <1>4, <2>1, <2>2 DEF SippyMerged
  <2>4. new.pull = old.pull
    BY <1>4 DEF SippyMerged
  <2>5. new.sha = IF rep.sha = NoSHA THEN old.sha ELSE rep.sha
    BY <1>4 DEF SippyMerged
  <2>6. old.sha = NoSHA \/ new.sha = old.sha
    BY <1>4, <2>5 DEF RecordOK, ShaOK
  <2>7. CASE new.signals = old.signals
    <3>1. new.signals = [old.signals EXCEPT !.state = new.signals.state]
      BY <1>2, <2>7 DEF Signals
    <3>2. Justified(pulls, r, new)
      BY <1>4, <2>4, <2>5, <2>6, <3>1, InheritedJustified DEF RecordOK, ShaOK
    <3> QED
      BY <1>1, <3>2 DEF RecordOK
  <2>8. CASE new.signals = NoSignals
    BY <1>1, <1>4, <2>8, NoSignalsFields, UnmergedJustified DEF RecordOK
  <2> QED
    BY <2>3, <2>7, <2>8
<1>5. CASE SupportsPRLookup(r) /\ ~(found /\ old.pull = pull)
  <2>1. new.signals = NoSignals
    BY <1>5 DEF SippyMerged
  <2> QED
    BY <1>1, <1>5, <2>1, NoSignalsFields, UnmergedJustified DEF RecordOK
<1> QED
  BY <1>3, <1>4, <1>5

LEMMA ProwMergedOK ==
  ASSUME NEW r \in Runs, NEW found \in BOOLEAN, NEW old \in RunRecord, NEW rep \in Report,
         pulls \in [Pulls -> PullRecord], PullsOK,
         found => RecordOK(pulls, r, old), ShaOK(r, rep.sha)
  PROVE  RecordOK(pulls, r, ProwMerged(r, old, found, rep))
<1> DEFINE new == ProwMerged(r, old, found, rep)
           mapped == IF SupportsPRLookup(r) THEN NoSignals ELSE MergedCode
<1>1. old.signals \in Signals
  BY DEF RunRecord
<1>2. ASSUME ~found
      PROVE  RecordOK(pulls, r, new)
  <2>1. new.signals = mapped /\ new.sha = rep.sha
    BY <1>2 DEF ProwMerged
  <2>2. CASE SupportsPRLookup(r)
    BY <2>1, <2>2, NoSignalsFields, UnmergedJustified DEF RecordOK
  <2>3. CASE ~SupportsPRLookup(r)
    BY <2>1, <2>3 DEF RecordOK, Justified
  <2> QED
    BY <2>2, <2>3
<1>3. ASSUME found
      PROVE  RecordOK(pulls, r, new)
  <2>1. FillSignals(old.signals, mapped) = old.signals
    BY <1>1, <1>3, FillIdentity DEF RecordOK, Justified
  <2>2. /\ new.signals = old.signals
        /\ new.pull = IF old.pull = NoPull THEN rep.pull ELSE old.pull
        /\ new.sha \in {old.sha, rep.sha}
        /\ old.sha = NoSHA \/ new.sha = old.sha
    BY <1>3, <2>1 DEF ProwMerged, RunRecord
  <2>3. ShaOK(r, new.sha)
    BY <1>3, <2>2 DEF RecordOK, ShaOK
  <2>4. CASE ~SupportsPRLookup(r)
    BY <1>3, <2>2, <2>3, <2>4 DEF RecordOK, Justified
  <2>5. CASE SupportsPRLookup(r) /\ old.pull # NoPull
    <3>1. new.signals = [old.signals EXCEPT !.state = new.signals.state]
      BY <1>1, <2>2 DEF Signals
    <3>2. new.pull = old.pull /\ new.sha \in {old.sha, RunSHA[r]}
      BY <1>3, <2>2, <2>3, <2>5 DEF RecordOK, ShaOK
    <3>3. Justified(pulls, r, new)
      BY <1>3, <2>2, <2>5, <3>1, <3>2, InheritedJustified
    <3> QED
      BY <2>3, <3>3 DEF RecordOK
  <2>6. CASE SupportsPRLookup(r) /\ old.pull = NoPull
    <3>1. ~old.signals.merged
      BY <1>3, <2>6, RunsAssumption DEF RecordOK, Justified
    <3> QED
      BY <1>3, <2>2, <2>3, <2>6, <3>1 DEF RecordOK, Justified
  <2> QED
    BY <2>4, <2>5, <2>6
<1> QED
  BY <1>2, <1>3

(* facts.runs derives signals that the PR table justifies.                   *)
LEMMA ReconciledJustified ==
  ASSUME pulls \in [Pulls -> PullRecord], NEW r \in Runs, NEW rec \in RunRecord
  PROVE  Justified(pulls, r, [rec EXCEPT !.signals = ReconciledSignals(r, rec)])
<1> DEFINE new == [rec EXCEPT !.signals = ReconciledSignals(r, rec)]
<1>1. new.signals = ReconciledSignals(r, rec) /\ new.pull = rec.pull /\ new.sha = rec.sha
  BY DEF RunRecord
<1> HIDE DEF new
<1> SUFFICES Justified(pulls, r, new)
  BY DEF new
<1>2. CASE ~SupportsPRLookup(r)
  BY <1>1, <1>2 DEF Justified, ReconciledSignals
<1>3. CASE SupportsPRLookup(r) /\ rec.pull = NoPull
  <2>1. ReconciledSignals(r, rec) = NoSignals
    BY <1>3 DEF ReconciledSignals
  <2> QED
    BY <1>1, <1>3, <2>1, NoSignalsFields, UnmergedJustified
<1>4. CASE SupportsPRLookup(r) /\ rec.pull # NoPull
  <2>1. rec.pull \in Pulls
    BY <1>4 DEF RunRecord
  <2> DEFINE pr == pulls[rec.pull]
  <2>2. CASE pr.found /\ pr.merged /\ pr.head # NoSHA
    <3> DEFINE signals == [state |-> pr.state, final |-> pr.head, merged |-> TRUE,
                           postGood |-> rec.sha # NoSHA /\ rec.sha = pr.head]
    <3>1. new.signals = signals
      BY <1>1, <1>4, <2>2 DEF ReconciledSignals
    <3>2. signals.merged /\ signals.final = pr.head
      OBVIOUS
    <3>3. signals.postGood => rec.sha = pr.head
      BY Zenon
    <3> HIDE DEF signals
    <3> QED
      BY <1>1, <1>4, <2>1, <2>2, <3>1, <3>2, <3>3 DEF Justified
  <2>3. CASE ~(pr.found /\ pr.merged /\ pr.head # NoSHA)
    <3> DEFINE signals == [NoSignals EXCEPT !.state = pr.state]
    <3>1. new.signals \in {NoSignals, signals}
      BY <1>1, <1>4, <2>3 DEF ReconciledSignals
    <3>2. ~signals.merged /\ ~signals.postGood /\ signals.final = NoSHA
      BY DEF NoSignals
    <3> HIDE DEF signals
    <3> QED
      BY <1>4, <3>1, <3>2, NoSignalsFields, UnmergedJustified
  <2> QED
    BY <2>2, <2>3
<1> QED
  BY <1>2, <1>3, <1>4

LEMMA MergedOK ==
  ASSUME NEW s \in Sources, NEW r \in Runs, NEW found \in BOOLEAN, NEW old \in RunRecord,
         NEW rep \in Report, pulls \in [Pulls -> PullRecord], PullsOK,
         found => RecordOK(pulls, r, old), ShaOK(r, rep.sha)
  PROVE  RecordOK(pulls, r, Merged(s, r, old, found, rep))
BY SippyMergedOK, ProwMergedOK DEF Merged

LEMMA UpsertedOK ==
  ASSUME TypeOK, NEW r \in Runs, NEW new \in RunRecord, RecordOK(pulls, r, new)
  PROVE  RecordOK(pulls, r, UpsertRow(r, new))
<1> DEFINE up == UpsertRow(r, new)
<1>1. up.signals = new.signals /\ up.pull = new.pull /\ up.sha = new.sha
  BY DEF UpsertRow, Upserted, RunRecord
<1> HIDE DEF up
<1> SUFFICES RecordOK(pulls, r, up)
  BY DEF up
<1> QED
  BY <1>1 DEF RecordOK, Justified

LEMMA SignalsEnvironment ==
  ASSUME SignalsInv, Environment
  PROVE  SignalsInv'
<1> USE DEF SignalsInv
<1>0. TypeOK'
  BY EnvironmentTypeOK
<1>1. ASSUME UNCHANGED <<pulls, stored, row, sync, facts>>, ReportsOK'
      PROVE  SignalsInv'
  BY <1>0, <1>1 DEF PullsOK, RowsOK, SyncCopiesOK, FactsCopiesOK
<1>2. ASSUME NEW s \in Sources, NEW r \in Runs, NEW rep \in ReportsOf(s, r), Publish(s, r, rep)
      PROVE  SignalsInv'
  <2>1. ShaOK(r, rep.sha)
    BY DEF ReportsOf, ShaOK
  <2>2. ReportsOK'
    BY <1>2, <2>1 DEF Publish, ReportsOK, TypeOK
  <2> QED
    BY <1>1, <1>2, <2>2 DEF Publish
<1>3. ASSUME NEW r \in Runs, NEW rep \in ReportsOf("sippy", r), Correct(r, rep)
      PROVE  SignalsInv'
  <2>1. ShaOK(r, rep.sha)
    BY DEF ReportsOf, ShaOK
  <2>2. ReportsOK'
    BY <1>3, <2>1 DEF Correct, ReportsOK, TypeOK
  <2> QED
    BY <1>1, <1>3, <2>2 DEF Correct
<1>4. ASSUME NEW p \in Pulls, NEW state \in {"open", "closed"}, NEW merged \in BOOLEAN,
             NEW head \in SHAs, PullChanges(p, state, merged, head)
      PROVE  SignalsInv'
  <2>1. \A q \in Pulls : pulls[q].merged => pulls'[q] = pulls[q]
    BY <1>4 DEF PullChanges, TypeOK
  <2>2. PullsOK'
    BY <1>4 DEF PullChanges, PullsOK, TypeOK
  <2>3. \A r, rec : RecordOK(pulls, r, rec) => RecordOK(pulls', r, rec)
    BY <2>1 DEF RecordOK, Justified
  <2>4. UNCHANGED <<report, stored, row, sync, facts>>
    BY <1>4 DEF PullChanges
  <2> QED
    BY <1>0, <2>2, <2>3, <2>4 DEF ReportsOK, RowsOK, SyncCopiesOK, FactsCopiesOK
<1>5. ASSUME NEW r \in Runs, AgeRun(r)
      PROVE  SignalsInv'
  BY <1>1, <1>5 DEF AgeRun, ReportsOK
<1>6. CASE Tick
  BY <1>1, <1>6 DEF Tick, ReportsOK
<1>7. CASE Restart
  <2>1. SyncCopiesOK' /\ FactsCopiesOK'
    BY <1>7, BlankTypes DEF Restart, SyncCopiesOK, FactsCopiesOK, SyncIdle, FactsIdle, ShaOK,
                BlankReport
  <2> QED
    BY <1>0, <1>7, <2>1 DEF Restart, world, ReportsOK, PullsOK, RowsOK
<1> QED
  BY <1>2, <1>3, <1>4, <1>5, <1>6, <1>7 DEF Environment

LEMMA SignalsSync ==
  ASSUME SignalsInv, NEW s \in Sources, NEW e \in Envs, SyncStep(s, e)
  PROVE  SignalsInv'
<1> USE DEF SignalsInv
<1>0. /\ TypeOK'
      /\ sync \in [Sources -> [Envs -> SyncType]] /\ sync[s][e] \in SyncType
  BY SyncTypeOK DEF TypeOK, SyncType
<1>a. /\ \A r \in Runs : ShaOK(r, SyncIdle.seen[r].sha)
      /\ SyncIdle.done = {}
  BY DEF SyncIdle, BlankReport, ShaOK
<1>1. ASSUME NEW job, sync' = [sync EXCEPT ![s][e] = job], UNCHANGED <<world, stored, row, facts>>,
             \A r \in Runs : ShaOK(r, job.seen[r].sha),
             \A r \in Runs : r \in job.done => RecordOK(pulls, r, job.batch[r])
      PROVE  SignalsInv'
  <2>1. \A t \in Sources, f \in Envs :
          sync'[t][f] = IF t = s /\ f = e THEN job ELSE sync[t][f]
    BY <1>0, <1>1
  <2>2. SyncCopiesOK'
    BY <1>1, <2>1 DEF SyncCopiesOK, world
  <2> QED
    BY <1>0, <1>1, <2>2 DEF world, ReportsOK, PullsOK, RowsOK, FactsCopiesOK
<1>2. CASE SyncList(s, e)
  <2> DEFINE listed == {r \in published[s] : EnvOf[r] = e /\ age[r] = "replay"}
             seen == [r \in Runs |-> IF r \in listed THEN report[s][r] ELSE BlankReport]
             job == [SyncIdle EXCEPT !.pc = "reading", !.todo = listed, !.seen = seen]
  <2>1. job.seen = seen /\ job.done = {}
    BY DEF SyncIdle
  <2>2. \A r \in Runs : ShaOK(r, seen[r].sha)
    BY DEF ReportsOK, BlankReport, ShaOK
  <2>3. sync' = [sync EXCEPT ![s][e] = job] /\ UNCHANGED <<world, stored, row, facts>>
    BY <1>2 DEF SyncList
  <2> HIDE DEF job, seen
  <2> QED
    BY <1>1, <2>1, <2>2, <2>3
<1>3. ASSUME NEW r \in Runs, SyncGet(s, e, r)
      PROVE  SignalsInv'
  <2> DEFINE old == IF Found(s, r) THEN row[r] ELSE BlankRow
             new == Merged(s, r, old, Found(s, r), sync[s][e].seen[r])
             batch == [sync[s][e].batch EXCEPT ![r] = new]
             job == [sync[s][e] EXCEPT !.todo = sync[s][e].todo \ {r},
                                       !.done = sync[s][e].done \cup {r}, !.batch = batch]
  <2>1. /\ old \in RunRecord /\ sync[s][e].seen[r] \in Report /\ Found(s, r) \in BOOLEAN
        /\ pulls \in [Pulls -> PullRecord]
    BY <1>0, BlankTypes DEF SyncType, Found, TypeOK
  <2>2. Found(s, r) => RecordOK(pulls, r, old)
    BY DEF Found, RowsOK
  <2>3. ShaOK(r, sync[s][e].seen[r].sha)
    BY DEF SyncCopiesOK
  <2> HIDE DEF old
  <2>4. RecordOK(pulls, r, new)
    BY <2>1, <2>2, <2>3, MergedOK
  <2>5. sync' = [sync EXCEPT ![s][e] = job] /\ UNCHANGED <<world, stored, row, facts>>
    BY <1>3 DEF SyncGet, old
  <2> HIDE DEF new
  <2>6. /\ job.seen = sync[s][e].seen
        /\ job.done = sync[s][e].done \cup {r}
        /\ job.batch = batch
    BY <1>0 DEF SyncType
  <2>7. \A q \in Runs : batch[q] = IF q = r THEN new ELSE sync[s][e].batch[q]
    BY <1>0 DEF SyncType
  <2> HIDE DEF job, batch
  <2>8. \A q \in Runs : q \in job.done => RecordOK(pulls, q, job.batch[q])
    BY <2>4, <2>6, <2>7 DEF SyncCopiesOK
  <2>9. \A q \in Runs : ShaOK(q, job.seen[q].sha)
    BY <2>6 DEF SyncCopiesOK
  <2> QED
    BY <1>1, <2>5, <2>8, <2>9
<1>4. CASE SyncUpsert(s, e)
  <2>1. \A r \in sync[s][e].done : RecordOK(pulls, r, UpsertRow(r, sync[s][e].batch[r]))
    BY <1>0, UpsertedOK DEF SyncCopiesOK, SyncType
  <2>2. \A r \in stored' : RecordOK(pulls, r, row'[r])
    BY <1>0, <1>4, <2>1 DEF SyncUpsert, RowsOK, TypeOK, SyncType
  <2>3. UNCHANGED <<world, facts>> /\ sync' = [sync EXCEPT ![s][e] = SyncIdle]
    BY <1>4 DEF SyncUpsert
  <2>4. \A t \in Sources, f \in Envs :
          sync'[t][f] = IF t = s /\ f = e THEN SyncIdle ELSE sync[t][f]
    BY <1>0, <2>3
  <2>5. RowsOK'
    BY <2>2, <2>3 DEF RowsOK, world
  <2>6. SyncCopiesOK'
    BY <1>a, <2>3, <2>4 DEF SyncCopiesOK, world
  <2> QED
    BY <1>0, <2>3, <2>5, <2>6 DEF world, ReportsOK, PullsOK, FactsCopiesOK
<1>5. CASE SyncFail(s, e)
  BY <1>a, <1>1, <1>5 DEF SyncFail
<1> QED
  BY <1>2, <1>3, <1>4, <1>5 DEF SyncStep

LEMMA SignalsFacts ==
  ASSUME SignalsInv, NEW r \in Runs, FactsStep(r)
  PROVE  SignalsInv'
<1> USE DEF SignalsInv
<1>0. /\ TypeOK' /\ facts \in [Runs -> FactsType] /\ facts[r] \in FactsType
  BY FactsTypeOK DEF TypeOK, FactsType
<1>1. ASSUME NEW job, facts' = [facts EXCEPT ![r] = job], UNCHANGED <<world, stored, row, sync>>,
             job.pc \in {"got", "write"} => RecordOK(pulls, r, job.row)
      PROVE  SignalsInv'
  BY <1>0, <1>1 DEF world, ReportsOK, PullsOK, RowsOK, SyncCopiesOK, FactsCopiesOK
<1>2. CASE FactsEnqueue(r)
  <2>1. [facts[r] EXCEPT !.pc = "queued"].pc = "queued"
    BY <1>0 DEF FactsType
  <2> QED
    BY <1>1, <1>2, <2>1 DEF FactsEnqueue
<1>3. CASE FactsGet(r)
  <2> DEFINE job == IF r \in stored THEN [pc |-> "got", row |-> row[r]] ELSE FactsIdle
  <2>1. job.pc \in {"got", "write"} => RecordOK(pulls, r, job.row)
    BY DEF RowsOK, FactsIdle
  <2>2. facts' = [facts EXCEPT ![r] = job]
    BY <1>3 DEF FactsGet
  <2> QED
    BY <1>1, <1>3, <2>1, <2>2 DEF FactsGet
<1>4. CASE FactsReconcile(r)
  <2> DEFINE rec == facts[r].row
             signals == ReconciledSignals(r, rec)
             next == [rec EXCEPT !.signals = signals]
             job == IF SignalsEqual(signals, rec.signals) THEN FactsIdle
                    ELSE [pc |-> "write", row |-> next]
  <2>1. rec \in RunRecord /\ RecordOK(pulls, r, rec) /\ pulls \in [Pulls -> PullRecord]
    BY <1>0, <1>4 DEF FactsReconcile, FactsCopiesOK, FactsType, TypeOK
  <2>2. Justified(pulls, r, next)
    BY <2>1, ReconciledJustified
  <2>3. next.sha = rec.sha
    BY <2>1 DEF RunRecord
  <2>4. RecordOK(pulls, r, next)
    BY <2>1, <2>2, <2>3 DEF RecordOK
  <2>5. facts' = [facts EXCEPT ![r] = job]
    BY <1>4 DEF FactsReconcile
  <2> HIDE DEF next, signals
  <2>6. job.pc \in {"got", "write"} => RecordOK(pulls, r, job.row)
    BY <2>4 DEF FactsIdle
  <2> HIDE DEF job
  <2> QED
    BY <1>1, <1>4, <2>5, <2>6 DEF FactsReconcile
<1>5. CASE FactsUpsert(r)
  <2>1. RecordOK(pulls, r, UpsertRow(r, facts[r].row))
    BY <1>0, <1>5, UpsertedOK DEF FactsUpsert, FactsCopiesOK, FactsType
  <2>2. \A q \in stored' : RecordOK(pulls, q, row'[q])
    BY <1>5, <2>1 DEF FactsUpsert, RowsOK, TypeOK
  <2>3. UNCHANGED <<world, sync>>
    BY <1>5 DEF FactsUpsert
  <2>4. FactsCopiesOK'
    BY <1>0, <1>5 DEF FactsUpsert, FactsCopiesOK, FactsIdle, world
  <2>5. RowsOK'
    BY <2>2, <2>3 DEF RowsOK, world
  <2> QED
    BY <1>0, <2>3, <2>4, <2>5 DEF world, ReportsOK, PullsOK, SyncCopiesOK
<1>6. CASE FactsFail(r)
  <2>1. [FactsIdle EXCEPT !.pc = "queued"].pc = "queued"
    BY DEF FactsIdle
  <2> QED
    BY <1>1, <1>6, <2>1 DEF FactsFail
<1> QED
  BY <1>2, <1>3, <1>4, <1>5, <1>6 DEF FactsStep

LEMMA SignalsMeta ==
  ASSUME SignalsInv, NEW r \in Runs, MetaStep(r)
  PROVE  SignalsInv'
<1> USE DEF SignalsInv
<1>0. TypeOK'
  BY MetaTypeOK
<1>1. UNCHANGED <<world, stored, sync, facts>>
  BY DEF MetaStep, MetaEnqueue, MetaGet, MetaTiming, MetaTimingFails, MetaRegion,
         MetaRegionFails
<1>2. \A q \in Runs : /\ row'[q].signals = row[q].signals
                      /\ row'[q].pull = row[q].pull
                      /\ row'[q].sha = row[q].sha
  <2>1. ASSUME NEW timing, row' = [row EXCEPT ![r] = [@ EXCEPT !.timing = timing]]
        PROVE  <1>2!:
    BY <2>1 DEF TypeOK, RunRecord
  <2>2. ASSUME NEW region, row' = [row EXCEPT ![r] = [@ EXCEPT !.region = region]]
        PROVE  <1>2!:
    BY <2>2 DEF TypeOK, RunRecord
  <2>3. ASSUME NEW outcome \in TimingOutcomes, MetaTiming(r, outcome)
        PROVE  <1>2!:
    BY <2>1, <2>3 DEF MetaTiming
  <2>4. ASSUME NEW outcome \in RegionOutcomes, MetaRegion(r, outcome)
        PROVE  <1>2!:
    BY <2>2, <2>4 DEF MetaRegion
  <2> QED
    BY <2>3, <2>4 DEF MetaStep, MetaEnqueue, MetaGet, MetaTimingFails, MetaRegionFails
<1>3. RowsOK'
  BY <1>1, <1>2 DEF world, RowsOK, RecordOK, Justified, TypeOK
<1> QED
  BY <1>0, <1>1, <1>3 DEF world, ReportsOK, PullsOK, SyncCopiesOK, FactsCopiesOK

(* No interleaving of stale full-row upserts leaves a stored row with signals *)
(* that its own PR number and SHA do not justify.                             *)
THEOREM SignalsAlwaysJustified == Spec => []SignalsJustified
<1>1. Init => SignalsInv
  <2> SUFFICES ASSUME Init PROVE SignalsInv
    OBVIOUS
  <2>1. TypeOK
    BY InitTypeOK
  <2>2. ReportsOK /\ PullsOK /\ RowsOK
    BY DEF Init, ReportsOK, PullsOK, RowsOK, ShaOK, BlankReport
  <2>3. SyncCopiesOK /\ FactsCopiesOK
    BY DEF Init, SyncCopiesOK, FactsCopiesOK, SyncIdle, FactsIdle, ShaOK, BlankReport
  <2> QED
    BY <2>1, <2>2, <2>3 DEF SignalsInv
<1>2. SignalsInv /\ [Next]_vars => SignalsInv'
  <2> SUFFICES ASSUME SignalsInv, [Next]_vars PROVE SignalsInv'
    OBVIOUS
  <2>1. CASE UNCHANGED vars
    <3>1. TypeOK'
      BY <2>1 DEF vars, world, TypeOK, SignalsInv
    <3> QED
      BY <2>1, <3>1 DEF vars, world, SignalsInv, ReportsOK, PullsOK, RowsOK, SyncCopiesOK,
                        FactsCopiesOK
  <2> QED
    BY <2>1, SignalsEnvironment, SignalsSync, SignalsFacts, SignalsMeta DEF Next
<1>3. SignalsInv => SignalsJustified
  BY DEF SignalsInv, RowsOK, RecordOK, SignalsJustified
<1> QED
  BY <1>1, <1>2, <1>3, PTL DEF Spec

-----------------------------------------------------------------------------
(* Metadata.  Every copy of a row is whole and, once checked, agrees with    *)
(* the row on the first check; only the metadata controller sets it, from a  *)
(* copy that agrees even when unchecked.                                     *)

Whole(rec) == TimingWhole(rec.timing) /\ RegionWhole(rec.region)
Agrees(rec, cur) ==
  /\ rec.timing.first \in {Never, cur.timing.first}
  /\ rec.region.first \in {Never, cur.region.first}
CopyOK(rec, cur) == Whole(rec) /\ Agrees(rec, cur)

TimingJobOK(job, cur) ==
  job.pc = "timing" => /\ job.row.timing.first = cur.timing.first
                       /\ ~TimingTerminal(job.row.timing)
RegionJobOK(job, cur) ==
  job.pc = "region" \/ (job.pc = "timing" /\ job.region) =>
    /\ job.row.region.first = cur.region.first
    /\ ~RegionTerminal(job.row.region)
MetaJobOK(job, cur) == CopyOK(job.row, cur) /\ TimingJobOK(job, cur) /\ RegionJobOK(job, cur)

ClockOK == now > Never
AbsentBlank == \A r \in Runs : r \notin stored => row[r] = BlankRow
RowsWhole == \A r \in Runs : Whole(row[r])
SyncCopiesWhole == \A s \in Sources, e \in Envs, r \in Runs : CopyOK(sync[s][e].batch[r], row[r])
FactsCopiesWhole == \A r \in Runs : CopyOK(facts[r].row, row[r])
MetaCopiesWhole == \A r \in Runs : MetaJobOK(meta[r], row[r])
MetaStored == \A r \in Runs : meta[r].pc \in {"timing", "region"} => r \in stored

MetadataInv ==
  /\ TypeOK /\ ClockOK /\ AbsentBlank /\ RowsWhole
  /\ SyncCopiesWhole /\ FactsCopiesWhole /\ MetaCopiesWhole /\ MetaStored

(* What a step may do to the first checks of a row: set one, never move it.  *)
Keeps(old, new) ==
  old.timing.first = new.timing.first /\ old.region.first = new.region.first
Grows(old, new) ==
  /\ old.timing.first \in {Never, new.timing.first}
  /\ old.region.first \in {Never, new.region.first}

LEMMA BlankWhole ==
  /\ TimingWhole(BlankTiming) /\ BlankTiming.first = Never
  /\ RegionWhole(BlankRegion) /\ BlankRegion.first = Never
<1>1. BlankTiming.first = Never
  BY DEF BlankTiming
<1>2. BlankTiming.state = "" /\ ~BlankTiming.completed
  BY DEF BlankTiming
<1>3. BlankRegion.first = Never
  BY DEF BlankRegion
<1>4. BlankRegion.state = "" /\ ~BlankRegion.known
  BY DEF BlankRegion
<1> QED
  BY <1>1, <1>2, <1>3, <1>4 DEF TimingWhole, RegionWhole

LEMMA BlankParts == BlankRow.timing = BlankTiming /\ BlankRow.region = BlankRegion
BY DEF BlankRow

LEMMA BlankFirsts == BlankRow.timing.first = Never /\ BlankRow.region.first = Never
BY BlankParts, BlankWhole

LEMMA BlankCopyOK ==
  ASSUME NEW cur
  PROVE  CopyOK(BlankRow, cur)
BY BlankParts, BlankWhole DEF CopyOK, Whole, Agrees

LEMMA IdleJobOK ==
  ASSUME NEW cur, NEW job, job.pc \notin {"timing", "region"}, job.row = BlankRow
  PROVE  MetaJobOK(job, cur)
BY BlankCopyOK DEF MetaJobOK, TimingJobOK, RegionJobOK

LEMMA CopyGrows ==
  ASSUME NEW rec, NEW old, NEW new, CopyOK(rec, old), Grows(old, new)
  PROVE  CopyOK(rec, new)
BY DEF CopyOK, Agrees, Grows

LEMMA JobKeeps ==
  ASSUME NEW job, NEW old, NEW new, MetaJobOK(job, old), Keeps(old, new)
  PROVE  MetaJobOK(job, new)
BY DEF MetaJobOK, CopyOK, Agrees, TimingJobOK, RegionJobOK, Keeps

LEMMA KeepsGrows ==
  ASSUME NEW old, NEW new, Keeps(old, new)
  PROVE  Grows(old, new)
BY DEF Keeps, Grows

(* Neither source makes a row whose metadata its copy does not have.         *)
LEMMA MergedWhole ==
  ASSUME NEW s \in Sources, NEW r \in Runs, NEW found \in BOOLEAN, NEW old \in RunRecord,
         NEW rep \in Report, NEW cur, CopyOK(old, cur)
  PROVE  CopyOK(Merged(s, r, old, found, rep), cur)
<1> DEFINE new == Merged(s, r, old, found, rep)
<1>1. \/ new.timing = BlankTiming /\ new.region = BlankRegion
      \/ new.timing = old.timing /\ new.region = old.region
  BY DEF Merged, SippyMerged, ProwMerged, RunRecord
<1> HIDE DEF new
<1> SUFFICES CopyOK(new, cur)
  BY DEF new
<1>2. CASE new.timing = BlankTiming /\ new.region = BlankRegion
  BY <1>2, BlankWhole DEF CopyOK, Whole, Agrees
<1>3. CASE new.timing = old.timing /\ new.region = old.region
  BY <1>3 DEF CopyOK, Whole, Agrees
<1> QED
  BY <1>1, <1>2, <1>3

(* A full-row upsert of such a copy keeps the first checks of the row.       *)
LEMMA UpsertKeeps ==
  ASSUME TypeOK, AbsentBlank, RowsWhole, NEW r \in Runs, NEW new \in RunRecord,
         CopyOK(new, row[r])
  PROVE  Whole(UpsertRow(r, new)) /\ Keeps(row[r], UpsertRow(r, new))
<1> DEFINE up == UpsertRow(r, new)
<1>1. Whole(row[r]) /\ row[r] \in RunRecord
  BY DEF RowsWhole, TypeOK
<1>2. CASE r \in stored
  <2>1. /\ up.timing = IF new.timing.state = "" THEN row[r].timing ELSE new.timing
        /\ up.region = IF new.region.state = "" THEN row[r].region ELSE new.region
    BY <1>2 DEF UpsertRow, Upserted, RunRecord
  <2> HIDE DEF up
  <2> QED
    BY <1>1, <2>1 DEF CopyOK, Whole, Agrees, TimingWhole, RegionWhole, Keeps, up
<1>3. CASE r \notin stored
  <2>1. row[r].timing.first = Never /\ row[r].region.first = Never
    BY <1>3, BlankFirsts DEF AbsentBlank
  <2> QED
    BY <1>3, <2>1 DEF UpsertRow, CopyOK, Agrees, Keeps
<1> QED
  BY <1>2, <1>3

(* A check sets the first-check time when it is blank and stores a whole     *)
(* group, as the copy it starts from is whole and not terminal.              *)
LEMMA TimingAfterWhole ==
  ASSUME now \in Nat, ClockOK, NEW t \in Timing, TimingWhole(t), ~TimingTerminal(t),
         NEW outcome \in AllTimingOutcomes
  PROVE  /\ TimingWhole(TimingAfter(t, outcome))
         /\ t.first \in {Never, TimingAfter(t, outcome).first}
<1> DEFINE first == FirstChecked(t.first)
           new == TimingAfter(t, outcome)
<1>1. first # Never /\ t.first \in {Never, first}
  BY DEF FirstChecked, ClockOK
<1>2. t.completed = FALSE
  BY DEF TimingWhole, TimingTerminal, Timing
<1>3. PendingOr("invalid", first) \in {"invalid", "pending"}
      /\ PendingOr("missing", first) \in {"missing", "pending"}
  BY DEF PendingOr
<1> HIDE DEF first
<1>4. new.first = first /\ new.state # "" /\ (new.completed <=> new.state = "found")
      /\ (new.completed => new.started)
  <2>1. CASE outcome = "missing"
    <3>1. new = [t EXCEPT !.state = PendingOr("missing", first), !.first = first]
      BY <2>1 DEF TimingAfter, first
    <3>2. new.first = first /\ new.completed = t.completed /\ new.state = PendingOr("missing", first)
      BY <3>1 DEF Timing
    <3> QED
      BY <1>2, <1>3, <3>2
  <2>2. CASE outcome # "missing"
    BY <1>3, <2>2 DEF TimingAfter, first
  <2> QED
    BY <2>1, <2>2
<1> QED
  BY <1>1, <1>4 DEF TimingWhole

LEMMA RegionAfterWhole ==
  ASSUME now \in Nat, ClockOK, NEW g \in Region, RegionWhole(g), ~RegionTerminal(g),
         NEW outcome \in AllRegionOutcomes
  PROVE  /\ RegionWhole(RegionAfter(g, outcome))
         /\ g.first \in {Never, RegionAfter(g, outcome).first}
<1> DEFINE first == FirstChecked(g.first)
           new == RegionAfter(g, outcome)
<1>1. first # Never /\ g.first \in {Never, first}
  BY DEF FirstChecked, ClockOK
<1>2. g.known = FALSE
  BY DEF RegionTerminal, Region
<1>3. PendingOr("invalid", first) \in {"invalid", "pending"}
      /\ PendingOr("missing", first) \in {"missing", "pending"}
  BY DEF PendingOr
<1> HIDE DEF first
<1>4. new.first = first /\ new.state # "" /\ (new.known <=> new.state = "found")
  <2>1. CASE outcome = "missing"
    <3>1. new = [g EXCEPT !.state = PendingOr("missing", first), !.first = first]
      BY <2>1 DEF RegionAfter, first
    <3>2. new.first = first /\ new.known = g.known /\ new.state = PendingOr("missing", first)
      BY <3>1 DEF Region
    <3> QED
      BY <1>2, <1>3, <3>2
  <2>2. CASE outcome # "missing"
    BY <1>3, <2>2 DEF RegionAfter, first
  <2> QED
    BY <2>1, <2>2
<1> QED
  BY <1>1, <1>4 DEF RegionWhole

LEMMA MetadataInit == Init => MetadataInv
<1> SUFFICES ASSUME Init PROVE MetadataInv
  OBVIOUS
<1>1. TypeOK /\ ClockOK /\ AbsentBlank
  <2>1. now = 1 /\ row = [r \in Runs |-> BlankRow]
    BY DEF Init
  <2> QED
    BY <2>1, InitTypeOK DEF ClockOK, AbsentBlank
<1>2. Whole(BlankRow)
  BY BlankCopyOK DEF CopyOK
<1>3. RowsWhole
  BY <1>2 DEF Init, RowsWhole
<1>4. SyncCopiesWhole /\ FactsCopiesWhole
  BY BlankCopyOK DEF Init, SyncCopiesWhole, FactsCopiesWhole, SyncIdle, FactsIdle
<1>5. MetaIdle.pc = "idle" /\ MetaIdle.row = BlankRow
  BY DEF MetaIdle
<1>6. MetaCopiesWhole /\ MetaStored
  BY <1>5, IdleJobOK DEF Init, MetaCopiesWhole, MetaStored
<1> QED
  BY <1>1, <1>3, <1>4, <1>6 DEF MetadataInv

(* A step that leaves the rows alone.                                         *)
LEMMA MetadataSameRows ==
  ASSUME MetadataInv, TypeOK', now' >= now, UNCHANGED <<stored, row>>,
         SyncCopiesWhole', FactsCopiesWhole', MetaCopiesWhole', MetaStored'
  PROVE  MetadataInv' /\ \A r \in Runs : Grows(row[r], row'[r])
<1>1. ClockOK'
  BY DEF MetadataInv, TypeOK, ClockOK
<1>2. AbsentBlank' /\ RowsWhole'
  BY DEF MetadataInv, AbsentBlank, RowsWhole
<1> QED
  BY <1>1, <1>2 DEF MetadataInv, Grows

LEMMA MetadataEnvironment ==
  ASSUME MetadataInv, Environment
  PROVE  MetadataInv' /\ \A r \in Runs : Grows(row[r], row'[r])
<1>1. TypeOK'
  BY EnvironmentTypeOK DEF MetadataInv
<1>2. UNCHANGED <<stored, row>> /\ now' >= now
  BY DEF Environment, Publish, Correct, PullChanges, AgeRun, Tick, Restart, world, MetadataInv,
         TypeOK
<1>3. CASE Restart
  <2>1. SyncCopiesWhole' /\ FactsCopiesWhole'
    BY <1>3, BlankCopyOK DEF Restart, SyncCopiesWhole, FactsCopiesWhole, SyncIdle, FactsIdle
  <2>2. MetaIdle.pc = "idle" /\ MetaIdle.row = BlankRow
    BY DEF MetaIdle
  <2>3. MetaCopiesWhole' /\ MetaStored'
    BY <1>3, <2>2, IdleJobOK DEF Restart, MetaCopiesWhole, MetaStored
  <2> QED
    BY <1>1, <1>2, <2>1, <2>3, MetadataSameRows
<1>4. CASE ~Restart
  <2>1. UNCHANGED <<sync, facts, meta>>
    BY <1>4 DEF Environment, Publish, Correct, PullChanges, AgeRun, Tick
  <2>2. SyncCopiesWhole' /\ FactsCopiesWhole' /\ MetaCopiesWhole' /\ MetaStored'
    BY <1>2, <2>1
    DEF MetadataInv, SyncCopiesWhole, FactsCopiesWhole, MetaCopiesWhole, MetaStored
  <2> QED
    BY <1>1, <1>2, <2>2, MetadataSameRows
<1> QED
  BY <1>3, <1>4

(* A step that upserts the rows of upserted keys.                             *)
LEMMA MetadataUpsert ==
  ASSUME MetadataInv, TypeOK', now' = now, NEW keys \in SUBSET Runs,
         stored' = stored \cup keys, meta' = meta,
         \A r \in Runs : IF r \in keys THEN Whole(row'[r]) /\ Keeps(row[r], row'[r])
                         ELSE row'[r] = row[r],
         \A s \in Sources, e \in Envs, r \in Runs :
           sync'[s][e].batch[r] \in {sync[s][e].batch[r], BlankRow},
         \A r \in Runs : facts'[r].row \in {facts[r].row, BlankRow}
  PROVE  MetadataInv' /\ \A r \in Runs : Grows(row[r], row'[r])
<1>1. \A r \in Runs : Keeps(row[r], row'[r]) /\ Whole(row'[r])
  BY DEF MetadataInv, RowsWhole, Keeps
<1>2. \A r \in Runs : Grows(row[r], row'[r])
  BY <1>1, KeepsGrows
<1>3. AbsentBlank' /\ RowsWhole' /\ ClockOK' /\ MetaStored'
  BY <1>1 DEF MetadataInv, AbsentBlank, RowsWhole, ClockOK, MetaStored
<1>4. SyncCopiesWhole'
  BY <1>2, CopyGrows, BlankCopyOK DEF MetadataInv, SyncCopiesWhole
<1>5. FactsCopiesWhole'
  BY <1>2, CopyGrows, BlankCopyOK DEF MetadataInv, FactsCopiesWhole
<1>6. MetaCopiesWhole'
  BY <1>1, JobKeeps DEF MetadataInv, MetaCopiesWhole
<1> QED
  BY <1>2, <1>3, <1>4, <1>5, <1>6 DEF MetadataInv

LEMMA MetadataSync ==
  ASSUME MetadataInv, NEW s \in Sources, NEW e \in Envs, SyncStep(s, e)
  PROVE  MetadataInv' /\ \A r \in Runs : Grows(row[r], row'[r])
<1>0. /\ TypeOK /\ TypeOK'
      /\ sync \in [Sources -> [Envs -> SyncType]] /\ sync[s][e] \in SyncType
  BY SyncTypeOK DEF MetadataInv, TypeOK, SyncType
<1>1. ASSUME NEW job, sync' = [sync EXCEPT ![s][e] = job],
             UNCHANGED <<world, stored, row, facts, meta>>,
             \A r \in Runs : CopyOK(job.batch[r], row[r])
      PROVE  MetadataInv' /\ \A r \in Runs : Grows(row[r], row'[r])
  <2>1. \A t \in Sources, f \in Envs :
          sync'[t][f] = IF t = s /\ f = e THEN job ELSE sync[t][f]
    BY <1>0, <1>1
  <2>2. SyncCopiesWhole'
    BY <1>1, <2>1 DEF MetadataInv, SyncCopiesWhole
  <2>3. FactsCopiesWhole' /\ MetaCopiesWhole' /\ MetaStored'
    BY <1>1 DEF MetadataInv, FactsCopiesWhole, MetaCopiesWhole, MetaStored
  <2>4. now' >= now
    BY <1>0, <1>1 DEF world, TypeOK
  <2> QED
    BY <1>0, <1>1, <2>2, <2>3, <2>4, MetadataSameRows
<1>2. \A r \in Runs : SyncIdle.batch[r] = BlankRow
  BY DEF SyncIdle
<1>3. CASE SyncList(s, e)
  <2> DEFINE listed == {r \in published[s] : EnvOf[r] = e /\ age[r] = "replay"}
             seen == [r \in Runs |-> IF r \in listed THEN report[s][r] ELSE BlankReport]
             job == [SyncIdle EXCEPT !.pc = "reading", !.todo = listed, !.seen = seen]
  <2>1. job.batch = SyncIdle.batch
    BY DEF SyncIdle
  <2>2. sync' = [sync EXCEPT ![s][e] = job] /\ UNCHANGED <<world, stored, row, facts, meta>>
    BY <1>3 DEF SyncList
  <2> HIDE DEF job
  <2> QED
    BY <1>1, <1>2, <2>1, <2>2, BlankCopyOK
<1>4. ASSUME NEW r \in Runs, SyncGet(s, e, r)
      PROVE  MetadataInv' /\ \A q \in Runs : Grows(row[q], row'[q])
  <2> DEFINE old == IF Found(s, r) THEN row[r] ELSE BlankRow
             new == Merged(s, r, old, Found(s, r), sync[s][e].seen[r])
             batch == [sync[s][e].batch EXCEPT ![r] = new]
             job == [sync[s][e] EXCEPT !.todo = sync[s][e].todo \ {r},
                                       !.done = sync[s][e].done \cup {r}, !.batch = batch]
  <2>1. old \in RunRecord /\ sync[s][e].seen[r] \in Report /\ Found(s, r) \in BOOLEAN
    BY <1>0, BlankTypes DEF SyncType, Found, TypeOK
  <2>2. CopyOK(row[r], row[r])
    BY DEF MetadataInv, RowsWhole, CopyOK, Agrees
  <2>3. CopyOK(old, row[r])
    BY <2>2, BlankCopyOK
  <2> HIDE DEF old
  <2>4. CopyOK(new, row[r])
    BY <2>1, <2>3, MergedWhole
  <2>5. sync' = [sync EXCEPT ![s][e] = job] /\ UNCHANGED <<world, stored, row, facts, meta>>
    BY <1>4 DEF SyncGet, old
  <2> HIDE DEF new
  <2>6. job.batch = batch
    BY <1>0 DEF SyncType
  <2>7. \A q \in Runs : batch[q] = IF q = r THEN new ELSE sync[s][e].batch[q]
    BY <1>0 DEF SyncType
  <2> HIDE DEF job, batch
  <2>8. \A q \in Runs : CopyOK(job.batch[q], row[q])
    BY <2>4, <2>6, <2>7 DEF MetadataInv, SyncCopiesWhole
  <2> QED
    BY <1>1, <2>5, <2>8
<1>5. CASE SyncUpsert(s, e)
  <2> DEFINE keys == sync[s][e].done
  <2>1. keys \in SUBSET Runs /\ \A r \in Runs : sync[s][e].batch[r] \in RunRecord
    BY <1>0 DEF SyncType
  <2>2. \A r \in Runs : LET up == UpsertRow(r, sync[s][e].batch[r])
                        IN  Whole(up) /\ Keeps(row[r], up)
    BY <1>0, <2>1, UpsertKeeps DEF MetadataInv, SyncCopiesWhole
  <2>3. \A r \in Runs : IF r \in keys THEN Whole(row'[r]) /\ Keeps(row[r], row'[r])
                        ELSE row'[r] = row[r]
    BY <1>5, <2>2 DEF SyncUpsert
  <2>4. /\ stored' = stored \cup keys /\ meta' = meta /\ facts' = facts /\ now' = now
        /\ sync' = [sync EXCEPT ![s][e] = SyncIdle]
    BY <1>5 DEF SyncUpsert, world
  <2>5. \A t \in Sources, f \in Envs :
          sync'[t][f] = IF t = s /\ f = e THEN SyncIdle ELSE sync[t][f]
    BY <1>0, <2>4
  <2>6. \A t \in Sources, f \in Envs, r \in Runs :
          sync'[t][f].batch[r] \in {sync[t][f].batch[r], BlankRow}
    BY <1>2, <2>5
  <2> HIDE DEF keys
  <2> QED
    BY <1>0, <2>1, <2>3, <2>4, <2>6, MetadataUpsert
<1>6. CASE SyncFail(s, e)
  BY <1>1, <1>2, <1>6, BlankCopyOK DEF SyncFail
<1> QED
  BY <1>3, <1>4, <1>5, <1>6 DEF SyncStep

LEMMA MetadataFacts ==
  ASSUME MetadataInv, NEW r \in Runs, FactsStep(r)
  PROVE  MetadataInv' /\ \A q \in Runs : Grows(row[q], row'[q])
<1>0. /\ TypeOK /\ TypeOK' /\ facts \in [Runs -> FactsType] /\ facts[r] \in FactsType
      /\ facts[r].row \in RunRecord /\ CopyOK(facts[r].row, row[r])
  BY FactsTypeOK DEF MetadataInv, TypeOK, FactsType, FactsCopiesWhole
<1>1. ASSUME NEW job, facts' = [facts EXCEPT ![r] = job],
             UNCHANGED <<world, stored, row, sync, meta>>, CopyOK(job.row, row[r])
      PROVE  MetadataInv' /\ \A q \in Runs : Grows(row[q], row'[q])
  <2>1. FactsCopiesWhole'
    BY <1>0, <1>1 DEF MetadataInv, FactsCopiesWhole
  <2>2. SyncCopiesWhole' /\ MetaCopiesWhole' /\ MetaStored'
    BY <1>1 DEF MetadataInv, SyncCopiesWhole, MetaCopiesWhole, MetaStored
  <2>3. now' >= now
    BY <1>0, <1>1 DEF world, TypeOK
  <2> QED
    BY <1>0, <1>1, <2>1, <2>2, <2>3, MetadataSameRows
<1>2. FactsIdle.row = BlankRow
  BY DEF FactsIdle
<1>3. CASE FactsEnqueue(r)
  <2>1. [facts[r] EXCEPT !.pc = "queued"].row = facts[r].row
    BY <1>0 DEF FactsType
  <2> QED
    BY <1>0, <1>1, <1>3, <2>1 DEF FactsEnqueue
<1>4. CASE FactsGet(r)
  <2> DEFINE job == IF r \in stored THEN [pc |-> "got", row |-> row[r]] ELSE FactsIdle
  <2>1. CopyOK(row[r], row[r])
    BY DEF MetadataInv, RowsWhole, CopyOK, Agrees
  <2>2. CopyOK(job.row, row[r])
    BY <1>2, <2>1, BlankCopyOK
  <2>3. facts' = [facts EXCEPT ![r] = job]
    BY <1>4 DEF FactsGet
  <2> QED
    BY <1>1, <1>4, <2>2, <2>3 DEF FactsGet
<1>5. CASE FactsReconcile(r)
  <2> DEFINE rec == facts[r].row
             signals == ReconciledSignals(r, rec)
             next == [rec EXCEPT !.signals = signals]
             job == IF SignalsEqual(signals, rec.signals) THEN FactsIdle
                    ELSE [pc |-> "write", row |-> next]
  <2>1. next.timing = rec.timing /\ next.region = rec.region
    BY <1>0 DEF RunRecord
  <2>2. facts' = [facts EXCEPT ![r] = job]
    BY <1>5 DEF FactsReconcile
  <2> HIDE DEF next, signals
  <2>3. CopyOK(next, row[r])
    BY <1>0, <2>1 DEF CopyOK, Whole, Agrees
  <2>4. CopyOK(job.row, row[r])
    BY <1>2, <2>3, BlankCopyOK
  <2> HIDE DEF job
  <2> QED
    BY <1>1, <1>5, <2>2, <2>4 DEF FactsReconcile
<1>6. CASE FactsUpsert(r)
  <2> DEFINE up == UpsertRow(r, facts[r].row)
  <2>1. Whole(up) /\ Keeps(row[r], up)
    BY <1>0, UpsertKeeps DEF MetadataInv
  <2>2. \A q \in Runs : IF q \in {r} THEN Whole(row'[q]) /\ Keeps(row[q], row'[q])
                        ELSE row'[q] = row[q]
    BY <1>0, <1>6, <2>1 DEF FactsUpsert, TypeOK
  <2>3. stored' = stored \cup {r} /\ meta' = meta /\ sync' = sync /\ now' = now
    BY <1>6 DEF FactsUpsert, world
  <2>4. \A q \in Runs : facts'[q].row \in {facts[q].row, BlankRow}
    BY <1>0, <1>2, <1>6 DEF FactsUpsert
  <2> QED
    BY <1>0, <2>2, <2>3, <2>4, MetadataUpsert
<1>7. CASE FactsFail(r)
  <2>1. [FactsIdle EXCEPT !.pc = "queued"].row = BlankRow
    BY DEF FactsIdle
  <2> QED
    BY <1>1, <1>7, <2>1, BlankCopyOK DEF FactsFail
<1> QED
  BY <1>3, <1>4, <1>5, <1>6, <1>7 DEF FactsStep

(* A step of the metadata controller: key r goes on to job, its row to cur.   *)
LEMMA MetadataJob ==
  ASSUME MetadataInv, TypeOK', NEW r \in Runs, NEW job, NEW cur,
         meta' = [meta EXCEPT ![r] = job], row' = [row EXCEPT ![r] = cur],
         UNCHANGED <<world, stored, sync, facts>>,
         Whole(cur), Grows(row[r], cur), MetaJobOK(job, cur),
         job.pc \in {"timing", "region"} => r \in stored,
         r \in stored \/ cur = row[r]
  PROVE  MetadataInv' /\ \A q \in Runs : Grows(row[q], row'[q])
<1>1. row \in [Runs -> RunRecord] /\ meta \in [Runs -> MetaType]
  BY DEF MetadataInv, TypeOK, MetaType
<1>2. \A q \in Runs : row'[q] = IF q = r THEN cur ELSE row[q]
  BY <1>1
<1>3. \A q \in Runs : meta'[q] = IF q = r THEN job ELSE meta[q]
  BY <1>1
<1>4. \A q \in Runs : Grows(row[q], row'[q])
  BY <1>2 DEF Grows
<1>5. AbsentBlank' /\ RowsWhole' /\ ClockOK'
  BY <1>2 DEF world, MetadataInv, AbsentBlank, RowsWhole, ClockOK
<1>6. SyncCopiesWhole' /\ FactsCopiesWhole'
  BY <1>4, CopyGrows DEF MetadataInv, SyncCopiesWhole, FactsCopiesWhole
<1>7. MetaCopiesWhole' /\ MetaStored'
  BY <1>2, <1>3 DEF MetadataInv, MetaCopiesWhole, MetaStored
<1> QED
  BY <1>4, <1>5, <1>6, <1>7 DEF MetadataInv

(* Once the timing is done, the job goes on with the region or is over.       *)
LEMMA AfterTimingOK ==
  ASSUME NEW r \in Runs, NEW cur, NEW err \in BOOLEAN, meta[r] \in MetaType,
         CopyOK(meta[r].row, cur), meta[r].pc = "timing",
         meta[r].region => /\ meta[r].row.region.first = cur.region.first
                           /\ ~RegionTerminal(meta[r].row.region)
  PROVE  MetaJobOK(AfterTiming(r, err), cur)
<1>1. CASE meta[r].region
  <2> DEFINE job == [meta[r] EXCEPT !.pc = "region", !.err = err]
  <2>1. job.pc = "region" /\ job.row = meta[r].row /\ AfterTiming(r, err) = job
    BY <1>1 DEF AfterTiming, MetaType
  <2> HIDE DEF job
  <2> QED
    BY <1>1, <2>1 DEF MetaJobOK, TimingJobOK, RegionJobOK
<1>2. CASE ~meta[r].region
  <2>1. AfterTiming(r, err) = MetaDone(err)
    BY <1>2 DEF AfterTiming
  <2>2. MetaDone(err).pc \in {"idle", "queued"} /\ MetaDone(err).row = BlankRow
    BY DEF MetaDone, MetaIdle
  <2> QED
    BY <2>1, <2>2, IdleJobOK
<1> QED
  BY <1>1, <1>2

LEMMA MetadataMeta ==
  ASSUME MetadataInv, NEW r \in Runs, MetaStep(r)
  PROVE  MetadataInv' /\ \A q \in Runs : Grows(row[q], row'[q])
<1>0. /\ TypeOK /\ TypeOK' /\ meta \in [Runs -> MetaType] /\ meta[r] \in MetaType
      /\ row \in [Runs -> RunRecord] /\ row[r] \in RunRecord /\ meta[r].row \in RunRecord
      /\ Whole(row[r]) /\ Whole(meta[r].row) /\ MetaJobOK(meta[r], row[r])
  BY MetaTypeOK DEF MetadataInv, TypeOK, MetaType, RowsWhole, MetaCopiesWhole, MetaJobOK, CopyOK
<1>1. ASSUME NEW job, meta' = [meta EXCEPT ![r] = job],
             UNCHANGED <<world, stored, row, sync, facts>>, MetaJobOK(job, row[r]),
             job.pc \in {"timing", "region"} => r \in stored
      PROVE  MetadataInv' /\ \A q \in Runs : Grows(row[q], row'[q])
  <2>1. row' = [row EXCEPT ![r] = row[r]] /\ Grows(row[r], row[r])
    BY <1>0, <1>1 DEF Grows
  <2> QED
    BY <1>0, <1>1, <2>1, MetadataJob
<1>2. \A err \in BOOLEAN : /\ MetaDone(err).pc \in {"idle", "queued"}
                           /\ MetaDone(err).row = BlankRow
                           /\ \A cur : MetaJobOK(MetaDone(err), cur)
  BY IdleJobOK DEF MetaDone, MetaIdle
<1>3. MetaIdle.pc = "idle" /\ MetaIdle.row = BlankRow
  BY DEF MetaIdle
<1>4. CASE MetaEnqueue(r)
  <2> DEFINE job == [meta[r] EXCEPT !.pc = "queued"]
  <2>1. job.pc = "queued" /\ job.row = meta[r].row
    BY <1>0 DEF MetaType
  <2>2. MetaJobOK(job, row[r])
    BY <1>0, <2>1 DEF MetaJobOK, TimingJobOK, RegionJobOK
  <2>3. meta' = [meta EXCEPT ![r] = job]
    BY <1>4 DEF MetaEnqueue
  <2> HIDE DEF job
  <2> QED
    BY <1>1, <1>4, <2>1, <2>2, <2>3 DEF MetaEnqueue
<1>5. CASE MetaGet(r)
  <2> DEFINE timing == r \in stored /\ ~TimingTerminal(row[r].timing)
             region == r \in stored /\ r \in RegionRuns /\ ~RegionTerminal(row[r].region)
             got == [pc |-> IF timing THEN "timing" ELSE "region", row |-> row[r],
                     region |-> region, err |-> FALSE]
             job == IF ~timing /\ ~region THEN MetaIdle ELSE got
  <2>1. meta' = [meta EXCEPT ![r] = job]
    BY <1>5 DEF MetaGet
  <2>2. CASE ~timing /\ ~region
    BY <1>1, <1>3, <1>5, <2>1, <2>2, IdleJobOK DEF MetaGet
  <2>3. CASE timing \/ region
    <3>1. CopyOK(row[r], row[r])
      BY <1>0 DEF CopyOK, Agrees
    <3>2. MetaJobOK(got, row[r])
      BY <2>3, <3>1 DEF MetaJobOK, TimingJobOK, RegionJobOK
    <3>3. r \in stored
      BY <2>3
    <3>4. job = got
      BY <2>3
    <3> HIDE DEF got, job
    <3> QED
      BY <1>1, <1>5, <2>1, <3>2, <3>3, <3>4 DEF MetaGet
  <2> QED
    BY <2>2, <2>3
<1>6. ASSUME NEW outcome \in TimingOutcomes, MetaTiming(r, outcome)
      PROVE  MetadataInv' /\ \A q \in Runs : Grows(row[q], row'[q])
  <2> DEFINE after == TimingAfter(meta[r].row.timing, outcome)
             cur == [row[r] EXCEPT !.timing = after]
             job == AfterTiming(r, FALSE)
  <2>1. /\ meta[r].pc = "timing" /\ r \in stored
        /\ meta' = [meta EXCEPT ![r] = job] /\ row' = [row EXCEPT ![r] = cur]
        /\ UNCHANGED <<world, stored, sync, facts>>
    BY <1>6 DEF MetaTiming, MetadataInv, MetaStored
  <2>2. /\ meta[r].row.timing \in Timing /\ TimingWhole(meta[r].row.timing)
        /\ ~TimingTerminal(meta[r].row.timing)
        /\ meta[r].row.timing.first = row[r].timing.first
    BY <1>0, <2>1 DEF RunRecord, Whole, MetaJobOK, TimingJobOK
  <2>3. TimingWhole(after) /\ row[r].timing.first \in {Never, after.first}
    BY <1>0, <2>2, TimingAfterWhole, BoundsAssumption DEF MetadataInv, TypeOK
  <2>4. cur.timing = after /\ cur.region = row[r].region
    BY <1>0 DEF RunRecord
  <2> HIDE DEF after, cur
  <2>5. Whole(cur) /\ Grows(row[r], cur)
    BY <1>0, <2>3, <2>4 DEF Whole, Grows
  <2>6. CopyOK(meta[r].row, cur)
    BY <1>0, <2>5, CopyGrows DEF MetaJobOK
  <2>7. MetaJobOK(job, cur)
    BY <1>0, <2>1, <2>4, <2>6, AfterTimingOK DEF MetaJobOK, RegionJobOK
  <2> QED
    BY <1>0, <2>1, <2>5, <2>7, MetadataJob
<1>7. CASE MetaTimingFails(r)
  <2>1. /\ meta[r].pc = "timing" /\ r \in stored
        /\ meta' = [meta EXCEPT ![r] = AfterTiming(r, TRUE)]
        /\ UNCHANGED <<world, stored, row, sync, facts>>
    BY <1>7 DEF MetaTimingFails, MetadataInv, MetaStored
  <2>2. MetaJobOK(AfterTiming(r, TRUE), row[r])
    BY <1>0, <2>1, AfterTimingOK DEF MetaJobOK, RegionJobOK
  <2> QED
    BY <1>1, <2>1, <2>2
<1>8. ASSUME NEW outcome \in RegionOutcomes, MetaRegion(r, outcome)
      PROVE  MetadataInv' /\ \A q \in Runs : Grows(row[q], row'[q])
  <2> DEFINE after == RegionAfter(meta[r].row.region, outcome)
             cur == [row[r] EXCEPT !.region = after]
             job == MetaDone(meta[r].err)
  <2>1. /\ meta[r].pc = "region" /\ r \in stored
        /\ meta' = [meta EXCEPT ![r] = job] /\ row' = [row EXCEPT ![r] = cur]
        /\ UNCHANGED <<world, stored, sync, facts>>
    BY <1>8 DEF MetaRegion, MetadataInv, MetaStored
  <2>2. /\ meta[r].row.region \in Region /\ RegionWhole(meta[r].row.region)
        /\ ~RegionTerminal(meta[r].row.region)
        /\ meta[r].row.region.first = row[r].region.first
    BY <1>0, <2>1 DEF RunRecord, Whole, MetaJobOK, RegionJobOK
  <2>3. RegionWhole(after) /\ row[r].region.first \in {Never, after.first}
    BY <1>0, <2>2, RegionAfterWhole, BoundsAssumption DEF MetadataInv, TypeOK
  <2>4. cur.region = after /\ cur.timing = row[r].timing
    BY <1>0 DEF RunRecord
  <2> HIDE DEF after, cur
  <2>5. Whole(cur) /\ Grows(row[r], cur)
    BY <1>0, <2>3, <2>4 DEF Whole, Grows
  <2>6. meta[r].err \in BOOLEAN
    BY <1>0 DEF MetaType
  <2> QED
    BY <1>0, <1>2, <2>1, <2>5, <2>6, MetadataJob
<1>9. CASE MetaRegionFails(r)
  BY <1>1, <1>2, <1>9 DEF MetaRegionFails
<1> QED
  BY <1>4, <1>5, <1>6, <1>7, <1>8, <1>9 DEF MetaStep

LEMMA MetadataNext ==
  ASSUME MetadataInv, [Next]_vars
  PROVE  MetadataInv' /\ \A r \in Runs : Grows(row[r], row'[r])
<1>1. CASE UNCHANGED vars
  <2>1. TypeOK' /\ now' >= now
    BY <1>1 DEF vars, world, TypeOK, MetadataInv
  <2>2. SyncCopiesWhole' /\ FactsCopiesWhole' /\ MetaCopiesWhole' /\ MetaStored'
    BY <1>1 DEF vars, MetadataInv, SyncCopiesWhole, FactsCopiesWhole, MetaCopiesWhole, MetaStored
  <2> QED
    BY <1>1, <2>1, <2>2, MetadataSameRows DEF vars
<1> QED
  BY <1>1, MetadataEnvironment, MetadataSync, MetadataFacts, MetadataMeta DEF Next

(* Every stored row has whole metadata groups, whatever stale copies Prow and *)
(* facts.runs upsert between the column updates of the metadata controller.   *)
THEOREM MetadataAlwaysWhole == Spec => []MetadataGroupsWhole
<1>1. MetadataInv => MetadataGroupsWhole
  BY DEF MetadataInv, RowsWhole, Whole, MetadataGroupsWhole, TypeOK
<1> QED
  BY <1>1, MetadataInit, MetadataNext, PTL DEF Spec

(* The first check of a row never moves, so its retry window does close.      *)
THEOREM FirstCheckNeverMoves == Spec => FirstCheckedFixed
<1>1. MetadataInv /\ [Next]_vars =>
        [\A r \in stored :
           /\ row[r].timing.first # Never => row'[r].timing.first = row[r].timing.first
           /\ row[r].region.first # Never => row'[r].region.first = row[r].region.first]_vars
  BY MetadataNext DEF MetadataInv, TypeOK, Grows
<1> QED
  BY <1>1, MetadataInit, MetadataNext, PTL DEF Spec, FirstCheckedFixed
=============================================================================
