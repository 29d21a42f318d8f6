--------------------------- MODULE Sources_proofs ---------------------------
(* Each of the four sources and start-ups of MCSources by itself, for any      *)
(* runs, jobs, processes, releases, pull requests, workers, days and filters,  *)
(* and at the end all of them together.                                        *)
EXTENDS MCSources, FiniteSetTheorems, TLAPS

-----------------------------------------------------------------------------
(* The run sources: types.                                                     *)

SyncType ==
  [pc: {"ended", "listing", "snapshot", "listed", "stored"}, at: Nat,
   base: Times, since: Int, todo: SUBSET Jobs, got: SUBSET Runs]

LEMMA SyncTyped ==
  ASSUME NEW pc \in {"ended", "listing", "snapshot", "listed", "stored"}, NEW at \in Nat,
         NEW base \in Times, NEW since \in Int, NEW todo \in SUBSET Jobs, NEW got \in SUBSET Runs
  PROVE  Sync(pc, at, base, since, todo, got) \in SyncType
BY DEF Sync, SyncType

LEMMA SyncReplaced ==
  ASSUME TypeOK, NEW p \in Syncs, NEW new \in SyncType, sync' = [sync EXCEPT ![p] = new]
  PROVE  sync' \in [Syncs -> SyncType]
BY DEF TypeOK, SyncType

LEMMA EndedType == Ended \in SyncType
BY DEF Ended, Sync, SyncType, Times

(* The remainder of a division by a positive number; a sync looks back to a     *)
(* time not later than the one it means.                                       *)
LEMMA TruncatedBefore ==
  ASSUME NEW t \in Int
  PROVE  Truncated(t) \in Int /\ Truncated(t) <= t
<1>1. t % Hour \in 0..(Hour - 1)
  BY IngestAssumption
<1> QED
  BY <1>1, IngestAssumption DEF Truncated

LEMMA SinceType ==
  ASSUME TypeOK, NEW base \in Times
  PROVE  Since(base) \in Int
<1>1. Window[source] \in Nat /\ Replay[source] \in Nat /\ now \in Nat
  BY IngestAssumption DEF TypeOK
<1>2. now - Window[source] \in Int /\ (base # NoTime => base - Replay[source] \in Int)
  BY <1>1 DEF Times
<1> QED
  BY <1>2, TruncatedBefore DEF Since, Later

LEMMA TypeStep == TypeOK /\ [Next]_vars => TypeOK'
<1> SUFFICES ASSUME TypeOK, [Next]_vars
             PROVE  TypeOK'
  OBVIOUS
<1> USE IngestAssumption DEF TypeOK, Times
<1>1. CASE Tick
  BY <1>1 DEF Tick
<1>2. ASSUME NEW r \in Runs, Start(r)
      PROVE  TypeOK'
  BY <1>2 DEF Start
<1>3. ASSUME NEW r \in Runs, Publish(r)
      PROVE  TypeOK'
  BY <1>3 DEF Publish
<1>4. ASSUME NEW r \in Runs, StoreOne(r)
      PROVE  TypeOK'
  BY <1>4 DEF StoreOne
<1>5. ASSUME NEW p \in Syncs, SyncStep(p)
      PROVE  TypeOK'
  <2> DEFINE s == sync[p]
  <2>0. /\ sync \in [Syncs -> SyncType]
        /\ s.at \in Nat /\ s.base \in Times /\ s.since \in Int /\ s.todo \subseteq Jobs
        /\ s.got \subseteq Runs
    BY DEF SyncType
  <2>1. ASSUME sync' \in [Syncs -> SyncType], UNCHANGED <<source, now, started, published>>,
               stored' \subseteq Runs \ Unmappable[source], checkpoint' \in Times
        PROVE  TypeOK'
    BY <2>1 DEF SyncType
  <2> HIDE DEF s
  <2>2. CASE SippyBegin(p)
    <3>1. Sync("listing", now, checkpoint, Since(checkpoint), Jobs, {}) \in SyncType
      BY SinceType, SyncTyped
    <3> QED
      BY <2>1, <2>2, <3>1, SyncReplaced DEF SippyBegin
  <2>3. ASSUME NEW j \in Jobs, SippyList(p, j)
        PROVE  TypeOK'
    <3> DEFINE got == s.got \cup Listed(s.since, {j})
    <3>1. got \subseteq Runs
      BY <2>0 DEF Listed
    <3> HIDE DEF got
    <3>2. /\ Sync("listed", s.at, s.base, 0, {}, got) \in SyncType
          /\ Sync("listing", s.at, s.base, s.since, s.todo \ {j}, got) \in SyncType
      BY <2>0, <3>1 DEF Sync, SyncType
    <3>3. \/ sync' = [sync EXCEPT ![p] = Sync("listed", s.at, s.base, 0, {}, got)]
          \/ sync' = [sync EXCEPT ![p] =
                        Sync("listing", s.at, s.base, s.since, s.todo \ {j}, got)]
      BY <2>3 DEF SippyList, got, s
    <3>4. UNCHANGED <<source, now, started, published, stored, checkpoint>>
      BY <2>3 DEF SippyList
    <3>5. sync' \in [Syncs -> SyncType]
      BY <3>2, <3>3, SyncReplaced
    <3> QED
      BY <2>1, <3>4, <3>5
  <2>4. CASE ProwBegin(p)
    <3>1. Sync("snapshot", now, NoTime, 0, {}, {r \in Runs : published[r] # NoTime}) \in SyncType
      BY DEF Sync, SyncType
    <3> QED
      BY <2>1, <2>4, <3>1, SyncReplaced DEF ProwBegin
  <2>5. CASE ProwFilter(p)
    <3> DEFINE got == {r \in s.got : Covers(Since(checkpoint), r)}
    <3>1. got \subseteq Runs
      BY <2>0
    <3> HIDE DEF got
    <3>2. Sync("listed", s.at, checkpoint, 0, {}, got) \in SyncType
      BY <2>0, <3>1 DEF Sync, SyncType
    <3>3. sync' = [sync EXCEPT ![p] = Sync("listed", s.at, checkpoint, 0, {}, got)]
      BY <2>5 DEF ProwFilter, got, s
    <3>4. UNCHANGED <<source, now, started, published, stored, checkpoint>>
      BY <2>5 DEF ProwFilter
    <3>5. sync' \in [Syncs -> SyncType]
      BY <3>2, <3>3, SyncReplaced
    <3> QED
      BY <2>1, <3>4, <3>5
  <2>6. CASE StoreRuns(p)
    <3>1. Sync("stored", 0, s.base, 0, {}, s.got) \in SyncType
      BY <2>0 DEF Sync, SyncType
    <3>2. sync' = [sync EXCEPT ![p] = Sync("stored", 0, s.base, 0, {}, s.got)]
      BY <2>6 DEF StoreRuns, s
    <3>3. stored' \subseteq Runs \ Unmappable[source]
      BY <2>0, <2>6 DEF StoreRuns, s
    <3>4. UNCHANGED <<source, now, started, published, checkpoint>>
      BY <2>6 DEF StoreRuns
    <3>5. sync' \in [Syncs -> SyncType]
      BY <3>1, <3>2, SyncReplaced
    <3> QED
      BY <2>1, <3>3, <3>4, <3>5
  <2>7. CASE MoveCheckpoint(p)
    <3>1. \A base \in Times, runs \in SUBSET Runs : NextCheckpoint(base, runs) \subseteq Times
      BY DEF NextCheckpoint
    <3>2. Counted(s.got) \subseteq Runs
      BY <2>0 DEF Counted
    <3>3. checkpoint' \in Times
      BY <2>0, <2>7, <3>1, <3>2 DEF MoveCheckpoint, s
    <3> QED
      BY <2>1, <2>7, <3>3, EndedType, SyncReplaced DEF MoveCheckpoint
  <2>8. CASE Abort(p)
    BY <2>1, <2>8, EndedType, SyncReplaced DEF Abort
  <2> QED
    BY <1>5, <2>2, <2>3, <2>4, <2>5, <2>6, <2>7, <2>8 DEF SyncStep
<1>6. CASE UNCHANGED vars
  BY <1>6 DEF vars
<1> QED
  BY <1>1, <1>2, <1>3, <1>4, <1>5, <1>6 DEF Next

(* Every variable keeps its type; runs without a URL are never stored.         *)
THEOREM IngestTypesCorrect == Spec => []TypeOK
<1>1. Init => TypeOK
  BY IngestAssumption, EndedType DEF Init, TypeOK, Times, SyncType
<1> QED
  BY <1>1, TypeStep, PTL DEF Spec

-----------------------------------------------------------------------------
(* The run sources: the invariant.                                             *)

(* A run is not published before it started, and no time is in the future.     *)
TimesRight ==
  /\ \A r \in Runs : published[r] # NoTime => started[r] # NoTime /\ published[r] <= now
  /\ \A r \in Runs : started[r] # NoTime => started[r] <= now

(* With v as its checkpoint a sync looks back far enough.                      *)
Reached(v) == \A r \in Runs : Expected(r) /\ ~ Covers(v - Replay[source], r) => r \in stored

CheckpointRight == checkpoint # NoTime => checkpoint <= now /\ Reached(checkpoint)

(* The checkpoint a sync has read may be written back.                         *)
BaseRight(p) ==
  sync[p].pc \in {"listing", "listed", "stored"} /\ sync[p].base # NoTime
    => sync[p].base <= now /\ Reached(sync[p].base)

(* What Sippy is not asked for is stored or too old.                           *)
SinceRight(p) ==
  sync[p].pc = "listing" =>
    /\ now <= sync[p].at + MaxListing
    /\ \/ sync[p].base # NoTime /\ sync[p].since <= sync[p].base - Replay[source]
       \/ sync[p].since <= now - Window[source]

(* The start of a listed run may become the checkpoint once it is stored.      *)
GotRight(p) ==
  /\ sync[p].pc \in {"listing", "snapshot", "listed"} =>
       /\ sync[p].at <= now
       /\ \A g \in sync[p].got : started[g] # NoTime /\ started[g] <= sync[p].at + MaxListing
  /\ sync[p].pc = "stored" => \A g \in sync[p].got : started[g] # NoTime /\ Reached(started[g])

(* An expected run is listed, stored, still to be listed, or was published     *)
(* since the listing began.                                                    *)
FoundRight(p) ==
  sync[p].pc \in {"listing", "snapshot", "listed"} =>
    \A r \in Runs : Expected(r) =>
      \/ r \in sync[p].got \cup stored
      \/ sync[p].pc = "listing" /\ JobOf[r] \in sync[p].todo
      \/ published[r] >= sync[p].at

SyncRight(p) == BaseRight(p) /\ SinceRight(p) /\ GotRight(p) /\ FoundRight(p)

IngestInv == TypeOK /\ TimesRight /\ CheckpointRight /\ \A p \in Syncs : SyncRight(p)

-----------------------------------------------------------------------------
(* What every step leaves alone: starts stay, stored runs stay, and a run is    *)
(* expected anew only when it is published, soon after it started.             *)

Steady ==
  /\ source' = source /\ stored \subseteq stored' /\ now <= now'
  /\ \A r \in Runs : started[r] # NoTime => started'[r] = started[r]
  /\ \A r \in Runs : Expected(r)' =>
       /\ started[r] # NoTime
       /\ \/ Expected(r) /\ published'[r] = published[r]
          \/ published'[r] = now /\ Covers(now - (Replay[source] - MaxListing), r)

LEMMA SteadyStep == TypeOK /\ TimesRight /\ [Next]_vars => Steady
<1> SUFFICES ASSUME TypeOK, TimesRight, [Next]_vars
             PROVE  Steady
  OBVIOUS
<1> USE IngestAssumption DEF TypeOK, Times
<1>0. ASSUME UNCHANGED <<source, now, started, published>>, stored \subseteq stored'
      PROVE  Steady
  BY <1>0 DEF Steady, TimesRight, Expected, Prompt, InWindow, Covers
<1>1. CASE Tick
  BY <1>1 DEF Tick, Steady, TimesRight, Expected, Prompt, InWindow, Covers
<1>2. ASSUME NEW r \in Runs, Start(r)
      PROVE  Steady
  BY <1>2 DEF Start, Steady, TimesRight, Expected, Prompt, InWindow, Covers
<1>3. ASSUME NEW r \in Runs, Publish(r)
      PROVE  Steady
  BY <1>3 DEF Publish, Steady, TimesRight, Expected, Prompt, InWindow, Covers
<1>4. ASSUME NEW r \in Runs, StoreOne(r)
      PROVE  Steady
  BY <1>0, <1>4 DEF StoreOne
<1>5. ASSUME NEW p \in Syncs, SyncStep(p)
      PROVE  Steady
  BY <1>0, <1>5
  DEF SyncStep, SippyBegin, SippyList, ProwBegin, ProwFilter, StoreRuns, MoveCheckpoint, Abort
<1>6. CASE UNCHANGED vars
  BY <1>0, <1>6 DEF vars
<1> QED
  BY <1>1, <1>2, <1>3, <1>4, <1>5, <1>6 DEF Next

LEMMA TimesStep == TypeOK /\ TimesRight /\ [Next]_vars => TimesRight'
<1> SUFFICES ASSUME TypeOK, TimesRight, [Next]_vars
             PROVE  TimesRight'
  OBVIOUS
<1> USE IngestAssumption DEF TypeOK, Times
<1>0. ASSUME UNCHANGED <<now, started, published>>
      PROVE  TimesRight'
  BY <1>0 DEF TimesRight
<1>1. CASE Tick
  BY <1>1 DEF Tick, TimesRight
<1>2. ASSUME NEW r \in Runs, Start(r)
      PROVE  TimesRight'
  BY <1>2 DEF Start, TimesRight
<1>3. ASSUME NEW r \in Runs, Publish(r)
      PROVE  TimesRight'
  BY <1>3 DEF Publish, TimesRight
<1>4. ASSUME NEW r \in Runs, StoreOne(r)
      PROVE  TimesRight'
  BY <1>0, <1>4 DEF StoreOne
<1>5. ASSUME NEW p \in Syncs, SyncStep(p)
      PROVE  TimesRight'
  BY <1>0, <1>5
  DEF SyncStep, SippyBegin, SippyList, ProwBegin, ProwFilter, StoreRuns, MoveCheckpoint, Abort
<1>6. CASE UNCHANGED vars
  BY <1>0, <1>6 DEF vars
<1> QED
  BY <1>1, <1>2, <1>3, <1>4, <1>5, <1>6 DEF Next

(* Covers and Reached, of the next state.                                      *)
CoversNext(since, r) ==
  IF source' = "sippy" THEN started'[r] > since ELSE started'[r] >= since

ReachedNext(v) ==
  \A r \in Runs : Expected(r)' /\ ~ CoversNext(v - Replay[source'], r) => r \in stored'

(* A time that was reached stays so: what is published now started too late to  *)
(* be before it.                                                               *)
LEMMA ReachedKept ==
  TypeOK /\ TimesRight /\ Steady =>
    \A v \in Nat : v <= now /\ Reached(v) => ReachedNext(v)
<1> SUFFICES ASSUME TypeOK, TimesRight, Steady, NEW v \in Nat, v <= now, Reached(v),
                    NEW r \in Runs, Expected(r)', ~ CoversNext(v - Replay[source'], r)
             PROVE  r \in stored'
  BY DEF ReachedNext
<1>1. /\ started[r] \in Nat /\ started'[r] = started[r] /\ source' = source
      /\ now \in Nat /\ Replay[source] \in Nat /\ MaxListing \in Nat
  BY IngestAssumption DEF Steady, TypeOK, Times
<1>2. ~ Covers(v - Replay[source], r)
  BY <1>1 DEF Covers, CoversNext
<1>3. CASE Expected(r)
  BY <1>1, <1>2, <1>3 DEF Reached, Steady
<1>4. CASE Covers(now - (Replay[source] - MaxListing), r)
  BY <1>1, <1>2, <1>4 DEF Covers
<1> QED
  BY <1>3, <1>4 DEF Steady

(* A sync that a step leaves alone stays right.                                *)
LEMMA SyncKept ==
  ASSUME TypeOK, TimesRight, Steady, NEW p \in Syncs, SyncRight(p), sync'[p] = sync[p],
         sync[p].pc = "listing" => now' <= sync[p].at + MaxListing, now' \in Nat
  PROVE  SyncRight(p)'
<1>1. /\ source' = source /\ now \in Nat /\ now <= now' /\ stored \subseteq stored'
      /\ Replay[source] \in Nat /\ Window[source] \in Nat /\ MaxListing \in Nat
      /\ sync[p].at \in Nat /\ sync[p].base \in Times /\ sync[p].since \in Int
      /\ sync[p].got \subseteq Runs
      /\ sync[p].pc \in {"ended", "listing", "snapshot", "listed", "stored"}
  BY IngestAssumption DEF TypeOK, Steady
<1>2. \A v \in Nat : v <= now /\ Reached(v) => ReachedNext(v)
  BY ReachedKept
<1>3. \A r \in Runs : started[r] # NoTime =>
        started'[r] = started[r] /\ started[r] \in Nat /\ started[r] <= now
  BY DEF Steady, TimesRight, TypeOK, Times
<1>4. BaseRight(p)'
  BY <1>1, <1>2 DEF SyncRight, BaseRight, Reached, ReachedNext, Covers, CoversNext, Times
<1>5. SinceRight(p)'
  BY <1>1 DEF SyncRight, SinceRight, Times
<1>6. GotRight(p)'
  <2>1. CASE sync[p].pc \in {"listing", "snapshot", "listed"}
    BY <1>1, <1>3, <2>1 DEF SyncRight, GotRight
  <2>2. CASE sync[p].pc = "stored"
    <3>1. \A g \in sync[p].got : started'[g] # NoTime /\ ReachedNext(started'[g])
      BY <1>1, <1>2, <1>3, <2>2, IngestAssumption DEF SyncRight, GotRight
    <3> QED
      BY <1>1, <2>2, <3>1 DEF GotRight, Reached, ReachedNext, Covers, CoversNext
  <2>3. CASE sync[p].pc = "ended"
    BY <2>3 DEF GotRight
  <2> QED
    BY <1>1, <2>1, <2>2, <2>3
<1>7. FoundRight(p)'
  <2> SUFFICES ASSUME sync[p].pc \in {"listing", "snapshot", "listed"},
                      NEW r \in Runs, Expected(r)'
               PROVE  \/ r \in sync[p].got \cup stored'
                      \/ sync[p].pc = "listing" /\ JobOf[r] \in sync[p].todo
                      \/ published'[r] >= sync[p].at
    BY DEF FoundRight
  <2>1. CASE Expected(r) /\ published'[r] = published[r]
    BY <1>1, <2>1 DEF SyncRight, FoundRight
  <2>2. CASE published'[r] = now
    BY <1>1, <2>2 DEF SyncRight, GotRight
  <2> QED
    BY <2>1, <2>2 DEF Steady
<1> QED
  BY <1>4, <1>5, <1>6, <1>7 DEF SyncRight

-----------------------------------------------------------------------------
(* The steps of a sync.                                                        *)

(* Who looks back further covers more.                                         *)
LEMMA CoversMore ==
  ASSUME NEW since \in Int, NEW t \in Int, since <= t, NEW r \in Runs, started[r] \in Nat,
         Covers(t, r)
  PROVE  Covers(since, r)
BY DEF Covers

(* A sync looks back behind its checkpoint by the replay, or over the window.   *)
LEMMA SinceBefore ==
  ASSUME TypeOK, NEW base \in Times
  PROVE  /\ Since(base) \in Int
         /\ base = NoTime => Since(base) <= now - Window[source]
         /\ base # NoTime => \/ Since(base) <= base - Replay[source]
                             \/ source # "sippy" /\ Since(base) <= now - Window[source]
<1>1. Window[source] \in Nat /\ Replay[source] \in Nat /\ now \in Nat
  BY IngestAssumption DEF TypeOK
<1>2. now - Window[source] \in Int /\ (base # NoTime => base - Replay[source] \in Int)
  BY <1>1 DEF Times
<1> QED
  BY <1>2, TruncatedBefore, SinceType DEF Since, Later

LEMMA SyncFields ==
  ASSUME NEW pc, NEW at, NEW base, NEW since, NEW todo, NEW got
  PROVE  /\ Sync(pc, at, base, since, todo, got).pc = pc
         /\ Sync(pc, at, base, since, todo, got).at = at
         /\ Sync(pc, at, base, since, todo, got).base = base
         /\ Sync(pc, at, base, since, todo, got).since = since
         /\ Sync(pc, at, base, since, todo, got).todo = todo
         /\ Sync(pc, at, base, since, todo, got).got = got
BY DEF Sync

LEMMA EndedRight ==
  ASSUME NEW p \in Syncs, sync'[p] = Ended
  PROVE  SyncRight(p)'
BY DEF Ended, Sync, SyncRight, BaseRight, SinceRight, GotRight, FoundRight

LEMMA SippyBeginRight ==
  ASSUME IngestInv, NEW p \in Syncs, SippyBegin(p)
  PROVE  SyncRight(p)'
<1>1. /\ checkpoint \in Times /\ now \in Nat /\ MaxListing \in Nat
      /\ JobOf \in [Runs -> Jobs]
      /\ source = "sippy"
      /\ UNCHANGED <<source, now, started, published, stored, checkpoint>>
  BY IngestAssumption DEF IngestInv, TypeOK, SippyBegin
<1>2. sync'[p] = Sync("listing", now, checkpoint, Since(checkpoint), Jobs, {})
  BY DEF SippyBegin, IngestInv, TypeOK
<1>3. /\ sync'[p].pc = "listing" /\ sync'[p].at = now /\ sync'[p].base = checkpoint
      /\ sync'[p].since = Since(checkpoint) /\ sync'[p].todo = Jobs /\ sync'[p].got = {}
  BY <1>2 DEF Sync
<1>4. BaseRight(p)'
  BY <1>1, <1>3
  DEF IngestInv, CheckpointRight, BaseRight, Reached, Expected, Prompt, InWindow, Covers
<1>5. SinceRight(p)'
  BY <1>1, <1>3, SinceBefore DEF IngestInv, SinceRight
<1>6. GotRight(p)'
  BY <1>1, <1>3 DEF GotRight
<1>7. FoundRight(p)'
  BY <1>1, <1>3 DEF FoundRight
<1> QED
  BY <1>4, <1>5, <1>6, <1>7 DEF SyncRight

LEMMA SippyListRight ==
  ASSUME IngestInv, NEW p \in Syncs, NEW j \in Jobs, SippyList(p, j)
  PROVE  SyncRight(p)'
<1> DEFINE s == sync[p]
           got == s.got \cup Listed(s.since, {j})
<1>1. /\ source' = source /\ now' = now /\ started' = started /\ published' = published
      /\ stored' = stored /\ checkpoint' = checkpoint
      /\ s.pc = "listing" /\ j \in s.todo
      /\ s.at \in Nat /\ s.base \in Times /\ s.since \in Int /\ s.todo \subseteq Jobs
      /\ s.got \subseteq Runs /\ now \in Nat /\ MaxListing \in Nat
      /\ Window[source] \in Nat /\ Replay[source] \in Nat
  BY IngestAssumption DEF IngestInv, TypeOK, SippyList
<1>2. \A r \in Runs : started[r] \in Times /\ (started[r] # NoTime => started[r] <= now)
                      /\ (published[r] # NoTime => started[r] # NoTime)
  BY DEF IngestInv, TypeOK, TimesRight
<1>3. BaseRight(p) /\ SinceRight(p) /\ GotRight(p) /\ FoundRight(p)
  BY DEF IngestInv, SyncRight
<1>4. \/ /\ sync'[p] = Sync("listed", s.at, s.base, 0, {}, got) /\ s.todo = {j}
      \/ sync'[p] = Sync("listing", s.at, s.base, s.since, s.todo \ {j}, got)
  BY DEF SippyList, IngestInv, TypeOK
<1>5. /\ sync'[p].at = s.at /\ sync'[p].base = s.base /\ sync'[p].got = got
      /\ \/ sync'[p].pc = "listed" /\ s.todo = {j}
         \/ sync'[p].pc = "listing" /\ sync'[p].since = s.since /\ sync'[p].todo = s.todo \ {j}
  <2> HIDE DEF got, s
  <2> QED
    BY <1>4 DEF Sync
<1>6. BaseRight(p)'
  BY <1>1, <1>3, <1>5 DEF BaseRight, Reached, Expected, Prompt, InWindow, Covers
<1>7. SinceRight(p)'
  BY <1>1, <1>3, <1>5 DEF SinceRight
<1>8. \A g \in got : started[g] # NoTime /\ started[g] <= s.at + MaxListing
  <2>1. \A g \in Listed(s.since, {j}) : g \in Runs /\ published[g] # NoTime
    BY DEF Listed
  <2> QED
    BY <1>1, <1>2, <1>3, <2>1, IngestAssumption DEF GotRight, SinceRight, Times
<1>9. GotRight(p)'
  BY <1>1, <1>3, <1>5, <1>8 DEF GotRight
<1>10. \A r \in Runs : Expected(r) /\ JobOf[r] = j => r \in got \cup stored
  <2> SUFFICES ASSUME NEW r \in Runs, Expected(r), JobOf[r] = j, ~ Covers(s.since, r)
               PROVE  r \in stored
    BY <1>1, <1>2 DEF Listed, Expected, Prompt, Times
  <2>1. started[r] \in Nat
    BY <1>2 DEF Expected, Prompt, Times
  <2>2. CASE s.base # NoTime /\ s.since <= s.base - Replay[source]
    BY <1>1, <1>3, <2>1, <2>2, CoversMore DEF BaseRight, Reached, Times
  <2>3. CASE s.since <= now - Window[source]
    BY <1>1, <2>1, <2>3, CoversMore DEF Expected, InWindow
  <2> QED
    BY <1>1, <1>3, <2>2, <2>3 DEF SinceRight
<1>11. FoundRight(p)'
  <2> SUFFICES ASSUME NEW r \in Runs, Expected(r)
               PROVE  \/ r \in got \cup stored
                      \/ JobOf[r] # j /\ JobOf[r] \in s.todo
                      \/ published[r] >= s.at
    BY <1>1, <1>5 DEF FoundRight, Expected, Prompt, InWindow, Covers
  <2> QED
    BY <1>1, <1>3, <1>10 DEF FoundRight
<1> QED
  BY <1>6, <1>7, <1>9, <1>11 DEF SyncRight

LEMMA ProwBeginRight ==
  ASSUME IngestInv, NEW p \in Syncs, ProwBegin(p)
  PROVE  SyncRight(p)'
<1> DEFINE got == {r \in Runs : published[r] # NoTime}
<1>1. /\ UNCHANGED <<source, now, started, published, stored, checkpoint>>
      /\ now \in Nat /\ MaxListing \in Nat
  BY IngestAssumption DEF IngestInv, TypeOK, ProwBegin
<1>2. /\ sync'[p].pc = "snapshot" /\ sync'[p].at = now /\ sync'[p].got = got
  <2>1. sync'[p] = Sync("snapshot", now, NoTime, 0, {}, got)
    BY DEF ProwBegin, IngestInv, TypeOK
  <2> HIDE DEF got
  <2> QED
    BY <2>1 DEF Sync
<1>3. BaseRight(p)' /\ SinceRight(p)'
  BY <1>2 DEF BaseRight, SinceRight
<1>4. \A g \in got : started[g] # NoTime /\ started[g] <= now + MaxListing
  BY <1>1, IngestAssumption DEF IngestInv, TypeOK, TimesRight, Times
<1>5. GotRight(p)'
  BY <1>1, <1>2, <1>4 DEF GotRight
<1>6. FoundRight(p)'
  BY <1>1, <1>2 DEF FoundRight, Expected, Prompt
<1> QED
  BY <1>3, <1>5, <1>6 DEF SyncRight

LEMMA ProwFilterRight ==
  ASSUME IngestInv, NEW p \in Syncs, ProwFilter(p)
  PROVE  SyncRight(p)'
<1> DEFINE s == sync[p]
           got == {r \in s.got : Covers(Since(checkpoint), r)}
<1>1. /\ source' = source /\ now' = now /\ started' = started /\ published' = published
      /\ stored' = stored /\ checkpoint' = checkpoint
      /\ s.pc = "snapshot" /\ s.at \in Nat /\ s.got \subseteq Runs
      /\ checkpoint \in Times /\ now \in Nat /\ MaxListing \in Nat
      /\ Window[source] \in Nat /\ Replay[source] \in Nat
  BY IngestAssumption DEF IngestInv, TypeOK, ProwFilter
<1>2. GotRight(p) /\ FoundRight(p)
  BY DEF IngestInv, SyncRight
<1>3. /\ sync'[p].pc = "listed" /\ sync'[p].at = s.at /\ sync'[p].base = checkpoint
      /\ sync'[p].got = got
  <2>1. sync'[p] = Sync("listed", s.at, checkpoint, 0, {}, got)
    BY DEF ProwFilter, IngestInv, TypeOK
  <2> HIDE DEF got, s
  <2> QED
    BY <2>1 DEF Sync
<1>4. BaseRight(p)'
  BY <1>1, <1>3
  DEF IngestInv, CheckpointRight, BaseRight, Reached, Expected, Prompt, InWindow, Covers
<1>5. SinceRight(p)'
  BY <1>3 DEF SinceRight
<1>6. GotRight(p)'
  BY <1>1, <1>2, <1>3 DEF GotRight
<1>7. ASSUME NEW r \in s.got, Expected(r), r \notin got
      PROVE  r \in stored
  <2>1. /\ started[r] \in Nat /\ published[r] # NoTime
        /\ Since(checkpoint) \in Int /\ ~ Covers(Since(checkpoint), r)
    BY <1>1, <1>7, SinceType DEF IngestInv, TypeOK, TimesRight, Expected, Prompt, Times
  <2>2. ~ Since(checkpoint) <= now - Window[source]
    BY <1>1, <1>7, <2>1, CoversMore DEF Expected, InWindow
  <2>3. checkpoint # NoTime /\ Since(checkpoint) <= checkpoint - Replay[source]
    BY <1>1, <2>2, SinceBefore DEF IngestInv
  <2> QED
    BY <1>1, <1>7, <2>1, <2>3, CoversMore DEF IngestInv, CheckpointRight, Reached, Times
<1>8. FoundRight(p)'
  <2> SUFFICES ASSUME NEW r \in Runs, Expected(r)
               PROVE  r \in got \cup stored \/ published[r] >= s.at
    BY <1>1, <1>3 DEF FoundRight, Expected, Prompt, InWindow, Covers
  <2> QED
    BY <1>1, <1>2, <1>7 DEF FoundRight
<1> QED
  BY <1>4, <1>5, <1>6, <1>8 DEF SyncRight

(* Once the runs are stored each of their starts may become the checkpoint.     *)
LEMMA StoreRunsRight ==
  ASSUME IngestInv, Steady, NEW p \in Syncs, StoreRuns(p)
  PROVE  SyncRight(p)'
<1> DEFINE s == sync[p]
<1>1. /\ source' = source /\ now' = now /\ started' = started /\ published' = published
      /\ stored' = stored \cup (s.got \ Unmappable[source])
      /\ s.pc = "listed" /\ s.at \in Nat /\ s.base \in Times /\ s.got \subseteq Runs
      /\ now \in Nat /\ MaxListing \in Nat /\ Replay[source] \in Nat
  BY IngestAssumption DEF IngestInv, TypeOK, StoreRuns
<1>2. BaseRight(p) /\ GotRight(p) /\ FoundRight(p)
  BY DEF IngestInv, SyncRight
<1>3. sync'[p].pc = "stored" /\ sync'[p].base = s.base /\ sync'[p].got = s.got
  BY DEF StoreRuns, IngestInv, TypeOK, Sync
<1>4. BaseRight(p)'
  BY <1>1, <1>2, <1>3 DEF BaseRight, Reached, Expected, Prompt, InWindow, Covers
<1>5. SinceRight(p)' /\ FoundRight(p)'
  BY <1>3 DEF SinceRight, FoundRight
<1>6. ASSUME NEW g \in s.got, NEW r \in Runs, Expected(r),
             ~ Covers(started[g] - Replay[source], r)
      PROVE  r \in stored'
  <2>1. /\ started[g] \in Nat /\ started[g] <= s.at + MaxListing
        /\ started[r] \in Nat /\ published[r] \in Nat
    BY <1>1, <1>2, <1>6 DEF GotRight, IngestInv, TypeOK, TimesRight, Expected, Prompt, Times
  <2>2. ~ published[r] >= s.at
    BY <1>1, <1>6, <2>1 DEF Expected, Prompt, Covers
  <2>3. r \in s.got \cup stored
    BY <1>1, <1>2, <1>6, <2>2 DEF FoundRight
  <2> QED
    BY <1>1, <1>6, <2>3 DEF Expected
<1>7. GotRight(p)'
  BY <1>1, <1>2, <1>3, <1>6 DEF GotRight, Reached, Expected, Prompt, InWindow, Covers
<1> QED
  BY <1>4, <1>5, <1>7 DEF SyncRight

(* The checkpoint a sync writes is its own old one or the start of a stored run. *)
LEMMA MoveCheckpointRight ==
  ASSUME IngestInv, NEW p \in Syncs, MoveCheckpoint(p)
  PROVE  CheckpointRight'
<1> DEFINE s == sync[p]
<1>1. /\ source' = source /\ now' = now /\ started' = started /\ published' = published
      /\ stored' = stored /\ s.pc = "stored" /\ s.got \subseteq Runs
  BY DEF IngestInv, TypeOK, MoveCheckpoint
<1>2. BaseRight(p) /\ GotRight(p)
  BY DEF IngestInv, SyncRight
<1>3. checkpoint' = NoTime \/ checkpoint' \in {s.base} \cup {started[g] : g \in s.got}
  <2>1. Counted(s.got) \subseteq s.got
    BY DEF Counted
  <2>2. \A base, runs : \A t \in NextCheckpoint(base, runs) :
          t = NoTime \/ t \in {base} \cup {started[g] : g \in runs}
    BY DEF NextCheckpoint
  <2> QED
    BY <2>1, <2>2 DEF MoveCheckpoint
<1>4. ASSUME checkpoint' # NoTime
      PROVE  checkpoint' <= now /\ Reached(checkpoint')
  BY <1>1, <1>2, <1>3, <1>4 DEF BaseRight, GotRight, IngestInv, TimesRight
<1> QED
  BY <1>1, <1>4 DEF CheckpointRight, Reached, Expected, Prompt, InWindow, Covers

-----------------------------------------------------------------------------
LEMMA IngestStep == IngestInv /\ [Next]_vars => IngestInv'
<1> SUFFICES ASSUME IngestInv, [Next]_vars
             PROVE  IngestInv'
  OBVIOUS
<1>0. Steady /\ TypeOK' /\ TimesRight' /\ now' \in Nat
  BY SteadyStep, TypeStep, TimesStep DEF IngestInv, TypeOK
<1>1. ASSUME checkpoint' = checkpoint
      PROVE  CheckpointRight'
  <2>1. checkpoint # NoTime => checkpoint <= now /\ ReachedNext(checkpoint)
    BY ReachedKept, <1>0 DEF IngestInv, TypeOK, CheckpointRight, Times
  <2> QED
    BY <1>0, <1>1, <2>1
    DEF CheckpointRight, Reached, ReachedNext, Covers, CoversNext, Steady, IngestInv, TypeOK, Times
<1>2. ASSUME NEW p \in Syncs, sync'[p] = sync[p],
             sync[p].pc = "listing" => now' <= sync[p].at + MaxListing
      PROVE  SyncRight(p)'
  BY <1>0, <1>2, SyncKept DEF IngestInv
<1>3. ASSUME now' = now, UNCHANGED <<checkpoint, sync>>
      PROVE  IngestInv'
  <2>1. \A p \in Syncs : sync[p].pc = "listing" => now' <= sync[p].at + MaxListing
    BY <1>3 DEF IngestInv, SyncRight, SinceRight
  <2> QED
    BY <1>0, <1>1, <1>2, <1>3, <2>1 DEF IngestInv
<1>4. CASE Tick
  <2>1. \A p \in Syncs : sync[p].pc = "listing" => now' <= sync[p].at + MaxListing
    BY <1>4, IngestAssumption DEF Tick, IngestInv, TypeOK
  <2> QED
    BY <1>0, <1>1, <1>2, <1>4, <2>1 DEF Tick, IngestInv
<1>5. ASSUME NEW r \in Runs, Start(r) \/ Publish(r) \/ StoreOne(r)
      PROVE  IngestInv'
  BY <1>3, <1>5 DEF Start, Publish, StoreOne
<1>6. ASSUME NEW p \in Syncs, SyncStep(p)
      PROVE  IngestInv'
  <2>1. SyncRight(p)' /\ CheckpointRight'
    <3>1. CASE SippyBegin(p)
      BY <1>1, <3>1, SippyBeginRight DEF SippyBegin
    <3>2. CASE ProwBegin(p)
      BY <1>1, <3>2, ProwBeginRight DEF ProwBegin
    <3>3. CASE ProwFilter(p)
      BY <1>1, <3>3, ProwFilterRight DEF ProwFilter
    <3>4. CASE StoreRuns(p)
      BY <1>0, <1>1, <3>4, StoreRunsRight DEF StoreRuns
    <3>5. CASE MoveCheckpoint(p)
      BY <3>5, MoveCheckpointRight, EndedRight DEF MoveCheckpoint, IngestInv, TypeOK
    <3>6. CASE Abort(p)
      BY <1>1, <3>6, EndedRight DEF Abort, IngestInv, TypeOK
    <3>7. ASSUME NEW j \in Jobs, SippyList(p, j)
          PROVE  SyncRight(p)' /\ CheckpointRight'
      BY <1>1, <3>7, SippyListRight DEF SippyList
    <3> QED
      BY <1>6, <3>1, <3>2, <3>3, <3>4, <3>5, <3>6, <3>7 DEF SyncStep
  <2>2. now' = now /\ \A q \in Syncs \ {p} : sync'[q] = sync[q]
    BY <1>6
    DEF SyncStep, SippyBegin, SippyList, ProwBegin, ProwFilter, StoreRuns, MoveCheckpoint,
        Abort, IngestInv, TypeOK
  <2>3. \A q \in Syncs : sync[q].pc = "listing" => now' <= sync[q].at + MaxListing
    BY <2>2 DEF IngestInv, SyncRight, SinceRight
  <2> QED
    BY <1>0, <1>2, <2>1, <2>2, <2>3 DEF IngestInv
<1>7. CASE UNCHANGED vars
  BY <1>3, <1>7 DEF vars
<1> QED
  BY <1>4, <1>5, <1>6, <1>7 DEF Next

-----------------------------------------------------------------------------
LEMMA InitIngest == Init => IngestInv
<1> SUFFICES ASSUME Init
             PROVE  IngestInv
  OBVIOUS
<1>1. TypeOK
  BY IngestAssumption, EndedType DEF Init, TypeOK, Times, SyncType
<1>2. TimesRight /\ CheckpointRight
  BY DEF Init, TimesRight, CheckpointRight
<1>3. ASSUME NEW p \in Syncs
      PROVE  SyncRight(p)
  <2>1. sync[p].pc = "ended"
    BY DEF Init, Ended, Sync
  <2> QED
    BY <2>1 DEF SyncRight, BaseRight, SinceRight, GotRight, FoundRight
<1> QED
  BY <1>1, <1>2, <1>3 DEF IngestInv

(* The invariant holds throughout, of the checkpoint and of every sync.         *)
THEOREM IngestInvariant == Spec => []IngestInv
BY InitIngest, IngestStep, PTL DEF Spec

(* What a sync would not look back to is too old or behind its checkpoint.      *)
LEMMA NothingLeft == IngestInv => NothingSkipped
<1> SUFFICES ASSUME IngestInv, NEW r \in Runs, Expected(r), ~ Covers(Since(checkpoint), r)
             PROVE  r \in stored
  BY DEF NothingSkipped
<1>1. /\ started[r] \in Nat /\ checkpoint \in Times /\ Since(checkpoint) \in Int
      /\ now \in Nat /\ Window[source] \in Nat /\ Replay[source] \in Nat
  BY SinceType, IngestAssumption
  DEF IngestInv, TypeOK, TimesRight, Expected, Prompt, Times
<1>2. ~ Since(checkpoint) <= now - Window[source]
  BY <1>1, CoversMore DEF Expected, InWindow
<1>3. checkpoint # NoTime /\ Since(checkpoint) <= checkpoint - Replay[source]
  BY <1>1, <1>2, SinceBefore DEF IngestInv
<1> QED
  BY <1>1, <1>3, CoversMore DEF IngestInv, CheckpointRight, Reached, Times

(* However syncs fail and overlap, a run that the next sync no longer looks     *)
(* back to, and that was published in time, is stored.                         *)
THEOREM NothingIsSkipped == Spec => []NothingSkipped
BY NothingLeft, IngestInvariant, PTL

(* A listed sync has nothing left to do: see FoundRight.                        *)
LEMMA AllFound == IngestInv => SyncFindsAll
<1> SUFFICES ASSUME IngestInv, NEW p \in Syncs, NEW r \in Runs, sync[p].pc = "listed",
                    Expected(r), published[r] < sync[p].at
             PROVE  r \in sync[p].got \cup stored
  BY DEF SyncFindsAll
<1>1. published[r] \in Nat /\ sync[p].at \in Nat
  BY DEF IngestInv, TypeOK, Expected, Prompt, Times
<1> QED
  BY <1>1 DEF IngestInv, SyncRight, FoundRight

(* What a sync is about to store, and what is stored, has every such run that   *)
(* was published before the sync began.                                        *)
THEOREM SyncAlwaysFindsAll == Spec => []SyncFindsAll
BY AllFound, IngestInvariant, PTL

-----------------------------------------------------------------------------
(* Migrations: only the holder of the lock migrates, and what it looks at next *)
(* follows what is committed or lies before it; so a commit appends the number *)
(* after the last.                                                             *)

Counting(s) == s = [i \in 1..Len(s) |-> i]
AllClean(r, n) == r = [i \in 1..n |-> "clean"]

MigratingInv ==
  /\ MigrationsTypeOK
  /\ SchemaExact
  /\ \A p \in Procs : proc[p].next > 0
  /\ \A p \in Procs : proc[p].pc = "migrating" =>
       /\ lock = p
       /\ proc[p].next <= Len(schema) + 1
       /\ proc[p].ran => proc[p].next = Len(schema) + 1

LEMMA InitMigrating == MigrationsInit => MigratingInv
<1> SUFFICES ASSUME MigrationsInit PROVE MigratingInv
  OBVIOUS
<1>1. Len(schema) = 0 /\ DOMAIN recorded = {} /\ schema = [i \in 1..0 |-> i] /\ recorded = [i \in 1..0 |-> "clean"]
  BY DEF MigrationsInit
<1> QED
  BY <1>1 DEF MigrationsInit, MigratingInv, MigrationsTypeOK, SchemaExact, Down, Stage

LEMMA AppendCounts ==
  ASSUME NEW s \in Seq(Nat), Counting(s)
  PROVE  /\ Append(s, Len(s) + 1) \in Seq(Nat)
         /\ Len(Append(s, Len(s) + 1)) = Len(s) + 1
         /\ Counting(Append(s, Len(s) + 1))
BY DEF Counting

LEMMA MigratingStep == MigratingInv /\ [MigrationsNext]_mvars => MigratingInv'
<1> SUFFICES ASSUME MigratingInv, [MigrationsNext]_mvars
             PROVE  MigratingInv'
  OBVIOUS
<1> USE MigrationsAssumption
<1>1. ASSUME NEW p \in Procs, EnsureTable(p)
      PROVE  MigratingInv'
  BY <1>1 DEF EnsureTable, MigratingInv, MigrationsTypeOK, SchemaExact, Stage
<1>2. ASSUME NEW p \in Procs, Lock(p)
      PROVE  MigratingInv'
  BY <1>2 DEF Lock, MigratingInv, MigrationsTypeOK, SchemaExact, Stage
<1>3. ASSUME NEW p \in Procs, SkipApplied(p)
      PROVE  MigratingInv'
  <2>1. proc[p].next <= Len(schema)
    BY <1>3 DEF SkipApplied, Recorded, MigratingInv, MigrationsTypeOK, SchemaExact
  <2>2. /\ \A q \in Procs \ {p} : proc'[q] = proc[q]
        /\ proc'[p].pc = "migrating" /\ ~proc'[p].ran /\ proc'[p].next = proc[p].next + 1
    BY <1>3 DEF SkipApplied, Stage, MigratingInv, MigrationsTypeOK
  <2>3. SchemaExact'
    BY <1>3, <2>2 DEF SkipApplied, MigratingInv, SchemaExact
  <2>4. MigrationsTypeOK'
    BY <1>3 DEF SkipApplied, Stage, MigratingInv, MigrationsTypeOK
  <2>5. proc[p].next \in Nat /\ Len(schema) \in Nat
    BY DEF MigratingInv, MigrationsTypeOK
  <2>6. lock' = lock /\ schema' = schema /\ lock = p
    BY <1>3 DEF SkipApplied, MigratingInv
  <2>7. ASSUME NEW q \in Procs
        PROVE  /\ proc'[q].next > 0
               /\ proc'[q].pc = "migrating" =>
                    /\ lock' = q
                    /\ proc'[q].next <= Len(schema') + 1
                    /\ proc'[q].ran => proc'[q].next = Len(schema') + 1
    <3>1. CASE q = p
      BY <2>1, <2>2, <2>5, <2>6, <3>1
    <3>2. CASE q # p
      BY <2>2, <2>6, <3>2 DEF MigratingInv
    <3> QED
      BY <3>1, <3>2
  <2> QED
    BY <2>3, <2>4, <2>7 DEF MigratingInv
<1>4. ASSUME NEW p \in Procs, Execute(p)
      PROVE  MigratingInv'
  <2>1. proc[p].next = Len(schema) + 1
    BY <1>4 DEF Execute, Recorded, MigratingInv, MigrationsTypeOK, SchemaExact
  <2> QED
    BY <1>4, <2>1, ZenonT(60) DEF Execute, MigratingInv, MigrationsTypeOK, SchemaExact
<1>5. ASSUME NEW p \in Procs, Commit(p)
      PROVE  MigratingInv'
  <2>1. proc[p].next = Len(schema) + 1 /\ lock = p
    BY <1>5 DEF Commit, MigratingInv
  <2>2. /\ schema' \in Seq(Nat) /\ Len(schema') = Len(schema) + 1
        /\ schema' = [i \in 1..Len(schema') |-> i]
    BY <1>5, <2>1, AppendCounts DEF Commit, MigratingInv, MigrationsTypeOK, SchemaExact, Counting
  <2>3. recorded' = [i \in 1..Len(schema') |-> "clean"]
    BY <1>5, <2>1, <2>2 DEF Commit, Record, MigratingInv, MigrationsTypeOK, SchemaExact
  <2>4. \A q \in Procs \ {p} : proc'[q] = proc[q] /\ proc[q].pc # "migrating"
    BY <1>5, <2>1 DEF Commit, MigratingInv, MigrationsTypeOK
  <2>5. proc'[p] = Stage("migrating", Len(schema) + 2, FALSE)
    BY <1>5, <2>1 DEF Commit, MigratingInv, MigrationsTypeOK
  <2>6. MigrationsTypeOK'
    BY <1>5, <2>2, <2>3 DEF Commit, MigratingInv, MigrationsTypeOK, Stage
  <2>7. \A q \in Procs : proc'[q].pc = "ready" => Embeds[q] <= Len(schema')
    <3> SUFFICES ASSUME NEW q \in Procs, proc'[q].pc = "ready"
                 PROVE  Embeds[q] <= Len(schema')
      OBVIOUS
    <3>1. q # p
      BY <2>5 DEF Stage
    <3>2. Embeds[q] <= Len(schema) /\ Embeds[q] \in Nat /\ Len(schema) \in Nat
      BY <2>4, <3>1 DEF MigratingInv, SchemaExact, MigrationsTypeOK
    <3> QED
      BY <2>2, <3>2
  <2>8. SchemaExact'
    BY <2>2, <2>3, <2>7 DEF SchemaExact
  <2> QED
    BY <1>5, <2>1, <2>2, <2>4, <2>5, <2>6, <2>8 DEF Commit, MigratingInv, MigrationsTypeOK, Stage
<1>6. ASSUME NEW p \in Procs, Unlock(p)
      PROVE  MigratingInv'
  <2>1. Embeds[p] <= Len(schema)
    BY <1>6 DEF Unlock, MigratingInv, MigrationsTypeOK
  <2> QED
    BY <1>6, <2>1, ZenonT(60) DEF Unlock, MigratingInv, MigrationsTypeOK, SchemaExact
<1>7. ASSUME NEW p \in Procs, Stop(p)
      PROVE  MigratingInv'
  BY <1>7 DEF Stop, Down, Stage, MigratingInv, MigrationsTypeOK, SchemaExact
<1>8. CASE UNCHANGED mvars
  BY <1>8 DEF mvars, MigratingInv, MigrationsTypeOK, SchemaExact
<1> QED
  BY <1>1, <1>2, <1>3, <1>4, <1>5, <1>6, <1>7, <1>8 DEF MigrationsNext

(* Whichever processes of whichever releases migrate, each migration runs once *)
(* and in order, and is recorded: the lock and one transaction for each        *)
(* suffice, for any number of them (postgres/migrations).                      *)
THEOREM SchemaAlwaysExact == MigrationsSpec => []SchemaExact
<1>1. MigratingInv => SchemaExact
  BY DEF MigratingInv
<1> QED
  BY <1>1, InitMigrating, MigratingStep, PTL DEF MigrationsSpec

-----------------------------------------------------------------------------
(* Datapoints: what a worker is still to ask for, or has got an answer of, is  *)
(* without rows on the date of its key, which no other worker has.             *)

Answers == [DOMAIN Filters -> 0..MaxStat]
ByPeriod == [DOMAIN Periods -> Answers]
JobType == [date: 0..LastDay, missing: SUBSET DOMAIN Periods, filter: DOMAIN Filters, out: ByPeriod]

JobsApart ==
  \A v, w \in Workers : job[v].date # 0 /\ job[v].date = job[w].date => v = w
AsksForMissing ==
  \A w \in Workers : job[w].date # 0 =>
    \A p \in DOMAIN Periods : HasTests(rows[job[w].date][p]) =>
      p \notin job[w].missing /\ ~HasTests(job[w].out[p])
DailyInv == TestsTypeOK /\ JobsApart /\ AsksForMissing

LEMMA NothingType == NoAnswers \in ByPeriod /\ NoJob \in JobType /\ \A p \in DOMAIN Periods : ~HasTests(NoAnswers[p])
<1>1. NoAnswers \in ByPeriod /\ \A p \in DOMAIN Periods : ~HasTests(NoAnswers[p])
  BY TestsDailyAssumption DEF NoAnswers, NoTests, ByPeriod, Answers, HasTests
<1>2. 1 \in DOMAIN Filters
  BY TestsDailyAssumption
<1> QED
  BY <1>1, <1>2, TestsDailyAssumption DEF NoJob, Job, JobType

LEMMA TypeByName ==
  TestsTypeOK <=> /\ day \in 1..LastDay /\ sippy \in ByPeriod /\ rows \in [1..LastDay -> ByPeriod]
                  /\ job \in [Workers -> JobType]
BY DEF TestsTypeOK, ByPeriod, Answers, JobType

LEMMA InitDaily == TestsInit => DailyInv
<1> SUFFICES ASSUME TestsInit PROVE DailyInv
  OBVIOUS
<1>1. TestsTypeOK
  BY NothingType, TypeByName, TestsDailyAssumption DEF TestsInit
<1>2. \A w \in Workers : job[w].date = 0
  BY DEF TestsInit, NoJob, Job
<1> QED
  BY <1>1, <1>2 DEF DailyInv, JobsApart, AsksForMissing

(* What Fetch adds to the answers concerns the period it asks for.             *)
LEMMA AnsweredType ==
  ASSUME NEW out \in ByPeriod, NEW p \in DOMAIN Periods, NEW f \in DOMAIN Filters, sippy \in ByPeriod
  PROVE  /\ Answered(out, p, f) \in ByPeriod
         /\ \A q \in DOMAIN Periods \ {p} : Answered(out, p, f)[q] = out[q]
<1>1. out[p] \in Answers /\ sippy[p][f] \in 0..MaxStat
  BY DEF ByPeriod, Answers
<1>2. [out[p] EXCEPT ![f] = sippy[p][f]] \in Answers
  BY <1>1 DEF Answers
<1> QED
  BY <1>2 DEF Answered, ByPeriod

LEMMA DailyStep == DailyInv /\ [TestsNext]_tvars => DailyInv'
<1> SUFFICES ASSUME DailyInv, [TestsNext]_tvars
             PROVE  DailyInv'
  OBVIOUS
<1> USE TestsDailyAssumption
<1>0. /\ day \in 1..LastDay /\ sippy \in ByPeriod /\ rows \in [1..LastDay -> ByPeriod]
      /\ job \in [Workers -> JobType]
  BY TypeByName DEF DailyInv
<1>1. ASSUME UNCHANGED <<rows, job>>, day' \in 1..LastDay, sippy' \in ByPeriod
      PROVE  DailyInv'
  <2>1. TestsTypeOK'
    BY <1>0, <1>1 DEF TestsTypeOK, ByPeriod, Answers, JobType
  <2> QED
    BY <1>1, <2>1 DEF DailyInv, JobsApart, AsksForMissing
<1>2. ASSUME NEW w \in Workers, NEW new \in JobType, job' = [job EXCEPT ![w] = new],
             UNCHANGED <<day, sippy>>, rows' \in [1..LastDay -> ByPeriod],
             \A v \in Workers \ {w} : job[v].date # 0 => rows'[job[v].date] = rows[job[v].date],
             new.date # 0 => /\ \A v \in Workers \ {w} : job[v].date # new.date
                             /\ \A p \in DOMAIN Periods : HasTests(rows'[new.date][p]) =>
                                  p \notin new.missing /\ ~HasTests(new.out[p])
      PROVE  DailyInv'
  <2>1. job'[w] = new /\ \A v \in Workers \ {w} : job'[v] = job[v]
    BY <1>0, <1>2
  <2>2. TestsTypeOK'
    BY <1>0, <1>2 DEF TestsTypeOK, ByPeriod, Answers, JobType
  <2>3. JobsApart'
    BY <1>2, <2>1 DEF DailyInv, JobsApart
  <2>4. AsksForMissing'
    <3> SUFFICES ASSUME NEW v \in Workers, job'[v].date # 0, NEW p \in DOMAIN Periods,
                        HasTests(rows'[job'[v].date][p])
                 PROVE  p \notin job'[v].missing /\ ~HasTests(job'[v].out[p])
      BY DEF AsksForMissing, HasTests
    <3>1. CASE v = w
      BY <1>2, <2>1, <3>1
    <3>2. CASE v # w
      BY <1>2, <2>1, <3>2 DEF DailyInv, AsksForMissing
    <3> QED
      BY <3>1, <3>2
  <2> QED
    BY <2>2, <2>3, <2>4 DEF DailyInv
<1>3. CASE TestsWorld
  <2>1. CASE Midnight
    BY <1>0, <1>1, <2>1 DEF Midnight
  <2>2. ASSUME NEW p \in DOMAIN Periods, NEW f \in DOMAIN Filters, Measure(p, f)
        PROVE  DailyInv'
    <3>1. PICK stat \in 0..MaxStat : sippy' = [sippy EXCEPT ![p][f] = stat]
      BY <2>2 DEF Measure
    <3>2. [sippy[p] EXCEPT ![f] = stat] \in Answers
      BY <1>0 DEF ByPeriod, Answers
    <3>3. sippy' = [sippy EXCEPT ![p] = [sippy[p] EXCEPT ![f] = stat]]
      BY <3>1
    <3>4. sippy' \in ByPeriod
      BY <1>0, <3>2, <3>3 DEF ByPeriod
    <3> QED
      BY <1>0, <1>1, <2>2, <3>4 DEF Measure
  <2> QED
    BY <1>3, <2>1, <2>2 DEF TestsWorld
<1>4. ASSUME NEW w \in Workers, NEW d \in 1..LastDay, Begin(w, d)
      PROVE  DailyInv'
  <2> DEFINE new == Job(d, Missing(d), 1, NoAnswers)
  <2>1. new \in JobType
    BY NothingType DEF Job, JobType, Missing
  <2>2. \A p \in DOMAIN Periods : HasTests(rows[new.date][p]) => p \notin new.missing /\ ~HasTests(new.out[p])
    BY NothingType DEF Job, Missing
  <2>3. new.date = d
    BY DEF Job
  <2> HIDE DEF new
  <2> QED
    BY <1>0, <1>2, <1>4, <2>1, <2>2, <2>3 DEF Begin, new
<1>5. ASSUME NEW w \in Workers, Fetch(w)
      PROVE  DailyInv'
  <2>1. PICK p \in DOMAIN Periods :
          /\ FirstOf(job[w].missing, p)
          /\ job' = [job EXCEPT ![w] =
               Job(job[w].date, job[w].missing \ (IF job[w].filter = Len(Filters) THEN {p} ELSE {}),
                   IF job[w].filter = Len(Filters) THEN 1 ELSE job[w].filter + 1,
                   Answered(job[w].out, p, job[w].filter))]
    BY <1>5 DEF Fetch
  <2> DEFINE left == job[w].missing \ (IF job[w].filter = Len(Filters) THEN {p} ELSE {})
             next == IF job[w].filter = Len(Filters) THEN 1 ELSE job[w].filter + 1
             out == Answered(job[w].out, p, job[w].filter)
             new == Job(job[w].date, left, next, out)
  <2>2. job[w] \in JobType
    BY <1>0
  <2>3. job[w].out \in ByPeriod /\ job[w].filter \in DOMAIN Filters /\ job[w].missing \subseteq DOMAIN Periods
    BY <2>2 DEF JobType
  <2>4. out \in ByPeriod /\ \A q \in DOMAIN Periods \ {p} : out[q] = job[w].out[q]
    BY <1>0, <2>3, AnsweredType
  <2>5. left \subseteq job[w].missing
    OBVIOUS
  <2>6. next \in DOMAIN Filters
    BY <2>3
  <2> HIDE DEF left, next, out
  <2>7. new \in JobType
    BY <2>2, <2>3, <2>4, <2>5, <2>6 DEF Job, JobType
  <2>8. new.date = job[w].date /\ new.missing = left /\ new.out = out
    BY DEF Job
  <2>9. p \in job[w].missing
    BY <2>1 DEF FirstOf
  <2>10. job' = [job EXCEPT ![w] = new] /\ UNCHANGED <<day, sippy, rows>>
    BY <1>5, <2>1 DEF Fetch, new, left, next, out
  <2>11. new.date # 0 => /\ \A v \in Workers \ {w} : job[v].date # new.date
                         /\ \A q \in DOMAIN Periods : HasTests(rows[new.date][q]) =>
                              q \notin new.missing /\ ~HasTests(new.out[q])
    <3> SUFFICES ASSUME new.date # 0
                 PROVE  /\ \A v \in Workers \ {w} : job[v].date # new.date
                        /\ \A q \in DOMAIN Periods : HasTests(rows[new.date][q]) =>
                             q \notin new.missing /\ ~HasTests(new.out[q])
      OBVIOUS
    <3>1. \A v \in Workers \ {w} : job[v].date # new.date
      BY <2>8 DEF DailyInv, JobsApart
    <3>2. ASSUME NEW q \in DOMAIN Periods, HasTests(rows[new.date][q])
          PROVE  q \notin new.missing /\ ~HasTests(new.out[q])
      <4>1. q \notin job[w].missing /\ ~HasTests(job[w].out[q])
        BY <2>8, <3>2 DEF DailyInv, AsksForMissing
      <4>2. q # p
        BY <2>9, <4>1
      <4> QED
        BY <2>4, <2>5, <2>8, <4>1, <4>2
    <3> QED
      BY <3>1, <3>2
  <2> HIDE DEF new
  <2> QED
    BY <1>0, <1>2, <2>7, <2>10, <2>11
<1>6. ASSUME NEW w \in Workers, Upsert(w)
      PROVE  DailyInv'
  <2> DEFINE d == job[w].date
  <2>1. d \in 1..LastDay /\ job[w].out \in ByPeriod
    BY <1>0, <1>6 DEF Upsert, JobType
  <2>2. [p \in DOMAIN Periods |-> IF HasTests(job[w].out[p]) THEN job[w].out[p] ELSE rows[d][p]] \in ByPeriod
    BY <1>0, <2>1 DEF ByPeriod
  <2>3. rows' \in [1..LastDay -> ByPeriod] /\ \A e \in 1..LastDay \ {d} : rows'[e] = rows[e]
    BY <1>0, <1>6, <2>1, <2>2 DEF Upsert
  <2>4. \A v \in Workers \ {w} : job[v].date # 0 => job[v].date \in 1..LastDay \ {d}
    BY <1>0, <2>1 DEF DailyInv, JobsApart, JobType
  <2>5. NoJob.date = 0
    BY DEF NoJob, Job
  <2>6. \A v \in Workers \ {w} : job[v].date # 0 => rows'[job[v].date] = rows[job[v].date]
    BY <2>3, <2>4
  <2> QED
    BY <1>2, <1>6, <2>3, <2>5, <2>6, NothingType DEF Upsert
<1>7. ASSUME NEW w \in Workers, Fail(w)
      PROVE  DailyInv'
  <2>1. NoJob.date = 0
    BY DEF NoJob, Job
  <2> QED
    BY <1>0, <1>2, <1>7, <2>1, NothingType DEF Fail
<1>8. CASE UNCHANGED tvars
  BY <1>0, <1>1, <1>8 DEF tvars
<1> QED
  BY <1>3, <1>4, <1>5, <1>6, <1>7, <1>8 DEF TestsNext, TestsStep

LEMMA DailyFrozen ==
  DailyInv /\ [TestsNext]_tvars =>
    [\A d \in 1..LastDay, p \in DOMAIN Periods : HasTests(rows[d][p]) => rows'[d][p] = rows[d][p]]_tvars
<1> SUFFICES ASSUME DailyInv, [TestsNext]_tvars, NEW d \in 1..LastDay, NEW p \in DOMAIN Periods,
                    HasTests(rows[d][p])
             PROVE  rows'[d][p] = rows[d][p]
  BY DEF HasTests
<1>0. rows \in [1..LastDay -> ByPeriod]
  BY TypeByName DEF DailyInv
<1>1. ASSUME NEW w \in Workers, Upsert(w)
      PROVE  rows'[d][p] = rows[d][p]
  <2>1. CASE job[w].date = d
    <3>1. ~HasTests(job[w].out[p])
      BY <1>1, <2>1 DEF Upsert, DailyInv, AsksForMissing
    <3>2. rows'[d] = [q \in DOMAIN Periods |-> IF HasTests(job[w].out[q]) THEN job[w].out[q] ELSE rows[d][q]]
      BY <1>0, <1>1, <2>1 DEF Upsert
    <3> QED
      BY <3>1, <3>2
  <2>2. CASE job[w].date # d
    BY <1>0, <1>1, <2>2 DEF Upsert
  <2> QED
    BY <2>1, <2>2
<1>2. (\E w \in Workers : Upsert(w)) \/ rows' = rows
  BY DEF TestsNext, TestsWorld, TestsStep, tvars, Midnight, Measure, Begin, Fetch, Fail
<1> QED
  BY <1>1, <1>2

(* The rows of a date and a period stay what the sync that completed them was  *)
(* told, for any number of workers, days, periods and filters.                 *)
THEOREM DatapointsStayFrozen == TestsSpec => DatapointFrozen
<1>1. TestsSpec => []DailyInv
  BY InitDaily, DailyStep, PTL DEF TestsSpec
<1> QED
  BY <1>1, DailyFrozen, PTL DEF TestsSpec, DatapointFrozen

(* The types of a sync of tests.                                               *)
THEOREM DailyTypesCorrect == TestsSpec => []TestsTypeOK
<1>1. DailyInv => TestsTypeOK
  BY DEF DailyInv
<1> QED
  BY <1>1, InitDaily, DailyStep, PTL DEF TestsSpec

-----------------------------------------------------------------------------
(* Pull requests.  The list is sorted, and an update only pushes others back:  *)
(* what lies before the page a sync is to read is read, or was updated after   *)
(* all it has seen, or is late.                                                *)

PagingType == [pc: {"idle", "paging", "storing", "saving"}, since: Nat, page: Nat, max: Nat, out: [Pulls -> Nat]]
Clocked ==
  /\ clock > 0 /\ pullCheckpoint <= clock
  /\ \A p \in Pulls : updated[p] <= clock /\ (edits[p] > 0 => updated[p] > 0)

(* Of the updates up to a time, the rows or the answers show every one.        *)
Shows(values, from, upTo) ==
  \A p \in InList : from < updated[p] /\ updated[p] <= upTo => values[p] = edits[p] \/ p \in late \cup cut

PagingRight(pass) ==
  /\ pass.pc = "idle" => pass.max = 0
  /\ pass.pc \in {"paging", "storing"} => pass.since = pullCheckpoint
  /\ pass.pc # "idle" => pass.max <= clock
  /\ pass.pc # "saving" => \A p \in Pulls : pass.out[p] > 0 => edits[p] > 0 /\ updated[p] > pullCheckpoint
  /\ pass.pc = "paging" =>
       \A p \in InList : pass.since < updated[p] /\ updated[p] <= pass.max /\ pass.out[p] # edits[p]
                          /\ p \notin late => p \notin Ahead(pass.page)
  /\ pass.pc = "storing" => Shows(pass.out, pass.since, pass.max)
  /\ pass.pc = "saving" => Shows(pullRow, 0, pass.max)

PullsInv ==
  /\ PullsTypeOK
  /\ Clocked
  /\ NoUpdateSkipped
  /\ PagingRight(pullSync)

LEMMA SyncingType ==
  ASSUME NEW pc \in {"idle", "paging", "storing", "saving"}, NEW since \in Nat, NEW n \in Nat, NEW max \in Nat,
         NEW out \in [Pulls -> Nat]
  PROVE  /\ Syncing(pc, since, n, max, out) \in PagingType
         /\ Syncing(pc, since, n, max, out).pc = pc /\ Syncing(pc, since, n, max, out).since = since
         /\ Syncing(pc, since, n, max, out).page = n /\ Syncing(pc, since, n, max, out).max = max
         /\ Syncing(pc, since, n, max, out).out = out
BY DEF Syncing, PagingType

LEMMA RankType == \A p \in Pulls : Rank(p) \in Nat
<1> SUFFICES ASSUME NEW p \in Pulls PROVE Rank(p) \in Nat
  OBVIOUS
<1>1. IsFiniteSet({q \in InList : Newer(q, p)})
  BY FS_Subset, PullRequestSyncAssumption DEF InList
<1> QED
  BY <1>1, FS_CardinalityType DEF Rank

LEMMA RankNext == \A p \in Pulls : Rank(p)' \in Nat
<1> SUFFICES ASSUME NEW p \in Pulls PROVE Rank(p)' \in Nat
  OBVIOUS
<1>1. IsFiniteSet({q \in InList : Newer(q, p)}')
  BY FS_Subset, PullRequestSyncAssumption DEF InList
<1> QED
  BY <1>1, FS_CardinalityType DEF Rank

(* What is ranked before another was not updated before it.                    *)
LEMMA RankSorted ==
  ASSUME PullsTypeOK, NEW p \in InList, NEW r \in InList, Rank(p) < Rank(r)
  PROVE  updated[r] <= updated[p]
<1>1. p \in Pulls /\ r \in Pulls /\ updated[p] \in Nat /\ updated[r] \in Nat /\ p \in Nat /\ r \in Nat
  BY PullRequestSyncAssumption DEF PullsTypeOK, InList
<1> SUFFICES ASSUME updated[r] > updated[p] PROVE FALSE
  BY <1>1
<1>2. {q \in InList : Newer(q, r)} \subseteq {q \in InList : Newer(q, p)}
  <2> SUFFICES ASSUME NEW q \in InList, Newer(q, r) PROVE Newer(q, p)
    OBVIOUS
  <2>1. updated[q] \in Nat
    BY DEF PullsTypeOK, InList
  <2> QED
    BY <1>1, <2>1 DEF Newer
<1>3. IsFiniteSet({q \in InList : Newer(q, p)})
  BY FS_Subset, PullRequestSyncAssumption DEF InList
<1>4. Rank(r) <= Rank(p)
  BY <1>2, <1>3, FS_Subset DEF Rank
<1> QED
  BY <1>1, <1>4, RankType

(* An update pushes the others back.                                           *)
LEMMA EditPushes ==
  ASSUME PullsTypeOK, Clocked, NEW p \in Pulls, Edit(p), NEW q \in Pulls, q # p
  PROVE  Rank(q) <= Rank(q)'
<1>1. /\ updated' = [updated EXCEPT ![p] = clock] /\ edits' = [edits EXCEPT ![p] = @ + 1]
      /\ clock \in Nat /\ updated \in [Pulls -> Nat] /\ edits \in [Pulls -> Nat]
  BY DEF Edit, PullsTypeOK
<1>2. {x \in InList : Newer(x, q)} \subseteq {x \in InList : Newer(x, q)}'
  <2> SUFFICES ASSUME NEW x \in InList, Newer(x, q) PROVE x \in InList' /\ Newer(x, q)'
    OBVIOUS
  <2>1. x \in Pulls /\ x \in Nat /\ q \in Nat /\ edits[x] > 0
    BY PullRequestSyncAssumption DEF InList
  <2>2. x \in InList'
    BY <1>1, <2>1 DEF InList
  <2>3. updated'[q] = updated[q] /\ updated[q] <= clock
    BY <1>1 DEF Clocked
  <2>4. CASE x = p
    <3>1. updated'[x] = clock
      BY <1>1, <2>4
    <3>2. updated[x] <= clock
      BY <2>1 DEF Clocked
    <3> QED
      BY <1>1, <2>1, <2>2, <2>3, <3>1, <3>2 DEF Newer
  <2>5. CASE x # p
    BY <1>1, <2>1, <2>2, <2>3, <2>5 DEF Newer
  <2> QED
    BY <2>4, <2>5
<1>3. IsFiniteSet({x \in InList : Newer(x, q)}')
  BY FS_Subset, PullRequestSyncAssumption DEF InList
<1> QED
  BY <1>2, <1>3, FS_Subset DEF Rank

LEMMA IdleType ==
  /\ NoPulls \in [Pulls -> Nat] /\ \A p \in Pulls : NoPulls[p] = 0
  /\ SyncIdle \in PagingType /\ SyncIdle.pc = "idle" /\ SyncIdle.max = 0 /\ SyncIdle.out = NoPulls
<1>1. NoPulls \in [Pulls -> Nat] /\ \A p \in Pulls : NoPulls[p] = 0
  BY DEF NoPulls
<1>2. Never \in Nat /\ 1 \in Nat /\ Never = 0
  BY PullRequestSyncAssumption
<1>3. SyncIdle = [pc |-> "idle", since |-> Never, page |-> 1, max |-> Never, out |-> NoPulls]
  BY DEF SyncIdle, Syncing
<1> HIDE DEF NoPulls
<1>4. SyncIdle \in PagingType
  BY <1>1, <1>2, <1>3 DEF PagingType
<1>5. SyncIdle.pc = "idle" /\ SyncIdle.max = Never /\ SyncIdle.out = NoPulls
  BY <1>3
<1> QED
  BY <1>1, <1>2, <1>4, <1>5

LEMMA InitPulls == PullsInit => PullsInv
<1> SUFFICES ASSUME PullsInit PROVE PullsInv
  OBVIOUS
<1>3. PullsTypeOK
  BY IdleType, PullRequestSyncAssumption DEF PullsInit, PullsTypeOK, PagingType
<1> QED
  BY IdleType, <1>3, PullRequestSyncAssumption DEF PullsInit, PullsInv, Clocked, NoUpdateSkipped, PagingRight

(* A pull request that is updated becomes late, or later than all that was     *)
(* seen; the others keep what is said of them.                                 *)
LEMMA EditStep ==
  ASSUME PullsInv, NEW p \in Pulls, Edit(p)
  PROVE  PullsInv'
<1>0. /\ PullsTypeOK /\ Clocked /\ clock \in Nat /\ pullCheckpoint \in Nat /\ pullSync.max \in Nat
      /\ updated \in [Pulls -> Nat] /\ edits \in [Pulls -> Nat]
  BY DEF PullsInv, PullsTypeOK
<1>1. /\ updated' = [updated EXCEPT ![p] = clock] /\ edits' = [edits EXCEPT ![p] = @ + 1]
      /\ UNCHANGED <<clock, pullRow, pullCheckpoint, pullSync>>
      /\ cut' = cut \ {p}
  BY DEF Edit
<1>2. /\ clock <= pullCheckpoint \/ clock <= pullSync.max => p \in late'
      /\ \A q \in Pulls \ {p} : q \in late' <=> q \in late
      /\ late' \subseteq Pulls
  BY <1>0 DEF Edit, PullsTypeOK
<1>3. /\ updated'[p] = clock /\ edits'[p] > 0
      /\ \A q \in Pulls \ {p} : updated'[q] = updated[q] /\ edits'[q] = edits[q] /\ (q \in InList' <=> q \in InList)
      /\ \A q \in Pulls \ {p} : q \in cut' <=> q \in cut
  BY <1>0, <1>1 DEF InList
<1>4. PullsTypeOK'
  BY <1>0, <1>1, <1>2 DEF PullsTypeOK
<1>5. Clocked'
  BY <1>0, <1>1, <1>3 DEF Clocked
<1>6. NoUpdateSkipped'
  BY <1>0, <1>1, <1>2, <1>3 DEF PullsInv, NoUpdateSkipped
<1>7. ASSUME NEW values \in [Pulls -> Nat], NEW from \in Nat, Shows(values, from, pullSync.max)
      PROVE  \A q \in InList' : from < updated'[q] /\ updated'[q] <= pullSync.max
                                 => values[q] = edits'[q] \/ q \in late' \cup cut'
  <2> SUFFICES ASSUME NEW q \in InList', from < updated'[q], updated'[q] <= pullSync.max
               PROVE  values[q] = edits'[q] \/ q \in late' \cup cut'
    OBVIOUS
  <2>1. q \in Pulls
    BY DEF InList
  <2>2. CASE q = p
    BY <1>2, <1>3, <2>2
  <2>3. CASE q # p
    BY <1>2, <1>3, <1>7, <2>1, <2>3 DEF Shows
  <2> QED
    BY <2>2, <2>3
<1>8. \A q \in Pulls \ {p} : \A k \in Nat : q \notin Ahead(k) /\ q \in InList => q \notin Ahead(k)'
  <2> SUFFICES ASSUME NEW q \in Pulls \ {p}, NEW k \in Nat, q \notin Ahead(k), q \in InList
               PROVE  q \notin Ahead(k)'
    OBVIOUS
  <2>1. Rank(q) <= Rank(q)'
    BY <1>0, EditPushes
  <2>2. Rank(q) \in Nat /\ Rank(q)' \in Nat
    BY RankType, RankNext
  <2>3. ~(Rank(q) < (k - 1) * PerPage)
    BY DEF Ahead
  <2>4. (k - 1) * PerPage \in Int
    BY PullRequestSyncAssumption
  <2>5. ~(Rank(q)' < (k - 1) * PerPage)
    BY <2>1, <2>2, <2>3, <2>4
  <2> QED
    BY <2>5 DEF Ahead
<1>9. PagingRight(pullSync)'
  <2> DEFINE pass == pullSync
  <2>0. PagingRight(pass) /\ pass' = pass /\ pass.page \in Nat /\ pass.out \in [Pulls -> Nat] /\ pass.since \in Nat
    BY <1>0, <1>1 DEF PullsInv, PullsTypeOK
  <2>1. pass.pc # "saving" => \A q \in Pulls : pass.out[q] > 0 => edits'[q] > 0 /\ updated'[q] > pullCheckpoint
    <3> SUFFICES ASSUME pass.pc # "saving", NEW q \in Pulls, pass.out[q] > 0
                 PROVE  edits'[q] > 0 /\ updated'[q] > pullCheckpoint
      OBVIOUS
    <3>1. edits[q] > 0 /\ updated[q] > pullCheckpoint /\ updated[q] <= clock
      BY <2>0 DEF PagingRight, PullsInv, Clocked
    <3> QED
      BY <1>0, <1>3, <3>1
  <2>2. ASSUME pass.pc = "paging", NEW q \in InList', pass.since < updated'[q], updated'[q] <= pass.max,
               pass.out[q] # edits'[q], q \notin late'
        PROVE  q \notin Ahead(pass.page)'
    <3>1. q \in Pulls /\ q # p
      BY <1>2, <1>3, <2>2 DEF InList
    <3>2. q \notin Ahead(pass.page) /\ q \in InList
      BY <1>2, <1>3, <2>0, <2>2, <3>1 DEF PagingRight
    <3> QED
      BY <1>8, <2>0, <3>1, <3>2
  <2>3. pass.pc = "storing" => Shows(pass.out, pass.since, pass.max)'
    BY <1>1, <1>7, <2>0 DEF PagingRight, Shows
  <2>4. pass.pc = "saving" => Shows(pullRow, 0, pass.max)'
    BY <1>0, <1>1, <1>7, <2>0 DEF PagingRight, Shows, PullsTypeOK
  <2> QED
    BY <1>1, <2>0, <2>1, <2>2, <2>3, <2>4 DEF PagingRight
<1> QED
  BY <1>4, <1>5, <1>6, <1>9 DEF PullsInv

(* Reading a page: what is on it is read, and what lies before it and is newer *)
(* than all seen before was updated in the very second of the page's latest.   *)
LEMMA ReadStep ==
  ASSUME PullsInv, ReadPage
  PROVE  PullsInv'
<1> DEFINE k == pullSync.page
           since == pullSync.since
           new == {p \in PageOf(k) : IsNew(p, since)}
           over == new # PageOf(k) \/ ~HasNext(k)
           last == k = MaxPages
           out == [p \in Pulls |-> IF p \in new THEN edits[p] ELSE pullSync.out[p]]
           unread == {p \in InList : IsNew(p, since) /\ out[p] # edits[p]}
           pc == IF over \/ last THEN "storing" ELSE "paging"
<1>0. /\ PullsTypeOK /\ Clocked /\ PagingRight(pullSync) /\ pullSync.pc = "paging"
      /\ k \in Nat /\ since \in Nat /\ pullSync.max \in Nat /\ pullSync.out \in [Pulls -> Nat]
      /\ updated \in [Pulls -> Nat] /\ edits \in [Pulls -> Nat] /\ clock \in Nat
      /\ late \subseteq Pulls /\ cut \subseteq Pulls /\ PerPage \in Nat
  BY PullRequestSyncAssumption DEF PullsInv, PullsTypeOK, ReadPage
<1>1. PICK m \in 0..clock :
        /\ LatestSeen(pullSync.max, k, m)
        /\ pullSync' = Syncing(pc, since, k + 1, m, out)
        /\ late' = late \cup {p \in unread \cap Ahead(k) : updated[p] = m}
  BY DEF ReadPage
<1>2. /\ cut' = IF last /\ ~over THEN cut \cup (unread \cap Behind(k)) ELSE cut
      /\ UNCHANGED <<clock, updated, edits, pullRow, pullCheckpoint>>
  BY DEF ReadPage
<1>3. m \in Nat /\ m <= clock /\ pullSync.max <= m /\ (m = pullSync.max \/ \E r \in PageOf(k) : updated[r] = m)
  BY <1>0, <1>1 DEF LatestSeen
<1>4. \A p \in InList : IsNew(p, since) <=> updated[p] > since
  BY <1>0, PullRequestSyncAssumption DEF IsNew, Clocked, InList
<1>5. out \in [Pulls -> Nat] /\ \A p \in Pulls : out[p] = IF p \in new THEN edits[p] ELSE pullSync.out[p]
  BY <1>0
<1>6. InList \subseteq Pulls /\ \A p \in InList : Rank(p) \in Nat /\ edits[p] > 0 /\ p \in Pulls
  BY RankType DEF InList
<1>7. /\ \A p \in InList : p \in Ahead(k) \/ p \in PageOf(k) \/ p \in Behind(k)
      /\ PageOf(k) \subseteq InList
      /\ \A p \in Ahead(k), r \in PageOf(k) : Rank(p) < Rank(r)
      /\ \A p \in PageOf(k), r \in Behind(k) : Rank(p) < Rank(r)
      /\ \A p \in PageOf(k) : p \notin Behind(k)
      /\ \A p \in Ahead(k + 1) : p \in InList /\ p \notin Behind(k)
  <2>1. k * PerPage \in Int /\ (k - 1) * PerPage \in Int /\ ((k + 1) - 1) * PerPage = k * PerPage
    BY <1>0
  <2> QED
    BY <1>6, <2>1 DEF Ahead, PageOf, Behind
<1> HIDE DEF new, out
<1>8. ASSUME NEW p \in InList, updated[p] > since, updated[p] <= m, out[p] # edits[p], p \notin late'
      PROVE  p \in Behind(k)
  <2>1. p \notin PageOf(k)
    BY <1>4, <1>5, <1>6, <1>8 DEF new
  <2> SUFFICES ASSUME p \in Ahead(k) PROVE FALSE
    BY <1>7, <2>1
  <2>2. CASE updated[p] <= pullSync.max
    <3>1. pullSync.out[p] # edits[p]
      BY <1>5, <1>6, <1>8, <2>1 DEF new
    <3>2. p \notin late
      BY <1>1, <1>8
    <3> QED
      BY <1>0, <1>8, <2>2, <3>1, <3>2 DEF PagingRight
  <2>3. CASE updated[p] > pullSync.max
    <3>1. PICK r \in PageOf(k) : updated[r] = m
      BY <1>0, <1>3, <1>6, <1>8, <2>3
    <3>2. updated[r] <= updated[p]
      BY <1>0, <1>7, <3>1, RankSorted
    <3>3. updated[p] = m
      BY <1>0, <1>3, <1>6, <1>8, <3>1, <3>2
    <3>4. p \in unread
      BY <1>4, <1>8
    <3> QED
      BY <1>1, <1>8, <3>3, <3>4
  <2> QED
    BY <1>0, <1>6, <2>2, <2>3
<1>9. ASSUME NEW p \in Behind(k), updated[p] > since, over
      PROVE  FALSE
  <2>1. HasNext(k) /\ p \in InList
    BY DEF HasNext, Behind
  <2>2. PICK r \in PageOf(k) : ~IsNew(r, since)
    BY <1>9, <2>1 DEF new
  <2>3. updated[p] <= updated[r]
    BY <1>0, <1>7, <2>1, <2>2, RankSorted
  <2> QED
    BY <1>0, <1>4, <1>6, <1>7, <1>9, <2>1, <2>2, <2>3
<1>10. /\ pullSync' \in PagingType /\ pullSync'.pc = pc /\ pullSync'.since = since /\ pullSync'.page = k + 1
       /\ pullSync'.max = m /\ pullSync'.out = out
  <2>1. pc \in {"idle", "paging", "storing", "saving"} /\ k + 1 \in Nat
    BY <1>0
  <2> HIDE DEF pc
  <2>2. /\ Syncing(pc, since, k + 1, m, out) \in PagingType
        /\ Syncing(pc, since, k + 1, m, out).pc = pc /\ Syncing(pc, since, k + 1, m, out).since = since
        /\ Syncing(pc, since, k + 1, m, out).page = k + 1 /\ Syncing(pc, since, k + 1, m, out).max = m
        /\ Syncing(pc, since, k + 1, m, out).out = out
    BY <1>0, <1>3, <1>5, <2>1 DEF Syncing, PagingType
  <2> QED
    BY <1>1, <2>2 DEF pc
<1>11. PullsTypeOK'
  BY <1>0, <1>1, <1>2, <1>10 DEF PullsTypeOK, PagingType, InList
<1>12. late \subseteq late' /\ cut \subseteq cut' /\ InList' = InList /\ \A n \in Nat : Ahead(n)' = Ahead(n)
  BY <1>1, <1>2 DEF InList, Ahead, Rank, Newer
<1>13. NoUpdateSkipped' /\ Clocked'
  BY <1>2, <1>12 DEF PullsInv, NoUpdateSkipped, Clocked
<1>14. \A p \in Pulls : out[p] > 0 => edits[p] > 0 /\ updated[p] > pullCheckpoint
  <2> SUFFICES ASSUME NEW p \in Pulls, out[p] > 0
               PROVE  edits[p] > 0 /\ updated[p] > pullCheckpoint
    OBVIOUS
  <2>1. CASE p \in new
    BY <1>0, <1>4, <1>6, <1>7, <2>1 DEF new, PagingRight
  <2>2. CASE p \notin new
    BY <1>0, <1>5, <2>2 DEF PagingRight
  <2> QED
    BY <2>1, <2>2
<1>15. pc = "paging" => \A p \in InList : since < updated[p] /\ updated[p] <= m /\ out[p] # edits[p] /\ p \notin late'
                                            => p \notin Ahead(k + 1)
  BY <1>7, <1>8
<1>16. pc = "storing" => \A p \in InList : since < updated[p] /\ updated[p] <= m
                                             => out[p] = edits[p] \/ p \in late' \cup cut'
  <2> SUFFICES ASSUME pc = "storing", NEW p \in InList, since < updated[p], updated[p] <= m,
                      out[p] # edits[p], p \notin late'
               PROVE  p \in cut'
    OBVIOUS
  <2>1. p \in Behind(k)
    BY <1>8
  <2>2. ~over /\ last
    BY <1>9, <2>1
  <2> QED
    BY <1>2, <1>4, <2>1, <2>2
<1> HIDE DEF pc
<1>17. PagingRight(pullSync)'
  <2>1. pc \in {"paging", "storing"}
    BY DEF pc
  <2>2. since = pullCheckpoint
    BY <1>0 DEF PagingRight
  <2>3. pullSync'.pc = "paging" =>
          \A p \in InList' : pullSync'.since < updated'[p] /\ updated'[p] <= pullSync'.max
                             /\ pullSync'.out[p] # edits'[p] /\ p \notin late' => p \notin Ahead(k + 1)
    BY <1>2, <1>10, <1>12, <1>15
  <2>5. Ahead(pullSync.page)' = Ahead(k + 1)
    BY <1>2, <1>10 DEF Ahead, InList, Rank, Newer
  <2>6. pullSync'.pc = "storing" => Shows(pullSync.out, pullSync.since, pullSync.max)'
    BY <1>2, <1>10, <1>12, <1>16 DEF Shows
  <2>7. \A p \in Pulls : pullSync'.out[p] > 0 => edits'[p] > 0 /\ updated'[p] > pullCheckpoint'
    BY <1>2, <1>10, <1>14
  <2> QED
    BY <1>2, <1>3, <1>10, <2>1, <2>2, <2>3, <2>5, <2>6, <2>7 DEF PagingRight
<1> QED
  BY <1>11, <1>13, <1>17 DEF PullsInv

LEMMA PullsStepInv == PullsInv /\ [PullsNext]_pvars => PullsInv'
<1> SUFFICES ASSUME PullsInv, [PullsNext]_pvars
             PROVE  PullsInv'
  OBVIOUS
<1> USE PullRequestSyncAssumption
<1>0. /\ PullsTypeOK /\ Clocked /\ NoUpdateSkipped /\ PagingRight(pullSync) /\ pullSync \in PagingType
      /\ clock \in Nat /\ pullCheckpoint \in Nat /\ updated \in [Pulls -> Nat] /\ edits \in [Pulls -> Nat]
      /\ pullRow \in [Pulls -> Nat] /\ late \subseteq Pulls /\ cut \subseteq Pulls
  BY DEF PullsInv, PullsTypeOK, PagingType
<1>3. ASSUME pullSync' = SyncIdle PROVE PagingRight(pullSync)'
  BY <1>3, IdleType DEF PagingRight
<1>12. \A p \in InList : p \notin Ahead(1)
  BY RankType DEF Ahead, InList
<1>4. CASE Seconds
  <2>1. clock' = clock + 1 /\ UNCHANGED <<updated, edits, pullRow, pullCheckpoint, pullSync, late, cut>>
    BY <1>4 DEF Seconds
  <2>2. PagingRight(pullSync)'
    BY <1>0, <2>1 DEF PagingRight, PagingType, Shows, InList, Ahead, Rank, Newer
  <2> QED
    BY <1>0, <2>1, <2>2 DEF PullsInv, PullsTypeOK, Clocked, NoUpdateSkipped
<1>5. ASSUME NEW p \in Pulls, Edit(p)
      PROVE  PullsInv'
  BY <1>5, EditStep
<1>6. CASE BeginSync
  <2>1. /\ pullSync' = Syncing("paging", pullCheckpoint, 1, pullCheckpoint, NoPulls)
        /\ UNCHANGED <<clock, updated, edits, pullRow, pullCheckpoint, late, cut>>
    BY <1>6 DEF BeginSync
  <2>2. /\ pullSync' \in PagingType /\ pullSync'.pc = "paging" /\ pullSync'.since = pullCheckpoint
        /\ pullSync'.page = 1 /\ pullSync'.max = pullCheckpoint /\ pullSync'.out = NoPulls
    BY <1>0, <2>1, IdleType DEF Syncing, PagingType
  <2>3. Ahead(pullSync.page)' = Ahead(1) /\ InList' = InList
    BY <2>1, <2>2 DEF Ahead, InList, Rank, Newer
  <2>5. \A p \in Pulls : ~(pullSync'.out[p] > 0)
    BY <2>2, IdleType
  <2>6. \A p \in InList' : p \notin Ahead(pullSync.page)'
    BY <1>12, <2>3
  <2>7. pullSync'.max <= clock'
    BY <1>0, <2>1, <2>2 DEF Clocked
  <2>4. PagingRight(pullSync)'
    BY <1>0, <2>1, <2>2, <2>5, <2>6, <2>7 DEF PagingRight
  <2> QED
    BY <1>0, <2>1, <2>2, <2>4 DEF PullsInv, PullsTypeOK, PagingType, Clocked, NoUpdateSkipped
<1>7. CASE ReadPage
  BY <1>7, ReadStep
<1>8. CASE StorePulls
  <2>1. /\ pullSync.pc = "storing"
        /\ pullRow' = [p \in Pulls |-> IF pullSync.out[p] > 0 THEN pullSync.out[p] ELSE pullRow[p]]
        /\ pullSync' = Syncing("saving", pullSync.since, pullSync.page, pullSync.max, NoPulls)
        /\ late' = {p \in late : pullRow'[p] # edits[p]} /\ cut' = {p \in cut : pullRow'[p] # edits[p]}
        /\ UNCHANGED <<clock, updated, edits, pullCheckpoint>>
    BY <1>8 DEF StorePulls
  <2>2. pullSync.since \in Nat /\ pullSync.page \in Nat /\ pullSync.max \in Nat /\ pullSync.out \in [Pulls -> Nat]
    BY <1>0 DEF PagingType
  <2>3. pullSync' \in PagingType /\ pullSync'.pc = "saving" /\ pullSync'.max = pullSync.max
    BY <2>1, <2>2, IdleType DEF Syncing, PagingType
  <2>4. pullRow' \in [Pulls -> Nat]
    BY <1>0, <2>1, <2>2
  <2>5. ASSUME NEW p \in InList, updated[p] <= pullCheckpoint \/ updated[p] <= pullSync.max
        PROVE  pullRow'[p] = edits[p] \/ p \in late' \cup cut'
    <3>1. p \in Pulls /\ edits[p] > 0 /\ edits[p] \in Nat /\ updated[p] \in Nat
      BY <1>0 DEF InList
    <3>2. CASE updated[p] <= pullCheckpoint
      <4>1. ~(pullSync.out[p] > 0)
        BY <1>0, <2>1, <3>1, <3>2 DEF PagingRight
      <4>2. pullRow[p] = edits[p] \/ p \in late \cup cut
        BY <1>0, <3>1, <3>2 DEF NoUpdateSkipped
      <4> QED
        BY <2>1, <3>1, <4>1, <4>2
    <3>3. CASE updated[p] > pullCheckpoint /\ updated[p] <= pullSync.max
      <4>1. pullSync.out[p] = edits[p] \/ p \in late \cup cut
        BY <1>0, <2>1, <3>3 DEF PagingRight, Shows
      <4> QED
        BY <2>1, <3>1, <4>1
    <3> QED
      BY <1>0, <2>2, <2>5, <3>1, <3>2, <3>3
  <2>6. NoUpdateSkipped'
    BY <2>1, <2>5 DEF NoUpdateSkipped, InList
  <2>7. InList' = InList
    BY <2>1 DEF InList
  <2>8. Shows(pullRow, 0, pullSync.max)'
    BY <2>1, <2>3, <2>5, <2>7 DEF Shows
  <2>9. PagingRight(pullSync)'
    BY <1>0, <2>1, <2>3, <2>8 DEF PagingRight
  <2> QED
    BY <1>0, <2>1, <2>3, <2>4, <2>6, <2>9 DEF PullsInv, PullsTypeOK, PagingType, Clocked
<1>9. CASE SaveCheckpoint
  <2>1. /\ pullSync.pc = "saving" /\ pullCheckpoint' = pullSync.max /\ pullSync' = SyncIdle
        /\ UNCHANGED <<clock, updated, edits, pullRow, late, cut>>
    BY <1>9 DEF SaveCheckpoint
  <2>2. NoUpdateSkipped'
    BY <1>0, <2>1 DEF NoUpdateSkipped, PagingRight, Shows, Clocked, InList
  <2> QED
    BY <1>0, <1>3, <2>1, <2>2, IdleType DEF PullsInv, PullsTypeOK, PagingType, Clocked, PagingRight
<1>10. CASE AbortSync
  <2>1. /\ pullSync' = SyncIdle
        /\ late' = {p \in late : updated[p] <= pullCheckpoint} /\ cut' = {p \in cut : updated[p] <= pullCheckpoint}
        /\ UNCHANGED <<clock, updated, edits, pullRow, pullCheckpoint>>
    BY <1>10 DEF AbortSync
  <2>2. NoUpdateSkipped'
    BY <1>0, <2>1 DEF NoUpdateSkipped
  <2> QED
    BY <1>0, <1>3, <2>1, <2>2, IdleType DEF PullsInv, PullsTypeOK, PagingType, Clocked
<1>11. CASE UNCHANGED pvars
  BY <1>0, <1>11 DEF pvars, PullsInv, PullsTypeOK, Clocked, NoUpdateSkipped, PagingRight, Shows,
    InList, Ahead, Rank, Newer
<1> QED
  BY <1>4, <1>5, <1>6, <1>7, <1>8, <1>9, <1>10, <1>11 DEF PullsNext, PullsWorld, PullsStep

(* The checkpoint leaves no update behind, save the late ones and those that a *)
(* sync's last page cuts off, for any number of pull requests and any paging   *)
(* (processKey of source.github.pull-requests).                                *)
THEOREM NoUpdateEverSkipped == PullsSpec => []NoUpdateSkipped
<1>1. PullsInv => NoUpdateSkipped
  BY DEF PullsInv
<1> QED
  BY <1>1, InitPulls, PullsStepInv, PTL DEF PullsSpec

-----------------------------------------------------------------------------
(* All of them: a step is one of the part the process was started for, and the *)
(* others keep what they have.                                                 *)

SourcesInv ==
  /\ command \in {"runs", "migrate", "pull-requests", "tests-daily"}
  /\ IngestInv
  /\ MigratingInv
  /\ PullsInv
  /\ DailyInv

LEMMA InitSources == SourcesInit => SourcesInv
BY InitIngest, InitMigrating, InitPulls, InitDaily DEF SourcesInit, SourcesInv

LEMMA SourcesParts ==
  [SourcesNext]_<<command, vars, mvars, pvars, tvars>> =>
    /\ command' = command
    /\ [Next]_vars /\ [MigrationsNext]_mvars /\ [PullsNext]_pvars /\ [TestsNext]_tvars
BY DEF SourcesNext

LEMMA SourcesStep ==
  SourcesInv /\ [SourcesNext]_<<command, vars, mvars, pvars, tvars>> => SourcesInv'
BY SourcesParts, IngestStep, MigratingStep, PullsStepInv, DailyStep DEF SourcesInv

LEMMA SourcesAlways == SourcesSpec => []SourcesInv
BY InitSources, SourcesStep, PTL DEF SourcesSpec

(* Whatever a process is started for, every variable has its type.             *)
THEOREM SourcesTyped == SourcesSpec => []SourcesTypeOK
<1>1. SourcesInv => SourcesTypeOK
  BY DEF SourcesInv, SourcesTypeOK, IngestInv, MigratingInv, PullsInv, DailyInv
<1> QED
  BY <1>1, SourcesAlways, PTL

(* The parts keep their promises in the process they are composed in: no run   *)
(* and no update is skipped, a sync finds all, the schema is exact, and the    *)
(* rows of a date stay.                                                        *)
THEOREM SourcesSafe ==
  SourcesSpec => /\ [](NothingSkipped /\ SyncFindsAll /\ SchemaExact /\ NoUpdateSkipped)
                 /\ DatapointFrozen
<1>1. SourcesInv => NothingSkipped /\ SyncFindsAll /\ SchemaExact /\ NoUpdateSkipped
  BY NothingLeft, AllFound DEF SourcesInv, MigratingInv, PullsInv
<1>2. SourcesInv /\ [SourcesNext]_<<command, vars, mvars, pvars, tvars>> =>
        [\A d \in 1..LastDay, p \in DOMAIN Periods :
           HasTests(rows[d][p]) => rows'[d][p] = rows[d][p]]_tvars
  BY SourcesParts, DailyFrozen DEF SourcesInv
<1> QED
  BY <1>1, <1>2, SourcesAlways, PTL DEF SourcesSpec, DatapointFrozen
=============================================================================
