------------------------- MODULE FailureFacts_proofs -------------------------
(* The failures pipeline is right for any runs, artifacts and failures, any    *)
(* retry window and any number of corrections.                                 *)
EXTENDS FailureFacts, TLAPS

-----------------------------------------------------------------------------
(* Types.                                                                      *)

LEMMA ExpectedType ==
  ASSUME NEW found \in BOOLEAN, NEW t \in Times \cup {NoTime},
         NEW artifacts \in SUBSET (Failures \cup {Marker})
  PROVE  /\ Expected(found, t, artifacts) \subseteq RawFailure
         /\ Expected(found, t, artifacts) # {} => artifacts # {}
BY DEF Expected, RawFailure

LEMMA TypeStep == TypeOK /\ [Next]_vars => TypeOK'
<1> SUFFICES ASSUME TypeOK, [Next]_vars
             PROVE  TypeOK'
  OBVIOUS
<1> USE FailuresAssumption DEF TypeOK, Fetch, FetchAt, Derive, DeriveAt
<1>1. CASE Environment
  <2>1. ASSUME NEW r \in Runs, NEW failed \in BOOLEAN, NEW t \in Times,
               RunChanges(r, failed, t)
        PROVE  TypeOK'
    BY <2>1 DEF RunChanges, RunRow
  <2>2. ASSUME NEW r \in Runs, NEW p \in Paths, NEW outcome \in Outcomes,
               NEW failures \in SUBSET Failures, Upload(r, p, outcome, failures)
        PROVE  TypeOK'
    <3> DEFINE file == [outcome |-> outcome, failures |-> failures]
    <3>1. artifact' = [artifact EXCEPT ![r][p] = file]
      BY <2>2 DEF Upload
    <3>2. artifact[r] \in [Paths -> [outcome: Outcomes, failures: SUBSET Failures]]
      OBVIOUS
    <3>3. file \in [outcome: Outcomes, failures: SUBSET Failures]
      OBVIOUS
    <3> HIDE DEF file
    <3>4. artifact' \in [Runs -> [Paths -> [outcome: Outcomes, failures: SUBSET Failures]]]
      BY <3>1, <3>2, <3>3
    <3> QED
      BY <2>2, <3>4 DEF Upload
  <2>3. ASSUME NEW r \in Runs, Expire(r)
        PROVE  TypeOK'
    BY <2>3 DEF Expire
  <2>4. CASE Tick
    BY <2>4 DEF Tick
  <2>5. CASE Restart
    BY <2>5 DEF Restart, world
  <2> QED
    BY <1>1, <2>1, <2>2, <2>3, <2>4, <2>5 DEF Environment
<1>2. ASSUME NEW r \in Runs, FetchStep(r)
      PROVE  TypeOK'
  <2>1. CASE FetchEnqueue(r)
    BY <2>1 DEF FetchEnqueue, world
  <2>2. CASE FetchStart(r)
    BY <2>2 DEF FetchStart, world
  <2>3. CASE FetchFails(r)
    BY <2>3 DEF FetchFails, world
  <2>4. CASE FetchFinish(r)
    <3>1. rows' \in [Runs -> SUBSET (Failures \cup {Marker})] /\ firstSeen' \in [Runs -> Nat]
      <4>1. \/ \E new \in SUBSET (Failures \cup {Marker}) : Store(r, new)
            \/ /\ firstSeen' = [firstSeen EXCEPT ![r] = IF @ = Never THEN now ELSE @]
               /\ UNCHANGED rows
        BY <2>4 DEF FetchFinish, WaitOrMark
      <4>2. ASSUME NEW new \in SUBSET (Failures \cup {Marker}), Store(r, new)
            PROVE  rows' \in [Runs -> SUBSET (Failures \cup {Marker})] /\ firstSeen' = firstSeen
        BY <4>2 DEF Store
      <4> QED
        BY <4>1, <4>2
    <3> QED
      BY <2>4, <3>1 DEF FetchFinish, world
  <2>5. ASSUME NEW p \in Paths, FetchPath(r, p)
        PROVE  TypeOK'
    <3>1. artifact[r][p].failures \subseteq Failures
      OBVIOUS
    <3>2. (fetch[r].forbidden \/ artifact[r][p].outcome = "forbidden") \in BOOLEAN
      BY Zenon
    <3>3. fetch[r].todo \ {p} \subseteq Paths
      OBVIOUS
    <3>4. fetch[r].got \cup artifact[r][p].failures \subseteq Failures
      BY <3>1
    <3> DEFINE forbidden == fetch[r].forbidden \/ artifact[r][p].outcome = "forbidden"
               todo == fetch[r].todo \ {p}
               got == fetch[r].got \cup artifact[r][p].failures
    <3>5. fetch' = [fetch EXCEPT ![r] = Fetch("listing", todo, got, forbidden, fetch[r].err)]
      BY <2>5 DEF FetchPath
    <3>6. UNCHANGED <<world, rows, firstSeen, raw, derive>>
      BY <2>5 DEF FetchPath
    <3>7. forbidden \in BOOLEAN /\ todo \subseteq Paths /\ got \subseteq Failures
      BY <3>2, <3>3, <3>4
    <3> HIDE DEF forbidden, todo, got
    <3> QED
      BY <3>5, <3>6, <3>7 DEF world
  <2>6. ASSUME NEW p \in Paths, FetchPathFails(r, p)
        PROVE  TypeOK'
    BY <2>6 DEF FetchPathFails, world
  <2> QED
    BY <1>2, <2>1, <2>2, <2>3, <2>4, <2>5, <2>6 DEF FetchStep
<1>3. ASSUME NEW r \in Runs, DeriveStep(r)
      PROVE  TypeOK'
  <2>1. CASE DeriveEnqueue(r)
    BY <2>1 DEF DeriveEnqueue, world
  <2>2. CASE DeriveGetRun(r)
    BY <2>2 DEF DeriveGetRun, RunRow, world
  <2>3. CASE DeriveListArtifacts(r)
    BY <2>3, ExpectedType DEF DeriveListArtifacts, world
  <2>4. CASE DeriveCompare(r)
    BY <2>4 DEF DeriveCompare, world
  <2>5. CASE DeriveUpsert(r)
    BY <2>5 DEF DeriveUpsert, world
  <2>6. CASE DeriveFails(r)
    BY <2>6 DEF DeriveFails, world
  <2> QED
    BY <1>3, <2>1, <2>2, <2>3, <2>4, <2>5, <2>6 DEF DeriveStep
<1>4. CASE UNCHANGED vars
  BY <1>4 DEF vars, world
<1> QED
  BY <1>1, <1>2, <1>3, <1>4 DEF Next

(* Every variable keeps its type.                                              *)
THEOREM TypeCorrect == Spec => []TypeOK
<1>1. Init => TypeOK
  BY FailuresAssumption
     DEF Init, TypeOK, RunRow, Outcomes, Fetch, FetchAt, Derive, DeriveAt, Never
<1> QED
  BY <1>1, TypeStep, PTL DEF Spec

-----------------------------------------------------------------------------
(* The artifact rows of a run.                                                 *)

(* While a run is listed it has no artifact rows, as only the listing itself    *)
(* stores some; a forbidden path was really one.                               *)
ListingInv ==
  \A r \in Runs : fetch[r].pc = "listing" =>
    /\ rows[r] = {}
    /\ fetch[r].forbidden => \E p \in Paths : artifact[r][p].outcome = "forbidden"

(* A forbidden artifact stays forbidden (nothing is uploaded over it).          *)
LEMMA ForbiddenStays ==
  ASSUME TypeOK, [Next]_vars, NEW r \in Runs, NEW p \in Paths,
         artifact[r][p].outcome = "forbidden"
  PROVE  artifact'[r][p].outcome = "forbidden"
<1>1. CASE artifact' = artifact
  BY <1>1
<1>2. ASSUME NEW q \in Runs, NEW o \in Paths, NEW outcome, NEW failures,
             Upload(q, o, outcome, failures)
      PROVE  artifact'[r][p].outcome = "forbidden"
  <2>1. /\ artifact[q][o].outcome = "missing"
        /\ artifact' = [artifact EXCEPT ![q][o] =
                          [outcome |-> outcome, failures |-> failures]]
    BY <1>2 DEF Upload
  <2>2. q # r \/ o # p
    BY <2>1
  <2>3. artifact \in [Runs -> [Paths -> [outcome: Outcomes, failures: SUBSET Failures]]]
    BY DEF TypeOK
  <2> QED
    BY <2>1, <2>2, <2>3
<1>3. \/ artifact' = artifact
      \/ \E q \in Runs, o \in Paths, outcome \in Outcomes, failures \in SUBSET Failures :
            Upload(q, o, outcome, failures)
  BY DEF Next, Environment, RunChanges, Expire, Tick, Restart, FetchStep, FetchEnqueue,
         FetchStart, FetchPath, FetchPathFails, FetchFinish, FetchFails, DeriveStep,
         DeriveEnqueue, DeriveGetRun, DeriveListArtifacts, DeriveCompare, DeriveUpsert,
         DeriveFails, vars, world
<1> QED
  BY <1>1, <1>2, <1>3

(* Only the end of a listing touches artifact rows and retry checkpoints.      *)
LEMMA RowsShape ==
  [Next]_vars => \/ UNCHANGED <<rows, firstSeen>>
                 \/ \E r \in Runs : FetchFinish(r)
BY DEF Next, Environment, RunChanges, Upload, Expire, Tick, Restart, FetchStep, FetchEnqueue,
       FetchStart, FetchPath, FetchPathFails, FetchFails, DeriveStep, DeriveEnqueue,
       DeriveGetRun, DeriveListArtifacts, DeriveCompare, DeriveUpsert, DeriveFails, vars, world

(* The end of a listing gives rows to its run or keeps its retry checkpoint.   *)
LEMMA FinishShape ==
  ASSUME TypeOK, NEW r \in Runs, FetchFinish(r)
  PROVE  /\ \A q \in Runs : q # r => rows'[q] = rows[q] /\ firstSeen'[q] = firstSeen[q]
         /\ firstSeen[r] # Never => firstSeen'[r] = firstSeen[r]
         /\ Marker \in rows'[r] =>
              \/ Marker \in rows[r]
              \/ fetch[r].forbidden
              \/ RetryWindow = 0
              \/ firstSeen'[r] # Never /\ now - firstSeen'[r] >= RetryWindow
<1> USE DEF TypeOK
<1>1. ASSUME NEW new \in SUBSET (Failures \cup {Marker}), Store(r, new)
      PROVE  /\ \A q \in Runs : q # r => rows'[q] = rows[q]
             /\ rows'[r] = rows[r] \cup new
             /\ firstSeen' = firstSeen
  BY <1>1 DEF Store
<1>2. CASE fetch[r].got # {}
  <2>1. Store(r, fetch[r].got)
    BY <1>2 DEF FetchFinish
  <2>2. Marker \notin fetch[r].got
    BY FailuresAssumption
  <2> QED
    BY <1>1, <2>1, <2>2
<1>3. CASE fetch[r].got = {} /\ fetch[r].forbidden
  <2>1. Store(r, {Marker})
    BY <1>3 DEF FetchFinish
  <2> QED
    BY <1>1, <1>3, <2>1
<1>4. CASE fetch[r].got = {} /\ ~fetch[r].forbidden
  <2>1. WaitOrMark(r)
    BY <1>4 DEF FetchFinish
  <2>2. CASE Store(r, {Marker}) /\ (RetryWindow = 0 \/ (/\ firstSeen[r] # Never
                                                      /\ now - firstSeen[r] >= RetryWindow))
    BY <1>1, <2>2
  <2>3. CASE /\ firstSeen' = [firstSeen EXCEPT ![r] = IF @ = Never THEN now ELSE @]
             /\ UNCHANGED rows
    BY <2>3
  <2> QED
    BY <2>1, <2>2, <2>3 DEF WaitOrMark
<1> QED
  BY <1>2, <1>3, <1>4

LEMMA ListingStep == TypeOK /\ ListingInv /\ [Next]_vars => ListingInv'
<1> SUFFICES ASSUME TypeOK, ListingInv, [Next]_vars,
                    NEW r \in Runs, fetch'[r].pc = "listing"
             PROVE  /\ rows'[r] = {}
                    /\ fetch'[r].forbidden => \E p \in Paths : artifact'[r][p].outcome = "forbidden"
  BY DEF ListingInv
<1> USE DEF TypeOK, Fetch, FetchAt
<1>1. CASE fetch'[r] = fetch[r] /\ rows'[r] = rows[r]
  BY <1>1, ForbiddenStays DEF ListingInv
<1>2. ASSUME NEW q \in Runs, q # r, FetchStep(q)
      PROVE  fetch'[r] = fetch[r] /\ rows'[r] = rows[r]
  <2>1. fetch'[r] = fetch[r]
    BY <1>2 DEF FetchStep, FetchEnqueue, FetchStart, FetchPath, FetchPathFails, FetchFinish,
                FetchFails
  <2>2. rows'[r] = rows[r]
    <3>1. rows' = rows \/ FetchFinish(q)
      BY <1>2 DEF FetchStep, FetchEnqueue, FetchStart, FetchPath, FetchPathFails, FetchFails
    <3> QED
      BY <1>2, <3>1, FinishShape
  <2> QED
    BY <2>1, <2>2
<1>3. CASE FetchEnqueue(r) \/ FetchFails(r) \/ FetchFinish(r) \/ Restart
  BY <1>3 DEF FetchEnqueue, FetchFails, FetchFinish, Restart
<1>4. CASE FetchStart(r)
  BY <1>4 DEF FetchStart
<1>5. ASSUME NEW p \in Paths, FetchPath(r, p)
      PROVE  /\ rows'[r] = {}
             /\ fetch'[r].forbidden => \E o \in Paths : artifact'[r][o].outcome = "forbidden"
  <2>1. /\ fetch[r].pc = "listing"
        /\ UNCHANGED <<artifact, rows>>
        /\ fetch'[r].forbidden <=> (fetch[r].forbidden \/ artifact[r][p].outcome = "forbidden")
    BY <1>5 DEF FetchPath, world
  <2> QED
    BY <2>1 DEF ListingInv
<1>6. ASSUME NEW p \in Paths, FetchPathFails(r, p)
      PROVE  /\ rows'[r] = {}
             /\ fetch'[r].forbidden => \E o \in Paths : artifact'[r][o].outcome = "forbidden"
  <2>1. /\ fetch[r].pc = "listing"
        /\ UNCHANGED <<artifact, rows>>
        /\ fetch'[r].forbidden <=> fetch[r].forbidden
    BY <1>6 DEF FetchPathFails, world
  <2> QED
    BY <2>1 DEF ListingInv
<1>7. CASE \/ \E q \in Runs, failed \in BOOLEAN, t \in Times : RunChanges(q, failed, t)
           \/ \E q \in Runs, p \in Paths, outcome \in Outcomes, failures \in SUBSET Failures :
                Upload(q, p, outcome, failures)
           \/ \E q \in Runs : Expire(q) \/ DeriveStep(q)
           \/ Tick
           \/ UNCHANGED vars
  <2>1. UNCHANGED <<fetch, rows>>
    BY <1>7 DEF RunChanges, Upload, Expire, Tick, DeriveStep, DeriveEnqueue, DeriveGetRun,
                DeriveListArtifacts, DeriveCompare, DeriveUpsert, DeriveFails, vars
  <2> QED
    BY <1>1, <2>1
<1> QED
  BY <1>1, <1>2, <1>3, <1>4, <1>5, <1>6, <1>7 DEF Next, Environment, FetchStep

LEMMA ListingInvariant == Spec => [](TypeOK /\ ListingInv)
<1>1. Init => ListingInv
  BY DEF Init, ListingInv, Fetch, FetchAt
<1> QED
  BY <1>1, TypeCorrect, TypeStep, ListingStep, PTL DEF Spec

LEMMA FinalStep ==
  ASSUME TypeOK, ListingInv, [Next]_vars, NEW r \in Runs, rows[r] # {}
  PROVE  rows'[r] = rows[r]
<1>1. ASSUME NEW q \in Runs, FetchFinish(q)
      PROVE  rows'[r] = rows[r]
  <2>1. rows[q] = {}
    BY <1>1 DEF FetchFinish, ListingInv
  <2> QED
    BY <1>1, <2>1, FinishShape
<1> QED
  BY <1>1, RowsShape

(* A run that has artifact rows, or the marker of missing ones, keeps them.    *)
THEOREM ArtifactRowsNeverChange == Spec => ArtifactRowsFinal
<1>1. TypeOK /\ ListingInv /\ [Next]_vars
        => [\A r \in Runs : rows[r] # {} => rows'[r] = rows[r]]_vars
  BY FinalStep
<1> QED
  BY <1>1, ListingInvariant, PTL DEF Spec, ArtifactRowsFinal

(* The marker is only stored for a forbidden artifact or after the retry       *)
(* window that began with the first look at the run without failures.          *)
THEOREM MarkersEarned == Spec => []MarkerEarned
<1>1. Init => MarkerEarned
  BY FailuresAssumption DEF Init, MarkerEarned
<1>2. TypeOK /\ ListingInv /\ MarkerEarned /\ [Next]_vars => MarkerEarned'
  <2> SUFFICES ASSUME TypeOK, ListingInv, MarkerEarned, [Next]_vars,
                      NEW r \in Runs, Marker \in rows'[r]
               PROVE  \/ \E p \in Paths : artifact'[r][p].outcome = "forbidden"
                      \/ RetryWindow = 0
                      \/ firstSeen'[r] # Never /\ now' >= firstSeen'[r] + RetryWindow
    BY DEF MarkerEarned
  <2>1. now \in Nat /\ now' \in Nat /\ now' >= now /\ RetryWindow \in Nat
    <3>1. now \in Nat
      BY DEF TypeOK
    <3>2. now' = now \/ now' = now + 1
      BY DEF Next, Environment, RunChanges, Upload, Expire, Tick, Restart, FetchStep,
             FetchEnqueue, FetchStart, FetchPath, FetchPathFails, FetchFinish, FetchFails,
             DeriveStep, DeriveEnqueue, DeriveGetRun, DeriveListArtifacts, DeriveCompare,
             DeriveUpsert, DeriveFails, vars, world
    <3> QED
      BY <3>1, <3>2, FailuresAssumption
  <2>2. firstSeen[r] \in Nat /\ firstSeen'[r] \in Nat
    BY TypeStep DEF TypeOK
  <2>3. CASE rows'[r] = rows[r] /\ firstSeen'[r] = firstSeen[r]
    BY <2>1, <2>2, <2>3, ForbiddenStays DEF MarkerEarned
  <2>4. CASE FetchFinish(r)
    <3>1. rows[r] = {}
      BY <2>4 DEF FetchFinish, ListingInv
    <3>2. \/ fetch[r].forbidden
          \/ RetryWindow = 0
          \/ firstSeen'[r] # Never /\ now - firstSeen'[r] >= RetryWindow
      BY <2>4, <3>1, FinishShape
    <3>3. fetch[r].forbidden => \E p \in Paths : artifact'[r][p].outcome = "forbidden"
      BY <2>4, ForbiddenStays DEF FetchFinish, ListingInv
    <3>4. now - firstSeen'[r] >= RetryWindow => now' >= firstSeen'[r] + RetryWindow
      BY <2>1, <2>2
    <3> QED
      BY <3>2, <3>3, <3>4
  <2>5. ASSUME NEW q \in Runs, q # r, FetchFinish(q)
        PROVE  rows'[r] = rows[r] /\ firstSeen'[r] = firstSeen[r]
    BY <2>5, FinishShape
  <2> QED
    BY <2>3, <2>4, <2>5, RowsShape
<1> QED
  BY <1>1, <1>2, ListingInvariant, PTL DEF Spec

-----------------------------------------------------------------------------
(* The raw failures of a run.                                                  *)

From(artifacts, x) ==  \* x is what is expected of the artifact rows
  \E found \in BOOLEAN, t \in Times \cup {NoTime} : x = Expected(found, t, artifacts)

DeriveInv ==
  \A r \in Runs : derive[r].pc \in {"have", "write"} =>
    derive[r].expected # {} /\ From(rows[r], derive[r].expected)

(* What was derived from rows stays derived from them: they are final.         *)
LEMMA FromStays ==
  ASSUME TypeOK, ListingInv, [Next]_vars, NEW r \in Runs, NEW x, x # {}, From(rows[r], x)
  PROVE  From(rows'[r], x)
<1>1. PICK found \in BOOLEAN, t \in Times \cup {NoTime} : x = Expected(found, t, rows[r])
  BY DEF From
<1>2. rows[r] # {}
  BY <1>1 DEF Expected
<1>3. rows'[r] = rows[r]
  BY <1>2, FinalStep
<1> QED
  BY <1>1, <1>3 DEF From

LEMMA DeriveInvStep == TypeOK /\ ListingInv /\ DeriveInv /\ [Next]_vars => DeriveInv'
<1> SUFFICES ASSUME TypeOK, ListingInv, DeriveInv, [Next]_vars,
                    NEW r \in Runs, derive'[r].pc \in {"have", "write"}
             PROVE  derive'[r].expected # {} /\ From(rows'[r], derive'[r].expected)
  BY DEF DeriveInv
<1> USE DEF Derive, DeriveAt
<1>0. derive \in [Runs -> [pc: {"idle", "queued", "got", "have", "write"}, found: BOOLEAN,
                          occurred: Times \cup {NoTime}, expected: SUBSET RawFailure]]
  BY DEF TypeOK
<1>1. CASE /\ derive[r].pc \in {"have", "write"}
           /\ derive'[r].expected = derive[r].expected
  BY <1>1, FromStays DEF DeriveInv
<1>2. CASE DeriveListArtifacts(r)
  <2> DEFINE expected == Expected(derive[r].found, derive[r].occurred, rows[r])
  <2>1. expected # {} /\ derive'[r].expected = expected /\ rows' = rows
    BY <1>0, <1>2 DEF DeriveListArtifacts
  <2>2. derive[r].found \in BOOLEAN /\ derive[r].occurred \in Times \cup {NoTime}
    BY <1>0
  <2> QED
    BY <2>1, <2>2 DEF From
<1>3. CASE DeriveCompare(r)
  BY <1>0, <1>1, <1>3 DEF DeriveCompare
<1>4. CASE DeriveEnqueue(r) \/ DeriveGetRun(r) \/ DeriveUpsert(r) \/ DeriveFails(r) \/ Restart
  BY <1>0, <1>4 DEF DeriveEnqueue, DeriveGetRun, DeriveUpsert, DeriveFails, Restart
<1>5. ASSUME NEW q \in Runs, q # r, DeriveStep(q)
      PROVE  derive'[r] = derive[r]
  BY <1>0, <1>5 DEF DeriveStep, DeriveEnqueue, DeriveGetRun, DeriveListArtifacts, DeriveCompare,
                    DeriveUpsert, DeriveFails
<1>6. CASE \/ \E q \in Runs, failed \in BOOLEAN, t \in Times : RunChanges(q, failed, t)
           \/ \E q \in Runs, p \in Paths, outcome \in Outcomes, failures \in SUBSET Failures :
                Upload(q, p, outcome, failures)
           \/ \E q \in Runs : Expire(q) \/ FetchStep(q)
           \/ Tick
           \/ UNCHANGED vars
  <2>1. UNCHANGED derive
    BY <1>6 DEF RunChanges, Upload, Expire, Tick, FetchStep, FetchEnqueue, FetchStart,
                FetchPath, FetchPathFails, FetchFinish, FetchFails, vars
  <2> QED
    BY <1>1, <2>1
<1> QED
  BY <1>1, <1>2, <1>3, <1>4, <1>5, <1>6 DEF Next, Environment, DeriveStep

(* The raw failures of a run are those of the artifact rows that are stored,    *)
(* although they were computed from what was read some steps before.           *)
THEOREM RawAlwaysFollows == Spec => []RawFollowsArtifacts
<1>1. Init => DeriveInv /\ RawFollowsArtifacts
  BY DEF Init, DeriveInv, RawFollowsArtifacts, Derive, DeriveAt
<1>2. TypeOK /\ ListingInv /\ DeriveInv /\ RawFollowsArtifacts /\ [Next]_vars
        => RawFollowsArtifacts'
  <2> SUFFICES ASSUME TypeOK, ListingInv, DeriveInv, RawFollowsArtifacts, [Next]_vars,
                      NEW r \in Runs, raw'[r] # {}
               PROVE  From(rows'[r], raw'[r])
    BY DEF RawFollowsArtifacts, From
  <2>1. CASE raw'[r] = raw[r]
    BY <2>1, FromStays DEF RawFollowsArtifacts, From
  <2>2. CASE DeriveUpsert(r)
    <3>1. raw'[r] = derive[r].expected /\ derive[r].pc = "write"
      BY <2>2 DEF DeriveUpsert, TypeOK
    <3> QED
      BY <3>1, FromStays DEF DeriveInv
  <2>3. ASSUME NEW q \in Runs, q # r, DeriveUpsert(q)
        PROVE  raw'[r] = raw[r]
    BY <2>3 DEF DeriveUpsert, TypeOK
  <2>4. raw' = raw \/ \E q \in Runs : DeriveUpsert(q)
    BY DEF Next, Environment, RunChanges, Upload, Expire, Tick, Restart, FetchStep,
           FetchEnqueue, FetchStart, FetchPath, FetchPathFails, FetchFinish, FetchFails,
           DeriveStep, DeriveEnqueue, DeriveGetRun, DeriveListArtifacts, DeriveCompare,
           DeriveFails, vars
  <2> QED
    BY <2>1, <2>2, <2>3, <2>4
<1> QED
  BY <1>1, <1>2, ListingInvariant, DeriveInvStep, PTL DEF Spec
==============================================================================
