---------------------------- MODULE FailureFacts ----------------------------
(* From the JUnit files of a failed run to its raw failures:                 *)
(*                                                                           *)
(*   source.prow.failures  lists the failures in the JUnit artifacts of a    *)
(*                         failed run and stores them, or a terminal marker  *)
(*                         when there are none to be had;                    *)
(*   facts.raw-failures    derives the raw failures of the run from those    *)
(*                         rows and from the run row.                        *)
(*                                                                           *)
(* Artifacts appear, runs are corrected and steps fail while they run.  One  *)
(* worker of each controller has a key at a time (module WorkQueue).         *)
EXTENDS Naturals, FiniteSets

CONSTANTS
  Runs,         \* run keys (environment, run_url)
  ImportedRuns, \* runs whose artifact rows a legacy import may have brought
  Paths,        \* JUnit artifact paths of a run
  Failures,     \* failed test cases
  PathOf,       \* [Failures -> Paths], the file a test case is in
  Illegible,    \* failures whose text is empty once normalised (say, colour codes)
  Marker,       \* the row that stands for missing artifacts
  Synthetic,    \* the raw failure of a run without artifacts
  Times,        \* what occurred_at of a run can be
  NoTime,       \* occurred_at of a run that has no row
  RetryWindow,  \* --source.prow.artifact-retry-window
  MaxTime,      \* bound on the clock
  MaxChanges    \* bound on the changes of run rows

ASSUME FailuresAssumption ==
  /\ ImportedRuns \subseteq Runs
  /\ PathOf \in [Failures -> Paths]
  /\ Illegible \subseteq Failures
  /\ Marker \notin Failures
  /\ Synthetic \notin Failures
  /\ NoTime \notin Times
  /\ RetryWindow \in Nat /\ MaxTime \in Nat /\ MaxChanges \in Nat

VARIABLES
  now,       \* the clock
  changes,   \* number of changes of run rows
  active,    \* runs within the history window
  run,       \* run[r]: the row of r in cfa_runs, in part
  artifact,  \* artifact[r][p]: what fetching path p of run r gives
  rows,      \* rows[r]: cfa_artifact_failures of r
  firstSeen, \* firstSeen[r]: the retry checkpoint of r, 0 when there is none
  raw,       \* raw[r]: cfa_raw_failures of r
  fetch,     \* fetch[r]: source.prow.failures on key r
  derive     \* derive[r]: facts.raw-failures on key r

world == <<now, changes, active, run, artifact>>
vars == <<world, rows, firstSeen, raw, fetch, derive>>

Never == 0
Outcomes == {"missing", "forbidden", "invalid", "found"}
RunRow == [stored: BOOLEAN, failed: BOOLEAN, occurred: Times \cup {NoTime}]
RawFailure == [id: Failures \cup {Synthetic}, occurred: Times \cup {NoTime}]

FailuresOf(p) == {f \in Failures : PathOf[f] = p}

Fetch(pc, todo, got, forbidden, err) ==
  [pc |-> pc, todo |-> todo, got |-> got, forbidden |-> forbidden, err |-> err]
Derive(pc, found, occurred, expected) ==
  [pc |-> pc, found |-> found, occurred |-> occurred, expected |-> expected]

FetchAt(pc) == Fetch(pc, {}, {}, FALSE, FALSE)
DeriveAt(pc) == Derive(pc, FALSE, NoTime, {})

Init ==
  /\ now = 1 /\ changes = 0
  /\ active = Runs
  /\ run = [r \in Runs |-> [stored |-> FALSE, failed |-> FALSE, occurred |-> NoTime]]
  /\ artifact = [r \in Runs |-> [p \in Paths |-> [outcome |-> "missing", failures |-> {}]]]
  /\ rows \in [Runs -> SUBSET Failures]
  /\ \A r \in Runs : rows[r] # {} => r \in ImportedRuns
  /\ firstSeen = [r \in Runs |-> Never]
  /\ raw = [r \in Runs |-> {}]
  /\ fetch = [r \in Runs |-> FetchAt("idle")]
  /\ derive = [r \in Runs |-> DeriveAt("idle")]

-----------------------------------------------------------------------------
(* The world around the two controllers.                                     *)

(* A run source stores a run or corrects it.                                 *)
RunChanges(r, failed, t) ==
  /\ changes < MaxChanges
  /\ run' = [run EXCEPT ![r] = [stored |-> TRUE, failed |-> failed, occurred |-> t]]
  /\ changes' = changes + 1
  /\ UNCHANGED <<now, active, artifact, rows, firstSeen, raw, fetch, derive>>

Upload(r, p, outcome, failures) ==
  /\ artifact[r][p].outcome = "missing"
  /\ failures \subseteq FailuresOf(p)
  /\ outcome # "found" => failures = {}
  /\ artifact' = [artifact EXCEPT ![r][p] = [outcome |-> outcome, failures |-> failures]]
  /\ UNCHANGED <<now, changes, active, run, rows, firstSeen, raw, fetch, derive>>

Expire(r) ==
  /\ active' = active \ {r}
  /\ UNCHANGED <<now, changes, run, artifact, rows, firstSeen, raw, fetch, derive>>

Tick ==
  /\ now < MaxTime
  /\ now' = now + 1
  /\ UNCHANGED <<changes, active, run, artifact, rows, firstSeen, raw, fetch, derive>>

Restart ==
  /\ fetch' = [r \in Runs |-> FetchAt("idle")]
  /\ derive' = [r \in Runs |-> DeriveAt("idle")]
  /\ UNCHANGED <<world, rows, firstSeen, raw>>

-----------------------------------------------------------------------------
(* source.prow.failures.                                                     *)

FetchEnqueue(r) ==
  /\ fetch[r].pc = "idle"
  /\ run[r].stored /\ run[r].failed /\ r \in active
  /\ fetch' = [fetch EXCEPT ![r] = FetchAt("queued")]
  /\ UNCHANGED <<world, rows, firstSeen, raw, derive>>

(* Fault: the stored rows are not looked at.                                 *)
FetchStartUnchecked(r) ==
  /\ fetch[r].pc = "queued"
  /\ fetch' = [fetch EXCEPT ![r] = Fetch("listing", Paths, {}, FALSE, FALSE)]
  /\ UNCHANGED <<world, rows, firstSeen, raw, derive>>

FetchStart(r) ==
  /\ fetch[r].pc = "queued"
  /\ fetch' = [fetch EXCEPT ![r] = IF rows[r] # {} THEN FetchAt("idle")
                                   ELSE Fetch("listing", Paths, {}, FALSE, FALSE)]
  /\ UNCHANGED <<world, rows, firstSeen, raw, derive>>

(* ListFailures: one path after the other; a test case counts once.          *)
FetchPath(r, p) ==
  LET job == fetch[r]
      file == artifact[r][p] IN
  /\ job.pc = "listing"
  /\ p \in job.todo
  /\ fetch' = [fetch EXCEPT ![r] =
                 Fetch("listing", job.todo \ {p}, job.got \cup file.failures,
                       job.forbidden \/ file.outcome = "forbidden", job.err)]
  /\ UNCHANGED <<world, rows, firstSeen, raw, derive>>

FetchPathFails(r, p) ==
  LET job == fetch[r] IN
  /\ job.pc = "listing"
  /\ p \in job.todo
  /\ fetch' = [fetch EXCEPT ![r] =
                 Fetch("listing", job.todo \ {p}, job.got, job.forbidden, TRUE)]
  /\ UNCHANGED <<world, rows, firstSeen, raw, derive>>

Store(r, new) ==  \* upsert by row id
  /\ rows' = [rows EXCEPT ![r] = @ \cup new]
  /\ UNCHANGED firstSeen

(* Fault: the first look at an empty run is taken for the last.              *)
WaitOrMarkAtOnce(r) == Store(r, {Marker})

(* shouldWriteMissingArtifactMarker, and the marker.                         *)
WaitOrMark(r) ==
  IF RetryWindow = 0 \/ (firstSeen[r] # Never /\ now - firstSeen[r] >= RetryWindow)
  THEN Store(r, {Marker})
  ELSE /\ firstSeen' = [firstSeen EXCEPT ![r] = IF @ = Never THEN now ELSE @]
       /\ UNCHANGED rows

FetchFinish(r) ==
  LET job == fetch[r] IN
  /\ job.pc = "listing"
  /\ job.todo = {}
  /\ ~job.err
  /\ IF job.got # {} THEN Store(r, job.got)
     ELSE IF job.forbidden THEN Store(r, {Marker})
     ELSE WaitOrMark(r)
  /\ fetch' = [fetch EXCEPT ![r] = FetchAt("idle")]
  /\ UNCHANGED <<world, raw, derive>>

(* A path could not be read, the listing timed out or a query failed: the    *)
(* key is retried later.                                                     *)
FetchFails(r) ==
  /\ fetch[r].pc = "listing"
  /\ fetch' = [fetch EXCEPT ![r] = FetchAt("queued")]
  /\ UNCHANGED <<world, rows, firstSeen, raw, derive>>

-----------------------------------------------------------------------------
(* facts.raw-failures.                                                       *)

DeriveEnqueue(r) ==
  /\ derive[r].pc = "idle"
  /\ IF run[r].stored THEN r \in active /\ run[r].failed ELSE rows[r] # {}
  /\ derive' = [derive EXCEPT ![r] = DeriveAt("queued")]
  /\ UNCHANGED <<world, rows, firstSeen, raw, fetch>>

DeriveGetRun(r) ==
  /\ derive[r].pc = "queued"
  /\ derive' = [derive EXCEPT ![r] =
                  IF run[r].stored /\ ~run[r].failed THEN DeriveAt("idle")
                  ELSE Derive("got", run[r].stored, run[r].occurred, {})]
  /\ UNCHANGED <<world, rows, firstSeen, raw, fetch>>

(* Fault: no artifact rows yet is taken for no artifacts.                    *)
ExpectedEagerly(found, occurred, artifacts) ==
  LET ids == artifacts \ (Illegible \cup {Marker}) IN
  {[id |-> f, occurred |-> occurred] :
     f \in IF ids # {} THEN ids ELSE IF found THEN {Synthetic} ELSE {}}

(* Fault: rows without text are not skipped.                                 *)
ExpectedUnfiltered(found, occurred, artifacts) ==
  {[id |-> f, occurred |-> occurred] : f \in artifacts \ Illegible}

(* expectedRawFailureRows.                                                   *)
Expected(found, occurred, artifacts) ==
  LET ids == artifacts \ (Illegible \cup {Marker}) IN
  {[id |-> f, occurred |-> occurred] :
     f \in IF ids # {} THEN ids
           ELSE IF found /\ Marker \in artifacts THEN {Synthetic} ELSE {}}

DeriveListArtifacts(r) ==
  LET job == derive[r]
      expected == Expected(job.found, job.occurred, rows[r]) IN
  /\ job.pc = "got"
  /\ derive' = [derive EXCEPT ![r] =
                  IF expected = {} THEN DeriveAt("idle")
                  ELSE Derive("have", job.found, job.occurred, expected)]
  /\ UNCHANGED <<world, rows, firstSeen, raw, fetch>>

(* Fault: rows are compared by their ids alone.                              *)
SameRawIds(a, b) == {x.id : x \in a} = {x.id : x \in b}
SameRaw(a, b) == a = b

DeriveCompare(r) ==
  /\ derive[r].pc = "have"
  /\ derive' = [derive EXCEPT ![r] =
                  IF SameRaw(raw[r], derive[r].expected) THEN DeriveAt("idle")
                  ELSE Derive("write", derive[r].found, derive[r].occurred,
                              derive[r].expected)]
  /\ UNCHANGED <<world, rows, firstSeen, raw, fetch>>

(* One transaction deletes the rows of the run and inserts the new ones.     *)
DeriveUpsert(r) ==
  /\ derive[r].pc = "write"
  /\ raw' = [raw EXCEPT ![r] = derive[r].expected]
  /\ derive' = [derive EXCEPT ![r] = DeriveAt("idle")]
  /\ UNCHANGED <<world, rows, firstSeen, fetch>>

DeriveFails(r) ==
  /\ derive[r].pc \in {"got", "have", "write"}
  /\ derive' = [derive EXCEPT ![r] = DeriveAt("queued")]
  /\ UNCHANGED <<world, rows, firstSeen, raw, fetch>>

-----------------------------------------------------------------------------
Environment ==
  \/ \E r \in Runs, failed \in BOOLEAN, t \in Times : RunChanges(r, failed, t)
  \/ \E r \in Runs, p \in Paths, outcome \in Outcomes, failures \in SUBSET Failures :
       Upload(r, p, outcome, failures)
  \/ \E r \in Runs : Expire(r)
  \/ Tick
  \/ Restart

FetchStep(r) ==
  \/ FetchEnqueue(r) \/ FetchStart(r) \/ FetchFinish(r) \/ FetchFails(r)
  \/ \E p \in Paths : FetchPath(r, p) \/ FetchPathFails(r, p)

DeriveStep(r) ==
  \/ DeriveEnqueue(r) \/ DeriveGetRun(r) \/ DeriveListArtifacts(r)
  \/ DeriveCompare(r) \/ DeriveUpsert(r) \/ DeriveFails(r)

Next == Environment \/ \E r \in Runs : FetchStep(r) \/ DeriveStep(r)

Spec == Init /\ [][Next]_vars

(* Lists and retries go on for ever, so what is tried over and over succeeds *)
(* once in a while, a listing with each of its paths; a listing that went    *)
(* wrong ends, and the clock runs.                                           *)
Fairness ==
  /\ WF_vars(Tick)
  /\ \A r \in Runs :
       /\ SF_vars(FetchEnqueue(r)) /\ SF_vars(FetchStart(r)) /\ SF_vars(FetchFinish(r))
       /\ \A todo \in SUBSET Paths :
            SF_vars(fetch[r].todo = todo /\ ~fetch[r].err /\ \E p \in todo : FetchPath(r, p))
       /\ WF_vars(FetchFails(r))
       /\ SF_vars(DeriveEnqueue(r)) /\ SF_vars(DeriveGetRun(r))
       /\ SF_vars(DeriveListArtifacts(r)) /\ SF_vars(DeriveCompare(r))
       /\ SF_vars(DeriveUpsert(r))

FairSpec == Spec /\ Fairness

-----------------------------------------------------------------------------
TypeOK ==
  /\ now \in Nat /\ changes \in Nat
  /\ active \subseteq Runs
  /\ run \in [Runs -> RunRow]
  /\ artifact \in [Runs -> [Paths -> [outcome: Outcomes, failures: SUBSET Failures]]]
  /\ rows \in [Runs -> SUBSET (Failures \cup {Marker})]
  /\ firstSeen \in [Runs -> Nat]
  /\ raw \in [Runs -> SUBSET RawFailure]
  /\ fetch \in [Runs -> [pc: {"idle", "queued", "listing"}, todo: SUBSET Paths,
                         got: SUBSET Failures, forbidden: BOOLEAN, err: BOOLEAN]]
  /\ derive \in [Runs -> [pc: {"idle", "queued", "got", "have", "write"}, found: BOOLEAN,
                          occurred: Times \cup {NoTime}, expected: SUBSET RawFailure]]

(* What a run's artifacts gave is terminal: once a run has artifact rows they  *)
(* stay as they are, whatever is uploaded, retried or corrected later, so the *)
(* marker is never mixed with failures.                                       *)
ArtifactRowsFinal == [][\A r \in Runs : rows[r] # {} => rows'[r] = rows[r]]_vars

(* --source.prow.artifact-retry-window, "Delay before terminally marking a     *)
(* failed run as missing JUnit artifacts": a run is marked only when an        *)
(* artifact is forbidden or the window since the first empty look is over.     *)
MarkerEarned ==
  \A r \in Runs : Marker \in rows[r] =>
    \/ \E p \in Paths : artifact[r][p].outcome = "forbidden"
    \/ RetryWindow = 0
    \/ firstSeen[r] # Never /\ now >= firstSeen[r] + RetryWindow

(* The raw failures of a run are derived from one state of its artifact rows,  *)
(* which is the stored one, and have one time; the synthetic failure stands    *)
(* for the marker and nothing else.                                            *)
RawFollowsArtifacts ==
  \A r \in Runs : raw[r] # {} =>
    \E found \in BOOLEAN, t \in Times \cup {NoTime} : raw[r] = Expected(found, t, rows[r])

(* Every run that stays failed and in the history window ends up with its raw  *)
(* failures, under its current time, unless none of its failures is legible    *)
(* (the bounded clock must last until the retry window closes).                *)
FailedRunsGetRawFailures ==
  \A r \in Runs : \A t \in Times :
    <>[](r \in active /\ run[r] = [stored |-> TRUE, failed |-> TRUE, occurred |-> t])
      => []<>(\/ raw[r] # {} /\ raw[r] = Expected(TRUE, t, rows[r])
              \/ rows[r] # {} /\ rows[r] \subseteq Illegible
              \/ firstSeen[r] + RetryWindow > MaxTime /\ rows[r] = {})
=============================================================================
