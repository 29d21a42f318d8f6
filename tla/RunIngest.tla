----------------------------- MODULE RunIngest -----------------------------
(* How source.sippy.runs and source.prow.runs find runs.  A sync lists what    *)
(* its source publishes of runs that started since some time before its        *)
(* checkpoint, stores them, and then moves the checkpoint to the newest start.  *)
(* Runs are published after they started, in any order; syncs fail, are killed, *)
(* and overlap (run-once and sync-once beside the daemon).                     *)
EXTENDS Integers

CONSTANTS
  Runs,         \* runs of one environment
  Jobs,         \* its job names
  JobOf,        \* [Runs -> Jobs]
  Unmappable,   \* [Sources -> runs without a usable URL there]
  Syncs,        \* syncs that may overlap
  Sources,      \* the controllers looked at: subset of {"sippy", "prow"}
  Replay,       \* [Sources -> ticks a sync looks back before its checkpoint]
  Window,       \* [Sources -> ticks a sync looks back at most or without checkpoint]
  Hour,         \* ticks of an hour
  MaxListing,   \* ticks the listing of one sync takes at most
  NoTime,       \* not yet, never
  MaxTime       \* bound

ASSUME IngestAssumption ==
  /\ JobOf \in [Runs -> Jobs]
  /\ Sources \subseteq {"sippy", "prow"}
  /\ Unmappable \in [Sources -> SUBSET Runs]
  /\ Replay \in [Sources -> Nat] /\ Window \in [Sources -> Nat]
  /\ Hour \in Nat \ {0} /\ MaxListing \in Nat /\ MaxTime \in Nat
  /\ NoTime \notin Int

VARIABLES
  source,      \* the controller: it never changes
  now,         \* the clock
  started,     \* started[r]: when r started
  published,   \* published[r]: since when the source lists r
  stored,      \* runs in cfa_runs
  checkpoint,  \* the controller's row in cfa_checkpoints
  sync         \* sync[p]: a pass of syncEnvironment

vars == <<source, now, started, published, stored, checkpoint, sync>>

Times == Nat \cup {NoTime}

(* at: when the listing began; since: how far back it looks; base: the         *)
(* checkpoint as read.                                                         *)
Sync(pc, at, base, since, todo, got) ==
  [pc |-> pc, at |-> at, base |-> base, since |-> since, todo |-> todo, got |-> got]

Ended == Sync("ended", 0, NoTime, 0, {}, {})

Init ==
  /\ source \in Sources
  /\ now = 0
  /\ started = [r \in Runs |-> NoTime]
  /\ published = [r \in Runs |-> NoTime]
  /\ stored = {}
  /\ checkpoint = NoTime
  /\ sync = [p \in Syncs |-> Ended]

-----------------------------------------------------------------------------
(* The source.                                                                 *)

Start(r) ==
  /\ started[r] = NoTime
  /\ started' = [started EXCEPT ![r] = now]
  /\ UNCHANGED <<source, now, published, stored, checkpoint, sync>>

(* The run has ended and its source shows it.                                  *)
Publish(r) ==
  /\ started[r] # NoTime /\ published[r] = NoTime
  /\ published' = [published EXCEPT ![r] = now]
  /\ UNCHANGED <<source, now, started, stored, checkpoint, sync>>

(* A listing ends, at the latest by an error, before MaxListing is over.       *)
Tick ==
  /\ now < MaxTime
  /\ \A p \in Syncs : sync[p].pc = "listing" => now < sync[p].at + MaxListing
  /\ now' = now + 1
  /\ UNCHANGED <<source, started, published, stored, checkpoint, sync>>

-----------------------------------------------------------------------------
(* One sync.                                                                   *)

Truncated(t) == t - (t % Hour)
Later(s, t) == IF s < t THEN t ELSE s

(* Fault: nothing before the checkpoint is looked at again.                    *)
SinceCheckpoint(base) ==
  IF base = NoTime THEN Truncated(now - Window[source]) ELSE base

(* resolveSince of the two controllers.                                        *)
Since(base) ==
  IF base = NoTime
  THEN IF source = "sippy" THEN Truncated(now - Window[source]) ELSE now - Window[source]
  ELSE IF source = "sippy" THEN Truncated(base - Replay[source])
                           ELSE Later(base - Replay[source], now - Window[source])

(* Sippy's filter asks for starts after since; Prow only drops those before it. *)
Covers(since, r) == IF source = "sippy" THEN started[r] > since ELSE started[r] >= since

Listed(since, jobs) ==
  {r \in Runs : published[r] # NoTime /\ Covers(since, r) /\ JobOf[r] \in jobs}

(* Sippy: the checkpoint is read, then job after job is listed.                *)
SippyBegin(p) ==
  /\ source = "sippy"
  /\ sync[p].pc = "ended"
  /\ sync' = [sync EXCEPT ![p] = Sync("listing", now, checkpoint, Since(checkpoint), Jobs, {})]
  /\ UNCHANGED <<source, now, started, published, stored, checkpoint>>

SippyList(p, job) ==
  LET s == sync[p] IN
  /\ source = "sippy"
  /\ s.pc = "listing"
  /\ job \in s.todo
  /\ sync' = [sync EXCEPT ![p] =
                LET got == s.got \cup Listed(s.since, {job}) IN
                IF s.todo = {job} THEN Sync("listed", s.at, s.base, 0, {}, got)
                ELSE Sync("listing", s.at, s.base, s.since, s.todo \ {job}, got)]
  /\ UNCHANGED <<source, now, started, published, stored, checkpoint>>

(* Prow: one snapshot of all jobs is fetched, then the checkpoint is read and   *)
(* the snapshot filtered.                                                      *)
ProwBegin(p) ==
  /\ source = "prow"
  /\ sync[p].pc = "ended"
  /\ sync' = [sync EXCEPT ![p] =
                Sync("snapshot", now, NoTime, 0, {}, {r \in Runs : published[r] # NoTime})]
  /\ UNCHANGED <<source, now, started, published, stored, checkpoint>>

ProwFilter(p) ==
  LET s == sync[p]
      since == Since(checkpoint) IN
  /\ s.pc = "snapshot"
  /\ sync' = [sync EXCEPT ![p] = Sync("listed", s.at, checkpoint, 0, {},
                                      {r \in s.got : Covers(since, r)})]
  /\ UNCHANGED <<source, now, started, published, stored, checkpoint>>

StoreRuns(p) ==
  LET s == sync[p] IN
  /\ s.pc = "listed"
  /\ stored' = stored \cup (s.got \ Unmappable[source])
  /\ sync' = [sync EXCEPT ![p] = Sync("stored", 0, s.base, 0, {}, s.got)]
  /\ UNCHANGED <<source, now, started, published, checkpoint>>

(* Sippy counts the runs it could not map, too; Prow does not.                 *)
Counted(got) == IF source = "sippy" THEN got ELSE got \ Unmappable[source]

(* The newest of base and the starts of the runs, as a set of one.             *)
NextCheckpoint(base, runs) ==
  LET times == ({base} \cup {started[r] : r \in runs}) \ {NoTime} IN
  IF times = {} THEN {NoTime} ELSE {t \in times : \A u \in times : u <= t}

(* Fault: the checkpoint moves before the runs are stored.                     *)
MoveCheckpointEarly(p) ==
  LET s == sync[p] IN
  /\ s.pc \in {"listed", "stored"}
  /\ \E t \in NextCheckpoint(s.base, Counted(s.got)) : checkpoint' = t
  /\ sync' = IF s.pc = "stored" THEN [sync EXCEPT ![p] = Ended] ELSE sync
  /\ UNCHANGED <<source, now, started, published, stored>>

MoveCheckpoint(p) ==
  LET s == sync[p] IN
  /\ s.pc = "stored"
  /\ \E t \in NextCheckpoint(s.base, Counted(s.got)) : checkpoint' = t
  /\ sync' = [sync EXCEPT ![p] = Ended]
  /\ UNCHANGED <<source, now, started, published, stored>>

(* run-once on a single run of Sippy's: no checkpoint is read or moved.         *)
StoreOne(r) ==
  /\ source = "sippy"
  /\ r \in Listed(Since(NoTime), Jobs) \ Unmappable[source]
  /\ stored' = stored \cup {r}
  /\ UNCHANGED <<source, now, started, published, checkpoint, sync>>

(* A request or query fails, or the process is killed.                         *)
Abort(p) ==
  /\ sync[p].pc # "ended"
  /\ sync' = [sync EXCEPT ![p] = Ended]
  /\ UNCHANGED <<source, now, started, published, stored, checkpoint>>

-----------------------------------------------------------------------------
SyncStep(p) ==
  \/ SippyBegin(p) \/ ProwBegin(p) \/ ProwFilter(p) \/ StoreRuns(p) \/ MoveCheckpoint(p)
  \/ Abort(p)
  \/ \E job \in Jobs : SippyList(p, job)

Next ==
  \/ Tick
  \/ \E r \in Runs : Start(r) \/ Publish(r) \/ StoreOne(r)
  \/ \E p \in Syncs : SyncStep(p)

Spec == Init /\ [][Next]_vars

-----------------------------------------------------------------------------
TypeOK ==
  /\ source \in Sources
  /\ now \in Nat
  /\ started \in [Runs -> Times]
  /\ published \in [Runs -> Times]
  /\ stored \subseteq Runs \ Unmappable[source]
  /\ checkpoint \in Times
  /\ sync \in [Syncs -> [pc: {"ended", "listing", "snapshot", "listed", "stored"}, at: Nat,
                         base: Times, since: Int, todo: SUBSET Jobs, got: SUBSET Runs]]

(* r was published soon enough after it started: looking back from then by the  *)
(* replay, less the time a listing takes, covers it.                           *)
Prompt(r) ==
  /\ published[r] # NoTime
  /\ Covers(published[r] - (Replay[source] - MaxListing), r)

InWindow(r) == Covers(now - Window[source], r)

(* The run is one a sync can be expected to find.                              *)
Expected(r) == r \notin Unmappable[source] /\ Prompt(r) /\ InWindow(r)

(* A run the next sync no longer looks back to has been stored: whatever fails  *)
(* or overlaps, the checkpoint never leaves behind a run that was published in  *)
(* time and is still in the window.                                            *)
NothingSkipped ==
  \A r \in Runs : Expected(r) /\ ~ Covers(Since(checkpoint), r) => r \in stored

(* A sync has all such runs that were published before it began, unless they   *)
(* are stored already: what the checkpoint allows it to leave out is no loss.   *)
SyncFindsAll ==
  \A p \in Syncs, r \in Runs :
    sync[p].pc = "listed" /\ Expected(r) /\ published[r] < sync[p].at
      => r \in sync[p].got \cup stored
=============================================================================
