----------------------------- MODULE FactsLoad -----------------------------
(* LoadDateScopedFacts (pkg/failurepatterns/window): one goroutine for each    *)
(* environment reads the runs of a window, then its failures, then one by one  *)
(* the runs of failures that it has not read, while controllers write.  The    *)
(* first error cancels the others, and so may the caller.                      *)
EXTENDS Naturals, FiniteSets

CONSTANTS
  LoadEnvs,     \* environments that are asked for
  LoadRuns,     \* run URLs
  LoadRunEnv,   \* [LoadRuns -> LoadEnvs]
  LoadRows,     \* failures
  LoadRowRun,   \* [LoadRows -> LoadRuns]
  Unstored,     \* the time of what is not stored
  LoadDays,     \* times
  LoadWindow,   \* the times of the window
  MaxLoads,     \* maxEnvironmentLoadConcurrency
  MaxWrites     \* bound on writes by controllers

ASSUME LoadAssumption ==
  /\ LoadRunEnv \in [LoadRuns -> LoadEnvs] /\ LoadRowRun \in [LoadRows -> LoadRuns]
  /\ LoadWindow \subseteq LoadDays /\ Unstored \notin LoadDays
  /\ MaxLoads \in Nat \ {0} /\ MaxWrites \in Nat

VARIABLES
  stored,   \* [runs, rows]: the times of what is stored
  writes,
  steady,   \* history: rows that are in the window ever since the load began
  gone,     \* the caller's context has ended
  failed,   \* firstErr is set: the load's own context has ended
  loader,   \* loader[e]: the goroutine of e, with the facts it has read
  loaded,   \* factsByEnvironment
  answer    \* what LoadDateScopedFacts has returned

lvars == <<stored, writes, steady, gone, failed, loader, loaded, answer>>

Nothing == [runs |-> {}, rows |-> {}]
Loading(pc, runs, rows, todo) == [pc |-> pc, runs |-> runs, rows |-> rows, todo |-> todo]
Unread == Loading("start", {}, {}, {})

RunsIn(e) == {u \in LoadRuns : LoadRunEnv[u] = e /\ stored.runs[u] \in LoadWindow}
RowsIn(e) == {f \in LoadRows : LoadRunEnv[LoadRowRun[f]] = e /\ stored.rows[f] \in LoadWindow}

LoadInit ==
  /\ stored = [runs |-> [u \in LoadRuns |-> Unstored], rows |-> [f \in LoadRows |-> Unstored]]
  /\ writes = 0 /\ steady = {}
  /\ gone = FALSE /\ failed = FALSE
  /\ loader = [e \in LoadEnvs |-> [Unread EXCEPT !.pc = "none"]]
  /\ loaded = [e \in LoadEnvs |-> Nothing]
  /\ answer = "none"

reading == <<gone, failed, loader, loaded, answer>>

(* Controllers: a run is stored or said to have started at another time, and a *)
(* failure is stored with the time its run has then.                           *)
WriteRun(u) ==
  /\ writes < MaxWrites
  /\ \E t \in LoadDays \ {stored.runs[u]} : stored' = [stored EXCEPT !.runs[u] = t]
  /\ writes' = writes + 1
  /\ UNCHANGED <<steady, reading>>
WriteRow(f) ==
  LET t == stored.runs[LoadRowRun[f]] IN
  /\ writes < MaxWrites
  /\ t # Unstored /\ stored.rows[f] # t
  /\ stored' = [stored EXCEPT !.rows[f] = t]
  /\ steady' = IF t \in LoadWindow THEN steady ELSE steady \ {f}
  /\ writes' = writes + 1
  /\ UNCHANGED reading

StartLoad ==
  /\ \A e \in LoadEnvs : loader[e].pc = "none"
  /\ steady' = UNION {RowsIn(e) : e \in LoadEnvs}
  /\ loader' = [e \in LoadEnvs |-> Unread]
  /\ UNCHANGED <<stored, writes, gone, failed, loaded, answer>>

CallerGone ==
  /\ ~gone /\ answer = "none"
  /\ gone' = TRUE
  /\ UNCHANGED <<stored, writes, steady, failed, loader, loaded, answer>>

Holding == {e \in LoadEnvs : loader[e].pc \in {"runs", "rows", "fill"}}
Advance(e, next) ==
  /\ loader' = [loader EXCEPT ![e] = next]
  /\ UNCHANGED <<stored, writes, steady, gone, failed, loaded, answer>>

(* With both the semaphore and the end of the context ready, either is taken.  *)
Acquire(e) ==
  /\ loader[e].pc = "start" /\ Cardinality(Holding) < MaxLoads
  /\ Advance(e, Loading("runs", {}, {}, {}))
GiveUp(e) ==
  /\ loader[e].pc = "start" /\ (gone \/ failed)
  /\ Advance(e, Loading("done", {}, {}, {}))

ListRunsOf(e) ==
  /\ loader[e].pc = "runs" /\ ~gone /\ ~failed
  /\ Advance(e, Loading("rows", RunsIn(e), {}, {}))

(* Fault: the runs of the window are taken to be all.                          *)
ListRowsOnly(e) ==
  /\ loader[e].pc = "rows" /\ ~gone /\ ~failed
  /\ Advance(e, Loading("fill", loader[e].runs, RowsIn(e), {}))
(* fillMissingRuns follows for the runs of rows that are not among those read. *)
ListRowsOf(e) ==
  /\ loader[e].pc = "rows" /\ ~gone /\ ~failed
  /\ Advance(e, Loading("fill", loader[e].runs, RowsIn(e),
                        {LoadRowRun[f] : f \in RowsIn(e)} \ loader[e].runs))

GetMissingRun(e) ==
  /\ loader[e].pc = "fill" /\ ~gone /\ ~failed
  /\ \E u \in loader[e].todo :
       Advance(e, Loading("fill", loader[e].runs \cup ({u} \cap {v \in LoadRuns : stored.runs[v] # Unstored}),
                          loader[e].rows, loader[e].todo \ {u}))

(* Facts are kept unless another environment has failed.                       *)
KeepFacts(e) ==
  /\ loader[e].pc = "fill" /\ loader[e].todo = {}
  /\ loader' = [loader EXCEPT ![e] = Loading("done", {}, {}, {})]
  /\ loaded' = IF failed THEN loaded
               ELSE [loaded EXCEPT ![e] = [runs |-> loader[e].runs, rows |-> loader[e].rows]]
  /\ UNCHANGED <<stored, writes, steady, gone, failed, answer>>

(* A query fails, by itself or because the context has ended.                  *)
QueryFails(e) ==
  /\ e \in Holding
  /\ failed' = TRUE
  /\ loader' = [loader EXCEPT ![e] = Loading("done", {}, {}, {})]
  /\ UNCHANGED <<stored, writes, steady, gone, loaded, answer>>

Answer ==
  /\ answer = "none" /\ \A e \in LoadEnvs : loader[e].pc = "done"
  /\ answer' = IF failed THEN "error" ELSE "facts"
  /\ UNCHANGED <<stored, writes, steady, gone, failed, loader, loaded>>

LoadNext ==
  \/ \E u \in LoadRuns : WriteRun(u)
  \/ \E f \in LoadRows : WriteRow(f)
  \/ StartLoad \/ CallerGone \/ Answer
  \/ \E e \in LoadEnvs :
       Acquire(e) \/ GiveUp(e) \/ ListRunsOf(e) \/ ListRowsOf(e) \/ GetMissingRun(e) \/ KeepFacts(e) \/ QueryFails(e)

LoadSpec == LoadInit /\ [][LoadNext]_lvars

-----------------------------------------------------------------------------
LoadTypeOK ==
  /\ stored \in [runs : [LoadRuns -> LoadDays \cup {Unstored}], rows : [LoadRows -> LoadDays \cup {Unstored}]]
  /\ writes \in 0..MaxWrites /\ steady \subseteq LoadRows
  /\ gone \in BOOLEAN /\ failed \in BOOLEAN
  /\ loader \in [LoadEnvs -> [pc : {"none", "start", "runs", "rows", "fill", "done"},
                              runs : SUBSET LoadRuns, rows : SUBSET LoadRows, todo : SUBSET LoadRuns]]
  /\ \A e \in LoadEnvs : loaded[e].runs \subseteq LoadRuns /\ loaded[e].rows \subseteq LoadRows
  /\ answer \in {"none", "facts", "error"}

(* Facts that are handed out without an error to a caller who still waits are  *)
(* whole: every row is there with its run, so that it is extracted and counted *)
(* although runs and rows are read at different times and a run may be said to *)
(* have started outside the window; and no row is lost that was in the window  *)
(* from before the load began on.  (For a caller who has gone, environments    *)
(* may be silently missing.)                                                   *)
LoadKeepsStoredRows ==
  answer = "facts" /\ ~gone =>
    /\ \A e \in LoadEnvs : \A f \in loaded[e].rows : LoadRowRun[f] \in loaded[e].runs
    /\ \A f \in steady : f \in loaded[LoadRunEnv[LoadRowRun[f]]].rows
=============================================================================
