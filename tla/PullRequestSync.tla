-------------------------- MODULE PullRequestSync ---------------------------
(* source.github.pull-requests: a sync reads GitHub's list of pull requests,   *)
(* latest update first, page by page, until it meets its checkpoint, the end   *)
(* or a limit, then stores what it read and moves the checkpoint to the latest *)
(* update it saw.  The list moves between the pages: an updated pull request   *)
(* goes to the front and pushes the others back.                               *)
EXTENDS Naturals, FiniteSets

CONSTANTS
  Pulls,     \* pull requests, a set of numbers
  Never,     \* no time: of a pull request that does not exist, of no checkpoint
  PerPage,   \* pull requests on a page
  MaxPages,  \* sourceGitHubPullRequestsMaxPagesPerSync, which is also the limit on requests
  LastSecond, \* bound on the clock
  MaxEdits   \* bound on the updates of a pull request

ASSUME PullRequestSyncAssumption ==
  /\ Pulls \subseteq Nat /\ IsFiniteSet(Pulls) /\ Never = 0
  /\ PerPage \in Nat \ {0} /\ MaxPages \in Nat \ {0}

VARIABLES
  clock,      \* in seconds, the precision of GitHub's times
  updated,    \* updated[p]: second of the last update of p
  edits,      \* edits[p]: updates of p so far, standing for its state and commits
  pullRow,    \* pullRow[p]: the update that the stored row of p shows, 0 without a row
  pullCheckpoint, \* the stored checkpoint
  pullSync,       \* the sync in progress
  late,       \* history: those whose last update is of the second a listing was taken up to
  cut         \* history: those whose last update a sync did not get to within its pages

pvars == <<clock, updated, edits, pullRow, pullCheckpoint, pullSync, late, cut>>

Syncing(pc, since, page, max, out) == [pc |-> pc, since |-> since, page |-> page, max |-> max, out |-> out]
NoPulls == [p \in Pulls |-> 0]
SyncIdle == Syncing("idle", Never, 1, Never, NoPulls)

PullsInit ==
  /\ clock = 1
  /\ updated = [p \in Pulls |-> Never]
  /\ edits = [p \in Pulls |-> 0]
  /\ pullRow = [p \in Pulls |-> 0]
  /\ pullCheckpoint = Never
  /\ pullSync = SyncIdle
  /\ late = {} /\ cut = {}

-----------------------------------------------------------------------------
(* GitHub.  Updates of one second keep an order of their own.                  *)

Seconds ==
  /\ clock < LastSecond
  /\ clock' = clock + 1
  /\ UNCHANGED <<updated, edits, pullRow, pullCheckpoint, pullSync, late, cut>>

Edit(p) ==
  /\ edits[p] < MaxEdits
  /\ edits' = [edits EXCEPT ![p] = @ + 1]
  /\ updated' = [updated EXCEPT ![p] = clock]
  /\ late' = IF clock <= pullCheckpoint \/ clock <= pullSync.max THEN late \cup {p} ELSE late \ {p}
  /\ cut' = cut \ {p}
  /\ UNCHANGED <<clock, pullRow, pullCheckpoint, pullSync>>

(* The list, latest update first, cut into pages.                              *)
InList == {p \in Pulls : edits[p] > 0}
Newer(p, q) == updated[p] > updated[q] \/ (updated[p] = updated[q] /\ p > q)
Rank(p) == Cardinality({q \in InList : Newer(q, p)})

(* ListPullRequestsPage: the rows of a page, those before it, and those that   *)
(* another page follows for.                                                   *)
Ahead(k) == {p \in InList : Rank(p) < (k - 1) * PerPage}
Behind(k) == {p \in InList : Rank(p) >= k * PerPage}
PageOf(k) == InList \ (Ahead(k) \cup Behind(k))
HasNext(k) == Behind(k) # {}

-----------------------------------------------------------------------------
(* The controller: processKey.                                                 *)

BeginSync ==
  /\ pullSync.pc = "idle"
  /\ pullSync' = Syncing("paging", pullCheckpoint, 1, pullCheckpoint, NoPulls)
  /\ UNCHANGED <<clock, updated, edits, pullRow, pullCheckpoint, late, cut>>

IsNewOffByOne(p, since) == since = Never \/ updated[p] > since + 1  \* fault: off by one
IsNew(p, since) == since = Never \/ updated[p] > since

(* The latest of the time seen so far and those of a page.                     *)
LatestSeen(max, k, m) ==
  /\ m \in {max} \cup {updated[p] : p \in PageOf(k)}
  /\ max <= m /\ \A p \in PageOf(k) : updated[p] <= m

ReadPage ==
  LET k == pullSync.page
      since == pullSync.since
      new == {p \in PageOf(k) : IsNew(p, since)}
      over == new # PageOf(k) \/ ~HasNext(k)
      last == k = MaxPages
      out == [p \in Pulls |-> IF p \in new THEN edits[p] ELSE pullSync.out[p]]
      unread == {p \in InList : IsNew(p, since) /\ out[p] # edits[p]}
  IN
  /\ pullSync.pc = "paging"
  /\ \E m \in 0..clock :
       /\ LatestSeen(pullSync.max, k, m)
       /\ pullSync' = Syncing(IF over \/ last THEN "storing" ELSE "paging", since, k + 1, m, out)
       /\ late' = late \cup {p \in unread \cap Ahead(k) : updated[p] = m}
  /\ cut' = IF last /\ ~over THEN cut \cup (unread \cap Behind(k)) ELSE cut
  /\ UNCHANGED <<clock, updated, edits, pullRow, pullCheckpoint>>

StorePulls ==
  /\ pullSync.pc = "storing"
  /\ pullRow' = [p \in Pulls |-> IF pullSync.out[p] > 0 THEN pullSync.out[p] ELSE pullRow[p]]
  /\ pullSync' = Syncing("saving", pullSync.since, pullSync.page, pullSync.max, NoPulls)
  /\ late' = {p \in late : pullRow'[p] # edits[p]}
  /\ cut' = {p \in cut : pullRow'[p] # edits[p]}
  /\ UNCHANGED <<clock, updated, edits, pullCheckpoint>>

SaveCheckpoint ==
  /\ pullSync.pc = "saving"
  /\ pullCheckpoint' = pullSync.max
  /\ pullSync' = SyncIdle
  /\ UNCHANGED <<clock, updated, edits, pullRow, late, cut>>

(* A request fails for good after its attempts, a statement fails, or the      *)
(* process stops: the next sync starts over from the stored checkpoint.        *)
AbortSync ==
  /\ pullSync.pc # "idle"
  /\ pullSync' = SyncIdle
  /\ late' = {p \in late : updated[p] <= pullCheckpoint}
  /\ cut' = {p \in cut : updated[p] <= pullCheckpoint}
  /\ UNCHANGED <<clock, updated, edits, pullRow, pullCheckpoint>>

PullsWorld == Seconds \/ \E p \in Pulls : Edit(p)
PullsStep == BeginSync \/ ReadPage \/ StorePulls \/ SaveCheckpoint \/ AbortSync
PullsNext == PullsWorld \/ PullsStep

PullsSpec == PullsInit /\ [][PullsNext]_pvars

-----------------------------------------------------------------------------
PullsTypeOK ==
  /\ clock \in Nat /\ pullCheckpoint \in Nat
  /\ updated \in [Pulls -> Nat] /\ edits \in [Pulls -> Nat] /\ pullRow \in [Pulls -> Nat]
  /\ pullSync \in [pc: {"idle", "paging", "storing", "saving"}, since: Nat, page: Nat, max: Nat,
               out: [Pulls -> Nat]]
  /\ late \subseteq Pulls /\ cut \subseteq Pulls

(* The checkpoint leaves no update behind although the list moves under the    *)
(* paging, save in two cases: the update came in a second that was listed      *)
(* already, or a sync stopped at its last page before it got to it.            *)
NoUpdateSkipped ==
  \A p \in Pulls :
    edits[p] > 0 /\ updated[p] <= pullCheckpoint => pullRow[p] = edits[p] \/ p \in late \cup cut
=============================================================================
