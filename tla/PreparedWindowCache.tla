------------------------ MODULE PreparedWindowCache ------------------------
(* The cache of prepared failure-pattern windows.  Requests and the periodic   *)
(* refresh prepare windows, at most one of a kind at a time: who asks for one  *)
(* that is being prepared waits for it and shares the outcome.  The window     *)
(* that ends with the current week is kept as the snapshot.                    *)
EXTENDS Integers

CONSTANTS
  Clients,      \* requests at a time
  Refresher,    \* the goroutine of runPreparedWindowCacheLoop
  Envs,         \* environments one may ask for
  PrimaryEnvs,  \* the supported ones
  Asked,        \* options (environments and window) that requests ask for
  Week,         \* ticks of a week
  Envelope,     \* ticks of the cached window
  TTL,          \* ticks a snapshot is fresh
  OverBudget,   \* versions of the facts whose text exceeds the budget
  NoSnapshot, NoTick,
  MaxTime, MaxVersion   \* bounds

Options == [envs: SUBSET Envs, start: Int, end: Int]
Callers == Clients \cup {Refresher}

ASSUME CacheAssumption ==
  /\ Refresher \notin Clients
  /\ PrimaryEnvs \subseteq Envs
  /\ Asked \subseteq Options
  /\ Week \in Nat \ {0} /\ Envelope \in Nat \ {0} /\ TTL \in Nat
  /\ NoSnapshot \notin [opts: Options, prepared: [opts: Options, version: Nat], at: Nat]
  /\ NoTick \notin Nat
  /\ MaxTime \in Nat /\ MaxVersion \in Nat

VARIABLES
  now,       \* the clock
  version,   \* version of the facts in the store
  snapshot,  \* the cached window
  tick,      \* the buffered tick of the refresh timer
  caller     \* caller[c]: a request or the refresh

vars == <<now, version, snapshot, tick, caller>>

Opts(envs, start, end) == [envs |-> envs, start |-> start, end |-> end]
Prepared(opts, v) == [opts |-> opts, version |-> v]
Nothing == Opts({}, 0, 0)

(* opts: what c asks for; prep: what it prepares; at: its clock when it began.  *)
Caller(pc, at, opts, prep, result) ==
  [pc |-> pc, at |-> at, opts |-> opts, prep |-> prep, result |-> result]

Idle == Caller("idle", 0, Nothing, Nothing, Prepared(Nothing, 0))

Init ==
  /\ now = 0
  /\ version = 0
  /\ snapshot = NoSnapshot
  /\ tick = 0
  /\ caller = [c \in Callers |-> Idle]

Covers(wide, narrow) ==
  /\ narrow.envs \subseteq wide.envs
  /\ wide.start <= narrow.start
  /\ narrow.end <= wide.end

PrimaryEnd(t) == (t \div Week + 1) * Week
Primary(t) == Opts(PrimaryEnvs, PrimaryEnd(t) - Envelope, PrimaryEnd(t))

-----------------------------------------------------------------------------
Tick ==
  /\ now < MaxTime
  /\ now' = now + 1
  /\ UNCHANGED <<version, snapshot, tick, caller>>

FactsChange ==
  /\ version < MaxVersion
  /\ version' = version + 1
  /\ UNCHANGED <<now, snapshot, tick, caller>>

(* The timer's channel holds one tick; further ones are dropped.               *)
TimerFires ==
  /\ tick = NoTick
  /\ tick' = now
  /\ UNCHANGED <<now, version, snapshot, caller>>

-----------------------------------------------------------------------------
(* Where a request looks first.                                                *)

Arrive(c, opts) ==
  /\ caller[c].pc = "idle"
  /\ caller' = [caller EXCEPT ![c] = Caller("lookup", now, opts, Nothing, Idle.result)]
  /\ UNCHANGED <<now, version, snapshot, tick>>

Hit(opts, t) ==
  /\ opts.envs # {} /\ opts.envs \subseteq PrimaryEnvs
  /\ snapshot # NoSnapshot
  /\ t - snapshot.at <= TTL
  /\ snapshot.opts.start <= opts.start /\ opts.end <= snapshot.opts.end

(* A window of the supported environments inside the primary one is cut from   *)
(* the primary one.                                                            *)
ToPrepare(opts, t) ==
  IF opts.envs # {} /\ Covers(Primary(t), opts) THEN Primary(t) ELSE opts

LookupHit(c) ==
  LET q == caller[c] IN
  /\ q.pc = "lookup"
  /\ Hit(q.opts, q.at)
  /\ caller' = [caller EXCEPT ![c] =
                  Caller("answered", q.at, q.opts, snapshot.opts, snapshot.prepared)]
  /\ UNCHANGED <<now, version, snapshot, tick>>

LookupMiss(c) ==
  LET q == caller[c] IN
  /\ q.pc = "lookup"
  /\ ~Hit(q.opts, q.at)
  /\ caller' = [caller EXCEPT ![c] =
                  Caller("asking", q.at, q.opts, ToPrepare(q.opts, q.at), q.result)]
  /\ UNCHANGED <<now, version, snapshot, tick>>

(* The refresh asks for the primary window of the time of its tick.            *)
RefreshStarts ==
  /\ caller[Refresher].pc = "idle"
  /\ tick # NoTick
  /\ tick' = NoTick
  /\ caller' = [caller EXCEPT ![Refresher] =
                  Caller("asking", tick, Primary(tick), Primary(tick), Idle.result)]
  /\ UNCHANGED <<now, version, snapshot>>

-----------------------------------------------------------------------------
(* One preparation per key (singleflight).                                     *)

Preparing(key) ==
  \E c \in Callers : caller[c].pc \in {"leading", "prepared"} /\ caller[c].prep = key

Ask(c) ==
  LET q == caller[c] IN
  /\ q.pc = "asking"
  /\ caller' = [caller EXCEPT ![c].pc = IF Preparing(q.prep) THEN "waiting" ELSE "leading"]
  /\ UNCHANGED <<now, version, snapshot, tick>>

Prepare(c) ==
  LET q == caller[c] IN
  /\ q.pc = "leading"
  /\ caller' = [caller EXCEPT ![c] =
                  Caller("prepared", q.at, q.opts, q.prep, Prepared(q.prep, version))]
  /\ UNCHANGED <<now, version, snapshot, tick>>

Sharing(c, d) == d = c \/ (caller[d].pc = "waiting" /\ caller[d].prep = caller[c].prep)

(* The leader's outcome goes to all who wait for its key.                      *)
Deliver(c) ==
  /\ caller[c].pc = "prepared"
  /\ caller' = [d \in Callers |->
                  LET q == caller[d] IN
                  IF Sharing(c, d) THEN Caller("storing", q.at, q.opts, q.prep, caller[c].result)
                  ELSE q]
  /\ UNCHANGED <<now, version, snapshot, tick>>

(* Fault: those who wait are not told.                                         *)
FailAlone(c) ==
  /\ caller[c].pc \in {"leading", "prepared"}
  /\ caller' = [caller EXCEPT ![c] = Idle]
  /\ UNCHANGED <<now, version, snapshot, tick>>

(* The store fails, or the context of the leader ends: its client is gone, or  *)
(* the refresh has taken longer than its timeout.  All who wait fail with it.  *)
Fail(c) ==
  /\ caller[c].pc \in {"leading", "prepared"}
  /\ caller' = [d \in Callers |-> IF Sharing(c, d) THEN Idle ELSE caller[d]]
  /\ UNCHANGED <<now, version, snapshot, tick>>

-----------------------------------------------------------------------------
(* Fault: whatever was prepared is stored as the primary window.               *)
StoresAll(q) == q.result.version \notin OverBudget

(* Fault: a snapshot is never replaced.                                        *)
StoresOnce(q) ==
  /\ snapshot = NoSnapshot
  /\ q.prep = Primary(q.at)
  /\ q.result.version \notin OverBudget

(* What c stores is the primary window of the time c began at.                 *)
Stores(q) ==
  /\ q.prep = Primary(q.at)
  /\ q.result.version \notin OverBudget

(* Fault: the snapshot is stamped with its end of life, in the wrong direction. *)
SnapshotBackdated(q) == [opts |-> Primary(q.at), prepared |-> q.result, at |-> now - TTL]

Snapshot(q) == [opts |-> Primary(q.at), prepared |-> q.result, at |-> now]

Store(c) ==
  LET q == caller[c] IN
  /\ q.pc = "storing"
  /\ snapshot' = IF Stores(q) THEN Snapshot(q) ELSE snapshot
  /\ caller' = [caller EXCEPT ![c] = IF c = Refresher THEN Idle
                                     ELSE Caller("answered", q.at, q.opts, q.prep, q.result)]
  /\ UNCHANGED <<now, version, tick>>

Leave(c) ==
  /\ caller[c].pc = "answered"
  /\ caller' = [caller EXCEPT ![c] = Idle]
  /\ UNCHANGED <<now, version, snapshot, tick>>

-----------------------------------------------------------------------------
CallerStep(c) ==
  \/ Ask(c) \/ Prepare(c) \/ Deliver(c) \/ Fail(c) \/ Store(c)

ClientStep(c) ==
  \/ \E opts \in Asked : Arrive(c, opts)
  \/ LookupHit(c) \/ LookupMiss(c) \/ CallerStep(c) \/ Leave(c)

Next ==
  \/ Tick \/ FactsChange \/ TimerFires
  \/ RefreshStarts
  \/ CallerStep(Refresher)
  \/ \E c \in Clients : ClientStep(c)

Spec == Init /\ [][Next]_vars

PrepareFor(key) == \E c \in Callers : caller[c].prep = key /\ Prepare(c)
DeliverFor(key) == \E c \in Callers : caller[c].prep = key /\ Deliver(c)

(* Goroutines are scheduled, the timer fires, contexts end at last, and when   *)
(* the primary window is prepared again and again, this succeeds again and     *)
(* again.  Nobody needs to ask for anything.                                   *)
Fairness ==
  /\ WF_vars(TimerFires)
  /\ WF_vars(RefreshStarts)
  /\ \A c \in Clients : WF_vars(LookupHit(c) \/ LookupMiss(c) \/ Leave(c))
  /\ \A c \in Callers : WF_vars(CallerStep(c))
  /\ \A key \in {Primary(t) : t \in 0..MaxTime} :
       SF_vars(PrepareFor(key)) /\ SF_vars(DeliverFor(key))

FairSpec == Spec /\ Fairness

-----------------------------------------------------------------------------
PreparedType == [opts: Options, version: Nat]
SnapshotType == [opts: Options, prepared: PreparedType, at: Nat]
CallerType ==
  [pc: {"idle", "lookup", "asking", "waiting", "leading", "prepared", "storing", "answered"},
   at: Nat, opts: Options, prep: Options, result: PreparedType]

TypeOK ==
  /\ now \in Nat
  /\ version \in Nat
  /\ snapshot \in SnapshotType \cup {NoSnapshot}
  /\ tick \in Nat \cup {NoTick}
  /\ caller \in [Callers -> CallerType]

(* A request is answered with a window that holds everything it asked for,     *)
(* whether it came from the snapshot, its own preparation or another's, and    *)
(* whatever replaced the snapshot meanwhile.                                   *)
AnswersCover ==
  \A c \in Clients : caller[c].pc = "answered" => Covers(caller[c].result.opts, caller[c].opts)

(* Who waits is waiting for somebody, so a request ends when its leader does.  *)
RequestsEnd == \A c \in Clients : []<>(caller[c].pc = "idle")

(* Once the facts and the clock rest, and the text fits, the snapshot ends up   *)
(* as the current window of the current facts, although waiters store old      *)
(* results late and leaders take the refresh down with them.                   *)
CacheCatchesUp ==
  <>[][UNCHANGED <<now, version>>]_vars /\ []<>(version \notin OverBudget)
  => <>[](/\ snapshot # NoSnapshot
          /\ snapshot.opts = Primary(now)
          /\ snapshot.prepared = Prepared(Primary(now), version))
=============================================================================
