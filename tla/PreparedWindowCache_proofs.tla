--------------------- MODULE PreparedWindowCache_proofs ---------------------
(* The cache answers right for any requests, weeks, envelope, time to live and *)
(* number of callers.                                                          *)
EXTENDS PreparedWindowCache, TLAPS

-----------------------------------------------------------------------------
(* Types.                                                                      *)

LEMMA PrimaryType ==
  ASSUME NEW t \in Nat
  PROVE  Primary(t) \in Options
<1>1. t \div Week \in Int
  BY CacheAssumption
<1>2. PrimaryEnd(t) \in Int
  BY <1>1, CacheAssumption DEF PrimaryEnd
<1> QED
  BY <1>2, CacheAssumption DEF Primary, Opts, Options

LEMMA NothingType == Nothing \in Options
BY DEF Nothing, Opts, Options

LEMMA ToPrepareType ==
  ASSUME NEW opts \in Options, NEW t \in Nat
  PROVE  ToPrepare(opts, t) \in Options
BY PrimaryType DEF ToPrepare

(* A caller built from typed parts is typed.                                   *)
LEMMA CallerTyped ==
  ASSUME NEW at \in Nat, NEW opts \in Options, NEW prep \in Options,
         NEW result \in PreparedType,
         NEW pc \in {"idle", "lookup", "asking", "waiting", "leading", "prepared", "storing",
                     "answered"}
  PROVE  Caller(pc, at, opts, prep, result) \in CallerType
BY DEF Caller, CallerType

LEMMA IdleType == Idle \in CallerType /\ Idle.result \in PreparedType
<1>1. Prepared(Nothing, 0) \in PreparedType
  BY NothingType DEF Prepared, PreparedType
<1>2. Idle.result = Prepared(Nothing, 0)
  BY DEF Idle, Caller
<1> QED
  BY <1>1, <1>2, NothingType, CallerTyped DEF Idle

(* A step that replaces one caller by a typed one.                             *)
LEMMA CallerReplaced ==
  ASSUME TypeOK, NEW c \in Callers, NEW q \in CallerType, caller' = [caller EXCEPT ![c] = q]
  PROVE  caller' \in [Callers -> CallerType]
BY DEF TypeOK

LEMMA CallerParts ==
  ASSUME TypeOK, NEW c \in Callers
  PROVE  /\ caller[c].at \in Nat /\ caller[c].opts \in Options
         /\ caller[c].prep \in Options /\ caller[c].result \in PreparedType
BY DEF TypeOK, CallerType

LEMMA TypeStep == TypeOK /\ [Next]_vars => TypeOK'
<1> SUFFICES ASSUME TypeOK, [Next]_vars
             PROVE  TypeOK'
  OBVIOUS
<1>1. CASE Tick
  BY <1>1 DEF Tick, TypeOK
<1>2. CASE FactsChange
  BY <1>2 DEF FactsChange, TypeOK
<1>3. CASE TimerFires
  BY <1>3 DEF TimerFires, TypeOK
<1>4. CASE RefreshStarts
  <2>1. tick \in Nat /\ tick' = NoTick /\ UNCHANGED <<now, version, snapshot>>
    BY <1>4 DEF RefreshStarts, TypeOK
  <2>2. Caller("asking", tick, Primary(tick), Primary(tick), Idle.result) \in CallerType
    BY <2>1, PrimaryType, IdleType, CallerTyped
  <2>3. caller' \in [Callers -> CallerType]
    BY <1>4, <2>2, CallerReplaced DEF RefreshStarts, Callers
  <2> QED
    BY <2>1, <2>3 DEF TypeOK
<1>5. ASSUME NEW c \in Callers, CallerStep(c)
      PROVE  TypeOK'
  <2>1. CASE Ask(c)
    BY <2>1 DEF Ask, TypeOK, CallerType
  <2>2. CASE Prepare(c)
    <3>1. Prepared(caller[c].prep, version) \in PreparedType
      BY CallerParts DEF Prepared, PreparedType, TypeOK
    <3>2. Caller("prepared", caller[c].at, caller[c].opts, caller[c].prep,
                 Prepared(caller[c].prep, version)) \in CallerType
      BY <3>1, CallerParts, CallerTyped
    <3> QED
      BY <2>2, <3>2, CallerReplaced DEF Prepare, TypeOK
  <2>3. CASE Deliver(c)
    <3>1. \A d \in Callers : caller'[d] \in CallerType
      <4> SUFFICES ASSUME NEW d \in Callers
                   PROVE  caller'[d] \in CallerType
        OBVIOUS
      <4>1. Caller("storing", caller[d].at, caller[d].opts, caller[d].prep, caller[c].result)
              \in CallerType
        BY CallerParts, CallerTyped
      <4> QED
        BY <2>3, <4>1 DEF Deliver, TypeOK
    <3> QED
      BY <2>3, <3>1 DEF Deliver, TypeOK
  <2>4. CASE Fail(c)
    BY <2>4, IdleType DEF Fail, TypeOK
  <2>5. CASE Store(c)
    <3> DEFINE q == caller[c]
    <3>1. Snapshot(q) \in SnapshotType
      BY CallerParts, PrimaryType DEF Snapshot, SnapshotType, TypeOK
    <3>2. snapshot' \in SnapshotType \cup {NoSnapshot}
      BY <2>5, <3>1 DEF Store, TypeOK
    <3>3. Caller("answered", q.at, q.opts, q.prep, q.result) \in CallerType
      BY CallerParts, CallerTyped
    <3>4. caller' \in [Callers -> CallerType]
      BY <2>5, <3>3, IdleType, CallerReplaced DEF Store
    <3> QED
      BY <2>5, <3>2, <3>4 DEF Store, TypeOK
  <2> QED
    BY <1>5, <2>1, <2>2, <2>3, <2>4, <2>5 DEF CallerStep
<1>6. ASSUME NEW c \in Clients, ClientStep(c)
      PROVE  TypeOK'
  <2>0. c \in Callers
    BY DEF Callers
  <2>1. ASSUME NEW opts \in Asked, Arrive(c, opts)
        PROVE  TypeOK'
    <3>1. Caller("lookup", now, opts, Nothing, Idle.result) \in CallerType
      BY CacheAssumption, NothingType, IdleType, CallerTyped DEF TypeOK
    <3> QED
      BY <2>0, <2>1, <3>1, CallerReplaced DEF Arrive, TypeOK
  <2>2. CASE LookupHit(c)
    <3>1. snapshot.opts \in Options /\ snapshot.prepared \in PreparedType
      BY <2>2 DEF LookupHit, Hit, TypeOK, SnapshotType
    <3>2. Caller("answered", caller[c].at, caller[c].opts, snapshot.opts, snapshot.prepared)
            \in CallerType
      BY <2>0, <3>1, CallerParts, CallerTyped
    <3> QED
      BY <2>0, <2>2, <3>2, CallerReplaced DEF LookupHit, TypeOK
  <2>3. CASE LookupMiss(c)
    <3>1. Caller("asking", caller[c].at, caller[c].opts,
                 ToPrepare(caller[c].opts, caller[c].at), caller[c].result) \in CallerType
      BY <2>0, CallerParts, ToPrepareType, CallerTyped
    <3> QED
      BY <2>0, <2>3, <3>1, CallerReplaced DEF LookupMiss, TypeOK
  <2>4. CASE Leave(c)
    BY <2>0, <2>4, IdleType, CallerReplaced DEF Leave, TypeOK
  <2> QED
    BY <1>5, <1>6, <2>0, <2>1, <2>2, <2>3, <2>4 DEF ClientStep
<1>7. CASE UNCHANGED vars
  BY <1>7 DEF vars, TypeOK
<1> QED
  BY <1>1, <1>2, <1>3, <1>4, <1>5, <1>6, <1>7 DEF Next, Callers

(* Every variable keeps its type; the refresh never begins without a tick.     *)
THEOREM TypeCorrect == Spec => []TypeOK
<1>1. Init => TypeOK
  BY IdleType DEF Init, TypeOK
<1> QED
  BY <1>1, TypeStep, PTL DEF Spec

-----------------------------------------------------------------------------
(* Answers.  A window is stored under the options it was prepared for, and who  *)
(* prepares or waits does so for options that cover the request.               *)

SnapshotInv ==
  snapshot # NoSnapshot =>
    snapshot.prepared.opts = snapshot.opts /\ snapshot.opts.envs = PrimaryEnvs

LEMMA CoversItself ==
  ASSUME NEW opts \in Options
  PROVE  Covers(opts, opts)
BY DEF Covers, Options

LEMMA ToPrepareCovers ==
  ASSUME NEW opts \in Options, NEW t
  PROVE  Covers(ToPrepare(opts, t), opts)
BY CoversItself DEF ToPrepare

(* What each caller must satisfy, as a predicate of its record.                *)
Right(q) ==
  /\ q.pc \in {"prepared", "storing"} => q.result.opts = q.prep
  /\ q.pc \in {"asking", "waiting", "leading", "prepared", "storing"} => Covers(q.prep, q.opts)
  /\ q.pc = "answered" => Covers(q.result.opts, q.opts)

LEMMA OneCaller ==
  ASSUME TypeOK, NEW c \in Callers, NEW q, caller' = [caller EXCEPT ![c] = q], Right(q),
         \A d \in Callers : Right(caller[d])
  PROVE  \A d \in Callers : Right(caller'[d])
<1> SUFFICES ASSUME NEW d \in Callers
             PROVE  Right(caller'[d])
  OBVIOUS
<1>1. caller'[d] = IF d = c THEN q ELSE caller[d]
  BY DEF TypeOK
<1> QED
  BY <1>1

AllRight == TypeOK /\ SnapshotInv /\ \A c \in Callers : Right(caller[c])

LEMMA RightStep == AllRight /\ [Next]_vars => AllRight'
<1> SUFFICES ASSUME AllRight, [Next]_vars
             PROVE  SnapshotInv' /\ \A c \in Callers : Right(caller'[c])
  BY TypeStep DEF AllRight
<1>0. TypeOK /\ SnapshotInv /\ \A c \in Callers : Right(caller[c])
  BY DEF AllRight
<1>1. ASSUME UNCHANGED <<snapshot, caller>>
      PROVE  SnapshotInv' /\ \A c \in Callers : Right(caller'[c])
  BY <1>0, <1>1 DEF SnapshotInv
<1>2. CASE Tick \/ FactsChange \/ TimerFires
  BY <1>1, <1>2 DEF Tick, FactsChange, TimerFires
<1>3. CASE RefreshStarts
  <2>1. tick \in Nat
    BY <1>0, <1>3 DEF RefreshStarts, TypeOK
  <2>2. Right(Caller("asking", tick, Primary(tick), Primary(tick), Idle.result))
    BY <2>1, PrimaryType, CoversItself DEF Right, Caller
  <2> QED
    BY <1>0, <1>3, <2>2, OneCaller DEF RefreshStarts, SnapshotInv, Callers
<1>4. ASSUME NEW c \in Callers, CallerStep(c)
      PROVE  SnapshotInv' /\ \A d \in Callers : Right(caller'[d])
  <2>0. Right(caller[c])
    BY <1>0
  <2>1. CASE Ask(c)
    <3> DEFINE pc == IF Preparing(caller[c].prep) THEN "waiting" ELSE "leading"
    <3>1. Right([caller[c] EXCEPT !.pc = pc])
      BY <1>0, <2>0, <2>1 DEF Ask, Right, TypeOK, CallerType
    <3>2. caller' = [caller EXCEPT ![c] = [caller[c] EXCEPT !.pc = pc]]
      BY <2>1 DEF Ask
    <3>3. UNCHANGED snapshot
      BY <2>1 DEF Ask
    <3> HIDE DEF pc
    <3> QED
      BY <1>0, <3>1, <3>2, <3>3, OneCaller DEF SnapshotInv
  <2>2. CASE Prepare(c)
    <3>1. Right(Caller("prepared", caller[c].at, caller[c].opts, caller[c].prep,
                       Prepared(caller[c].prep, version)))
      BY <2>0, <2>2 DEF Prepare, Right, Caller, Prepared
    <3> QED
      BY <1>0, <2>2, <3>1, OneCaller DEF Prepare, SnapshotInv
  <2>3. CASE Deliver(c)
    <3> SUFFICES ASSUME NEW d \in Callers
                 PROVE  Right(caller'[d])
      BY <1>0, <2>3 DEF Deliver, SnapshotInv
    <3> DEFINE q == Caller("storing", caller[d].at, caller[d].opts, caller[d].prep,
                           caller[c].result)
    <3>1. caller'[d] = IF Sharing(c, d) THEN q ELSE caller[d]
      BY <2>3 DEF Deliver
    <3>2. Sharing(c, d) => Right(q)
      <4>1. caller[c].result.opts = caller[c].prep /\ caller[c].pc = "prepared"
        BY <2>0, <2>3 DEF Deliver, Right
      <4>2. Right(caller[d])
        BY <1>0
      <4> QED
        BY <4>1, <4>2 DEF Sharing, Right, Caller
    <3> QED
      BY <1>0, <3>1, <3>2
  <2>4. CASE Fail(c)
    <3>1. Right(Idle)
      BY DEF Right, Idle, Caller
    <3> QED
      BY <1>0, <2>4, <3>1 DEF Fail, SnapshotInv
  <2>5. CASE Store(c)
    <3> DEFINE q == caller[c]
    <3>1. q.result.opts = q.prep /\ Covers(q.prep, q.opts)
      BY <2>0, <2>5 DEF Store, Right
    <3>2. SnapshotInv'
      BY <1>0, <2>5, <3>1 DEF Store, Stores, Snapshot, SnapshotInv, Primary, Opts
    <3>3. Right(Idle) /\ Right(Caller("answered", q.at, q.opts, q.prep, q.result))
      BY <3>1 DEF Right, Idle, Caller
    <3> QED
      BY <1>0, <2>5, <3>2, <3>3, OneCaller DEF Store
  <2> QED
    BY <1>4, <2>1, <2>2, <2>3, <2>4, <2>5 DEF CallerStep
<1>5. ASSUME NEW c \in Clients, ClientStep(c)
      PROVE  SnapshotInv' /\ \A d \in Callers : Right(caller'[d])
  <2>0. c \in Callers
    BY DEF Callers
  <2>1. ASSUME NEW opts \in Asked, Arrive(c, opts)
        PROVE  SnapshotInv' /\ \A d \in Callers : Right(caller'[d])
    <3>1. Right(Caller("lookup", now, opts, Nothing, Idle.result))
      BY DEF Right, Caller
    <3> QED
      BY <1>0, <2>0, <2>1, <3>1, OneCaller DEF Arrive, SnapshotInv
  <2>2. CASE LookupHit(c)
    <3>1. snapshot.prepared.opts = snapshot.opts /\ Hit(caller[c].opts, caller[c].at)
      BY <1>0, <2>2 DEF LookupHit, SnapshotInv, Hit
    <3>2. Covers(snapshot.opts, caller[c].opts)
      BY <1>0, <3>1 DEF Hit, Covers, SnapshotInv
    <3>3. Right(Caller("answered", caller[c].at, caller[c].opts, snapshot.opts, snapshot.prepared))
      BY <3>1, <3>2 DEF Right, Caller
    <3> QED
      BY <1>0, <2>0, <2>2, <3>3, OneCaller DEF LookupHit, SnapshotInv
  <2>3. CASE LookupMiss(c)
    <3>1. Covers(ToPrepare(caller[c].opts, caller[c].at), caller[c].opts)
      BY <1>0, <2>0, CallerParts, ToPrepareCovers
    <3>2. Right(Caller("asking", caller[c].at, caller[c].opts,
                       ToPrepare(caller[c].opts, caller[c].at), caller[c].result))
      BY <3>1 DEF Right, Caller
    <3> QED
      BY <1>0, <2>0, <2>3, <3>2, OneCaller DEF LookupMiss, SnapshotInv
  <2>4. CASE Leave(c)
    <3>1. Right(Idle)
      BY DEF Right, Idle, Caller
    <3> QED
      BY <1>0, <2>0, <2>4, <3>1, OneCaller DEF Leave, SnapshotInv
  <2> QED
    BY <1>4, <1>5, <2>0, <2>1, <2>2, <2>3, <2>4 DEF ClientStep
<1>6. CASE UNCHANGED vars
  BY <1>1, <1>6 DEF vars
<1> QED
  BY <1>2, <1>3, <1>4, <1>5, <1>6 DEF Next, Callers

(* A request is always answered with a window that holds all it asked for.     *)
THEOREM AnswersAlwaysCover == Spec => []AnswersCover
<1>1. Init => AllRight
  <2>1. Init => TypeOK
    BY IdleType DEF Init, TypeOK
  <2> QED
    BY <2>1 DEF Init, AllRight, SnapshotInv, Right, Idle, Caller
<1>2. AllRight => AnswersCover
  BY DEF AllRight, Right, AnswersCover, Callers
<1> QED
  BY <1>1, <1>2, RightStep, PTL DEF Spec
=============================================================================
