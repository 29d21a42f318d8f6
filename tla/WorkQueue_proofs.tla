-------------------------- MODULE WorkQueue_proofs --------------------------
(* The controller loop keeps its promises for every set of keys, every number *)
(* of workers and any number of changes.                                      *)
EXTENDS WorkQueue, SequenceTheorems, TLAPS

In(q, k) == \E i \in 1 .. Len(q) : q[i] = k
NoRepeat(q) == \A i, j \in 1 .. Len(q) : q[i] = q[j] => i = j

(* The keys taken are those workers hold; a key waits in the queue, once,      *)
(* exactly while it is marked and not taken.                                   *)
HeldInv ==
  /\ \A w \in Workers : Holds(w) => worker[w].key \in processing
  /\ \A k \in processing : \E w \in Workers : Holds(w) /\ worker[w].key = k
  /\ OneWorkerPerKey
WaitInv ==
  /\ \A k \in Keys : In(queue, k) <=> k \in dirty \ processing
  /\ NoRepeat(queue)
QueueInv == HeldInv /\ WaitInv

(* What was read, requested and covered lies behind the current version.       *)
VersionInv ==
  /\ \A k \in Keys : covered[k] <= version[k] /\ requested[k] <= version[k]
  /\ \A w \in Workers : worker[w].pc = "read" => /\ worker[w].seen <= version[worker[w].key]
                                                 /\ worker[w].seen >= covered[worker[w].key]

-----------------------------------------------------------------------------
(* Sequences without repetition.                                              *)

LEMMA AppendKey ==
  ASSUME NEW S, NEW q \in Seq(S), NEW e \in S, NoRepeat(q), ~In(q, e)
  PROVE  /\ Append(q, e) \in Seq(S)
         /\ NoRepeat(Append(q, e))
         /\ \A k \in S : In(Append(q, e), k) <=> In(q, k) \/ k = e
<1> DEFINE a == Append(q, e)
<1>1. /\ a \in Seq(S) /\ Len(q) \in Nat /\ Len(a) = Len(q) + 1
      /\ \A i \in 1 .. Len(q) : a[i] = q[i]
      /\ a[Len(q) + 1] = e
  BY AppendProperties, LenProperties
<1> HIDE DEF a
<1>2. \A i \in 1 .. Len(q) : i \in 1 .. Len(a)
  BY <1>1
<1>3. \A i \in 1 .. Len(a) : i \in 1 .. Len(q) \/ i = Len(q) + 1
  BY <1>1
<1>4. Len(q) + 1 \in 1 .. Len(a)
  BY <1>1
<1>5. NoRepeat(a)
  BY <1>1, <1>3 DEF NoRepeat, In
<1>6. \A k \in S : In(a, k) <=> In(q, k) \/ k = e
  BY <1>1, <1>2, <1>3, <1>4 DEF In
<1> QED
  BY <1>1, <1>5, <1>6 DEF a

LEMMA TakeKey ==
  ASSUME NEW S, NEW q \in Seq(S), q # <<>>, NoRepeat(q)
  PROVE  /\ Head(q) \in S
         /\ In(q, Head(q))
         /\ Tail(q) \in Seq(S)
         /\ NoRepeat(Tail(q))
         /\ \A k \in S : In(Tail(q), k) <=> In(q, k) /\ k # Head(q)
<1> DEFINE t == Tail(q)
<1>1. /\ Head(q) \in S /\ t \in Seq(S) /\ Len(t) = Len(q) - 1
      /\ \A i \in 1 .. Len(t) : t[i] = q[i + 1]
      /\ Head(q) = q[1]
  BY HeadTailProperties
<1>2. Len(q) \in Nat \ {0}
  BY EmptySeq
<1> HIDE DEF t
<1>3. \A i \in 1 .. Len(t) : i + 1 \in 1 .. Len(q) /\ i + 1 # 1
  BY <1>1, <1>2
<1>4. \A i \in 1 .. Len(q) : i # 1 => i - 1 \in 1 .. Len(t) /\ t[i - 1] = q[i]
  BY <1>1, <1>2
<1>5. 1 \in 1 .. Len(q)
  BY <1>2
<1>6. NoRepeat(t)
  <2> SUFFICES ASSUME NEW i \in 1 .. Len(t), NEW j \in 1 .. Len(t), t[i] = t[j]
               PROVE  i = j
    BY DEF NoRepeat
  <2>1. i + 1 = j + 1
    BY <1>1, <1>3 DEF NoRepeat
  <2> QED
    BY <2>1
<1>7. ASSUME NEW k \in S
      PROVE  In(t, k) <=> In(q, k) /\ k # Head(q)
  <2>1. In(t, k) => In(q, k) /\ k # Head(q)
    BY <1>1, <1>3, <1>5 DEF In, NoRepeat
  <2>2. In(q, k) /\ k # Head(q) => In(t, k)
    BY <1>1, <1>4 DEF In
  <2> QED
    BY <2>1, <2>2
<1> QED
  BY <1>1, <1>5, <1>6, <1>7 DEF In, t

-----------------------------------------------------------------------------
(* Types.                                                                     *)

LEMMA TypeStep == TypeOK /\ [Next]_vars => TypeOK'
<1> SUFFICES ASSUME TypeOK, [Next]_vars
             PROVE  TypeOK'
  OBVIOUS
<1> USE WorkQueueAssumption DEF TypeOK, At, Holds
<1>1. ASSUME NEW k \in Keys, Add(k)
      PROVE  /\ requested' \in [Keys -> Nat]
             /\ queue' \in Seq(Keys)
             /\ dirty' \subseteq Keys
  <2>1. Append(queue, k) \in Seq(Keys)
    BY AppendProperties
  <2> QED
    BY <1>1, <2>1 DEF Add, Enqueue
<1>2. ASSUME NEW k \in Keys, Change(k) \/ DelayOver(k) \/ AddListed(k)
      PROVE  TypeOK'
  <2>1. CASE Change(k)
    BY <2>1 DEF Change
  <2>2. CASE DelayOver(k)
    <3>1. Add(k)
      BY <2>2 DEF DelayOver
    <3> QED
      BY <1>1, <2>2, <3>1 DEF DelayOver
  <2>3. CASE AddListed(k)
    <3>1. Add(k)
      BY <2>3 DEF AddListed
    <3> QED
      BY <1>1, <2>3, <3>1 DEF AddListed
  <2> QED
    BY <1>2, <2>1, <2>2, <2>3
<1>3. ASSUME NEW keys \in SUBSET Keys, List(keys)
      PROVE  TypeOK'
  BY <1>3 DEF List, world
<1>4. ASSUME NEW w \in Workers, WorkerStep(w)
      PROVE  TypeOK'
  <2>1. CASE Get(w)
    <3>1. Head(queue) \in Keys /\ Tail(queue) \in Seq(Keys)
      BY <2>1, HeadTailProperties DEF Get
    <3> QED
      BY <2>1, <3>1 DEF Get, world
  <2>2. CASE Read(w)
    <3>1. worker[w].key \in Keys \cup {NoKey} /\ version[worker[w].key] \in Nat
      BY <2>2 DEF Read
    <3> QED
      BY <2>2, <3>1 DEF Read, world
  <2>3. CASE Succeed(w)
    BY <2>3 DEF Succeed
  <2>4. CASE Fail(w)
    BY <2>4 DEF Fail, world
  <2>5. CASE Done(w)
    BY <2>5, AppendProperties DEF Done, Idle, world
  <2>6. CASE Exit(w)
    BY <2>6 DEF Exit, Idle, world
  <2> QED
    BY <1>4, <2>1, <2>2, <2>3, <2>4, <2>5, <2>6 DEF WorkerStep
<1>5. CASE Cancel \/ ShutDown \/ CloseStore
  BY <1>5 DEF Cancel, ShutDown, CloseStore, world
<1>6. CASE UNCHANGED vars
  BY <1>6 DEF vars, world
<1> QED
  BY <1>2, <1>3, <1>4, <1>5, <1>6 DEF Next

(* Every variable keeps its type.                                             *)
THEOREM TypeCorrect == Spec => []TypeOK
<1>1. Init => TypeOK
  BY EmptySeq, WorkQueueAssumption DEF Init, TypeOK, Holds, Idle, At
<1> QED
  BY <1>1, TypeStep, PTL DEF Spec

-----------------------------------------------------------------------------
(* The queue.                                                                 *)

(* Adding a key leaves it marked, and queued unless it is taken.              *)
LEMMA AddKeepsWait ==
  ASSUME TypeOK, WaitInv, NEW k \in Keys, Add(k), UNCHANGED <<processing, worker>>
  PROVE  WaitInv'
<1> USE DEF TypeOK
<1>1. CASE ShuttingDown
  BY <1>1 DEF WaitInv, Add
<1>2. CASE ~ShuttingDown /\ (k \in dirty \/ k \in processing)
  BY <1>2 DEF WaitInv, Add, Enqueue
<1>3. CASE ~ShuttingDown /\ k \notin dirty /\ k \notin processing
  <2>1. ~In(queue, k) /\ NoRepeat(queue)
    BY <1>3 DEF WaitInv
  <2>2. /\ NoRepeat(Append(queue, k))
        /\ \A j \in Keys : In(Append(queue, k), j) <=> In(queue, j) \/ j = k
    BY <2>1, AppendKey
  <2>3. queue' = Append(queue, k) /\ dirty' = dirty \cup {k} /\ processing' = processing
    BY <1>3 DEF Add, Enqueue
  <2> QED
    BY <1>3, <2>2, <2>3 DEF WaitInv
<1> QED
  BY <1>1, <1>2, <1>3

(* A step of a worker on its own key leaves the other workers alone.          *)
LEMMA AtWorker ==
  ASSUME TypeOK, NEW w \in Workers, NEW pc, NEW k, NEW seen,
         worker' = [worker EXCEPT ![w] = At(pc, k, seen)]
  PROVE  /\ worker'[w].pc = pc /\ worker'[w].key = k /\ worker'[w].seen = seen
         /\ \A v \in Workers : v # w => worker'[v] = worker[v]
BY DEF TypeOK, At

LEMMA QueueStep == TypeOK /\ QueueInv /\ [Next]_vars => QueueInv'
<1> SUFFICES ASSUME TypeOK, QueueInv, [Next]_vars
             PROVE  QueueInv'
  OBVIOUS
<1>1. ASSUME UNCHANGED <<queue, dirty, processing, worker>>
      PROVE  QueueInv'
  BY <1>1 DEF QueueInv, HeldInv, WaitInv, OneWorkerPerKey, Holds
<1>2. ASSUME NEW k \in Keys, Add(k), UNCHANGED <<processing, worker>>
      PROVE  QueueInv'
  <2>1. WaitInv'
    BY <1>2, AddKeepsWait DEF QueueInv
  <2> QED
    BY <1>2, <2>1 DEF QueueInv, HeldInv, OneWorkerPerKey, Holds
<1>3. ASSUME UNCHANGED <<queue, dirty, processing>>,
             \A v \in Workers : (Holds(v)' <=> Holds(v)) /\ worker'[v].key = worker[v].key
      PROVE  QueueInv'
  <2>1. HeldInv'
    BY <1>3 DEF QueueInv, HeldInv, OneWorkerPerKey
  <2> QED
    BY <1>3, <2>1 DEF QueueInv, WaitInv
<1>4. ASSUME NEW w \in Workers, Get(w)
      PROVE  QueueInv'
  <2> DEFINE h == Head(queue)
  <2>1. queue # <<>> /\ queue \in Seq(Keys) /\ NoRepeat(queue)
    BY <1>4 DEF Get, TypeOK, QueueInv, WaitInv
  <2>2. /\ h \in Keys /\ In(queue, h)
        /\ NoRepeat(Tail(queue))
        /\ \A k \in Keys : In(Tail(queue), k) <=> In(queue, k) /\ k # h
    BY <2>1, TakeKey
  <2>3. h \in dirty /\ h \notin processing
    BY <2>2 DEF QueueInv, WaitInv
  <2>4. /\ worker'[w].pc = "got" /\ worker'[w].key = h
        /\ \A v \in Workers : v # w => worker'[v] = worker[v]
    BY <1>4, AtWorker DEF Get
  <2>5. /\ queue' = Tail(queue) /\ processing' = processing \cup {h}
        /\ dirty' = dirty \ {h} /\ worker[w].pc = "idle"
    BY <1>4 DEF Get
  <2> HIDE DEF h
  <2>6. WaitInv'
    BY <2>2, <2>3, <2>5 DEF WaitInv, QueueInv
  <2>7. \A v \in Workers : Holds(v)' <=> Holds(v) \/ v = w
    BY <2>4 DEF Holds
  <2>8. ~Holds(w)
    BY <2>5 DEF Holds
  <2>9. OneWorkerPerKey'
    BY <2>3, <2>4, <2>7, <2>8 DEF QueueInv, HeldInv, OneWorkerPerKey
  <2>10. \A v \in Workers : Holds(v)' => worker'[v].key \in processing'
    BY <2>4, <2>5, <2>7 DEF QueueInv, HeldInv
  <2>11. \A k \in processing' : \E v \in Workers : Holds(v)' /\ worker'[v].key = k
    BY <2>4, <2>5, <2>7, <2>8 DEF QueueInv, HeldInv
  <2> QED
    BY <2>6, <2>9, <2>10, <2>11 DEF QueueInv, HeldInv
<1>5. ASSUME NEW w \in Workers, Done(w)
      PROVE  QueueInv'
  <2> DEFINE h == worker[w].key
  <2>1. Holds(w) /\ h \in Keys /\ h \in processing
    BY <1>5 DEF Done, Holds, TypeOK, QueueInv, HeldInv
  <2>2. /\ worker'[w].pc = "idle"
        /\ \A v \in Workers : v # w => worker'[v] = worker[v]
    BY <1>5, AtWorker DEF Done, Idle
  <2>3. /\ queue' = IF h \in dirty THEN Append(queue, h) ELSE queue
        /\ processing' = processing \ {h} /\ dirty' = dirty
    BY <1>5 DEF Done
  <2>4. queue \in Seq(Keys) /\ NoRepeat(queue) /\ ~In(queue, h)
    BY <2>1 DEF TypeOK, QueueInv, WaitInv
  <2>5. /\ NoRepeat(Append(queue, h))
        /\ \A k \in Keys : In(Append(queue, h), k) <=> In(queue, k) \/ k = h
    BY <2>1, <2>4, AppendKey
  <2>6. \A v \in Workers : Holds(v)' <=> Holds(v) /\ v # w
    BY <2>2 DEF Holds
  <2>7. \A v \in Workers : Holds(v) /\ v # w => worker[v].key # h
    BY <2>1 DEF QueueInv, HeldInv, OneWorkerPerKey
  <2> HIDE DEF h
  <2>8. WaitInv'
    BY <2>1, <2>3, <2>4, <2>5 DEF WaitInv, QueueInv
  <2>9. OneWorkerPerKey'
    BY <2>2, <2>6 DEF QueueInv, HeldInv, OneWorkerPerKey
  <2>10. \A v \in Workers : Holds(v)' => worker'[v].key \in processing'
    BY <2>2, <2>3, <2>6, <2>7 DEF QueueInv, HeldInv
  <2>11. \A k \in processing' : \E v \in Workers : Holds(v)' /\ worker'[v].key = k
    <3> SUFFICES ASSUME NEW k \in processing, k # h
                 PROVE  \E v \in Workers : Holds(v)' /\ worker'[v].key = k
      BY <2>3
    <3>1. PICK v \in Workers : Holds(v) /\ worker[v].key = k
      BY DEF QueueInv, HeldInv
    <3>2. v # w
      BY <3>1 DEF h
    <3> QED
      BY <2>2, <2>6, <3>1, <3>2
  <2> QED
    BY <2>8, <2>9, <2>10, <2>11 DEF QueueInv, HeldInv
<1>6. ASSUME NEW w \in Workers, Exit(w)
      PROVE  QueueInv'
  <2>1. /\ worker'[w].pc = "exited"
        /\ \A v \in Workers : v # w => worker'[v] = worker[v]
    BY <1>6, AtWorker DEF Exit
  <2>2. \A v \in Workers : (Holds(v)' <=> Holds(v)) /\ (Holds(v) => worker'[v] = worker[v])
    BY <1>6, <2>1 DEF Holds, Exit
  <2>3. HeldInv'
    BY <1>6, <2>2 DEF QueueInv, HeldInv, OneWorkerPerKey, Exit
  <2> QED
    BY <1>6, <2>3 DEF QueueInv, WaitInv, Exit
<1>7. ASSUME NEW w \in Workers, Read(w) \/ Succeed(w) \/ Fail(w)
      PROVE  QueueInv'
  <2>1. UNCHANGED <<queue, dirty, processing>>
    BY <1>7 DEF Read, Succeed, Fail
  <2>2. /\ Holds(w) /\ Holds(w)' /\ worker'[w].key = worker[w].key
        /\ \A v \in Workers : v # w => worker'[v] = worker[v]
    BY <1>7 DEF Read, Succeed, Fail, Holds, At, TypeOK
  <2>3. \A v \in Workers : (Holds(v)' <=> Holds(v)) /\ worker'[v].key = worker[v].key
    BY <2>2 DEF Holds
  <2> QED
    BY <1>3, <2>1, <2>3
<1>8. ASSUME NEW k \in Keys, Change(k) \/ DelayOver(k) \/ AddListed(k)
      PROVE  QueueInv'
  <2>1. CASE Change(k)
    BY <1>1, <2>1 DEF Change
  <2>2. CASE DelayOver(k)
    BY <1>2, <2>2 DEF DelayOver
  <2>3. CASE AddListed(k)
    BY <1>2, <2>3 DEF AddListed
  <2> QED
    BY <1>8, <2>1, <2>2, <2>3
<1>9. CASE (\E keys \in SUBSET Keys : List(keys)) \/ Cancel \/ ShutDown \/ CloseStore
  BY <1>1, <1>9 DEF List, Cancel, ShutDown, CloseStore
<1>10. CASE UNCHANGED vars
  BY <1>1, <1>10 DEF vars
<1> QED
  BY <1>4, <1>5, <1>6, <1>7, <1>8, <1>9, <1>10 DEF Next, WorkerStep

LEMMA QueueInvariant == Spec => [](TypeOK /\ QueueInv)
<1>1. Init => TypeOK /\ QueueInv
  BY EmptySeq, WorkQueueAssumption
     DEF Init, TypeOK, QueueInv, HeldInv, WaitInv, OneWorkerPerKey, Holds, Idle, At,
         In, NoRepeat
<1> QED
  BY <1>1, TypeStep, QueueStep, PTL DEF Spec

(* Two workers never process the same key at once.                            *)
THEOREM WorkersApart == Spec => []OneWorkerPerKey
BY QueueInvariant, PTL DEF QueueInv, HeldInv

-----------------------------------------------------------------------------
(* Versions.                                                                  *)

LEMMA AddRequests ==
  ASSUME TypeOK, NEW k \in Keys, Add(k)
  PROVE  /\ requested' = IF ShuttingDown THEN requested
                         ELSE [requested EXCEPT ![k] = version[k]]
         /\ dirty' = IF ShuttingDown THEN dirty ELSE dirty \cup {k}
BY DEF Add, Enqueue

LEMMA VersionStep == TypeOK /\ QueueInv /\ VersionInv /\ [Next]_vars => VersionInv'
<1> SUFFICES ASSUME TypeOK, QueueInv, VersionInv, [Next]_vars
             PROVE  VersionInv'
  OBVIOUS
<1> USE DEF TypeOK, VersionInv
<1>0. \A w \in Workers : worker[w].pc = "read" => worker[w].key \in Keys
  BY DEF Holds
<1>1. ASSUME UNCHANGED <<version, covered, requested, worker>>
      PROVE  VersionInv'
  BY <1>1
<1>2. ASSUME NEW k \in Keys, Change(k)
      PROVE  VersionInv'
  BY <1>0, <1>2 DEF Change
<1>3. ASSUME NEW k \in Keys, DelayOver(k) \/ AddListed(k)
      PROVE  VersionInv'
  <2>1. Add(k) /\ UNCHANGED <<version, covered, worker>>
    BY <1>3 DEF DelayOver, AddListed
  <2>2. requested' = requested \/ requested' = [requested EXCEPT ![k] = version[k]]
    BY <2>1, AddRequests
  <2>3. ASSUME NEW j \in Keys
        PROVE  requested'[j] <= version[j]
    <3>1. version[j] \in Nat
      OBVIOUS
    <3>2. version[j] <= version[j]
      BY <3>1
    <3>3. requested'[j] = requested[j] \/ requested'[j] = version[j]
      BY <2>2
    <3> QED
      BY <3>2, <3>3
  <2> QED
    BY <2>1, <2>3
<1>4. ASSUME NEW w \in Workers, WorkerStep(w)
      PROVE  VersionInv'
  <2>1. CASE Read(w)
    <3>1. worker[w].key \in Keys
      BY <2>1 DEF Read, Holds
    <3>2. /\ worker'[w].key = worker[w].key /\ worker'[w].seen = version[worker[w].key]
          /\ \A v \in Workers : v # w => worker'[v] = worker[v]
          /\ UNCHANGED <<version, covered, requested>>
      BY <2>1 DEF Read, At, world
    <3>3. \A k \in Keys : covered'[k] <= version'[k] /\ requested'[k] <= version'[k]
      BY <3>2
    <3>4. worker'[w].seen <= version'[worker'[w].key] /\ worker'[w].seen >= covered'[worker'[w].key]
      <4>1. version[worker[w].key] \in Nat /\ covered[worker[w].key] <= version[worker[w].key]
        BY <3>1
      <4>2. version[worker[w].key] <= version[worker[w].key]
        BY <4>1
      <4>3. covered[worker[w].key] \in Nat
        BY <3>1
      <4> QED
        BY <3>2, <4>1, <4>2, <4>3
    <3>5. ASSUME NEW v \in Workers, v # w, worker'[v].pc = "read"
          PROVE  /\ worker'[v].seen <= version'[worker'[v].key]
                 /\ worker'[v].seen >= covered'[worker'[v].key]
      BY <3>2, <3>5
    <3> QED
      BY <3>3, <3>4, <3>5
  <2>2. CASE Succeed(w)
    <3>1. worker[w].key \in Keys /\ worker[w].pc = "read"
      BY <2>2, <1>0 DEF Succeed
    <3>2. /\ worker'[w].pc = "over"
          /\ \A v \in Workers : v # w => worker'[v] = worker[v]
          /\ covered' = [covered EXCEPT ![worker[w].key] = worker[w].seen]
          /\ UNCHANGED <<version, requested>>
      BY <2>2 DEF Succeed, At
    <3>3. \A v \in Workers : v # w /\ worker[v].pc = "read" => worker[v].key # worker[w].key
      BY <3>1 DEF QueueInv, HeldInv, OneWorkerPerKey, Holds
    <3> QED
      BY <1>0, <3>1, <3>2, <3>3
  <2>3. CASE Get(w) \/ Fail(w) \/ Done(w) \/ Exit(w)
    <3>1. /\ worker'[w].pc # "read"
          /\ \A v \in Workers : v # w => worker'[v] = worker[v]
      BY <2>3 DEF Get, Fail, Done, Exit, Idle, At
    <3>2. UNCHANGED <<version, covered, requested>>
      BY <2>3 DEF Get, Fail, Done, Exit, world
    <3> QED
      BY <3>1, <3>2
  <2> QED
    BY <1>4, <2>1, <2>2, <2>3 DEF WorkerStep
<1>5. CASE (\E keys \in SUBSET Keys : List(keys)) \/ Cancel \/ ShutDown \/ CloseStore
  BY <1>1, <1>5 DEF List, Cancel, ShutDown, CloseStore, world
<1>6. CASE UNCHANGED vars
  BY <1>1, <1>6 DEF vars, world
<1> QED
  BY <1>2, <1>3, <1>4, <1>5, <1>6 DEF Next

LEMMA VersionInvariant == Spec => [](TypeOK /\ QueueInv /\ VersionInv)
<1>1. Init => VersionInv
  BY DEF Init, VersionInv, Idle, At
<1> QED
  BY <1>1, QueueInvariant, VersionStep, PTL DEF Spec

(* What a key was processed for never goes back to an older version.          *)
THEOREM CoveredNeverShrinks == Spec => CoveredGrows
<1>1. TypeOK /\ VersionInv /\ [Next]_vars => [\A k \in Keys : covered'[k] >= covered[k]]_vars
  <2> SUFFICES ASSUME TypeOK, VersionInv, Next, NEW k \in Keys
               PROVE  covered'[k] >= covered[k]
    OBVIOUS
  <2>1. CASE covered' = covered
    BY <2>1 DEF TypeOK
  <2>2. ASSUME NEW w \in Workers, Succeed(w)
        PROVE  covered'[k] >= covered[k]
    BY <2>2 DEF Succeed, TypeOK, VersionInv
  <2>3. covered' = covered \/ \E w \in Workers : Succeed(w)
    BY DEF Next, WorkerStep, Change, DelayOver, AddListed, List, Get, Read, Fail, Done,
           Exit, Cancel, ShutDown, CloseStore, world
  <2> QED
    BY <2>1, <2>2, <2>3
<1> QED
  BY <1>1, VersionInvariant, PTL DEF Spec, CoveredGrows

-----------------------------------------------------------------------------
(* Requests.                                                                  *)

(* Worker w is about to read, or has read, all that was requested of k.       *)
Serves(w, k) ==
  /\ worker[w].key = k
  /\ \/ worker[w].pc = "got"
     \/ worker[w].pc = "read" /\ worker[w].seen >= requested[k]

LEMMA RequestStep ==
  TypeOK /\ QueueInv /\ VersionInv /\ NoLostRequest /\ [Next]_vars => NoLostRequest'
<1> SUFFICES ASSUME TypeOK, QueueInv, VersionInv, NoLostRequest, [Next]_vars,
                    NEW k \in Keys, ~ShuttingDown', covered'[k] < requested'[k],
                    k \notin dirty', k \notin waiting'
             PROVE  \E w \in Workers : Serves(w, k)'
  BY DEF NoLostRequest, Serves
<1> USE DEF TypeOK
<1>0. ~ShuttingDown
  BY DEF ShuttingDown, Next, WorkerStep, Change, DelayOver, AddListed, List, Get, Read,
         Succeed, Fail, Done, Exit, Cancel, ShutDown, CloseStore, vars
<1>1. ASSUME covered[k] < requested[k]
      PROVE  k \in dirty \/ k \in waiting \/ \E w \in Workers : Serves(w, k)
  <2>1. \/ k \in dirty \cup waiting
        \/ \E w \in Workers : /\ worker[w].key = k
                              /\ \/ worker[w].pc = "got"
                                 \/ worker[w].pc = "read" /\ worker[w].seen >= requested[k]
    BY <1>0, <1>1, Zenon DEF NoLostRequest
  <2>2. k \in dirty \cup waiting => k \in dirty \/ k \in waiting
    OBVIOUS
  <2> QED
    BY <2>1, <2>2, Zenon DEF Serves
<1>2. ASSUME UNCHANGED <<covered, requested, dirty, waiting, worker>>
      PROVE  \E w \in Workers : Serves(w, k)'
  BY <1>1, <1>2 DEF Serves
<1>3. ASSUME NEW j \in Keys, DelayOver(j) \/ AddListed(j)
      PROVE  \E w \in Workers : Serves(w, k)'
  <2>1. Add(j) /\ UNCHANGED <<covered, worker>> /\ waiting \ {j} \subseteq waiting'
    BY <1>3 DEF DelayOver, AddListed
  <2>2. dirty' = dirty \cup {j} /\ requested' = [requested EXCEPT ![j] = version[j]]
    BY <1>0, <2>1, AddRequests
  <2>3. j # k /\ k \notin dirty /\ k \notin waiting /\ covered[k] < requested[k]
    BY <2>1, <2>2
  <2> QED
    BY <1>1, <2>1, <2>2, <2>3 DEF Serves
<1>4. ASSUME NEW w \in Workers, Get(w)
      PROVE  \E v \in Workers : Serves(v, k)'
  <2>1. CASE k = Head(queue)
    <3>1. worker'[w].pc = "got" /\ worker'[w].key = k
      BY <1>4, <2>1 DEF Get, At
    <3> QED
      BY <3>1 DEF Serves
  <2>2. CASE k # Head(queue)
    <3>1. /\ worker[w].pc = "idle" /\ k \notin dirty /\ k \notin waiting
          /\ covered[k] < requested[k] /\ requested' = requested
          /\ \A v \in Workers : v # w => worker'[v] = worker[v]
      BY <1>4, <2>2 DEF Get, world
    <3>2. PICK v \in Workers : Serves(v, k)
      BY <1>1, <3>1
    <3> QED
      BY <3>1, <3>2 DEF Serves
  <2> QED
    BY <2>1, <2>2
<1>5. ASSUME NEW w \in Workers, Read(w)
      PROVE  \E v \in Workers : Serves(v, k)'
  <2>1. /\ k \notin dirty /\ k \notin waiting
        /\ covered[k] < requested[k] /\ requested' = requested
        /\ worker'[w].pc = "read" /\ worker'[w].key = worker[w].key
        /\ worker'[w].seen = version[worker[w].key]
        /\ \A v \in Workers : v # w => worker'[v] = worker[v]
    BY <1>5 DEF Read, At, world
  <2>2. PICK v \in Workers : Serves(v, k)
    BY <1>1, <2>1
  <2> QED
    BY <2>1, <2>2 DEF Serves, VersionInv
<1>6. ASSUME NEW w \in Workers, Succeed(w)
      PROVE  \E v \in Workers : Serves(v, k)'
  <2>1. /\ worker[w].pc = "read" /\ k \notin dirty /\ k \notin waiting
        /\ requested' = requested
        /\ covered' = [covered EXCEPT ![worker[w].key] = worker[w].seen]
        /\ \A v \in Workers : v # w => worker'[v] = worker[v]
    BY <1>6 DEF Succeed
  <2>2. covered[k] < requested[k]
    BY <2>1 DEF VersionInv
  <2>3. PICK v \in Workers : Serves(v, k)
    BY <1>1, <2>1, <2>2
  <2>4. v # w
    BY <2>1, <2>3 DEF Serves
  <2> QED
    BY <2>1, <2>3, <2>4 DEF Serves
<1>7. ASSUME NEW w \in Workers, Fail(w)
      PROVE  \E v \in Workers : Serves(v, k)'
  <2>1. /\ worker[w].key # k /\ k \notin dirty /\ k \notin waiting
        /\ covered[k] < requested[k] /\ requested' = requested
        /\ \A v \in Workers : v # w => worker'[v] = worker[v]
    BY <1>0, <1>7 DEF Fail, world
  <2> QED
    BY <1>1, <2>1 DEF Serves
<1>8. ASSUME NEW w \in Workers, Done(w) \/ Exit(w)
      PROVE  \E v \in Workers : Serves(v, k)'
  <2>1. /\ worker[w].pc \in {"over", "idle"} /\ k \notin dirty /\ k \notin waiting
        /\ covered[k] < requested[k] /\ requested' = requested
        /\ \A v \in Workers : v # w => worker'[v] = worker[v]
    BY <1>8 DEF Done, Exit, world
  <2> QED
    BY <1>1, <2>1 DEF Serves
<1>9. CASE \/ \E j \in Keys : Change(j)
           \/ \E keys \in SUBSET Keys : List(keys)
           \/ Cancel \/ ShutDown \/ CloseStore \/ UNCHANGED vars
  BY <1>2, <1>9 DEF Change, List, Cancel, ShutDown, CloseStore, vars, world
<1> QED
  BY <1>3, <1>4, <1>5, <1>6, <1>7, <1>8, <1>9 DEF Next, WorkerStep

(* While the queue runs, no request is lost: neither one made while its key   *)
(* is processed nor one whose processing fails.                               *)
THEOREM RequestsKept == Spec => []NoLostRequest
<1>1. Init => NoLostRequest
  BY DEF Init, NoLostRequest
<1> QED
  BY <1>1, VersionInvariant, RequestStep, PTL DEF Spec

-----------------------------------------------------------------------------
(* Refinement.                                                                *)

LEMMA ReconcilerStep ==
  TypeOK /\ QueueInv /\ [Next]_vars => [Reconciler!Next]_(Reconciler!kvars)
<1> SUFFICES ASSUME TypeOK, QueueInv, [Next]_vars
             PROVE  [Reconciler!Next]_(Reconciler!kvars)
  OBVIOUS
<1> USE DEF Reconciler!kvars
<1>1. ASSUME UNCHANGED <<dirty, processing, waiting, phase>>
      PROVE  UNCHANGED Reconciler!kvars
  BY <1>1 DEF ShuttingDown
<1>2. ASSUME NEW k \in Keys, DelayOver(k)
      PROVE  Reconciler!Retry(k)
  BY <1>2, AddRequests DEF DelayOver, Reconciler!Retry, ShuttingDown
<1>3. ASSUME NEW k \in Keys, AddListed(k)
      PROVE  Reconciler!Request(k) \/ UNCHANGED Reconciler!kvars
  BY <1>3, AddRequests DEF AddListed, Reconciler!Request, ShuttingDown
<1>4. ASSUME NEW w \in Workers, Get(w)
      PROVE  \E k \in Keys : Reconciler!Start(k)
  <2>1. Head(queue) \in Keys /\ In(queue, Head(queue))
    BY <1>4, TakeKey DEF Get, TypeOK, QueueInv, WaitInv
  <2>2. Head(queue) \in dirty /\ Head(queue) \notin processing
    BY <2>1 DEF QueueInv, WaitInv
  <2> QED
    BY <1>4, <2>1, <2>2 DEF Get, Reconciler!Start, ShuttingDown
<1>5. ASSUME NEW w \in Workers, Fail(w)
      PROVE  (\E k \in Keys : Reconciler!Fail(k)) \/ UNCHANGED Reconciler!kvars
  <2>1. worker[w].key \in Keys /\ worker[w].key \in processing
    BY <1>5 DEF Fail, Holds, TypeOK, QueueInv, HeldInv
  <2> QED
    BY <1>5, <2>1 DEF Fail, Reconciler!Fail, ShuttingDown
<1>6. ASSUME NEW w \in Workers, Done(w)
      PROVE  \E k \in Keys : Reconciler!Finish(k)
  <2>1. worker[w].key \in Keys /\ worker[w].key \in processing
    BY <1>6 DEF Done, Holds, TypeOK, QueueInv, HeldInv
  <2> QED
    BY <1>6, <2>1 DEF Done, Reconciler!Finish, ShuttingDown
<1>7. ASSUME NEW w \in Workers, Read(w) \/ Succeed(w) \/ Exit(w)
      PROVE  UNCHANGED Reconciler!kvars
  BY <1>1, <1>7 DEF Read, Succeed, Exit
<1>8. CASE ShutDown
  BY <1>8 DEF ShutDown, Reconciler!Next, Reconciler!Stop, ShuttingDown
<1>9. CASE CloseStore
  BY <1>9 DEF CloseStore, ShuttingDown
<1>10. CASE Cancel
  BY <1>10 DEF Cancel, ShuttingDown
<1>11. CASE \/ \E k \in Keys : Change(k)
            \/ \E keys \in SUBSET Keys : List(keys)
            \/ UNCHANGED vars
  BY <1>1, <1>11 DEF Change, List, vars
<1> QED
  BY <1>2, <1>3, <1>4, <1>5, <1>6, <1>7, <1>8, <1>9, <1>10, <1>11
     DEF Next, WorkerStep, Reconciler!Next

(* The loop implements the reconciler: one worker at a time for a requested   *)
(* key, another run for a request made during a run, a retry after a failure. *)
THEOREM LoopReconciles == Spec => KeepsPromise
<1>1. Init => Reconciler!Init
  BY DEF Init, Reconciler!Init, ShuttingDown
<1> QED
  BY <1>1, QueueInvariant, ReconcilerStep, PTL DEF Spec, KeepsPromise, Reconciler!Spec
=============================================================================
