------------------------------ MODULE WorkQueue ------------------------------
(* The loop every controller runs: a lister that adds keys to a rate-limited   *)
(* work queue from time to time, and workers that take a key, process it,      *)
(* forget it or put it back for later, and report it done.  The queue is that  *)
(* of client-go (external); the loop is the same code in the nine controllers  *)
(* and is mapped to that of facts.runs.                                        *)
EXTENDS Naturals, Sequences

CONSTANTS
  Keys,       \* keys of the controller
  Workers,    \* its worker threads
  NoKey,      \* what an idle worker holds
  MaxVersion  \* [Keys -> Nat], a bound on the versions of what a key is about

ASSUME WorkQueueAssumption == NoKey \notin Keys /\ MaxVersion \in [Keys -> Nat]

VARIABLES
  version,    \* version[k]: of the stored facts that processing k depends on
  covered,    \* covered[k]: the version the last successful processing of k read
  requested,  \* requested[k]: the version when k was last added
  listed,     \* keys the lister has yet to add
  queue,      \* keys waiting for a worker
  dirty,      \* keys added since they were last taken
  processing, \* keys taken and not done
  waiting,    \* keys to be added again when their delay is over
  worker,     \* worker[w]: what worker w does, with which key
  phase       \* "running", "cancelled", "shutdown" (queue shut down), "closed" (store closed)

world == <<version, covered, requested>>
vars == <<world, listed, queue, dirty, processing, waiting, worker, phase>>

At(pc, k, seen) == [pc |-> pc, key |-> k, seen |-> seen]
Idle == At("idle", NoKey, 0)
ShuttingDown == phase \in {"shutdown", "closed"}

Init ==
  /\ version = [k \in Keys |-> 1]
  /\ covered = [k \in Keys |-> 0]
  /\ requested = [k \in Keys |-> 0]
  /\ listed = {}
  /\ queue = <<>>
  /\ dirty = {} /\ processing = {} /\ waiting = {}
  /\ worker = [w \in Workers |-> Idle]
  /\ phase = "running"

(* Another controller changes what key k depends on.                           *)
Change(k) ==
  /\ version[k] < MaxVersion[k]
  /\ version' = [version EXCEPT ![k] = @ + 1]
  /\ UNCHANGED <<covered, requested, listed, queue, dirty, processing, waiting, worker, phase>>

-----------------------------------------------------------------------------
(* The queue.                                                                  *)

AddTwice(k, busy) ==  \* fault: a key in processing is queued at once
  /\ dirty' = dirty \cup {k}
  /\ queue' = IF k \in dirty THEN queue ELSE Append(queue, k)

Enqueue(k, busy) ==
  /\ dirty' = dirty \cup {k}
  /\ queue' = IF k \in dirty \/ k \in busy THEN queue ELSE Append(queue, k)

Add(k) ==
  IF ShuttingDown
  THEN UNCHANGED <<requested, queue, dirty>>
  ELSE /\ Enqueue(k, processing)
       /\ requested' = [requested EXCEPT ![k] = version[k]]

(* AddRateLimited: the key waits for its delay, then is added.                 *)
DelayOver(k) ==
  /\ ~ShuttingDown
  /\ k \in waiting
  /\ waiting' = waiting \ {k}
  /\ Add(k)
  /\ UNCHANGED <<version, covered, listed, processing, worker, phase>>

-----------------------------------------------------------------------------
(* The lister: queueMetadata, run at once and then at every interval.  It      *)
(* lists at least the keys with something to do.                               *)

List(keys) ==
  /\ phase = "running"
  /\ listed = {}
  /\ {k \in Keys : covered[k] # version[k]} \subseteq keys
  /\ listed' = keys
  /\ UNCHANGED <<world, queue, dirty, processing, waiting, worker, phase>>

AddListed(k) ==
  /\ k \in listed
  /\ listed' = listed \ {k}
  /\ Add(k)
  /\ UNCHANGED <<version, covered, processing, waiting, worker, phase>>

-----------------------------------------------------------------------------
(* The workers: processNextWorkItem.                                           *)

Get(w) ==
  /\ worker[w].pc = "idle"
  /\ queue # <<>>
  /\ queue' = Tail(queue)
  /\ processing' = processing \cup {Head(queue)}
  /\ dirty' = dirty \ {Head(queue)}
  /\ worker' = [worker EXCEPT ![w] = At("got", Head(queue), 0)]
  /\ UNCHANGED <<world, listed, waiting, phase>>

(* processKey reads the stored facts, ...                                      *)
Read(w) ==
  /\ worker[w].pc = "got"
  /\ phase # "closed"
  /\ worker' = [worker EXCEPT ![w] = At("read", worker[w].key, version[worker[w].key])]
  /\ UNCHANGED <<world, listed, queue, dirty, processing, waiting, phase>>

(* ... and writes what follows from them; the key is forgotten.                *)
Succeed(w) ==
  /\ worker[w].pc = "read"
  /\ phase # "closed"
  /\ covered' = [covered EXCEPT ![worker[w].key] = worker[w].seen]
  /\ worker' = [worker EXCEPT ![w] = At("over", worker[w].key, worker[w].seen)]
  /\ UNCHANGED <<version, requested, listed, queue, dirty, processing, waiting, phase>>

FailForgetting(w) ==  \* fault: a failed key is not put back
  /\ worker[w].pc \in {"got", "read"}
  /\ waiting' = waiting
  /\ worker' = [worker EXCEPT ![w] = At("over", worker[w].key, worker[w].seen)]
  /\ UNCHANGED <<world, listed, queue, dirty, processing, phase>>

FailLosingKey(w) ==  \* fault: the key is let go before it is reported done
  /\ worker[w].pc \in {"got", "read"}
  /\ waiting' = IF ShuttingDown THEN waiting ELSE waiting \cup {worker[w].key}
  /\ worker' = [worker EXCEPT ![w] = At("over", NoKey, 0)]
  /\ UNCHANGED <<world, listed, queue, dirty, processing, phase>>

Fail(w) ==
  /\ worker[w].pc \in {"got", "read"}
  /\ waiting' = IF ShuttingDown THEN waiting ELSE waiting \cup {worker[w].key}
  /\ worker' = [worker EXCEPT ![w] = At("over", worker[w].key, worker[w].seen)]
  /\ UNCHANGED <<world, listed, queue, dirty, processing, phase>>

DoneForgetting(w) ==  \* fault: a key added meanwhile stays out of the queue
  /\ worker[w].pc = "over"
  /\ processing' = processing \ {worker[w].key}
  /\ queue' = queue
  /\ worker' = [worker EXCEPT ![w] = Idle]
  /\ UNCHANGED <<world, listed, dirty, waiting, phase>>

(* The deferred Done: a key added meanwhile is queued now.                     *)
Done(w) ==
  LET k == worker[w].key IN
  /\ worker[w].pc = "over"
  /\ processing' = processing \ {k}
  /\ queue' = IF k \in dirty THEN Append(queue, k) ELSE queue
  /\ worker' = [worker EXCEPT ![w] = Idle]
  /\ UNCHANGED <<world, listed, dirty, waiting, phase>>

ExitAfterRetries(w) ==  \* fault: delayed keys are waited for
  /\ worker[w].pc = "idle"
  /\ ShuttingDown
  /\ queue = <<>> /\ waiting = {}
  /\ worker' = [worker EXCEPT ![w] = At("exited", NoKey, 0)]
  /\ UNCHANGED <<world, listed, queue, dirty, processing, waiting, phase>>

(* Get reports the shutdown once the queue is empty.                           *)
Exit(w) ==
  /\ worker[w].pc = "idle"
  /\ ShuttingDown
  /\ queue = <<>>
  /\ worker' = [worker EXCEPT ![w] = At("exited", NoKey, 0)]
  /\ UNCHANGED <<world, listed, queue, dirty, processing, waiting, phase>>

-----------------------------------------------------------------------------
(* The context is cancelled; Run shuts the queue down and returns; the caller  *)
(* then closes the store, without waiting for the workers.                     *)

Cancel ==
  /\ phase = "running"
  /\ phase' = "cancelled"
  /\ UNCHANGED <<world, listed, queue, dirty, processing, waiting, worker>>

ShutDown ==
  /\ phase = "cancelled"
  /\ phase' = "shutdown"
  /\ UNCHANGED <<world, listed, queue, dirty, processing, waiting, worker>>

CloseStore ==
  /\ phase = "shutdown"
  /\ phase' = "closed"
  /\ UNCHANGED <<world, listed, queue, dirty, processing, waiting, worker>>

-----------------------------------------------------------------------------
WorkerStep(w) == Get(w) \/ Read(w) \/ Succeed(w) \/ Fail(w) \/ Done(w) \/ Exit(w)

Next ==
  \/ \E k \in Keys : Change(k) \/ DelayOver(k) \/ AddListed(k)
  \/ \E keys \in SUBSET Keys : List(keys)
  \/ \E w \in Workers : WorkerStep(w)
  \/ Cancel \/ ShutDown \/ CloseStore

Spec == Init /\ [][Next]_vars

(* Threads, timers and the lister run; the processing of a key that is retried *)
(* for ever succeeds in the end.  Nothing makes the context be cancelled.      *)
Fairness ==
  /\ \A k \in Keys : /\ WF_vars(DelayOver(k)) /\ WF_vars(AddListed(k))
                     /\ SF_vars(\E w \in Workers : worker[w].key = k /\ Read(w))
                     /\ SF_vars(\E w \in Workers : worker[w].key = k /\ Succeed(w))
  /\ WF_vars(\E keys \in SUBSET Keys : List(keys))
  /\ \A w \in Workers : WF_vars(WorkerStep(w))
  /\ WF_vars(ShutDown)

FairSpec == Spec /\ Fairness

-----------------------------------------------------------------------------
Holds(w) == worker[w].pc \in {"got", "read", "over"}

TypeOK ==
  /\ version \in [Keys -> Nat] /\ covered \in [Keys -> Nat] /\ requested \in [Keys -> Nat]
  /\ listed \subseteq Keys
  /\ queue \in Seq(Keys)
  /\ dirty \subseteq Keys /\ processing \subseteq Keys /\ waiting \subseteq Keys
  /\ worker \in [Workers -> [pc: {"idle", "got", "read", "over", "exited"},
                             key: Keys \cup {NoKey}, seen: Nat]]
  /\ \A w \in Workers : Holds(w) => worker[w].key \in Keys
  /\ phase \in {"running", "cancelled", "shutdown", "closed"}

(* Two workers never process one key at once, although a key may be listed,    *)
(* retried and put back while it is processed; the row models rely on it.      *)
OneWorkerPerKey ==
  \A v, w \in Workers : v # w /\ Holds(v) /\ Holds(w) => worker[v].key # worker[w].key

(* No request is lost: what was there when key k was last added has been       *)
(* processed, is being processed, or k is still queued, marked or waiting.     *)
NoLostRequest ==
  \A k \in Keys :
    ~ShuttingDown /\ covered[k] < requested[k] =>
      \/ k \in dirty \cup waiting
      \/ \E w \in Workers : /\ worker[w].key = k
                            /\ \/ worker[w].pc = "got"
                               \/ worker[w].pc = "read" /\ worker[w].seen >= requested[k]

(* What a key was processed for never goes back to an older version.           *)
CoveredGrows == [][\A k \in Keys : covered'[k] >= covered[k]]_vars

(* The controller keeps the promise of KeyedReconciler.                        *)
Reconciler == INSTANCE KeyedReconciler WITH
  pending <- dirty, running <- processing, retry <- waiting, stopped <- ShuttingDown

KeepsPromise == Reconciler!Spec

(* If the controller is not stopped, every key ends up processed for the       *)
(* latest version of what it depends on.                                       *)
EveryChangeCovered ==
  [](phase = "running") => \A k \in Keys : <>[](covered[k] = version[k])

(* A cancelled controller drains its queue and all its workers end for good.   *)
WorkersEnd ==
  <>[](phase # "running") => <>[](\A w \in Workers : worker[w].pc = "exited")
=============================================================================
