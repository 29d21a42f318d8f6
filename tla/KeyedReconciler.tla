--------------------------- MODULE KeyedReconciler ---------------------------
(* What a controller promises of each of its keys, whatever the order of its   *)
(* queue and the number of its workers: a requested key is run, by one worker  *)
(* at a time; a request made during a run leads to another run; a failed run   *)
(* is retried.  WorkQueue implements it.                                       *)
CONSTANT Keys

VARIABLES
  pending,  \* keys with a request no run has started for
  running,  \* keys being run
  retry,    \* keys to be requested again as a run failed
  stopped   \* requests and retries may be dropped

kvars == <<pending, running, retry, stopped>>

Init ==
  /\ pending = {} /\ running = {} /\ retry = {}
  /\ stopped = FALSE

Request(k) ==
  /\ ~stopped
  /\ pending' = pending \cup {k}
  /\ UNCHANGED <<running, retry, stopped>>

Retry(k) ==
  /\ ~stopped
  /\ k \in retry
  /\ retry' = retry \ {k}
  /\ pending' = pending \cup {k}
  /\ UNCHANGED <<running, stopped>>

Start(k) ==
  /\ k \in pending
  /\ k \notin running
  /\ pending' = pending \ {k}
  /\ running' = running \cup {k}
  /\ UNCHANGED <<retry, stopped>>

Fail(k) ==
  /\ ~stopped
  /\ k \in running
  /\ retry' = retry \cup {k}
  /\ UNCHANGED <<pending, running, stopped>>

Finish(k) ==
  /\ k \in running
  /\ running' = running \ {k}
  /\ UNCHANGED <<pending, retry, stopped>>

Stop ==
  /\ stopped' = TRUE
  /\ UNCHANGED <<pending, running, retry>>

Next ==
  \/ \E k \in Keys : Request(k) \/ Retry(k) \/ Start(k) \/ Fail(k) \/ Finish(k)
  \/ Stop

Spec == Init /\ [][Next]_kvars
=============================================================================
