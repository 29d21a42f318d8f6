---------------------------- MODULE MCWorkQueue -----------------------------
(* Instances of WorkQueue: two keys and two workers; what k1 is about changes  *)
(* once.                                                                       *)
EXTENDS WorkQueue

CONSTANTS k1, k2

MCMaxVersion == [k \in Keys |-> IF k = k1 THEN 2 ELSE 1]
=============================================================================
