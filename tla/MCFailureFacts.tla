-------------------------- MODULE MCFailureFacts ---------------------------
(* Instances of FailureFacts: a run with two JUnit files, with a legible      *)
(* failure f1 in the first and an illegible one in the second.                *)
EXTENDS FailureFacts

CONSTANTS junit1, junit2, f1, blank

MCPathOf == [f \in Failures |-> IF f = f1 THEN junit1 ELSE junit2]
=============================================================================
