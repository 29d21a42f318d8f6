----------------------------- MODULE MCRunFacts -----------------------------
(* Instances of RunFacts: a presubmit run pre of pull request p1 at commit   *)
(* c1 and a periodic run per, which publishes a region artifact.             *)
EXTENDS RunFacts

CONSTANTS pre, per, dev, int, p1, c1, c2, none

MCEnvOf == [r \in Runs |-> IF r = pre THEN dev ELSE int]
MCRunPull == [r \in Runs |-> IF r = pre THEN p1 ELSE NoPull]
MCRunSHA == [r \in Runs |-> IF r = pre THEN c1 ELSE NoSHA]
=============================================================================
