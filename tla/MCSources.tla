----------------------------- MODULE MCSources -----------------------------
(* Four parts that share no state, in one run: what a process does depends on  *)
(* the command it was started for (a release that starts up, or a daemon with  *)
(* one of the controllers), and each is explored on its own.  Two jobs have a  *)
(* run each, the second without a URL in Sippy; hours of two ticks.            *)
EXTENDS RunIngest, Migrations, PullRequestSync, TestsDaily

CONSTANTS e2e, periodic, a, b

VARIABLE command

MCEmbeds == [old |-> 1, new |-> 2, newer |-> 3]
MCPeriods == <<"default", "twoDay">>
MCFilters == <<"e2e", "upgrade">>

MCJobOf == [r \in Runs |-> IF r = a THEN e2e ELSE periodic]
MCUnmappable == [s \in Sources |-> IF s = "sippy" THEN {b} ELSE {}]
MCReplay == [s \in Sources |-> IF s = "sippy" THEN 3 ELSE 2]
MCWindow == [s \in Sources |-> IF s = "sippy" THEN 5 ELSE 3]

SourcesInit ==
  /\ command \in {"runs", "migrate", "pull-requests", "tests-daily"}
  /\ Init /\ MigrationsInit /\ PullsInit /\ TestsInit
  /\ command # "runs" => source = "sippy"  \* it does not matter there

SourcesNext ==
  /\ UNCHANGED command
  /\ \/ command = "runs" /\ Next /\ UNCHANGED <<mvars, pvars, tvars>>
     \/ command = "migrate" /\ MigrationsNext /\ UNCHANGED <<vars, pvars, tvars>>
     \/ command = "pull-requests" /\ PullsNext /\ UNCHANGED <<vars, mvars, tvars>>
     \/ command = "tests-daily" /\ TestsNext /\ UNCHANGED <<vars, mvars, pvars>>

SourcesSpec == SourcesInit /\ [][SourcesNext]_<<command, vars, mvars, pvars, tvars>>

(* Each part has the types of its module.                                      *)
SourcesTypeOK ==
  CASE command = "runs" -> TypeOK
    [] command = "migrate" -> MigrationsTypeOK
    [] command = "pull-requests" -> PullsTypeOK
    [] command = "tests-daily" -> TestsTypeOK
=============================================================================
