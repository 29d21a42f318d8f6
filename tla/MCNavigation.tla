---------------------------- MODULE MCNavigation ----------------------------
(* The pages alone, opened at their plain paths in the first sprint.           *)
EXTENDS Navigation

MCFirstDate == -14
MCEntries == {Query(path) : path \in {"/", "report", "patterns", "run-log", "trends"}}
=============================================================================
