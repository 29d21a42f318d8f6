----------------------------- MODULE MCFrontend -----------------------------
(* Four parts of the frontend that share no state, each explored on its own:   *)
(* loading the facts of a window, the views of loaded facts, trends and        *)
(* overview, and the windows and links of the pages.                           *)
EXTENDS PatternPages, FactsLoad, WeeklyReport, Navigation, TLC

CONSTANTS t1, t2

VARIABLE part

MCRunEnv == [d1 |-> "dev", d2 |-> "dev", i1 |-> "int"]
MCRunPRs == [d1 |-> {1}, d2 |-> {1, 2}, i1 |-> {0}]
MCRunTimes == [d1 |-> {1, 3}, d2 |-> {2, 3}, i1 |-> {3}]
MCFailureRun == [a |-> "d1", b |-> "d2", c |-> "i1", d |-> "d1"]

Text(sig, key, phrase, search, provider) ==
  [sig |-> sig, key |-> key, phrase |-> phrase, search |-> search, provider |-> provider]
Shape(backed, alerts, suite, aro, test, text) ==
  [backed |-> backed, alerts |-> alerts, suite |-> suite, aro |-> aro, test |-> test, text |-> text]

(* Two wordings of one cause (key 1), no artifact, and an alert.               *)
E2E == "rp-api-compat-all/parallel"
Plain(phrase) == Shape(TRUE, FALSE, E2E, TRUE, "t1", Text(phrase, 1, phrase, phrase, 1))
MCShapes ==
  [a |-> {Plain(1), Plain(2)},
   b |-> {Plain(1), Plain(2)},
   c |-> {[Plain(1) EXCEPT !.suite = "integration/parallel"]},
   d |-> {Shape(FALSE, FALSE, "", FALSE, "", Text(9, 0, 0, 0, 0)),
          Shape(TRUE, FALSE, "step graph", TRUE, "t2", Text(2, 1, 2, 0, 2)),
          Shape(TRUE, TRUE, E2E, TRUE, "alerts", Text(1, 0, 0, 0, 0))}]
MCAlertIdentity == [t1 |-> 0, t2 |-> 0, alerts |-> 5]
MCScopes == {Window(2, 4), Window(3, 4), Window(2, 3)}
MCEnvChoices == {{"dev"}, {}}

MCLoadRunEnv == [u1 |-> "dev", u2 |-> "int"]
MCLoadRowRun == [x |-> "u1", y |-> "u2"]

MCTrendQueries ==
  {[mode |-> "relative", days |-> 1], [mode |-> "weekly"], [mode |-> "all"],
   [mode |-> "dates", first |-> 1, last |-> 4]}

(* The runs of the trends are alike, and only invariants are checked.          *)
MCTrendRuns == {t1, t2}
MCSymmetry == Permutations(MCTrendRuns)

(* Besides the plain paths: presets and a week, ranges of a form (one that     *)
(* ends before it starts), and a run log of a day to come.                     *)
MCFirstDate == -28
MCEntries ==
  {Query(path) : path \in {"/", "report", "patterns", "run-log", "trends"}} \cup
  {[Query("trends") EXCEPT !.mode = mode] : mode \in {"weekly", "sprint", "all"}} \cup
  {[Query("report") EXCEPT !.mode = "sprint"], [Query("report") EXCEPT !.week = 0],
   [Query("global") EXCEPT !.week = 7], [Query("patterns") EXCEPT !.mode = "sprint"],
   [Query("run-log") EXCEPT !.week = 14], [Query("run-log") EXCEPT !.day = 20],
   AskTimes("patterns", 5, 12, ""), AskTimes("patterns", 9, 3, ""), AskDates("trends", 3, 5, "")}

Init ==
  /\ part \in {"load", "pages", "trends", "links"}
  /\ FactsInit /\ LoadInit /\ TrendsInit /\ NavigationInit

Next ==
  /\ UNCHANGED part
  /\ \/ part = "load" /\ LoadNext /\ UNCHANGED <<fvars, nvars, navvars>>
     \/ part = "pages" /\ FactsNext /\ UNCHANGED <<lvars, nvars, navvars>>
     \/ part = "trends" /\ TrendsNext /\ UNCHANGED <<fvars, lvars, navvars>>
     \/ part = "links" /\ NavigationNext /\ UNCHANGED <<fvars, lvars, nvars>>

Spec == Init /\ [][Next]_<<part, fvars, lvars, nvars, navvars>>

FrontendTypeOK == FactsTypeOK /\ LoadTypeOK /\ TrendsTypeOK /\ NavigationTypeOK
=============================================================================
