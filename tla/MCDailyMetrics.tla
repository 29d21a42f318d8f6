--------------------------- MODULE MCDailyMetrics ---------------------------
(* Instances of DailyMetrics.                                                 *)
EXTENDS DailyMetrics

CONSTANTS dev, int, mon, r1, r3, batch

MCEnvOf == [r \in Runs |-> IF r = r3 THEN int ELSE dev]
MCDayOf == [r \in Runs |-> mon]
=============================================================================
