----------------------- MODULE MCPreparedWindowCache -----------------------
(* Instances of PreparedWindowCache: weeks of two ticks, a cached window of    *)
(* three, and requests for a part of the first window, for one that begins in  *)
(* the first week and ends in the second, and for an unsupported environment.  *)
EXTENDS PreparedWindowCache

CONSTANTS dev, int, lab

MCAsked == {Opts({dev}, 0, 1), Opts({dev, int}, 1, 3), Opts({lab}, 0, 2)}
=============================================================================
