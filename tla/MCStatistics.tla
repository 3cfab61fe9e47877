--------------------------- MODULE MCStatistics ---------------------------
(* Small instances of Statistics: two days of two hours of two ticks.       *)
EXTENDS Statistics
=============================================================================
