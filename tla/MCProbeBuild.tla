--------------------------- MODULE MCProbeBuild ----------------------------
(* An instance of ProbeBuild for TLC: a loop of two clusters at most, with *)
(* windows anywhere, the period's end among them, peaks that share one and *)
(* a budget of less than two windows.                                      *)
EXTENDS ProbeBuild
MCSignalOrder == <<"a", "b">>
MCPeakCount == [b \in Signals |-> IF b = "a" THEN 2 ELSE 1]
=============================================================================
