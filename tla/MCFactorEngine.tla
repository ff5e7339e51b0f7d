--------------------------- MODULE MCFactorEngine ---------------------------
(* Small schedules for module FactorEngine.                                  *)
EXTENDS FactorEngine

CONSTANTS t1, t2, c1

\* The first thread computes at 2, which is no send point, and nothing before
\* the first send; the second keeps the value of 1 for the send point 3.
MCSendPoints == {1, 3, 4}
MCComputePoints == [w \in {t1, c1} |-> IF w = t1 THEN {2, 3} ELSE {1, 4}]
MCSaveTimes == {1, 4}

\* Two send points, computed at both.
MCPairPoints == {1, 2}
MCPairCompute == [w \in {t1, t2, c1} |-> {1, 2}]
=============================================================================
