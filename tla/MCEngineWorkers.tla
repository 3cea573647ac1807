---------------------------- MODULE MCEngineWorkers ----------------------------
(* Two models, whose sockets and backends may be one. *)
EXTENDS EngineWorkers

CONSTANTS m1, m2, s1, s2, b1, b2, w1, w2, w3, w4, q1
TwoRoutes == <<m1, m2>>
=============================================================================
