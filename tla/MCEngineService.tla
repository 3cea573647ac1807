---------------------------- MODULE MCEngineService ----------------------------
(* Two models; one adapter from the settings, one that operators add. *)
EXTENDS EngineService, TLC

CONSTANTS n1, n2, p1, p2
Two == 1..2
FromSettings == { <<n1, p1, 1>> }
Symmetry == Permutations(Calls)
=============================================================================
