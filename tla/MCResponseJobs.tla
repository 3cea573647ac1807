--------------------------- MODULE MCResponseJobs ---------------------------
(***************************************************************************)
(* Background responses for TLC.  The cfgs give jobs, runners and handlers *)
(* as sets of model values, one cfg per deployment and fault model.        *)
(***************************************************************************)
EXTENDS JobProperties, TLC

\* Runner incarnations are interchangeable, and so are jobs and handlers; used
\* by runs without liveness or refinement.
Symmetry == Permutations(Runners) \cup Permutations(Jobs) \cup Permutations(Handlers)
=============================================================================
