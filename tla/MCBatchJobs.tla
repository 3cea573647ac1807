----------------------------- MODULE MCBatchJobs -----------------------------
(***************************************************************************)
(* Batches for TLC: the deployments whose behaviours a run covers.         *)
(***************************************************************************)
EXTENDS BatchJobs

Ways(local, cancels, faults) == [local |-> local, cancels |-> cancels, faults |-> faults]

\* Embedded with graceful restarts and cancellations; a private runner that
\* crashes while nobody cancels, and one that does not crash while somebody does.
AllDeployments ==
    {Ways(TRUE, TRUE, {"stop", "request", "upload", "input"}),
     Ways(FALSE, FALSE, {"stop", "crash", "apiCrash", "request", "upload"}),
     Ways(FALSE, TRUE, {"request"})}
=============================================================================
