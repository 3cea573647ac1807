---------------------------- MODULE JobProperties ----------------------------
(***************************************************************************)
(* What should hold of background responses, stated over the variables of  *)
(* module ResponseJobs.  Which property holds in which deployment, and     *)
(* which fails there, is what the runs of MCResponseJobs show.             *)
(***************************************************************************)
EXTENDS ResponseJobs

\* Nobody is in the middle of anything that concerns job j.
Quiet(j) ==
    /\ \A r \in Runners : proc[r].cur # j /\ task[r][j] = "none"
    /\ \A h \in Handlers : hnd[h].job # j

NoRunnerLeft == \A r \in Runners : proc[r].pc = "down"

Settled(j) == exec[j].status \in Terminal \cup {"none"}

-----------------------------------------------------------------------------
(* One runner per job. *)

\* No two runners have a task for the same job (lease.py: "Atomic
\* claim/heartbeat/release over LMDB-backed job leases").
OneWorker ==
    \A j \in Jobs : \A r, q \in Runners :
        task[r][j] # "none" /\ task[q][j] # "none" => r = q

\* A runner that works on a job, or is about to, holds its lease, and the lease
\* is live: what makes OneWorker inductive.
WorkersHoldLeases ==
    \A r \in Runners, j \in Jobs : Working(r, j) => lease[j].owner = r /\ lease[j].live

\* Facts the proofs need besides: a task that is about to mark its response in
\* progress exists, ...
MarkersHaveTasks == \A r \in Runners : proc[r].pc = "mark" => task[r][proc[r].cur] # "none"

\* ... a process in the middle of a job's store calls
\* knows the job, an outcome about to be stored in a response is one a response
\* can have, a handler at work has a job, ...
JobSteps == {"renew", "lease", "claimGet", "claimPut", "mark", "peek", "save", "get",
             "put", "drop", "free"}

StepsFit ==
    /\ \A r \in Runners :
          /\ proc[r].pc \in JobSteps => proc[r].cur \in Jobs
          /\ proc[r].pc \in {"peek", "save"} => proc[r].out # "missing"
    /\ \A h \in Handlers : hnd[h].pc # "idle" => hnd[h].job \in Jobs

\* ... and where clients do not delete, no handler is deleting.
NobodyDeletes ==
    \A h \in Handlers :
        hnd[h].pc \notin {"delCheck", "delRecord", "delSpec", "delExec", "delLease"}

\* The inductive invariant behind OneWorker.
LeaseInv == TypeOK /\ StepsFit /\ NobodyDeletes /\ MarkersHaveTasks /\ WorkersHoldLeases

-----------------------------------------------------------------------------
(* The execution record against the response a client reads. *)

\* Once a job has come to rest, its response says what its execution says: the
\* two are written in different transactions, by different coroutines.
SettledRecordsAgree ==
    \A j \in Stored :
        Quiet(j) /\ exec[j].status \in {"completed", "cancelled"} => record[j] = exec[j].status

\* A job is only recorded as completed once its response has been stored, also
\* when a crash falls between the two writes.
CompletedIsStored ==
    \A j \in Stored : Quiet(j) /\ exec[j].status = "completed" => record[j] = "completed"

\* The same for failures: the response of a failed job must not stay queued.
FailedIsStored ==
    \A j \in Stored : Quiet(j) /\ exec[j].status = "failed" => record[j] = "failed"

\* A job somebody may still claim has the spec it is run from: spec and execution
\* are separate records, created and dropped by different transactions.
ClaimableHasSpec ==
    \A j \in Jobs : Quiet(j) /\ Claimable(exec[j]) => spec[j]

\* What is stored about a job fits together whenever nobody is at work on it.
RecordsAgree == SettledRecordsAgree /\ ClaimableHasSpec

\* A client that was answered "cancelled" never sees the job come back.
CancelAnswerHolds ==
    \A j \in Jobs : told[j] = "cancelled" =>
        record[j] \in {"cancelled", "none"} /\ exec[j].status \in {"cancelled", "none"}

\* Deleting a response takes all four of its records; none is written again by
\* a runner or a handler that still had hold of it.
DeletedLeavesNothing ==
    \A j \in created : Quiet(j) /\ exec[j] = NoExec =>
        record[j] = "none" /\ ~spec[j] /\ lease[j] = NoLease

-----------------------------------------------------------------------------
(* What a step may never do. *)

\* An execution with a status of _TERMINAL_EXECUTION_STATUSES keeps it until it is
\* deleted.
OutcomeIsFinal ==
    [][\A j \in Jobs : exec[j].status \in Terminal =>
          exec'[j].status \in {exec[j].status, "none"}]_vars

-----------------------------------------------------------------------------
(* Refinement: the records and tasks of all processes behave as one job. *)

\* r's task has not yet written the outcome of job j.
Engaged(r, j) ==
    /\ task[r][j] # "none"
    /\ ~(proc[r].cur = j /\ proc[r].pc \in {"drop", "free"} /\ proc[r].out # "none")

JobStatus == [j \in Jobs |-> IF j \in created /\ exec[j] = NoExec THEN "deleted"
                             ELSE exec[j].status]

JobWorker == [j \in Jobs |-> IF \E r \in Runners : Engaged(r, j)
                             THEN CHOOSE r \in Runners : Engaged(r, j) ELSE None]

Lifecycle == INSTANCE JobLifecycle WITH status <- JobStatus, worker <- JobWorker

\* Every behaviour is one of module JobLifecycle: a job is worked on by one runner
\* at a time, settles once and does not start over.
ImplementsLifecycle == Lifecycle!Spec

-----------------------------------------------------------------------------
(* What must happen. *)

\* Every created job settles, whatever crashes, as long as a runner is left.
JobsSettle ==
    \A j \in Jobs : j \in created ~> Settled(j) \/ NoRunnerLeft

\* A job whose cancellation was requested settles.
CancelSettles ==
    \A j \in Jobs : exec[j].cancel ~> Settled(j) \/ NoRunnerLeft

\* A runner that was told to stop does stop: no task it awaits is left hanging.
ShutdownEnds ==
    \A r \in Runners : proc[r].stop # "no" ~> proc[r].pc = "down"
=============================================================================
