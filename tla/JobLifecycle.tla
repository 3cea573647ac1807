---------------------------- MODULE JobLifecycle ----------------------------
(***************************************************************************)
(* What the job store and the leases promise about one background job      *)
(* (protocol/job.py ExecutionStatus, service/jobs/store.py                 *)
(* _TERMINAL_EXECUTION_STATUSES): it is submitted once, worked on by one   *)
(* runner at a time and only while it is running, its outcome is written   *)
(* once and stays until the job is deleted.                                *)
(***************************************************************************)
CONSTANTS Jobs, Runners, None

VARIABLES
    status,   \* per job
    worker    \* the runner at work on it, or None

Outcomes == {"completed", "failed", "cancelled"}

Init ==
    /\ status = [j \in Jobs |-> "none"]
    /\ worker = [j \in Jobs |-> None]

Become(j, from, to) == status[j] \in from /\ status' = [status EXCEPT ![j] = to]

Idle(j) == worker[j] = None /\ UNCHANGED worker

Submit(j) == Become(j, {"none"}, "queued") /\ Idle(j)

\* A queued job, or a running one whose runner was lost, gets a worker.
Claim(j, r) ==
    /\ Become(j, {"queued", "running"}, "running")
    /\ worker[j] = None
    /\ worker' = [worker EXCEPT ![j] = r]

\* The worker writes the outcome, and is done with the job.
Settle(j, outcome) ==
    /\ Become(j, {"running"}, outcome)
    /\ worker[j] # None
    /\ worker' = [worker EXCEPT ![j] = None]

\* The worker is lost, or gives the job up.
Abandon(j) ==
    /\ worker[j] # None
    /\ worker' = [worker EXCEPT ![j] = None]
    /\ UNCHANGED status

Requeue(j) == Become(j, {"running"}, "queued") /\ Idle(j)

\* Cancelled before it is claimed, or after its worker gave it up.
CancelIdle(j) == Become(j, {"queued", "running"}, "cancelled") /\ Idle(j)

Delete(j) == Become(j, Outcomes, "deleted") /\ Idle(j)

Next == \E j \in Jobs :
    \/ Submit(j) \/ Abandon(j) \/ Requeue(j) \/ CancelIdle(j) \/ Delete(j)
    \/ \E r \in Runners : Claim(j, r)
    \/ \E outcome \in Outcomes : Settle(j, outcome)

Spec == Init /\ [][Next]_<<status, worker>>
=============================================================================
