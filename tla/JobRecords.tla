----------------------------- MODULE JobRecords -----------------------------
(***************************************************************************)
(* The durable records of a background job, shared by every process that   *)
(* opens the LMDB store: the execution record (protocol/job.py,            *)
(* service/jobs/store.py) and the lease (service/jobs/lease.py), with the  *)
(* mutations the store runs inside one write transaction.                  *)
(*                                                                         *)
(* Timestamps are abstracted: a lease is live or it is not.  The attempt   *)
(* counter, last_error and the start and finish times are left out, nobody *)
(* reads them to decide anything.                                          *)
(***************************************************************************)
CONSTANTS
    Runners,   \* runner processes, one value per incarnation (owner ids are fresh uuids)
    None       \* no owner

ASSUME NoneAssumption == None \notin Runners

Terminal == {"completed", "failed", "cancelled"}

ExecStatus == {"none", "queued", "running"} \cup Terminal

\* ResponseExecution; the status "none" stands for a key the store does not have.
Execution == [status : ExecStatus, cancel : BOOLEAN, owner : Runners \cup {None}]

NoExec == [status |-> "none", cancel |-> FALSE, owner |-> None]

\* JobLease; live is lease_expires_at > now.
Lease == [owner : Runners \cup {None}, live : BOOLEAN]

NoLease == [owner |-> None, live |-> FALSE]

(***************************************************************************)
(* Slips the code could have had; the mutants of PROJECT.json put one of   *)
(* them in an operator's place and name the property that notices.         *)
(***************************************************************************)
UnknownStatusExec == [status |-> "in_progress", cancel |-> FALSE, owner |-> None]
FlagOnly(e) == IF e.status \in Terminal \cup {"none"} THEN e ELSE [e EXCEPT !.cancel = TRUE]
RetryFailed(e) == ~e.cancel /\ e.status \in {"queued", "running", "failed"}
QueuedOnly(e) == ~e.cancel /\ e.status = "queued"
NeverHeld(l, r) == FALSE
ReleaseAnybodys(l, r) == NoLease

-----------------------------------------------------------------------------
\* What a new job starts with.
QueuedExec == [status |-> "queued", cancel |-> FALSE, owner |-> None]

\* Cancelling: a terminal record is returned as it is, a queued one is
\* cancelled at once, a running one is only flagged.
RequestCancel(e) ==
    IF e.status \in Terminal \cup {"none"} THEN e
    ELSE [e EXCEPT !.cancel = TRUE, !.status = IF @ = "queued" THEN "cancelled" ELSE @]

\* The part of _is_claimable_response that reads the record.
Claimable(e) == ~e.cancel /\ e.status \in {"queued", "running"}

\* _claim_mutation refuses: somebody else's lease has not expired.
HeldByOther(l, r) == l.live /\ l.owner # r

\* _claim_mutation grants, whatever lease was there before.
Claimed(r) == [owner |-> r, live |-> TRUE]

\* _heartbeat_mutation: extends the owner's lease, even one already expired.
Renewed(l, r) == IF l.owner = r THEN [l EXCEPT !.live = TRUE] ELSE l

\* _release_mutation: only the owner's lease goes.
Released(l, r) == IF l.owner = r THEN NoLease ELSE l
=============================================================================
