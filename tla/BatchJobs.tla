------------------------------ MODULE BatchJobs ------------------------------
(***************************************************************************)
(* Batches: the handlers that create and cancel them (api/v1/batches.py,   *)
(* usecases/batches.py), the runner that claims them (the batch half of    *)
(* service/jobs/runner.py) and the use case that runs their requests and   *)
(* uploads the results, over the records of module JobRecords.             *)
(*                                                                         *)
(* Granularity.  A coroutine keeps its process's event loop from one real  *)
(* await to the next, and between two of its store calls other processes   *)
(* make theirs.  proc[p].todo lists the store calls process p still makes  *)
(* before it suspends, one step each; when it is empty the event loop may  *)
(* resume anything.  A task suspends while its input file is read, while   *)
(* its requests run and while a result file is uploaded.                   *)
(*                                                                         *)
(* The deployment is chosen in Init and never changes: in local mode the   *)
(* handlers run in the runner's process, otherwise in API workers.         *)
(* Batches are never deleted and their retention is not modelled.          *)
(***************************************************************************)
EXTENDS JobRecords, Naturals, Sequences, FiniteSets

CONSTANTS
    Batches,
    Workers,      \* API worker processes, used unless the deployment is local
    Lines,        \* requests in each batch's input file
    MaxUp,        \* runner processes up at once
    Deployments   \* records [local, cancels, faults]

FaultKinds == {"stop", "crash", "apiCrash", "request", "upload", "input"}

ASSUME BatchAssumption ==
    /\ Lines \in Nat /\ MaxUp \in Nat
    /\ Workers \cap (Runners \cup {None}) = {}
    /\ Deployments \subseteq
         [local : BOOLEAN, cancels : BOOLEAN, faults : SUBSET FaultKinds]

VARIABLES
    deploy,
    batch, spec, exec, lease,  \* the store, per batch
    files,                     \* the result files uploaded, per batch
    proc,                      \* every process: what it does before it next suspends
    task,                      \* runners' asyncio tasks, where each is suspended
    told                       \* what the last cancel of a batch answered (history)

storeVars == <<batch, spec, exec, lease, files>>
vars == <<deploy, batch, spec, exec, lease, files, proc, task, told>>

Processes == Runners \cup Workers

BatchStatus ==
    {"none", "validating", "in_progress", "finalizing", "cancelling"} \cup Terminal

\* A result file is named by the runner that uploaded it: an incarnation runs a
\* batch once.
Batch == [status : BatchStatus, ok : 0..Lines, bad : 0..Lines,
          out : Runners \cup {None}, err : Runners \cup {None}]

NoBatch == [status |-> "none", ok |-> 0, bad |-> 0, out |-> None, err |-> None]

NoTask == [at |-> "none", obj |-> NoBatch, ok |-> 0, bad |-> 0, hit |-> FALSE]

Fresh == [up |-> "unborn", todo |-> <<>>, obj |-> NoBatch, seen |-> NoExec]

StepOps == {"putSpec", "enqueue", "flag", "tell", "read", "write", "getExec", "setExec",
            "dropSpec", "release", "look", "renew", "list", "check", "claim", "spawn",
            "getSpec", "await", "owned", "giveUp", "each", "down"}

TypeOK ==
    /\ deploy \in Deployments
    /\ batch \in [Batches -> Batch] /\ spec \in [Batches -> BOOLEAN]
    /\ exec \in [Batches -> Execution] /\ lease \in [Batches -> Lease]
    /\ files \in [Batches -> SUBSET (Runners \X {"out", "err"})]
    /\ \A p \in Processes :
          /\ proc[p].up \in {"unborn", "up", "stop", "down"}
          /\ proc[p].obj \in Batch /\ proc[p].seen \in Execution
          /\ \A i \in DOMAIN proc[p].todo : proc[p].todo[i].op \in StepOps
    /\ task \in [Runners -> [Batches ->
          [at : {"none", "new", "content", "gather", "upOut", "upErr"}, obj : Batch,
           ok : 0..Lines, bad : 0..Lines, hit : BOOLEAN]]]
    /\ told \in [Batches -> {"none", "cancelling", "cancelled"}]

Init ==
    /\ deploy \in Deployments
    /\ batch = [b \in Batches |-> NoBatch] /\ spec = [b \in Batches |-> FALSE]
    /\ exec = [b \in Batches |-> NoExec] /\ lease = [b \in Batches |-> NoLease]
    /\ files = [b \in Batches |-> {}]
    /\ proc = [p \in Processes |-> IF p \in Workers THEN [Fresh EXCEPT !.up = "up"] ELSE Fresh]
    /\ task = [r \in Runners |-> [b \in Batches |-> NoTask]]
    /\ told = [b \in Batches |-> "none"]

-----------------------------------------------------------------------------
(* Programs: the store calls a coroutine makes up to its next await. *)

Step(op, b, arg) == [op |-> op, b |-> b, arg |-> arg, over |-> {}]

Do(op, b) == <<Step(op, b, "none")>>

\* Once for each pair of a batch and an argument, in any order.
Each(op, pairs) == <<[op |-> "each", b |-> None, arg |-> op, over |-> pairs]>>

\* Read the batch and store it again with another status.
Mark(b, status) == Do("read", b) \o <<Step("write", b, status)>>

\* JobStoreService.update_batch_execution: a get and a put.
SetExec(b, status) == Do("getExec", b) \o <<Step("setExec", b, status)>>

\* How _run_batch ends: the execution, the spec, the lease.
Finish(b, status) == SetExec(b, status) \o Do("dropSpec", b) \o Do("release", b)

\* An exception: the use case marks the batch, the runner marks it once more.
Failure(b) == Mark(b, "failed") \o Mark(b, "failed") \o Finish(b, "failed")

\* CancelledError: unless the runner is stopping the batch is cancelled.
Cancellation(r, b) ==
    IF proc[r].up = "stop" THEN Do("release", b)
    ELSE Mark(b, "cancelled") \o Finish(b, "cancelled")

\* _release_owned_work, for a batch still recorded as running here.
GiveUp(b, flagged) ==
    IF flagged
      THEN Mark(b, "cancelled") \o Do("dropSpec", b) \o SetExec(b, "cancelled")
             \o Do("release", b)
      ELSE SetExec(b, "queued") \o Do("release", b)

-----------------------------------------------------------------------------
(* Steps: the process takes the first of its list. *)

At(p, op) == proc[p].todo # <<>> /\ Head(proc[p].todo).op = op
Now(p) == Head(proc[p].todo)
On(p) == Now(p).b

\* What is left of p's list, with steps put before it.
Then(p, steps) == [proc[p] EXCEPT !.todo = steps \o Tail(@)]
Becomes(p, state) == proc' = [proc EXCEPT ![p] = state]
Next1(p) == Becomes(p, Then(p, <<>>))

\* Nothing of the store changes but what is named in the action.
Idle(p) == proc[p].up \in {"up", "stop"} /\ proc[p].todo = <<>>

\* Where a request can be served: a process that may run its handler now.
Serves(p) == Idle(p) /\ proc[p].up = "up" /\ (deploy.local <=> p \in Runners)

\* The event loop of p runs a coroutine that is going to make these steps.
Runs(p, steps) == Becomes(p, [Fresh EXCEPT !.up = proc[p].up, !.todo = steps])

-----------------------------------------------------------------------------
(* API handlers. *)

\* create_batch_use_case, once the input file has been read and parsed: the batch,
\* then the spec, then the execution, in three transactions.
Create(p, b) ==
    /\ Serves(p)
    /\ batch[b] = NoBatch
    /\ batch' = [batch EXCEPT ![b].status = "validating"]
    /\ Runs(p, Do("putSpec", b) \o Do("enqueue", b))
    /\ UNCHANGED <<deploy, spec, exec, lease, files, task, told>>

PutSpec(p) ==
    /\ At(p, "putSpec")
    /\ spec' = [spec EXCEPT ![On(p)] = TRUE]
    /\ Next1(p)
    /\ UNCHANGED <<deploy, batch, exec, lease, files, task, told>>

Enqueue(p) ==
    /\ At(p, "enqueue")
    /\ exec' = [exec EXCEPT ![On(p)] = QueuedExec]
    /\ Next1(p)
    /\ UNCHANGED <<deploy, batch, spec, lease, files, task, told>>

\* cancel_batch reads the batch; a listing shows it from its first transaction on.
Cancel(p, b) ==
    /\ deploy.cancels /\ Serves(p)
    /\ batch[b].status \in {"validating", "in_progress"}
    /\ Becomes(p, [Fresh EXCEPT !.up = "up", !.obj = batch[b], !.todo = Do("flag", b)])
    /\ UNCHANGED <<deploy, storeVars, task, told>>

\* The execution is flagged, or refused if it is over; the copy read before is
\* stored as "cancelling" while it runs and as "cancelled" if it does not.
Flag(p) ==
    LET b == On(p)
        now == RequestCancel(exec[b])
    IN  /\ At(p, "flag")
        /\ exec' = [exec EXCEPT ![b] = now]
        /\ Becomes(p, Then(p,
               IF exec[b].status \in Terminal THEN <<>>
               ELSE IF now.status = "running"
                 THEN <<Step("write", b, "cancelling"), Step("tell", b, "cancelling")>>
               ELSE Do("dropSpec", b)
                      \o <<Step("write", b, "cancelled"), Step("tell", b, "cancelled")>>))
        /\ UNCHANGED <<deploy, batch, spec, lease, files, task, told>>

\* JobRunnerService.request_cancel reaches a task only in its own process.
Tell(p) ==
    LET b == On(p)
    IN  /\ At(p, "tell")
        /\ told' = [told EXCEPT ![b] = Now(p).arg]
        /\ task' = [r \in Runners |-> IF r = p /\ task[r][b].at # "none"
                       THEN [task[r] EXCEPT ![b].hit = TRUE] ELSE task[r]]
        /\ Next1(p)
        /\ UNCHANGED <<deploy, storeVars>>

-----------------------------------------------------------------------------
(* Store calls that several programs make. *)

Read(p) ==
    /\ At(p, "read")
    /\ Becomes(p, [Then(p, <<>>) EXCEPT !.obj = batch[On(p)]])
    /\ UNCHANGED <<deploy, storeVars, task, told>>

\* _store_batch_state: the caller's copy replaces whatever is stored.
Write(p) ==
    LET obj == [proc[p].obj EXCEPT !.status = Now(p).arg]
    IN  /\ At(p, "write")
        /\ batch' = [batch EXCEPT ![On(p)] = obj]
        /\ Becomes(p, [Then(p, <<>>) EXCEPT !.obj = obj])
        /\ UNCHANGED <<deploy, spec, exec, lease, files, task, told>>

GetExec(p) ==
    /\ At(p, "getExec")
    /\ Becomes(p, [Then(p, <<>>) EXCEPT !.seen = exec[On(p)]])
    /\ UNCHANGED <<deploy, storeVars, task, told>>

\* Nothing is put if the get found nothing.
PutExec(p) ==
    LET b == On(p)
        status == Now(p).arg
    IN  /\ At(p, "setExec")
        /\ exec' = [exec EXCEPT ![b] = IF proc[p].seen = NoExec THEN @ ELSE
               [proc[p].seen EXCEPT !.status = status,
                                    !.owner = IF status = "running" THEN p ELSE None]]
        /\ Next1(p)
        /\ UNCHANGED <<deploy, batch, spec, lease, files, task, told>>

DropSpec(p) ==
    /\ At(p, "dropSpec")
    /\ spec' = [spec EXCEPT ![On(p)] = FALSE]
    /\ Next1(p)
    /\ UNCHANGED <<deploy, batch, exec, lease, files, task, told>>

\* release_batch ends a task, if the batch had one.
Release(p) ==
    LET b == On(p)
    IN  /\ At(p, "release")
        /\ lease' = [lease EXCEPT ![b] = Released(@, p)]
        /\ task' = [task EXCEPT ![p][b] = NoTask]
        /\ Next1(p)
        /\ UNCHANGED <<deploy, batch, spec, exec, files, told>>

StoreStep(p) ==
    PutSpec(p) \/ Enqueue(p) \/ Flag(p) \/ Tell(p) \/ Read(p) \/ Write(p)
        \/ GetExec(p) \/ PutExec(p) \/ DropSpec(p) \/ Release(p)

-----------------------------------------------------------------------------
(* The runner's loop. *)

Up == {r \in Runners : proc[r].up \in {"up", "stop"}}
Tasks(r) == {b \in Batches : task[r][b].at # "none"}

Start(r) ==
    /\ proc[r].up = "unborn" /\ Cardinality(Up) < MaxUp
    /\ Becomes(r, [Fresh EXCEPT !.up = "up", !.todo = Do("list", None)])
    /\ UNCHANGED <<deploy, storeVars, task, told>>

\* Another round of _run_loop; tasks just created have had their first step.
Wake(r) ==
    /\ Idle(r) /\ proc[r].up = "up"
    /\ \A b \in Tasks(r) : task[r][b].at # "new"
    /\ Runs(r, Each("look", Tasks(r) \X {FALSE}) \o Do("list", None))
    /\ UNCHANGED <<deploy, storeVars, task, told>>

\* The loop takes one of the batches it still has to see to.
Take(r, b, flagged) ==
    LET job == Now(r).arg
        steps == CASE job = "look"   -> Do("look", b) \o Do("renew", b)
                   [] job = "check"  -> Do("check", b)
                   [] job = "giveUp" -> GiveUp(b, flagged)
        rest  == Now(r).over \ {<<b, flagged>>}
    IN  /\ At(r, "each") /\ <<b, flagged>> \in Now(r).over
        /\ Becomes(r, Then(r, steps \o IF rest = {} THEN <<>> ELSE Each(job, rest)))
        /\ UNCHANGED <<deploy, storeVars, task, told>>

TakeNone(r) ==
    /\ At(r, "each") /\ Now(r).over = {}
    /\ Next1(r)
    /\ UNCHANGED <<deploy, storeVars, task, told>>

\* _heartbeat_and_prune: a flagged batch's task is cancelled, its lease extended.
Look(r) ==
    /\ At(r, "look")
    /\ task' = [task EXCEPT ![r][On(r)].hit = @ \/ exec[On(r)].cancel]
    /\ Next1(r)
    /\ UNCHANGED <<deploy, storeVars, told>>

Renew(r) ==
    /\ At(r, "renew")
    /\ lease' = [lease EXCEPT ![On(r)] = Renewed(@, r)]
    /\ Next1(r)
    /\ UNCHANGED <<deploy, batch, spec, exec, files, task, told>>

\* Mutant: a batch that had started before is not claimed again.
ClaimableQueued(r, b) == Claimable(exec[b]) /\ task[r][b].at = "none" /\ exec[b].status = "queued"

\* _is_claimable_batch.
ClaimableBatch(r, b) == Claimable(exec[b]) /\ task[r][b].at = "none"

\* _claim_pending; max_parallel_jobs is taken to exceed the number of batches.
List(r) ==
    /\ At(r, "list")
    /\ Becomes(r, Then(r, Each("check", {b \in Batches : ClaimableBatch(r, b)} \X {FALSE})))
    /\ UNCHANGED <<deploy, storeVars, task, told>>

Check(r) ==
    /\ At(r, "check")
    /\ Becomes(r, Then(r, IF ClaimableBatch(r, On(r)) THEN Do("claim", On(r)) ELSE <<>>))
    /\ UNCHANGED <<deploy, storeVars, task, told>>

\* _claim_batch: the lease, then the execution, then the task.
Claim(r) ==
    LET b == On(r)
        free == ~HeldByOther(lease[b], r)
    IN  /\ At(r, "claim")
        /\ lease' = [lease EXCEPT ![b] = IF free THEN Claimed(r) ELSE @]
        /\ Becomes(r, Then(r, IF free THEN SetExec(b, "running") \o Do("spawn", b) ELSE <<>>))
        /\ UNCHANGED <<deploy, batch, spec, exec, files, task, told>>

Spawn(r) ==
    /\ At(r, "spawn")
    /\ task' = [task EXCEPT ![r][On(r)].at = "new"]
    /\ Next1(r)
    /\ UNCHANGED <<deploy, storeVars, told>>

-----------------------------------------------------------------------------
(* A batch's task. *)

\* The task suspends at point arg, keeping its copy of the batch.
Await(r) ==
    /\ At(r, "await")
    /\ task' = [task EXCEPT ![r][On(r)].at = Now(r).arg, ![r][On(r)].obj = proc[r].obj]
    /\ Next1(r)
    /\ UNCHANGED <<deploy, storeVars, told>>

\* r's event loop resumes the task of b, suspended at a point of `at`.
Resumes(r, b, at) == Idle(r) /\ task[r][b].at \in at /\ ~task[r][b].hit

Holding(r, obj, steps) ==
    Becomes(r, [Fresh EXCEPT !.up = proc[r].up, !.obj = obj, !.todo = steps])

Begin(r, b) ==
    /\ Resumes(r, b, {"new"})
    /\ Runs(r, Do("getSpec", b))
    /\ UNCHANGED <<deploy, storeVars, task, told>>

GetSpec(r) ==
    LET b == On(r)
    IN  /\ At(r, "getSpec")
        /\ Becomes(r, Then(r, IF spec[b] THEN <<Step("await", b, "content")>>
                              ELSE SetExec(b, "failed") \o Do("release", b)))
        /\ UNCHANGED <<deploy, storeVars, task, told>>

\* The input file has been read and parsed.
Content(r, b) ==
    /\ Resumes(r, b, {"content"})
    /\ Runs(r, Mark(b, "in_progress") \o <<Step("await", b, "gather")>>)
    /\ UNCHANGED <<deploy, storeVars, task, told>>

\* _dispatch_request: the use case of the batch's endpoint answers or raises.
Dispatched == IF "request" \in deploy.faults THEN BOOLEAN ELSE {TRUE}

\* A request of the batch is done; one that raises is a failed line, not a failure.
LineDone(r, b, ok) ==
    /\ Resumes(r, b, {"gather"})
    /\ task[r][b].ok + task[r][b].bad < Lines
    /\ task' = [task EXCEPT ![r][b].ok = IF ok THEN @ + 1 ELSE @,
                            ![r][b].bad = IF ok THEN @ ELSE @ + 1]
    /\ UNCHANGED <<deploy, storeVars, proc, told>>

\* Mutant: failed requests are not counted.
GatheredOk(r, b) ==
    /\ Resumes(r, b, {"gather"})
    /\ task[r][b].ok + task[r][b].bad = Lines
    /\ Holding(r, [task[r][b].obj EXCEPT !.ok = task[r][b].ok, !.bad = 0],
               <<Step("write", b, "finalizing"), Step("await", b, "upOut")>>)
    /\ UNCHANGED <<deploy, storeVars, task, told>>

\* All are done: the counts are stored, the results uploaded.
Gathered(r, b) ==
    /\ Resumes(r, b, {"gather"})
    /\ task[r][b].ok + task[r][b].bad = Lines
    /\ Holding(r, [task[r][b].obj EXCEPT !.ok = task[r][b].ok, !.bad = task[r][b].bad],
               <<Step("write", b, "finalizing"), Step("await", b, "upOut")>>)
    /\ UNCHANGED <<deploy, storeVars, task, told>>

\* Mutant: the batch is completed before its error file is there.
CompletesEarly(r, b) ==
    LET at == task[r][b].at
        obj == IF at = "upOut" THEN [task[r][b].obj EXCEPT !.out = r]
                               ELSE [task[r][b].obj EXCEPT !.err = r]
    IN  /\ Resumes(r, b, {"upOut", "upErr"})
        /\ files' = [files EXCEPT ![b] = @ \cup {<<r, IF at = "upOut" THEN "out" ELSE "err">>}]
        /\ Holding(r, obj,
               IF at = "upOut" /\ task[r][b].bad > 0
                 THEN <<Step("write", b, "completed"), Step("await", b, "upErr")>>
                 ELSE <<Step("write", b, "completed")>> \o Finish(b, "completed"))
        /\ UNCHANGED <<deploy, batch, spec, exec, lease, task, told>>

\* A result file is stored; errors get a file only if there are any.
Uploaded(r, b) ==
    LET at == task[r][b].at
        obj == IF at = "upOut" THEN [task[r][b].obj EXCEPT !.out = r]
                               ELSE [task[r][b].obj EXCEPT !.err = r]
    IN  /\ Resumes(r, b, {"upOut", "upErr"})
        /\ files' = [files EXCEPT ![b] = @ \cup {<<r, IF at = "upOut" THEN "out" ELSE "err">>}]
        /\ Holding(r, obj,
               IF at = "upOut" /\ task[r][b].bad > 0
                 THEN <<Step("await", b, "upErr")>>
                 ELSE <<Step("write", b, "completed")>> \o Finish(b, "completed"))
        /\ UNCHANGED <<deploy, batch, spec, exec, lease, task, told>>

\* Reading the input or storing a result raises.
Fails(r, b) ==
    /\ \/ "input" \in deploy.faults /\ Resumes(r, b, {"content"})
       \/ "upload" \in deploy.faults /\ Resumes(r, b, {"upOut", "upErr"})
    /\ Runs(r, Failure(b))
    /\ UNCHANGED <<deploy, storeVars, task, told>>

\* A task cancelled before its first step never enters the coroutine ...
DropUnstarted(r, b) ==
    /\ Idle(r) /\ task[r][b].hit /\ task[r][b].at = "new"
    /\ task' = [task EXCEPT ![r][b] = NoTask]
    /\ UNCHANGED <<deploy, storeVars, proc, told>>

\* ... any other has CancelledError raised where it is suspended.
Cancelled(r, b) ==
    /\ Idle(r) /\ task[r][b].hit /\ task[r][b].at \notin {"none", "new"}
    /\ Runs(r, Cancellation(r, b))
    /\ UNCHANGED <<deploy, storeVars, task, told>>

TaskStep(r, b) ==
    \/ Begin(r, b) \/ Content(r, b) \/ Gathered(r, b) \/ Uploaded(r, b) \/ Fails(r, b)
    \/ DropUnstarted(r, b) \/ Cancelled(r, b)
    \/ \E ok \in Dispatched : LineDone(r, b, ok)

-----------------------------------------------------------------------------
(* Shutdown and faults. *)

\* destroy: the tasks are cancelled and awaited ...
Stop(r) ==
    /\ "stop" \in deploy.faults
    /\ Idle(r) /\ proc[r].up = "up"
    /\ proc' = [proc EXCEPT ![r].up = "stop"]
    /\ task' = [task EXCEPT ![r] = [b \in Batches |->
                  IF b \in Tasks(r) THEN [task[r][b] EXCEPT !.hit = TRUE] ELSE NoTask]]
    /\ UNCHANGED <<deploy, storeVars, told>>

\* ... and what is still recorded as running here is listed and given up.
ReleaseOwned(r) ==
    /\ Idle(r) /\ proc[r].up = "stop" /\ Tasks(r) = {}
    /\ Runs(r, Do("owned", None) \o Do("down", None))
    /\ UNCHANGED <<deploy, storeVars, task, told>>

ListOwned(r) ==
    /\ At(r, "owned")
    /\ Becomes(r, Then(r, Each("giveUp", {<<b, exec[b].cancel>> : b \in
                     {c \in Batches : exec[c].owner = r /\ exec[c].status = "running"}})))
    /\ UNCHANGED <<deploy, storeVars, task, told>>

Down(r) ==
    /\ At(r, "down")
    /\ Becomes(r, [Fresh EXCEPT !.up = "down"])
    /\ UNCHANGED <<deploy, storeVars, task, told>>

LoopStep(r) ==
    \/ TakeNone(r) \/ Look(r) \/ Renew(r) \/ List(r) \/ Check(r) \/ Claim(r) \/ Spawn(r)
    \/ Await(r) \/ GetSpec(r) \/ ReleaseOwned(r) \/ ListOwned(r) \/ Down(r)
    \/ \E b \in Batches, flagged \in BOOLEAN : Take(r, b, flagged)

Crash(r) ==
    /\ "crash" \in deploy.faults /\ r \in Up
    /\ Becomes(r, [Fresh EXCEPT !.up = "down"])
    /\ task' = [task EXCEPT ![r] = [b \in Batches |-> NoTask]]
    /\ UNCHANGED <<deploy, storeVars, told>>

\* An API worker dies between two transactions of a request and is replaced.
WorkerCrash(w) ==
    /\ "apiCrash" \in deploy.faults
    /\ proc[w].todo # <<>>
    /\ Becomes(w, [Fresh EXCEPT !.up = "up"])
    /\ UNCHANGED <<deploy, storeVars, task, told>>

\* A lease runs out once its owner no longer renews it: it is gone, or through.
Expire(b) ==
    LET r == lease[b].owner
    IN  /\ lease[b].live
        /\ task[r][b].at = "none"
        /\ \A i \in DOMAIN proc[r].todo :
              proc[r].todo[i].b = b => proc[r].todo[i].op \notin {"setExec", "spawn"}
        /\ lease' = [lease EXCEPT ![b].live = FALSE]
        /\ UNCHANGED <<deploy, batch, spec, exec, files, proc, task, told>>

Next ==
    \/ \E p \in Processes : StoreStep(p) \/ \E b \in Batches : Create(p, b) \/ Cancel(p, b)
    \/ \E r \in Runners : Start(r) \/ Wake(r) \/ LoopStep(r) \/ Stop(r) \/ Crash(r)
    \/ \E r \in Runners, b \in Batches : TaskStep(r, b)
    \/ \E w \in Workers : WorkerCrash(w)
    \/ \E b \in Batches : Expire(b)

Spec == Init /\ [][Next]_vars

\* Event loops go round, requests and uploads end, leases run out, and a service
\* manager starts another runner when too few are up.
Fairness ==
    /\ \A p \in Processes : WF_vars(StoreStep(p))
    /\ \A r \in Runners : WF_vars(LoopStep(r)) /\ WF_vars(Start(r)) /\ SF_vars(Wake(r))
    /\ \A r \in Runners, b \in Batches : SF_vars(TaskStep(r, b))
    /\ \A b \in Batches : WF_vars(Expire(b))

FairSpec == Spec /\ Fairness

-----------------------------------------------------------------------------
(* Properties. *)

\* Nobody is in the middle of anything that concerns batch b.
Quiet(b) ==
    /\ \A p \in Processes : \A i \in DOMAIN proc[p].todo :
          proc[p].todo[i].b # b /\ proc[p].todo[i].over = {}
    /\ \A r \in Runners : task[r][b].at = "none"

\* Once a batch has come to rest, what clients read agrees with its execution: the
\* two are stored by different calls of a task, a handler and a shutdown.  A private
\* runner's batch that somebody cancelled is excepted (see README).
SettledAgree ==
    \A b \in Batches :
        Quiet(b) /\ exec[b].status \in Terminal /\ (deploy.local \/ ~deploy.cancels) =>
            batch[b].status = exec[b].status

\* A completed batch accounts for every request of its input, names an output file
\* that exists, and an error file of the same run if a request failed.
CompletedIsWhole ==
    \A b \in Batches : batch[b].status = "completed" =>
        /\ batch[b].ok + batch[b].bad = Lines
        /\ <<batch[b].out, "out">> \in files[b]
        /\ batch[b].bad > 0 => batch[b].err = batch[b].out /\ <<batch[b].err, "err">> \in files[b]

\* In local mode a client that was told its batch is being cancelled never sees it
\* go on, complete or fail.
CancelAnswerHolds ==
    \A b \in Batches : deploy.local /\ told[b] # "none" =>
        batch[b].status \in {told[b], "cancelled"}

\* Whatever clients read of a batch can be relied on: its end, its files and counts,
\* and the answer to a cancel.
BatchToldTruly == TypeOK /\ SettledAgree /\ CompletedIsWhole /\ CancelAnswerHolds

\* Unless a process died, a batch that has ended keeps its end, its counts and its
\* files, whatever handlers, restarts and other runners do.
EndIsFinal ==
    [][\A b \in Batches :
          batch[b].status \in Terminal /\ "crash" \notin deploy.faults
              /\ (deploy.local \/ ~deploy.cancels) =>
            batch'[b] = batch[b]]_vars

\* A batch that was queued ends, through crashes and restarts, as long as a
\* runner is left and nobody cancels.
BatchesEnd ==
    \A b \in Batches : exec[b].status = "queued" ~>
        \/ exec[b].status \in Terminal \/ deploy.cancels
        \/ \A r \in Runners : proc[r].up = "down"
=============================================================================
