---------------------------- MODULE ResponseJobs ----------------------------
(***************************************************************************)
(* Background responses: the API handlers that create, cancel and delete   *)
(* them (usecases/responses_creation.py, responses_admin.py), the runner   *)
(* service that claims and runs them (service/jobs/runner.py) and the use  *)
(* case a runner's task executes (usecases/responses_background.py), over  *)
(* the records of module JobRecords.                                       *)
(*                                                                         *)
(* Granularity.  Every store call is one LMDB transaction and never        *)
(* suspends the calling coroutine, so a coroutine keeps its process's      *)
(* event loop from one real await to the next: proc[r].pc says which store *)
(* call process r makes next, "idle" that its event loop may resume any    *)
(* coroutine.  Between two store calls of one process, other processes     *)
(* make theirs.  In local mode (Local) the handlers run in the runner's    *)
(* process and occupy it ("api"); otherwise each is in an API worker.      *)
(***************************************************************************)
EXTENDS JobRecords, FiniteSets, Naturals

CONSTANTS
    Jobs,         \* response ids
    Handlers,     \* request handlers, each serving one request at a time
    Local,        \* embedded + local: API handlers share the runner's process
    Stored,       \* the jobs whose request did not say store=false
    MaxParallel,  \* settings: max_parallel_jobs
    MaxUp,        \* how many runner processes may be up at once
    Ops,          \* requests clients send besides creations: "cancel", "delete"
    Faults        \* "stop", "crash", "apiCrash", "stall", "engine"

ASSUME ResponseJobsAssumption ==
    /\ Stored \subseteq Jobs
    /\ MaxParallel \in Nat \ {0}
    /\ MaxUp \in Nat \ {0}
    /\ Local \in BOOLEAN
    /\ Ops \subseteq {"cancel", "delete"}
    /\ Faults \subseteq {"stop", "crash", "apiCrash", "stall", "engine"}

VARIABLES
    record,   \* the stored response object's status, per job
    spec,     \* whether the job's spec is stored
    exec,     \* the execution record
    lease,    \* the lease record
    proc,     \* what each runner process is doing
    task,     \* where each of a runner's asyncio tasks is suspended
    hit,      \* the tasks a runner has called cancel() on
    hnd,      \* the API handlers
    created,  \* the jobs whose creation has been answered
    told      \* what the last cancel answered for a job (history variable)

storeVars  == <<record, spec, exec, lease>>
runnerVars == <<proc, task, hit>>
apiVars    == <<hnd, created, told>>
vars       == <<record, spec, exec, lease, proc, task, hit, hnd, created, told>>

\* "completed" stands for "incomplete" as well, which the same code stores.
RecordStatus == {"none", "queued", "in_progress", "cancelling"} \cup Terminal

ProcState ==
    [pc   : {"unborn", "down", "idle", "api", "look", "renew", "list", "check",
             "lease", "claimGet", "claimPut", "mark", "peek", "save", "get",
             "put", "drop", "free", "release"},
     cur  : Jobs \cup {None},
     todo : SUBSET Jobs, doomed : SUBSET Jobs,
     copy : Execution,
     out  : {"none", "missing", "queued"} \cup Terminal,
     stop : {"no", "tasks", "release"}]

Fresh == [pc |-> "unborn", cur |-> None, todo |-> {}, doomed |-> {},
          copy |-> NoExec, out |-> "none", stop |-> "no"]

HandlerState ==
    [pc   : {"idle", "putSpec", "putExec", "load", "save", "dropSpec", "answer",
             "delCheck", "delRecord", "delSpec", "delExec", "delLease"},
     job  : Jobs \cup {None},
     host : Runners \cup {None},
     seen : ExecStatus \cup {"terminal"}]

NoRequest == [pc |-> "idle", job |-> None, host |-> None, seen |-> "none"]

TypeOK ==
    /\ record \in [Jobs -> RecordStatus]
    /\ spec \in [Jobs -> BOOLEAN]
    /\ exec \in [Jobs -> Execution]
    /\ lease \in [Jobs -> Lease]
    /\ proc \in [Runners -> ProcState]
    /\ task \in [Runners -> [Jobs -> {"none", "new", "init", "gen"}]]
    /\ hit \in [Runners -> SUBSET Jobs]
    /\ hnd \in [Handlers -> HandlerState]
    /\ created \subseteq Jobs
    /\ told \in [Jobs -> {"none", "cancelling", "cancelled"}]

Init ==
    /\ record = [j \in Jobs |-> "none"]
    /\ spec = [j \in Jobs |-> FALSE]
    /\ exec = [j \in Jobs |-> NoExec]
    /\ lease = [j \in Jobs |-> NoLease]
    /\ proc = [r \in Runners |-> Fresh]
    /\ task = [r \in Runners |-> [j \in Jobs |-> "none"]]
    /\ hit = [r \in Runners |-> {}]
    /\ hnd = [h \in Handlers |-> NoRequest]
    /\ created = {}
    /\ told = [j \in Jobs |-> "none"]

Up == {r \in Runners : proc[r].pc \notin {"unborn", "down"}}

\* The keys of runner r's _tasks.
Tasks(r) == {j \in Jobs : task[r][j] # "none"}

HasRoom(r) == Cardinality(Tasks(r)) < MaxParallel

-----------------------------------------------------------------------------
(* API handlers. *)

\* A request reaches a handler: in local mode the runner's process, which must
\* not be busy and is not shutting down, resumes it; otherwise its own worker.
Serve(h, host) ==
    /\ hnd[h].pc = "idle"
    /\ IF Local
         THEN host \in Runners /\ proc[host].pc = "idle" /\ proc[host].stop = "no"
         ELSE host = None

\* Handler h goes on to step pc with job j, keeping its process.
Continue(h, host, j, pc, seen) ==
    /\ hnd' = [hnd EXCEPT ![h] = [pc |-> pc, job |-> j, host |-> host, seen |-> seen]]
    /\ proc' = [r \in Runners |-> IF r = host THEN [proc[r] EXCEPT !.pc = "api"]
                                  ELSE proc[r]]

\* Handler h is done with its request and yields its process.
Finish(h) ==
    /\ hnd' = [hnd EXCEPT ![h] = NoRequest]
    /\ proc' = [r \in Runners |-> IF r = hnd[h].host THEN [proc[r] EXCEPT !.pc = "idle"]
                                  ELSE proc[r]]

Step(h, pc) == Continue(h, hnd[h].host, hnd[h].job, pc, hnd[h].seen)

\* create_background_response_use_case: the queued response (unless store=false),
\* then the spec, then the execution record, in three transactions.
Create(h, host, j) ==
    /\ Serve(h, host)
    /\ j \notin created /\ record[j] = "none" /\ ~spec[j]
    /\ \A g \in Handlers : hnd[g].job # j
    /\ record' = [record EXCEPT ![j] = IF j \in Stored THEN "queued" ELSE @]
    /\ Continue(h, host, j, "putSpec", "none")
    /\ UNCHANGED <<spec, exec, lease, task, hit, created, told>>

PutSpec(h) ==
    /\ hnd[h].pc = "putSpec"
    /\ spec' = [spec EXCEPT ![hnd[h].job] = TRUE]
    /\ Step(h, "putExec")
    /\ UNCHANGED <<record, exec, lease, task, hit, created, told>>

PutExec(h) ==
    /\ hnd[h].pc = "putExec"
    /\ exec' = [exec EXCEPT ![hnd[h].job] = QueuedExec]
    /\ created' = created \cup {hnd[h].job}
    /\ Finish(h)
    /\ UNCHANGED <<record, spec, lease, task, hit, told>>

\* cancel_response_use_case, first transaction: flag or cancel the execution.
\* The handler keeps the status the mutation reported, "terminal" if it already was.
Cancel(h, host, j) ==
    /\ "cancel" \in Ops
    /\ Serve(h, host)
    /\ j \in created
    /\ exec' = [exec EXCEPT ![j] = RequestCancel(@)]
    /\ Continue(h, host, j, "load",
                IF exec[j].status \in Terminal THEN "terminal" ELSE exec'[j].status)
    /\ UNCHANGED <<record, spec, lease, task, hit, created, told>>

\* Loading the response: refuse what is not in progress, else decide what to save.
LoadResponse(h) ==
    LET j == hnd[h].job
        refused == \/ hnd[h].seen = "terminal"
                   \/ hnd[h].seen = "none" /\ record[j] \notin {"queued", "in_progress"}
    IN  /\ hnd[h].pc = "load"
        /\ \/ refused /\ Finish(h)
           \/ ~refused /\ record[j] # "none" /\ Step(h, "save")
           \/ ~refused /\ record[j] = "none" /\ Step(h, "answer")
        /\ UNCHANGED <<record, spec, exec, lease, task, hit, created, told>>

\* A running job's response becomes "cancelling", any other one "cancelled".
SaveResponse(h) ==
    /\ hnd[h].pc = "save"
    /\ \/ /\ hnd[h].seen = "running"
          /\ record' = [record EXCEPT ![hnd[h].job] = "cancelling"]
          /\ Step(h, "answer")
       \/ /\ hnd[h].seen # "running"
          /\ record' = [record EXCEPT ![hnd[h].job] = "cancelled"]
          /\ Step(h, "dropSpec")
    /\ UNCHANGED <<spec, exec, lease, task, hit, created, told>>

DropSpec(h) ==
    /\ hnd[h].pc = "dropSpec"
    /\ spec' = [spec EXCEPT ![hnd[h].job] = FALSE]
    /\ Step(h, "answer")
    /\ UNCHANGED <<record, exec, lease, task, hit, created, told>>

\* JobRunnerService.request_cancel reaches a task only in the runner's own process.
Answer(h) ==
    LET j == hnd[h].job
    IN  /\ hnd[h].pc = "answer"
        /\ hit' = [r \in Runners |-> IF r = hnd[h].host /\ task[r][j] # "none"
                                     THEN hit[r] \cup {j} ELSE hit[r]]
        /\ told' = [told EXCEPT ![j] =
                       IF hnd[h].seen = "running" THEN "cancelling" ELSE "cancelled"]
        /\ Finish(h)
        /\ UNCHANGED <<record, spec, exec, lease, task, created>>

\* delete_response_use_case: the response must be there ...
Delete(h, host, j) ==
    /\ "delete" \in Ops
    /\ Serve(h, host)
    /\ record[j] # "none" /\ j \in created
    /\ Continue(h, host, j, "delCheck", "none")
    /\ UNCHANGED <<record, spec, exec, lease, task, hit, created, told>>

\* Mutant: the check of the execution is forgotten.
DeleteUnchecked(h) ==
    /\ hnd[h].pc = "delCheck"
    /\ Step(h, "delRecord")
    /\ UNCHANGED <<record, spec, exec, lease, task, hit, created, told>>

\* ... and its execution neither queued nor running.
DeleteCheck(h) ==
    /\ hnd[h].pc = "delCheck"
    /\ IF exec[hnd[h].job].status \in {"queued", "running"} THEN Finish(h)
       ELSE Step(h, "delRecord")
    /\ UNCHANGED <<record, spec, exec, lease, task, hit, created, told>>

\* delete_response_state: response, spec, execution and lease, one after another.
DeleteRecord(h) ==
    /\ hnd[h].pc = "delRecord"
    /\ record' = [record EXCEPT ![hnd[h].job] = "none"]
    /\ Step(h, "delSpec")
    /\ UNCHANGED <<spec, exec, lease, task, hit, created, told>>

DeleteSpec(h) ==
    /\ hnd[h].pc = "delSpec"
    /\ spec' = [spec EXCEPT ![hnd[h].job] = FALSE]
    /\ Step(h, "delExec")
    /\ UNCHANGED <<record, exec, lease, task, hit, created, told>>

DeleteExec(h) ==
    /\ hnd[h].pc = "delExec"
    /\ exec' = [exec EXCEPT ![hnd[h].job] = NoExec]
    /\ Step(h, "delLease")
    /\ UNCHANGED <<record, spec, lease, task, hit, created, told>>

DeleteLease(h) ==
    /\ hnd[h].pc = "delLease"
    /\ lease' = [lease EXCEPT ![hnd[h].job] = NoLease]
    /\ Finish(h)
    /\ UNCHANGED <<record, spec, exec, task, hit, created, told>>

HandlerStep(h) ==
    \/ PutSpec(h) \/ PutExec(h)
    \/ LoadResponse(h) \/ SaveResponse(h) \/ DropSpec(h) \/ Answer(h)
    \/ DeleteCheck(h) \/ DeleteRecord(h) \/ DeleteSpec(h) \/ DeleteExec(h) \/ DeleteLease(h)

\* An API worker of its own dies between two transactions of a request.
WorkerCrash(h) ==
    /\ "apiCrash" \in Faults /\ ~Local
    /\ hnd[h].pc # "idle"
    /\ hnd' = [hnd EXCEPT ![h] = NoRequest]
    /\ UNCHANGED <<storeVars, runnerVars, created, told>>

-----------------------------------------------------------------------------
(* The runner's loop. *)

\* Process r goes on to step pc; At also says for which job.
Goto(r, pc) == proc' = [proc EXCEPT ![r].pc = pc]

At(r, pc, j) == proc' = [proc EXCEPT ![r].pc = pc, ![r].cur = j]

\* Process r's coroutine suspends: its event loop may resume any other.
Yield(r) == proc' = [proc EXCEPT ![r] = [Fresh EXCEPT !.pc = "idle", !.stop = proc[r].stop]]

\* The loop is through with job cur of its list and takes the rest to step pc.
NextJob(r, pc) == proc' = [proc EXCEPT ![r].pc = pc, ![r].cur = None, ![r].copy = NoExec,
                                       ![r].todo = @ \ {proc[r].cur}]

\* JobRunnerService.create: nothing to heartbeat yet, so claim at once.
Start(r) ==
    /\ proc[r].pc = "unborn"
    /\ Cardinality(Up) < MaxUp
    /\ Goto(r, "list")
    /\ UNCHANGED <<storeVars, task, hit, apiVars>>

\* The poll interval is over, or a wakeup arrived.  Tasks just created run first:
\* asyncio resumes in FIFO order and the loop waits at least once.
Wake(r) ==
    /\ proc[r].pc = "idle" /\ proc[r].stop = "no"
    /\ \A j \in Jobs : task[r][j] # "new"
    /\ IF Tasks(r) = {} THEN Goto(r, "list")
       ELSE proc' = [proc EXCEPT ![r].pc = "look", ![r].todo = Tasks(r)]
    /\ UNCHANGED <<storeVars, task, hit, apiVars>>

\* _heartbeat_and_prune: cancel the task of a job flagged for it ...
Look(r, j) ==
    /\ proc[r].pc = "look"
    /\ j \in proc[r].todo
    /\ hit' = [hit EXCEPT ![r] = IF exec[j].cancel THEN @ \cup {j} ELSE @]
    /\ At(r, "renew", j)
    /\ UNCHANGED <<storeVars, task, apiVars>>

\* ... and extend the lease; nobody looks whether that still was possible.
Renew(r) ==
    LET j == proc[r].cur
    IN  /\ proc[r].pc = "renew"
        /\ lease' = [lease EXCEPT ![j] = Renewed(@, r)]
        /\ NextJob(r, IF proc[r].todo = {j} THEN "list" ELSE "look")
        /\ UNCHANGED <<record, spec, exec, task, hit, apiVars>>

\* _claim_pending: the candidates, if there is room for one more task.
List(r) ==
    /\ proc[r].pc = "list"
    /\ proc' = [proc EXCEPT ![r].pc = "check",
                  ![r].todo = {j \in Jobs : HasRoom(r) /\ Claimable(exec[j])
                                                       /\ task[r][j] = "none"}]
    /\ UNCHANGED <<storeVars, task, hit, apiVars>>

\* Each candidate is read again before it is claimed.
Check(r, j) ==
    /\ proc[r].pc = "check" /\ HasRoom(r)
    /\ j \in proc[r].todo
    /\ IF Claimable(exec[j]) /\ task[r][j] = "none" THEN At(r, "lease", j)
       ELSE proc' = [proc EXCEPT ![r].todo = @ \ {j}]
    /\ UNCHANGED <<storeVars, task, hit, apiVars>>

EndClaims(r) ==
    /\ proc[r].pc = "check"
    /\ proc[r].todo = {} \/ ~HasRoom(r)
    /\ Yield(r)
    /\ UNCHANGED <<storeVars, task, hit, apiVars>>

\* _claim_response: the lease first; it does not look at the execution.
ClaimLease(r) ==
    LET j == proc[r].cur
    IN  /\ proc[r].pc = "lease"
        /\ \/ /\ HeldByOther(lease[j], r)
              /\ NextJob(r, "check")
              /\ UNCHANGED lease
           \/ /\ ~HeldByOther(lease[j], r)
              /\ lease' = [lease EXCEPT ![j] = Claimed(r)]
              /\ Goto(r, "claimGet")
        /\ UNCHANGED <<record, spec, exec, task, hit, apiVars>>

\* _update_execution is a get and a put; nothing is put if the get finds nothing,
\* and the task is created all the same.
ClaimGet(r) ==
    LET j == proc[r].cur
    IN  /\ proc[r].pc = "claimGet"
        /\ IF exec[j] = NoExec
             THEN task' = [task EXCEPT ![r][j] = "new"] /\ NextJob(r, "check")
             ELSE UNCHANGED task /\ proc' = [proc EXCEPT ![r].pc = "claimPut", ![r].copy = exec[j]]
        /\ UNCHANGED <<storeVars, hit, apiVars>>

ClaimPut(r) ==
    LET j == proc[r].cur
    IN  /\ proc[r].pc = "claimPut"
        /\ exec' = [exec EXCEPT ![j] = [proc[r].copy EXCEPT !.status = "running", !.owner = r]]
        /\ task' = [task EXCEPT ![r][j] = "new"]
        /\ NextJob(r, "check")
        /\ UNCHANGED <<record, spec, lease, hit, apiVars>>

-----------------------------------------------------------------------------
(* A job's task: _run_response around background_generate_response_use_case. *)

\* A suspended task of r that no cancel() has reached may be resumed.
Resumable(r, j, at) == proc[r].pc = "idle" /\ task[r][j] = at /\ j \notin hit[r]

\* The task takes the process to write its outcome, from step pc on.
Settle(r, j, out, pc) ==
    proc' = [proc EXCEPT ![r].pc = pc, ![r].cur = j, ![r].out = out]

\* First step: with the spec, initialize the engine client; without, fail.
Begin(r, j) ==
    /\ Resumable(r, j, "new")
    /\ IF spec[j] THEN task' = [task EXCEPT ![r][j] = "init"] /\ UNCHANGED proc
       ELSE Settle(r, j, "missing", "get") /\ UNCHANGED task
    /\ UNCHANGED <<storeVars, hit, apiVars>>

\* The engine client cannot be initialized: outside the use case's try block, so
\* only the execution learns of it.
InitFails(r, j) ==
    /\ "engine" \in Faults
    /\ Resumable(r, j, "init")
    /\ Settle(r, j, "failed", "get")
    /\ UNCHANGED <<storeVars, task, hit, apiVars>>

\* The stored response, if there is one, becomes "in_progress"; then generate.
Initialized(r, j) ==
    /\ Resumable(r, j, "init")
    /\ IF j \in Stored /\ record[j] # "none" THEN At(r, "mark", j) /\ UNCHANGED task
       ELSE task' = [task EXCEPT ![r][j] = "gen"] /\ UNCHANGED proc
    /\ UNCHANGED <<storeVars, hit, apiVars>>

MarkInProgress(r) ==
    /\ proc[r].pc = "mark"
    /\ record' = [record EXCEPT ![proc[r].cur] = "in_progress"]
    /\ task' = [task EXCEPT ![r][proc[r].cur] = "gen"]
    /\ Yield(r)
    /\ UNCHANGED <<spec, exec, lease, hit, apiVars>>

\* Mutant: the response is not stored when generation ends.
GeneratedUnsaved(r, j, out) ==
    /\ out \in {"completed"} \cup (IF "engine" \in Faults THEN {"failed"} ELSE {})
    /\ Resumable(r, j, "gen")
    /\ Settle(r, j, out, "get")
    /\ UNCHANGED <<storeVars, task, hit, apiVars>>

\* Generation returns or raises; either way the response is stored if it is to be.
Generated(r, j, out) ==
    /\ out \in {"completed"} \cup (IF "engine" \in Faults THEN {"failed"} ELSE {})
    /\ Resumable(r, j, "gen")
    /\ Settle(r, j, out, IF j \in Stored THEN "save" ELSE "get")
    /\ UNCHANGED <<storeVars, task, hit, apiVars>>

\* Mutant: on shutdown a task that never ran is waited for without end.
DropUnstartedUnlessStopping(r, j) ==
    /\ proc[r].stop = "no"
    /\ proc[r].pc = "idle" /\ j \in hit[r] /\ task[r][j] = "new"
    /\ task' = [task EXCEPT ![r][j] = "none"]
    /\ hit' = [hit EXCEPT ![r] = @ \ {j}]
    /\ UNCHANGED <<storeVars, proc, apiVars>>

\* cancel() reached a task that never ran: the coroutine's body, its except and
\* finally clauses included, is not executed.
DropUnstarted(r, j) ==
    /\ proc[r].pc = "idle" /\ j \in hit[r] /\ task[r][j] = "new"
    /\ task' = [task EXCEPT ![r][j] = "none"]
    /\ hit' = [hit EXCEPT ![r] = @ \ {j}]
    /\ UNCHANGED <<storeVars, proc, apiVars>>

\* Mutant: the stored response is not touched when a task is cancelled.
CancelledUnsaved(r, j) ==
    /\ proc[r].pc = "idle" /\ j \in hit[r] /\ task[r][j] \in {"init", "gen"}
    /\ IF proc[r].stop = "no" THEN Settle(r, j, "cancelled", "get") ELSE At(r, "free", j)
    /\ UNCHANGED <<storeVars, task, hit, apiVars>>

\* CancelledError is raised where the task waits: on shutdown only the lease goes.
Cancelled(r, j) ==
    /\ proc[r].pc = "idle" /\ j \in hit[r] /\ task[r][j] \in {"init", "gen"}
    /\ IF proc[r].stop = "no" THEN Settle(r, j, "cancelled", "peek") ELSE At(r, "free", j)
    /\ UNCHANGED <<storeVars, task, hit, apiVars>>

-----------------------------------------------------------------------------
(* Writing an outcome: a task's, or that of the work a stopping runner gives up. *)

Releasing(r) == proc[r].stop = "release"

\* A cancelled job's response is only saved if it is still there.
Peek(r) ==
    /\ proc[r].pc = "peek"
    /\ Goto(r, IF record[proc[r].cur] # "none" THEN "save"
               ELSE IF Releasing(r) THEN "drop" ELSE "get")
    /\ UNCHANGED <<storeVars, task, hit, apiVars>>

Save(r) ==
    /\ proc[r].pc = "save"
    /\ record' = [record EXCEPT ![proc[r].cur] = proc[r].out]
    /\ Goto(r, IF Releasing(r) THEN "drop" ELSE "get")
    /\ UNCHANGED <<spec, exec, lease, task, hit, apiVars>>

\* Where to go once the execution is written, or found to be gone.
AfterPut(r) == IF Releasing(r) \/ proc[r].out = "missing" THEN "free" ELSE "drop"

GetExec(r) ==
    LET e == exec[proc[r].cur]
    IN  /\ proc[r].pc = "get"
        /\ proc' = [proc EXCEPT ![r].pc = IF e = NoExec THEN AfterPut(r) ELSE "put",
                                ![r].copy = e]
        /\ UNCHANGED <<storeVars, task, hit, apiVars>>

PutOutcome(r) ==
    /\ proc[r].pc = "put"
    /\ exec' = [exec EXCEPT ![proc[r].cur] =
                  [proc[r].copy EXCEPT !.owner = None,
                     !.status = IF proc[r].out = "missing" THEN "failed" ELSE proc[r].out]]
    /\ proc' = [proc EXCEPT ![r].pc = AfterPut(r), ![r].copy = NoExec]
    /\ UNCHANGED <<record, spec, lease, task, hit, apiVars>>

DropJobSpec(r) ==
    /\ proc[r].pc = "drop"
    /\ spec' = [spec EXCEPT ![proc[r].cur] = FALSE]
    /\ Goto(r, IF Releasing(r) THEN "get" ELSE "free")
    /\ UNCHANGED <<record, exec, lease, task, hit, apiVars>>

\* The finally clause, and the end of the task.
Free(r) ==
    LET j == proc[r].cur
    IN  /\ proc[r].pc = "free"
        /\ lease' = [lease EXCEPT ![j] = Released(@, r)]
        /\ task' = [task EXCEPT ![r][j] = "none"]
        /\ hit' = [hit EXCEPT ![r] = @ \ {j}]
        /\ IF Releasing(r)
             THEN proc' = [proc EXCEPT ![r].pc = "release", ![r].cur = None, ![r].out = "none"]
             ELSE Yield(r)
        /\ UNCHANGED <<record, spec, exec, apiVars>>

-----------------------------------------------------------------------------
(* Shutdown and faults. *)

\* JobRunnerService.destroy: the loop ends, every task is cancelled and awaited.
Stop(r) ==
    /\ "stop" \in Faults
    /\ proc[r].pc = "idle" /\ proc[r].stop = "no"
    /\ proc' = [proc EXCEPT ![r].stop = "tasks"]
    /\ hit' = [hit EXCEPT ![r] = Tasks(r)]
    /\ UNCHANGED <<storeVars, task, apiVars>>

\* _release_owned_work: what the listing shows as running and owned by r.
ReleaseList(r) ==
    LET owned == {j \in Jobs : exec[j].owner = r /\ exec[j].status = "running"}
    IN  /\ proc[r].pc = "idle" /\ proc[r].stop = "tasks"
        /\ Tasks(r) = {}
        /\ proc' = [proc EXCEPT ![r].pc = "release", ![r].stop = "release",
                      ![r].todo = owned, ![r].doomed = {j \in owned : exec[j].cancel}]
        /\ UNCHANGED <<storeVars, task, hit, apiVars>>

\* Each is cancelled if the listing had it flagged, else put back in the queue.
ReleaseNext(r, j) ==
    /\ proc[r].pc = "release"
    /\ j \in proc[r].todo
    /\ proc' = [proc EXCEPT ![r].cur = j, ![r].todo = @ \ {j},
                  ![r].pc = IF j \in proc[r].doomed THEN "peek" ELSE "get",
                  ![r].out = IF j \in proc[r].doomed THEN "cancelled" ELSE "queued"]
    /\ UNCHANGED <<storeVars, task, hit, apiVars>>

Stopped(r) ==
    /\ proc[r].pc = "release" /\ proc[r].todo = {}
    /\ proc' = [proc EXCEPT ![r] = [Fresh EXCEPT !.pc = "down"]]
    /\ UNCHANGED <<storeVars, task, hit, apiVars>>

\* The process dies with everything in its memory, the handlers it hosts included.
Crash(r) ==
    /\ "crash" \in Faults
    /\ r \in Up
    /\ proc' = [proc EXCEPT ![r] = [Fresh EXCEPT !.pc = "down"]]
    /\ task' = [task EXCEPT ![r] = [j \in Jobs |-> "none"]]
    /\ hit' = [hit EXCEPT ![r] = {}]
    /\ hnd' = [h \in Handlers |-> IF hnd[h].host = r THEN NoRequest ELSE hnd[h]]
    /\ UNCHANGED <<storeVars, created, told>>

\* Runner r has a task for j, or is about to: its loop renews the lease every
\* poll interval (0.1 s), far below lease_seconds (300 s).
Working(r, j) ==
    \/ task[r][j] # "none"
    \/ proc[r].cur = j /\ proc[r].pc \in {"claimGet", "claimPut"}

\* A lease runs out: nobody renews it, or the owner's event loop is held up longer
\* than the lease lasts ("stall").
Expire(j) ==
    /\ lease[j].live
    /\ "stall" \in Faults \/ ~Working(lease[j].owner, j)
    /\ lease' = [lease EXCEPT ![j].live = FALSE]
    /\ UNCHANGED <<record, spec, exec, runnerVars, apiVars>>

-----------------------------------------------------------------------------
LoopStep(r) ==
    \/ Renew(r) \/ List(r) \/ EndClaims(r) \/ ClaimLease(r) \/ ClaimGet(r) \/ ClaimPut(r)
    \/ \E j \in Jobs : Look(r, j) \/ Check(r, j)

TaskStep(r) ==
    \/ MarkInProgress(r)
    \/ Peek(r) \/ Save(r) \/ GetExec(r) \/ PutOutcome(r) \/ DropJobSpec(r) \/ Free(r)

StopStep(r) == ReleaseList(r) \/ Stopped(r) \/ \E j \in Jobs : ReleaseNext(r, j)

\* What resumes job j's suspended task at process r.
Resume(r, j) ==
    \/ Begin(r, j) \/ InitFails(r, j) \/ Initialized(r, j)
    \/ \E out \in {"completed", "failed"} : Generated(r, j, out)
    \/ DropUnstarted(r, j) \/ Cancelled(r, j)

Next ==
    \/ \E h \in Handlers, host \in Runners \cup {None}, j \in Jobs :
          Create(h, host, j) \/ Cancel(h, host, j) \/ Delete(h, host, j)
    \/ \E h \in Handlers : HandlerStep(h) \/ WorkerCrash(h)
    \/ \E r \in Runners :
          Start(r) \/ Wake(r) \/ LoopStep(r) \/ TaskStep(r) \/ Stop(r) \/ StopStep(r) \/ Crash(r)
    \/ \E r \in Runners, j \in Jobs : Resume(r, j)
    \/ \E j \in Jobs : Expire(j)

Spec == Init /\ [][Next]_vars

(***************************************************************************)
(* Fairness: an event loop resumes every ready coroutine, a request that   *)
(* was begun goes on, engine calls return, leases run out when they are    *)
(* not renewed, and a service manager starts another process when too few  *)
(* are up.  Clients, shutdowns and crashes are not fair.                   *)
(***************************************************************************)
Fairness ==
    /\ \A h \in Handlers : WF_vars(HandlerStep(h))
    /\ \A r \in Runners : /\ WF_vars(LoopStep(r)) /\ WF_vars(TaskStep(r))
                          /\ WF_vars(StopStep(r)) /\ WF_vars(Start(r)) /\ SF_vars(Wake(r))
    /\ \A r \in Runners, j \in Jobs : SF_vars(Resume(r, j))
    /\ \A j \in Jobs : WF_vars(Expire(j))

FairSpec == Spec /\ Fairness
=============================================================================
