------------------------- MODULE ResponseJobsProofs -------------------------
(***************************************************************************)
(* Theorems about background responses, for every set of jobs, runners and *)
(* handlers and every max_parallel_jobs.  The first part has the types and *)
(* that no two runners work on the same job, for every number of runners   *)
(* up; the second is about the records of a job.                           *)
(***************************************************************************)
EXTENDS JobProperties, TLAPS, FiniteSetTheorems

(***************************************************************************)
(* Types.  TypeOK is split by who owns the variables, so that each step is *)
(* shown to keep the parts it touches from few definitions.                *)
(***************************************************************************)
HandlerPcs == {"idle", "putSpec", "putExec", "load", "save", "dropSpec", "answer",
               "delCheck", "delRecord", "delSpec", "delExec", "delLease"}

InStep(p) ==
    /\ p.pc \in JobSteps => p.cur \in Jobs
    /\ p.pc \in {"peek", "save"} => p.out # "missing"

ProcTypes ==
    /\ proc \in [Runners -> ProcState]
    /\ \A r \in Runners : InStep(proc[r])

ApiTypes ==
    /\ hnd \in [Handlers -> HandlerState]
    /\ \A h \in Handlers : hnd[h].pc # "idle" => hnd[h].job \in Jobs

StoreTypes ==
    /\ record \in [Jobs -> RecordStatus]
    /\ spec \in [Jobs -> BOOLEAN]
    /\ exec \in [Jobs -> Execution]
    /\ lease \in [Jobs -> Lease]

RestTypes ==
    /\ task \in [Runners -> [Jobs -> {"none", "new", "init", "gen"}]]
    /\ hit \in [Runners -> SUBSET Jobs]
    /\ created \subseteq Jobs
    /\ told \in [Jobs -> {"none", "cancelling", "cancelled"}]

TypeInv == ProcTypes /\ ApiTypes /\ StoreTypes /\ RestTypes

LEMMA InitTypes == Init => TypeInv
BY NoneAssumption
DEF Init, TypeInv, ProcTypes, ApiTypes, StoreTypes, RestTypes, NoExec, NoLease,
    Fresh, NoRequest, Execution, Lease, ProcState, HandlerState, ExecStatus, RecordStatus,
    InStep, JobSteps

(* How a handler moves on. *)

LEMMA ContinueTypes ==
    ASSUME ProcTypes, ApiTypes,
           NEW h \in Handlers, NEW host \in Runners \cup {None}, NEW j \in Jobs,
           NEW pc \in HandlerPcs, NEW seen \in ExecStatus \cup {"terminal"},
           Continue(h, host, j, pc, seen)
    PROVE  ProcTypes' /\ ApiTypes'
<1>1. ApiTypes'
  BY DEF ApiTypes, Continue, HandlerState, HandlerPcs
<1>2. ASSUME NEW r \in Runners PROVE [proc[r] EXCEPT !.pc = "api"] \in ProcState
  BY DEF ProcTypes, ProcState
<1>3. proc' \in [Runners -> ProcState]
  BY <1>2 DEF Continue, ProcTypes
<1>4. QED
  BY <1>1, <1>3, SMTT(40) DEF Continue, ProcTypes, ProcState, InStep, JobSteps

LEMMA StepTypes ==
    ASSUME ProcTypes, ApiTypes,
           NEW h \in Handlers, hnd[h].pc # "idle",
           NEW pc \in HandlerPcs, Step(h, pc)
    PROVE  ProcTypes' /\ ApiTypes'
<1>1. /\ hnd[h].host \in Runners \cup {None}
      /\ hnd[h].job \in Jobs
      /\ hnd[h].seen \in ExecStatus \cup {"terminal"}
  BY DEF ApiTypes, HandlerState
<1>2. QED
  BY <1>1, ContinueTypes DEF Step

LEMMA FinishTypes ==
    ASSUME ProcTypes, ApiTypes, NEW h \in Handlers, Finish(h)
    PROVE  ProcTypes' /\ ApiTypes'
<1>1. ApiTypes'
  BY DEF ApiTypes, Finish, HandlerState, NoRequest, ExecStatus
<1>2. ASSUME NEW r \in Runners PROVE [proc[r] EXCEPT !.pc = "idle"] \in ProcState
  BY DEF ProcTypes, ProcState
<1>3. proc' \in [Runners -> ProcState]
  BY <1>2 DEF Finish, ProcTypes
<1>4. QED
  BY <1>1, <1>3, ZenonT(60) DEF Finish, ProcTypes, ProcState, InStep, JobSteps

(* The handlers' steps. *)

LEMMA RequestTypes ==
    ASSUME TypeInv, NEW h \in Handlers, NEW host \in Runners \cup {None}, NEW j \in Jobs,
           Create(h, host, j) \/ Cancel(h, host, j) \/ Delete(h, host, j)
    PROVE  TypeInv'
<1>1. CASE Create(h, host, j)
  <2>1. ProcTypes' /\ ApiTypes'
    BY <1>1, ContinueTypes DEF Create, TypeInv, HandlerPcs, ExecStatus
  <2>2. StoreTypes' /\ RestTypes'
    BY <1>1 DEF Create, TypeInv, StoreTypes, RestTypes, RecordStatus
  <2>3. QED
    BY <2>1, <2>2 DEF TypeInv
<1>2. CASE Cancel(h, host, j)
  <2>1. RequestCancel(exec[j]) \in Execution
    BY DEF TypeInv, StoreTypes, RequestCancel, Execution, ExecStatus, Terminal
  <2>2. exec' \in [Jobs -> Execution] /\ exec'[j].status \in ExecStatus
    BY <1>2, <2>1 DEF Cancel, TypeInv, StoreTypes, Execution
  <2>3. ProcTypes' /\ ApiTypes'
    BY <1>2, <2>2, ContinueTypes DEF Cancel, TypeInv, HandlerPcs
  <2>4. StoreTypes' /\ RestTypes'
    BY <1>2, <2>2 DEF Cancel, TypeInv, StoreTypes, RestTypes
  <2>5. QED
    BY <2>3, <2>4 DEF TypeInv
<1>3. CASE Delete(h, host, j)
  <2>1. ProcTypes' /\ ApiTypes'
    BY <1>3, ContinueTypes DEF Delete, TypeInv, HandlerPcs, ExecStatus
  <2>2. StoreTypes' /\ RestTypes'
    BY <1>3 DEF Delete, TypeInv, StoreTypes, RestTypes
  <2>3. QED
    BY <2>1, <2>2 DEF TypeInv
<1>4. QED
  BY <1>1, <1>2, <1>3

LEMMA HandlerStepTypes ==
    ASSUME TypeInv, NEW h \in Handlers, HandlerStep(h)
    PROVE  TypeInv'
<1>1. hnd[h].pc # "idle" /\ hnd[h].job \in Jobs
  BY DEF HandlerStep, PutSpec, PutExec, LoadResponse, SaveResponse, DropSpec, Answer,
         DeleteCheck, DeleteRecord, DeleteSpec, DeleteExec, DeleteLease, TypeInv, ApiTypes
<1>2. ProcTypes' /\ ApiTypes'
  <2>1. (\E pc \in HandlerPcs : Step(h, pc)) \/ Finish(h)
    BY DEF HandlerStep, PutSpec, PutExec, LoadResponse, SaveResponse, DropSpec, Answer,
           DeleteCheck, DeleteRecord, DeleteSpec, DeleteExec, DeleteLease, HandlerPcs
  <2>2. QED
    BY <1>1, <2>1, StepTypes, FinishTypes DEF TypeInv
<1>3. StoreTypes'
  <2>1. QueuedExec \in Execution /\ NoExec \in Execution /\ NoLease \in Lease
    BY DEF QueuedExec, NoExec, NoLease, Execution, ExecStatus, Lease
  <2>2. QED
    BY <2>1 DEF HandlerStep, PutSpec, PutExec, LoadResponse, SaveResponse, DropSpec, Answer,
           DeleteCheck, DeleteRecord, DeleteSpec, DeleteExec, DeleteLease,
           TypeInv, StoreTypes, RecordStatus, Terminal
<1>4. RestTypes'
  <2>1. CASE PutExec(h)
    BY <1>1, <2>1 DEF PutExec, TypeInv, RestTypes
  <2>2. CASE Answer(h)
    BY <1>1, <2>2 DEF Answer, TypeInv, RestTypes
  <2>3. CASE ~PutExec(h) /\ ~Answer(h)
    BY <2>3 DEF HandlerStep, PutSpec, LoadResponse, SaveResponse, DropSpec,
           DeleteCheck, DeleteRecord, DeleteSpec, DeleteExec, DeleteLease,
           TypeInv, RestTypes
  <2>4. QED
    BY <2>1, <2>2, <2>3
<1>5. QED
  BY <1>2, <1>3, <1>4 DEF TypeInv

(* How a runner moves on: its new state p is a process state. *)

LEMMA RunnerMoves ==
    ASSUME ProcTypes, NEW r \in Runners, NEW p \in ProcState, InStep(p),
           proc' = [proc EXCEPT ![r] = p]
    PROVE  ProcTypes'
<1>1. proc' \in [Runners -> ProcState]
  BY DEF ProcTypes
<1>2. QED
  BY <1>1 DEF ProcTypes

LEMMA GotoTypes ==
    ASSUME ProcTypes, NEW r \in Runners, proc[r].pc \in JobSteps,
           NEW pc \in {"claimGet", "save", "get", "drop", "free"},
           pc = "save" => proc[r].out # "missing",
           Goto(r, pc)
    PROVE  ProcTypes'
<1> DEFINE p == [proc[r] EXCEPT !.pc = pc]
<1>1. p \in ProcState /\ InStep(p)
  BY DEF ProcTypes, ProcState, InStep
<1>2. proc' = [proc EXCEPT ![r] = p]
  BY DEF Goto
<1>3. QED
  BY <1>1, <1>2, RunnerMoves

LEMMA AtTypes ==
    ASSUME ProcTypes, NEW r \in Runners, NEW j \in Jobs,
           NEW pc \in {"renew", "lease", "mark", "free"}, At(r, pc, j)
    PROVE  ProcTypes'
<1> DEFINE p == [proc[r] EXCEPT !.pc = pc, !.cur = j]
<1>1. p \in ProcState /\ InStep(p)
  BY ZenonT(60) DEF ProcTypes, ProcState, InStep
<1>2. proc' = [proc EXCEPT ![r] = p]
  BY DEF At
<1>3. QED
  BY <1>1, <1>2, RunnerMoves

LEMMA SettleTypes ==
    ASSUME ProcTypes, NEW r \in Runners, NEW j \in Jobs, NEW pc \in {"get", "peek", "save"},
           NEW out \in {"missing"} \cup Terminal, pc # "get" => out # "missing",
           Settle(r, j, out, pc)
    PROVE  ProcTypes'
<1> DEFINE p == [proc[r] EXCEPT !.pc = pc, !.cur = j, !.out = out]
<1>1. p \in ProcState /\ InStep(p)
  BY ZenonT(60) DEF ProcTypes, ProcState, InStep
<1>2. proc' = [proc EXCEPT ![r] = p]
  BY DEF Settle
<1>3. QED
  BY <1>1, <1>2, RunnerMoves

LEMMA NextJobTypes ==
    ASSUME ProcTypes, NEW r \in Runners, NEW pc \in {"look", "list", "check"}, NextJob(r, pc)
    PROVE  ProcTypes'
<1> DEFINE p == [proc[r] EXCEPT !.pc = pc, !.cur = None, !.copy = NoExec,
                                !.todo = @ \ {proc[r].cur}]
<1>1. p \in ProcState /\ p.pc = pc
  BY ZenonT(60) DEF ProcTypes, ProcState, NoExec, Execution, ExecStatus
<1>2. InStep(p)
  BY <1>1 DEF InStep, JobSteps
<1>3. proc' = [proc EXCEPT ![r] = p]
  BY DEF NextJob
<1>4. QED
  BY <1>1, <1>2, <1>3, RunnerMoves

LEMMA YieldTypes ==
    ASSUME ProcTypes, NEW r \in Runners, Yield(r)
    PROVE  ProcTypes'
<1> DEFINE p == [Fresh EXCEPT !.pc = "idle", !.stop = proc[r].stop]
<1>1. p \in ProcState /\ p.pc = "idle"
  BY DEF ProcTypes, ProcState, Fresh, NoExec, Execution, ExecStatus
<1>2. InStep(p)
  BY <1>1 DEF InStep, JobSteps
<1>3. proc' = [proc EXCEPT ![r] = p]
  BY DEF Yield
<1>4. QED
  BY <1>1, <1>2, <1>3, RunnerMoves

LEMMA DownTypes ==
    ASSUME ProcTypes, NEW r \in Runners,
           proc' = [proc EXCEPT ![r] = [Fresh EXCEPT !.pc = "down"]]
    PROVE  ProcTypes'
<1> DEFINE p == [Fresh EXCEPT !.pc = "down"]
<1>1. p \in ProcState /\ p.pc = "down"
  BY DEF ProcState, Fresh, NoExec, Execution, ExecStatus
<1>2. InStep(p)
  BY <1>1 DEF InStep, JobSteps
<1>3. QED
  BY <1>1, <1>2, RunnerMoves

(* The runner's steps that leave the store alone or touch one record of it. *)

LEMMA LoopTypes ==
    ASSUME TypeInv, NEW r \in Runners,
           \/ Start(r) \/ Wake(r) \/ Renew(r) \/ List(r) \/ EndClaims(r) \/ ClaimLease(r)
           \/ \E j \in Jobs : Look(r, j) \/ Check(r, j)
    PROVE  TypeInv'
<1>1. CASE Start(r)
  <2> DEFINE p == [proc[r] EXCEPT !.pc = "list"]
  <2>1. ProcTypes'
    <3>1. p \in ProcState
      BY <1>1 DEF TypeInv, ProcTypes, ProcState
    <3>2. InStep(p)
      BY <1>1 DEF Start, Goto, TypeInv, ProcTypes, ProcState, InStep, JobSteps
    <3>3. proc' = [proc EXCEPT ![r] = p]
      BY <1>1 DEF Start, Goto
    <3>4. QED
      BY <3>1, <3>2, <3>3, RunnerMoves DEF TypeInv
  <2>2. ApiTypes' /\ StoreTypes' /\ RestTypes'
    BY <1>1 DEF Start, storeVars, apiVars, TypeInv, ApiTypes, StoreTypes, RestTypes
  <2>3. QED
    BY <2>1, <2>2 DEF TypeInv
<1>2. CASE Wake(r)
  <2>1. ProcTypes'
    <3> DEFINE p == [proc[r] EXCEPT !.pc = "list"]
               q == [proc[r] EXCEPT !.pc = "look", !.todo = Tasks(r)]
    <3>1. p \in ProcState /\ q \in ProcState
      BY ZenonT(60) DEF TypeInv, ProcTypes, ProcState, Tasks
    <3>2. InStep(p) /\ InStep(q)
      BY DEF TypeInv, ProcTypes, ProcState, InStep, JobSteps
    <3>3. proc' = [proc EXCEPT ![r] = p] \/ proc' = [proc EXCEPT ![r] = q]
      BY <1>2 DEF Wake, Goto
    <3>4. QED
      BY <3>1, <3>2, <3>3, RunnerMoves DEF TypeInv
  <2>2. ApiTypes' /\ StoreTypes' /\ RestTypes'
    BY <1>2 DEF Wake, storeVars, apiVars, TypeInv, ApiTypes, StoreTypes, RestTypes
  <2>3. QED
    BY <2>1, <2>2 DEF TypeInv
<1>3. ASSUME NEW j \in Jobs, Look(r, j) PROVE TypeInv'
  <2>1. ProcTypes'
    BY <1>3, AtTypes DEF Look, TypeInv
  <2>2. ApiTypes' /\ StoreTypes' /\ RestTypes'
    BY <1>3 DEF Look, storeVars, apiVars, TypeInv, ApiTypes, StoreTypes, RestTypes
  <2>3. QED
    BY <2>1, <2>2 DEF TypeInv
<1>4. CASE Renew(r)
  <2>1. ProcTypes'
    BY <1>4, NextJobTypes DEF Renew, TypeInv
  <2>2. ApiTypes' /\ StoreTypes' /\ RestTypes'
    BY <1>4, ZenonT(60) DEF Renew, apiVars, Renewed, Lease, TypeInv, ApiTypes, StoreTypes, RestTypes
  <2>3. QED
    BY <2>1, <2>2 DEF TypeInv
<1>5. CASE List(r)
  <2> DEFINE p == [proc[r] EXCEPT !.pc = "check",
                !.todo = {k \in Jobs : HasRoom(r) /\ Claimable(exec[k]) /\ task[r][k] = "none"}]
  <2>1. ProcTypes'
    <3>1. p \in ProcState
      BY <1>5, ZenonT(60) DEF TypeInv, ProcTypes, ProcState
    <3>2. InStep(p)
      BY <1>5 DEF List, TypeInv, ProcTypes, ProcState, InStep, JobSteps
    <3>3. proc' = [proc EXCEPT ![r] = p]
      BY <1>5 DEF List
    <3>4. QED
      BY <3>1, <3>2, <3>3, RunnerMoves DEF TypeInv
  <2>2. ApiTypes' /\ StoreTypes' /\ RestTypes'
    BY <1>5 DEF List, storeVars, apiVars, TypeInv, ApiTypes, StoreTypes, RestTypes
  <2>3. QED
    BY <2>1, <2>2 DEF TypeInv
<1>6. ASSUME NEW j \in Jobs, Check(r, j) PROVE TypeInv'
  <2>1. ProcTypes'
    <3> DEFINE p == [proc[r] EXCEPT !.todo = @ \ {j}]
    <3>1. CASE At(r, "lease", j)
      BY <3>1, AtTypes DEF TypeInv
    <3>2. CASE proc' = [proc EXCEPT ![r] = p]
      <4>1. p \in ProcState /\ InStep(p)
        BY DEF TypeInv, ProcTypes, ProcState, InStep
      <4>2. QED
        BY <3>2, <4>1, RunnerMoves DEF TypeInv
    <3>3. QED
      BY <1>6, <3>1, <3>2 DEF Check
  <2>2. ApiTypes' /\ StoreTypes' /\ RestTypes'
    BY <1>6 DEF Check, storeVars, apiVars, TypeInv, ApiTypes, StoreTypes, RestTypes
  <2>3. QED
    BY <2>1, <2>2 DEF TypeInv
<1>7. CASE EndClaims(r)
  <2>1. ProcTypes'
    BY <1>7, YieldTypes DEF EndClaims, TypeInv
  <2>2. ApiTypes' /\ StoreTypes' /\ RestTypes'
    BY <1>7 DEF EndClaims, storeVars, apiVars, TypeInv, ApiTypes, StoreTypes, RestTypes
  <2>3. QED
    BY <2>1, <2>2 DEF TypeInv
<1>8. CASE ClaimLease(r)
  <2>1. ProcTypes'
    BY <1>8, NextJobTypes, GotoTypes DEF ClaimLease, JobSteps, TypeInv
  <2>2. ApiTypes' /\ StoreTypes' /\ RestTypes'
    <3>1. Claimed(r) \in Lease
      BY DEF Claimed, Lease
    <3>2. QED
      BY <1>8, <3>1 DEF ClaimLease, apiVars, TypeInv, ApiTypes, StoreTypes, RestTypes
  <2>3. QED
    BY <2>1, <2>2 DEF TypeInv
<1>9. QED
  BY <1>1, <1>2, <1>3, <1>4, <1>5, <1>6, <1>7, <1>8

LEMMA ClaimTypes ==
    ASSUME TypeInv, NEW r \in Runners, ClaimGet(r) \/ ClaimPut(r)
    PROVE  TypeInv'
<1> DEFINE j == proc[r].cur
<1>1. j \in Jobs
  BY DEF ClaimGet, ClaimPut, TypeInv, ProcTypes, InStep, JobSteps
<1>2. CASE ClaimGet(r) /\ exec[j] = NoExec
  <2>1. ProcTypes'
    BY <1>2, NextJobTypes DEF ClaimGet, TypeInv
  <2>2. task' = [task EXCEPT ![r][j] = "new"] /\ UNCHANGED <<hit, storeVars, apiVars>>
    BY <1>2 DEF ClaimGet
  <2>3. ApiTypes' /\ StoreTypes' /\ RestTypes'
    BY <1>1, <2>2 DEF storeVars, apiVars, TypeInv, ApiTypes, StoreTypes, RestTypes
  <2>4. QED
    BY <2>1, <2>3 DEF TypeInv
<1>3. CASE ClaimGet(r) /\ exec[j] # NoExec
  <2> DEFINE p == [proc[r] EXCEPT !.pc = "claimPut", !.copy = exec[j]]
  <2>1. p \in ProcState /\ InStep(p)
    BY <1>1, ZenonT(60) DEF TypeInv, ProcTypes, StoreTypes, ProcState, InStep
  <2>2. proc' = [proc EXCEPT ![r] = p] /\ UNCHANGED <<task, hit, storeVars, apiVars>>
    BY <1>3 DEF ClaimGet
  <2>3. ProcTypes'
    BY <2>1, <2>2, RunnerMoves DEF TypeInv
  <2>4. QED
    BY <2>2, <2>3 DEF storeVars, apiVars, TypeInv, ApiTypes, StoreTypes, RestTypes
<1>4. CASE ClaimPut(r)
  <2>1. ProcTypes'
    BY <1>4, NextJobTypes DEF ClaimPut, TypeInv
  <2>2. proc[r].copy \in Execution
    BY DEF TypeInv, ProcTypes, ProcState
  <2>3. [proc[r].copy EXCEPT !.status = "running", !.owner = r] \in Execution
    BY <2>2 DEF Execution, ExecStatus
  <2>4. ApiTypes' /\ StoreTypes' /\ RestTypes'
    BY <1>1, <1>4, <2>3 DEF ClaimPut, apiVars, TypeInv, ApiTypes, StoreTypes, RestTypes
  <2>5. QED
    BY <2>1, <2>4 DEF TypeInv
<1>5. QED
  BY <1>2, <1>3, <1>4

LEMMA TaskTypes ==
    ASSUME TypeInv, NEW r \in Runners, NEW j \in Jobs,
           Resume(r, j)
    PROVE  TypeInv'
<1>1. CASE Begin(r, j)
  <2>1. ProcTypes'
    <3>1. CASE UNCHANGED proc
      BY <3>1 DEF TypeInv, ProcTypes
    <3>2. CASE Settle(r, j, "missing", "get")
      BY <3>2, SettleTypes DEF TypeInv
    <3>3. QED
      BY <1>1, <3>1, <3>2 DEF Begin
  <2>2. ApiTypes' /\ StoreTypes' /\ RestTypes'
    BY <1>1 DEF Begin, storeVars, apiVars, TypeInv, ApiTypes, StoreTypes, RestTypes
  <2>3. QED
    BY <2>1, <2>2 DEF TypeInv
<1>2. CASE InitFails(r, j)
  <2>1. ProcTypes'
    BY <1>2, SettleTypes DEF InitFails, Terminal, TypeInv
  <2>2. ApiTypes' /\ StoreTypes' /\ RestTypes'
    BY <1>2 DEF InitFails, storeVars, apiVars, TypeInv, ApiTypes, StoreTypes, RestTypes
  <2>3. QED
    BY <2>1, <2>2 DEF TypeInv
<1>3. CASE Initialized(r, j)
  <2>1. ProcTypes'
    <3>1. CASE UNCHANGED proc
      BY <3>1 DEF TypeInv, ProcTypes
    <3>2. CASE At(r, "mark", j)
      BY <3>2, AtTypes DEF TypeInv
    <3>3. QED
      BY <1>3, <3>1, <3>2 DEF Initialized
  <2>2. ApiTypes' /\ StoreTypes' /\ RestTypes'
    <3>1. /\ UNCHANGED <<storeVars, hit, apiVars>>
          /\ UNCHANGED task \/ task' = [task EXCEPT ![r][j] = "gen"]
      BY <1>3 DEF Initialized
    <3>2. ApiTypes' /\ StoreTypes'
      BY <3>1 DEF storeVars, apiVars, TypeInv, ApiTypes, StoreTypes
    <3>3. RestTypes'
      BY <3>1 DEF apiVars, TypeInv, RestTypes
    <3>4. QED
      BY <3>2, <3>3
  <2>3. QED
    BY <2>1, <2>2 DEF TypeInv
<1>4. CASE \E out \in {"completed", "failed"} : Generated(r, j, out)
  <2>1. ProcTypes'
    BY <1>4, SettleTypes DEF Generated, Terminal, TypeInv
  <2>2. ApiTypes' /\ StoreTypes' /\ RestTypes'
    BY <1>4 DEF Generated, storeVars, apiVars, TypeInv, ApiTypes, StoreTypes, RestTypes
  <2>3. QED
    BY <2>1, <2>2 DEF TypeInv
<1>5. CASE DropUnstarted(r, j)
  <2>1. ProcTypes'
    BY <1>5 DEF DropUnstarted, TypeInv, ProcTypes
  <2>2. ApiTypes' /\ StoreTypes' /\ RestTypes'
    BY <1>5 DEF DropUnstarted, storeVars, apiVars, TypeInv, ApiTypes, StoreTypes, RestTypes
  <2>3. QED
    BY <2>1, <2>2 DEF TypeInv
<1>6. CASE Cancelled(r, j)
  <2>1. ProcTypes'
    BY <1>6, SettleTypes, AtTypes DEF Cancelled, Terminal, TypeInv
  <2>2. ApiTypes' /\ StoreTypes' /\ RestTypes'
    BY <1>6 DEF Cancelled, storeVars, apiVars, TypeInv, ApiTypes, StoreTypes, RestTypes
  <2>3. QED
    BY <2>1, <2>2 DEF TypeInv
<1>7. QED
  BY <1>1, <1>2, <1>3, <1>4, <1>5, <1>6 DEF Resume

LEMMA OutcomeTypes ==
    ASSUME TypeInv, NEW r \in Runners, TaskStep(r)
    PROVE  TypeInv'
<1> DEFINE j == proc[r].cur
<1>1. j \in Jobs /\ proc[r] \in ProcState /\ InStep(proc[r])
  BY DEF TaskStep, MarkInProgress, Peek, Save, GetExec, PutOutcome, DropJobSpec, Free,
         TypeInv, ProcTypes, InStep, JobSteps
<1>2. CASE MarkInProgress(r)
  <2>1. ProcTypes'
    BY <1>2, YieldTypes DEF MarkInProgress, TypeInv
  <2>2. ApiTypes' /\ StoreTypes' /\ RestTypes'
    BY <1>1, <1>2 DEF MarkInProgress, apiVars, TypeInv, ApiTypes, StoreTypes, RestTypes,
                      RecordStatus
  <2>3. QED
    BY <2>1, <2>2 DEF TypeInv
<1>3. CASE Peek(r)
  <2>1. ProcTypes'
    BY <1>1, <1>3, GotoTypes DEF Peek, TypeInv, JobSteps, InStep
  <2>2. ApiTypes' /\ StoreTypes' /\ RestTypes'
    BY <1>3 DEF Peek, storeVars, apiVars, TypeInv, ApiTypes, StoreTypes, RestTypes
  <2>3. QED
    BY <2>1, <2>2 DEF TypeInv
<1>4. CASE Save(r)
  <2>1. ProcTypes'
    BY <1>1, <1>4, GotoTypes DEF Save, TypeInv, JobSteps
  <2>2. proc[r].out \in RecordStatus
    BY <1>1, <1>4 DEF Save, InStep, ProcState, RecordStatus
  <2>3. ApiTypes' /\ StoreTypes' /\ RestTypes'
    BY <1>1, <1>4, <2>2 DEF Save, apiVars, TypeInv, ApiTypes, StoreTypes, RestTypes
  <2>4. QED
    BY <2>1, <2>3 DEF TypeInv
<1>5. CASE GetExec(r)
  <2> DEFINE pc == IF exec[j] = NoExec THEN AfterPut(r) ELSE "put"
             p  == [proc[r] EXCEPT !.pc = pc, !.copy = exec[j]]
  <2>1. pc \in {"put", "free", "drop"}
    BY DEF AfterPut
  <2>2. exec[j] \in Execution
    BY <1>1 DEF TypeInv, StoreTypes
  <2>3. p \in ProcState /\ p.cur = j /\ p.pc = pc
    BY <1>1, <2>1, <2>2 DEF ProcState
  <2>4. InStep(p)
    BY <1>1, <2>1, <2>3 DEF InStep
  <2>5. proc' = [proc EXCEPT ![r] = p] /\ UNCHANGED <<storeVars, task, hit, apiVars>>
    BY <1>5 DEF GetExec
  <2>6. ProcTypes'
    BY <2>3, <2>4, <2>5, RunnerMoves DEF TypeInv
  <2>7. QED
    BY <2>5, <2>6 DEF storeVars, apiVars, TypeInv, ApiTypes, StoreTypes, RestTypes
<1>6. CASE PutOutcome(r)
  <2> DEFINE p == [proc[r] EXCEPT !.pc = AfterPut(r), !.copy = NoExec]
             status == IF proc[r].out = "missing" THEN "failed" ELSE proc[r].out
             e == [proc[r].copy EXCEPT !.owner = None, !.status = status]
  <2>1. AfterPut(r) \in {"free", "drop"}
    BY DEF AfterPut
  <2>2. p \in ProcState /\ p.cur = j /\ p.pc = AfterPut(r)
    BY <1>1, <2>1 DEF ProcState, NoExec, Execution, ExecStatus
  <2>3. InStep(p)
    BY <1>1, <2>1, <2>2 DEF InStep
  <2>4. proc' = [proc EXCEPT ![r] = p]
    BY <1>6 DEF PutOutcome
  <2>5. ProcTypes'
    BY <2>2, <2>3, <2>4, RunnerMoves DEF TypeInv
  <2>6. status \in ExecStatus /\ proc[r].copy \in Execution
    BY <1>1 DEF ProcState, ExecStatus, Terminal
  <2>7. e \in Execution
    BY <2>6 DEF Execution
  <2>8. exec' = [exec EXCEPT ![j] = e]
    BY <1>6 DEF PutOutcome
  <2>9. ApiTypes' /\ StoreTypes' /\ RestTypes'
    BY <1>1, <1>6, <2>7, <2>8 DEF PutOutcome, apiVars, TypeInv, ApiTypes, StoreTypes, RestTypes
  <2>10. QED
    BY <2>5, <2>9 DEF TypeInv
<1>7. CASE DropJobSpec(r)
  <2>1. ProcTypes'
    BY <1>1, <1>7, GotoTypes DEF DropJobSpec, TypeInv, JobSteps
  <2>2. ApiTypes' /\ StoreTypes' /\ RestTypes'
    BY <1>1, <1>7 DEF DropJobSpec, apiVars, TypeInv, ApiTypes, StoreTypes, RestTypes
  <2>3. QED
    BY <2>1, <2>2 DEF TypeInv
<1>8. CASE Free(r)
  <2> DEFINE p == [proc[r] EXCEPT !.pc = "release", !.cur = None, !.out = "none"]
  <2>1. p \in ProcState /\ p.pc = "release"
    BY <1>1 DEF ProcState
  <2>2. InStep(p)
    BY <2>1 DEF InStep, JobSteps
  <2>3. ProcTypes'
    <3>1. CASE Yield(r)
      BY <3>1, YieldTypes DEF TypeInv
    <3>2. CASE proc' = [proc EXCEPT ![r] = p]
      BY <2>1, <2>2, <3>2, RunnerMoves DEF TypeInv
    <3>3. QED
      BY <1>8, <3>1, <3>2 DEF Free
  <2>4. Released(lease[j], r) \in Lease
    BY <1>1 DEF Released, NoLease, Lease, TypeInv, StoreTypes
  <2>5. StoreTypes' /\ ApiTypes'
    BY <1>1, <1>8, <2>4 DEF Free, apiVars, TypeInv, ApiTypes, StoreTypes
  <2>6. RestTypes'
    BY <1>1, <1>8 DEF Free, apiVars, TypeInv, RestTypes
  <2>7. QED
    BY <2>3, <2>5, <2>6 DEF TypeInv
<1>9. QED
  BY <1>2, <1>3, <1>4, <1>5, <1>6, <1>7, <1>8 DEF TaskStep

LEMMA StopTypes ==
    ASSUME TypeInv, NEW r \in Runners, Stop(r) \/ StopStep(r) \/ Crash(r)
    PROVE  TypeInv'
<1>1. proc[r] \in ProcState /\ InStep(proc[r])
  BY DEF TypeInv, ProcTypes
<1>2. CASE Stop(r)
  <2> DEFINE p == [proc[r] EXCEPT !.stop = "tasks"]
  <2>1. p \in ProcState /\ InStep(p)
    BY <1>1 DEF ProcState, InStep
  <2>2. ProcTypes'
    BY <1>2, <2>1, RunnerMoves DEF Stop, TypeInv
  <2>3. ApiTypes' /\ StoreTypes' /\ RestTypes'
    BY <1>2 DEF Stop, Tasks, storeVars, apiVars, TypeInv, ApiTypes, StoreTypes, RestTypes
  <2>4. QED
    BY <2>2, <2>3 DEF TypeInv
<1>3. CASE ReleaseList(r)
  <2> DEFINE owned == {j \in Jobs : exec[j].owner = r /\ exec[j].status = "running"}
             p == [proc[r] EXCEPT !.pc = "release", !.stop = "release", !.todo = owned,
                                  !.doomed = {j \in owned : exec[j].cancel}]
  <2>1. p \in ProcState /\ p.pc = "release"
    BY <1>1 DEF ProcState
  <2>2. InStep(p)
    BY <2>1 DEF InStep, JobSteps
  <2>3. ProcTypes'
    BY <1>3, <2>1, <2>2, RunnerMoves, ZenonT(60) DEF ReleaseList, TypeInv
  <2>4. ApiTypes' /\ StoreTypes' /\ RestTypes'
    BY <1>3 DEF ReleaseList, storeVars, apiVars, TypeInv, ApiTypes, StoreTypes, RestTypes
  <2>5. QED
    BY <2>3, <2>4 DEF TypeInv
<1>4. CASE \E j \in Jobs : ReleaseNext(r, j)
  <2>1. PICK j \in Jobs : ReleaseNext(r, j)
    BY <1>4
  <2> DEFINE p == [proc[r] EXCEPT !.cur = j, !.todo = @ \ {j},
                  !.pc = IF j \in proc[r].doomed THEN "peek" ELSE "get",
                  !.out = IF j \in proc[r].doomed THEN "cancelled" ELSE "queued"]
  <2>2. p \in ProcState /\ InStep(p)
    BY <1>1, ZenonT(60) DEF ProcState, InStep, Terminal
  <2>3. ProcTypes'
    BY <2>1, <2>2, RunnerMoves, ZenonT(60) DEF ReleaseNext, TypeInv
  <2>4. ApiTypes' /\ StoreTypes' /\ RestTypes'
    BY <2>1 DEF ReleaseNext, storeVars, apiVars, TypeInv, ApiTypes, StoreTypes, RestTypes
  <2>5. QED
    BY <2>3, <2>4 DEF TypeInv
<1>5. CASE Stopped(r)
  <2>1. ProcTypes'
    BY <1>5, DownTypes DEF Stopped, TypeInv
  <2>2. ApiTypes' /\ StoreTypes' /\ RestTypes'
    BY <1>5 DEF Stopped, storeVars, apiVars, TypeInv, ApiTypes, StoreTypes, RestTypes
  <2>3. QED
    BY <2>1, <2>2 DEF TypeInv
<1>6. CASE Crash(r)
  <2>1. ProcTypes'
    BY <1>6, DownTypes DEF Crash, TypeInv
  <2>2. ApiTypes'
    BY <1>6 DEF Crash, TypeInv, ApiTypes, HandlerState, NoRequest, ExecStatus
  <2>3. StoreTypes' /\ RestTypes'
    BY <1>6 DEF Crash, storeVars, TypeInv, StoreTypes, RestTypes
  <2>4. QED
    BY <2>1, <2>2, <2>3 DEF TypeInv
<1>7. QED
  BY <1>2, <1>3, <1>4, <1>5, <1>6 DEF StopStep

LEMMA FaultTypes ==
    ASSUME TypeInv, (\E h \in Handlers : WorkerCrash(h)) \/ (\E j \in Jobs : Expire(j))
    PROVE  TypeInv'
<1>1. CASE \E h \in Handlers : WorkerCrash(h)
  BY <1>1 DEF WorkerCrash, storeVars, runnerVars, TypeInv, ProcTypes, ApiTypes, StoreTypes,
              RestTypes, HandlerState, NoRequest, ExecStatus
<1>2. CASE \E j \in Jobs : Expire(j)
  <2>1. PICK j \in Jobs : Expire(j)
    BY <1>2
  <2>2. [lease[j] EXCEPT !.live = FALSE] \in Lease
    BY DEF TypeInv, StoreTypes, Lease
  <2>3. StoreTypes'
    BY <2>1, <2>2 DEF Expire, TypeInv, StoreTypes
  <2>4. ProcTypes' /\ ApiTypes' /\ RestTypes'
    BY <2>1 DEF Expire, runnerVars, apiVars, TypeInv, ProcTypes, ApiTypes, RestTypes
  <2>5. QED
    BY <2>3, <2>4 DEF TypeInv
<1>3. QED
  BY <1>1, <1>2

LEMMA NextTypes == TypeInv /\ [Next]_vars => TypeInv'
<1> SUFFICES ASSUME TypeInv, [Next]_vars PROVE TypeInv'
  OBVIOUS
<1>1. CASE \E h \in Handlers, host \in Runners \cup {None}, j \in Jobs :
              Create(h, host, j) \/ Cancel(h, host, j) \/ Delete(h, host, j)
  BY <1>1, RequestTypes
<1>2. CASE \E h \in Handlers : HandlerStep(h) \/ WorkerCrash(h)
  BY <1>2, HandlerStepTypes, FaultTypes
<1>3. CASE \E r \in Runners : Start(r) \/ Wake(r) \/ LoopStep(r)
  BY <1>3, LoopTypes, ClaimTypes DEF LoopStep
<1>4. CASE \E r \in Runners : TaskStep(r) \/ Stop(r) \/ StopStep(r) \/ Crash(r)
  BY <1>4, OutcomeTypes, StopTypes
<1>5. CASE \E r \in Runners, j \in Jobs : Resume(r, j)
  BY <1>5, TaskTypes
<1>6. CASE \E j \in Jobs : Expire(j)
  BY <1>6, FaultTypes
<1>7. CASE UNCHANGED vars
  BY <1>7 DEF vars, TypeInv, ProcTypes, ApiTypes, StoreTypes, RestTypes
<1>8. QED
  BY <1>1, <1>2, <1>3, <1>4, <1>5, <1>6, <1>7 DEF Next

LEMMA TypeInvIsTypeOK == TypeInv <=> TypeOK /\ StepsFit
BY DEF TypeInv, ProcTypes, ApiTypes, StoreTypes, RestTypes, TypeOK, StepsFit, InStep

\* Every variable keeps its type, and a process amid its store calls has a job to
\* make them for: no interleaving of handlers, runners and faults makes runner.py
\* or the use cases write a status that no record can have.
THEOREM Typing == Spec => [](TypeOK /\ StepsFit)
<1>1. Init => TypeInv
  BY InitTypes
<1>2. TypeInv /\ [Next]_vars => TypeInv'
  BY NextTypes
<1>3. QED
  BY <1>1, <1>2, TypeInvIsTypeOK, PTL DEF Spec

-----------------------------------------------------------------------------
(***************************************************************************)
(* Exclusion.  A step either lets nobody begin to work on a job            *)
(* (NoNewWork) or is ClaimLease, which finds the lease free.               *)
(***************************************************************************)
NoNewWork == \A q \in Runners, k \in Jobs : Working(q, k)' => Working(q, k)

\* What a step of process r must show of itself.
Ordinary(r) ==
    /\ \A q \in Runners : q # r => proc'[q] = proc[q] /\ task'[q] = task[q]
    /\ proc'[r].pc \notin {"claimGet", "claimPut", "mark"}
    /\ \A k \in Jobs : task'[r][k] # "none" => Working(r, k)

LEMMA OrdinaryStep ==
    ASSUME MarkersHaveTasks, NEW r \in Runners, Ordinary(r)
    PROVE  MarkersHaveTasks' /\ NoNewWork
BY DEF Ordinary, MarkersHaveTasks, NoNewWork, Working

LEMMA LeasesKept ==
    ASSUME WorkersHoldLeases, NoNewWork, UNCHANGED lease
    PROVE  WorkersHoldLeases'
BY DEF WorkersHoldLeases, NoNewWork

LEMMA ClaimedFields == ASSUME NEW r PROVE Claimed(r).owner = r /\ Claimed(r).live = TRUE
BY DEF Claimed

LEMMA YieldFrees ==
    ASSUME proc \in [Runners -> ProcState], NEW r \in Runners, Yield(r)
    PROVE  proc'[r].pc = "idle" /\ \A q \in Runners : q # r => proc'[q] = proc[q]
BY DEF Yield, Fresh

\* Handlers only take and yield a process whose event loop was free.
LEMMA HandlersDoNotWork ==
    ASSUME MarkersHaveTasks, UNCHANGED task,
           \A r \in Runners : proc'[r] = proc[r] \/ proc'[r].pc \in {"api", "idle"}
    PROVE  MarkersHaveTasks' /\ NoNewWork
BY DEF MarkersHaveTasks, NoNewWork, Working

LEMMA ApiExclusion ==
    ASSUME LeaseInv, "delete" \notin Ops, NEW h \in Handlers,
           \/ HandlerStep(h)
           \/ \E host \in Runners \cup {None}, j \in Jobs :
                 Create(h, host, j) \/ Cancel(h, host, j) \/ Delete(h, host, j)
    PROVE  NobodyDeletes' /\ MarkersHaveTasks' /\ WorkersHoldLeases'
<1>1. UNCHANGED lease /\ UNCHANGED task /\ NobodyDeletes'
  <2>1. ~DeleteCheck(h) /\ ~DeleteRecord(h) /\ ~DeleteSpec(h) /\ ~DeleteExec(h) /\ ~DeleteLease(h)
    BY DEF LeaseInv, NobodyDeletes, DeleteCheck, DeleteRecord, DeleteSpec, DeleteExec, DeleteLease
  <2>2. UNCHANGED lease /\ UNCHANGED task
    BY <2>1 DEF HandlerStep, PutSpec, PutExec, LoadResponse, SaveResponse, DropSpec, Answer,
                Create, Cancel, Delete
  <2>3. ASSUME NEW host, NEW j, NEW seen,
               NEW pc \in {"putSpec", "putExec", "load", "save", "dropSpec", "answer"},
               Continue(h, host, j, pc, seen)
        PROVE  NobodyDeletes'
    BY <2>3 DEF Continue, LeaseInv, NobodyDeletes, TypeOK, HandlerState
  <2>4. ASSUME Finish(h) PROVE NobodyDeletes'
    BY <2>4 DEF Finish, NoRequest, LeaseInv, NobodyDeletes, TypeOK
  <2>5. CASE HandlerStep(h)
    BY <2>1, <2>3, <2>4, <2>5 DEF HandlerStep, PutSpec, PutExec, LoadResponse, SaveResponse,
                                  DropSpec, Answer, Step
  <2>6. CASE ~HandlerStep(h)
    BY <2>3, <2>6 DEF Create, Cancel, Delete
  <2>7. QED
    BY <2>2, <2>5, <2>6
<1>2. \A r \in Runners : proc'[r] = proc[r] \/ proc'[r].pc \in {"api", "idle"}
  <2>1. ASSUME NEW host, NEW j, NEW pc, NEW seen, Continue(h, host, j, pc, seen),
               NEW r \in Runners
        PROVE  proc'[r] = proc[r] \/ proc'[r].pc = "api"
    BY <2>1 DEF Continue, LeaseInv, TypeOK, ProcState
  <2>2. ASSUME Finish(h), NEW r \in Runners
        PROVE  proc'[r] = proc[r] \/ proc'[r].pc = "idle"
    BY <2>2, SMTT(40) DEF Finish, LeaseInv, TypeOK, ProcState
  <2>3. CASE HandlerStep(h)
    BY <2>1, <2>2, <2>3 DEF HandlerStep, PutSpec, PutExec, LoadResponse, SaveResponse, DropSpec,
           Answer, DeleteCheck, DeleteRecord, DeleteSpec, DeleteExec, DeleteLease, Step
  <2>4. CASE ~HandlerStep(h)
    BY <2>1, <2>4 DEF Create, Cancel, Delete
  <2>5. QED
    BY <2>3, <2>4
<1>3. MarkersHaveTasks' /\ NoNewWork
  BY <1>1, <1>2, HandlersDoNotWork DEF LeaseInv
<1>4. QED
  BY <1>1, <1>3, LeasesKept DEF LeaseInv

\* The loop's steps up to and including a claim.
LEMMA LoopExclusion ==
    ASSUME LeaseInv, NEW r \in Runners, Start(r) \/ Wake(r) \/ LoopStep(r)
    PROVE  MarkersHaveTasks' /\ WorkersHoldLeases'
<1> DEFINE j == proc[r].cur
<1>1. /\ proc \in [Runners -> ProcState]
      /\ task \in [Runners -> [Jobs -> {"none", "new", "init", "gen"}]]
      /\ lease \in [Jobs -> Lease]
      /\ WorkersHoldLeases /\ MarkersHaveTasks
  BY DEF LeaseInv, TypeOK
<1>2. CASE Start(r) \/ Wake(r) \/ List(r) \/ EndClaims(r) \/ \E k \in Jobs : Look(r, k) \/ Check(r, k)
  <2>1. UNCHANGED <<lease, task>>
    BY <1>2 DEF Start, Wake, List, EndClaims, Look, Check, storeVars
  <2>2. /\ \A q \in Runners : q # r => proc'[q] = proc[q]
        /\ proc'[r].pc \in {"list", "look", "renew", "check", "lease", "idle"}
    <3>1. CASE EndClaims(r)
      BY <1>1, <3>1, YieldFrees DEF EndClaims
    <3>2. CASE ~EndClaims(r)
      BY <1>1, <1>2, <3>2 DEF Start, Wake, List, Look, Check, Goto, At, ProcState
    <3>3. QED
      BY <3>1, <3>2
  <2>3. Ordinary(r)
    BY <1>1, <2>1, <2>2 DEF Ordinary, Working
  <2>4. QED
    BY <1>1, <2>1, <2>3, OrdinaryStep, LeasesKept
<1>3. CASE Renew(r)
  <2>1. UNCHANGED task /\ j \in Jobs /\ lease' = [lease EXCEPT ![j] = Renewed(@, r)]
    BY <1>3, SMTT(40) DEF Renew, LeaseInv, StepsFit, JobSteps
  <2>2. /\ \A q \in Runners : q # r => proc'[q] = proc[q]
        /\ proc'[r].pc \in {"list", "look"}
    BY <1>1, <1>3 DEF Renew, NextJob, ProcState
  <2>3. Ordinary(r)
    BY <1>1, <2>1, <2>2 DEF Ordinary, Working
  <2>4. MarkersHaveTasks' /\ NoNewWork
    BY <1>1, <2>3, OrdinaryStep
  <2>5. lease[j].live => lease'[j].owner = lease[j].owner /\ lease'[j].live
    BY <1>1, <2>1 DEF Renewed, Lease
  <2>6. QED
    BY <1>1, <2>1, <2>4, <2>5 DEF WorkersHoldLeases, NoNewWork
<1>4. CASE ClaimLease(r) /\ HeldByOther(lease[j], r)
  <2>1. UNCHANGED <<lease, task>> /\ NextJob(r, "check")
    BY <1>4 DEF ClaimLease
  <2>2. /\ \A q \in Runners : q # r => proc'[q] = proc[q]
        /\ proc'[r].pc = "check"
    BY <1>1, <2>1 DEF NextJob, ProcState
  <2>3. Ordinary(r)
    BY <1>1, <2>1, <2>2 DEF Ordinary, Working
  <2>4. QED
    BY <1>1, <2>1, <2>3, OrdinaryStep, LeasesKept
<1>5. CASE ClaimLease(r) /\ ~HeldByOther(lease[j], r)
  <2>1. /\ UNCHANGED task /\ j \in Jobs
        /\ lease' = [lease EXCEPT ![j] = Claimed(r)]
        /\ Goto(r, "claimGet")
    BY <1>5 DEF ClaimLease, LeaseInv, StepsFit, JobSteps
  <2>2. /\ \A q \in Runners : q # r => proc'[q] = proc[q]
        /\ proc'[r].pc = "claimGet" /\ proc'[r].cur = j
    BY <1>1, <2>1 DEF Goto, ProcState
  \* Whoever works on j holds a live lease, so it is r.
  <2>3. \A q \in Runners : Working(q, j) => q = r
    BY <1>1, <1>5, <2>1 DEF WorkersHoldLeases, HeldByOther
  <2>4. \A q \in Runners, k \in Jobs : Working(q, k)' => Working(q, k) \/ (q = r /\ k = j)
    BY <2>1, <2>2 DEF Working
  <2>5. WorkersHoldLeases'
    <3>1. lease'[j].owner = r /\ lease'[j].live
      BY <1>1, <2>1, ClaimedFields
    <3>2. ASSUME NEW q \in Runners, NEW k \in Jobs, Working(q, k)'
          PROVE  lease'[k].owner = q /\ lease'[k].live
      <4>1. CASE k = j
        BY <2>3, <2>4, <3>1, <3>2, <4>1
      <4>2. CASE k # j
        BY <1>1, <2>1, <2>4, <3>2, <4>2 DEF WorkersHoldLeases
      <4>3. QED
        BY <4>1, <4>2
    <3>3. QED
      BY <3>2 DEF WorkersHoldLeases
  <2>6. MarkersHaveTasks'
    BY <1>1, <2>1, <2>2 DEF MarkersHaveTasks
  <2>7. QED
    BY <2>5, <2>6
<1>6. CASE ClaimGet(r) \/ ClaimPut(r)
  <2>1. UNCHANGED lease /\ Working(r, j) /\ j \in Jobs
    BY <1>6 DEF ClaimGet, ClaimPut, storeVars, Working, LeaseInv, StepsFit, JobSteps
  <2>2. UNCHANGED task \/ task' = [task EXCEPT ![r][j] = "new"]
    BY <1>6 DEF ClaimGet, ClaimPut
  <2>3. \A q \in Runners : q # r => proc'[q] = proc[q] /\ task'[q] = task[q]
    BY <1>1, <1>6, <2>2 DEF ClaimGet, ClaimPut, NextJob
  <2>4. CASE proc'[r].pc = "check"
    <3>1. Ordinary(r)
      BY <1>1, <2>1, <2>2, <2>3, <2>4 DEF Ordinary, Working
    <3>2. QED
      BY <1>1, <2>1, <3>1, OrdinaryStep, LeasesKept
  <2>5. CASE UNCHANGED task /\ proc'[r].pc = "claimPut" /\ proc'[r].cur = j
    <3>1. NoNewWork
      BY <2>1, <2>3, <2>5 DEF NoNewWork, Working
    <3>2. MarkersHaveTasks'
      BY <1>1, <2>3, <2>5 DEF MarkersHaveTasks
    <3>3. QED
      BY <1>1, <2>1, <3>1, <3>2, LeasesKept
  <2>6. proc'[r].pc = "check" \/ (UNCHANGED task /\ proc'[r].pc = "claimPut" /\ proc'[r].cur = j)
    BY <1>1, <1>6 DEF ClaimGet, ClaimPut, NextJob, ProcState
  <2>7. QED
    BY <2>4, <2>5, <2>6
<1>7. QED
  BY <1>2, <1>3, <1>4, <1>5, <1>6 DEF LoopStep

LEMMA TaskExclusion ==
    ASSUME LeaseInv, NEW r \in Runners, (\E j \in Jobs : Resume(r, j)) \/ TaskStep(r)
    PROVE  MarkersHaveTasks' /\ WorkersHoldLeases'
<1> DEFINE j == proc[r].cur
<1>1. /\ proc \in [Runners -> ProcState]
      /\ task \in [Runners -> [Jobs -> {"none", "new", "init", "gen"}]]
      /\ lease \in [Jobs -> Lease]
      /\ WorkersHoldLeases /\ MarkersHaveTasks
  BY DEF LeaseInv, TypeOK
<1>2. CASE \E k \in Jobs : Resume(r, k)
  <2>1. PICK k \in Jobs : Resume(r, k)
    BY <1>2
  <2>2. UNCHANGED lease /\ task[r][k] # "none"
    BY <2>1 DEF Resume, Begin, InitFails, Initialized, Generated, DropUnstarted, Cancelled,
                Resumable, storeVars
  <2>3. UNCHANGED task \/ \E s \in {"none", "init", "gen"} : task' = [task EXCEPT ![r][k] = s]
    BY <2>1, SMTT(40) DEF Resume, Begin, InitFails, Initialized, Generated, DropUnstarted, Cancelled
  <2>4. \A q \in Runners : q # r => proc'[q] = proc[q] /\ task'[q] = task[q]
    BY <1>1, <2>1, <2>3 DEF Resume, Begin, InitFails, Initialized, Generated, DropUnstarted,
                            Cancelled, Settle, At
  <2>5. \/ proc'[r].pc \in {"idle", "get", "peek", "save", "free"}
        \/ proc'[r].pc = "mark" /\ proc'[r].cur = k /\ UNCHANGED task
    <3>1. proc[r].pc = "idle"
      BY <2>1 DEF Resume, Begin, InitFails, Initialized, Generated, DropUnstarted, Cancelled,
                  Resumable
    <3>2. ASSUME NEW out, NEW pc, Settle(r, k, out, pc) PROVE proc'[r].pc = pc
      BY <1>1, <3>2 DEF Settle, ProcState
    <3>3. ASSUME NEW pc, At(r, pc, k) PROVE proc'[r].pc = pc /\ proc'[r].cur = k
      BY <1>1, <3>3 DEF At, ProcState
    <3>4. CASE Begin(r, k)
      BY <3>1, <3>2, <3>4 DEF Begin
    <3>5. CASE InitFails(r, k)
      BY <3>2, <3>5 DEF InitFails
    <3>6. CASE Initialized(r, k)
      BY <3>1, <3>3, <3>6 DEF Initialized
    <3>7. CASE \E out \in {"completed", "failed"} : Generated(r, k, out)
      BY <3>2, <3>7 DEF Generated
    <3>8. CASE DropUnstarted(r, k)
      BY <3>1, <3>8 DEF DropUnstarted
    <3>9. CASE Cancelled(r, k)
      BY <3>2, <3>3, <3>9 DEF Cancelled
    <3>10. QED
      BY <2>1, <3>4, <3>5, <3>6, <3>7, <3>8, <3>9 DEF Resume
  <2>6. NoNewWork
    BY <1>1, <2>2, <2>3, <2>4, <2>5 DEF NoNewWork, Working
  <2>7. MarkersHaveTasks'
    BY <1>1, <2>2, <2>4, <2>5 DEF MarkersHaveTasks
  <2>8. QED
    BY <1>1, <2>2, <2>6, <2>7, LeasesKept
<1>3. CASE MarkInProgress(r)
  <2>1. UNCHANGED lease /\ j \in Jobs /\ task[r][j] # "none"
    BY <1>1, <1>3 DEF MarkInProgress, MarkersHaveTasks, LeaseInv, StepsFit, JobSteps
  <2>2. task' = [task EXCEPT ![r][j] = "gen"] /\ Yield(r)
    BY <1>3 DEF MarkInProgress
  <2>3. Ordinary(r)
    BY <1>1, <2>1, <2>2 DEF Ordinary, Yield, Fresh, Working
  <2>4. QED
    BY <1>1, <2>1, <2>3, OrdinaryStep, LeasesKept
<1>4. CASE Peek(r) \/ Save(r) \/ GetExec(r) \/ PutOutcome(r) \/ DropJobSpec(r)
  <2>1. UNCHANGED <<lease, task>>
    BY <1>4 DEF Peek, Save, GetExec, PutOutcome, DropJobSpec, storeVars
  <2>2. /\ \A q \in Runners : q # r => proc'[q] = proc[q]
        /\ proc'[r].pc \in {"save", "drop", "get", "put", "free"}
    BY <1>1, <1>4 DEF Peek, Save, GetExec, PutOutcome, DropJobSpec, Goto, AfterPut, ProcState
  <2>3. Ordinary(r)
    BY <1>1, <2>1, <2>2 DEF Ordinary, Working
  <2>4. QED
    BY <1>1, <2>1, <2>3, OrdinaryStep, LeasesKept
<1>5. CASE Free(r)
  <2>1. PICK k \in Jobs : k = j
    BY <1>5 DEF Free, LeaseInv, StepsFit, JobSteps
  <2>2. /\ lease' = [lease EXCEPT ![k] = Released(@, r)]
        /\ task' = [task EXCEPT ![r][k] = "none"]
    BY <1>5, <2>1 DEF Free
  <2>3. /\ \A q \in Runners : q # r => proc'[q] = proc[q]
        /\ proc'[r].pc \in {"release", "idle"}
    <3>1. CASE Yield(r)
      BY <1>1, <3>1, YieldFrees
    <3>2. CASE ~Yield(r)
      BY <1>1, <1>5, <3>2 DEF Free, ProcState
    <3>3. QED
      BY <3>1, <3>2
  <2>4. Ordinary(r)
    BY <1>1, <2>2, <2>3 DEF Ordinary, Working
  <2>5. MarkersHaveTasks' /\ NoNewWork
    BY <1>1, <2>4, OrdinaryStep
  <2>6. ~Working(r, k)'
    BY <1>1, <2>2, <2>3 DEF Working
  <2>7. lease[k].owner # r => lease'[k] = lease[k]
    BY <1>1, <2>2 DEF Released
  <2>8. QED
    BY <1>1, <2>2, <2>5, <2>6, <2>7 DEF WorkersHoldLeases, NoNewWork
<1>6. QED
  BY <1>2, <1>3, <1>4, <1>5 DEF TaskStep

LEMMA StopExclusion ==
    ASSUME LeaseInv, NEW r \in Runners, Stop(r) \/ StopStep(r) \/ Crash(r)
    PROVE  MarkersHaveTasks' /\ WorkersHoldLeases'
<1>1. /\ proc \in [Runners -> ProcState]
      /\ task \in [Runners -> [Jobs -> {"none", "new", "init", "gen"}]]
      /\ WorkersHoldLeases /\ MarkersHaveTasks
  BY SMTT(40) DEF LeaseInv, TypeOK
<1>2. UNCHANGED lease
  BY DEF Stop, StopStep, ReleaseList, ReleaseNext, Stopped, Crash, storeVars
<1>3. UNCHANGED task \/ task' = [task EXCEPT ![r] = [j \in Jobs |-> "none"]]
  BY ZenonT(60) DEF Stop, StopStep, ReleaseList, ReleaseNext, Stopped, Crash
<1>4. \A q \in Runners : q # r => proc'[q] = proc[q] /\ task'[q] = task[q]
  BY <1>1, <1>3, Zenon DEF Stop, StopStep, ReleaseList, ReleaseNext, Stopped, Crash
<1>5. proc'[r].pc \in {"idle", "release", "peek", "get", "down"}
  <2>1. [Fresh EXCEPT !.pc = "down"].pc = "down"
    BY DEF Fresh
  <2>2. CASE Crash(r) \/ Stopped(r)
    BY <1>1, <2>1, <2>2 DEF Crash, Stopped
  <2>3. CASE Stop(r) \/ ReleaseList(r) \/ \E j \in Jobs : ReleaseNext(r, j)
    <3>1. CASE Stop(r)
      BY <1>1, <3>1 DEF Stop, ProcState
    <3>2. CASE ReleaseList(r)
      BY <1>1, <3>2 DEF ReleaseList, ProcState
    <3>3. ASSUME NEW j \in Jobs, ReleaseNext(r, j) PROVE proc'[r].pc \in {"peek", "get"}
      BY <1>1, <3>3 DEF ReleaseNext, ProcState
    <3>4. QED
      BY <2>3, <3>1, <3>2, <3>3
  <2>4. QED
    BY <2>2, <2>3 DEF StopStep
<1>6. Ordinary(r)
  BY <1>1, <1>3, <1>4, <1>5 DEF Ordinary, Working
<1>7. QED
  BY <1>1, <1>2, <1>6, OrdinaryStep, LeasesKept

LEMMA FaultExclusion ==
    ASSUME LeaseInv, "stall" \notin Faults,
           (\E h \in Handlers : WorkerCrash(h)) \/ (\E j \in Jobs : Expire(j))
    PROVE  NobodyDeletes' /\ MarkersHaveTasks' /\ WorkersHoldLeases'
<1>1. CASE \E h \in Handlers : WorkerCrash(h)
  BY <1>1 DEF WorkerCrash, storeVars, runnerVars, LeaseInv, NobodyDeletes, NoRequest, TypeOK,
              MarkersHaveTasks, WorkersHoldLeases, Working
<1>2. ASSUME NEW j \in Jobs, Expire(j)
      PROVE  NobodyDeletes' /\ MarkersHaveTasks' /\ WorkersHoldLeases'
  <2>1. /\ lease' = [lease EXCEPT ![j].live = FALSE]
        /\ UNCHANGED <<proc, task, hnd>>
        /\ ~Working(lease[j].owner, j)
    BY <1>2 DEF Expire, runnerVars, apiVars
  <2>2. \A r \in Runners : ~Working(r, j)
    BY <2>1 DEF LeaseInv, WorkersHoldLeases
  <2>3. QED
    BY <2>1, <2>2 DEF LeaseInv, TypeOK, NobodyDeletes, MarkersHaveTasks, WorkersHoldLeases, Working
<1>3. QED
  BY <1>1, <1>2

LEMMA RunnersDoNotDelete ==
    ASSUME NobodyDeletes, NEW r \in Runners,
           \/ Start(r) \/ Wake(r) \/ LoopStep(r) \/ TaskStep(r) \/ Stop(r) \/ StopStep(r) \/ Crash(r)
           \/ \E j \in Jobs : Resume(r, j)
    PROVE  NobodyDeletes'
<1>1. CASE Crash(r)
  BY <1>1 DEF Crash, NobodyDeletes, NoRequest
<1>2. CASE ~Crash(r)
  <2>1. UNCHANGED hnd
    BY <1>2, Zenon DEF Start, Wake, LoopStep, TaskStep, Stop, StopStep, Resume, apiVars,
           Renew, List, EndClaims, ClaimLease, ClaimGet, ClaimPut, Look, Check,
           MarkInProgress, Peek, Save, GetExec, PutOutcome, DropJobSpec, Free,
           ReleaseList, ReleaseNext, Stopped,
           Begin, InitFails, Initialized, Generated, DropUnstarted, Cancelled
  <2>2. QED
    BY <2>1, SMTT(40) DEF NobodyDeletes
<1>3. QED
  BY <1>1, <1>2

LEMMA InitExclusion == Init => LeaseInv
<1> SUFFICES ASSUME Init PROVE LeaseInv
  OBVIOUS
<1>1. TypeOK /\ StepsFit
  BY InitTypes, TypeInvIsTypeOK
<1>2. NobodyDeletes /\ MarkersHaveTasks /\ WorkersHoldLeases
  BY DEF Init, Fresh, NoRequest, NobodyDeletes, MarkersHaveTasks, WorkersHoldLeases, Working
<1>3. QED
  BY <1>1, <1>2 DEF LeaseInv

LEMMA NextExclusion ==
    ASSUME "stall" \notin Faults, "delete" \notin Ops, LeaseInv, [Next]_vars
    PROVE  LeaseInv'
<1>1. TypeOK' /\ StepsFit'
  BY NextTypes, TypeInvIsTypeOK DEF LeaseInv, TypeOK, StepsFit, TypeInv, ProcTypes, ApiTypes,
     StoreTypes, RestTypes, InStep
<1>2. NobodyDeletes' /\ MarkersHaveTasks' /\ WorkersHoldLeases'
  <2>1. CASE \E h \in Handlers : \/ HandlerStep(h)
                                 \/ \E host \in Runners \cup {None}, j \in Jobs :
                                       Create(h, host, j) \/ Cancel(h, host, j) \/ Delete(h, host, j)
    BY <2>1, ApiExclusion
  <2>2. CASE (\E h \in Handlers : WorkerCrash(h)) \/ (\E j \in Jobs : Expire(j))
    BY <2>2, FaultExclusion
  <2>3. CASE \E r \in Runners :
                \/ Start(r) \/ Wake(r) \/ LoopStep(r) \/ TaskStep(r)
                \/ Stop(r) \/ StopStep(r) \/ Crash(r)
                \/ \E j \in Jobs : Resume(r, j)
    BY <2>3, LoopExclusion, TaskExclusion, StopExclusion, RunnersDoNotDelete DEF LeaseInv
  <2>4. CASE UNCHANGED vars
    BY <2>4 DEF vars, LeaseInv, NobodyDeletes, MarkersHaveTasks, WorkersHoldLeases, Working
  <2>5. QED
    BY <2>1, <2>2, <2>3, <2>4 DEF Next
<1>3. QED
  BY <1>1, <1>2 DEF LeaseInv

LEMMA LeaseInvAlways ==
    ASSUME "stall" \notin Faults, "delete" \notin Ops
    PROVE  Spec => []LeaseInv
<1>1. Init => LeaseInv
  BY InitExclusion
<1>2. LeaseInv /\ [Next]_vars => LeaseInv'
  BY NextExclusion
<1>3. QED
  BY <1>1, <1>2, PTL DEF Spec

\* While every owner renews in time and clients do not delete, a runner that works
\* on a job holds its live lease, whatever stops, crashes, cancels or interleaves:
\* claim, heartbeat and release of lease.py never hand a lease out twice.
THEOREM LeaseHeld ==
    ASSUME "stall" \notin Faults, "delete" \notin Ops
    PROVE  Spec => []WorkersHoldLeases
<1>1. LeaseInv => WorkersHoldLeases
  BY DEF LeaseInv
<1>2. QED
  BY <1>1, LeaseInvAlways, PTL

\* Under the same assumptions no two runners ever have a task for the same job,
\* however many processes of runner.py poll the same store.
THEOREM Exclusion ==
    ASSUME "stall" \notin Faults, "delete" \notin Ops
    PROVE  Spec => []OneWorker
<1>1. LeaseInv => OneWorker
  <2> SUFFICES ASSUME LeaseInv, NEW j \in Jobs, NEW r \in Runners, NEW q \in Runners,
                      task[r][j] # "none", task[q][j] # "none"
               PROVE  r = q
    BY DEF OneWorker
  <2>1. Working(r, j) /\ Working(q, j)
    BY DEF Working
  <2>2. QED
    BY <2>1 DEF LeaseInv, WorkersHoldLeases
<1>2. QED
  BY <1>1, LeaseInvAlways, PTL

-----------------------------------------------------------------------------
(***************************************************************************)
(* The records of a job.  In local mode, where the handlers and the runner *)
(* share a process, the records of a job fit together, a cancel that was   *)
(* answered holds, a deletion leaves nothing, and each job goes through    *)
(* the life of module JobLifecycle.  With any number of runners and        *)
(* clients that only create, a completed execution still follows the       *)
(* completed response, crashes included.                                   *)
(***************************************************************************)

\* Embedded and local: one runner process at a time, which is restarted but not killed.
LocalMode == Local /\ MaxUp = 1 /\ Faults \subseteq {"stop", "engine"}

Active(h) == hnd[h].pc # "idle"
LoopPcs == {"api", "look", "renew", "list", "check", "lease", "claimGet", "claimPut"}
OutPcs == {"peek", "save", "get", "put", "drop"}

\* One runner is up at most; one that is not has no tasks.
OneUp ==
    /\ \A r, q \in Up : r = q
    /\ \A r \in Runners \ Up, j \in Jobs : task[r][j] = "none" /\ proc[r].cur = None

\* A handler at work occupies its runner, alone.
Hosted ==
    /\ \A h \in Handlers : IF Active(h) THEN hnd[h].host \in Runners /\ proc[hnd[h].host].pc = "api"
                           ELSE hnd[h] = NoRequest
    /\ \A h, g \in Handlers : Active(h) /\ Active(g) => h = g

\* What a runner's step says of it.
ProcFits(p) ==
    /\ p.pc \in LoopPcs \cup {"unborn", "down"} => p.stop = "no"
    /\ p.pc = "release" => p.stop = "release"
    /\ p.stop = "release" => p.pc \in OutPcs \cup {"release", "free"}
    /\ p.pc \in LoopPcs \cup {"unborn", "down", "idle", "mark", "release"} => p.out = "none"
    /\ p.pc \in {"unborn", "down", "idle", "api", "list", "look", "check", "release"} => p.cur = None
    /\ p.pc \in OutPcs => p.out \in {"queued"} \cup Terminal /\ (p.out = "queued" => p.pc \in {"get", "put"})
    /\ p.stop = "release" /\ p.pc \in OutPcs => p.out \in {"queued", "cancelled"}
    /\ p.stop # "release" => p.out # "queued"

\* A runner at work on a job found it claimable, or has a task for it or, once it stops, releases it.
ProcOfJob(r) ==
    LET p == proc[r] IN
    /\ p.pc \in {"lease", "claimGet", "claimPut"} => Claimable(exec[p.cur]) /\ task[r][p.cur] = "none"
    /\ p.pc \in {"put", "claimPut"} => p.copy = exec[p.cur]
    /\ p.pc \in {"mark", "save"} => p.cur \in Stored
    /\ p.stop # "release" /\ p.pc \in OutPcs \cup {"free", "mark"} => task[r][p.cur] # "none"
    /\ p.stop = "release" => \A j \in Jobs : task[r][j] = "none"
    /\ p.stop = "release" => \A j \in p.todo : exec[j].status = "running" /\ (p.pc # "release" => j # p.cur)
    /\ p.pc \in {"peek", "save", "get", "put"} => exec[p.cur].status = "running"
    /\ p.pc = "drop" => IF p.stop = "release" THEN exec[p.cur].status = "running" ELSE exec[p.cur].status \in Terminal
    /\ p.stop = "release" /\ p.pc \in {"get", "put"} /\ p.out = "queued" => ~exec[p.cur].cancel
    /\ p.stop = "release" => \A j \in p.todo : exec[j].cancel => j \in p.doomed
    /\ p.cur \in Stored /\ p.out \in {"completed", "cancelled"} /\ (p.pc \in {"get", "put"} \/ (p.stop = "release" /\ p.pc = "drop")) =>
          record[p.cur] = p.out

Runs == \A r \in Runners : ProcFits(proc[r]) /\ ProcOfJob(r)

\* A job with a worker is running.
EngagedRuns == \A r \in Runners, j \in Jobs : Engaged(r, j) => exec[j].status = "running"

\* A runner that stops is about to write that job j is cancelled; its spec is gone.
GivingUp(j) == \E r \in Runners :
    proc[r].cur = j /\ proc[r].stop = "release" /\ proc[r].out = "cancelled" /\ proc[r].pc \in {"get", "put"}

\* A handler is at step pc of a request for job j.
Handled(j, pcs) == \E h \in Handlers : hnd[h].job = j /\ hnd[h].pc \in pcs

\* The records of a job.
JobFits(j) ==
    /\ exec[j].status = "none" => exec[j] = NoExec
    /\ exec[j].status \in {"queued", "running"} => spec[j] \/ GivingUp(j)
    /\ exec[j].status = "queued" => ~exec[j].cancel
    /\ j \notin Stored => record[j] = "none"
    /\ j \in Stored /\ exec[j].status \in {"queued", "running"} => record[j] # "none"
    /\ j \in Stored /\ exec[j].status = "completed" => record[j] = "completed" \/ Handled(j, {"delSpec", "delExec"})
    /\ j \in Stored /\ exec[j].status = "cancelled" =>
          record[j] = "cancelled" \/ Handled(j, {"load", "save", "delSpec", "delExec"})
    /\ j \notin created => exec[j] = NoExec /\ told[j] = "none"
    /\ j \in created /\ exec[j] = NoExec =>
          record[j] = "none" /\ ~spec[j] /\ (lease[j] = NoLease \/ Handled(j, {"delLease"}))
    /\ told[j] = "cancelled" => record[j] \in {"cancelled", "none"} /\ exec[j].status \in {"cancelled", "none"}

\* A handler amid a request knows what it found.
HandlerFits(h) ==
    LET j == hnd[h].job
        seen == hnd[h].seen IN
    /\ hnd[h].pc \in {"putSpec", "putExec"} => j \notin created /\ record[j] = IF j \in Stored THEN "queued" ELSE "none"
    /\ hnd[h].pc = "putExec" => spec[j]
    /\ hnd[h].pc \in HandlerPcs \ {"idle", "putSpec", "putExec"} => j \in created
    /\ hnd[h].pc = "load" => CASE seen = "terminal" -> exec[j].status \in Terminal
                               [] seen = "none" -> exec[j] = NoExec
                               [] OTHER -> seen = exec[j].status /\ seen \in {"running", "cancelled"}
    /\ hnd[h].pc = "load" /\ seen = "terminal" /\ exec[j].status = "cancelled" /\ j \in Stored => record[j] = "cancelled"
    /\ hnd[h].pc = "load" /\ seen = "cancelled" /\ j \in Stored => record[j] # "none"
    /\ hnd[h].pc \in {"save", "dropSpec", "answer"} => seen = exec[j].status /\ seen \in {"running", "cancelled"}
    /\ hnd[h].pc = "save" => record[j] # "none"
    /\ hnd[h].pc = "dropSpec" => seen = "cancelled"
    /\ hnd[h].pc \in {"dropSpec", "answer"} /\ seen = "cancelled" => record[j] = IF j \in Stored THEN "cancelled" ELSE "none"
    /\ hnd[h].pc = "delCheck" => exec[j].status # "none"
    /\ hnd[h].pc \in {"delRecord", "delSpec", "delExec"} => exec[j].status \in Terminal
    /\ hnd[h].pc \in {"delSpec", "delExec"} => record[j] = "none"
    /\ hnd[h].pc = "delExec" => ~spec[j]
    /\ hnd[h].pc = "delLease" => exec[j] = NoExec /\ record[j] = "none" /\ ~spec[j]

\* The facts each step keeps in local mode.
Fits ==
    /\ OneUp /\ Hosted /\ Runs /\ EngagedRuns
    /\ \A j \in Jobs : JobFits(j)
    /\ \A h \in Handlers : HandlerFits(h)

LocalInv == TypeInv /\ Fits

-----------------------------------------------------------------------------
(* Who is at work. *)

\* While a handler is at work its runner waits for it, and nobody else is up.
LEMMA HandlerAlone ==
    ASSUME LocalInv, NEW h \in Handlers, Active(h)
    PROVE  /\ hnd[h].host \in Runners /\ proc[hnd[h].host].pc = "api" /\ proc[hnd[h].host].stop = "no"
           /\ \A q \in Runners : q # hnd[h].host => proc[q].pc \in {"unborn", "down"}
           /\ \A q \in Runners : proc[q].stop = "no" /\ proc[q].cur = None
           /\ \A g \in Handlers : g # h => hnd[g] = NoRequest
           /\ hnd[h].job \in Jobs
<1>1. hnd[h].host \in Runners /\ proc[hnd[h].host].pc = "api"
  BY DEF LocalInv, Fits, Hosted
<1>2. hnd[h].host \in Up
  BY <1>1 DEF Up
<1>3. \A q \in Runners : q # hnd[h].host => proc[q].pc \in {"unborn", "down"}
  BY <1>2 DEF LocalInv, Fits, OneUp, Up
<1>4. \A q \in Runners : proc[q].pc \in {"api", "unborn", "down"}
  BY <1>1, <1>3
<1>5. \A q \in Runners : proc[q].stop = "no" /\ proc[q].cur = None
  BY <1>4 DEF LocalInv, Fits, Runs, ProcFits, LoopPcs
<1>6. QED
  BY <1>1, <1>3, <1>5 DEF LocalInv, Fits, Hosted, TypeInv, ApiTypes, Active

\* While a runner is at work no handler is.
LEMMA RunnerAlone ==
    ASSUME LocalInv, NEW r \in Runners, \A q \in Up : q = r, proc[r].pc # "api"
    PROVE  /\ \A h \in Handlers : hnd[h] = NoRequest
           /\ \A q \in Runners : q # r => proc[q].pc \in {"unborn", "down"}
           /\ \A q \in Runners, j \in Jobs : q # r => task[q][j] = "none"
<1>1. \A q \in Runners : q # r => proc[q].pc \in {"unborn", "down"}
  BY DEF Up
<1>2. ASSUME NEW h \in Handlers, Active(h) PROVE FALSE
  <2>1. hnd[h].host \in Runners /\ proc[hnd[h].host].pc = "api"
    BY <1>2 DEF LocalInv, Fits, Hosted
  <2>2. QED
    BY <1>1, <2>1
<1>3. QED
  BY <1>1, <1>2 DEF LocalInv, Fits, Hosted, OneUp, Up

\* A runner that is down fits whatever happens to the records.
LEMMA DownFits ==
    ASSUME NEW q \in Runners, proc'[q].pc \in {"unborn", "down"}, ProcFits(proc'[q])
    PROVE  ProcOfJob(q)'
BY DEF ProcFits, ProcOfJob, OutPcs

\* A job nothing was done about.
LEMMA JobStays ==
    ASSUME NEW k \in Jobs, JobFits(k), record'[k] = record[k], spec'[k] = spec[k], exec'[k] = exec[k],
           lease[k] = NoLease /\ exec[k] = NoExec => lease'[k] = NoLease, told'[k] = told[k], k \in created' <=> k \in created,
           GivingUp(k) => GivingUp(k)',
           \A h \in Handlers : hnd[h].job = k /\ Active(h) => hnd'[h] = hnd[h]
    PROVE  JobFits(k)'
<1>1. \A pcs \in SUBSET (HandlerPcs \ {"idle"}) : Handled(k, pcs) => Handled(k, pcs)'
  BY DEF Handled, Active
<1>2. /\ Handled(k, {"delSpec", "delExec"}) => Handled(k, {"delSpec", "delExec"})'
      /\ Handled(k, {"load", "save", "delSpec", "delExec"}) => Handled(k, {"load", "save", "delSpec", "delExec"})'
      /\ Handled(k, {"delLease"}) => Handled(k, {"delLease"})'
  BY <1>1 DEF HandlerPcs
<1>3. QED
  BY <1>2 DEF JobFits

\* What a handler's step leaves true of the runners.
LEMMA ApiStep ==
    ASSUME LocalInv, NEW r \in Runners, proc[r].pc \in {"idle", "api"}, proc[r].stop = "no", NEW pc \in {"idle", "api"},
           proc' = [proc EXCEPT ![r] = [proc[r] EXCEPT !.pc = pc]], UNCHANGED task,
           \A k \in Jobs : exec[k].status = "running" => exec'[k].status = "running"
    PROVE  /\ OneUp' /\ Runs' /\ EngagedRuns' /\ \A k \in Jobs : ~GivingUp(k) /\ ~GivingUp(k)'
           /\ proc'[r].pc = pc
<1>1. proc \in [Runners -> ProcState]
  BY DEF LocalInv, Fits, TypeInv, ProcTypes
<1>2. /\ proc'[r].pc = pc /\ proc'[r].cur = proc[r].cur /\ proc'[r].out = proc[r].out /\ proc'[r].stop = "no"
      /\ \A q \in Runners : q # r => proc'[q] = proc[q]
  BY <1>1 DEF ProcState
<1>3. r \in Up /\ Up' = Up
  BY <1>2 DEF Up
<1>4. \A q \in Runners : q # r => proc[q].pc \in {"unborn", "down"} /\ ProcFits(proc[q])
  BY <1>3 DEF LocalInv, Fits, OneUp, Up, Runs
<1>5. \A q \in Runners : proc[q].pc \in {"idle", "api", "unborn", "down"} /\ proc[q].cur = None
  BY <1>4 DEF LocalInv, Fits, Runs, ProcFits
<1>6. OneUp'
  BY <1>2, <1>3 DEF LocalInv, Fits, OneUp
<1>7. ProcFits(proc'[r])
  BY <1>2 DEF LocalInv, Fits, Runs, ProcFits, LoopPcs, OutPcs
<1>8. ProcOfJob(r)'
  BY <1>2 DEF ProcOfJob, OutPcs
<1>9. Runs'
  <2>1. \A q \in Runners : q # r => ProcOfJob(q)'
    BY <1>2, <1>4, DownFits
  <2>2. QED
    BY <1>2, <1>4, <1>7, <1>8, <2>1 DEF Runs
<1>10. EngagedRuns'
  BY <1>5 DEF LocalInv, Fits, EngagedRuns, Engaged
<1>11. QED
  BY <1>2, <1>5, <1>6, <1>9, <1>10 DEF GivingUp

\* What a runner's step leaves true of the handlers and of the other runners.
LEMMA RunnerStep ==
    ASSUME LocalInv, NEW r \in Runners, \A q \in Up : q = r, proc[r].pc # "api", UNCHANGED hnd,
           \A q \in Runners : q # r => proc'[q] = proc[q] /\ task'[q] = task[q],
           proc'[r].pc \in {"unborn", "down"} => proc'[r].cur = None /\ \A j \in Jobs : task'[r][j] = "none",
           ProcFits(proc'[r]), ProcOfJob(r)', \A j \in Jobs : Engaged(r, j)' => exec'[j].status = "running"
    PROVE  OneUp' /\ Hosted' /\ Runs' /\ EngagedRuns' /\ (\A h \in Handlers : HandlerFits(h)')
<1>1. /\ \A h \in Handlers : hnd[h] = NoRequest
      /\ \A q \in Runners : q # r => proc[q].pc \in {"unborn", "down"}
      /\ \A q \in Runners, j \in Jobs : q # r => task[q][j] = "none"
  BY RunnerAlone
<1>2. Hosted' /\ (\A h \in Handlers : HandlerFits(h)')
  BY <1>1 DEF Hosted, HandlerFits, Active, NoRequest, HandlerPcs
<1>3. OneUp'
  BY <1>1 DEF LocalInv, Fits, OneUp, Up
<1>4. Runs'
  <2>1. ASSUME NEW q \in Runners, q # r PROVE ProcFits(proc'[q]) /\ ProcOfJob(q)'
    <3>1. ProcFits(proc'[q])
      BY <2>1 DEF LocalInv, Fits, Runs
    <3>2. QED
      BY <1>1, <2>1, <3>1, DownFits
  <2>2. QED
    BY <2>1 DEF Runs
<1>5. EngagedRuns'
  BY <1>1 DEF EngagedRuns, Engaged
<1>6. QED
  BY <1>2, <1>3, <1>4, <1>5

-----------------------------------------------------------------------------
(* The handlers' steps. *)

\* A handler begins a request, goes on with it or finishes it.
LEMMA Serves ==
    ASSUME LocalInv, LocalMode, NEW h \in Handlers, NEW host \in Runners \cup {None}, Serve(h, host),
           NEW j \in Jobs, NEW pc \in HandlerPcs \ {"idle"}, NEW seen, Continue(h, host, j, pc, seen), UNCHANGED task,
           \A k \in Jobs : exec[k].status = "running" => exec'[k].status = "running"
    PROVE  /\ OneUp' /\ Runs' /\ EngagedRuns' /\ Hosted' /\ \A k \in Jobs : ~GivingUp(k) /\ ~GivingUp(k)'
           /\ \A g \in Handlers : hnd[g] = NoRequest /\ (g # h => hnd'[g] = NoRequest)
           /\ hnd'[h].pc = pc /\ hnd'[h].job = j /\ hnd'[h].seen = seen
<1>1. host \in Runners /\ proc[host].pc = "idle" /\ proc[host].stop = "no"
  BY DEF LocalMode, Serve
<1>2. \A q \in Up : q = host
  BY <1>1 DEF LocalInv, Fits, OneUp, Up
<1>3. \A g \in Handlers : hnd[g] = NoRequest
  BY <1>1, <1>2, RunnerAlone
<1>4. proc' = [proc EXCEPT ![host] = [proc[host] EXCEPT !.pc = "api"]]
  BY DEF Continue, LocalInv, Fits, TypeInv, ProcTypes
<1>5. OneUp' /\ Runs' /\ EngagedRuns' /\ (\A k \in Jobs : ~GivingUp(k) /\ ~GivingUp(k)') /\ proc'[host].pc = "api"
  BY <1>1, <1>4, ApiStep
<1>6. /\ hnd'[h] = [pc |-> pc, job |-> j, host |-> host, seen |-> seen]
      /\ \A g \in Handlers : g # h => hnd'[g] = NoRequest
  BY <1>3 DEF Continue, LocalInv, Fits, TypeInv, ApiTypes
<1>7. hnd'[h].pc = pc /\ hnd'[h].job = j /\ hnd'[h].seen = seen /\ hnd'[h].host = host
  BY <1>6
<1>8. Hosted'
  BY <1>1, <1>5, <1>6, <1>7 DEF Hosted, Active, NoRequest
<1>9. QED
  BY <1>3, <1>5, <1>6, <1>7, <1>8

LEMMA GoesOn ==
    ASSUME LocalInv, NEW h \in Handlers, Active(h), NEW pc \in HandlerPcs \ {"idle"}, Step(h, pc), UNCHANGED task,
           \A k \in Jobs : exec[k].status = "running" => exec'[k].status = "running"
    PROVE  /\ OneUp' /\ Runs' /\ EngagedRuns' /\ Hosted' /\ \A k \in Jobs : ~GivingUp(k) /\ ~GivingUp(k)'
           /\ \A g \in Handlers : g # h => hnd[g] = NoRequest /\ hnd'[g] = NoRequest
           /\ hnd'[h].pc = pc /\ hnd'[h].job = hnd[h].job /\ hnd'[h].seen = hnd[h].seen
<1> DEFINE host == hnd[h].host
<1>1. /\ host \in Runners /\ proc[host].pc = "api" /\ proc[host].stop = "no"
      /\ \A g \in Handlers : g # h => hnd[g] = NoRequest
  BY HandlerAlone
<1>2. /\ hnd' = [hnd EXCEPT ![h] = [pc |-> pc, job |-> hnd[h].job, host |-> host, seen |-> hnd[h].seen]]
      /\ proc' = [r \in Runners |-> IF r = host THEN [proc[r] EXCEPT !.pc = "api"] ELSE proc[r]]
  BY DEF Step, Continue
<1> HIDE DEF host
<1>3. proc' = [proc EXCEPT ![host] = [proc[host] EXCEPT !.pc = "api"]]
  BY <1>1, <1>2 DEF LocalInv, Fits, TypeInv, ProcTypes
<1>4. OneUp' /\ Runs' /\ EngagedRuns' /\ (\A k \in Jobs : ~GivingUp(k) /\ ~GivingUp(k)') /\ proc'[host].pc = "api"
  BY <1>1, <1>3, ApiStep
<1>5. /\ hnd'[h] = [pc |-> pc, job |-> hnd[h].job, host |-> host, seen |-> hnd[h].seen]
      /\ \A g \in Handlers : g # h => hnd'[g] = NoRequest
  BY <1>1, <1>2 DEF LocalInv, Fits, TypeInv, ApiTypes
<1>6. hnd'[h].pc = pc /\ hnd'[h].job = hnd[h].job /\ hnd'[h].seen = hnd[h].seen /\ hnd'[h].host = host
  BY <1>5
<1>7. Hosted'
  BY <1>1, <1>4, <1>5, <1>6 DEF Hosted, Active, NoRequest
<1>8. QED
  BY <1>1, <1>4, <1>5, <1>6, <1>7

LEMMA Finishes ==
    ASSUME LocalInv, NEW h \in Handlers, Active(h), Finish(h), UNCHANGED task,
           \A k \in Jobs : exec[k].status = "running" => exec'[k].status = "running"
    PROVE  /\ OneUp' /\ Runs' /\ EngagedRuns' /\ Hosted' /\ \A k \in Jobs : ~GivingUp(k) /\ ~GivingUp(k)'
           /\ \A g \in Handlers : hnd'[g] = NoRequest /\ (g # h => hnd[g] = NoRequest)
           /\ \A g \in Handlers : HandlerFits(g)'
<1> DEFINE host == hnd[h].host
<1>1. /\ host \in Runners /\ proc[host].pc = "api" /\ proc[host].stop = "no"
      /\ \A g \in Handlers : g # h => hnd[g] = NoRequest
  BY HandlerAlone
<1>2. proc' = [r \in Runners |-> IF r = host THEN [proc[r] EXCEPT !.pc = "idle"] ELSE proc[r]]
  BY DEF Finish
<1> HIDE DEF host
<1>3. proc' = [proc EXCEPT ![host] = [proc[host] EXCEPT !.pc = "idle"]]
  BY <1>1, <1>2 DEF LocalInv, Fits, TypeInv, ProcTypes
<1>4. OneUp' /\ Runs' /\ EngagedRuns' /\ (\A k \in Jobs : ~GivingUp(k) /\ ~GivingUp(k)')
  BY <1>1, <1>3, ApiStep
<1>5. \A g \in Handlers : hnd'[g] = NoRequest
  BY <1>1 DEF Finish, LocalInv, Fits, TypeInv, ApiTypes
<1>6. Hosted' /\ \A g \in Handlers : HandlerFits(g)'
  BY <1>5 DEF Hosted, HandlerFits, Active, NoRequest, HandlerPcs
<1>7. QED
  BY <1>1, <1>4, <1>5, <1>6

\* A handler that is idle fits, and so does one of a job alone.
LEMMA IdleFits ==
    ASSUME NEW g \in Handlers, hnd'[g] = NoRequest PROVE HandlerFits(g)'
BY DEF HandlerFits, NoRequest, HandlerPcs

LEMMA NewRecords ==
    /\ NoExec.status = "none" /\ ~NoExec.cancel
    /\ QueuedExec.status = "queued" /\ ~QueuedExec.cancel /\ QueuedExec # NoExec
BY DEF NoExec, QueuedExec

\* A job that is not created yet has no execution record.
LEMMA Uncreated ==
    ASSUME LocalInv, NEW j \in Jobs, j \notin created
    PROVE  exec[j] = NoExec /\ exec[j].status = "none" /\ told[j] = "none"
BY NewRecords DEF LocalInv, Fits, JobFits

LEMMA CreateFits ==
    ASSUME LocalInv, LocalMode, NEW h \in Handlers, NEW host \in Runners \cup {None}, NEW j \in Jobs, Create(h, host, j)
    PROVE  Fits'
<1>1. /\ Serve(h, host) /\ Continue(h, host, j, "putSpec", "none")
      /\ UNCHANGED <<spec, exec, lease, task, created, told>>
      /\ j \notin created /\ record[j] = "none"
  BY DEF Create
<1>2. /\ OneUp' /\ Runs' /\ EngagedRuns' /\ Hosted' /\ \A k \in Jobs : ~GivingUp(k) /\ ~GivingUp(k)'
      /\ \A g \in Handlers : hnd[g] = NoRequest /\ (g # h => hnd'[g] = NoRequest)
      /\ hnd'[h].pc = "putSpec" /\ hnd'[h].job = j /\ hnd'[h].seen = "none"
  BY <1>1, Serves DEF HandlerPcs
<1>3. record'[j] = (IF j \in Stored THEN "queued" ELSE "none") /\ \A k \in Jobs : k # j => record'[k] = record[k]
  BY <1>1 DEF Create, LocalInv, TypeInv, StoreTypes
<1>4. \A k \in Jobs : k # j => JobFits(k)'
  BY <1>1, <1>2, <1>3, JobStays DEF LocalInv, Fits, Active, NoRequest
<1>5. JobFits(j)'
  BY <1>1, <1>3, Uncreated DEF JobFits
<1>6. \A g \in Handlers : HandlerFits(g)'
  <2>1. HandlerFits(h)'
    BY <1>1, <1>2, <1>3 DEF HandlerFits, HandlerPcs
  <2>2. QED
    BY <1>2, <2>1, IdleFits
<1>7. QED
  BY <1>2, <1>4, <1>5, <1>6 DEF Fits

\* A step of a request for job j changes the records of no other job.
LEMMA OthersStay ==
    ASSUME LocalInv, NEW h \in Handlers, Active(h), NEW k \in Jobs, k # hnd[h].job,
           \A g \in Handlers : g # h => hnd[g] = NoRequest, ~GivingUp(k),
           record'[k] = record[k], spec'[k] = spec[k], exec'[k] = exec[k],
           lease'[k] = lease[k], told'[k] = told[k], k \in created' <=> k \in created
    PROVE  JobFits(k)'
<1>1. \A g \in Handlers : hnd[g].job = k /\ Active(g) => hnd'[g] = hnd[g]
  BY DEF Active, NoRequest
<1>2. QED
  BY <1>1, JobStays DEF LocalInv, Fits

LEMMA PutSpecFits ==
    ASSUME LocalInv, NEW h \in Handlers, PutSpec(h) PROVE Fits'
<1>1. PICK j \in Jobs : j = hnd[h].job
  BY HandlerAlone DEF PutSpec, PutExec, Active
<1>2. /\ Active(h) /\ Step(h, "putExec") /\ UNCHANGED <<record, exec, lease, task, created, told>>
      /\ spec' = [spec EXCEPT ![j] = TRUE] /\ hnd[h].pc = "putSpec"
  BY <1>1 DEF PutSpec, Active
<1>3. /\ OneUp' /\ Runs' /\ EngagedRuns' /\ Hosted' /\ \A k \in Jobs : ~GivingUp(k) /\ ~GivingUp(k)'
      /\ \A g \in Handlers : g # h => hnd[g] = NoRequest /\ hnd'[g] = NoRequest
      /\ hnd'[h].pc = "putExec" /\ hnd'[h].job = j /\ hnd'[h].seen = hnd[h].seen
  BY <1>1, <1>2, GoesOn DEF HandlerPcs
<1>4. spec'[j] /\ \A k \in Jobs : k # j => spec'[k] = spec[k]
  BY <1>2 DEF LocalInv, TypeInv, StoreTypes
<1>5. \A k \in Jobs : k # j => JobFits(k)'
  BY <1>2, <1>3, <1>4, OthersStay, <1>1
<1>6. j \notin created /\ record[j] = IF j \in Stored THEN "queued" ELSE "none"
  BY <1>1, <1>2 DEF LocalInv, Fits, HandlerFits
<1>7. JobFits(j)'
  BY <1>2, <1>4, <1>6, Uncreated DEF JobFits
<1>8. \A g \in Handlers : HandlerFits(g)'
  <2>1. HandlerFits(h)'
    BY <1>2, <1>3, <1>4, <1>6 DEF HandlerFits, HandlerPcs
  <2>2. QED
    BY <1>3, <2>1, IdleFits
<1>9. QED
  BY <1>3, <1>4, <1>5, <1>7, <1>8 DEF Fits

LEMMA PutExecFits ==
    ASSUME LocalInv, NEW h \in Handlers, PutExec(h) PROVE Fits'
<1>1. PICK j \in Jobs : j = hnd[h].job
  BY HandlerAlone DEF PutSpec, PutExec, Active
<1>2. /\ Active(h) /\ Finish(h) /\ UNCHANGED <<record, spec, lease, task, told>>
      /\ exec' = [exec EXCEPT ![j] = QueuedExec] /\ created' = created \cup {j} /\ hnd[h].pc = "putExec"
  BY <1>1 DEF PutExec, Active
<1>3. exec'[j] = QueuedExec /\ \A k \in Jobs : k # j => exec'[k] = exec[k]
  BY <1>2 DEF LocalInv, TypeInv, StoreTypes
<1>4. j \notin created /\ spec[j] /\ record[j] = IF j \in Stored THEN "queued" ELSE "none"
  BY <1>1, <1>2 DEF LocalInv, Fits, HandlerFits
<1>5. exec[j] = NoExec /\ exec[j].status = "none" /\ told[j] = "none"
  BY <1>3, <1>4, Uncreated
<1>6. /\ OneUp' /\ Runs' /\ EngagedRuns' /\ Hosted' /\ \A k \in Jobs : ~GivingUp(k) /\ ~GivingUp(k)'
      /\ \A g \in Handlers : hnd'[g] = NoRequest /\ (g # h => hnd[g] = NoRequest)
      /\ \A g \in Handlers : HandlerFits(g)'
  BY <1>1, <1>2, <1>3, <1>5, Finishes
<1>7. \A k \in Jobs : k # j => JobFits(k)'
  BY <1>2, <1>3, <1>6, OthersStay, <1>1
<1>8. JobFits(j)'
  <2>1. /\ exec'[j].status = "queued" /\ ~exec'[j].cancel /\ exec'[j] # NoExec
        /\ j \in created' /\ spec'[j] /\ told'[j] = "none" /\ record'[j] = IF j \in Stored THEN "queued" ELSE "none"
    BY <1>2, <1>3, <1>4, <1>5, NewRecords
  <2>2. QED
    BY <2>1 DEF JobFits
<1>9. QED
  BY <1>3, <1>6, <1>7, <1>8 DEF Fits

LEMMA CancelFits ==
    ASSUME LocalInv, LocalMode, NEW h \in Handlers, NEW host \in Runners \cup {None}, NEW j \in Jobs, Cancel(h, host, j)
    PROVE  Fits'
<1> DEFINE seen == IF exec[j].status \in Terminal THEN "terminal" ELSE exec'[j].status
<1>1. /\ Serve(h, host) /\ Continue(h, host, j, "load", seen)
      /\ UNCHANGED <<record, spec, lease, task, created, told>>
      /\ j \in created /\ exec' = [exec EXCEPT ![j] = RequestCancel(exec[j])]
  BY DEF Cancel
<1>2. exec'[j] = RequestCancel(exec[j]) /\ \A k \in Jobs : k # j => exec'[k] = exec[k]
  BY <1>1 DEF LocalInv, TypeInv, StoreTypes
<1>3. exec[j] \in Execution
  BY DEF LocalInv, TypeInv, StoreTypes
<1>4. /\ exec[j].status \in Terminal \cup {"none"} => exec'[j] = exec[j]
      /\ exec[j].status = "running" => exec'[j].status = "running"
      /\ exec[j].status = "queued" => exec'[j].status = "cancelled"
      /\ exec[j].status \in Terminal \cup {"none", "queued", "running"}
  BY <1>2, <1>3 DEF RequestCancel, Execution, ExecStatus, Terminal
<1>5. /\ OneUp' /\ Runs' /\ EngagedRuns' /\ Hosted' /\ \A k \in Jobs : ~GivingUp(k) /\ ~GivingUp(k)'
      /\ \A g \in Handlers : hnd[g] = NoRequest /\ (g # h => hnd'[g] = NoRequest)
      /\ hnd'[h].pc = "load" /\ hnd'[h].job = j /\ hnd'[h].seen = seen
  BY <1>1, <1>2, <1>4, Serves DEF HandlerPcs
<1>6. \A k \in Jobs : k # j => JobFits(k)'
  BY <1>1, <1>2, <1>5, JobStays DEF LocalInv, Fits, Active, NoRequest
<1>7. JobFits(j)
  BY DEF LocalInv, Fits
<1>8. ~Handled(j, {"delSpec", "delExec"}) /\ ~Handled(j, {"load", "save", "delSpec", "delExec"}) /\ ~Handled(j, {"delLease"})
  BY <1>5 DEF Handled, NoRequest
<1>9. Handled(j, {"load", "save", "delSpec", "delExec"})'
  BY <1>5 DEF Handled
<1>10. JobFits(j)'
  BY <1>1, <1>4, <1>5, <1>7, <1>8, <1>9 DEF JobFits, NoExec, Terminal
<1>11. \A g \in Handlers : HandlerFits(g)'
  <2>1. /\ seen = "terminal" => exec'[j].status \in Terminal
        /\ seen = "none" => exec'[j] = NoExec
        /\ seen \notin {"terminal", "none"} => seen = exec'[j].status /\ seen \in {"running", "cancelled"}
        /\ seen = "terminal" /\ exec'[j].status = "cancelled" /\ j \in Stored => record[j] = "cancelled"
        /\ seen = "cancelled" /\ j \in Stored => record[j] # "none"
    BY <1>4, <1>7, <1>8 DEF JobFits, Terminal
  <2> HIDE DEF seen
  <2>2. HandlerFits(h)'
    BY <1>1, <1>5, <2>1 DEF HandlerFits, HandlerPcs
  <2>3. QED
    BY <1>5, <2>2, IdleFits
<1>12. QED
  BY <1>5, <1>6, <1>10, <1>11 DEF Fits

\* The handler at work says which job is handled, and how far.
LEMMA HandledNow ==
    ASSUME NEW h \in Handlers, \A g \in Handlers : g # h => hnd[g] = NoRequest,
           NEW j, j = hnd[h].job, NEW pcs \in SUBSET (HandlerPcs \ {"idle"})
    PROVE  Handled(j, pcs) <=> hnd[h].pc \in pcs
BY DEF Handled, NoRequest

LEMMA HandledNext ==
    ASSUME NEW h \in Handlers, \A g \in Handlers : g # h => hnd'[g] = NoRequest,
           NEW j, hnd'[h].pc # "idle" => j = hnd'[h].job, NEW pcs \in SUBSET (HandlerPcs \ {"idle"})
    PROVE  Handled(j, pcs)' <=> hnd'[h].pc \in pcs
BY DEF Handled, NoRequest

LEMMA LoadFits ==
    ASSUME LocalInv, NEW h \in Handlers, LoadResponse(h) PROVE Fits'
<1>1. PICK j \in Jobs : j = hnd[h].job
  BY HandlerAlone DEF LoadResponse, Active
<1>2. Active(h) /\ hnd[h].pc = "load" /\ UNCHANGED <<record, spec, exec, lease, task, created, told>>
  BY DEF LoadResponse, Active
<1>3. JobFits(j) /\ HandlerFits(h)
  BY DEF LocalInv, Fits
<1>4. \A g \in Handlers : g # h => hnd[g] = NoRequest
  BY <1>2, HandlerAlone
<1>5. ~Handled(j, {"delSpec", "delExec"}) /\ ~Handled(j, {"delLease"})
  BY <1>1, <1>2, <1>4, HandledNow DEF HandlerPcs
<1>6. exec[j] \in Execution
  BY DEF LocalInv, TypeInv, StoreTypes
<1> DEFINE seen == hnd[h].seen
           refused == \/ seen = "terminal"
                      \/ seen = "none" /\ record[j] \notin {"queued", "in_progress"}
<1>7. j \in created
  BY <1>1, <1>2, <1>3 DEF HandlerFits, HandlerPcs
<1>8. \/ seen = "terminal" /\ exec[j].status \in Terminal
      \/ seen = "none" /\ exec[j] = NoExec
      \/ seen = exec[j].status /\ seen \in {"running", "cancelled"}
  BY <1>1, <1>2, <1>3 DEF HandlerFits
<1>9. refused \/ (seen = exec[j].status /\ seen \in {"running", "cancelled"})
  <2>1. CASE seen = "none" /\ exec[j] = NoExec
    <3>1. record[j] = "none"
      BY <1>3, <1>7, <2>1 DEF JobFits
    <3>2. QED
      BY <2>1, <3>1
  <2>2. QED
    BY <1>8, <2>1
<1>10. CASE Finish(h)
  <2>1. /\ OneUp' /\ Runs' /\ EngagedRuns' /\ Hosted' /\ \A k \in Jobs : ~GivingUp(k) /\ ~GivingUp(k)'
        /\ \A g \in Handlers : hnd'[g] = NoRequest /\ (g # h => hnd[g] = NoRequest)
        /\ \A g \in Handlers : HandlerFits(g)'
    BY <1>2, <1>10, Finishes
  <2>2. \A k \in Jobs : k # j => JobFits(k)'
    BY <1>1, <1>2, <2>1, OthersStay
  <2>3. refused
    <3>1. hnd'[h].pc = "idle"
      BY <2>1 DEF NoRequest
    <3>2. Step(h, "save") \/ Step(h, "answer") => hnd'[h].pc # "idle"
      BY <1>2, GoesOn DEF HandlerPcs
    <3>3. QED
      BY <1>1, <3>1, <3>2 DEF LoadResponse
  <2>4. exec[j].status = "cancelled" /\ j \in Stored => record[j] = "cancelled"
    BY <1>1, <1>2, <1>3, <1>8, <2>3, NewRecords DEF HandlerFits
  <2>5. JobFits(j)'
    BY <1>2, <1>3, <1>5, <2>1, <2>4 DEF JobFits
  <2>6. QED
    BY <2>1, <2>2, <2>5 DEF Fits
<1>11. ASSUME NEW pc \in {"save", "answer"}, Step(h, pc), ~refused, pc = "save" => record[j] # "none",
              pc = "answer" => record[j] = "none"
       PROVE  Fits'
  <2>1. /\ OneUp' /\ Runs' /\ EngagedRuns' /\ Hosted' /\ \A k \in Jobs : ~GivingUp(k) /\ ~GivingUp(k)'
        /\ \A g \in Handlers : g # h => hnd[g] = NoRequest /\ hnd'[g] = NoRequest
        /\ hnd'[h].pc = pc /\ hnd'[h].job = hnd[h].job /\ hnd'[h].seen = hnd[h].seen
    BY <1>2, <1>11, GoesOn DEF HandlerPcs
  <2>2. \A k \in Jobs : k # j => JobFits(k)'
    BY <1>1, <1>2, <2>1, OthersStay
  <2>3. seen = exec[j].status /\ seen \in {"running", "cancelled"}
    BY <1>9, <1>11
  <2>4. pc = "answer" => j \notin Stored
    <3>1. seen = "cancelled" /\ j \in Stored => record[j] # "none"
      BY <1>1, <1>2, <1>3 DEF HandlerFits
    <3>2. seen = "running" /\ j \in Stored => record[j] # "none"
      BY <1>3, <2>3 DEF JobFits
    <3>3. QED
      BY <1>11, <2>3, <3>1, <3>2
  <2>5. Handled(j, {"load", "save", "delSpec", "delExec"})' <=> pc = "save"
    BY <1>1, <2>1, HandledNext DEF HandlerPcs
  <2>6. JobFits(j)'
    BY <1>2, <1>3, <1>5, <2>1, <2>4, <2>5 DEF JobFits
  <2>7. HandlerFits(h)'
    BY <1>1, <1>2, <1>3, <1>7, <1>11, <2>1, <2>3, <2>4 DEF HandlerFits, HandlerPcs
  <2>8. QED
    BY <2>1, <2>2, <2>6, <2>7, IdleFits DEF Fits
<1>12. QED
  BY <1>1, <1>10, <1>11 DEF LoadResponse

LEMMA Amid ==
    ASSUME LocalInv, NEW h \in Handlers, Active(h)
    PROVE  \E j \in Jobs : /\ j = hnd[h].job /\ JobFits(j) /\ HandlerFits(h) /\ exec[j] \in Execution
                           /\ \A g \in Handlers : g # h => hnd[g] = NoRequest
                           /\ \A pcs \in SUBSET (HandlerPcs \ {"idle"}) : Handled(j, pcs) <=> hnd[h].pc \in pcs
<1>1. PICK j \in Jobs : j = hnd[h].job
  BY HandlerAlone
<1>2. \A g \in Handlers : g # h => hnd[g] = NoRequest
  BY HandlerAlone
<1>3. \A pcs \in SUBSET (HandlerPcs \ {"idle"}) : Handled(j, pcs) <=> hnd[h].pc \in pcs
  BY <1>1, <1>2, HandledNow
<1>4. JobFits(j) /\ HandlerFits(h) /\ exec[j] \in Execution
  BY DEF LocalInv, Fits, TypeInv, StoreTypes
<1>5. QED
  BY <1>1, <1>2, <1>3, <1>4

LEMMA SaveResponseFits ==
    ASSUME LocalInv, NEW h \in Handlers, SaveResponse(h) PROVE Fits'
<1>1. /\ Active(h) /\ hnd[h].pc = "save" /\ UNCHANGED <<spec, exec, lease, task, created, told>>
  BY DEF SaveResponse, Active
<1>2. PICK j \in Jobs : /\ j = hnd[h].job /\ JobFits(j) /\ HandlerFits(h) /\ exec[j] \in Execution
                        /\ \A g \in Handlers : g # h => hnd[g] = NoRequest
                        /\ \A pcs \in SUBSET (HandlerPcs \ {"idle"}) : Handled(j, pcs) <=> hnd[h].pc \in pcs
  BY <1>1, Amid
<1> DEFINE seen == hnd[h].seen
<1>3. PICK to \in {"cancelling", "cancelled"}, pc \in {"answer", "dropSpec"} :
        /\ record' = [record EXCEPT ![j] = to] /\ Step(h, pc)
        /\ IF seen = "running" THEN to = "cancelling" /\ pc = "answer" ELSE to = "cancelled" /\ pc = "dropSpec"
  BY <1>2 DEF SaveResponse
<1>4. record'[j] = to /\ \A k \in Jobs : k # j => record'[k] = record[k]
  BY <1>3 DEF LocalInv, TypeInv, StoreTypes
<1>5. /\ OneUp' /\ Runs' /\ EngagedRuns' /\ Hosted' /\ \A k \in Jobs : ~GivingUp(k) /\ ~GivingUp(k)'
      /\ \A g \in Handlers : g # h => hnd[g] = NoRequest /\ hnd'[g] = NoRequest
      /\ hnd'[h].pc = pc /\ hnd'[h].job = hnd[h].job /\ hnd'[h].seen = hnd[h].seen
  BY <1>1, <1>3, GoesOn DEF HandlerPcs
<1>6. \A k \in Jobs : k # j => JobFits(k)'
  BY <1>1, <1>2, <1>4, <1>5, OthersStay
<1>7. seen = exec[j].status /\ seen \in {"running", "cancelled"} /\ record[j] # "none" /\ j \in created
  BY <1>1, <1>2 DEF HandlerFits, HandlerPcs
<1>8. j \in Stored
  BY <1>2, <1>7 DEF JobFits
<1>9. ~Handled(j, {"delLease"}) /\ ~Handled(j, {"delSpec", "delExec"})
  BY <1>1, <1>2 DEF HandlerPcs
<1>10. JobFits(j)'
  BY <1>1, <1>2, <1>3, <1>4, <1>5, <1>7, <1>8, <1>9 DEF JobFits
<1>11. HandlerFits(h)'
  BY <1>1, <1>2, <1>3, <1>4, <1>5, <1>7, <1>8 DEF HandlerFits, HandlerPcs
<1>12. QED
  BY <1>5, <1>6, <1>10, <1>11, IdleFits DEF Fits

LEMMA DropSpecFits ==
    ASSUME LocalInv, NEW h \in Handlers, DropSpec(h) PROVE Fits'
<1>1. /\ Active(h) /\ hnd[h].pc = "dropSpec" /\ UNCHANGED <<record, exec, lease, task, created, told>> /\ Step(h, "answer")
  BY DEF DropSpec, Active
<1>2. PICK j \in Jobs : /\ j = hnd[h].job /\ JobFits(j) /\ HandlerFits(h) /\ exec[j] \in Execution
                        /\ \A g \in Handlers : g # h => hnd[g] = NoRequest
                        /\ \A pcs \in SUBSET (HandlerPcs \ {"idle"}) : Handled(j, pcs) <=> hnd[h].pc \in pcs
  BY <1>1, Amid
<1>3. spec'[j] = FALSE /\ \A k \in Jobs : k # j => spec'[k] = spec[k]
  BY <1>2 DEF DropSpec, LocalInv, TypeInv, StoreTypes
<1>4. /\ OneUp' /\ Runs' /\ EngagedRuns' /\ Hosted' /\ \A k \in Jobs : ~GivingUp(k) /\ ~GivingUp(k)'
      /\ \A g \in Handlers : g # h => hnd[g] = NoRequest /\ hnd'[g] = NoRequest
      /\ hnd'[h].pc = "answer" /\ hnd'[h].job = hnd[h].job /\ hnd'[h].seen = hnd[h].seen
  BY <1>1, GoesOn DEF HandlerPcs
<1>5. \A k \in Jobs : k # j => JobFits(k)'
  BY <1>1, <1>2, <1>3, <1>4, OthersStay
<1>6. exec[j].status = "cancelled" /\ hnd[h].seen = "cancelled" /\ record[j] = IF j \in Stored THEN "cancelled" ELSE "none"
  BY <1>1, <1>2 DEF HandlerFits
<1>7. JobFits(j)'
  BY <1>1, <1>2, <1>3, <1>6, NewRecords DEF JobFits
<1>8. HandlerFits(h)'
  BY <1>1, <1>2, <1>4, <1>6 DEF HandlerFits, HandlerPcs
<1>9. QED
  BY <1>4, <1>5, <1>7, <1>8, IdleFits DEF Fits

LEMMA AnswerFits ==
    ASSUME LocalInv, NEW h \in Handlers, Answer(h) PROVE Fits'
<1>1. /\ Active(h) /\ hnd[h].pc = "answer" /\ UNCHANGED <<record, spec, exec, lease, task, created>> /\ Finish(h)
  BY DEF Answer, Active
<1>2. PICK j \in Jobs : /\ j = hnd[h].job /\ JobFits(j) /\ HandlerFits(h) /\ exec[j] \in Execution
                        /\ \A g \in Handlers : g # h => hnd[g] = NoRequest
                        /\ \A pcs \in SUBSET (HandlerPcs \ {"idle"}) : Handled(j, pcs) <=> hnd[h].pc \in pcs
  BY <1>1, Amid
<1>3. /\ told'[j] = (IF hnd[h].seen = "running" THEN "cancelling" ELSE "cancelled")
      /\ \A k \in Jobs : k # j => told'[k] = told[k]
  BY <1>2 DEF Answer, LocalInv, TypeInv, RestTypes
<1>4. /\ OneUp' /\ Runs' /\ EngagedRuns' /\ Hosted' /\ \A k \in Jobs : ~GivingUp(k) /\ ~GivingUp(k)'
      /\ \A g \in Handlers : hnd'[g] = NoRequest /\ (g # h => hnd[g] = NoRequest)
      /\ \A g \in Handlers : HandlerFits(g)'
  BY <1>1, Finishes
<1>5. \A k \in Jobs : k # j => JobFits(k)'
  BY <1>1, <1>2, <1>3, <1>4, OthersStay
<1>6. /\ hnd[h].seen = exec[j].status /\ hnd[h].seen \in {"running", "cancelled"} /\ j \in created
      /\ hnd[h].seen = "cancelled" => record[j] = IF j \in Stored THEN "cancelled" ELSE "none"
  BY <1>1, <1>2 DEF HandlerFits, HandlerPcs
<1>7. ~Handled(j, {"delSpec", "delExec"}) /\ ~Handled(j, {"load", "save", "delSpec", "delExec"})
  BY <1>1, <1>2 DEF HandlerPcs
<1>8. JobFits(j)'
  BY <1>1, <1>2, <1>3, <1>4, <1>6, <1>7, NewRecords DEF JobFits
<1>9. QED
  BY <1>4, <1>5, <1>8 DEF Fits

LEMMA DeleteFits ==
    ASSUME LocalInv, LocalMode, NEW h \in Handlers, NEW host \in Runners \cup {None}, NEW j \in Jobs, Delete(h, host, j)
    PROVE  Fits'
<1>1. /\ Serve(h, host) /\ Continue(h, host, j, "delCheck", "none")
      /\ UNCHANGED <<record, spec, exec, lease, task, created, told>> /\ j \in created
  BY DEF Delete
<1>2. /\ OneUp' /\ Runs' /\ EngagedRuns' /\ Hosted' /\ \A k \in Jobs : ~GivingUp(k) /\ ~GivingUp(k)'
      /\ \A g \in Handlers : hnd[g] = NoRequest /\ (g # h => hnd'[g] = NoRequest)
      /\ hnd'[h].pc = "delCheck" /\ hnd'[h].job = j /\ hnd'[h].seen = "none"
  BY <1>1, Serves DEF HandlerPcs
<1>3. \A k \in Jobs : JobFits(k)'
  BY <1>1, <1>2, JobStays DEF LocalInv, Fits, Active, NoRequest
<1>4. exec[j].status # "none"
  BY <1>1 DEF Delete, LocalInv, Fits, JobFits
<1>5. HandlerFits(h)'
  BY <1>1, <1>2, <1>4 DEF HandlerFits, HandlerPcs
<1>6. QED
  BY <1>2, <1>3, <1>5, IdleFits DEF Fits

LEMMA DeleteCheckFits ==
    ASSUME LocalInv, NEW h \in Handlers, DeleteCheck(h) PROVE Fits'
<1>1. Active(h) /\ hnd[h].pc = "delCheck" /\ UNCHANGED <<record, spec, exec, lease, task, created, told>>
  BY DEF DeleteCheck, Active
<1>2. PICK j \in Jobs : /\ j = hnd[h].job /\ JobFits(j) /\ HandlerFits(h) /\ exec[j] \in Execution
                        /\ \A g \in Handlers : g # h => hnd[g] = NoRequest
                        /\ \A pcs \in SUBSET (HandlerPcs \ {"idle"}) : Handled(j, pcs) <=> hnd[h].pc \in pcs
  BY <1>1, Amid
<1>3. ~Handled(j, {"delSpec", "delExec"}) /\ ~Handled(j, {"load", "save", "delSpec", "delExec"}) /\ ~Handled(j, {"delLease"})
  BY <1>1, <1>2 DEF HandlerPcs
<1>4. CASE Finish(h)
  <2>1. /\ OneUp' /\ Runs' /\ EngagedRuns' /\ Hosted' /\ \A k \in Jobs : ~GivingUp(k) /\ ~GivingUp(k)'
        /\ \A g \in Handlers : hnd'[g] = NoRequest /\ (g # h => hnd[g] = NoRequest)
        /\ \A g \in Handlers : HandlerFits(g)'
    BY <1>1, <1>4, Finishes
  <2>2. \A k \in Jobs : k # j => JobFits(k)'
    BY <1>1, <1>2, <2>1, OthersStay
  <2>3. JobFits(j)'
    BY <1>1, <1>2, <1>3, <2>1 DEF JobFits
  <2>4. QED
    BY <2>1, <2>2, <2>3 DEF Fits
<1>5. CASE Step(h, "delRecord") /\ exec[j].status \notin {"queued", "running"}
  <2>1. /\ OneUp' /\ Runs' /\ EngagedRuns' /\ Hosted' /\ \A k \in Jobs : ~GivingUp(k) /\ ~GivingUp(k)'
        /\ \A g \in Handlers : g # h => hnd[g] = NoRequest /\ hnd'[g] = NoRequest
        /\ hnd'[h].pc = "delRecord" /\ hnd'[h].job = hnd[h].job /\ hnd'[h].seen = hnd[h].seen
    BY <1>1, <1>5, GoesOn DEF HandlerPcs
  <2>2. \A k \in Jobs : k # j => JobFits(k)'
    BY <1>1, <1>2, <2>1, OthersStay
  <2>3. JobFits(j)'
    BY <1>1, <1>2, <1>3, <2>1 DEF JobFits
  <2>4. exec[j].status \in Terminal /\ j \in created
    BY <1>1, <1>2, <1>5 DEF HandlerFits, HandlerPcs, Execution, ExecStatus
  <2>5. HandlerFits(h)'
    BY <1>1, <1>2, <2>1, <2>4 DEF HandlerFits, HandlerPcs
  <2>6. QED
    BY <2>1, <2>2, <2>3, <2>5, IdleFits DEF Fits
<1>6. QED
  BY <1>2, <1>4, <1>5 DEF DeleteCheck

LEMMA DeleteRecordFits ==
    ASSUME LocalInv, NEW h \in Handlers, DeleteRecord(h) PROVE Fits'
<1>1. /\ Active(h) /\ hnd[h].pc = "delRecord" /\ UNCHANGED <<spec, exec, lease, task, created, told>> /\ Step(h, "delSpec")
  BY DEF DeleteRecord, Active
<1>2. PICK j \in Jobs : /\ j = hnd[h].job /\ JobFits(j) /\ HandlerFits(h) /\ exec[j] \in Execution
                        /\ \A g \in Handlers : g # h => hnd[g] = NoRequest
                        /\ \A pcs \in SUBSET (HandlerPcs \ {"idle"}) : Handled(j, pcs) <=> hnd[h].pc \in pcs
  BY <1>1, Amid
<1>3. record'[j] = "none" /\ \A k \in Jobs : k # j => record'[k] = record[k]
  BY <1>2 DEF DeleteRecord, LocalInv, TypeInv, StoreTypes
<1>4. /\ OneUp' /\ Runs' /\ EngagedRuns' /\ Hosted' /\ \A k \in Jobs : ~GivingUp(k) /\ ~GivingUp(k)'
      /\ \A g \in Handlers : g # h => hnd[g] = NoRequest /\ hnd'[g] = NoRequest
      /\ hnd'[h].pc = "delSpec" /\ hnd'[h].job = hnd[h].job /\ hnd'[h].seen = hnd[h].seen
  BY <1>1, GoesOn DEF HandlerPcs
<1>5. \A k \in Jobs : k # j => JobFits(k)'
  BY <1>1, <1>2, <1>3, <1>4, OthersStay
<1>6. exec[j].status \in Terminal /\ j \in created
  BY <1>1, <1>2 DEF HandlerFits, HandlerPcs
<1>7. Handled(j, {"delSpec", "delExec"})' /\ Handled(j, {"load", "save", "delSpec", "delExec"})'
  BY <1>2, <1>4, HandledNext DEF HandlerPcs
<1>8. JobFits(j)'
  BY <1>1, <1>2, <1>3, <1>6, <1>7, NewRecords DEF JobFits, Terminal
<1>9. HandlerFits(h)'
  BY <1>1, <1>2, <1>3, <1>4, <1>6 DEF HandlerFits, HandlerPcs
<1>10. QED
  BY <1>4, <1>5, <1>8, <1>9, IdleFits DEF Fits

LEMMA DeleteSpecFits ==
    ASSUME LocalInv, NEW h \in Handlers, DeleteSpec(h) PROVE Fits'
<1>1. /\ Active(h) /\ hnd[h].pc = "delSpec" /\ UNCHANGED <<record, exec, lease, task, created, told>> /\ Step(h, "delExec")
  BY DEF DeleteSpec, Active
<1>2. PICK j \in Jobs : /\ j = hnd[h].job /\ JobFits(j) /\ HandlerFits(h) /\ exec[j] \in Execution
                        /\ \A g \in Handlers : g # h => hnd[g] = NoRequest
                        /\ \A pcs \in SUBSET (HandlerPcs \ {"idle"}) : Handled(j, pcs) <=> hnd[h].pc \in pcs
  BY <1>1, Amid
<1>3. spec'[j] = FALSE /\ \A k \in Jobs : k # j => spec'[k] = spec[k]
  BY <1>2 DEF DeleteSpec, LocalInv, TypeInv, StoreTypes
<1>4. /\ OneUp' /\ Runs' /\ EngagedRuns' /\ Hosted' /\ \A k \in Jobs : ~GivingUp(k) /\ ~GivingUp(k)'
      /\ \A g \in Handlers : g # h => hnd[g] = NoRequest /\ hnd'[g] = NoRequest
      /\ hnd'[h].pc = "delExec" /\ hnd'[h].job = hnd[h].job /\ hnd'[h].seen = hnd[h].seen
  BY <1>1, GoesOn DEF HandlerPcs
<1>5. \A k \in Jobs : k # j => JobFits(k)'
  BY <1>1, <1>2, <1>3, <1>4, OthersStay
<1>6. exec[j].status \in Terminal /\ j \in created /\ record[j] = "none"
  BY <1>1, <1>2 DEF HandlerFits, HandlerPcs
<1>7. Handled(j, {"delSpec", "delExec"})' /\ Handled(j, {"load", "save", "delSpec", "delExec"})'
  BY <1>2, <1>4, HandledNext DEF HandlerPcs
<1>8. JobFits(j)'
  BY <1>1, <1>2, <1>3, <1>6, <1>7, NewRecords DEF JobFits, Terminal
<1>9. HandlerFits(h)'
  BY <1>1, <1>2, <1>3, <1>4, <1>6 DEF HandlerFits, HandlerPcs
<1>10. QED
  BY <1>4, <1>5, <1>8, <1>9, IdleFits DEF Fits

LEMMA DeleteExecFits ==
    ASSUME LocalInv, NEW h \in Handlers, DeleteExec(h) PROVE Fits'
<1>1. /\ Active(h) /\ hnd[h].pc = "delExec" /\ UNCHANGED <<record, spec, lease, task, created, told>> /\ Step(h, "delLease")
  BY DEF DeleteExec, Active
<1>2. PICK j \in Jobs : /\ j = hnd[h].job /\ JobFits(j) /\ HandlerFits(h) /\ exec[j] \in Execution
                        /\ \A g \in Handlers : g # h => hnd[g] = NoRequest
                        /\ \A pcs \in SUBSET (HandlerPcs \ {"idle"}) : Handled(j, pcs) <=> hnd[h].pc \in pcs
  BY <1>1, Amid
<1>3. exec'[j] = NoExec /\ \A k \in Jobs : k # j => exec'[k] = exec[k]
  BY <1>2 DEF DeleteExec, LocalInv, TypeInv, StoreTypes
<1>4. exec[j].status \in Terminal /\ j \in created /\ record[j] = "none" /\ ~spec[j]
  BY <1>1, <1>2 DEF HandlerFits, HandlerPcs
<1>5. \A k \in Jobs : exec[k].status = "running" => exec'[k].status = "running"
  BY <1>3, <1>4 DEF Terminal
<1>6. /\ OneUp' /\ Runs' /\ EngagedRuns' /\ Hosted' /\ \A k \in Jobs : ~GivingUp(k) /\ ~GivingUp(k)'
      /\ \A g \in Handlers : g # h => hnd[g] = NoRequest /\ hnd'[g] = NoRequest
      /\ hnd'[h].pc = "delLease" /\ hnd'[h].job = hnd[h].job /\ hnd'[h].seen = hnd[h].seen
  BY <1>1, <1>5, GoesOn DEF HandlerPcs
<1>7. \A k \in Jobs : k # j => JobFits(k)'
  BY <1>1, <1>2, <1>3, <1>6, OthersStay
<1>8. Handled(j, {"delLease"})'
  BY <1>2, <1>6, HandledNext DEF HandlerPcs
<1>9. JobFits(j)'
  BY <1>1, <1>3, <1>4, <1>8, NewRecords DEF JobFits
<1>10. HandlerFits(h)'
  BY <1>1, <1>2, <1>3, <1>4, <1>6 DEF HandlerFits, HandlerPcs
<1>11. QED
  BY <1>6, <1>7, <1>9, <1>10, IdleFits DEF Fits

LEMMA DeleteLeaseFits ==
    ASSUME LocalInv, NEW h \in Handlers, DeleteLease(h) PROVE Fits'
<1>1. /\ Active(h) /\ hnd[h].pc = "delLease" /\ UNCHANGED <<record, spec, exec, task, created, told>> /\ Finish(h)
  BY DEF DeleteLease, Active
<1>2. PICK j \in Jobs : /\ j = hnd[h].job /\ JobFits(j) /\ HandlerFits(h) /\ exec[j] \in Execution
                        /\ \A g \in Handlers : g # h => hnd[g] = NoRequest
                        /\ \A pcs \in SUBSET (HandlerPcs \ {"idle"}) : Handled(j, pcs) <=> hnd[h].pc \in pcs
  BY <1>1, Amid
<1>3. lease'[j] = NoLease /\ \A k \in Jobs : k # j => lease'[k] = lease[k]
  BY <1>2 DEF DeleteLease, LocalInv, TypeInv, StoreTypes
<1>4. /\ OneUp' /\ Runs' /\ EngagedRuns' /\ Hosted' /\ \A k \in Jobs : ~GivingUp(k) /\ ~GivingUp(k)'
      /\ \A g \in Handlers : hnd'[g] = NoRequest /\ (g # h => hnd[g] = NoRequest)
      /\ \A g \in Handlers : HandlerFits(g)'
  BY <1>1, Finishes
<1>5. \A k \in Jobs : k # j => JobFits(k)'
  BY <1>1, <1>2, <1>3, <1>4, OthersStay
<1>6. exec[j] = NoExec /\ record[j] = "none" /\ ~spec[j] /\ j \in created
  BY <1>1, <1>2 DEF HandlerFits, HandlerPcs
<1>7. JobFits(j)'
  BY <1>1, <1>3, <1>6, NewRecords DEF JobFits
<1>8. QED
  BY <1>4, <1>5, <1>7 DEF Fits

-----------------------------------------------------------------------------
(* The runner's steps. *)

Alone(r) == (\A q \in Up : q = r) /\ proc[r].pc # "api"

\* What each of r's steps has in common.
Mine(r) ==
    /\ UNCHANGED <<hnd, created, told>>
    /\ \A q \in Runners : q # r => proc'[q] = proc[q] /\ task'[q] = task[q]
    /\ proc'[r].pc \in {"unborn", "down"} => proc'[r].cur = None /\ \A j \in Jobs : task'[r][j] = "none"

\* A step that changes no record but a lease.
LEMMA QuietStep ==
    ASSUME LocalInv, NEW r \in Runners, Alone(r), Mine(r), UNCHANGED <<record, spec, exec>>,
           \A k \in Jobs : lease[k] = NoLease /\ exec[k] = NoExec => lease'[k] = NoLease,
           ProcFits(proc'[r]), ProcOfJob(r)', \A j \in Jobs : Engaged(r, j)' => exec[j].status = "running",
           proc[r].stop = "release" /\ proc[r].pc \in {"get", "put"} /\ proc[r].out = "cancelled"
             => /\ proc'[r].cur = proc[r].cur /\ proc'[r].stop = "release" /\ proc'[r].out = "cancelled"
                /\ proc'[r].pc \in {"get", "put"} \/ exec[proc[r].cur].status \notin {"queued", "running"}
    PROVE  Fits'
<1>1. OneUp' /\ Hosted' /\ Runs' /\ EngagedRuns' /\ (\A h \in Handlers : HandlerFits(h)')
  BY RunnerStep DEF Alone, Mine
<1>2. /\ \A h \in Handlers : hnd[h] = NoRequest
      /\ \A q \in Runners : q # r => proc[q].pc \in {"unborn", "down"}
  BY RunnerAlone DEF Alone
<1>3. ASSUME NEW k \in Jobs PROVE JobFits(k)'
  <2>1. JobFits(k)
    BY DEF LocalInv, Fits
  <2>2. GivingUp(k) => GivingUp(k)' \/ exec[k].status \notin {"queued", "running"}
    BY <1>2 DEF GivingUp
  <2>3. CASE GivingUp(k) => GivingUp(k)'
    BY <1>2, <2>1, <2>3, JobStays DEF Mine
  <2>4. CASE exec[k].status \notin {"queued", "running"}
    <3>1. \A pcs : Handled(k, pcs)' <=> Handled(k, pcs)
      BY DEF Handled, Mine
    <3>2. QED
      BY <2>1, <2>4, <3>1 DEF JobFits, Mine
  <2>5. QED
    BY <2>2, <2>3, <2>4
<1>4. QED
  BY <1>1, <1>3 DEF Fits

\* r goes on in its loop, or leaves it to whichever coroutine is next.
LEMMA LooksFits ==
    ASSUME LocalInv, NEW r \in Runners, Alone(r), UNCHANGED <<hnd, created, told, record, spec, exec, task>>,
           \A k \in Jobs : lease[k] = NoLease /\ exec[k] = NoExec => lease'[k] = NoLease,
           \A q \in Runners : q # r => proc'[q] = proc[q],
           proc[r].pc \in LoopPcs \cup {"unborn", "idle"}, proc[r].stop = "no", proc'[r].stop = "no", proc'[r].out = "none",
           \/ proc'[r].pc \in {"look", "list", "check", "idle"} /\ proc'[r].cur = None
           \/ proc'[r].pc = "renew"
           \/ /\ proc'[r].pc \in {"lease", "claimGet", "claimPut"}
              /\ Claimable(exec[proc'[r].cur]) /\ task[r][proc'[r].cur] = "none"
              /\ proc'[r].pc = "claimPut" => proc'[r].copy = exec[proc'[r].cur]
    PROVE  Fits'
<1>1. Mine(r)
  BY DEF Mine
<1>2. ProcFits(proc'[r])
  BY DEF ProcFits, LoopPcs, OutPcs
<1>3. ProcOfJob(r)'
  BY DEF ProcOfJob, OutPcs
<1>4. ASSUME NEW j \in Jobs, Engaged(r, j)' PROVE exec[j].status = "running"
  <2>1. Engaged(r, j)
    BY <1>4 DEF Engaged, LoopPcs
  <2>2. QED
    BY <2>1 DEF LocalInv, Fits, EngagedRuns
<1>5. QED
  BY <1>1, <1>2, <1>3, <1>4, QuietStep

\* A runner at work is the only one.
LEMMA AtWorkAlone ==
    ASSUME LocalInv, NEW r \in Runners, proc[r].pc \notin {"unborn", "down", "api"}
    PROVE  Alone(r)
BY DEF Alone, LocalInv, Fits, OneUp, Up

\* How the state of a runner's process changes.
LEMMA GotoSets ==
    ASSUME TypeInv, NEW r \in Runners, NEW pc, Goto(r, pc)
    PROVE  /\ proc'[r].pc = pc /\ proc'[r].cur = proc[r].cur /\ proc'[r].out = proc[r].out
           /\ proc'[r].stop = proc[r].stop /\ proc'[r].copy = proc[r].copy
           /\ proc'[r].todo = proc[r].todo /\ proc'[r].doomed = proc[r].doomed
           /\ \A q \in Runners : q # r => proc'[q] = proc[q]
BY DEF Goto, TypeInv, ProcTypes, ProcState

LEMMA AtSets ==
    ASSUME TypeInv, NEW r \in Runners, NEW pc, NEW j, At(r, pc, j)
    PROVE  /\ proc'[r].pc = pc /\ proc'[r].cur = j /\ proc'[r].out = proc[r].out /\ proc'[r].stop = proc[r].stop
           /\ proc'[r].copy = proc[r].copy /\ proc'[r].doomed = proc[r].doomed
           /\ \A q \in Runners : q # r => proc'[q] = proc[q]
BY DEF At, TypeInv, ProcTypes, ProcState

LEMMA NextJobSets ==
    ASSUME TypeInv, NEW r \in Runners, NEW pc, NextJob(r, pc)
    PROVE  /\ proc'[r].pc = pc /\ proc'[r].cur = None /\ proc'[r].out = proc[r].out /\ proc'[r].stop = proc[r].stop
           /\ proc'[r].copy = NoExec /\ proc'[r].doomed = proc[r].doomed
           /\ \A q \in Runners : q # r => proc'[q] = proc[q]
BY DEF NextJob, TypeInv, ProcTypes, ProcState

LEMMA YieldSets ==
    ASSUME TypeInv, NEW r \in Runners, Yield(r)
    PROVE  /\ proc'[r].pc = "idle" /\ proc'[r].cur = None /\ proc'[r].out = "none" /\ proc'[r].stop = proc[r].stop
           /\ proc'[r].copy = NoExec /\ proc'[r].doomed = {}
           /\ \A q \in Runners : q # r => proc'[q] = proc[q]
<1>1. proc' = [proc EXCEPT ![r] = [Fresh EXCEPT !.pc = "idle", !.stop = proc[r].stop]] /\ proc \in [Runners -> ProcState]
  BY DEF Yield, TypeInv, ProcTypes
<1>2. QED
  BY <1>1 DEF Fresh

LEMMA SettleSets ==
    ASSUME TypeInv, NEW r \in Runners, NEW j, NEW out, NEW pc, Settle(r, j, out, pc)
    PROVE  /\ proc'[r].pc = pc /\ proc'[r].cur = j /\ proc'[r].out = out /\ proc'[r].stop = proc[r].stop
           /\ proc'[r].copy = proc[r].copy /\ proc'[r].doomed = proc[r].doomed
           /\ \A q \in Runners : q # r => proc'[q] = proc[q]
BY DEF Settle, TypeInv, ProcTypes, ProcState

LEMMA GotoMoves ==
    ASSUME LocalInv, NEW r \in Runners, NEW pc, Goto(r, pc)
    PROVE  /\ proc'[r].pc = pc /\ proc'[r].cur = proc[r].cur /\ proc'[r].out = proc[r].out
           /\ proc'[r].stop = proc[r].stop /\ proc'[r].copy = proc[r].copy
           /\ proc'[r].todo = proc[r].todo /\ proc'[r].doomed = proc[r].doomed
           /\ \A q \in Runners : q # r => proc'[q] = proc[q]
BY GotoSets DEF LocalInv

LEMMA AtMoves ==
    ASSUME LocalInv, NEW r \in Runners, NEW pc, NEW j, At(r, pc, j)
    PROVE  /\ proc'[r].pc = pc /\ proc'[r].cur = j /\ proc'[r].out = proc[r].out /\ proc'[r].stop = proc[r].stop
           /\ \A q \in Runners : q # r => proc'[q] = proc[q]
BY AtSets DEF LocalInv

LEMMA NextJobMoves ==
    ASSUME LocalInv, NEW r \in Runners, NEW pc, NextJob(r, pc)
    PROVE  /\ proc'[r].pc = pc /\ proc'[r].cur = None /\ proc'[r].out = proc[r].out /\ proc'[r].stop = proc[r].stop
           /\ \A q \in Runners : q # r => proc'[q] = proc[q]
BY NextJobSets DEF LocalInv

LEMMA YieldMoves ==
    ASSUME LocalInv, NEW r \in Runners, Yield(r)
    PROVE  /\ proc'[r].pc = "idle" /\ proc'[r].cur = None /\ proc'[r].out = "none" /\ proc'[r].stop = proc[r].stop
           /\ \A q \in Runners : q # r => proc'[q] = proc[q]
BY YieldSets DEF LocalInv

LEMMA SettleMoves ==
    ASSUME LocalInv, NEW r \in Runners, NEW j, NEW out, NEW pc, Settle(r, j, out, pc)
    PROVE  /\ proc'[r].pc = pc /\ proc'[r].cur = j /\ proc'[r].out = out /\ proc'[r].stop = proc[r].stop
           /\ \A q \in Runners : q # r => proc'[q] = proc[q]
BY SettleSets DEF LocalInv

\* The loop's steps up to the claim's last.
LEMMA LoopFits ==
    ASSUME LocalInv, LocalMode, NEW r \in Runners, Renew(r) \/ List(r) \/ EndClaims(r) \/ ClaimLease(r) \/ ClaimGet(r)
    PROVE  Fits'
<1>1. /\ Alone(r) /\ proc[r].pc \in LoopPcs /\ proc[r].stop = "no" /\ proc[r].out = "none"
      /\ UNCHANGED <<hnd, created, told, record, spec, exec>>
  <2>1. proc[r].pc \in LoopPcs \ {"api"} /\ UNCHANGED <<hnd, created, told, record, spec, exec>>
    BY DEF Renew, List, EndClaims, ClaimLease, ClaimGet, storeVars, apiVars, LoopPcs
  <2>2. QED
    BY <2>1, AtWorkAlone DEF LocalInv, Fits, Runs, ProcFits, LoopPcs
<1>2. CASE Renew(r)
  <2> DEFINE pc == IF proc[r].todo = {proc[r].cur} THEN "list" ELSE "look"
  <2>1. NextJob(r, pc) /\ UNCHANGED task /\ pc \in {"list", "look"}
    BY <1>2 DEF Renew
  <2>2. \A k \in Jobs : lease[k] = NoLease => lease'[k] = NoLease
    <3>1. Renewed(NoLease, r) = NoLease
      BY NoneAssumption DEF Renewed, NoLease
    <3>2. PICK j : lease' = [lease EXCEPT ![j] = Renewed(lease[j], r)]
      BY <1>2 DEF Renew
    <3>3. QED
      BY <3>1, <3>2 DEF LocalInv, TypeInv, StoreTypes
  <2> HIDE DEF pc
  <2>3. QED
    BY <1>1, <2>1, <2>2, NextJobMoves, LooksFits
<1>3. CASE List(r)
  <2>1. /\ proc'[r].pc = "check" /\ proc'[r].cur = proc[r].cur /\ proc'[r].out = "none" /\ proc'[r].stop = "no"
        /\ \A q \in Runners : q # r => proc'[q] = proc[q]
    BY <1>1, <1>3 DEF List, LocalInv, TypeInv, ProcTypes, ProcState
  <2>2. proc[r].cur = None /\ UNCHANGED <<lease, task>>
    BY <1>3 DEF List, LocalInv, Fits, Runs, ProcFits, storeVars
  <2>3. QED
    BY <1>1, <2>1, <2>2, LooksFits
<1>4. CASE EndClaims(r)
  <2>1. Yield(r) /\ UNCHANGED <<lease, task>>
    BY <1>4 DEF EndClaims, storeVars
  <2>2. QED
    BY <1>1, <2>1, YieldMoves, LooksFits
<1>5. CASE ClaimLease(r)
  <2>1. PICK j \in Jobs : j = proc[r].cur /\ Claimable(exec[j]) /\ task[r][j] = "none" /\ exec[j].status # "none"
    BY <1>5 DEF ClaimLease, LocalInv, Fits, Runs, ProcOfJob, TypeInv, ProcTypes, InStep, JobSteps, Claimable
  <2>2. UNCHANGED task /\ \A k \in Jobs : k # j => lease'[k] = lease[k]
    BY <1>5, <2>1 DEF ClaimLease, LocalInv, TypeInv, StoreTypes
  <2>3. exec[j] # NoExec
    BY <2>1, NewRecords
  <2>4. CASE NextJob(r, "check")
    BY <1>1, <2>2, <2>3, <2>4, NextJobMoves, LooksFits
  <2>5. CASE Goto(r, "claimGet")
    BY <1>1, <2>1, <2>2, <2>3, <2>5, GotoMoves, LooksFits
  <2>6. QED
    BY <1>5, <2>4, <2>5 DEF ClaimLease
<1>6. CASE ClaimGet(r)
  <2>1. PICK j \in Jobs : j = proc[r].cur /\ Claimable(exec[j]) /\ task[r][j] = "none" /\ exec[j].status # "none"
    BY <1>6 DEF ClaimGet, LocalInv, Fits, Runs, ProcOfJob, TypeInv, ProcTypes, InStep, JobSteps, Claimable
  <2>2. /\ UNCHANGED <<lease, task>> /\ proc' = [proc EXCEPT ![r].pc = "claimPut", ![r].copy = exec[j]]
    BY <1>6, <2>1, NewRecords DEF ClaimGet, storeVars
  <2>3. /\ proc'[r].pc = "claimPut" /\ proc'[r].cur = j /\ proc'[r].out = "none" /\ proc'[r].stop = "no" /\ proc'[r].copy = exec[j]
        /\ \A q \in Runners : q # r => proc'[q] = proc[q]
    BY <1>1, <2>1, <2>2 DEF LocalInv, TypeInv, ProcTypes, ProcState
  <2>4. QED
    BY <1>1, <2>1, <2>2, <2>3, LooksFits
<1>7. QED
  BY <1>2, <1>3, <1>4, <1>5, <1>6

LEMMA LookFits ==
    ASSUME LocalInv, LocalMode, NEW r \in Runners, NEW j \in Jobs, Look(r, j) \/ Check(r, j)
    PROVE  Fits'
<1>1. /\ Alone(r) /\ proc[r].pc \in {"look", "check"} /\ proc[r].stop = "no" /\ proc[r].out = "none" /\ proc[r].cur = None
      /\ UNCHANGED <<hnd, created, told, record, spec, exec, lease, task>>
  <2>1. proc[r].pc \in {"look", "check"} /\ UNCHANGED <<hnd, created, told, record, spec, exec, lease, task>>
    BY DEF Look, Check, storeVars, apiVars, LoopPcs
  <2>2. QED
    BY <2>1, AtWorkAlone DEF LocalInv, Fits, Runs, ProcFits, LoopPcs
<1>2. CASE Look(r, j)
  <2>1. At(r, "renew", j)
    BY <1>2 DEF Look
  <2>2. QED
    BY <1>1, <2>1, AtMoves, LooksFits DEF LoopPcs
<1>3. CASE Check(r, j) /\ Claimable(exec[j]) /\ task[r][j] = "none"
  <2>1. At(r, "lease", j)
    BY <1>3 DEF Check
  <2>2. proc'[r].pc = "lease" /\ proc'[r].cur = j /\ proc'[r].out = "none" /\ proc'[r].stop = "no"
    BY <1>1, <2>1, AtMoves
  <2>3. QED
    BY <1>1, <1>3, <2>1, <2>2, AtMoves, LooksFits DEF LoopPcs
<1>4. CASE Check(r, j) /\ ~(Claimable(exec[j]) /\ task[r][j] = "none")
  <2>1. proc' = [proc EXCEPT ![r].todo = @ \ {j}] /\ proc[r].pc = "check"
    BY <1>4 DEF Check
  <2>2. /\ proc'[r].pc = "check" /\ proc'[r].cur = None /\ proc'[r].out = "none" /\ proc'[r].stop = "no"
        /\ \A q \in Runners : q # r => proc'[q] = proc[q]
    BY <1>1, <2>1 DEF LocalInv, TypeInv, ProcTypes, ProcState
  <2>3. QED
    BY <1>1, <2>2, LooksFits DEF LoopPcs
<1>5. QED
  BY <1>2, <1>3, <1>4

LEMMA WakeFits ==
    ASSUME LocalInv, LocalMode, NEW r \in Runners, Start(r) \/ Wake(r)
    PROVE  Fits'
<1>1. /\ proc[r].pc \in {"unborn", "idle"} /\ proc[r].stop = "no" /\ proc[r].out = "none" /\ proc[r].cur = None
      /\ UNCHANGED <<hnd, created, told, record, spec, exec, lease, task>>
  <2>1. /\ proc[r].pc \in {"unborn", "idle"} /\ UNCHANGED <<hnd, created, told, record, spec, exec, lease, task>>
        /\ proc[r].pc = "idle" => proc[r].stop = "no"
    BY DEF Start, Wake, storeVars, apiVars
  <2>2. ProcFits(proc[r])
    BY DEF LocalInv, Fits, Runs
  <2>3. QED
    BY <2>1, <2>2 DEF ProcFits, LoopPcs
<1>2. Alone(r)
  <2>1. CASE Wake(r)
    BY <2>1, AtWorkAlone DEF Wake
  <2>2. CASE Start(r)
    <3>1. Cardinality(Up) < 1
      BY <2>2 DEF Start, LocalMode
    <3>2. ASSUME NEW q \in Up PROVE FALSE
      <4>1. Up = {q}
        BY DEF LocalInv, Fits, OneUp
      <4>2. Cardinality(Up) = 1
        BY <4>1, FS_Singleton
      <4>3. QED
        BY <3>1, <4>2
    <3>3. QED
      BY <1>1, <3>2 DEF Alone
  <2>3. QED
    BY <2>1, <2>2
<1>3. /\ proc'[r].pc \in {"list", "look"} /\ proc'[r].cur = None /\ proc'[r].out = "none" /\ proc'[r].stop = "no"
      /\ \A q \in Runners : q # r => proc'[q] = proc[q]
  <2>1. CASE Goto(r, "list")
    BY <1>1, <2>1, GotoMoves
  <2>2. CASE proc' = [proc EXCEPT ![r].pc = "look", ![r].todo = Tasks(r)]
    BY <1>1, <2>2 DEF LocalInv, TypeInv, ProcTypes, ProcState
  <2>3. QED
    BY <2>1, <2>2 DEF Start, Wake
<1>4. QED
  BY <1>1, <1>2, <1>3, LooksFits

\* A step of r that concerns the records of one job leaves those of the others alone.
LEMMA OtherJobsStay ==
    ASSUME LocalInv, NEW r \in Runners, Alone(r), Mine(r), NEW k \in Jobs, k # proc[r].cur,
           record'[k] = record[k], spec'[k] = spec[k], exec'[k] = exec[k], lease'[k] = lease[k]
    PROVE  JobFits(k)'
<1>1. \A q \in Runners : q # r => proc[q].stop = "no"
  BY RunnerAlone DEF Alone, LocalInv, Fits, Runs, ProcFits
<1>2. ~GivingUp(k)
  BY <1>1 DEF GivingUp
<1>3. QED
  BY <1>2, JobStays DEF Mine, LocalInv, Fits

\* A job that somebody works on, or may claim, has its records.
LEMMA WorkedOn ==
    ASSUME LocalInv, NEW r \in Runners, Alone(r), NEW j \in Jobs, exec[j].status \in {"queued", "running"}
    PROVE  /\ j \in created /\ told[j] # "cancelled" /\ (j \in Stored <=> record[j] # "none")
           /\ spec[j] \/ (proc[r].cur = j /\ proc[r].stop = "release" /\ proc[r].out = "cancelled" /\ proc[r].pc \in {"get", "put"})
<1>1. JobFits(j)
  BY DEF LocalInv, Fits
<1>2. exec[j] # NoExec
  BY NewRecords
<1>3. \A q \in Runners : q # r => proc[q].stop = "no"
  BY RunnerAlone DEF Alone, LocalInv, Fits, Runs, ProcFits
<1>4. QED
  BY <1>1, <1>2, <1>3 DEF JobFits, GivingUp

LEMMA ClaimPutFits ==
    ASSUME LocalInv, NEW r \in Runners, ClaimPut(r) PROVE Fits'
<1>1. PICK j \in Jobs : /\ j = proc[r].cur /\ Claimable(exec[j]) /\ task[r][j] = "none" /\ proc[r].copy = exec[j]
                        /\ proc[r].pc = "claimPut" /\ proc[r].stop = "no" /\ proc[r].out = "none"
  BY DEF ClaimPut, LocalInv, Fits, Runs, ProcFits, ProcOfJob, TypeInv, ProcTypes, InStep, JobSteps, LoopPcs
<1>2. Alone(r)
  BY <1>1, AtWorkAlone
<1>3. /\ UNCHANGED <<record, spec, lease, hnd, created, told>> /\ NextJob(r, "check")
      /\ task' = [task EXCEPT ![r][j] = "new"]
  BY <1>1 DEF ClaimPut, apiVars
<1>4. exec[j] \in Execution /\ exec \in [Jobs -> Execution]
  BY DEF LocalInv, TypeInv, StoreTypes
<1>5. exec' = [exec EXCEPT ![j] = [exec[j] EXCEPT !.status = "running", !.owner = r]]
  BY <1>1 DEF ClaimPut
<1>6. /\ exec'[j].status = "running" /\ ~exec'[j].cancel /\ \A k \in Jobs : k # j => exec'[k] = exec[k]
  BY <1>1, <1>4, <1>5 DEF Execution, Claimable
<1>7. /\ proc'[r].pc = "check" /\ proc'[r].cur = None /\ proc'[r].out = "none" /\ proc'[r].stop = "no"
      /\ \A q \in Runners : q # r => proc'[q] = proc[q]
  BY <1>1, <1>3, NextJobMoves
<1>8. /\ task'[r][j] = "new" /\ \A k \in Jobs : k # j => task'[r][k] = task[r][k]
      /\ \A q \in Runners : q # r => task'[q] = task[q]
  BY <1>3 DEF LocalInv, TypeInv, RestTypes
<1>9. Mine(r)
  BY <1>3, <1>7, <1>8 DEF Mine
<1>10. ProcFits(proc'[r]) /\ ProcOfJob(r)'
  BY <1>7 DEF ProcFits, ProcOfJob, LoopPcs, OutPcs
<1>11. ASSUME NEW k \in Jobs, Engaged(r, k)' PROVE exec'[k].status = "running"
  <2>1. CASE k = j
    BY <1>6, <2>1
  <2>2. CASE k # j
    BY <1>1, <1>6, <1>8, <1>11, <2>2 DEF LocalInv, Fits, EngagedRuns, Engaged
  <2>3. QED
    BY <2>1, <2>2
<1>12. OneUp' /\ Hosted' /\ Runs' /\ EngagedRuns' /\ (\A h \in Handlers : HandlerFits(h)')
  BY <1>2, <1>9, <1>10, <1>11, RunnerStep DEF Alone, Mine
<1>13. \A k \in Jobs : k # j => JobFits(k)'
  BY <1>1, <1>2, <1>3, <1>6, <1>9, OtherJobsStay
<1>14. j \in created /\ told[j] # "cancelled" /\ (j \in Stored <=> record[j] # "none") /\ spec[j]
  BY <1>1, <1>2, WorkedOn DEF Claimable
<1>15. JobFits(j)'
  <2>1. exec'[j] # NoExec /\ (j \notin Stored => record[j] = "none")
    BY <1>6, <1>14, NewRecords
  <2>2. QED
    BY <1>3, <1>6, <1>14, <2>1 DEF JobFits
<1>16. QED
  BY <1>12, <1>13, <1>15 DEF Fits

\* A task takes the process to write what became of its job.
LEMMA SettlesFits ==
    ASSUME LocalInv, NEW r \in Runners, NEW j \in Jobs, proc[r].pc = "idle", task[r][j] # "none",
           UNCHANGED <<record, spec, exec, lease, task, hnd, created, told>>,
           \A q \in Runners : q # r => proc'[q] = proc[q],
           proc'[r].cur = j, proc'[r].stop = proc[r].stop,
           \/ proc'[r].pc = "mark" /\ proc'[r].out = "none" /\ j \in Stored
           \/ proc'[r].pc = "free" /\ proc'[r].out = "none"
           \/ proc'[r].pc = "get" /\ proc'[r].out = "failed"
           \/ proc'[r].pc = "get" /\ proc'[r].out \in Terminal /\ j \notin Stored
           \/ proc'[r].pc = "save" /\ proc'[r].out \in Terminal /\ j \in Stored
           \/ proc'[r].pc = "peek" /\ proc'[r].out = "cancelled"
    PROVE  Fits'
<1>1. Alone(r) /\ Mine(r)
  BY AtWorkAlone DEF Mine
<1>2. proc[r].stop # "release" /\ proc[r].cur = None
  BY DEF LocalInv, Fits, Runs, ProcFits, OutPcs
<1>3. exec[j].status = "running"
  BY <1>2 DEF LocalInv, Fits, EngagedRuns, Engaged
<1>4. ProcFits(proc'[r])
  BY <1>2 DEF ProcFits, LoopPcs, OutPcs, Terminal
<1>5. ProcOfJob(r)'
  BY <1>2, <1>3 DEF ProcOfJob, OutPcs, Terminal
<1>6. ASSUME NEW k \in Jobs, Engaged(r, k)' PROVE exec[k].status = "running"
  <2>1. Engaged(r, k)
    BY <1>6 DEF Engaged
  <2>2. QED
    BY <2>1 DEF LocalInv, Fits, EngagedRuns
<1>7. QED
  BY <1>1, <1>2, <1>4, <1>5, <1>6, QuietStep

\* A process at rest goes on with other tasks, or is told to stop.
LEMMA RestsFits ==
    ASSUME LocalInv, NEW r \in Runners, proc[r].pc = "idle", proc'[r].pc = "idle", proc'[r].cur = None,
           proc'[r].out = "none", proc'[r].stop # "release",
           UNCHANGED <<record, spec, exec, lease, hnd, created, told>>,
           \A q \in Runners : q # r => proc'[q] = proc[q] /\ task'[q] = task[q],
           \A k \in Jobs : task'[r][k] # "none" => task[r][k] # "none"
    PROVE  Fits'
<1>1. Alone(r) /\ Mine(r)
  BY AtWorkAlone DEF Mine
<1>2. proc[r].stop # "release" /\ proc[r].cur = None
  BY DEF LocalInv, Fits, Runs, ProcFits, OutPcs
<1>3. ProcFits(proc'[r]) /\ ProcOfJob(r)'
  BY DEF ProcFits, ProcOfJob, LoopPcs, OutPcs
<1>4. ASSUME NEW k \in Jobs, Engaged(r, k)' PROVE exec[k].status = "running"
  <2>1. Engaged(r, k)
    BY <1>4 DEF Engaged
  <2>2. QED
    BY <2>1 DEF LocalInv, Fits, EngagedRuns
<1>5. QED
  BY <1>1, <1>2, <1>3, <1>4, QuietStep

\* A task's steps between its awaits.
LEMMA ResumeFits ==
    ASSUME LocalInv, NEW r \in Runners, NEW j \in Jobs, Resume(r, j) PROVE Fits'
<1>1. /\ proc[r].pc = "idle" /\ task[r][j] # "none" /\ UNCHANGED <<record, spec, exec, lease, hnd, created, told>>
  BY DEF Resume, Begin, InitFails, Initialized, Generated, DropUnstarted, Cancelled, Resumable, storeVars, apiVars
<1>2. proc[r].stop # "release" /\ proc[r].cur = None /\ proc[r].out = "none" /\ Alone(r)
  BY <1>1, AtWorkAlone DEF LocalInv, Fits, Runs, ProcFits, OutPcs
<1>3. exec[j].status = "running" /\ spec[j]
  <2>1. exec[j].status = "running"
    BY <1>1, <1>2 DEF LocalInv, Fits, EngagedRuns, Engaged
  <2>2. QED
    BY <1>2, <2>1, WorkedOn
<1>4. ASSUME NEW at \in {"init", "gen", "none"}, task' = [task EXCEPT ![r][j] = at], UNCHANGED proc PROVE Fits'
  <2>1. /\ \A k \in Jobs : k # j => task'[r][k] = task[r][k]
        /\ \A q \in Runners : q # r => task'[q] = task[q]
    BY <1>4 DEF LocalInv, TypeInv, RestTypes
  <2>2. QED
    BY <1>1, <1>2, <1>4, <2>1, RestsFits
<1>5. CASE Begin(r, j)
  BY <1>3, <1>4, <1>5 DEF Begin
<1>6. CASE InitFails(r, j)
  BY <1>1, <1>6, SettleMoves, SettlesFits DEF InitFails
<1>7. CASE Initialized(r, j)
  <2>1. CASE At(r, "mark", j) /\ UNCHANGED task /\ j \in Stored
    BY <1>1, <1>2, <2>1, AtMoves, SettlesFits
  <2>2. QED
    BY <1>4, <1>7, <2>1 DEF Initialized
<1>8. ASSUME NEW out \in {"completed", "failed"}, Generated(r, j, out) PROVE Fits'
  <2> DEFINE pc == IF j \in Stored THEN "save" ELSE "get"
  <2>1. Settle(r, j, out, pc) /\ UNCHANGED task /\ out \in Terminal
    BY <1>8 DEF Generated, Terminal
  <2>2. (pc = "save" /\ j \in Stored) \/ (pc = "get" /\ j \notin Stored)
    OBVIOUS
  <2> HIDE DEF pc
  <2>3. QED
    BY <1>1, <2>1, <2>2, SettleMoves, SettlesFits
<1>9. CASE DropUnstarted(r, j)
  BY <1>4, <1>9 DEF DropUnstarted
<1>10. CASE Cancelled(r, j)
  <2>1. CASE Settle(r, j, "cancelled", "peek") /\ UNCHANGED task
    BY <1>1, <2>1, SettleMoves, SettlesFits
  <2>2. CASE At(r, "free", j) /\ UNCHANGED task
    BY <1>1, <1>2, <2>2, AtMoves, SettlesFits
  <2>3. QED
    BY <1>10, <2>1, <2>2 DEF Cancelled
<1>11. QED
  BY <1>5, <1>6, <1>7, <1>8, <1>9, <1>10 DEF Resume

\* What is known of a runner that writes an outcome.
LEMMA Writes ==
    ASSUME LocalInv, NEW r \in Runners, proc[r].pc \in OutPcs \cup {"free", "mark"}
    PROVE  /\ Alone(r) /\ ProcFits(proc[r]) /\ ProcOfJob(r) /\ proc[r].cur \in Jobs /\ JobFits(proc[r].cur)
           /\ proc[r] \in ProcState
BY AtWorkAlone DEF LocalInv, Fits, Runs, TypeInv, ProcTypes, InStep, JobSteps, OutPcs

\* Looking before writing.
LEMMA PeekFits ==
    ASSUME LocalInv, NEW r \in Runners, Peek(r) \/ GetExec(r) PROVE Fits'
<1>1. /\ proc[r].pc \in {"peek", "get"} /\ UNCHANGED <<record, spec, exec, lease, task, hnd, created, told>>
  BY DEF Peek, GetExec, storeVars, apiVars
<1>2. PICK j \in Jobs : /\ Alone(r) /\ ProcFits(proc[r]) /\ ProcOfJob(r) /\ j = proc[r].cur /\ JobFits(j)
                        /\ proc[r] \in ProcState /\ exec[j].status = "running"
  BY <1>1, Writes DEF OutPcs, ProcOfJob
<1>3. /\ proc'[r].cur = j /\ proc'[r].stop = proc[r].stop /\ proc'[r].out = proc[r].out
      /\ proc'[r].todo = proc[r].todo /\ proc'[r].doomed = proc[r].doomed
      /\ \A q \in Runners : q # r => proc'[q] = proc[q]
      /\ proc[r].pc = "get" => proc'[r].pc = "put" /\ proc'[r].copy = exec[j]
      /\ proc[r].pc = "peek" => proc'[r].pc = IF record[j] # "none" THEN "save"
                                              ELSE IF Releasing(r) THEN "drop" ELSE "get"
  <2>1. CASE Peek(r)
    BY <1>2, <2>1, GotoMoves DEF Peek
  <2>2. CASE GetExec(r)
    <3>1. exec[j] # NoExec
      BY <1>2, NewRecords
    <3>2. proc' = [proc EXCEPT ![r].pc = "put", ![r].copy = exec[j]]
      BY <1>2, <2>2, <3>1 DEF GetExec
    <3>3. QED
      BY <1>2, <2>2, <3>2 DEF GetExec, LocalInv, TypeInv, ProcTypes, ProcState
  <2>3. QED
    BY <2>1, <2>2
<1>4. Mine(r)
  BY <1>1, <1>3 DEF Mine
<1>5. j \in Stored <=> record[j] # "none"
  BY <1>2, WorkedOn
<1>6. proc[r].out \in {"queued"} \cup Terminal /\ (proc[r].out = "queued" => proc[r].pc = "get")
  BY <1>1, <1>2 DEF ProcFits, OutPcs
<1>7. proc[r].stop = "release" => proc[r].out \in {"queued", "cancelled"}
  BY <1>1, <1>2 DEF ProcFits, OutPcs
<1>8. proc[r].stop # "release" => proc[r].out # "queued" /\ task[r][j] # "none"
  BY <1>1, <1>2 DEF ProcFits, ProcOfJob, OutPcs
<1>9. ProcFits(proc'[r])
  BY <1>1, <1>3, <1>6, <1>7, <1>8 DEF ProcFits, LoopPcs, OutPcs, Releasing
<1>10. ProcOfJob(r)'
  <2>1. CASE proc[r].pc = "get"
    BY <1>1, <1>2, <1>3, <1>8, <2>1 DEF ProcOfJob, OutPcs
  <2>2. CASE proc[r].pc = "peek"
    BY <1>1, <1>2, <1>3, <1>5, <1>6, <1>8, <2>2 DEF ProcOfJob, OutPcs, Releasing
  <2>3. QED
    BY <1>1, <2>1, <2>2
<1>11. ASSUME NEW k \in Jobs, Engaged(r, k)' PROVE exec[k].status = "running"
  <2>1. CASE k = j
    BY <1>2, <2>1
  <2>2. CASE k # j
    BY <1>1, <1>2, <1>3, <1>11, <2>2 DEF LocalInv, Fits, EngagedRuns, Engaged
  <2>3. QED
    BY <2>1, <2>2
<1>12. QED
  BY <1>1, <1>2, <1>3, <1>4, <1>9, <1>10, <1>11, QuietStep

\* Shutting down.
LEMMA StopFits ==
    ASSUME LocalInv, NEW r \in Runners, Stop(r) \/ ReleaseList(r) \/ Stopped(r) PROVE Fits'
<1>1. /\ UNCHANGED <<record, spec, exec, lease, task, hnd, created, told>> /\ proc[r].pc \in {"idle", "release"}
  BY DEF Stop, ReleaseList, Stopped, storeVars, apiVars
<1>2. Alone(r) /\ ProcFits(proc[r]) /\ ProcOfJob(r) /\ proc[r] \in ProcState /\ proc \in [Runners -> ProcState]
  BY <1>1, AtWorkAlone DEF LocalInv, Fits, Runs, TypeInv, ProcTypes
<1>3. proc[r].cur = None /\ proc[r].out = "none"
  BY <1>1, <1>2 DEF ProcFits
<1>4. CASE Stop(r)
  <2>1. proc' = [proc EXCEPT ![r].stop = "tasks"] /\ proc[r].pc = "idle"
    BY <1>4 DEF Stop
  <2>2. /\ proc'[r].pc = "idle" /\ proc'[r].cur = None /\ proc'[r].out = "none" /\ proc'[r].stop = "tasks"
        /\ \A q \in Runners : q # r => proc'[q] = proc[q]
    BY <1>2, <1>3, <2>1 DEF ProcState
  <2>3. QED
    BY <1>1, <2>1, <2>2, RestsFits
<1>5. CASE ReleaseList(r)
  <2> DEFINE owned == {j \in Jobs : exec[j].owner = r /\ exec[j].status = "running"}
             doomed == {j \in owned : exec[j].cancel}
  <2>1. /\ \A j \in owned : j \in Jobs /\ exec[j].status = "running" /\ (exec[j].cancel => j \in doomed)
    OBVIOUS
  <2>2. proc' = [proc EXCEPT ![r].pc = "release", ![r].stop = "release", ![r].todo = owned, ![r].doomed = doomed]
    BY <1>5 DEF ReleaseList
  <2> HIDE DEF owned, doomed
  <2>3. /\ proc'[r].pc = "release" /\ proc'[r].cur = None /\ proc'[r].out = "none" /\ proc'[r].stop = "release"
        /\ proc'[r].todo = owned /\ proc'[r].doomed = doomed
        /\ \A q \in Runners : q # r => proc'[q] = proc[q]
    BY <1>2, <1>3, <2>2 DEF ProcState
  <2>4. \A j \in Jobs : task[r][j] = "none"
    BY <1>5 DEF ReleaseList, Tasks
  <2>5. Mine(r)
    BY <1>1, <2>3 DEF Mine
  <2>6. ProcFits(proc'[r])
    BY <2>3 DEF ProcFits, LoopPcs, OutPcs
  <2>7. ProcOfJob(r)'
    BY <1>1, <2>1, <2>3, <2>4 DEF ProcOfJob, OutPcs
  <2>8. \A j \in Jobs : ~Engaged(r, j)'
    BY <1>1, <2>4 DEF Engaged
  <2>9. proc[r].pc = "idle"
    BY <1>5 DEF ReleaseList
  <2>10. QED
    BY <1>1, <1>2, <2>5, <2>6, <2>7, <2>8, <2>9, QuietStep
<1>6. CASE Stopped(r)
  <2>1. proc' = [proc EXCEPT ![r] = [Fresh EXCEPT !.pc = "down"]] /\ proc[r].pc = "release"
    BY <1>6 DEF Stopped
  <2>2. /\ proc'[r].pc = "down" /\ proc'[r].cur = None /\ proc'[r].out = "none" /\ proc'[r].stop = "no"
        /\ \A q \in Runners : q # r => proc'[q] = proc[q]
    BY <1>2, <2>1 DEF Fresh
  <2>3. \A j \in Jobs : task[r][j] = "none"
    BY <1>2, <2>1 DEF ProcFits, ProcOfJob
  <2>4. Mine(r) /\ ProcFits(proc'[r])
    BY <1>1, <2>2, <2>3 DEF Mine, ProcFits, OutPcs
  <2>5. ProcOfJob(r)'
    BY <2>2, <2>4, DownFits
  <2>6. QED
    BY <1>1, <1>2, <2>1, <2>2, <2>3, <2>4, <2>5, QuietStep DEF Engaged
<1>7. QED
  BY <1>4, <1>5, <1>6

LEMMA ReleaseNextFits ==
    ASSUME LocalInv, NEW r \in Runners, NEW j \in Jobs, ReleaseNext(r, j) PROVE Fits'
<1>1. /\ UNCHANGED <<record, spec, exec, lease, task, hnd, created, told>> /\ proc[r].pc = "release" /\ j \in proc[r].todo
  BY DEF ReleaseNext, storeVars, apiVars
<1>2. Alone(r) /\ ProcFits(proc[r]) /\ ProcOfJob(r) /\ proc[r] \in ProcState /\ proc \in [Runners -> ProcState]
  BY <1>1, AtWorkAlone DEF LocalInv, Fits, Runs, TypeInv, ProcTypes
<1>3. /\ proc[r].stop = "release" /\ exec[j].status = "running" /\ (exec[j].cancel => j \in proc[r].doomed)
      /\ \A k \in Jobs : task[r][k] = "none"
  BY <1>1, <1>2 DEF ProcFits, ProcOfJob
<1>4. /\ proc'[r].cur = j /\ proc'[r].stop = "release" /\ proc'[r].todo = proc[r].todo \ {j}
      /\ proc'[r].doomed = proc[r].doomed
      /\ proc'[r].pc = (IF j \in proc[r].doomed THEN "peek" ELSE "get")
      /\ proc'[r].out = (IF j \in proc[r].doomed THEN "cancelled" ELSE "queued")
      /\ \A q \in Runners : q # r => proc'[q] = proc[q]
  BY <1>2, <1>3 DEF ReleaseNext, ProcState
<1>5. Mine(r) /\ ProcFits(proc'[r])
  BY <1>1, <1>4 DEF Mine, ProcFits, LoopPcs, OutPcs, Terminal
<1>6. ProcOfJob(r)'
  BY <1>1, <1>2, <1>3, <1>4 DEF ProcOfJob, OutPcs
<1>7. \A k \in Jobs : ~Engaged(r, k)'
  BY <1>1, <1>3 DEF Engaged
<1>8. QED
  BY <1>1, <1>2, <1>5, <1>6, <1>7, QuietStep

\* The end of a task, or of the release of one job.
LEMMA FreeFits ==
    ASSUME LocalInv, NEW r \in Runners, Free(r) PROVE Fits'
<1>1. proc[r].pc = "free" /\ UNCHANGED <<record, spec, exec, hnd, created, told>>
  BY DEF Free, apiVars
<1>2. PICK j \in Jobs : /\ Alone(r) /\ ProcFits(proc[r]) /\ ProcOfJob(r) /\ j = proc[r].cur /\ proc[r] \in ProcState
  BY <1>1, Writes
<1>3. \A k \in Jobs : lease[k] = NoLease => lease'[k] = NoLease
  <2>1. Released(NoLease, r) = NoLease
    BY NoneAssumption DEF Released, NoLease
  <2>2. lease' = [lease EXCEPT ![j] = Released(lease[j], r)]
    BY <1>2 DEF Free
  <2>3. QED
    BY <2>1, <2>2 DEF LocalInv, TypeInv, StoreTypes
<1>4. /\ task'[r][j] = "none" /\ \A k \in Jobs : k # j => task'[r][k] = task[r][k]
      /\ \A q \in Runners : q # r => task'[q] = task[q]
  BY <1>2 DEF Free, LocalInv, TypeInv, RestTypes
<1>5. /\ proc'[r].cur = None /\ proc'[r].out = "none" /\ proc'[r].stop = proc[r].stop
      /\ proc'[r].pc = (IF Releasing(r) THEN "release" ELSE "idle")
      /\ Releasing(r) => proc'[r].todo = proc[r].todo /\ proc'[r].doomed = proc[r].doomed
      /\ \A q \in Runners : q # r => proc'[q] = proc[q]
  <2>1. CASE Releasing(r)
    <3>1. proc' = [proc EXCEPT ![r].pc = "release", ![r].cur = None, ![r].out = "none"]
      BY <2>1 DEF Free
    <3>2. QED
      BY <2>1, <3>1 DEF LocalInv, TypeInv, ProcTypes, ProcState
  <2>2. CASE ~Releasing(r)
    BY <2>2, YieldMoves DEF Free
  <2>3. QED
    BY <2>1, <2>2
<1>6. Mine(r)
  BY <1>1, <1>4, <1>5 DEF Mine
<1>7. ProcFits(proc'[r])
  BY <1>5 DEF ProcFits, LoopPcs, OutPcs, Releasing
<1>8. ProcOfJob(r)'
  BY <1>1, <1>2, <1>4, <1>5 DEF ProcOfJob, OutPcs, Releasing
<1>9. ASSUME NEW k \in Jobs, Engaged(r, k)' PROVE exec[k].status = "running"
  <2>1. k # j
    BY <1>4, <1>9 DEF Engaged
  <2>2. Engaged(r, k)
    BY <1>2, <1>4, <1>9, <2>1 DEF Engaged
  <2>3. QED
    BY <2>2 DEF LocalInv, Fits, EngagedRuns
<1>10. QED
  BY <1>1, <1>2, <1>3, <1>6, <1>7, <1>8, <1>9, QuietStep

\* A step that changes the record, the execution or the spec of the job r is at.
LEMMA WriteStep ==
    ASSUME LocalInv, NEW r \in Runners, Alone(r), Mine(r), UNCHANGED lease, NEW j \in Jobs, j = proc[r].cur,
           \A k \in Jobs : k # j => record'[k] = record[k] /\ spec'[k] = spec[k] /\ exec'[k] = exec[k],
           JobFits(j)', ProcFits(proc'[r]), ProcOfJob(r)', \A k \in Jobs : Engaged(r, k)' => exec'[k].status = "running"
    PROVE  Fits'
<1>1. OneUp' /\ Hosted' /\ Runs' /\ EngagedRuns' /\ (\A h \in Handlers : HandlerFits(h)')
  BY RunnerStep DEF Alone, Mine
<1>2. \A k \in Jobs : k # j => JobFits(k)'
  BY OtherJobsStay
<1>3. QED
  BY <1>1, <1>2 DEF Fits

LEMMA MarkInProgressFits ==
    ASSUME LocalInv, NEW r \in Runners, MarkInProgress(r) PROVE Fits'
<1>1. proc[r].pc = "mark" /\ UNCHANGED <<spec, exec, lease, hnd, created, told>> /\ Yield(r)
  BY DEF MarkInProgress, apiVars
<1>2. PICK j \in Jobs : /\ Alone(r) /\ ProcFits(proc[r]) /\ ProcOfJob(r) /\ j = proc[r].cur /\ JobFits(j)
  BY <1>1, Writes
<1>3. proc[r].stop # "release" /\ task[r][j] # "none" /\ j \in Stored
  BY <1>1, <1>2 DEF ProcFits, ProcOfJob, OutPcs
<1>4. exec[j].status = "running"
  BY <1>1, <1>2, <1>3 DEF LocalInv, Fits, EngagedRuns, Engaged
<1>5. record'[j] = "in_progress" /\ \A k \in Jobs : k # j => record'[k] = record[k]
  BY <1>2 DEF MarkInProgress, LocalInv, TypeInv, StoreTypes
<1>6. /\ \A k \in Jobs : k # j => task'[r][k] = task[r][k]
      /\ \A q \in Runners : q # r => task'[q] = task[q]
  BY <1>2 DEF MarkInProgress, LocalInv, TypeInv, RestTypes
<1>7. /\ proc'[r].pc = "idle" /\ proc'[r].cur = None /\ proc'[r].out = "none" /\ proc'[r].stop = proc[r].stop
      /\ \A q \in Runners : q # r => proc'[q] = proc[q]
  BY <1>1, YieldMoves
<1>8. Mine(r) /\ ProcFits(proc'[r]) /\ ProcOfJob(r)'
  BY <1>1, <1>3, <1>6, <1>7 DEF Mine, ProcFits, ProcOfJob, LoopPcs, OutPcs
<1>9. ASSUME NEW k \in Jobs, Engaged(r, k)' PROVE exec'[k].status = "running"
  <2>1. CASE k = j
    BY <1>1, <1>4, <2>1
  <2>2. CASE k # j
    BY <1>1, <1>2, <1>6, <1>9, <2>2 DEF LocalInv, Fits, EngagedRuns, Engaged
  <2>3. QED
    BY <2>1, <2>2
<1>10. j \in created /\ told[j] # "cancelled" /\ spec[j]
  BY <1>1, <1>2, <1>4, WorkedOn
<1>11. JobFits(j)'
  BY <1>1, <1>3, <1>4, <1>5, <1>10, NewRecords DEF JobFits
<1>12. QED
  BY <1>1, <1>2, <1>5, <1>8, <1>9, <1>11, WriteStep

LEMMA SaveFits ==
    ASSUME LocalInv, NEW r \in Runners, Save(r) PROVE Fits'
<1>1. proc[r].pc = "save" /\ UNCHANGED <<spec, exec, lease, task, hnd, created, told>>
  BY DEF Save, apiVars
<1>2. PICK j \in Jobs : /\ Alone(r) /\ ProcFits(proc[r]) /\ ProcOfJob(r) /\ j = proc[r].cur /\ JobFits(j)
  BY <1>1, Writes DEF OutPcs
<1>3. /\ exec[j].status = "running" /\ j \in Stored /\ proc[r].out \in Terminal
      /\ proc[r].stop = "release" => proc[r].out = "cancelled"
      /\ proc[r].stop # "release" => task[r][j] # "none"
  BY <1>1, <1>2 DEF ProcFits, ProcOfJob, OutPcs
<1>4. record'[j] = proc[r].out /\ \A k \in Jobs : k # j => record'[k] = record[k]
  BY <1>2 DEF Save, LocalInv, TypeInv, StoreTypes
<1>5. /\ proc'[r].pc = (IF Releasing(r) THEN "drop" ELSE "get")
      /\ proc'[r].cur = j /\ proc'[r].out = proc[r].out /\ proc'[r].stop = proc[r].stop
      /\ proc'[r].todo = proc[r].todo /\ proc'[r].doomed = proc[r].doomed
      /\ \A q \in Runners : q # r => proc'[q] = proc[q]
  BY <1>2, GotoMoves DEF Save
<1>6. Mine(r) /\ ProcFits(proc'[r])
  BY <1>1, <1>3, <1>5 DEF Mine, ProcFits, LoopPcs, OutPcs, Releasing, Terminal
<1>7. ProcOfJob(r)'
  BY <1>1, <1>2, <1>3, <1>4, <1>5 DEF ProcOfJob, OutPcs, Releasing, Terminal
<1>8. ASSUME NEW k \in Jobs, Engaged(r, k)' PROVE exec'[k].status = "running"
  <2>1. CASE k = j
    BY <1>1, <1>3, <2>1
  <2>2. CASE k # j
    BY <1>1, <1>2, <1>5, <1>8, <2>2 DEF LocalInv, Fits, EngagedRuns, Engaged
  <2>3. QED
    BY <2>1, <2>2
<1>9. j \in created /\ told[j] # "cancelled" /\ spec[j]
  BY <1>1, <1>2, <1>3, WorkedOn
<1>10. JobFits(j)'
  BY <1>1, <1>2, <1>3, <1>4, <1>9, NewRecords DEF JobFits, Terminal
<1>11. QED
  BY <1>1, <1>2, <1>4, <1>6, <1>7, <1>8, <1>10, WriteStep

LEMMA PutOutcomeFits ==
    ASSUME LocalInv, NEW r \in Runners, PutOutcome(r) PROVE Fits'
<1>1. proc[r].pc = "put" /\ UNCHANGED <<record, spec, lease, task, hnd, created, told>>
  BY DEF PutOutcome, apiVars
<1>2. PICK j \in Jobs : /\ Alone(r) /\ ProcFits(proc[r]) /\ ProcOfJob(r) /\ j = proc[r].cur /\ JobFits(j)
                        /\ proc[r] \in ProcState
  BY <1>1, Writes DEF OutPcs
<1>3. /\ exec[j].status = "running" /\ proc[r].copy = exec[j] /\ proc[r].out \in {"queued"} \cup Terminal
      /\ proc[r].stop = "release" => proc[r].out \in {"queued", "cancelled"}
      /\ proc[r].stop # "release" => proc[r].out # "queued" /\ task[r][j] # "none"
      /\ proc[r].out = "queued" => ~exec[j].cancel
      /\ j \in Stored /\ proc[r].out \in {"completed", "cancelled"} => record[j] = proc[r].out
  BY <1>1, <1>2 DEF ProcFits, ProcOfJob, OutPcs
<1>4. exec' = [exec EXCEPT ![j] = [exec[j] EXCEPT !.owner = None, !.status = proc[r].out]]
  BY <1>2, <1>3 DEF PutOutcome, Terminal
<1>5. exec'[j].status = proc[r].out /\ exec'[j].cancel = exec[j].cancel /\ \A k \in Jobs : k # j => exec'[k] = exec[k]
  <2>1. exec \in [Jobs -> Execution] /\ exec[j] \in Execution
    BY DEF LocalInv, TypeInv, StoreTypes
  <2>2. QED
    BY <1>4, <2>1 DEF Execution
<1>6. /\ proc'[r].pc = (IF Releasing(r) THEN "free" ELSE "drop")
      /\ proc'[r].cur = j /\ proc'[r].out = proc[r].out /\ proc'[r].stop = proc[r].stop
      /\ proc'[r].todo = proc[r].todo /\ proc'[r].doomed = proc[r].doomed
      /\ \A q \in Runners : q # r => proc'[q] = proc[q]
  <2>1. AfterPut(r) = IF Releasing(r) THEN "free" ELSE "drop"
    BY <1>3 DEF AfterPut, Terminal
  <2>2. proc' = [proc EXCEPT ![r].pc = AfterPut(r), ![r].copy = NoExec]
    BY DEF PutOutcome
  <2>3. QED
    BY <1>2, <2>1, <2>2 DEF LocalInv, TypeInv, ProcTypes, ProcState
<1>7. Mine(r) /\ ProcFits(proc'[r])
  BY <1>1, <1>3, <1>6 DEF Mine, ProcFits, LoopPcs, OutPcs, Releasing, Terminal
<1>8. ProcOfJob(r)'
  <2>1. proc[r].todo \subseteq Jobs
    BY <1>2 DEF ProcState
  <2>2. CASE proc[r].stop = "release"
    BY <1>1, <1>2, <1>3, <1>5, <1>6, <2>1, <2>2 DEF ProcOfJob, OutPcs, Releasing
  <2>3. CASE proc[r].stop # "release"
    BY <1>1, <1>3, <1>5, <1>6, <2>3 DEF ProcOfJob, OutPcs, Releasing
  <2>4. QED
    BY <2>2, <2>3
<1>9. ASSUME NEW k \in Jobs, Engaged(r, k)' PROVE exec'[k].status = "running"
  <2>1. k # j
    BY <1>3, <1>6, <1>9 DEF Engaged, Terminal, Releasing
  <2>2. QED
    BY <1>1, <1>2, <1>5, <1>6, <1>9, <2>1 DEF LocalInv, Fits, EngagedRuns, Engaged
<1>10. /\ j \in created /\ told[j] # "cancelled" /\ (j \in Stored <=> record[j] # "none")
       /\ spec[j] \/ proc[r].out = "cancelled"
  BY <1>1, <1>2, <1>3, WorkedOn
<1>11. JobFits(j)'
  <2>1. exec'[j] # NoExec
    BY <1>3, <1>5, NewRecords DEF Terminal
  <2>2. QED
    BY <1>1, <1>2, <1>3, <1>5, <1>10, <2>1 DEF JobFits, Terminal
<1>12. QED
  BY <1>1, <1>2, <1>5, <1>7, <1>8, <1>9, <1>11, WriteStep

LEMMA DropJobSpecFits ==
    ASSUME LocalInv, NEW r \in Runners, DropJobSpec(r) PROVE Fits'
<1>1. proc[r].pc = "drop" /\ UNCHANGED <<record, exec, lease, task, hnd, created, told>>
  BY DEF DropJobSpec, apiVars
<1>2. PICK j \in Jobs : /\ Alone(r) /\ ProcFits(proc[r]) /\ ProcOfJob(r) /\ j = proc[r].cur /\ JobFits(j)
  BY <1>1, Writes DEF OutPcs
<1>3. /\ exec[j].status \in (IF proc[r].stop = "release" THEN {"running"} ELSE Terminal) /\ proc[r].out \in Terminal
      /\ proc[r].stop = "release" => proc[r].out = "cancelled" /\ (j \in Stored => record[j] = "cancelled")
      /\ proc[r].stop # "release" => task[r][j] # "none"
  BY <1>1, <1>2 DEF ProcFits, ProcOfJob, OutPcs
<1>4. ~spec'[j] /\ \A k \in Jobs : k # j => spec'[k] = spec[k]
  BY <1>2 DEF DropJobSpec, LocalInv, TypeInv, StoreTypes
<1>5. /\ proc'[r].pc = (IF Releasing(r) THEN "get" ELSE "free")
      /\ proc'[r].cur = j /\ proc'[r].out = proc[r].out /\ proc'[r].stop = proc[r].stop
      /\ proc'[r].todo = proc[r].todo /\ proc'[r].doomed = proc[r].doomed
      /\ \A q \in Runners : q # r => proc'[q] = proc[q]
  BY <1>2, GotoMoves DEF DropJobSpec
<1>6. Mine(r) /\ ProcFits(proc'[r])
  BY <1>1, <1>3, <1>5 DEF Mine, ProcFits, LoopPcs, OutPcs, Releasing, Terminal
<1>7. ProcOfJob(r)'
  BY <1>1, <1>2, <1>3, <1>5 DEF ProcOfJob, OutPcs, Releasing, Terminal
<1>8. ASSUME NEW k \in Jobs, Engaged(r, k)' PROVE exec'[k].status = "running"
  <2>1. CASE proc[r].stop = "release"
    BY <1>1, <1>2, <1>8, <2>1 DEF ProcOfJob, Engaged
  <2>2. CASE proc[r].stop # "release"
    <3>1. k # j
      BY <1>3, <1>5, <1>8, <2>2 DEF Engaged, Terminal, Releasing
    <3>2. QED
      BY <1>1, <1>2, <1>5, <1>8, <3>1 DEF LocalInv, Fits, EngagedRuns, Engaged
  <2>3. QED
    BY <2>1, <2>2
<1>9. GivingUp(j)' \/ exec[j].status \in Terminal
  BY <1>3, <1>5 DEF GivingUp, Releasing
<1>10. \A pcs : Handled(j, pcs)' <=> Handled(j, pcs)
  BY <1>1 DEF Handled
<1>11. JobFits(j)'
  BY <1>1, <1>2, <1>3, <1>4, <1>9, <1>10 DEF JobFits, Terminal
<1>12. QED
  BY <1>1, <1>2, <1>4, <1>6, <1>7, <1>8, <1>11, WriteStep

\* A lease that runs out.
LEMMA ExpireFits ==
    ASSUME LocalInv, NEW j \in Jobs, Expire(j) PROVE Fits'
<1>1. UNCHANGED <<record, spec, exec, proc, task, hnd, created, told>>
  BY DEF Expire, runnerVars, apiVars
<1>2. \A k \in Jobs : lease[k] = NoLease => lease'[k] = NoLease
  <2>1. lease[j].live /\ lease' = [lease EXCEPT ![j].live = FALSE]
    BY DEF Expire
  <2>2. lease[j] # NoLease
    BY <2>1 DEF NoLease
  <2>3. QED
    BY <2>1, <2>2 DEF LocalInv, TypeInv, StoreTypes
<1>3. OneUp' /\ Hosted' /\ Runs' /\ EngagedRuns' /\ (\A h \in Handlers : HandlerFits(h)')
  BY <1>1 DEF LocalInv, Fits, OneUp, Up, Hosted, Active, Runs, ProcOfJob, EngagedRuns, Engaged, HandlerFits
<1>4. \A k \in Jobs : JobFits(k)'
  BY <1>1, <1>2, JobStays DEF LocalInv, Fits, GivingUp
<1>5. QED
  BY <1>3, <1>4 DEF Fits

LEMMA StutterFits == ASSUME LocalInv, UNCHANGED vars PROVE Fits'
<1>1. UNCHANGED <<record, spec, exec, lease, proc, task, hnd, created, told>>
  BY DEF vars
<1>2. OneUp' /\ Hosted' /\ Runs' /\ EngagedRuns' /\ (\A h \in Handlers : HandlerFits(h)')
  BY <1>1 DEF LocalInv, Fits, OneUp, Up, Hosted, Active, Runs, ProcOfJob, EngagedRuns, Engaged, HandlerFits
<1>3. \A k \in Jobs : JobFits(k)'
  BY <1>1, JobStays DEF LocalInv, Fits, GivingUp
<1>4. QED
  BY <1>2, <1>3 DEF Fits

-----------------------------------------------------------------------------
(* The inductive invariant. *)

LEMMA InitLocal == ASSUME Init PROVE LocalInv
<1>1. TypeInv
  BY InitTypes
<1>2. /\ \A r \in Runners : /\ proc[r].pc = "unborn" /\ proc[r].cur = None /\ proc[r].out = "none" /\ proc[r].stop = "no"
                            /\ \A j \in Jobs : task[r][j] = "none"
      /\ \A h \in Handlers : hnd[h] = NoRequest
      /\ \A j \in Jobs : exec[j] = NoExec /\ record[j] = "none" /\ lease[j] = NoLease /\ ~spec[j] /\ told[j] = "none"
      /\ created = {}
  BY DEF Init, Fresh
<1>3. OneUp /\ Hosted /\ EngagedRuns
  BY <1>2 DEF OneUp, Up, Hosted, Active, NoRequest, EngagedRuns, Engaged
<1>4. Runs
  BY <1>2 DEF Runs, ProcFits, ProcOfJob, OutPcs
<1>5. \A j \in Jobs : JobFits(j)
  BY <1>2, NewRecords DEF JobFits
<1>6. \A h \in Handlers : HandlerFits(h)
  BY <1>2 DEF HandlerFits, NoRequest, HandlerPcs
<1>7. QED
  BY <1>1, <1>3, <1>4, <1>5, <1>6 DEF LocalInv, Fits

LEMMA NextLocal == ASSUME LocalInv, LocalMode, [Next]_vars PROVE LocalInv'
<1>1. TypeInv'
  BY NextTypes DEF LocalInv
<1>2. ASSUME NEW h \in Handlers, NEW host \in Runners \cup {None}, NEW j \in Jobs,
             Create(h, host, j) \/ Cancel(h, host, j) \/ Delete(h, host, j)
      PROVE  Fits'
  BY <1>2, CreateFits, CancelFits, DeleteFits
<1>3. ASSUME NEW h \in Handlers, HandlerStep(h) \/ WorkerCrash(h) PROVE Fits'
  <2>1. ~WorkerCrash(h)
    BY DEF WorkerCrash, LocalMode
  <2>2. QED
    BY <1>3, <2>1, PutSpecFits, PutExecFits, LoadFits, SaveResponseFits, DropSpecFits, AnswerFits,
       DeleteCheckFits, DeleteRecordFits, DeleteSpecFits, DeleteExecFits, DeleteLeaseFits DEF HandlerStep
<1>4. ASSUME NEW r \in Runners, Start(r) \/ Wake(r) \/ LoopStep(r) PROVE Fits'
  BY <1>4, WakeFits, LoopFits, LookFits, ClaimPutFits DEF LoopStep
<1>5. ASSUME NEW r \in Runners, TaskStep(r) \/ Stop(r) \/ StopStep(r) \/ Crash(r) PROVE Fits'
  <2>1. ~Crash(r)
    BY DEF Crash, LocalMode
  <2>2. QED
    BY <1>5, <2>1, MarkInProgressFits, PeekFits, SaveFits, PutOutcomeFits, DropJobSpecFits, FreeFits,
       StopFits, ReleaseNextFits DEF TaskStep, StopStep
<1>6. QED
  BY <1>1, <1>2, <1>3, <1>4, <1>5, ResumeFits, ExpireFits, StutterFits DEF Next, LocalInv

LEMMA LocalInvAlways == ASSUME LocalMode PROVE Spec => []LocalInv
<1>1. Init => LocalInv
  BY InitLocal
<1>2. LocalInv /\ [Next]_vars => LocalInv'
  BY NextLocal
<1>3. QED
  BY <1>1, <1>2, PTL DEF Spec

\* In local mode, whenever nobody is at work on a job, its response says what its
\* execution says and a job that may still be claimed has its spec, although
\* responses_creation.py, responses_admin.py, responses_background.py and runner.py
\* write the three records in different transactions.
THEOREM RecordsAgreeLocally ==
    ASSUME LocalMode PROVE Spec => []RecordsAgree
<1>1. ASSUME LocalInv PROVE RecordsAgree
  <2>1. ASSUME NEW j \in Jobs, Quiet(j) PROVE JobFits(j) /\ ~GivingUp(j) /\ \A pcs : ~Handled(j, pcs)
    BY <1>1, <2>1 DEF LocalInv, Fits, Quiet, GivingUp, Handled
  <2>2. SettledRecordsAgree
    BY <2>1, ResponseJobsAssumption DEF SettledRecordsAgree, JobFits
  <2>3. ClaimableHasSpec
    BY <2>1 DEF ClaimableHasSpec, Claimable, JobFits
  <2>4. QED
    BY <2>2, <2>3 DEF RecordsAgree
<1>2. QED
  BY <1>1, LocalInvAlways, PTL

\* In local mode, a client whose cancel_response_use_case answered "cancelled" never
\* sees the job come back: neither its response nor its execution is anything else
\* afterwards, unless it is deleted.
THEOREM CancelHolds ==
    ASSUME LocalMode PROVE Spec => []CancelAnswerHolds
<1>1. LocalInv => CancelAnswerHolds
  BY DEF LocalInv, Fits, JobFits, CancelAnswerHolds
<1>2. QED
  BY <1>1, LocalInvAlways, PTL

\* In local mode, when delete_response_state is through with a job, response, spec,
\* execution and lease are gone, and no runner or handler that still had hold of the
\* job writes one of them again.
THEOREM DeletionIsWhole ==
    ASSUME LocalMode PROVE Spec => []DeletedLeavesNothing
<1>1. ASSUME LocalInv PROVE DeletedLeavesNothing
  <2>1. ASSUME NEW j \in created, Quiet(j), exec[j] = NoExec PROVE record[j] = "none" /\ ~spec[j] /\ lease[j] = NoLease
    <3>1. j \in Jobs /\ \A pcs : ~Handled(j, pcs)
      BY <1>1, <2>1 DEF LocalInv, TypeInv, RestTypes, Quiet, Handled
    <3>2. QED
      BY <1>1, <2>1, <3>1 DEF LocalInv, Fits, JobFits
  <2>2. QED
    BY <2>1 DEF DeletedLeavesNothing
<1>2. QED
  BY <1>1, LocalInvAlways, PTL

-----------------------------------------------------------------------------
(* The life of a job: every step is one of module JobLifecycle or leaves the *)
(* mapped variables alone.                                                   *)

\* The worker of a job is the runner engaged in it.
LEMMA WorkerIs ==
    ASSUME OneUp, NEW j \in Jobs
    PROVE  /\ \A r \in Runners : Engaged(r, j) => JobWorker[j] = r
           /\ (\A r \in Runners : ~Engaged(r, j)) => JobWorker[j] = None
<1>1. ASSUME NEW r \in Runners, Engaged(r, j) PROVE JobWorker[j] = r
  <2>1. \A q \in Runners : Engaged(q, j) => q \in Up
    BY DEF OneUp, Engaged
  <2>2. \A q \in Runners : Engaged(q, j) => q = r
    BY <1>1, <2>1 DEF OneUp
  <2>3. JobWorker[j] = CHOOSE q \in Runners : Engaged(q, j)
    BY <1>1 DEF JobWorker
  <2>4. QED
    BY <1>1, <2>2, <2>3
<1>2. QED
  BY <1>1 DEF JobWorker

LEMMA WorkerWillBe ==
    ASSUME OneUp', NEW j \in Jobs
    PROVE  /\ \A r \in Runners : Engaged(r, j)' => JobWorker'[j] = r
           /\ (\A r \in Runners : ~Engaged(r, j)') => JobWorker'[j] = None
<1>1. ASSUME NEW r \in Runners, Engaged(r, j)' PROVE JobWorker'[j] = r
  <2>1. \A q \in Runners : Engaged(q, j)' => q \in Up'
    BY DEF OneUp, Engaged
  <2>2. \A q \in Runners : Engaged(q, j)' => q = r
    BY <1>1, <2>1 DEF OneUp
  <2>3. JobWorker'[j] = CHOOSE q \in Runners : Engaged(q, j)'
    BY <1>1 DEF JobWorker
  <2>4. QED
    BY <1>1, <2>2, <2>3
<1>2. QED
  BY <1>1 DEF JobWorker

\* The step says nothing about job k's life.
Unmoved(k) ==
    /\ exec'[k] = exec[k] /\ (exec[k] = NoExec => (k \in created' <=> k \in created))
    /\ \A r \in Runners : Engaged(r, k)' <=> Engaged(r, k)

LEMMA SameWorker ==
    ASSUME OneUp, OneUp', NEW k \in Jobs, \A r \in Runners : Engaged(r, k)' <=> Engaged(r, k)
    PROVE  JobWorker'[k] = JobWorker[k]
<1>1. CASE \E r \in Runners : Engaged(r, k)
  <2>1. PICK r \in Runners : Engaged(r, k) /\ Engaged(r, k)'
    BY <1>1
  <2>2. JobWorker[k] = r
    BY <2>1, WorkerIs
  <2>3. JobWorker'[k] = r
    BY <2>1, WorkerWillBe
  <2>4. QED
    BY <2>2, <2>3
<1>2. CASE \A r \in Runners : ~Engaged(r, k)
  <2>1. \A r \in Runners : ~Engaged(r, k)'
    BY <1>2
  <2>2. JobWorker[k] = None
    BY <1>2, WorkerIs
  <2>3. JobWorker'[k] = None
    BY <2>1, WorkerWillBe
  <2>4. QED
    BY <2>2, <2>3
<1>3. QED
  BY <1>1, <1>2

LEMMA UnmovedStays ==
    ASSUME OneUp, OneUp', NEW k \in Jobs, Unmoved(k)
    PROVE  JobStatus'[k] = JobStatus[k] /\ JobWorker'[k] = JobWorker[k]
<1>1. JobStatus'[k] = JobStatus[k]
  BY DEF Unmoved, JobStatus
<1>2. JobWorker'[k] = JobWorker[k]
  BY SameWorker DEF Unmoved
<1>3. QED
  BY <1>1, <1>2

\* Only job j's life moves.
LEMMA OneMoves ==
    ASSUME OneUp, OneUp', NEW j \in Jobs, \A k \in Jobs : k # j => Unmoved(k)
    PROVE  /\ JobStatus' = [JobStatus EXCEPT ![j] = JobStatus'[j]]
           /\ JobWorker' = [JobWorker EXCEPT ![j] = JobWorker'[j]]
<1>1. \A k \in Jobs : k # j => JobStatus'[k] = JobStatus[k] /\ JobWorker'[k] = JobWorker[k]
  BY UnmovedStays
<1> DEFINE s == JobStatus'
           w == JobWorker'
<1>2. /\ s = [k \in Jobs |-> s[k]] /\ JobStatus = [k \in Jobs |-> JobStatus[k]]
      /\ w = [k \in Jobs |-> w[k]] /\ JobWorker = [k \in Jobs |-> JobWorker[k]]
  BY DEF JobStatus, JobWorker
<1> HIDE DEF s, w
<1>3. s = [JobStatus EXCEPT ![j] = s[j]] /\ w = [JobWorker EXCEPT ![j] = w[j]]
  BY <1>1, <1>2 DEF s, w
<1>4. QED
  BY <1>3 DEF s, w

\* Two states that agree on every job agree.
LEMMA MappedWorker ==
    ASSUME \A k \in Jobs : JobWorker'[k] = JobWorker[k] PROVE UNCHANGED JobWorker
<1> DEFINE w == JobWorker'
<1>1. w = [k \in Jobs |-> w[k]] /\ JobWorker = [k \in Jobs |-> JobWorker[k]]
  BY DEF JobWorker
<1>2. \A k \in Jobs : w[k] = JobWorker[k]
  OBVIOUS
<1> HIDE DEF w
<1>3. w = JobWorker
  BY <1>1, <1>2
<1>4. QED
  BY <1>3 DEF w

LEMMA MappedSame ==
    ASSUME \A k \in Jobs : JobStatus'[k] = JobStatus[k] /\ JobWorker'[k] = JobWorker[k]
    PROVE  UNCHANGED <<JobStatus, JobWorker>>
<1> DEFINE s == JobStatus'
           w == JobWorker'
<1>1. /\ s = [k \in Jobs |-> s[k]] /\ JobStatus = [k \in Jobs |-> JobStatus[k]]
      /\ w = [k \in Jobs |-> w[k]] /\ JobWorker = [k \in Jobs |-> JobWorker[k]]
  BY DEF JobStatus, JobWorker
<1>2. \A k \in Jobs : s[k] = JobStatus[k] /\ w[k] = JobWorker[k]
  OBVIOUS
<1> HIDE DEF s, w
<1>3. s = JobStatus /\ w = JobWorker
  BY <1>2, <1>1
<1>4. QED
  BY <1>3 DEF s, w

SameWorkers == \A r \in Runners, k \in Jobs : Engaged(r, k)' <=> Engaged(r, k)

\* Handlers do not touch tasks.
LEMMA HostsKeepWorkers ==
    ASSUME LocalInv, NEW host, host \in Runners => proc[host].pc \in {"idle", "api"}, NEW pc \in {"idle", "api"},
           proc' = [r \in Runners |-> IF r = host THEN [proc[r] EXCEPT !.pc = pc] ELSE proc[r]], UNCHANGED task
    PROVE  SameWorkers
<1>1. ASSUME NEW r \in Runners
      PROVE  /\ proc'[r].cur = proc[r].cur /\ proc'[r].out = proc[r].out
             /\ proc'[r].pc = proc[r].pc \/ (proc'[r].pc \in {"idle", "api"} /\ proc[r].pc \in {"idle", "api"})
  BY DEF LocalInv, TypeInv, ProcTypes, ProcState
<1>2. QED
  BY <1>1 DEF SameWorkers, Engaged

LEMMA RequestsKeepWorkers ==
    ASSUME LocalInv, LocalMode, NEW h \in Handlers, NEW host \in Runners \cup {None}, NEW j \in Jobs,
           Create(h, host, j) \/ Cancel(h, host, j) \/ Delete(h, host, j)
    PROVE  SameWorkers
<1>1. /\ Serve(h, host) /\ UNCHANGED task
      /\ proc' = [r \in Runners |-> IF r = host THEN [proc[r] EXCEPT !.pc = "api"] ELSE proc[r]]
  BY DEF Create, Cancel, Delete, Continue
<1>2. QED
  BY <1>1, HostsKeepWorkers DEF Serve, LocalMode

LEMMA HandlersKeepWorkers ==
    ASSUME LocalInv, NEW h \in Handlers, HandlerStep(h)
    PROVE  SameWorkers
<1>1. Active(h) /\ UNCHANGED task
  BY DEF HandlerStep, PutSpec, PutExec, LoadResponse, SaveResponse, DropSpec, Answer,
         DeleteCheck, DeleteRecord, DeleteSpec, DeleteExec, DeleteLease, Active
<1>2. PICK host \in Runners : host = hnd[h].host /\ proc[host].pc = "api"
  BY <1>1, HandlerAlone
<1>3. ASSUME NEW pc, Step(h, pc) PROVE SameWorkers
  BY <1>1, <1>2, <1>3, HostsKeepWorkers DEF Step, Continue
<1>4. CASE Finish(h)
  BY <1>1, <1>2, <1>4, HostsKeepWorkers DEF Finish
<1>5. QED
  BY <1>3, <1>4 DEF HandlerStep, PutSpec, PutExec, LoadResponse, SaveResponse, DropSpec, Answer,
         DeleteCheck, DeleteRecord, DeleteSpec, DeleteExec, DeleteLease

LifeStep == Lifecycle!Next \/ UNCHANGED <<JobStatus, JobWorker>>

\* A step that only leaves executions and workers alone is none of a job's life.
LEMMA IdleStep ==
    ASSUME LocalInv, LocalInv', UNCHANGED <<exec, created>>, SameWorkers
    PROVE  LifeStep
<1>1. \A k \in Jobs : Unmoved(k)
  BY DEF Unmoved, SameWorkers
<1>2. \A k \in Jobs : JobStatus'[k] = JobStatus[k] /\ JobWorker'[k] = JobWorker[k]
  BY <1>1, UnmovedStays DEF LocalInv, Fits
<1>3. QED
  BY <1>2, MappedSame DEF LifeStep

\* A job nobody is engaged in moves on.
LEMMA IdleMove ==
    ASSUME LocalInv, LocalInv', NEW j \in Jobs, SameWorkers, \A r \in Runners : ~Engaged(r, j),
           \A k \in Jobs : k # j => exec'[k] = exec[k] /\ (k \in created' <=> k \in created)
    PROVE  /\ JobStatus' = [JobStatus EXCEPT ![j] = JobStatus'[j]]
           /\ JobWorker[j] = None /\ UNCHANGED JobWorker
<1>1. OneUp /\ OneUp'
  BY DEF LocalInv, Fits
<1>2. \A k \in Jobs : k # j => Unmoved(k)
  BY DEF Unmoved, SameWorkers
<1>3. JobWorker[j] = None /\ JobWorker'[j] = None
  BY <1>1, WorkerIs, WorkerWillBe DEF SameWorkers
<1>4. JobWorker' = [JobWorker EXCEPT ![j] = JobWorker'[j]] /\ JobStatus' = [JobStatus EXCEPT ![j] = JobStatus'[j]]
  BY <1>1, <1>2, OneMoves
<1>5. JobWorker = [k \in Jobs |-> JobWorker[k]]
  BY DEF JobWorker
<1> DEFINE w == JobWorker
<1> HIDE DEF w
<1>6. w = [w EXCEPT ![j] = None]
  BY <1>3, <1>5 DEF w
<1>7. QED
  BY <1>3, <1>4, <1>6 DEF w

LEMMA PutExecMove ==
    ASSUME LocalInv, LocalInv', NEW h \in Handlers, PutExec(h) PROVE LifeStep
<1>1. PICK j \in Jobs : j = hnd[h].job
  BY HandlerAlone DEF PutExec, Active
<1>2. /\ exec' = [exec EXCEPT ![j] = QueuedExec] /\ created' = created \cup {j} /\ SameWorkers /\ j \notin created
  BY <1>1, HandlersKeepWorkers DEF PutExec, HandlerStep, LocalInv, Fits, HandlerFits
<1>3. exec[j].status = "none" /\ exec'[j] = QueuedExec /\ \A k \in Jobs : k # j => exec'[k] = exec[k]
  BY <1>2, Uncreated DEF LocalInv, TypeInv, StoreTypes
<1>4. \A r \in Runners : ~Engaged(r, j)
  BY <1>3 DEF LocalInv, Fits, EngagedRuns
<1>5. /\ JobStatus' = [JobStatus EXCEPT ![j] = JobStatus'[j]]
      /\ JobWorker[j] = None /\ UNCHANGED JobWorker
  BY <1>2, <1>3, <1>4, IdleMove
<1>6. JobStatus[j] = "none" /\ JobStatus'[j] = "queued"
  BY <1>2, <1>3, NewRecords DEF JobStatus
<1>7. Lifecycle!Submit(j)
  BY <1>5, <1>6 DEF Lifecycle!Submit, Lifecycle!Become, Lifecycle!Idle
<1>8. QED
  BY <1>7 DEF LifeStep, Lifecycle!Next

LEMMA CancelMove ==
    ASSUME LocalInv, LocalInv', LocalMode, NEW h \in Handlers, NEW host \in Runners \cup {None}, NEW j \in Jobs, Cancel(h, host, j)
    PROVE  LifeStep
<1>1. /\ exec' = [exec EXCEPT ![j] = RequestCancel(exec[j])] /\ UNCHANGED created /\ j \in created /\ SameWorkers
  BY RequestsKeepWorkers DEF Cancel
<1>2. exec[j] \in Execution /\ exec'[j] = RequestCancel(exec[j]) /\ \A k \in Jobs : k # j => exec'[k] = exec[k]
  BY <1>1 DEF LocalInv, TypeInv, StoreTypes
<1>3. CASE exec[j].status = "queued"
  <2>1. exec'[j].status = "cancelled"
    BY <1>2, <1>3 DEF RequestCancel, Execution, Terminal
  <2>2. \A r \in Runners : ~Engaged(r, j)
    BY <1>3 DEF LocalInv, Fits, EngagedRuns
  <2>3. /\ JobStatus' = [JobStatus EXCEPT ![j] = JobStatus'[j]]
        /\ JobWorker[j] = None /\ UNCHANGED JobWorker
    BY <1>1, <1>2, <2>2, IdleMove
  <2>4. JobStatus[j] = "queued" /\ JobStatus'[j] = "cancelled"
    BY <1>3, <2>1, NewRecords DEF JobStatus
  <2>5. Lifecycle!CancelIdle(j)
    BY <2>3, <2>4 DEF Lifecycle!CancelIdle, Lifecycle!Become, Lifecycle!Idle
  <2>6. QED
    BY <2>5 DEF LifeStep, Lifecycle!Next
<1>4. CASE exec[j].status # "queued"
  <2>1. exec'[j].status = exec[j].status /\ (exec[j] = NoExec <=> exec'[j] = NoExec)
    <3>1. CASE exec[j].status \in Terminal \cup {"none"}
      BY <1>2, <3>1 DEF RequestCancel
    <3>2. CASE exec[j].status = "running"
      <4>1. exec'[j].status = "running"
        BY <1>2, <1>4, <3>2 DEF RequestCancel, Execution, Terminal
      <4>2. QED
        BY <3>2, <4>1, NewRecords
    <3>3. QED
      BY <1>2, <1>4, <3>1, <3>2 DEF Execution, ExecStatus
  <2>2. \A k \in Jobs : JobStatus'[k] = JobStatus[k]
    BY <1>1, <1>2, <2>1 DEF JobStatus
  <2>3. \A k \in Jobs : JobWorker'[k] = JobWorker[k]
    <3>1. ASSUME NEW k \in Jobs PROVE JobWorker'[k] = JobWorker[k]
      <4>1. OneUp /\ OneUp' /\ \A r \in Runners : Engaged(r, k)' <=> Engaged(r, k)
        BY <1>1 DEF LocalInv, Fits, SameWorkers
      <4>2. QED
        BY <4>1, SameWorker
    <3>2. QED
      BY <3>1
  <2>4. QED
    BY <2>2, <2>3, MappedSame DEF LifeStep
<1>5. QED
  BY <1>3, <1>4

LEMMA DeleteExecMove ==
    ASSUME LocalInv, LocalInv', NEW h \in Handlers, DeleteExec(h) PROVE LifeStep
<1>1. PICK j \in Jobs : j = hnd[h].job /\ hnd[h].pc = "delExec"
  BY HandlerAlone DEF DeleteExec, Active
<1>2. exec' = [exec EXCEPT ![j] = NoExec] /\ UNCHANGED created /\ SameWorkers
  BY <1>1, HandlersKeepWorkers DEF DeleteExec, HandlerStep
<1>3. exec[j].status \in Terminal /\ j \in created
  BY <1>1 DEF LocalInv, Fits, HandlerFits, HandlerPcs
<1>4. exec'[j] = NoExec /\ \A k \in Jobs : k # j => exec'[k] = exec[k]
  BY <1>2 DEF LocalInv, TypeInv, StoreTypes
<1>5. \A r \in Runners : ~Engaged(r, j)
  BY <1>3 DEF LocalInv, Fits, EngagedRuns, Terminal
<1>6. /\ JobStatus' = [JobStatus EXCEPT ![j] = JobStatus'[j]]
      /\ JobWorker[j] = None /\ UNCHANGED JobWorker
  BY <1>2, <1>4, <1>5, IdleMove
<1>7. JobStatus[j] \in Lifecycle!Outcomes /\ JobStatus'[j] = "deleted"
  BY <1>2, <1>3, <1>4, NewRecords DEF JobStatus, Lifecycle!Outcomes, Terminal
<1>8. Lifecycle!Delete(j)
  BY <1>6, <1>7 DEF Lifecycle!Delete, Lifecycle!Become, Lifecycle!Idle
<1>9. QED
  BY <1>8 DEF LifeStep, Lifecycle!Next

\* A runner's step that neither starts nor ends a task, nor writes an outcome.
LEMMA KeepsWorkers ==
    ASSUME NEW r \in Runners, \A q \in Runners : q # r => proc'[q] = proc[q] /\ task'[q] = task[q],
           \A k \in Jobs : task'[r][k] # "none" <=> task[r][k] # "none",
           \/ \A k \in Jobs : task[r][k] = "none"
           \/ /\ proc[r].pc \notin {"drop", "free"} \/ proc[r].out = "none"
              /\ proc'[r].pc \notin {"drop", "free"} \/ proc'[r].out = "none"
           \/ /\ proc[r].pc \in {"drop", "free"} /\ proc'[r].pc \in {"drop", "free"}
              /\ proc'[r].out = proc[r].out /\ proc'[r].cur = proc[r].cur
    PROVE  SameWorkers
BY SMTT(40) DEF SameWorkers, Engaged

LEMMA LoopMove ==
    ASSUME LocalInv, LocalInv', NEW r \in Runners,
           \/ Start(r) \/ Wake(r) \/ Renew(r) \/ List(r) \/ EndClaims(r) \/ ClaimLease(r) \/ ClaimGet(r)
           \/ \E j \in Jobs : Look(r, j) \/ Check(r, j)
           \/ Stop(r) \/ ReleaseList(r) \/ Stopped(r) \/ \E j \in Jobs : ReleaseNext(r, j)
    PROVE  LifeStep
<1>1. UNCHANGED <<exec, created>> /\ proc[r].pc \notin {"drop", "free"} /\ proc[r] \in ProcState /\ proc \in [Runners -> ProcState]
  BY ZenonT(60) DEF Start, Wake, Renew, List, EndClaims, ClaimLease, ClaimGet, Look, Check, Stop, ReleaseList, Stopped, ReleaseNext,
         storeVars, apiVars, LocalInv, TypeInv, ProcTypes
<1>2. UNCHANGED task
  <2>1. ASSUME ClaimGet(r) PROVE exec[proc[r].cur] # NoExec
    BY <2>1, NewRecords DEF ClaimGet, LocalInv, Fits, Runs, ProcOfJob, Claimable
  <2>2. QED
    BY <2>1 DEF Start, Wake, Renew, List, EndClaims, ClaimLease, ClaimGet, Look, Check, Stop, ReleaseList, Stopped, ReleaseNext
<1>3. proc'[r].pc \notin {"drop", "free"} /\ \A q \in Runners : q # r => proc'[q] = proc[q]
  <2>1. CASE Start(r) \/ Wake(r) \/ List(r)
    BY <1>1, <2>1, GotoMoves DEF Start, Wake, List, ProcState
  <2>2. CASE Renew(r) \/ EndClaims(r) \/ ClaimLease(r)
    BY <2>2, NextJobMoves, YieldMoves, GotoMoves DEF Renew, EndClaims, ClaimLease
  <2>3. CASE ClaimGet(r)
    BY <1>1, <2>3, NextJobMoves DEF ClaimGet, ProcState
  <2>4. ASSUME NEW j \in Jobs, Look(r, j) \/ Check(r, j) 
      PROVE  proc'[r].pc \notin {"drop", "free"} /\ \A q \in Runners : q # r => proc'[q] = proc[q]
    BY <1>1, <2>4, AtMoves DEF Look, Check, ProcState
  <2>5. CASE Stop(r)
    BY <1>1, <2>5 DEF Stop, ProcState
  <2>6. CASE ReleaseList(r)
    <3>1. PICK owned, doomed : proc' = [proc EXCEPT ![r].pc = "release", ![r].stop = "release", ![r].todo = owned, ![r].doomed = doomed]
      BY <2>6 DEF ReleaseList
    <3>2. QED
      BY <1>1, <3>1 DEF ProcState
  <2>7. CASE Stopped(r)
    BY <1>1, <2>7 DEF Stopped, Fresh
  <2>8. ASSUME NEW j \in Jobs, ReleaseNext(r, j) 
      PROVE  proc'[r].pc \notin {"drop", "free"} /\ \A q \in Runners : q # r => proc'[q] = proc[q]
    BY <1>1, <2>8 DEF ReleaseNext, ProcState
  <2>9. QED
    BY <2>1, <2>2, <2>3, <2>4, <2>5, <2>8, <2>7, <2>6
<1>4. SameWorkers
  BY <1>1, <1>2, <1>3, KeepsWorkers
<1>5. QED
  BY <1>1, <1>4, IdleStep

\* A task that was dropped before it ran, or that a shutdown cancelled, is abandoned.
LEMMA AbandonMove ==
    ASSUME LocalInv, LocalInv', NEW r \in Runners, NEW j \in Jobs, UNCHANGED <<exec, created>>,
           Engaged(r, j), task'[r][j] = "none", \A k \in Jobs : k # j => task'[r][k] = task[r][k],
           \A q \in Runners : q # r => proc'[q] = proc[q] /\ task'[q] = task[q],
           proc[r].pc \notin {"drop", "free"} \/ proc[r].cur = j, proc'[r].pc \notin {"drop", "free"}
    PROVE  LifeStep
<1>1. OneUp /\ OneUp'
  BY DEF LocalInv, Fits
<1>2. \A k \in Jobs : k # j => Unmoved(k)
  BY DEF Unmoved, Engaged
<1>3. \A q \in Runners : q # r => ~Engaged(q, j)
  BY DEF LocalInv, Fits, OneUp, Up, Engaged
<1>4. \A q \in Runners : ~Engaged(q, j)'
  BY <1>3 DEF Engaged
<1>5. JobWorker[j] = r /\ JobWorker'[j] = None
  BY <1>1, <1>4, WorkerIs, WorkerWillBe
<1>6. JobWorker' = [JobWorker EXCEPT ![j] = None]
  BY <1>1, <1>2, <1>5, OneMoves
<1>7. UNCHANGED JobStatus
  BY DEF JobStatus
<1>8. Lifecycle!Abandon(j)
  BY <1>5, <1>6, <1>7, NoneAssumption DEF Lifecycle!Abandon
<1>9. QED
  BY <1>8 DEF LifeStep, Lifecycle!Next

LEMMA ResumeMove ==
    ASSUME LocalInv, LocalInv', NEW r \in Runners, NEW j \in Jobs, Resume(r, j)
    PROVE  LifeStep
<1>1. UNCHANGED <<exec, created>> /\ proc[r].pc = "idle" /\ task[r][j] # "none"
  BY DEF Resume, Begin, InitFails, Initialized, Generated, DropUnstarted, Cancelled, Resumable, storeVars, apiVars
<1>2. ASSUME UNCHANGED task \/ \E at \in {"init", "gen"} : task' = [task EXCEPT ![r][j] = at],
             \/ UNCHANGED proc
             \/ \E out \in {"missing"} \cup Terminal, pc \in {"get", "save", "peek"} : Settle(r, j, out, pc)
             \/ \E pc \in {"mark", "free"} : At(r, pc, j)
      PROVE  LifeStep
  <2>1. /\ \A k \in Jobs : task'[r][k] # "none" <=> task[r][k] # "none"
        /\ \A q \in Runners : q # r => task'[q] = task[q]
    BY <1>1, <1>2 DEF LocalInv, TypeInv, RestTypes
  <2>2. proc[r].out = "none"
    BY <1>1 DEF LocalInv, Fits, Runs, ProcFits
  <2>3. /\ proc'[r].pc \notin {"drop", "free"} \/ proc'[r].out = "none"
        /\ \A q \in Runners : q # r => proc'[q] = proc[q]
    BY <1>1, <1>2, <2>2, SettleMoves, AtMoves
  <2>4. SameWorkers
    BY <1>1, <2>1, <2>3, KeepsWorkers
  <2>5. QED
    BY <1>1, <2>4, IdleStep
<1>3. CASE DropUnstarted(r, j)
  <2>1. /\ task'[r][j] = "none" /\ \A k \in Jobs : k # j => task'[r][k] = task[r][k]
        /\ \A q \in Runners : q # r => task'[q] = task[q]
        /\ UNCHANGED proc
    BY <1>3 DEF DropUnstarted, LocalInv, TypeInv, RestTypes
  <2>2. Engaged(r, j)
    BY <1>1 DEF Engaged
  <2>3. QED
    BY <1>1, <2>1, <2>2, AbandonMove
<1>4. CASE ~DropUnstarted(r, j)
  BY <1>2, <1>4 DEF Resume, Begin, InitFails, Initialized, Generated, Cancelled, Terminal
<1>5. QED
  BY <1>3, <1>4

\* Before and between the writes of an outcome.
LEMMA WriteMove ==
    ASSUME LocalInv, LocalInv', NEW r \in Runners,
           MarkInProgress(r) \/ Peek(r) \/ Save(r) \/ GetExec(r) \/ DropJobSpec(r)
    PROVE  LifeStep
<1>1. /\ UNCHANGED <<exec, created>> /\ proc[r].pc \in {"mark", "peek", "save", "get", "drop"}
      /\ ProcFits(proc[r]) /\ ProcOfJob(r) /\ proc[r] \in ProcState /\ proc \in [Runners -> ProcState]
  BY DEF MarkInProgress, Peek, Save, GetExec, DropJobSpec, storeVars, apiVars, LocalInv, Fits, Runs, TypeInv, ProcTypes
<1>2. /\ \A k \in Jobs : task'[r][k] # "none" <=> task[r][k] # "none"
      /\ \A q \in Runners : q # r => task'[q] = task[q]
  <2>1. CASE MarkInProgress(r)
    <3>1. task[r][proc[r].cur] # "none"
      BY <1>1, <2>1 DEF ProcFits, ProcOfJob, OutPcs, MarkInProgress
    <3>2. QED
      BY <2>1, <3>1 DEF MarkInProgress, LocalInv, TypeInv, RestTypes
  <2>2. CASE ~MarkInProgress(r)
    BY <2>2 DEF Peek, Save, GetExec, DropJobSpec
  <2>3. QED
    BY <2>1, <2>2
<1>3. proc[r].stop = "release" => \A k \in Jobs : task[r][k] = "none"
  BY <1>1 DEF ProcOfJob
<1>4. CASE MarkInProgress(r)
  <2>1. Yield(r)
    BY <1>4 DEF MarkInProgress
  <2>2. SameWorkers
    BY <1>2, <1>4, <2>1, YieldMoves, KeepsWorkers DEF MarkInProgress
  <2>3. QED
    BY <1>1, <2>2, IdleStep
<1>5. CASE ~MarkInProgress(r)
  <2>1. \A q \in Runners : q # r => proc'[q] = proc[q]
    BY <1>1, <1>5 DEF Peek, Save, GetExec, DropJobSpec, Goto
  <2>2. CASE proc[r].stop = "release"
    BY <1>1, <1>2, <1>3, <2>1, <2>2, KeepsWorkers, IdleStep
  <2>3. CASE proc[r].stop # "release" /\ GetExec(r)
    <3>1. exec[proc[r].cur] # NoExec
      BY <1>1, <2>3, NewRecords DEF ProcOfJob, GetExec
    <3>2. proc'[r].pc = "put" /\ proc[r].pc = "get"
      BY <1>1, <2>3, <3>1 DEF GetExec, ProcState
    <3>3. SameWorkers
      BY <1>2, <2>1, <3>2, KeepsWorkers
    <3>4. QED
      BY <1>1, <3>3, IdleStep
  <2>4. CASE proc[r].stop # "release" /\ (Peek(r) \/ Save(r))
    <3>1. proc'[r].pc \in {"save", "get"} /\ proc[r].pc \in {"peek", "save"}
      BY <2>4, GotoMoves DEF Peek, Save, Releasing
    <3>2. SameWorkers
      BY <1>2, <2>1, <3>1, KeepsWorkers
    <3>3. QED
      BY <1>1, <3>2, IdleStep
  <2>5. CASE proc[r].stop # "release" /\ DropJobSpec(r)
    <3>1. proc'[r].pc = "free" /\ proc[r].pc = "drop" /\ proc'[r].out = proc[r].out /\ proc'[r].cur = proc[r].cur
      BY <2>5, GotoMoves DEF DropJobSpec, Releasing
    <3>2. SameWorkers
      BY <1>2, <2>1, <3>1, KeepsWorkers
    <3>3. QED
      BY <1>1, <3>2, IdleStep
  <2>6. QED
    BY <1>5, <2>2, <2>3, <2>4, <2>5
<1>6. QED
  BY <1>4, <1>5

LEMMA ClaimPutMove ==
    ASSUME LocalInv, LocalInv', NEW r \in Runners, ClaimPut(r) PROVE LifeStep
<1>1. PICK j \in Jobs : /\ j = proc[r].cur /\ Claimable(exec[j]) /\ task[r][j] = "none" /\ proc[r].copy = exec[j]
                        /\ proc[r].pc = "claimPut" /\ proc[r].stop = "no" /\ proc[r].out = "none"
  BY DEF ClaimPut, LocalInv, Fits, Runs, ProcFits, ProcOfJob, TypeInv, ProcTypes, InStep, JobSteps, LoopPcs
<1>2. /\ UNCHANGED created /\ NextJob(r, "check") /\ task' = [task EXCEPT ![r][j] = "new"]
      /\ exec' = [exec EXCEPT ![j] = [exec[j] EXCEPT !.status = "running", !.owner = r]]
  BY <1>1 DEF ClaimPut, apiVars
<1>3. exec[j] \in Execution /\ exec \in [Jobs -> Execution]
  BY DEF LocalInv, TypeInv, StoreTypes
<1>4. exec'[j].status = "running" /\ \A k \in Jobs : k # j => exec'[k] = exec[k]
  BY <1>2, <1>3 DEF Execution
<1>5. /\ task'[r][j] = "new" /\ \A k \in Jobs : k # j => task'[r][k] = task[r][k]
      /\ \A q \in Runners : q # r => task'[q] = task[q]
  BY <1>2 DEF LocalInv, TypeInv, RestTypes
<1>6. proc'[r].pc = "check" /\ \A q \in Runners : q # r => proc'[q] = proc[q]
  BY <1>2, NextJobMoves
<1>7. OneUp /\ OneUp'
  BY DEF LocalInv, Fits
<1>8. \A k \in Jobs : k # j => Unmoved(k)
  BY <1>1, <1>2, <1>4, <1>5, <1>6 DEF Unmoved, Engaged
<1>9. Engaged(r, j)' /\ ~Engaged(r, j)
  BY <1>1, <1>5, <1>6 DEF Engaged
<1>10. \A q \in Runners : ~Engaged(q, j)
  BY <1>1, <1>9 DEF LocalInv, Fits, OneUp, Up, Engaged
<1>11. JobWorker[j] = None /\ JobWorker'[j] = r
  BY <1>7, <1>9, <1>10, WorkerIs, WorkerWillBe
<1>12. JobStatus[j] \in {"queued", "running"} /\ JobStatus'[j] = "running"
  BY <1>1, <1>4, NewRecords DEF JobStatus, Claimable
<1>13. JobStatus' = [JobStatus EXCEPT ![j] = "running"] /\ JobWorker' = [JobWorker EXCEPT ![j] = r]
  BY <1>7, <1>8, <1>11, <1>12, OneMoves
<1>14. Lifecycle!Claim(j, r)
  BY <1>11, <1>12, <1>13 DEF Lifecycle!Claim, Lifecycle!Become
<1>15. QED
  BY <1>14 DEF LifeStep, Lifecycle!Next

\* Writing an outcome settles the job, or ends the release of one.
LEMMA PutOutcomeMove ==
    ASSUME LocalInv, LocalInv', NEW r \in Runners, PutOutcome(r) PROVE LifeStep
<1>1. proc[r].pc = "put" /\ UNCHANGED <<task, created>>
  BY DEF PutOutcome, apiVars
<1>2. PICK j \in Jobs : /\ Alone(r) /\ ProcFits(proc[r]) /\ ProcOfJob(r) /\ j = proc[r].cur /\ proc[r] \in ProcState
  BY <1>1, Writes DEF OutPcs
<1>3. /\ exec[j].status = "running" /\ proc[r].copy = exec[j] /\ proc[r].out \in {"queued"} \cup Terminal
      /\ proc[r].stop = "release" => proc[r].out \in {"queued", "cancelled"} /\ \A k \in Jobs : task[r][k] = "none"
      /\ proc[r].stop # "release" => proc[r].out \in Terminal /\ task[r][j] # "none"
  BY <1>1, <1>2 DEF ProcFits, ProcOfJob, OutPcs
<1>4. exec' = [exec EXCEPT ![j] = [exec[j] EXCEPT !.owner = None, !.status = proc[r].out]]
  BY <1>2, <1>3 DEF PutOutcome, Terminal
<1>5. exec'[j].status = proc[r].out /\ \A k \in Jobs : k # j => exec'[k] = exec[k]
  <2>1. exec \in [Jobs -> Execution] /\ exec[j] \in Execution
    BY DEF LocalInv, TypeInv, StoreTypes
  <2>2. QED
    BY <1>4, <2>1 DEF Execution
<1>6. /\ proc'[r].pc \in {"free", "drop"} /\ proc'[r].cur = j /\ proc'[r].out = proc[r].out
      /\ \A q \in Runners : q # r => proc'[q] = proc[q]
  <2>1. AfterPut(r) \in {"free", "drop"}
    BY DEF AfterPut
  <2>2. proc' = [proc EXCEPT ![r].pc = AfterPut(r), ![r].copy = NoExec]
    BY DEF PutOutcome
  <2>3. QED
    BY <1>2, <2>1, <2>2 DEF LocalInv, TypeInv, ProcTypes, ProcState
<1>7. OneUp /\ OneUp' /\ \A q \in Runners, k \in Jobs : q # r => task[q][k] = "none"
  BY <1>2, RunnerAlone DEF Alone, LocalInv, Fits
<1>8. \A k \in Jobs : k # j => Unmoved(k)
  BY <1>1, <1>2, <1>5, <1>6 DEF Unmoved, Engaged
<1>9. \A q \in Runners : ~Engaged(q, j)'
  BY <1>1, <1>3, <1>6, <1>7 DEF Engaged, Terminal
<1>10. JobWorker'[j] = None
  BY <1>7, <1>9, WorkerWillBe
<1>11. JobStatus[j] = "running" /\ JobStatus'[j] = proc[r].out
  BY <1>3, <1>5, NewRecords DEF JobStatus, Terminal
<1>12. JobStatus' = [JobStatus EXCEPT ![j] = proc[r].out] /\ JobWorker' = [JobWorker EXCEPT ![j] = None]
  BY <1>7, <1>8, <1>10, <1>11, OneMoves
<1>13. CASE proc[r].stop = "release"
  <2>1. \A q \in Runners : ~Engaged(q, j)
    BY <1>3, <1>7, <1>13 DEF Engaged
  <2>2. JobWorker[j] = None
    BY <1>7, <2>1, WorkerIs
  <2>3. UNCHANGED JobWorker
    BY <1>1, <1>3, <1>6, <1>7, <1>8, <1>10, <2>2, MappedWorker, UnmovedStays
  <2>4. Lifecycle!Requeue(j) \/ Lifecycle!CancelIdle(j)
    BY <1>3, <1>11, <1>12, <1>13, <2>2, <2>3 DEF Lifecycle!Requeue, Lifecycle!CancelIdle, Lifecycle!Become, Lifecycle!Idle
  <2>5. QED
    BY <2>4 DEF LifeStep, Lifecycle!Next
<1>14. CASE proc[r].stop # "release"
  <2>1. Engaged(r, j)
    BY <1>1, <1>3, <1>14 DEF Engaged
  <2>2. JobWorker[j] # None
    BY <1>7, <2>1, WorkerIs, NoneAssumption
  <2>3. Lifecycle!Settle(j, proc[r].out)
    BY <1>11, <1>12, <2>2 DEF Lifecycle!Settle, Lifecycle!Become
  <2>4. proc[r].out \in Lifecycle!Outcomes
    BY <1>3, <1>14 DEF Lifecycle!Outcomes, Terminal
  <2>5. QED
    BY <2>3, <2>4 DEF LifeStep, Lifecycle!Next
<1>15. QED
  BY <1>13, <1>14

LEMMA FreeMove ==
    ASSUME LocalInv, LocalInv', NEW r \in Runners, Free(r) PROVE LifeStep
<1>1. proc[r].pc = "free" /\ UNCHANGED <<exec, created>>
  BY DEF Free, apiVars
<1>2. PICK j \in Jobs : /\ Alone(r) /\ ProcFits(proc[r]) /\ ProcOfJob(r) /\ j = proc[r].cur /\ proc[r] \in ProcState
  BY <1>1, Writes
<1>3. /\ task'[r][j] = "none" /\ \A k \in Jobs : k # j => task'[r][k] = task[r][k]
      /\ \A q \in Runners : q # r => task'[q] = task[q]
  BY <1>2 DEF Free, LocalInv, TypeInv, RestTypes
<1>4. CASE Releasing(r)
  <2>1. \A k \in Jobs : task[r][k] = "none"
    BY <1>2, <1>4 DEF ProcOfJob, Releasing
  <2>2. \A q \in Runners : q # r => proc'[q] = proc[q]
    BY <1>4 DEF Free, LocalInv, TypeInv, ProcTypes
  <2>3. \A k \in Jobs : task'[r][k] = "none"
    BY <1>3, <2>1
  <2>4. SameWorkers
    BY <1>3, <2>1, <2>2, <2>3, KeepsWorkers
  <2>5. QED
    BY <1>1, <2>4, IdleStep
<1>5. CASE ~Releasing(r)
  <2>1. proc'[r].pc = "idle" /\ \A q \in Runners : q # r => proc'[q] = proc[q]
    BY <1>5, YieldMoves DEF Free
  <2>2. CASE proc[r].out = "none"
    <3>1. Engaged(r, j)
      BY <1>1, <1>2, <1>5, <2>2 DEF Engaged, ProcOfJob, Releasing
    <3>2. QED
      BY <1>1, <1>2, <1>3, <2>1, <3>1, AbandonMove
  <2>3. CASE proc[r].out # "none"
    <3>1. SameWorkers
      BY <1>1, <1>2, <1>3, <2>1, <2>3 DEF SameWorkers, Engaged
    <3>2. QED
      BY <1>1, <3>1, IdleStep
  <2>4. QED
    BY <2>2, <2>3
<1>6. QED
  BY <1>4, <1>5

LEMMA NextLife ==
    ASSUME LocalInv, LocalInv', LocalMode, [Next]_vars PROVE [Lifecycle!Next]_<<JobStatus, JobWorker>>
<1>1. ASSUME NEW h \in Handlers, NEW host \in Runners \cup {None}, NEW j \in Jobs,
             Create(h, host, j) \/ Cancel(h, host, j) \/ Delete(h, host, j)
      PROVE  LifeStep
  <2>1. CASE Create(h, host, j) \/ Delete(h, host, j)
    BY <2>1, RequestsKeepWorkers, IdleStep DEF Create, Delete
  <2>2. QED
    BY <1>1, <2>1, CancelMove
<1>2. ASSUME NEW h \in Handlers, HandlerStep(h) \/ WorkerCrash(h) PROVE LifeStep
  <2>1. ~WorkerCrash(h)
    BY DEF WorkerCrash, LocalMode
  <2>2. CASE PutExec(h) \/ DeleteExec(h)
    BY <2>2, PutExecMove, DeleteExecMove
  <2>3. CASE ~(PutExec(h) \/ DeleteExec(h))
    <3>1. UNCHANGED <<exec, created>>
      BY <1>2, <2>1, <2>3 DEF HandlerStep, PutSpec, LoadResponse, SaveResponse, DropSpec, Answer,
         DeleteCheck, DeleteRecord, DeleteSpec, DeleteLease
    <3>2. QED
      BY <1>2, <2>1, <3>1, HandlersKeepWorkers, IdleStep
  <2>4. QED
    BY <2>2, <2>3
<1>3. ASSUME NEW r \in Runners, Start(r) \/ Wake(r) \/ LoopStep(r) \/ Stop(r) \/ StopStep(r) PROVE LifeStep
  BY <1>3, LoopMove, ClaimPutMove DEF LoopStep, StopStep
<1>4. ASSUME NEW r \in Runners, TaskStep(r) \/ Crash(r) PROVE LifeStep
  <2>1. ~Crash(r)
    BY DEF Crash, LocalMode
  <2>2. QED
    BY <1>4, <2>1, WriteMove, PutOutcomeMove, FreeMove DEF TaskStep
<1>5. ASSUME NEW j \in Jobs, Expire(j) PROVE LifeStep
  <2>1. UNCHANGED <<exec, created, proc, task>>
    BY <1>5 DEF Expire, runnerVars, apiVars
  <2>2. SameWorkers
    BY <2>1 DEF SameWorkers, Engaged
  <2>3. QED
    BY <2>1, <2>2, IdleStep
<1>6. ASSUME UNCHANGED vars PROVE LifeStep
  <2>1. UNCHANGED <<exec, created, proc, task>>
    BY <1>6 DEF vars
  <2>2. SameWorkers
    BY <2>1 DEF SameWorkers, Engaged
  <2>3. QED
    BY <2>1, <2>2, IdleStep
<1>7. LifeStep
  BY <1>1, <1>2, <1>3, <1>4, <1>5, <1>6, ResumeMove DEF Next
<1>8. QED
  BY <1>7 DEF LifeStep

LEMMA InitLife == Init => Lifecycle!Init
<1> SUFFICES ASSUME Init PROVE Lifecycle!Init
  OBVIOUS
<1>1. \A j \in Jobs : exec[j].status = "none" /\ j \notin created /\ \A r \in Runners : ~Engaged(r, j)
  BY NewRecords DEF Init, Engaged
<1>2. JobStatus = [j \in Jobs |-> "none"] /\ JobWorker = [j \in Jobs |-> None]
  BY <1>1 DEF JobStatus, JobWorker
<1>3. QED
  BY <1>2 DEF Lifecycle!Init

\* In local mode every behaviour of the handlers and the runner is, for each job, one
\* of module JobLifecycle: submitted once, worked on by one runner at a time and only
\* while it is running, its outcome written once, nothing started over.
THEOREM Refinement ==
    ASSUME LocalMode PROVE Spec => ImplementsLifecycle
<1>1. LocalInv /\ LocalInv' /\ [Next]_vars => [Lifecycle!Next]_<<JobStatus, JobWorker>>
  BY NextLife
<1>2. QED
  BY <1>1, InitLife, LocalInvAlways, PTL DEF Spec, ImplementsLifecycle, Lifecycle!Spec

-----------------------------------------------------------------------------
(* Any number of runners and API workers, any of which may crash: what a     *)
(* completed execution says of the stored response, where clients only       *)
(* create.                                                                   *)

OnlyCreations == "stall" \notin Faults /\ Ops = {}

\* Nobody asks for a cancellation, so nobody sees one.
NoCancels ==
    /\ \A j \in Jobs : ~exec[j].cancel
    /\ \A r \in Runners : ~proc[r].copy.cancel /\ proc[r].doomed = {}
    /\ \A h \in Handlers : hnd[h].pc \in {"idle", "putSpec", "putExec"}

\* In local mode a handler at work occupies its process, alone.
HostBusy ==
    \A h \in Handlers : Active(h) /\ hnd[h].host \in Runners =>
        /\ proc[hnd[h].host].pc = "api"
        /\ \A g \in Handlers : Active(g) /\ hnd[g].host = hnd[h].host => g = h

\* A runner that gives its work up has no tasks left, and puts jobs back in the queue.
ReleaseFits(r) ==
    /\ proc[r].pc = "release" => Releasing(r)
    /\ Releasing(r) => /\ proc[r].pc \in {"release", "get", "put", "free"}
                       /\ proc[r].pc \in {"get", "put"} => proc[r].out = "queued"
                       /\ \A j \in Jobs : task[r][j] = "none"

\* Any other one that writes an outcome has a task for the job; the outcome is "completed"
\* only once the response says so.
OutcomeFits(r) == ~Releasing(r) /\ proc[r].pc \in {"peek", "save", "get", "put"} =>
    /\ task[r][proc[r].cur] # "none"
    /\ proc[r].pc = "peek" => proc[r].out # "completed"
    /\ proc[r].pc \in {"get", "put"} /\ proc[r].out = "completed" /\ proc[r].cur \in Stored => record[proc[r].cur] = "completed"

WritersFit == \A r \in Runners : ReleaseFits(r) /\ OutcomeFits(r)

\* A completed execution has a completed response, and nobody is about to change it.
ResponseFirst == \A j \in Stored : exec[j].status = "completed" => record[j] = "completed"

EngagedOpen == \A r \in Runners, j \in Jobs : Engaged(r, j) => exec[j].status # "completed"

StoredInv == NoCancels /\ HostBusy /\ WritersFit /\ ResponseFirst /\ EngagedOpen

\* What r's step must see to.
LEMMA WriterStep ==
    ASSUME StoredInv, NEW r \in Runners, proc[r].pc # "api", UNCHANGED hnd,
           \A q \in Runners : q # r => proc'[q] = proc[q] /\ task'[q] = task[q],
           \A j \in Jobs : ~exec'[j].cancel, ~proc'[r].copy.cancel, proc'[r].doomed = {},
           ReleaseFits(r)', OutcomeFits(r)', \A j \in Jobs : Engaged(r, j)' => exec'[j].status # "completed",
           ResponseFirst',
           \A q \in Runners, k \in Jobs : q # r /\ task[q][k] # "none" =>
               (exec'[k].status = "completed" => exec[k].status = "completed"),
           \A q \in Runners : q # r /\ proc[q].cur \in Stored /\ task[q][proc[q].cur] # "none" => record'[proc[q].cur] = record[proc[q].cur]
    PROVE  StoredInv'
<1>1. NoCancels'
  BY DEF StoredInv, NoCancels
<1>2. HostBusy'
  <2> SUFFICES ASSUME NEW h \in Handlers, Active(h), hnd[h].host \in Runners
               PROVE  /\ proc'[hnd[h].host].pc = "api"
                      /\ \A g \in Handlers : Active(g) /\ hnd[g].host = hnd[h].host => g = h
    BY DEF HostBusy, Active
  <2>1. proc[hnd[h].host].pc = "api" /\ \A g \in Handlers : Active(g) /\ hnd[g].host = hnd[h].host => g = h
    BY DEF StoredInv, HostBusy
  <2>2. hnd[h].host # r
    BY <2>1
  <2>3. QED
    BY <2>1, <2>2
<1>3. WritersFit'
  <2>1. ASSUME NEW q \in Runners, q # r PROVE ReleaseFits(q)' /\ OutcomeFits(q)'
    BY <2>1 DEF StoredInv, WritersFit, ReleaseFits, OutcomeFits, Releasing
  <2>2. QED
    BY <2>1 DEF WritersFit
<1>4. EngagedOpen'
  <2>1. ASSUME NEW q \in Runners, NEW j \in Jobs, q # r, Engaged(q, j)' PROVE exec'[j].status # "completed"
    <3>1. Engaged(q, j) /\ task[q][j] # "none"
      BY <2>1 DEF Engaged
    <3>2. QED
      BY <2>1, <3>1 DEF StoredInv, EngagedOpen
  <2>2. QED
    BY <2>1 DEF EngagedOpen
<1>5. QED
  BY <1>1, <1>2, <1>3, <1>4 DEF StoredInv

\* A step that writes neither a response nor an execution.
LEMMA ReadStep ==
    ASSUME StoredInv, NEW r \in Runners, proc[r].pc # "api", UNCHANGED <<hnd, record, exec>>,
           \A q \in Runners : q # r => proc'[q] = proc[q] /\ task'[q] = task[q],
           ~proc'[r].copy.cancel, proc'[r].doomed = {},
           ReleaseFits(r)', OutcomeFits(r)', \A j \in Jobs : Engaged(r, j)' => Engaged(r, j) \/ exec[j].status # "completed"
    PROVE  StoredInv'
<1>1. ResponseFirst' /\ \A j \in Jobs : ~exec'[j].cancel
  BY DEF StoredInv, ResponseFirst, NoCancels
<1>2. \A j \in Jobs : Engaged(r, j)' => exec'[j].status # "completed"
  BY DEF StoredInv, EngagedOpen
<1>3. QED
  BY <1>1, <1>2, WriterStep

\* What StoredInv says of one runner.
LEMMA RunnerFits ==
    ASSUME TypeInv, StoredInv, NEW r \in Runners
    PROVE  /\ ReleaseFits(r) /\ OutcomeFits(r) /\ ~proc[r].copy.cancel /\ proc[r].doomed = {}
           /\ proc[r] \in ProcState /\ proc \in [Runners -> ProcState]
BY DEF StoredInv, WritersFit, NoCancels, TypeInv, ProcTypes

\* The loop's steps before the claim's last, and those of a shutdown.
LEMMA LoopKeeps ==
    ASSUME TypeInv, StoredInv, NEW r \in Runners,
           Start(r) \/ Wake(r) \/ Renew(r) \/ List(r) \/ EndClaims(r) \/ ClaimLease(r)
    PROVE  StoredInv'
<1>1. /\ UNCHANGED <<record, exec, task, hnd>>
      /\ proc[r].pc \in {"unborn", "idle", "renew", "list", "check", "lease"}
  BY DEF Start, Wake, Renew, List, EndClaims, ClaimLease, storeVars, apiVars
<1>2. ~Releasing(r)
  BY <1>1, RunnerFits DEF ReleaseFits
<1>3. /\ proc'[r].pc \in {"list", "look", "check", "idle", "claimGet"} /\ proc'[r].stop = proc[r].stop
      /\ ~proc'[r].copy.cancel /\ proc'[r].doomed = {}
      /\ \A q \in Runners : q # r => proc'[q] = proc[q]
  <2>1. CASE Start(r)
    BY <2>1, RunnerFits, GotoSets DEF Start
  <2>2. CASE Wake(r) \/ List(r)
    BY <2>2, RunnerFits, GotoSets DEF Wake, List, ProcState
  <2>3. CASE Renew(r) \/ EndClaims(r) \/ ClaimLease(r)
    BY <2>3, RunnerFits, NextJobSets, YieldSets, GotoSets, NewRecords DEF Renew, EndClaims, ClaimLease
  <2>4. QED
    BY <2>1, <2>2, <2>3
<1>4. ReleaseFits(r)' /\ OutcomeFits(r)'
  BY <1>2, <1>3 DEF ReleaseFits, OutcomeFits, Releasing
<1>5. \A j \in Jobs : Engaged(r, j)' => Engaged(r, j)
  BY <1>1 DEF Engaged
<1>6. QED
  BY <1>1, <1>3, <1>4, <1>5, ReadStep

LEMMA LookKeeps ==
    ASSUME TypeInv, StoredInv, NEW r \in Runners, NEW j \in Jobs, Look(r, j) \/ Check(r, j)
    PROVE  StoredInv'
<1>1. UNCHANGED <<record, exec, task, hnd>> /\ proc[r].pc \in {"look", "check"}
  BY DEF Look, Check, storeVars, apiVars
<1>2. ~Releasing(r)
  BY <1>1, RunnerFits DEF ReleaseFits
<1>3. /\ proc'[r].pc \in {"renew", "lease", "check"} /\ proc'[r].stop = proc[r].stop
      /\ ~proc'[r].copy.cancel /\ proc'[r].doomed = {}
      /\ \A q \in Runners : q # r => proc'[q] = proc[q]
  BY <1>1, RunnerFits, AtSets DEF Look, Check, ProcState
<1>4. ReleaseFits(r)' /\ OutcomeFits(r)'
  BY <1>2, <1>3 DEF ReleaseFits, OutcomeFits, Releasing
<1>5. \A k \in Jobs : Engaged(r, k)' => Engaged(r, k)
  BY <1>1 DEF Engaged
<1>6. QED
  BY <1>1, <1>3, <1>4, <1>5, ReadStep

LEMMA ClaimGetKeeps ==
    ASSUME TypeInv, StoredInv, NEW r \in Runners, ClaimGet(r) PROVE StoredInv'
<1>1. UNCHANGED <<record, exec, hnd>> /\ proc[r].pc = "claimGet" /\ proc[r].cur \in Jobs
  BY DEF ClaimGet, storeVars, apiVars, TypeInv, ProcTypes, InStep, JobSteps
<1>2. ~Releasing(r)
  BY <1>1, RunnerFits DEF ReleaseFits
<1>3. /\ proc'[r].pc \in {"check", "claimPut"} /\ proc'[r].stop = proc[r].stop
      /\ ~proc'[r].copy.cancel /\ proc'[r].doomed = {}
      /\ \A q \in Runners : q # r => proc'[q] = proc[q]
  <2>1. CASE exec[proc[r].cur] = NoExec
    BY <2>1, RunnerFits, NextJobSets, NewRecords DEF ClaimGet
  <2>2. CASE exec[proc[r].cur] # NoExec
    <3>1. ~exec[proc[r].cur].cancel
      BY <1>1 DEF StoredInv, NoCancels
    <3>2. QED
      BY <2>2, <3>1, RunnerFits DEF ClaimGet, ProcState
  <2>3. QED
    BY <2>1, <2>2
<1>4. /\ \A k \in Jobs : task'[r][k] # task[r][k] => exec[k] = NoExec
      /\ \A q \in Runners : q # r => task'[q] = task[q]
  BY <1>1 DEF ClaimGet, TypeInv, RestTypes
<1>5. ReleaseFits(r)' /\ OutcomeFits(r)'
  BY <1>2, <1>3 DEF ReleaseFits, OutcomeFits, Releasing
<1>6. \A k \in Jobs : Engaged(r, k)' => Engaged(r, k) \/ exec[k].status # "completed"
  BY <1>1, <1>4, NewRecords DEF Engaged
<1>7. QED
  BY <1>1, <1>3, <1>4, <1>5, <1>6, ReadStep

LEMMA ShutdownKeeps ==
    ASSUME TypeInv, StoredInv, NEW r \in Runners,
           Stop(r) \/ ReleaseList(r) \/ Stopped(r) \/ \E j \in Jobs : ReleaseNext(r, j)
    PROVE  StoredInv'
<1>1. UNCHANGED <<record, exec, task, hnd>> /\ proc[r].pc \in {"idle", "release"}
  BY DEF Stop, ReleaseList, Stopped, ReleaseNext, storeVars, apiVars
<1>2. \A k \in Jobs : Engaged(r, k)' => Engaged(r, k)
  BY <1>1 DEF Engaged
<1>3. CASE Stop(r)
  <2>1. /\ proc'[r].pc = "idle" /\ proc'[r].stop = "tasks" /\ ~proc'[r].copy.cancel /\ proc'[r].doomed = {}
        /\ \A q \in Runners : q # r => proc'[q] = proc[q]
    BY <1>3, RunnerFits DEF Stop, ProcState
  <2>2. ReleaseFits(r)' /\ OutcomeFits(r)'
    BY <2>1 DEF ReleaseFits, OutcomeFits, Releasing
  <2>3. QED
    BY <1>1, <1>2, <2>1, <2>2, ReadStep
<1>4. CASE ReleaseList(r)
  <2> DEFINE owned == {j \in Jobs : exec[j].owner = r /\ exec[j].status = "running"}
             doomed == {j \in owned : exec[j].cancel}
  <2>1. doomed = {}
    BY DEF StoredInv, NoCancels
  <2>2. proc' = [proc EXCEPT ![r].pc = "release", ![r].stop = "release", ![r].todo = owned, ![r].doomed = doomed]
    BY <1>4 DEF ReleaseList
  <2> HIDE DEF owned, doomed
  <2>3. /\ proc'[r].pc = "release" /\ proc'[r].stop = "release" /\ ~proc'[r].copy.cancel /\ proc'[r].doomed = {}
        /\ \A q \in Runners : q # r => proc'[q] = proc[q]
    BY <2>1, <2>2, RunnerFits DEF ProcState
  <2>4. \A j \in Jobs : task[r][j] = "none"
    BY <1>4 DEF ReleaseList, Tasks
  <2>5. ReleaseFits(r)' /\ OutcomeFits(r)'
    BY <1>1, <2>3, <2>4 DEF ReleaseFits, OutcomeFits, Releasing
  <2>6. QED
    BY <1>1, <1>2, <2>3, <2>5, ReadStep
<1>5. CASE Stopped(r)
  <2>1. proc' = [proc EXCEPT ![r] = [Fresh EXCEPT !.pc = "down"]]
    BY <1>5 DEF Stopped
  <2>2. /\ proc'[r].pc = "down" /\ proc'[r].stop = "no" /\ proc'[r].copy = NoExec /\ proc'[r].doomed = {}
        /\ \A q \in Runners : q # r => proc'[q] = proc[q]
    BY <2>1, RunnerFits DEF Fresh
  <2>3. ReleaseFits(r)' /\ OutcomeFits(r)'
    BY <2>2 DEF ReleaseFits, OutcomeFits, Releasing
  <2>4. QED
    BY <1>1, <1>2, <2>2, <2>3, ReadStep, NewRecords
<1>6. ASSUME NEW j \in Jobs, ReleaseNext(r, j) PROVE StoredInv'
  <2>1. proc[r].doomed = {} /\ proc[r].stop = "release" /\ \A k \in Jobs : task[r][k] = "none"
    BY <1>6, RunnerFits DEF ReleaseNext, ReleaseFits, Releasing
  <2>2. /\ proc'[r].pc = "get" /\ proc'[r].out = "queued" /\ proc'[r].stop = "release"
        /\ ~proc'[r].copy.cancel /\ proc'[r].doomed = {}
        /\ \A q \in Runners : q # r => proc'[q] = proc[q]
    <3>1. proc' = [proc EXCEPT ![r].cur = j, ![r].todo = proc[r].todo \ {j}, ![r].pc = "get", ![r].out = "queued"]
      BY <1>6, <2>1 DEF ReleaseNext
    <3>2. QED
      BY <2>1, <3>1, RunnerFits DEF ProcState
  <2>3. ReleaseFits(r)' /\ OutcomeFits(r)'
    BY <1>1, <2>1, <2>2 DEF ReleaseFits, OutcomeFits, Releasing
  <2>4. QED
    BY <1>1, <1>2, <2>2, <2>3, ReadStep, SMTT(40)
<1>7. QED
  BY <1>3, <1>4, <1>5, <1>6, SMTT(40)

\* A task goes on, or takes the process to write what became of its job.
LEMMA TaskGoesOn ==
    ASSUME TypeInv, StoredInv, NEW r \in Runners, NEW j \in Jobs, proc[r].pc = "idle", task[r][j] # "none",
           UNCHANGED <<record, exec, hnd>>,
           UNCHANGED task \/ \E at \in {"init", "gen", "none"} : task' = [task EXCEPT ![r][j] = at],
           \/ UNCHANGED proc
           \/ /\ UNCHANGED task
              /\ \E out \in {"missing", "failed"} : Settle(r, j, out, "get")
           \/ /\ UNCHANGED task
              /\ Settle(r, j, "cancelled", "peek")
           \/ /\ UNCHANGED task
              /\ \E out \in Terminal : Settle(r, j, out, "save")
           \/ /\ UNCHANGED task /\ j \notin Stored
              /\ \E out \in Terminal : Settle(r, j, out, "get")
           \/ UNCHANGED task /\ \E pc \in {"mark", "free"} : At(r, pc, j)
    PROVE  StoredInv'
<1>1. ~Releasing(r)
  BY RunnerFits DEF ReleaseFits
<1>2. /\ \A k \in Jobs : task'[r][k] # "none" => task[r][k] # "none"
      /\ \A q \in Runners : q # r => task'[q] = task[q]
  BY DEF TypeInv, RestTypes
<1> DEFINE Goal ==
          /\ proc'[r].stop = proc[r].stop /\ ~proc'[r].copy.cancel /\ proc'[r].doomed = {}
          /\ \A q \in Runners : q # r => proc'[q] = proc[q]
          /\ \/ proc'[r].pc \in {"idle", "mark", "free"}
             \/ /\ proc'[r].pc \in {"get", "peek", "save"} /\ proc'[r].cur = j /\ UNCHANGED task
                /\ proc'[r].pc = "peek" => proc'[r].out # "completed"
                /\ proc'[r].pc = "get" /\ proc'[r].out = "completed" => j \notin Stored
<1>3. Goal
  <2>1. CASE UNCHANGED proc
    BY <2>1, RunnerFits
  <2>2. ASSUME NEW out \in {"missing", "failed"}, Settle(r, j, out, "get"), UNCHANGED task PROVE Goal
    BY <2>2, SettleSets, RunnerFits
  <2>3. CASE Settle(r, j, "cancelled", "peek") /\ UNCHANGED task
    BY <2>3, SettleSets, RunnerFits
  <2>4. ASSUME NEW out \in Terminal, Settle(r, j, out, "save"), UNCHANGED task PROVE Goal
    BY <2>4, SettleSets, RunnerFits
  <2>5. ASSUME NEW out \in Terminal, Settle(r, j, out, "get"), UNCHANGED task, j \notin Stored PROVE Goal
    BY <2>5, SettleSets, RunnerFits
  <2>6. ASSUME NEW pc \in {"mark", "free"}, At(r, pc, j) PROVE Goal
    BY <2>6, AtSets, RunnerFits
  <2>7. QED
    BY <2>1, <2>2, <2>3, <2>4, <2>5, <2>6
<1>4. ReleaseFits(r)' /\ OutcomeFits(r)'
  BY <1>1, <1>3 DEF ReleaseFits, OutcomeFits, Releasing
<1>5. \A k \in Jobs : Engaged(r, k)' => Engaged(r, k)
  BY <1>2 DEF Engaged
<1>6. QED
  BY <1>2, <1>3, <1>4, <1>5, ReadStep

LEMMA ResumeKeeps ==
    ASSUME TypeInv, StoredInv, NEW r \in Runners, NEW j \in Jobs, Resume(r, j) PROVE StoredInv'
<1>1. UNCHANGED <<record, exec, hnd>> /\ proc[r].pc = "idle" /\ task[r][j] # "none"
  BY DEF Resume, Begin, InitFails, Initialized, Generated, DropUnstarted, Cancelled, Resumable, storeVars, apiVars
<1>2. CASE Begin(r, j) \/ InitFails(r, j)
  BY <1>1, <1>2, TaskGoesOn DEF Begin, InitFails
<1>3. CASE Initialized(r, j) \/ DropUnstarted(r, j) \/ Cancelled(r, j)
  BY <1>1, <1>3, TaskGoesOn DEF Initialized, DropUnstarted, Cancelled
<1>4. ASSUME NEW out \in {"completed", "failed"}, Generated(r, j, out) PROVE StoredInv'
  <2>1. UNCHANGED task /\ out \in Terminal
    BY <1>4 DEF Generated, Terminal
  <2>2. CASE j \in Stored
    BY <1>1, <1>4, <2>1, <2>2, TaskGoesOn DEF Generated
  <2>3. CASE j \notin Stored
    BY <1>1, <1>4, <2>1, <2>3, TaskGoesOn DEF Generated
  <2>4. QED
    BY <2>2, <2>3
<1>5. QED
  BY <1>2, <1>3, <1>4 DEF Resume

\* Looking before writing, and what is left to do after it.
LEMMA PeekKeeps ==
    ASSUME TypeInv, StoredInv, NEW r \in Runners, Peek(r) \/ GetExec(r) \/ DropJobSpec(r) PROVE StoredInv'
<1>1. /\ UNCHANGED <<record, exec, task, hnd>> /\ proc[r].pc \in {"peek", "get", "drop"} /\ proc[r].cur \in Jobs
  BY DEF Peek, GetExec, DropJobSpec, storeVars, apiVars, TypeInv, ProcTypes, InStep, JobSteps
<1>2. CASE Peek(r)
  <2>1. ~Releasing(r) /\ proc[r].pc = "peek" /\ proc[r].out # "completed" /\ task[r][proc[r].cur] # "none"
    BY <1>2, RunnerFits DEF Peek, ReleaseFits, OutcomeFits
  <2>2. /\ proc'[r].pc \in {"save", "get"} /\ proc'[r].cur = proc[r].cur /\ proc'[r].out = proc[r].out
        /\ proc'[r].stop = proc[r].stop /\ ~proc'[r].copy.cancel /\ proc'[r].doomed = {}
        /\ \A q \in Runners : q # r => proc'[q] = proc[q]
    BY <1>2, <2>1, RunnerFits, GotoSets DEF Peek
  <2>3. ReleaseFits(r)' /\ OutcomeFits(r)'
    BY <1>1, <2>1, <2>2 DEF ReleaseFits, OutcomeFits, Releasing
  <2>4. \A k \in Jobs : Engaged(r, k)' => Engaged(r, k)
    BY <1>1, <2>1 DEF Engaged
  <2>5. QED
    BY <1>1, <2>2, <2>3, <2>4, ReadStep
<1>3. CASE GetExec(r)
  <2> DEFINE e == exec[proc[r].cur]
             pc == IF e = NoExec THEN AfterPut(r) ELSE "put"
  <2>1. proc[r].pc = "get" /\ proc' = [proc EXCEPT ![r].pc = pc, ![r].copy = e]
    BY <1>3 DEF GetExec
  <2>2. ~e.cancel /\ pc \in {"put", "free", "drop"} /\ (Releasing(r) => pc \in {"put", "free"})
    BY <1>1 DEF StoredInv, NoCancels, AfterPut
  <2> HIDE DEF e, pc
  <2>3. /\ proc'[r].pc = pc /\ proc'[r].cur = proc[r].cur /\ proc'[r].out = proc[r].out
        /\ proc'[r].stop = proc[r].stop /\ ~proc'[r].copy.cancel /\ proc'[r].doomed = {}
        /\ \A q \in Runners : q # r => proc'[q] = proc[q]
    BY <2>1, <2>2, RunnerFits DEF ProcState
  <2>4. ReleaseFits(r)' /\ OutcomeFits(r)'
    BY <1>1, <2>1, <2>2, <2>3, RunnerFits DEF ReleaseFits, OutcomeFits, Releasing
  <2>5. \A k \in Jobs : Engaged(r, k)' => Engaged(r, k)
    BY <1>1, <2>1 DEF Engaged
  <2>6. QED
    BY <1>1, <2>3, <2>4, <2>5, ReadStep
<1>4. CASE DropJobSpec(r)
  <2>1. ~Releasing(r) /\ proc[r].pc = "drop"
    BY <1>4, RunnerFits DEF DropJobSpec, ReleaseFits
  <2>2. /\ proc'[r].pc = "free" /\ proc'[r].cur = proc[r].cur /\ proc'[r].out = proc[r].out
        /\ proc'[r].stop = proc[r].stop /\ ~proc'[r].copy.cancel /\ proc'[r].doomed = {}
        /\ \A q \in Runners : q # r => proc'[q] = proc[q]
    BY <1>4, <2>1, RunnerFits, GotoSets DEF DropJobSpec
  <2>3. ReleaseFits(r)' /\ OutcomeFits(r)'
    BY <2>1, <2>2 DEF ReleaseFits, OutcomeFits, Releasing
  <2>4. \A k \in Jobs : Engaged(r, k)' => Engaged(r, k)
    BY <1>1, <2>1, <2>2 DEF Engaged
  <2>5. QED
    BY <1>1, <2>2, <2>3, <2>4, ReadStep
<1>5. QED
  BY <1>2, <1>3, <1>4

LEMMA FreeKeeps ==
    ASSUME TypeInv, StoredInv, NEW r \in Runners, Free(r) PROVE StoredInv'
<1>1. UNCHANGED <<record, exec, hnd>> /\ proc[r].pc = "free" /\ proc[r].cur \in Jobs
  BY DEF Free, apiVars, TypeInv, ProcTypes, InStep, JobSteps
<1>2. /\ task'[r][proc[r].cur] = "none" /\ \A k \in Jobs : k # proc[r].cur => task'[r][k] = task[r][k]
      /\ \A q \in Runners : q # r => task'[q] = task[q]
  BY <1>1 DEF Free, TypeInv, RestTypes
<1>3. /\ proc'[r].pc = (IF Releasing(r) THEN "release" ELSE "idle") /\ proc'[r].stop = proc[r].stop
      /\ ~proc'[r].copy.cancel /\ proc'[r].doomed = {}
      /\ \A q \in Runners : q # r => proc'[q] = proc[q]
  <2>1. CASE Releasing(r)
    BY <2>1, RunnerFits DEF Free, ProcState
  <2>2. CASE ~Releasing(r)
    BY <2>2, YieldSets, NewRecords DEF Free
  <2>3. QED
    BY <2>1, <2>2
<1>4. ReleaseFits(r)' /\ OutcomeFits(r)'
  BY <1>1, <1>2, <1>3, RunnerFits DEF ReleaseFits, OutcomeFits, Releasing
<1>5. \A k \in Jobs : Engaged(r, k)' => Engaged(r, k)
  BY <1>2 DEF Engaged
<1>6. QED
  BY <1>1, <1>2, <1>3, <1>4, <1>5, ReadStep

\* A runner with a task for a job is the only one with it.
LEMMA OnlyTask ==
    ASSUME LeaseInv, NEW r \in Runners, NEW j \in Jobs, task[r][j] # "none", NEW q \in Runners, q # r
    PROVE  task[q][j] = "none"
BY DEF LeaseInv, WorkersHoldLeases, Working

\* Storing a response: the writer is engaged in the job.
LEMMA SaveKeeps ==
    ASSUME TypeInv, LeaseInv, StoredInv, NEW r \in Runners, MarkInProgress(r) \/ Save(r) PROVE StoredInv'
<1>1. /\ UNCHANGED <<exec, hnd>> /\ proc[r].pc \in {"mark", "save"}
  BY DEF MarkInProgress, Save, apiVars
<1>2. PICK j \in Jobs : j = proc[r].cur /\ task[r][j] # "none" /\ ~Releasing(r)
  <2>1. proc[r].cur \in Jobs /\ ~Releasing(r)
    BY <1>1, RunnerFits DEF TypeInv, ProcTypes, InStep, JobSteps, ReleaseFits
  <2>2. task[r][proc[r].cur] # "none"
    BY <1>1, <2>1, RunnerFits DEF LeaseInv, MarkersHaveTasks, OutcomeFits
  <2>3. QED
    BY <2>1, <2>2
<1>3. Engaged(r, j) /\ exec[j].status # "completed"
  BY <1>1, <1>2 DEF Engaged, StoredInv, EngagedOpen
<1>4. \A k \in Jobs : k # j => record'[k] = record[k]
  BY <1>2 DEF MarkInProgress, Save, TypeInv, StoreTypes
<1>5. ResponseFirst'
  BY <1>1, <1>3, <1>4, ResponseJobsAssumption DEF ResponseFirst, StoredInv
<1>6. \A q \in Runners : q # r /\ proc[q].cur \in Stored /\ task[q][proc[q].cur] # "none" => record'[proc[q].cur] = record[proc[q].cur]
  <2>1. ASSUME NEW q \in Runners, q # r, proc[q].cur \in Stored, task[q][proc[q].cur] # "none"
        PROVE  record'[proc[q].cur] = record[proc[q].cur]
    <3>1. proc[q].cur # j
      BY <1>2, <2>1, OnlyTask
    <3>2. QED
      BY <1>4, <2>1, <3>1, ResponseJobsAssumption
  <2>2. QED
    BY <2>1
<1>7. \A k \in Jobs : ~exec'[k].cancel
  BY <1>1 DEF StoredInv, NoCancels
<1>8. CASE MarkInProgress(r)
  <2>1. task' = [task EXCEPT ![r][j] = "gen"] /\ Yield(r) /\ proc[r].pc = "mark"
    BY <1>2, <1>8 DEF MarkInProgress
  <2>2. /\ \A k \in Jobs : k # j => task'[r][k] = task[r][k]
        /\ \A q \in Runners : q # r => task'[q] = task[q]
    BY <2>1 DEF TypeInv, RestTypes
  <2>3. /\ proc'[r].pc = "idle" /\ proc'[r].stop = proc[r].stop /\ ~proc'[r].copy.cancel /\ proc'[r].doomed = {}
        /\ \A q \in Runners : q # r => proc'[q] = proc[q]
    BY <2>1, YieldSets, NewRecords
  <2>4. ReleaseFits(r)' /\ OutcomeFits(r)'
    BY <1>2, <2>3 DEF ReleaseFits, OutcomeFits, Releasing
  <2>5. ASSUME NEW k \in Jobs, Engaged(r, k)' PROVE exec'[k].status # "completed"
    <3>1. Engaged(r, k)
      BY <1>2, <2>1, <2>2, <2>5 DEF Engaged
    <3>2. QED
      BY <1>1, <3>1 DEF StoredInv, EngagedOpen
  <2>6. QED
    BY <1>1, <1>5, <1>6, <1>7, <2>2, <2>3, <2>4, <2>5, WriterStep
<1>9. CASE Save(r)
  <2>1. /\ record' = [record EXCEPT ![j] = proc[r].out] /\ Goto(r, "get") /\ UNCHANGED task /\ proc[r].pc = "save"
    BY <1>2, <1>9 DEF Save
  <2>2. record'[j] = proc[r].out
    BY <2>1 DEF TypeInv, StoreTypes
  <2>3. /\ proc'[r].pc = "get" /\ proc'[r].cur = j /\ proc'[r].out = proc[r].out
        /\ proc'[r].stop = proc[r].stop /\ ~proc'[r].copy.cancel /\ proc'[r].doomed = {}
        /\ \A q \in Runners : q # r => proc'[q] = proc[q]
    BY <1>2, <2>1, GotoSets, RunnerFits
  <2>4. ReleaseFits(r)' /\ OutcomeFits(r)'
    BY <1>2, <2>1, <2>2, <2>3 DEF ReleaseFits, OutcomeFits, Releasing
  <2>5. ASSUME NEW k \in Jobs, Engaged(r, k)' PROVE exec'[k].status # "completed"
    <3>1. Engaged(r, k)
      BY <2>1, <2>5 DEF Engaged
    <3>2. QED
      BY <1>1, <3>1 DEF StoredInv, EngagedOpen
  <2>6. QED
    BY <1>1, <1>5, <1>6, <1>7, <2>1, <2>3, <2>4, <2>5, WriterStep
<1>10. QED
  BY <1>8, <1>9

LEMMA ClaimPutKeeps ==
    ASSUME TypeInv, StoredInv, NEW r \in Runners, ClaimPut(r) PROVE StoredInv'
<1>1. /\ UNCHANGED <<record, hnd>> /\ proc[r].pc = "claimPut" /\ NextJob(r, "check")
  BY DEF ClaimPut, apiVars
<1>2. PICK j \in Jobs : j = proc[r].cur
  BY <1>1 DEF TypeInv, ProcTypes, InStep, JobSteps
<1>3. /\ exec' = [exec EXCEPT ![j] = [proc[r].copy EXCEPT !.status = "running", !.owner = r]]
      /\ task' = [task EXCEPT ![r][j] = "new"]
  BY <1>2 DEF ClaimPut
<1>4. /\ exec'[j].status = "running" /\ ~exec'[j].cancel /\ \A k \in Jobs : k # j => exec'[k] = exec[k]
  <2>1. proc[r].copy \in Execution /\ exec \in [Jobs -> Execution] /\ ~proc[r].copy.cancel
    BY RunnerFits DEF ProcState, TypeInv, StoreTypes
  <2>2. QED
    BY <1>3, <2>1 DEF Execution
<1>5. /\ \A k \in Jobs : k # j => task'[r][k] = task[r][k]
      /\ \A q \in Runners : q # r => task'[q] = task[q]
  BY <1>3 DEF TypeInv, RestTypes
<1>6. /\ proc'[r].pc = "check" /\ proc'[r].stop = proc[r].stop /\ ~proc'[r].copy.cancel /\ proc'[r].doomed = {}
      /\ \A q \in Runners : q # r => proc'[q] = proc[q]
  BY <1>1, NextJobSets, NewRecords, RunnerFits
<1>7. ReleaseFits(r)' /\ OutcomeFits(r)'
  BY <1>1, <1>6, RunnerFits DEF ReleaseFits, OutcomeFits, Releasing
<1>8. ASSUME NEW k \in Jobs, Engaged(r, k)' PROVE exec'[k].status # "completed"
  <2>1. CASE k = j
    BY <1>4, <2>1
  <2>2. CASE k # j
    BY <1>1, <1>4, <1>5, <1>8, <2>2 DEF Engaged, StoredInv, EngagedOpen
  <2>3. QED
    BY <2>1, <2>2
<1>9. ResponseFirst' /\ \A k \in Jobs : ~exec'[k].cancel
  BY <1>1, <1>4, ResponseJobsAssumption DEF StoredInv, NoCancels, ResponseFirst
<1>10. \A k \in Jobs : exec'[k].status = "completed" => exec[k].status = "completed"
  BY <1>4
<1>11. QED
  BY <1>1, <1>5, <1>6, <1>7, <1>8, <1>9, <1>10, WriterStep

\* Writing an outcome: a completed one comes after its response.
LEMMA PutOutcomeKeeps ==
    ASSUME TypeInv, LeaseInv, StoredInv, NEW r \in Runners, PutOutcome(r) PROVE StoredInv'
<1>1. /\ UNCHANGED <<record, task, hnd>> /\ proc[r].pc = "put"
  BY DEF PutOutcome, apiVars
<1>2. PICK j \in Jobs : j = proc[r].cur
  BY <1>1 DEF TypeInv, ProcTypes, InStep, JobSteps
<1> DEFINE st == IF proc[r].out = "missing" THEN "failed" ELSE proc[r].out
<1>3. exec' = [exec EXCEPT ![j] = [proc[r].copy EXCEPT !.owner = None, !.status = st]]
  BY <1>2 DEF PutOutcome
<1>4. /\ exec'[j].status = st /\ ~exec'[j].cancel /\ \A k \in Jobs : k # j => exec'[k] = exec[k]
  <2>1. proc[r].copy \in Execution /\ exec \in [Jobs -> Execution] /\ ~proc[r].copy.cancel
    BY RunnerFits DEF ProcState, TypeInv, StoreTypes
  <2> HIDE DEF st
  <2>2. QED
    BY <1>3, <2>1 DEF Execution
<1>5. /\ proc'[r].pc \in {"drop", "free"} /\ (Releasing(r) => proc'[r].pc = "free") /\ proc'[r].cur = j
      /\ proc'[r].out = proc[r].out /\ proc'[r].stop = proc[r].stop /\ ~proc'[r].copy.cancel /\ proc'[r].doomed = {}
      /\ \A q \in Runners : q # r => proc'[q] = proc[q]
  <2>1. AfterPut(r) \in {"free", "drop"} /\ (Releasing(r) => AfterPut(r) = "free")
    BY DEF AfterPut
  <2>2. proc' = [proc EXCEPT ![r].pc = AfterPut(r), ![r].copy = NoExec]
    BY DEF PutOutcome
  <2>3. QED
    BY <1>2, <2>1, <2>2, RunnerFits, NewRecords DEF ProcState
<1>6. /\ Releasing(r) => proc[r].out = "queued"
      /\ ~Releasing(r) => /\ task[r][j] # "none"
                          /\ proc[r].out = "completed" /\ j \in Stored => record[j] = "completed"
  BY <1>1, <1>2, RunnerFits DEF ReleaseFits, OutcomeFits
<1>7. ReleaseFits(r)' /\ OutcomeFits(r)'
  BY <1>1, <1>5, RunnerFits DEF ReleaseFits, OutcomeFits, Releasing
<1>8. proc[r].out = "completed" => ~Releasing(r)
  BY <1>6
<1>9. ResponseFirst'
  BY <1>1, <1>4, <1>6, <1>8, ResponseJobsAssumption DEF StoredInv, ResponseFirst
<1>10. \A k \in Jobs : ~exec'[k].cancel
  BY <1>4 DEF StoredInv, NoCancels
<1>11. ASSUME NEW k \in Jobs, Engaged(r, k)' PROVE exec'[k].status # "completed"
  <2>1. CASE Releasing(r)
    BY <1>1, <1>11, <2>1, RunnerFits DEF Engaged, ReleaseFits
  <2>2. CASE ~Releasing(r) /\ k = j
    <3>1. proc[r].out = "none"
      BY <1>5, <1>11, <2>2 DEF Engaged
    <3>2. QED
      BY <1>4, <2>2, <3>1
  <2>3. CASE ~Releasing(r) /\ k # j
    BY <1>1, <1>4, <1>11, <2>3 DEF Engaged, StoredInv, EngagedOpen
  <2>4. QED
    BY <2>1, <2>2, <2>3
<1>12. ASSUME NEW q \in Runners, NEW k \in Jobs, q # r, task[q][k] # "none", exec'[k].status = "completed"
       PROVE  exec[k].status = "completed"
  <2>1. CASE k = j
    <3>1. ~Releasing(r)
      BY <1>4, <1>6, <1>12, <2>1
    <3>2. task[r][j] # "none"
      BY <1>6, <3>1
    <3>3. QED
      BY <1>12, <2>1, <3>2, OnlyTask
  <2>2. QED
    BY <1>4, <1>12, <2>1
<1>13. QED
  BY <1>1, <1>5, <1>7, <1>9, <1>10, <1>11, <1>12, WriterStep

\* A handler's step: its process is at rest or waits for it.
LEMMA HandlerWrites ==
    ASSUME TypeInv, StoredInv, NEW host, host \in Runners => proc[host].pc \in {"idle", "api"}, NEW pc \in {"idle", "api"},
           proc' = [r \in Runners |-> IF r = host THEN [proc[r] EXCEPT !.pc = pc] ELSE proc[r]], UNCHANGED task,
           \A j \in Jobs : ~exec'[j].cancel /\ (exec'[j].status = "completed" => exec[j].status = "completed"),
           \A j \in Jobs : record[j] # "none" => record'[j] = record[j],
           \A h \in Handlers : hnd'[h].pc \in {"idle", "putSpec", "putExec"}, HostBusy'
    PROVE  StoredInv'
<1>1. ASSUME NEW r \in Runners
      PROVE  /\ proc'[r].cur = proc[r].cur /\ proc'[r].out = proc[r].out /\ proc'[r].stop = proc[r].stop
             /\ proc'[r].copy = proc[r].copy /\ proc'[r].doomed = proc[r].doomed
             /\ proc'[r].pc = proc[r].pc \/ (proc'[r].pc \in {"idle", "api"} /\ proc[r].pc \in {"idle", "api"})
  BY DEF TypeInv, ProcTypes, ProcState
<1>2. NoCancels'
  BY <1>1 DEF StoredInv, NoCancels
<1>3. ResponseFirst'
  BY ResponseJobsAssumption DEF StoredInv, ResponseFirst
<1>4. EngagedOpen'
  <2>1. \A r \in Runners, j \in Jobs : Engaged(r, j)' => Engaged(r, j)
    BY <1>1 DEF Engaged
  <2>2. QED
    BY <2>1 DEF StoredInv, EngagedOpen
<1>5. ASSUME NEW r \in Runners PROVE ReleaseFits(r)' /\ OutcomeFits(r)'
  <2>1. ReleaseFits(r) /\ OutcomeFits(r)
    BY RunnerFits
  <2>2. CASE proc'[r].pc = proc[r].pc
    <3>1. proc[r].cur \in Stored /\ record[proc[r].cur] = "completed" => record'[proc[r].cur] = "completed"
      BY ResponseJobsAssumption
    <3>2. QED
      BY <1>1, <2>1, <2>2, <3>1 DEF ReleaseFits, OutcomeFits, Releasing
  <2>3. CASE proc'[r].pc \in {"idle", "api"} /\ proc[r].pc \in {"idle", "api"}
    BY <1>1, <2>1, <2>3 DEF ReleaseFits, OutcomeFits, Releasing
  <2>4. QED
    BY <1>1, <2>2, <2>3
<1>6. QED
  BY <1>2, <1>3, <1>4, <1>5 DEF StoredInv, WritersFit

LEMMA CreateKeeps ==
    ASSUME TypeInv, StoredInv, NEW h \in Handlers, NEW host \in Runners \cup {None}, NEW j \in Jobs, Create(h, host, j)
    PROVE  StoredInv'
<1>1. /\ Serve(h, host) /\ UNCHANGED <<exec, task>> /\ record[j] = "none"
      /\ proc' = [r \in Runners |-> IF r = host THEN [proc[r] EXCEPT !.pc = "api"] ELSE proc[r]]
      /\ hnd' = [hnd EXCEPT ![h] = [pc |-> "putSpec", job |-> j, host |-> host, seen |-> "none"]]
  BY DEF Create, Continue
<1>2. host \in Runners => proc[host].pc = "idle"
  BY <1>1, NoneAssumption DEF Serve
<1>3. /\ hnd'[h].pc = "putSpec" /\ hnd'[h].host = host /\ \A g \in Handlers : g # h => hnd'[g] = hnd[g]
  BY <1>1 DEF TypeInv, ApiTypes
<1>4. \A k \in Jobs : record[k] # "none" => record'[k] = record[k]
  BY <1>1 DEF Create, TypeInv, StoreTypes
<1>5. \A g \in Handlers : hnd'[g].pc \in {"idle", "putSpec", "putExec"}
  BY <1>3 DEF StoredInv, NoCancels
<1>6. HostBusy'
  <2> SUFFICES ASSUME NEW g \in Handlers, Active(g)', hnd'[g].host \in Runners
               PROVE  /\ proc'[hnd'[g].host].pc = "api"
                      /\ \A i \in Handlers : Active(i)' /\ hnd'[i].host = hnd'[g].host => i = g
    BY DEF HostBusy
  <2>1. \A i \in Handlers : i # h /\ Active(i)' => hnd'[i].host # host \/ host \notin Runners
    BY <1>2, <1>3 DEF StoredInv, HostBusy, Active
  <2>2. CASE g = h
    <3>1. proc'[host].pc = "api"
      BY <1>1, <1>3, <2>2 DEF TypeInv, ProcTypes, ProcState
    <3>2. QED
      BY <1>3, <2>1, <2>2, <3>1
  <2>3. CASE g # h
    <3>1. Active(g) /\ hnd'[g] = hnd[g] /\ hnd[g].host # host
      BY <1>3, <2>1, <2>3 DEF Active
    <3>2. proc'[hnd[g].host] = proc[hnd[g].host]
      BY <1>1, <3>1
    <3>3. QED
      BY <1>3, <3>1, <3>2 DEF StoredInv, HostBusy, Active
  <2>4. QED
    BY <2>2, <2>3
<1>7. QED
  BY <1>1, <1>2, <1>4, <1>5, <1>6, HandlerWrites DEF StoredInv, NoCancels

LEMMA CreationsKeep ==
    ASSUME TypeInv, StoredInv, NEW h \in Handlers, HandlerStep(h) PROVE StoredInv'
<1>1. PutSpec(h) \/ PutExec(h)
  <2>1. hnd[h].pc \in {"idle", "putSpec", "putExec"}
    BY DEF StoredInv, NoCancels
  <2>2. QED
    BY <2>1 DEF HandlerStep, PutSpec, PutExec, LoadResponse, SaveResponse, DropSpec, Answer, DeleteCheck,
                DeleteRecord, DeleteSpec, DeleteExec, DeleteLease
<1> DEFINE host == hnd[h].host
<1>2. Active(h) /\ (host \in Runners => proc[host].pc = "api")
  BY <1>1 DEF PutSpec, PutExec, Active, StoredInv, HostBusy
<1>3. CASE PutSpec(h)
  <2>1. /\ UNCHANGED <<record, exec, task>>
        /\ proc' = [r \in Runners |-> IF r = host THEN [proc[r] EXCEPT !.pc = "api"] ELSE proc[r]]
        /\ hnd' = [hnd EXCEPT ![h] = [pc |-> "putExec", job |-> hnd[h].job, host |-> host, seen |-> hnd[h].seen]]
    BY <1>3 DEF PutSpec, Step, Continue
  <2>2. /\ hnd'[h].pc = "putExec" /\ hnd'[h].host = host /\ \A g \in Handlers : g # h => hnd'[g] = hnd[g]
    BY <2>1 DEF TypeInv, ApiTypes
  <2>3. \A g \in Handlers : hnd'[g].host = hnd[g].host /\ (Active(g)' => Active(g)) /\ hnd'[g].pc \in {"idle", "putSpec", "putExec"}
    BY <1>2, <2>2 DEF Active, StoredInv, NoCancels
  <2>4. \A r \in Runners : proc[r].pc = "api" => proc'[r].pc = "api"
    BY <2>1 DEF TypeInv, ProcTypes, ProcState
  <2>5. HostBusy'
    BY <2>3, <2>4 DEF StoredInv, HostBusy
  <2> HIDE DEF host
  <2>6. QED
    BY <1>2, <2>1, <2>3, <2>5, HandlerWrites DEF StoredInv, NoCancels
<1>4. CASE PutExec(h)
  <2>1. /\ UNCHANGED <<record, task>> /\ exec' = [exec EXCEPT ![hnd[h].job] = QueuedExec]
        /\ proc' = [r \in Runners |-> IF r = host THEN [proc[r] EXCEPT !.pc = "idle"] ELSE proc[r]]
        /\ hnd' = [hnd EXCEPT ![h] = NoRequest]
    BY <1>4 DEF PutExec, Finish
  <2>2. /\ hnd'[h] = NoRequest /\ \A g \in Handlers : g # h => hnd'[g] = hnd[g]
    BY <2>1 DEF TypeInv, ApiTypes
  <2>3. \A g \in Handlers : Active(g)' => g # h /\ Active(g)
    BY <2>2 DEF Active, NoRequest
  <2>4. \A g \in Handlers : hnd'[g].pc \in {"idle", "putSpec", "putExec"}
    BY <2>2 DEF StoredInv, NoCancels, NoRequest
  <2>5. HostBusy'
    <3> SUFFICES ASSUME NEW g \in Handlers, Active(g)', hnd'[g].host \in Runners
                 PROVE  /\ proc'[hnd'[g].host].pc = "api"
                        /\ \A i \in Handlers : Active(i)' /\ hnd'[i].host = hnd'[g].host => i = g
      BY DEF HostBusy
    <3>1. Active(g) /\ hnd'[g] = hnd[g] /\ g # h
      BY <2>2, <2>3
    <3>2. hnd[g].host # host
      BY <1>2, <3>1 DEF StoredInv, HostBusy
    <3>3. proc'[hnd[g].host] = proc[hnd[g].host]
      BY <2>1, <3>1, <3>2
    <3>4. QED
      BY <2>2, <2>3, <3>1, <3>3 DEF StoredInv, HostBusy
  <2>6. \A j \in Jobs : ~exec'[j].cancel /\ (exec'[j].status = "completed" => exec[j].status = "completed")
    BY <2>1, NewRecords DEF TypeInv, StoreTypes, StoredInv, NoCancels
  <2> HIDE DEF host
  <2>7. QED
    BY <1>2, <2>1, <2>4, <2>5, <2>6, HandlerWrites
<1>5. QED
  BY <1>1, <1>3, <1>4

LEMMA CrashKeeps ==
    ASSUME TypeInv, StoredInv, NEW r \in Runners, Crash(r) PROVE StoredInv'
<1>1. /\ UNCHANGED <<record, exec>>
      /\ proc' = [proc EXCEPT ![r] = [Fresh EXCEPT !.pc = "down"]]
      /\ task' = [task EXCEPT ![r] = [j \in Jobs |-> "none"]]
      /\ hnd' = [h \in Handlers |-> IF hnd[h].host = r THEN NoRequest ELSE hnd[h]]
  BY DEF Crash, storeVars
<1>2. /\ proc'[r].pc = "down" /\ proc'[r].stop = "no" /\ proc'[r].copy = NoExec /\ proc'[r].doomed = {}
      /\ \A q \in Runners : q # r => proc'[q] = proc[q]
  BY <1>1, RunnerFits DEF Fresh
<1>3. /\ \A j \in Jobs : task'[r][j] = "none"
      /\ \A q \in Runners : q # r => task'[q] = task[q]
  BY <1>1 DEF TypeInv, RestTypes
<1>4. \A h \in Handlers : hnd'[h] = (IF hnd[h].host = r THEN NoRequest ELSE hnd[h])
  BY <1>1
<1>5. NoCancels'
  BY <1>1, <1>2, <1>4, NewRecords DEF StoredInv, NoCancels, NoRequest
<1>6. HostBusy'
  <2>1. \A h \in Handlers : Active(h)' => hnd'[h] = hnd[h] /\ hnd[h].host # r /\ Active(h)
    BY <1>4 DEF Active, NoRequest
  <2>2. QED
    BY <1>2, <2>1 DEF StoredInv, HostBusy
<1>7. WritersFit'
  <2>1. ReleaseFits(r)' /\ OutcomeFits(r)'
    BY <1>2 DEF ReleaseFits, OutcomeFits, Releasing
  <2>2. ASSUME NEW q \in Runners, q # r PROVE ReleaseFits(q)' /\ OutcomeFits(q)'
    BY <1>1, <1>2, <1>3, <2>2, RunnerFits DEF ReleaseFits, OutcomeFits, Releasing
  <2>3. QED
    BY <2>1, <2>2 DEF WritersFit
<1>8. ResponseFirst' /\ EngagedOpen'
  BY <1>1, <1>2, <1>3 DEF StoredInv, ResponseFirst, EngagedOpen, Engaged
<1>9. QED
  BY <1>5, <1>6, <1>7, <1>8 DEF StoredInv

LEMMA OthersKeep ==
    ASSUME TypeInv, StoredInv, UNCHANGED vars \/ (\E j \in Jobs : Expire(j)) \/ \E h \in Handlers : WorkerCrash(h)
    PROVE  StoredInv'
<1>1. UNCHANGED <<record, exec, proc, task>>
  BY DEF vars, Expire, WorkerCrash, storeVars, runnerVars
<1>2. \A h \in Handlers : hnd'[h] = hnd[h] \/ hnd'[h] = NoRequest
  BY DEF vars, Expire, WorkerCrash, apiVars, TypeInv, ApiTypes
<1>3. NoCancels'
  BY <1>1, <1>2 DEF StoredInv, NoCancels, NoRequest
<1>4. HostBusy'
  <2>1. \A h \in Handlers : Active(h)' => hnd'[h] = hnd[h] /\ Active(h)
    BY <1>2 DEF Active, NoRequest
  <2>2. QED
    BY <1>1, <2>1 DEF StoredInv, HostBusy
<1>5. WritersFit' /\ ResponseFirst' /\ EngagedOpen'
  BY <1>1 DEF StoredInv, WritersFit, ReleaseFits, OutcomeFits, Releasing, ResponseFirst, EngagedOpen, Engaged
<1>6. QED
  BY <1>3, <1>4, <1>5 DEF StoredInv

LEMMA InitStored == ASSUME Init PROVE StoredInv
<1>1. /\ \A r \in Runners : /\ proc[r].pc = "unborn" /\ proc[r].stop = "no" /\ proc[r].copy = NoExec /\ proc[r].doomed = {}
                            /\ \A j \in Jobs : task[r][j] = "none"
      /\ \A h \in Handlers : hnd[h] = NoRequest
      /\ \A j \in Jobs : exec[j] = NoExec
  BY DEF Init, Fresh
<1>2. NoCancels /\ HostBusy
  BY <1>1, NewRecords DEF NoCancels, HostBusy, Active, NoRequest
<1>3. WritersFit /\ ResponseFirst /\ EngagedOpen
  BY <1>1, NewRecords, ResponseJobsAssumption DEF WritersFit, ReleaseFits, OutcomeFits, Releasing, ResponseFirst, EngagedOpen, Engaged
<1>4. QED
  BY <1>2, <1>3 DEF StoredInv

LEMMA NextStored ==
    ASSUME OnlyCreations, TypeInv, LeaseInv, StoredInv, [Next]_vars PROVE StoredInv'
<1>1. ASSUME NEW h \in Handlers, NEW host \in Runners \cup {None}, NEW j \in Jobs,
             Create(h, host, j) \/ Cancel(h, host, j) \/ Delete(h, host, j)
      PROVE  StoredInv'
  BY <1>1, CreateKeeps DEF Cancel, Delete, OnlyCreations
<1>2. ASSUME NEW r \in Runners, Start(r) \/ Wake(r) \/ LoopStep(r) \/ TaskStep(r) PROVE StoredInv'
  BY <1>2, LoopKeeps, LookKeeps, ClaimGetKeeps, ClaimPutKeeps, SaveKeeps, PeekKeeps, PutOutcomeKeeps, FreeKeeps DEF LoopStep, TaskStep
<1>3. ASSUME NEW r \in Runners, Stop(r) \/ StopStep(r) \/ Crash(r) PROVE StoredInv'
  BY <1>3, ShutdownKeeps, CrashKeeps DEF StopStep
<1>4. QED
  BY <1>1, <1>2, <1>3, CreationsKeep, OthersKeep, ResumeKeeps DEF Next

\* Where clients only create jobs and every owner renews its leases in time, an
\* execution says "completed" only after responses_background.py has stored the
\* completed response, however many runners poll the store, stop or crash between the
\* two writes.
THEOREM CompletedAfterStored ==
    ASSUME OnlyCreations PROVE Spec => []CompletedIsStored
<1>1. "stall" \notin Faults /\ "delete" \notin Ops
  BY DEF OnlyCreations
<1>2. Spec => []LeaseInv
  BY <1>1, LeaseInvAlways
<1>3. LeaseInv => TypeInv
  BY TypeInvIsTypeOK DEF LeaseInv
<1>4. Init => StoredInv
  BY InitStored
<1>5. LeaseInv /\ StoredInv /\ [Next]_vars => StoredInv'
  BY <1>3, NextStored
<1>6. StoredInv => CompletedIsStored
  BY DEF StoredInv, ResponseFirst, CompletedIsStored
<1>7. QED
  BY <1>2, <1>4, <1>5, <1>6, PTL DEF Spec

=============================================================================
