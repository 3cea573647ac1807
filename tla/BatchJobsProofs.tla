--------------------------- MODULE BatchJobsProofs ---------------------------
(***************************************************************************)
(* Theorems about batches, for every set of batches, runners and workers,  *)
(* every number of requests and every set of deployments.                  *)
(*                                                                         *)
(* The first part holds of any number of runners that crash, stop and      *)
(* overtake each other: what a batch that reads "completed" names is       *)
(* there.                                                                  *)
(***************************************************************************)
EXTENDS BatchJobs, TLAPS, SequenceTheorems, FiniteSetTheorems

(***************************************************************************)
(* What the lists of store calls are made of.                              *)
(***************************************************************************)
Ops(ops, args) == [op : ops, b : Batches, arg : args, over : {{}}]

\* A handler's, which an API worker or a runner in local mode makes ...
ApiSteps ==
    Ops({"putSpec", "enqueue", "flag", "dropSpec"}, {"none"}) \cup Ops({"write", "tell"}, {"cancelling", "cancelled"})

\* ... a runner's ...
LoopSteps ==
    Ops({"read", "getExec", "release", "look", "renew", "check", "claim", "spawn", "getSpec"}, {"none"})
      \cup Ops({"setExec"}, {"queued", "running"} \cup Terminal)
      \cup Ops({"write"}, {"in_progress", "finalizing", "failed"})
      \cup Ops({"await"}, {"content", "gather"})
      \cup [op : {"list", "owned", "down"}, b : {None}, arg : {"none"}, over : {{}}]
      \cup [op : {"each"}, b : {None}, arg : {"look", "check", "giveUp"}, over : SUBSET (Batches \X BOOLEAN)]

\* ... and those a task makes with results in its hands.
LastSteps == Ops({"write"}, {"completed"}) \cup Ops({"await"}, {"upOut", "upErr"})

Plain(p) == IF p \in Runners THEN ApiSteps \cup LoopSteps ELSE ApiSteps
Steps == ApiSteps \cup LoopSteps \cup LastSteps

States == [up : {"unborn", "up", "stop", "down"}, todo : Seq(Steps), obj : Batch, seen : Execution]

TaskStates == [at : {"none", "new", "content", "gather", "upOut", "upErr"}, obj : Batch,
               ok : 0..Lines, bad : 0..Lines, hit : BOOLEAN]

Types ==
    /\ deploy \in Deployments
    /\ batch \in [Batches -> Batch] /\ spec \in [Batches -> BOOLEAN]
    /\ exec \in [Batches -> Execution] /\ lease \in [Batches -> Lease]
    /\ files \in [Batches -> SUBSET (Runners \X {"out", "err"})]
    /\ proc \in [Processes -> States]
    /\ task \in [Runners -> [Batches -> TaskStates]]
    /\ told \in [Batches -> {"none", "cancelling", "cancelled"}]

\* The list s begins with x, or is x and nothing more.
Begins(s, x) == s # <<>> /\ Head(s) = x
Ends(s, x) == Begins(s, x) /\ Tail(s) = <<>>

\* A copy of batch b accounts for every request and names files that are there.
Whole(o, b) ==
    /\ o.ok + o.bad = Lines
    /\ <<o.out, "out">> \in files[b]
    /\ o.bad > 0 => o.err = o.out /\ <<o.err, "err">> \in files[b]

Counted(o, t) == o.ok = t.ok /\ o.bad = t.bad /\ o.ok + o.bad = Lines
HasOut(o, r, b) == o.out = r /\ <<r, "out">> \in files[b]

\* Runner r is about to store batch b as completed, or to wait for an upload.
Wrapping(r, b) ==
    LET s == proc[r].todo
        o == proc[r].obj
    IN  \/ Begins(s, Step("write", b, "completed")) /\ Tail(s) \in Seq(Plain(r)) /\ Whole(o, b)
        \/ /\ Begins(s, Step("write", b, "finalizing")) /\ Ends(Tail(s), Step("await", b, "upOut"))
           /\ Counted(o, task[r][b])
        \/ Ends(s, Step("await", b, "upOut")) /\ Counted(o, task[r][b])
        \/ Ends(s, Step("await", b, "upErr")) /\ Counted(o, task[r][b]) /\ HasOut(o, r, b)

Orderly(p) ==
    \/ proc[p].todo \in Seq(Plain(p))
    \/ p \in Runners /\ \E b \in Batches : Wrapping(p, b)

TaskWhole(r, b) ==
    /\ task[r][b].at \in {"upOut", "upErr"} => Counted(task[r][b].obj, task[r][b])
    /\ task[r][b].at = "upErr" => HasOut(task[r][b].obj, r, b)

\* The inductive invariant: a task that is uploading holds the counts of its batch and the
\* names of the files that are there, wherever its copy goes next.
WholeInv ==
    /\ Types
    /\ \A p \in Processes : Orderly(p)
    /\ \A r \in Runners, b \in Batches : TaskWhole(r, b)
    /\ CompletedIsWhole

-----------------------------------------------------------------------------
(* Lists. *)

LEMMA StepsIn ==
    /\ ApiSteps \subseteq Steps /\ LoopSteps \subseteq Steps /\ LastSteps \subseteq Steps
    /\ \A p : Plain(p) \subseteq Steps /\ ApiSteps \subseteq Plain(p)
    /\ \A r \in Runners : LoopSteps \subseteq Plain(r)
  BY DEF Plain, Steps

LEMMA SeqIn == ASSUME NEW p, NEW s \in Seq(Plain(p)) PROVE s \in Seq(Steps)
  BY StepsIn, SeqMonotonic

LEMMA OpOf ==
    /\ \A x \in Steps : x.op \in StepOps /\ x.over \in SUBSET (Batches \X BOOLEAN)
    /\ \A x \in Steps : x.op \notin {"list", "owned", "down", "each"} => x.b \in Batches
    /\ \A x \in Steps : x.op = "write" => x.arg \in {"cancelling", "cancelled", "in_progress", "finalizing", "failed", "completed"}
    /\ \A x \in Steps : x.op = "setExec" => x.arg \in {"queued", "running"} \cup Terminal
    /\ \A x \in Steps : x.op = "tell" => x.arg \in {"cancelling", "cancelled"}
    /\ \A x \in Steps : x.op = "await" => x.arg \in {"content", "gather", "upOut", "upErr"}
    /\ \A x \in Steps : x.op = "each" => x.arg \in {"look", "check", "giveUp"}
  BY DEF Steps, ApiSteps, LoopSteps, LastSteps, Ops, StepOps

LEMMA PlainOf ==
    /\ \A p : \A x \in Plain(p) : x.op = "write" => x.arg # "completed"
    /\ \A p : \A x \in Plain(p) : x.op = "await" => x.arg \in {"content", "gather"}
    /\ \A p : \A x \in Plain(p) : p \notin Runners => x.op \in {"putSpec", "enqueue", "flag", "dropSpec", "write", "tell"}
  BY DEF Plain, ApiSteps, LoopSteps, Ops
LEMMA One == ASSUME NEW S, NEW x \in S PROVE <<x>> \in Seq(S)
  OBVIOUS

LEMMA StepsPlain ==
    ASSUME NEW r \in Runners, NEW b \in Batches
    PROVE  /\ \A op \in {"putSpec", "enqueue", "flag", "dropSpec", "read", "getExec", "release", "look", "renew",
                         "check", "claim", "spawn", "getSpec"} : Do(op, b) \in Seq(Plain(r))
           /\ \A op \in {"list", "owned", "down"} : Do(op, None) \in Seq(Plain(r))
           /\ \A st \in {"queued", "running"} \cup Terminal : <<Step("setExec", b, st)>> \in Seq(Plain(r))
           /\ \A st \in {"cancelling", "cancelled", "in_progress", "finalizing", "failed"} :
                 <<Step("write", b, st)>> \in Seq(Plain(r))
           /\ \A st \in {"content", "gather"} : <<Step("await", b, st)>> \in Seq(Plain(r))
           /\ \A st \in {"cancelling", "cancelled"} : <<Step("tell", b, st)>> \in Seq(Plain(r))
           /\ \A job \in {"look", "check", "giveUp"}, pairs \in SUBSET (Batches \X BOOLEAN) :
                 Each(job, pairs) \in Seq(Plain(r))
  BY One DEF Plain, ApiSteps, LoopSteps, Ops, Do, Step, Each

LEMMA StepsOfApi ==
    ASSUME NEW p, NEW b \in Batches
    PROVE  /\ \A op \in {"putSpec", "enqueue", "flag", "dropSpec"} : Do(op, b) \in Seq(Plain(p))
           /\ \A st \in {"cancelling", "cancelled"} : <<Step("write", b, st)>> \in Seq(Plain(p))
           /\ \A st \in {"cancelling", "cancelled"} : <<Step("tell", b, st)>> \in Seq(Plain(p))
  BY One DEF Plain, ApiSteps, Ops, Do, Step

LEMMA Joined == ASSUME NEW S, NEW s \in Seq(S), NEW t \in Seq(S) PROVE s \o t \in Seq(S)
  BY ConcatProperties

\* Three lists put one after the other, whichever two are joined first.
Regroups(s, t, u) == (s \o t) \o u = s \o (t \o u)

LEMMA Regrouped == \A s, t, u \in Seq(Steps) : Regroups(s, t, u)
  BY ConcatAssociative DEF Regroups

LEMMA ProgramsPlain ==
    ASSUME NEW r \in Runners, NEW b \in Batches
    PROVE  /\ \A st \in {"cancelling", "cancelled", "in_progress", "finalizing", "failed"} : Mark(b, st) \in Seq(Plain(r))
           /\ \A st \in {"queued", "running"} \cup Terminal : SetExec(b, st) \in Seq(Plain(r))
           /\ \A st \in Terminal : Finish(b, st) \in Seq(Plain(r))
           /\ Failure(b) \in Seq(Plain(r)) /\ Cancellation(r, b) \in Seq(Plain(r))
           /\ \A flagged \in BOOLEAN : GiveUp(b, flagged) \in Seq(Plain(r))
  <1>1. \A st \in {"cancelling", "cancelled", "in_progress", "finalizing", "failed"} : Mark(b, st) \in Seq(Plain(r))
    BY StepsPlain, Joined DEF Mark
  <1>2. \A st \in {"queued", "running"} \cup Terminal : SetExec(b, st) \in Seq(Plain(r))
    BY StepsPlain, Joined DEF SetExec
  <1>3. \A st \in Terminal : Finish(b, st) \in Seq(Plain(r))
    BY <1>2, StepsPlain, Joined DEF Finish
  <1>4. Failure(b) \in Seq(Plain(r))
    BY <1>1, <1>3, Joined DEF Failure, Terminal
  <1>5. Cancellation(r, b) \in Seq(Plain(r))
    BY <1>1, <1>3, StepsPlain, Joined DEF Cancellation, Terminal
  <1>6. GiveUp(b, TRUE) \in Seq(Plain(r))
    <2>1. Mark(b, "cancelled") \in Seq(Plain(r)) /\ SetExec(b, "cancelled") \in Seq(Plain(r))
      BY <1>1, <1>2 DEF Terminal
    <2> QED BY <2>1, StepsPlain, Joined DEF GiveUp
  <1>7. GiveUp(b, FALSE) \in Seq(Plain(r))
    BY <1>2, StepsPlain, Joined DEF GiveUp
  <1> QED BY <1>1, <1>2, <1>3, <1>4, <1>5, <1>6, <1>7

-----------------------------------------------------------------------------
(* Steps of processes. *)

LEMMA Stating ==
    ASSUME Types, NEW p \in Processes, NEW st \in States, Becomes(p, st)
    PROVE  /\ proc' \in [Processes -> States] /\ proc'[p] = st
           /\ \A q \in Processes \ {p} : proc'[q] = proc[q]
  BY DEF Types, Becomes

LEMMA FreshTyped == Fresh \in States /\ Fresh.obj = NoBatch /\ Fresh.todo = <<>>
  <1>1. NoBatch \in Batch
    BY BatchAssumption DEF NoBatch, Batch, BatchStatus, Terminal
  <1>2. NoExec \in Execution
    BY DEF NoExec, Execution, ExecStatus, Terminal
  <1> QED BY <1>1, <1>2 DEF Fresh, States

\* A process in this state has this list before it.
HasList(st, steps) == st \in States /\ st.todo = steps

LEMMA FreshIs ==
    ASSUME NEW up \in {"unborn", "up", "stop", "down"}, NEW steps \in Seq(Steps)
    PROVE  HasList([Fresh EXCEPT !.up = up, !.todo = steps], steps)
  BY FreshTyped DEF States, HasList

LEMMA FreshWith ==
    ASSUME NEW up \in {"unborn", "up", "stop", "down"}, NEW steps \in Seq(Steps), NEW obj \in Batch
    PROVE  HasList([Fresh EXCEPT !.up = up, !.obj = obj, !.todo = steps], steps)
  BY FreshTyped DEF States, HasList

LEMMA FreshIdle ==
    ASSUME NEW up \in {"unborn", "up", "stop", "down"}
    PROVE  HasList([Fresh EXCEPT !.up = up], <<>>)
  BY FreshTyped DEF States, HasList

LEMMA ThenIs ==
    ASSUME Types, NEW p \in Processes, NEW steps \in Seq(Steps), proc[p].todo # <<>>
    PROVE  /\ Then(p, steps) \in States
           /\ Then(p, steps).todo = steps \o Tail(proc[p].todo)
           /\ Then(p, steps).up = proc[p].up /\ Then(p, steps).obj = proc[p].obj
           /\ Then(p, steps).seen = proc[p].seen
           /\ Then(p, <<>>) \in States /\ Then(p, <<>>).todo = Tail(proc[p].todo)
           /\ Then(p, <<>>).up = proc[p].up /\ Then(p, <<>>).obj = proc[p].obj
           /\ Then(p, <<>>).seen = proc[p].seen
  <1>1. proc[p] \in States
    BY DEF Types
  <1>2. proc[p].todo \in Seq(Steps)
    BY <1>1 DEF States
  <1>3. Tail(proc[p].todo) \in Seq(Steps)
    BY <1>2, HeadTailProperties
  <1>4. steps \o Tail(proc[p].todo) \in Seq(Steps) /\ <<>> \o Tail(proc[p].todo) = Tail(proc[p].todo)
    BY <1>3, Joined, ConcatEmptySeq
  <1> QED BY <1>1, <1>3, <1>4 DEF Then, States

LEMMA NowIs ==
    ASSUME Types, NEW p \in Processes, NEW op, At(p, op)
    PROVE  /\ proc[p].todo # <<>> /\ proc[p].todo \in Seq(Steps) /\ Tail(proc[p].todo) \in Seq(Steps)
           /\ Now(p) \in Steps /\ Now(p).op = op /\ Now(p) = Head(proc[p].todo)
           /\ op \notin {"list", "owned", "down", "each"} => On(p) \in Batches
  <1>1. proc[p].todo \in Seq(Steps) /\ proc[p].todo # <<>>
    BY DEF Types, States, At
  <1>2. Head(proc[p].todo) \in Steps /\ Tail(proc[p].todo) \in Seq(Steps)
    BY <1>1, HeadTailProperties
  <1> QED BY <1>1, <1>2, OpOf DEF At, Now, On

\* A list with any other first step than a task's last ones is plain.
LEMMA PlainTail ==
    ASSUME Types, NEW p \in Processes, NEW op, At(p, op), Orderly(p),
           op \notin {"write", "await"} \/ proc[p].todo \in Seq(Plain(p))
    PROVE  /\ Now(p) \in Plain(p) /\ Tail(proc[p].todo) \in Seq(Plain(p))
           /\ p \notin Runners => op \in {"putSpec", "enqueue", "flag", "dropSpec", "write", "tell"}
  <1>1. proc[p].todo \in Seq(Plain(p))
    <2>1. ASSUME NEW b \in Batches, Wrapping(p, b), op \notin {"write", "await"} PROVE FALSE
      <3>1. Head(proc[p].todo).op \in {"write", "await"}
        BY <2>1 DEF Wrapping, Begins, Ends, Step
      <3> QED BY <3>1, <2>1 DEF At
    <2> QED BY <2>1 DEF Orderly
  <1>2. Now(p) \in Plain(p) /\ Tail(proc[p].todo) \in Seq(Plain(p))
    BY <1>1, HeadTailProperties DEF At, Now
  <1> QED BY <1>2, PlainOf DEF At, Now

\* What a step of p leaves the other processes: their tasks' counts, and files.
LEMMA OthersOrderly ==
    ASSUME WholeInv, NEW p \in Processes, NEW st \in States, Becomes(p, st),
           \A b \in Batches : files[b] \subseteq files'[b],
           \A r \in Runners \ {p}, b \in Batches :
              task'[r][b].ok = task[r][b].ok /\ task'[r][b].bad = task[r][b].bad
    PROVE  \A q \in Processes \ {p} : Orderly(q)'
  <1> SUFFICES ASSUME NEW q \in Processes \ {p} PROVE Orderly(q)'
    OBVIOUS
  <1>1. proc'[q] = proc[q]
    BY Stating DEF WholeInv
  <1>2. CASE proc[q].todo \in Seq(Plain(q))
    BY <1>1, <1>2 DEF Orderly
  <1>3. ASSUME q \in Runners, NEW b \in Batches, Wrapping(q, b) PROVE Wrapping(q, b)'
    <2>1. \A o : Whole(o, b) => Whole(o, b)'
      BY DEF Whole
    <2>2. \A o : HasOut(o, q, b) => HasOut(o, q, b)'
      BY DEF HasOut
    <2>3. \A o : Counted(o, task[q][b]) => Counted(o, task'[q][b])
      BY <1>3 DEF Counted
    <2> QED BY <1>1, <1>3, <2>1, <2>2, <2>3 DEF Wrapping
  <1> QED BY <1>2, <1>3 DEF WholeInv, Orderly

\* A task is left as it was, or where it holds no results.
TaskStays(r, b) ==
    \/ /\ task'[r][b].at = task[r][b].at /\ task'[r][b].obj = task[r][b].obj
       /\ task'[r][b].ok = task[r][b].ok /\ task'[r][b].bad = task[r][b].bad
    \/ task'[r][b].at \notin {"upOut", "upErr"}

LEMMA TasksStay ==
    ASSUME WholeInv, NEW r \in Runners, NEW b \in Batches, TaskStays(r, b), files[b] \subseteq files'[b]
    PROVE  TaskWhole(r, b)'
  BY DEF WholeInv, TaskWhole, TaskStays, Counted, HasOut

LEMMA BatchesStay ==
    ASSUME WholeInv, \A b \in Batches : files[b] \subseteq files'[b],
           \A b \in Batches : batch'[b] = batch[b] \/ batch'[b].status # "completed"
    PROVE  CompletedIsWhole'
  BY DEF WholeInv, CompletedIsWhole

\* Any step but the last ones of a task.
LEMMA Plainly ==
    ASSUME WholeInv, Types', NEW p \in Processes, NEW st \in States, Becomes(p, st), st.todo \in Seq(Plain(p)),
           files' = files,
           \A b \in Batches : batch'[b] = batch[b] \/ batch'[b].status # "completed",
           \A r \in Runners, b \in Batches : TaskStays(r, b),
           \A r \in Runners \ {p}, b \in Batches :
              task'[r][b].ok = task[r][b].ok /\ task'[r][b].bad = task[r][b].bad
    PROVE  WholeInv'
  <1>1. \A q \in Processes \ {p} : Orderly(q)'
    BY OthersOrderly
  <1>2. Orderly(p)'
    BY Stating DEF WholeInv, Orderly
  <1> QED BY <1>1, <1>2, TasksStay, BatchesStay DEF WholeInv

LEMMA TypesMove ==
    ASSUME Types, NEW p \in Processes, NEW st \in States, Becomes(p, st)
    PROVE  /\ UNCHANGED <<deploy, storeVars, task, told>> => Types'
           /\ UNCHANGED <<deploy, batch, spec, lease, files, task, told>> /\ exec' \in [Batches -> Execution] => Types'
           /\ UNCHANGED <<deploy, batch, exec, lease, files, task, told>> /\ spec' \in [Batches -> BOOLEAN] => Types'
           /\ UNCHANGED <<deploy, batch, spec, exec, files, told, task>> /\ lease' \in [Batches -> Lease] => Types'
           /\ UNCHANGED <<deploy, spec, exec, lease, files, told, task>> /\ batch' \in [Batches -> Batch] => Types'
  BY Stating DEF Types, storeVars

LEMMA SameTasks ==
    ASSUME task' = task
    PROVE  /\ \A r \in Runners, b \in Batches : TaskStays(r, b)
           /\ \A r \in Runners, b \in Batches : task'[r][b].ok = task[r][b].ok /\ task'[r][b].bad = task[r][b].bad
  BY DEF TaskStays

-----------------------------------------------------------------------------
(* The handlers and the calls many programs make. *)

LEMMA CreateWhole == ASSUME WholeInv, NEW p \in Processes, NEW b \in Batches, Create(p, b) PROVE WholeInv'
  <1> DEFINE steps == Do("putSpec", b) \o Do("enqueue", b)
             st == [Fresh EXCEPT !.up = proc[p].up, !.todo = steps]
  <1>1. steps \in Seq(Plain(p)) /\ steps \in Seq(Steps)
    <2>1. steps \in Seq(Plain(p))
      BY StepsOfApi, Joined
    <2> QED BY <2>1, SeqIn
  <1>2. st \in States /\ st.todo = steps
    <2>1. proc[p].up \in {"unborn", "up", "stop", "down"}
      BY DEF WholeInv, Types, States
    <2>2. PICK up \in {"unborn", "up", "stop", "down"}, s \in Seq(Steps) : up = proc[p].up /\ s = steps
      BY <1>1, <2>1
    <2>3. HasList([Fresh EXCEPT !.up = up, !.todo = s], s)
      BY FreshIs
    <2> QED BY <2>2, <2>3 DEF HasList
  <1>3. Becomes(p, st)
    BY DEF Create, Runs
  <1>4. batch' \in [Batches -> Batch] /\ \A c \in Batches : batch'[c] = batch[c] \/ batch'[c].status # "completed"
    BY ZenonT(40) DEF WholeInv, Types, Create, Batch, BatchStatus
  <1> HIDE DEF st, steps
  <1>5. Types'
    BY <1>2, <1>3, <1>4, TypesMove DEF WholeInv, Create
  <1> QED BY <1>1, <1>2, <1>3, <1>4, <1>5, Plainly, SameTasks DEF Create

LEMMA CancelWhole == ASSUME WholeInv, NEW p \in Processes, NEW b \in Batches, Cancel(p, b) PROVE WholeInv'
  <1> DEFINE st == [Fresh EXCEPT !.up = "up", !.obj = batch[b], !.todo = Do("flag", b)]
  <1>1. Do("flag", b) \in Seq(Plain(p)) /\ Do("flag", b) \in Seq(Steps)
    BY StepsOfApi, SeqIn
  <1>2. st \in States /\ st.todo = Do("flag", b)
    <2>1. PICK obj \in Batch, s \in Seq(Steps) : obj = batch[b] /\ s = Do("flag", b)
      BY <1>1 DEF WholeInv, Types
    <2>2. HasList([Fresh EXCEPT !.up = "up", !.obj = obj, !.todo = s], s)
      BY FreshWith
    <2> QED BY <2>1, <2>2 DEF HasList
  <1>3. Becomes(p, st)
    BY DEF Cancel
  <1> HIDE DEF st
  <1>5. Types'
    BY <1>2, <1>3, TypesMove DEF WholeInv, Cancel
  <1> QED BY <1>1, <1>2, <1>3, <1>5, Plainly, SameTasks DEF Cancel, storeVars

\* A step that only takes the first of p's list.
LEMMA NextWhole ==
    ASSUME WholeInv, NEW p \in Processes, NEW op, At(p, op), op \notin {"write", "await"}, Next1(p), Types',
           files' = files, batch' = batch,
           \A r \in Runners, b \in Batches : TaskStays(r, b),
           \A r \in Runners \ {p}, b \in Batches :
              task'[r][b].ok = task[r][b].ok /\ task'[r][b].bad = task[r][b].bad
    PROVE  WholeInv'
  <1>1. Then(p, <<>>) \in States /\ Then(p, <<>>).todo \in Seq(Plain(p)) /\ Becomes(p, Then(p, <<>>))
    BY ThenIs, PlainTail, EmptySeq DEF WholeInv, Next1, At
  <1> QED BY <1>1, Plainly

\* A step that puts a program in its place.
LEMMA ThenWhole ==
    ASSUME WholeInv, NEW p \in Processes, NEW op, At(p, op), op \notin {"write", "await"},
           NEW steps \in Seq(Plain(p)), Becomes(p, Then(p, steps)), Types',
           files' = files, batch' = batch, task' = task
    PROVE  WholeInv'
  <1>1. Then(p, steps) \in States /\ Then(p, steps).todo = steps \o Tail(proc[p].todo)
    BY ThenIs, SeqIn DEF WholeInv, At
  <1>2. Then(p, steps).todo \in Seq(Plain(p))
    BY <1>1, PlainTail, Joined DEF WholeInv
  <1> QED BY <1>1, <1>2, Plainly, SameTasks

LEMMA NextTypes1 ==
    ASSUME WholeInv, NEW p \in Processes, NEW op, At(p, op), Next1(p)
    PROVE  /\ proc' \in [Processes -> States]
           /\ UNCHANGED <<deploy, batch, spec, lease, files, task, told>> /\ exec' \in [Batches -> Execution] => Types'
           /\ UNCHANGED <<deploy, batch, exec, lease, files, task, told>> /\ spec' \in [Batches -> BOOLEAN] => Types'
           /\ UNCHANGED <<deploy, batch, spec, exec, files, told, task>> /\ lease' \in [Batches -> Lease] => Types'
  <1>1. Then(p, <<>>) \in States /\ Becomes(p, Then(p, <<>>))
    BY ThenIs, EmptySeq DEF WholeInv, Next1, At
  <1> QED BY <1>1, TypesMove, Stating DEF WholeInv

LEMMA PutSpecWhole == ASSUME WholeInv, NEW p \in Processes, PutSpec(p) \/ DropSpec(p) PROVE WholeInv'
  <1>1. PICK op \in {"putSpec", "dropSpec"} : At(p, op)
    BY DEF PutSpec, DropSpec
  <1>2. spec' \in [Batches -> BOOLEAN]
    BY DEF WholeInv, Types, PutSpec, DropSpec
  <1>3. Types'
    BY <1>1, <1>2, NextTypes1 DEF PutSpec, DropSpec
  <1> QED BY <1>1, <1>3, NextWhole, SameTasks DEF PutSpec, DropSpec

LEMMA EnqueueWhole == ASSUME WholeInv, NEW p \in Processes, Enqueue(p) PROVE WholeInv'
  <1>1. At(p, "enqueue") /\ QueuedExec \in Execution
    BY DEF Enqueue, QueuedExec, Execution, ExecStatus
  <1>2. exec' \in [Batches -> Execution]
    BY <1>1 DEF WholeInv, Types, Enqueue
  <1>3. Types'
    BY <1>1, <1>2, NextTypes1 DEF Enqueue
  <1> QED BY <1>1, <1>3, NextWhole, SameTasks DEF Enqueue

LEMMA CancelMutation == ASSUME NEW e \in Execution PROVE RequestCancel(e) \in Execution
  BY DEF RequestCancel, Execution, ExecStatus, Terminal

LEMMA FlagWhole == ASSUME WholeInv, NEW p \in Processes, Flag(p) PROVE WholeInv'
  <1> DEFINE b == On(p)
             now == RequestCancel(exec[b])
             steps == IF exec[b].status \in Terminal THEN <<>>
                      ELSE IF now.status = "running"
                        THEN <<Step("write", b, "cancelling"), Step("tell", b, "cancelling")>>
                      ELSE Do("dropSpec", b)
                             \o <<Step("write", b, "cancelled"), Step("tell", b, "cancelled")>>
  <1>1. At(p, "flag") /\ b \in Batches
    BY NowIs DEF WholeInv, Flag
  <1>2. steps \in Seq(Plain(p))
    <2>1. \A st \in {"cancelling", "cancelled"} : Step("write", b, st) \in Plain(p) /\ Step("tell", b, st) \in Plain(p)
      BY <1>1 DEF Plain, ApiSteps, Ops, Step
    <2>2. \A st \in {"cancelling", "cancelled"} : <<Step("write", b, st), Step("tell", b, st)>> \in Seq(Plain(p))
      BY <2>1
    <2> HIDE DEF b, now
    <2>3. Do("dropSpec", b) \o <<Step("write", b, "cancelled"), Step("tell", b, "cancelled")>> \in Seq(Plain(p))
      BY <2>2, <1>1, StepsOfApi, Joined
    <2> QED BY <2>2, <2>3, EmptySeq
  <1>3. exec' \in [Batches -> Execution]
    BY <1>1, CancelMutation DEF WholeInv, Types, Flag
  <1>4. Becomes(p, Then(p, steps)) /\ UNCHANGED <<deploy, batch, spec, lease, files, task, told>>
    BY DEF Flag
  <1> HIDE DEF b, now, steps
  <1>5. Then(p, steps) \in States
    BY <1>1, <1>2, SeqIn, ThenIs DEF WholeInv, At
  <1>6. Types'
    BY <1>3, <1>4, <1>5, TypesMove DEF WholeInv
  <1> QED BY <1>1, <1>2, <1>4, <1>6, ThenWhole

LEMMA TellWhole == ASSUME WholeInv, NEW p \in Processes, Tell(p) PROVE WholeInv'
  <1>1. At(p, "tell") /\ On(p) \in Batches /\ Now(p).arg \in {"cancelling", "cancelled"}
    BY NowIs, OpOf DEF WholeInv, Tell
  <1>2. told' \in [Batches -> {"none", "cancelling", "cancelled"}]
    BY <1>1 DEF WholeInv, Types, Tell
  <1>3. \A r \in Runners, b \in Batches :
           /\ task'[r][b].at = task[r][b].at /\ task'[r][b].obj = task[r][b].obj
           /\ task'[r][b].ok = task[r][b].ok /\ task'[r][b].bad = task[r][b].bad
    BY <1>1 DEF WholeInv, Types, Tell, TaskStates
  <1>4. task' \in [Runners -> [Batches -> TaskStates]]
    <2>1. \A t \in TaskStates : [t EXCEPT !.hit = TRUE] \in TaskStates
      BY DEF TaskStates
    <2>2. \A r \in Runners : [task[r] EXCEPT ![On(p)].hit = TRUE] \in [Batches -> TaskStates]
      BY <2>1, ZenonT(40) DEF WholeInv, Types
    <2> QED BY <2>2 DEF WholeInv, Types, Tell
  <1>5. Types'
    BY <1>1, <1>2, <1>4, NextTypes1 DEF WholeInv, Types, Tell, storeVars
  <1> QED BY <1>1, <1>3, <1>5, NextWhole DEF Tell, TaskStays, storeVars

LEMMA ReadWhole == ASSUME WholeInv, NEW p \in Processes, Read(p) \/ GetExec(p) PROVE WholeInv'
  <1>1. PICK op \in {"read", "getExec"} : At(p, op)
    BY DEF Read, GetExec
  <1>2. Then(p, <<>>) \in States /\ Then(p, <<>>).todo \in Seq(Plain(p)) /\ On(p) \in Batches
    BY <1>1, ThenIs, PlainTail, EmptySeq, NowIs DEF WholeInv, At
  <1> DEFINE st == IF Read(p) THEN [Then(p, <<>>) EXCEPT !.obj = batch[On(p)]]
                              ELSE [Then(p, <<>>) EXCEPT !.seen = exec[On(p)]]
  <1>3. Becomes(p, st)
    BY DEF Read, GetExec
  <1>4. st \in States /\ st.todo = Then(p, <<>>).todo
    BY <1>2 DEF States, WholeInv, Types
  <1> HIDE DEF st
  <1>5. Types'
    BY <1>3, <1>4, TypesMove DEF WholeInv, Read, GetExec
  <1> QED BY <1>2, <1>3, <1>4, <1>5, Plainly, SameTasks DEF Read, GetExec, storeVars

LEMMA PutExecWhole == ASSUME WholeInv, NEW p \in Processes, PutExec(p) PROVE WholeInv'
  <1>1. At(p, "setExec") /\ On(p) \in Batches /\ Now(p).arg \in {"queued", "running"} \cup Terminal /\ p \in Runners
    BY NowIs, OpOf, PlainTail DEF WholeInv, PutExec
  <1>2. exec' \in [Batches -> Execution]
    <2>1. proc[p].seen \in Execution
      BY DEF WholeInv, Types, States
    <2>2. [proc[p].seen EXCEPT !.status = Now(p).arg, !.owner = IF Now(p).arg = "running" THEN p ELSE None] \in Execution
      BY <1>1, <2>1 DEF Execution, ExecStatus
    <2> QED BY <1>1, <2>2 DEF WholeInv, Types, PutExec
  <1>3. Types'
    BY <1>1, <1>2, NextTypes1 DEF PutExec
  <1> QED BY <1>1, <1>3, NextWhole, SameTasks DEF PutExec

LEMMA LeaseMutations ==
    ASSUME NEW l \in Lease, NEW r \in Runners
    PROVE  Released(l, r) \in Lease /\ Renewed(l, r) \in Lease /\ Claimed(r) \in Lease /\ [l EXCEPT !.live = FALSE] \in Lease
  BY DEF Released, Renewed, Claimed, NoLease, Lease

LEMMA NoTaskIs == NoTask \in TaskStates /\ NoTask.at = "none"
  BY BatchAssumption DEF NoTask, TaskStates, NoBatch, Batch, BatchStatus

LEMMA ReleaseWhole == ASSUME WholeInv, NEW p \in Processes, Release(p) PROVE WholeInv'
  <1>1. At(p, "release") /\ On(p) \in Batches /\ p \in Runners
    BY NowIs, PlainTail DEF WholeInv, Release
  <1>2. lease' \in [Batches -> Lease]
    BY <1>1, LeaseMutations DEF WholeInv, Types, Release
  <1>3. task' \in [Runners -> [Batches -> TaskStates]]
    BY <1>1, NoTaskIs DEF WholeInv, Types, Release
  <1>4. /\ \A r \in Runners, b \in Batches : TaskStays(r, b)
        /\ \A r \in Runners \ {p}, b \in Batches : task'[r][b] = task[r][b]
    BY <1>1, NoTaskIs DEF WholeInv, Types, Release, TaskStays
  <1>5. Types'
    BY <1>1, <1>2, <1>3, NextTypes1 DEF WholeInv, Types, Release
  <1> QED BY <1>1, <1>4, <1>5, NextWhole DEF Release

\* A write stores what the process holds; of the last ones the results are there.
LEMMA WriteWhole == ASSUME WholeInv, NEW p \in Processes, Write(p) PROVE WholeInv'
  <1> DEFINE b == On(p)
             obj == [proc[p].obj EXCEPT !.status = Now(p).arg]
             st == [Then(p, <<>>) EXCEPT !.obj = obj]
  <1>1. At(p, "write") /\ b \in Batches /\ Now(p).arg \in BatchStatus
    BY NowIs, OpOf DEF WholeInv, Write, BatchStatus, Terminal
  <1>2. obj \in Batch /\ obj.status = Now(p).arg /\ obj.ok = proc[p].obj.ok /\ obj.bad = proc[p].obj.bad
          /\ obj.out = proc[p].obj.out /\ obj.err = proc[p].obj.err
    BY <1>1, ZenonT(40) DEF WholeInv, Types, States, Batch
  <1>3. Then(p, <<>>) \in States /\ Then(p, <<>>).todo = Tail(proc[p].todo)
    BY <1>1, ThenIs, EmptySeq DEF WholeInv, At
  <1>4. Becomes(p, st) /\ batch' = [batch EXCEPT ![b] = obj] /\ UNCHANGED <<deploy, spec, exec, lease, files, task, told>>
    BY DEF Write
  <1> HIDE DEF obj
  <1>5. st \in States /\ st.todo = Tail(proc[p].todo) /\ st.obj = obj
    BY <1>2, <1>3 DEF States
  <1> HIDE DEF st
  <1>6. Types'
    BY <1>1, <1>2, <1>4, <1>5, TypesMove DEF WholeInv, Types
  <1>7. CASE proc[p].todo \in Seq(Plain(p))
    <2>1. Now(p) \in Plain(p) /\ Tail(proc[p].todo) \in Seq(Plain(p))
      BY <1>1, <1>7, PlainTail DEF WholeInv
    <2>2. Now(p).arg # "completed"
      BY <1>1, <2>1, PlainOf, NowIs DEF WholeInv
    <2>3. \A c \in Batches : batch'[c] = batch[c] \/ batch'[c].status # "completed"
      BY <1>1, <1>2, <1>4, <2>2 DEF WholeInv, Types
    <2> QED BY <1>4, <1>5, <1>6, <2>1, <2>3, Plainly, SameTasks
  <1>8. ASSUME p \in Runners, NEW c \in Batches, Wrapping(p, c), proc[p].todo \notin Seq(Plain(p)) PROVE WholeInv'
    <2>1. \A q \in Processes \ {p} : Orderly(q)'
      BY <1>4, <1>5, OthersOrderly
    <2>2. proc'[p] = st
      BY <1>4, <1>5, Stating DEF WholeInv
    <2>3. \A r \in Runners, d \in Batches : TaskWhole(r, d)'
      BY <1>4, TasksStay, SameTasks
    <2>4. Now(p) = Head(proc[p].todo) /\ Now(p).op = "write"
      BY <1>1 DEF At, Now
    <2>5. CASE Begins(proc[p].todo, Step("write", c, "completed")) /\ Tail(proc[p].todo) \in Seq(Plain(p)) /\ Whole(proc[p].obj, c)
      <3>1. b = c /\ Whole(obj, c)
        BY <2>4, <2>5, <1>2 DEF Begins, Step, Whole, On
      <3>2. CompletedIsWhole'
        BY <1>4, <3>1, <1>1 DEF WholeInv, CompletedIsWhole, Whole, Types
      <3>3. Orderly(p)'
        BY <2>2, <2>5, <1>5 DEF Orderly
      <3> QED BY <1>6, <2>1, <2>3, <3>2, <3>3 DEF WholeInv
    <2>6. CASE /\ Begins(proc[p].todo, Step("write", c, "finalizing")) /\ Ends(Tail(proc[p].todo), Step("await", c, "upOut"))
               /\ Counted(proc[p].obj, task[p][c])
      <3>1. b = c /\ Now(p).arg = "finalizing" /\ Counted(obj, task[p][c])
        BY <2>4, <2>6, <1>2 DEF Begins, Step, Counted, On
      <3>2. \A d \in Batches : batch'[d] = batch[d] \/ batch'[d].status # "completed"
        BY <1>1, <1>2, <1>4, <3>1 DEF WholeInv, Types
      <3>3. Wrapping(p, c)'
        BY <2>2, <2>6, <1>4, <1>5, <3>1 DEF Wrapping, Counted
      <3>4. Orderly(p)'
        BY <3>3, <1>8 DEF Orderly
      <3> QED BY <1>4, <1>6, <2>1, <2>3, <3>2, <3>4, BatchesStay DEF WholeInv
    <2>7. Step("await", c, "upOut").op # "write" /\ Step("await", c, "upErr").op # "write"
      BY DEF Step
    <2> QED BY <1>8, <2>4, <2>5, <2>6, <2>7 DEF Wrapping, Ends, Begins
  <1> QED BY <1>7, <1>8 DEF WholeInv, Orderly

LEMMA StoreStepWhole == ASSUME WholeInv, NEW p \in Processes, StoreStep(p) PROVE WholeInv'
  BY PutSpecWhole, EnqueueWhole, FlagWhole, TellWhole, ReadWhole, PutExecWhole, ReleaseWhole, WriteWhole
     DEF StoreStep

-----------------------------------------------------------------------------
(* The runner's loop. *)

LEMMA RunnersRun == Runners \subseteq Processes
  BY DEF Processes

\* A program that starts afresh.
LEMMA AfreshWhole ==
    ASSUME WholeInv, NEW p \in Processes, NEW steps \in Seq(Plain(p)), NEW up \in {"unborn", "up", "stop", "down"},
           Becomes(p, [Fresh EXCEPT !.up = up, !.todo = steps]), UNCHANGED <<deploy, storeVars, task, told>>
    PROVE  WholeInv'
  <1> DEFINE st == [Fresh EXCEPT !.up = up, !.todo = steps]
  <1>1. st \in States /\ st.todo = steps
    <2>1. steps \in Seq(Steps)
      BY SeqIn
    <2>2. HasList([Fresh EXCEPT !.up = up, !.todo = steps], steps)
      BY <2>1, FreshIs
    <2> QED BY <2>2 DEF HasList
  <1>2. Becomes(p, st)
    OBVIOUS
  <1> HIDE DEF st
  <1>3. Types'
    BY <1>1, <1>2, TypesMove DEF WholeInv
  <1> QED BY <1>1, <1>2, <1>3, Plainly, SameTasks DEF storeVars

\* An Idle process has nothing to do; it may begin.
LEMMA RunsWhole ==
    ASSUME WholeInv, NEW p \in Processes, NEW steps \in Seq(Plain(p)), Runs(p, steps),
           UNCHANGED <<deploy, storeVars, task, told>>
    PROVE  WholeInv'
  BY AfreshWhole DEF Runs, WholeInv, Types, States

LEMMA StartWhole == ASSUME WholeInv, NEW r \in Runners, Start(r) \/ Wake(r) \/ ReleaseOwned(r) PROVE WholeInv'
  <1>1. /\ Do("list", None) \in Seq(Plain(r)) /\ Do("owned", None) \in Seq(Plain(r)) /\ Do("down", None) \in Seq(Plain(r))
        /\ \A job \in {"look", "check", "giveUp"}, pairs \in SUBSET (Batches \X BOOLEAN) : Each(job, pairs) \in Seq(Plain(r))
    BY One DEF Plain, LoopSteps, Do, Step, Each
  <1>2. CASE Start(r)
    BY <1>1, <1>2, AfreshWhole, RunnersRun DEF Start
  <1>3. CASE Wake(r)
    <2>1. Tasks(r) \X {FALSE} \in SUBSET (Batches \X BOOLEAN)
      BY DEF Tasks
    <2>2. Each("look", Tasks(r) \X {FALSE}) \o Do("list", None) \in Seq(Plain(r))
      BY <2>1, <1>1, Joined
    <2> QED BY <1>3, <2>2, RunsWhole, RunnersRun DEF Wake
  <1>4. CASE ReleaseOwned(r)
    <2>1. Do("owned", None) \o Do("down", None) \in Seq(Plain(r))
      BY <1>1, Joined
    <2> QED BY <1>4, <2>1, RunsWhole, RunnersRun DEF ReleaseOwned
  <1> QED BY <1>2, <1>3, <1>4

LEMMA ThenTypes ==
    ASSUME WholeInv, NEW p \in Processes, NEW op, At(p, op), NEW steps \in Seq(Plain(p)), Becomes(p, Then(p, steps))
    PROVE  /\ UNCHANGED <<deploy, storeVars, task, told>> => Types'
           /\ UNCHANGED <<deploy, batch, spec, exec, files, told, task>> /\ lease' \in [Batches -> Lease] => Types'
  <1>1. Then(p, steps) \in States
    BY ThenIs, SeqIn DEF WholeInv, At
  <1> QED BY <1>1, TypesMove DEF WholeInv

LEMMA TakeWhole == ASSUME WholeInv, NEW r \in Runners, NEW b \in Batches, NEW flagged \in BOOLEAN, Take(r, b, flagged) PROVE WholeInv'
  <1> DEFINE job == Now(r).arg
             steps == CASE job = "look"   -> Do("look", b) \o Do("renew", b)
                        [] job = "check"  -> Do("check", b)
                        [] job = "giveUp" -> GiveUp(b, flagged)
             rest  == Now(r).over \ {<<b, flagged>>}
             more == IF rest = {} THEN <<>> ELSE Each(job, rest)
  <1>1. r \in Processes /\ At(r, "each") /\ job \in {"look", "check", "giveUp"} /\ Now(r).over \in SUBSET (Batches \X BOOLEAN)
    BY NowIs, OpOf, RunnersRun DEF WholeInv, Take
  <1>2. more \in Seq(Plain(r))
    <2>1. rest \in SUBSET (Batches \X BOOLEAN)
      BY <1>1
    <2> HIDE DEF rest
    <2> QED BY <1>1, <2>1, StepsPlain, EmptySeq
  <1>3. steps \in Seq(Plain(r))
    <2>1. Do("look", b) \o Do("renew", b) \in Seq(Plain(r))
      BY StepsPlain, Joined
    <2> HIDE DEF job
    <2>2. CASE job = "look"
      BY <2>1, <2>2
    <2>3. CASE job = "check"
      BY <2>3, StepsPlain
    <2>4. CASE job = "giveUp"
      BY <2>4, ProgramsPlain
    <2> QED BY <1>1, <2>2, <2>3, <2>4
  <1>4. Becomes(r, Then(r, steps \o more)) /\ UNCHANGED <<deploy, storeVars, task, told>>
    BY DEF Take
  <1> HIDE DEF steps, more
  <1>5. steps \o more \in Seq(Plain(r))
    BY <1>2, <1>3, Joined
  <1>6. Types'
    BY <1>1, <1>4, <1>5, ThenTypes
  <1> QED BY <1>1, <1>4, <1>5, <1>6, ThenWhole DEF storeVars

\* The steps of the loop that touch no task.
LEMMA LoopWhole ==
    ASSUME WholeInv, NEW r \in Runners,
           TakeNone(r) \/ Renew(r) \/ List(r) \/ Check(r) \/ Claim(r) \/ GetSpec(r) \/ ListOwned(r)
    PROVE  WholeInv'
  <1>0. r \in Processes
    BY RunnersRun
  <1>1. CASE TakeNone(r)
    <2>1. Becomes(r, Then(r, <<>>)) /\ At(r, "each")
      BY <1>1 DEF TakeNone, Next1
    <2> QED BY <1>0, <1>1, <2>1, ThenWhole, ThenTypes, EmptySeq DEF TakeNone, storeVars
  <1>2. CASE Renew(r)
    <2>1. At(r, "renew") /\ On(r) \in Batches
      BY <1>0, <1>2, NowIs DEF Renew, WholeInv
    <2>2. lease' \in [Batches -> Lease]
      BY <2>1, <1>2, LeaseMutations DEF Renew, WholeInv, Types
    <2>3. Types'
      BY <1>0, <1>2, <2>1, <2>2, NextTypes1 DEF Renew
    <2> QED BY <1>0, <1>2, <2>1, <2>3, NextWhole, SameTasks DEF Renew
  <1>3. CASE List(r)
    <2> DEFINE steps == Each("check", {b \in Batches : ClaimableBatch(r, b)} \X {FALSE})
    <2>1. steps \in Seq(Plain(r))
      <3>1. {b \in Batches : ClaimableBatch(r, b)} \X {FALSE} \in SUBSET (Batches \X BOOLEAN)
        OBVIOUS
      <3> QED BY <3>1, One DEF Plain, LoopSteps, Each
    <2>2. Becomes(r, Then(r, steps)) /\ At(r, "list")
      BY <1>3 DEF List
    <2> HIDE DEF steps
    <2> QED BY <1>0, <1>3, <2>1, <2>2, ThenWhole, ThenTypes DEF List, storeVars
  <1>4. CASE Check(r)
    <2> DEFINE steps == IF ClaimableBatch(r, On(r)) THEN Do("claim", On(r)) ELSE <<>>
    <2>1. At(r, "check") /\ On(r) \in Batches
      BY <1>0, <1>4, NowIs DEF Check, WholeInv
    <2>2. steps \in Seq(Plain(r))
      BY <2>1, StepsPlain, EmptySeq
    <2>3. Becomes(r, Then(r, steps))
      BY <1>4 DEF Check
    <2> HIDE DEF steps
    <2> QED BY <1>0, <1>4, <2>1, <2>2, <2>3, ThenWhole, ThenTypes DEF Check, storeVars
  <1>5. CASE Claim(r)
    <2> DEFINE b == On(r)
               free == ~HeldByOther(lease[b], r)
               steps == IF free THEN SetExec(b, "running") \o Do("spawn", b) ELSE <<>>
    <2>1. At(r, "claim") /\ b \in Batches
      BY <1>0, <1>5, NowIs DEF Claim, WholeInv
    <2>2. steps \in Seq(Plain(r))
      BY <2>1, StepsPlain, ProgramsPlain, Joined, EmptySeq
    <2>3. Becomes(r, Then(r, steps))
      BY <1>5 DEF Claim
    <2>4. lease' \in [Batches -> Lease]
      BY <2>1, <1>5, LeaseMutations DEF Claim, WholeInv, Types
    <2> HIDE DEF b, free, steps
    <2>5. Types'
      BY <1>0, <1>5, <2>1, <2>2, <2>3, <2>4, ThenTypes DEF Claim
    <2> QED BY <1>0, <1>5, <2>1, <2>2, <2>3, <2>5, ThenWhole DEF Claim
  <1>6. CASE GetSpec(r)
    <2> DEFINE b == On(r)
               steps == IF spec[b] THEN <<Step("await", b, "content")>> ELSE SetExec(b, "failed") \o Do("release", b)
    <2>1. At(r, "getSpec") /\ b \in Batches
      BY <1>0, <1>6, NowIs DEF GetSpec, WholeInv
    <2>2. steps \in Seq(Plain(r))
      <3>1. SetExec(b, "failed") \in Seq(Plain(r))
        BY <2>1, ProgramsPlain DEF Terminal
      <3> QED BY <2>1, <3>1, StepsPlain, Joined
    <2>3. Becomes(r, Then(r, steps))
      BY <1>6 DEF GetSpec
    <2> HIDE DEF b, steps
    <2> QED BY <1>0, <1>6, <2>1, <2>2, <2>3, ThenWhole, ThenTypes DEF GetSpec, storeVars
  <1>7. CASE ListOwned(r)
    <2> DEFINE steps == Each("giveUp", {<<b, exec[b].cancel>> : b \in
                     {c \in Batches : exec[c].owner = r /\ exec[c].status = "running"}})
    <2>1. steps \in Seq(Plain(r))
      <3>1. \A b \in Batches : exec[b].cancel \in BOOLEAN
        BY DEF WholeInv, Types, Execution
      <3>2. {<<b, exec[b].cancel>> : b \in {c \in Batches : exec[c].owner = r /\ exec[c].status = "running"}}
              \in SUBSET (Batches \X BOOLEAN)
        BY <3>1
      <3> QED BY <3>2, One DEF Plain, LoopSteps, Each
    <2>2. Becomes(r, Then(r, steps)) /\ At(r, "owned")
      BY <1>7 DEF ListOwned
    <2> HIDE DEF steps
    <2> QED BY <1>0, <1>7, <2>1, <2>2, ThenWhole, ThenTypes DEF ListOwned, storeVars
  <1> QED BY <1>1, <1>2, <1>3, <1>4, <1>5, <1>6, <1>7

\* One task of r is set to t.
\* One task changes and the others stay.
TaskBecomes(r, b, t) ==
  /\ task' \in [Runners -> [Batches -> TaskStates]] /\ task'[r][b] = t
  /\ \A q \in Runners, c \in Batches : q # r \/ c # b => task'[q][c] = task[q][c]

LEMMA TaskTypes ==
    ASSUME WholeInv, NEW r \in Runners, NEW b \in Batches, NEW t \in TaskStates, task' = [task EXCEPT ![r][b] = t]
    PROVE  TaskBecomes(r, b, t)
  BY DEF WholeInv, Types, TaskBecomes

LEMMA TaskOf ==
    ASSUME WholeInv, NEW r \in Runners, NEW b \in Batches
    PROVE  task[r][b] \in TaskStates
  BY DEF WholeInv, Types

LEMMA LookWhole == ASSUME WholeInv, NEW r \in Runners, Look(r) PROVE WholeInv'
  <1> DEFINE b == On(r)
             t == [task[r][b] EXCEPT !.hit = @ \/ exec[b].cancel]
  <1>1. r \in Processes /\ At(r, "look") /\ b \in Batches
    BY RunnersRun, NowIs DEF WholeInv, Look
  <1>2. task' = [task EXCEPT ![r][b] = t]
    BY DEF Look
  <1>3. t \in TaskStates /\ t.at = task[r][b].at /\ t.obj = task[r][b].obj /\ t.ok = task[r][b].ok /\ t.bad = task[r][b].bad
    <2>1. task[r][b].hit \/ exec[b].cancel \in BOOLEAN
      BY <1>1 DEF WholeInv, Types, Execution
    <2> QED BY <1>1, <2>1, TaskOf DEF TaskStates
  <1> HIDE DEF b, t
  <1>4. /\ task' \in [Runners -> [Batches -> TaskStates]] /\ task'[r][b] = t
        /\ \A q \in Runners, c \in Batches : q # r \/ c # b => task'[q][c] = task[q][c]
    <2>1. TaskBecomes(r, b, t)
      BY <1>1, <1>2, <1>3, TaskTypes
    <2> QED BY <2>1 DEF TaskBecomes
  <1>5. \A q \in Runners, c \in Batches : TaskStays(q, c) /\ (q # r => task'[q][c] = task[q][c])
    BY <1>3, <1>4 DEF TaskStays
  <1>6. Types'
    BY <1>1, <1>4, NextTypes1 DEF WholeInv, Types, Look, storeVars
  <1> QED BY <1>1, <1>5, <1>6, NextWhole DEF Look, storeVars

LEMMA SpawnWhole == ASSUME WholeInv, NEW r \in Runners, Spawn(r) PROVE WholeInv'
  <1> DEFINE b == On(r)
             t == [task[r][b] EXCEPT !.at = "new"]
  <1>1. r \in Processes /\ At(r, "spawn") /\ b \in Batches
    BY RunnersRun, NowIs DEF WholeInv, Spawn
  <1>2. task' = [task EXCEPT ![r][b] = t]
    BY DEF Spawn
  <1>3. t \in TaskStates /\ t.at = "new"
    BY <1>1, TaskOf DEF TaskStates
  <1> HIDE DEF b, t
  <1>4. /\ task' \in [Runners -> [Batches -> TaskStates]] /\ task'[r][b] = t
        /\ \A q \in Runners, c \in Batches : q # r \/ c # b => task'[q][c] = task[q][c]
    <2>1. TaskBecomes(r, b, t)
      BY <1>1, <1>2, <1>3, TaskTypes
    <2> QED BY <2>1 DEF TaskBecomes
  <1>5. \A q \in Runners, c \in Batches : TaskStays(q, c) /\ (q # r => task'[q][c] = task[q][c])
    BY <1>3, <1>4 DEF TaskStays
  <1>6. Types'
    BY <1>1, <1>4, NextTypes1 DEF WholeInv, Types, Spawn, storeVars
  <1> QED BY <1>1, <1>5, <1>6, NextWhole DEF Spawn, storeVars

\* A task suspends with the copy its list was written for.
LEMMA AwaitWhole == ASSUME WholeInv, NEW r \in Runners, Await(r) PROVE WholeInv'
  <1> DEFINE b == On(r)
             t == [task[r][b] EXCEPT !.at = Now(r).arg, !.obj = proc[r].obj]
  <1>1. r \in Processes /\ At(r, "await") /\ b \in Batches /\ Now(r).arg \in {"content", "gather", "upOut", "upErr"}
    BY RunnersRun, NowIs, OpOf DEF WholeInv, Await
  <1>2. task' = [task EXCEPT ![r][b] = t]
    <2>1. [task EXCEPT ![r][b].at = Now(r).arg, ![r][b].obj = proc[r].obj] = [task EXCEPT ![r][b] = t]
      BY <1>1, TaskOf DEF WholeInv, Types, TaskStates
    <2> QED BY <2>1 DEF Await
  <1>3. t \in TaskStates /\ t.at = Now(r).arg /\ t.obj = proc[r].obj /\ t.ok = task[r][b].ok /\ t.bad = task[r][b].bad
    <2>1. proc[r].obj \in Batch
      BY <1>1 DEF WholeInv, Types, States
    <2> QED BY <1>1, <2>1, TaskOf DEF TaskStates
  <1> HIDE DEF t
  <1>4. /\ task' \in [Runners -> [Batches -> TaskStates]] /\ task'[r][b] = t
        /\ \A q \in Runners, c \in Batches : q # r \/ c # b => task'[q][c] = task[q][c]
    <2>1. TaskBecomes(r, b, t)
      BY <1>1, <1>2, <1>3, TaskTypes
    <2> QED BY <2>1 DEF TaskBecomes
  <1>5. Types'
    BY <1>1, <1>4, NextTypes1 DEF WholeInv, Types, Await, storeVars
  <1>6. Then(r, <<>>) \in States /\ Then(r, <<>>).todo = Tail(proc[r].todo) /\ Becomes(r, Then(r, <<>>))
    BY <1>1, ThenIs, EmptySeq DEF WholeInv, At, Await, Next1
  <1>7. UNCHANGED <<files, batch>>
    BY DEF Await, storeVars
  <1>8. \A q \in Runners \ {r}, c \in Batches : task'[q][c] = task[q][c]
    BY <1>4
  <1>9. CASE proc[r].todo \in Seq(Plain(r))
    <2>1. Now(r).arg \in {"content", "gather"} /\ Tail(proc[r].todo) \in Seq(Plain(r))
      BY <1>1, <1>9, PlainTail, PlainOf, NowIs DEF WholeInv
    <2>2. \A q \in Runners, c \in Batches : TaskStays(q, c)
      BY <1>3, <1>4, <2>1 DEF TaskStays
    <2> QED BY <1>1, <1>5, <1>6, <1>7, <1>8, <2>1, <2>2, Plainly
  <1>10. ASSUME NEW c \in Batches, Wrapping(r, c), proc[r].todo \notin Seq(Plain(r)) PROVE WholeInv'
    <2>1. Now(r) = Head(proc[r].todo) /\ Now(r).op = "await"
      BY <1>1 DEF At, Now
    <2>2. \A arg : Step("write", c, arg).op # "await"
      BY DEF Step
    <2>3. /\ Tail(proc[r].todo) = <<>> /\ b = c /\ Counted(proc[r].obj, task[r][c])
          /\ Now(r).arg = "upOut" \/ (Now(r).arg = "upErr" /\ HasOut(proc[r].obj, r, c))
      BY <1>10, <2>1, <2>2 DEF Wrapping, Begins, Ends, Step, On
    <2>4. TaskWhole(r, c)'
      BY <1>3, <1>4, <1>7, <2>3 DEF TaskWhole, Counted, HasOut
    <2>5. ASSUME NEW q \in Runners, NEW d \in Batches, q # r \/ d # c PROVE TaskWhole(q, d)'
      <3>1. TaskStays(q, d)
        BY <1>1, <1>4, <2>3, <2>5 DEF TaskStays
      <3> QED BY <1>7, <3>1, TasksStay
    <2>6. Orderly(r)'
      <3>1. proc'[r] = Then(r, <<>>)
        BY <1>1, <1>6, Stating DEF WholeInv
      <3> QED BY <1>6, <2>3, <3>1, EmptySeq DEF Orderly
    <2>7. \A q \in Processes \ {r} : Orderly(q)'
      BY <1>1, <1>6, <1>7, <1>8, OthersOrderly
    <2>8. CompletedIsWhole'
      BY <1>7, BatchesStay
    <2> QED BY <1>5, <2>4, <2>5, <2>6, <2>7, <2>8 DEF WholeInv
  <1> QED BY <1>1, <1>9, <1>10 DEF WholeInv, Orderly

\* Another process of a runner starts with nothing, or is gone.
LEMMA DownWhole == ASSUME WholeInv, NEW r \in Runners, Down(r) PROVE WholeInv'
  <1> DEFINE st == [Fresh EXCEPT !.up = "down"]
  <1>1. st \in States /\ st.todo = <<>>
    BY FreshIdle DEF HasList
  <1>2. Becomes(r, st)
    BY DEF Down
  <1> HIDE DEF st
  <1>3. Types'
    BY <1>1, <1>2, TypesMove, RunnersRun DEF WholeInv, Down
  <1>4. files' = files /\ batch' = batch /\ task' = task
    BY DEF Down, storeVars
  <1>5. st.todo \in Seq(Plain(r))
    BY <1>1, EmptySeq
  <1> QED BY <1>1, <1>2, <1>3, <1>4, <1>5, Plainly, SameTasks, RunnersRun

LEMMA CrashWhole == ASSUME WholeInv, NEW r \in Runners, Crash(r) PROVE WholeInv'
  <1> DEFINE st == [Fresh EXCEPT !.up = "down"]
  <1>1. st \in States /\ st.todo = <<>> /\ r \in Processes
    BY FreshIdle, RunnersRun DEF HasList
  <1>2. Becomes(r, st)
    BY DEF Crash
  <1> HIDE DEF st
  <1>3. /\ task' \in [Runners -> [Batches -> TaskStates]]
        /\ \A q \in Runners, b \in Batches : TaskStays(q, b)
        /\ \A q \in Runners \ {r}, b \in Batches : task'[q][b] = task[q][b]
    BY NoTaskIs DEF Crash, WholeInv, Types, TaskStays
  <1>4. Types'
    BY <1>1, <1>2, <1>3, Stating DEF WholeInv, Crash, Types, storeVars
  <1>5. files' = files /\ batch' = batch
    BY DEF Crash, storeVars
  <1>6. st.todo \in Seq(Plain(r))
    BY <1>1, EmptySeq
  <1>7. \A q \in Runners \ {r}, b \in Batches : task'[q][b].ok = task[q][b].ok /\ task'[q][b].bad = task[q][b].bad
    BY <1>3
  <1> QED BY <1>1, <1>2, <1>3, <1>4, <1>5, <1>6, <1>7, Plainly

LEMMA WorkerCrashWhole == ASSUME WholeInv, NEW w \in Workers, WorkerCrash(w) PROVE WholeInv'
  <1> DEFINE st == [Fresh EXCEPT !.up = "up"]
  <1>1. st \in States /\ st.todo = <<>> /\ w \in Processes
    BY FreshIdle DEF Processes, HasList
  <1>2. Becomes(w, st)
    BY DEF WorkerCrash
  <1> HIDE DEF st
  <1>3. Types'
    BY <1>1, <1>2, TypesMove DEF WholeInv, WorkerCrash
  <1>4. files' = files /\ batch' = batch /\ task' = task
    BY DEF WorkerCrash, storeVars
  <1>5. st.todo \in Seq(Plain(w))
    BY <1>1, EmptySeq
  <1> QED BY <1>1, <1>2, <1>3, <1>4, <1>5, Plainly, SameTasks

\* The process goes on as it is.
LEMMA StandsWhole ==
    ASSUME WholeInv, NEW p \in Processes, proc[p].todo = <<>>, proc' = proc, Types', files' = files, batch' = batch,
           \A r \in Runners, b \in Batches : TaskStays(r, b),
           \A r \in Runners \ {p}, b \in Batches :
              task'[r][b].ok = task[r][b].ok /\ task'[r][b].bad = task[r][b].bad
    PROVE  WholeInv'
  <1>1. proc[p] \in States /\ Becomes(p, proc[p])
    BY DEF WholeInv, Types, Becomes
  <1> QED BY <1>1, Plainly, EmptySeq

LEMMA StopWhole == ASSUME WholeInv, NEW r \in Runners, Stop(r) PROVE WholeInv'
  <1> DEFINE st == [proc[r] EXCEPT !.up = "stop"]
  <1>1. st \in States /\ st.todo = <<>> /\ r \in Processes
    BY RunnersRun DEF WholeInv, Types, States, Stop, Idle
  <1>2. Becomes(r, st)
    BY DEF Stop, Becomes
  <1> HIDE DEF st
  <1>3. \A t \in TaskStates : [t EXCEPT !.hit = TRUE] \in TaskStates /\ [t EXCEPT !.hit = TRUE].at = t.at
          /\ [t EXCEPT !.hit = TRUE].obj = t.obj /\ [t EXCEPT !.hit = TRUE].ok = t.ok /\ [t EXCEPT !.hit = TRUE].bad = t.bad
    BY DEF TaskStates
  <1>4. \A b \in Batches : task'[r][b] \in TaskStates /\ TaskStays(r, b)
    BY <1>3, NoTaskIs, TaskOf DEF Stop, WholeInv, Types, TaskStays
  <1>5. \A q \in Runners \ {r}, b \in Batches : task'[q][b] = task[q][b]
    BY DEF Stop, WholeInv, Types
  <1>6. task' \in [Runners -> [Batches -> TaskStates]]
    BY <1>3, NoTaskIs DEF Stop, WholeInv, Types
  <1>7. \A q \in Runners, b \in Batches : TaskStays(q, b)
    BY <1>4, <1>5 DEF TaskStays
  <1>8. Types'
    BY <1>1, <1>2, <1>6, Stating DEF WholeInv, Stop, Types, storeVars
  <1> QED BY <1>1, <1>2, <1>5, <1>7, <1>8, Plainly, EmptySeq DEF Stop, storeVars

LEMMA ExpireWhole == ASSUME WholeInv, NEW b \in Batches, Expire(b) PROVE WholeInv'
  <1>1. lease' \in [Batches -> Lease]
    BY DEF WholeInv, Types, Expire, Lease
  <1>2. Types' /\ UNCHANGED <<proc, task, files, batch>>
    BY <1>1 DEF WholeInv, Types, Expire
  <1> QED BY <1>2 DEF WholeInv, Orderly, Wrapping, Whole, Counted, HasOut, TaskWhole, CompletedIsWhole

-----------------------------------------------------------------------------
(* A batch's task. *)

LEMMA BeginWhole ==
    ASSUME WholeInv, NEW r \in Runners, NEW b \in Batches,
           Begin(r, b) \/ Content(r, b) \/ Fails(r, b) \/ Cancelled(r, b)
    PROVE  WholeInv'
  <1>1. PICK steps \in Seq(Plain(r)) : Runs(r, steps)
    <2>1. CASE Begin(r, b)
      BY <2>1, StepsPlain DEF Begin
    <2>2. CASE Content(r, b)
      <3>1. Mark(b, "in_progress") \o <<Step("await", b, "gather")>> \in Seq(Plain(r))
        BY StepsPlain, ProgramsPlain, Joined
      <3> QED BY <2>2, <3>1 DEF Content
    <2>3. CASE Fails(r, b)
      BY <2>3, ProgramsPlain DEF Fails
    <2>4. CASE Cancelled(r, b)
      BY <2>4, ProgramsPlain DEF Cancelled
    <2> QED BY <2>1, <2>2, <2>3, <2>4
  <1> QED BY <1>1, RunsWhole, RunnersRun DEF Begin, Content, Fails, Cancelled

LEMMA LineWhole ==
    ASSUME WholeInv, NEW r \in Runners, NEW b \in Batches, NEW ok \in BOOLEAN, LineDone(r, b, ok)
    PROVE  WholeInv'
  <1> DEFINE t == [task[r][b] EXCEPT !.ok = IF ok THEN @ + 1 ELSE @, !.bad = IF ok THEN @ ELSE @ + 1]
  <1>1. task[r][b] \in TaskStates /\ task[r][b].at = "gather" /\ task[r][b].ok + task[r][b].bad < Lines /\ proc[r].todo = <<>>
    BY TaskOf DEF LineDone, Resumes, Idle
  <1>2. task' = [task EXCEPT ![r][b] = t]
    <2>1. [task EXCEPT ![r][b].ok = IF ok THEN @ + 1 ELSE @, ![r][b].bad = IF ok THEN @ ELSE @ + 1] = [task EXCEPT ![r][b] = t]
      BY <1>1 DEF WholeInv, Types, TaskStates
    <2> QED BY <2>1 DEF LineDone
  <1>3. t \in TaskStates /\ t.at = "gather"
    <2>1. task[r][b].ok \in 0..Lines /\ task[r][b].bad \in 0..Lines /\ Lines \in Nat
      BY <1>1, BatchAssumption DEF TaskStates
    <2>2. (IF ok THEN task[r][b].ok + 1 ELSE task[r][b].ok) \in 0..Lines
      BY <1>1, <2>1
    <2>3. (IF ok THEN task[r][b].bad ELSE task[r][b].bad + 1) \in 0..Lines
      BY <1>1, <2>1
    <2> QED BY <1>1, <2>2, <2>3 DEF TaskStates
  <1> HIDE DEF t
  <1>4. /\ task' \in [Runners -> [Batches -> TaskStates]] /\ task'[r][b] = t
        /\ \A q \in Runners, c \in Batches : q # r \/ c # b => task'[q][c] = task[q][c]
    <2>1. TaskBecomes(r, b, t)
      BY <1>2, <1>3, TaskTypes
    <2> QED BY <2>1 DEF TaskBecomes
  <1>5. Types' /\ UNCHANGED <<proc, files, batch>>
    BY <1>4 DEF WholeInv, Types, LineDone, storeVars
  <1>6. \A q \in Runners, c \in Batches : TaskStays(q, c)
    BY <1>3, <1>4 DEF TaskStays
  <1>7. \A q \in Runners \ {r}, c \in Batches : task'[q][c] = task[q][c]
    BY <1>4
  <1> QED BY <1>1, <1>5, <1>6, <1>7, StandsWhole, RunnersRun

LEMMA DropWhole == ASSUME WholeInv, NEW r \in Runners, NEW b \in Batches, DropUnstarted(r, b) PROVE WholeInv'
  <1>1. task' = [task EXCEPT ![r][b] = NoTask] /\ proc[r].todo = <<>> /\ UNCHANGED <<proc, files, batch>>
    BY DEF DropUnstarted, Idle, storeVars
  <1>2. /\ task' \in [Runners -> [Batches -> TaskStates]] /\ task'[r][b] = NoTask
        /\ \A q \in Runners, c \in Batches : q # r \/ c # b => task'[q][c] = task[q][c]
    <2>1. TaskBecomes(r, b, NoTask)
      BY <1>1, NoTaskIs, TaskTypes
    <2> QED BY <2>1 DEF TaskBecomes
  <1>3. Types'
    BY <1>2 DEF WholeInv, Types, DropUnstarted, storeVars
  <1>4. \A q \in Runners, c \in Batches : TaskStays(q, c)
    BY <1>2, NoTaskIs DEF TaskStays
  <1>5. \A q \in Runners \ {r}, c \in Batches : task'[q][c] = task[q][c]
    BY <1>2
  <1> QED BY <1>1, <1>3, <1>4, <1>5, StandsWhole, RunnersRun

\* What Holding leaves r with.
LEMMA HoldingIs ==
    ASSUME WholeInv, NEW r \in Runners, NEW obj \in Batch, NEW steps \in Seq(Steps), Holding(r, obj, steps)
    PROVE  \E st \in States : Becomes(r, st) /\ st.obj = obj /\ st.todo = steps
  <1>1. proc[r].up \in {"unborn", "up", "stop", "down"}
    BY RunnersRun DEF WholeInv, Types, States
  <1> DEFINE st == [Fresh EXCEPT !.up = proc[r].up, !.obj = obj, !.todo = steps]
  <1>2. st \in States /\ st.obj = obj /\ st.todo = steps
    BY <1>1, FreshTyped DEF States
  <1>3. Becomes(r, st)
    BY DEF Holding
  <1> QED BY <1>2, <1>3

LEMMA TwoSteps ==
    ASSUME NEW S, NEW x \in S, NEW y \in S
    PROVE  /\ <<x, y>> \in Seq(S) /\ <<x, y>> # <<>> /\ Head(<<x, y>>) = x /\ Ends(Tail(<<x, y>>), y)
           /\ <<x>> \in Seq(S) /\ Ends(<<x>>, x)
  BY DEF Ends, Begins

LEMMA FirstOf ==
    ASSUME NEW S, NEW x \in S, NEW s \in Seq(S)
    PROVE  <<x>> \o s \in Seq(S) /\ <<x>> \o s # <<>> /\ Head(<<x>> \o s) = x /\ Tail(<<x>> \o s) = s
  <1>1. <<x>> \in Seq(S) /\ Len(<<x>>) = 1 /\ <<x>>[1] = x
    OBVIOUS
  <1>2. /\ <<x>> \o s \in Seq(S) /\ Len(<<x>> \o s) = 1 + Len(s)
        /\ \A i \in 1..1 + Len(s) : (<<x>> \o s)[i] = IF i <= 1 THEN <<x>>[i] ELSE s[i - 1]
    BY <1>1, ConcatProperties
  <1>3. Len(s) \in Nat
    BY LenProperties
  <1>4. <<x>> \o s # <<>>
    BY <1>2, <1>3, EmptySeq
  <1>5. Head(<<x>> \o s) = x
    BY <1>1, <1>2, <1>3, <1>4
  <1>6. Tail(<<x>> \o s) \in Seq(S) /\ Len(Tail(<<x>> \o s)) = Len(s) /\ \A i \in 1..Len(s) : Tail(<<x>> \o s)[i] = s[i]
    <2>1. /\ Tail(<<x>> \o s) \in Seq(S) /\ Len(Tail(<<x>> \o s)) = Len(<<x>> \o s) - 1
          /\ \A i \in 1..Len(Tail(<<x>> \o s)) : Tail(<<x>> \o s)[i] = (<<x>> \o s)[i + 1]
      BY <1>2, <1>4, HeadTailProperties
    <2> QED BY <1>2, <1>3, <2>1
  <1>7. Tail(<<x>> \o s) = s
    BY <1>6, SeqEqual
  <1> QED BY <1>2, <1>4, <1>5, <1>7

LEMMA GatheredWhole == ASSUME WholeInv, NEW r \in Runners, NEW b \in Batches, Gathered(r, b) PROVE WholeInv'
  <1> DEFINE obj == [task[r][b].obj EXCEPT !.ok = task[r][b].ok, !.bad = task[r][b].bad]
             steps == <<Step("write", b, "finalizing"), Step("await", b, "upOut")>>
  <1>1. task[r][b] \in TaskStates /\ task[r][b].ok + task[r][b].bad = Lines /\ r \in Processes
    BY TaskOf, RunnersRun DEF Gathered
  <1>2. obj \in Batch /\ Counted(obj, task[r][b])
    BY <1>1 DEF TaskStates, Batch, Counted
  <1>3. /\ steps \in Seq(Steps) /\ Begins(steps, Step("write", b, "finalizing"))
        /\ Ends(Tail(steps), Step("await", b, "upOut"))
    <2>1. Step("write", b, "finalizing") \in Steps /\ Step("await", b, "upOut") \in Steps
      BY DEF Steps, LoopSteps, LastSteps, Ops, Step
    <2> QED BY <2>1, TwoSteps DEF Begins
  <1>4. Holding(r, obj, steps) /\ UNCHANGED <<deploy, storeVars, task, told>>
    BY DEF Gathered
  <1> HIDE DEF obj, steps
  <1>5. PICK st \in States : Becomes(r, st) /\ st.obj = obj /\ st.todo = steps
    BY <1>2, <1>3, <1>4, HoldingIs
  <1>6. Types' /\ proc'[r] = st
    BY <1>1, <1>4, <1>5, TypesMove, Stating DEF WholeInv
  <1>7. Wrapping(r, b)'
    BY <1>2, <1>3, <1>4, <1>5, <1>6 DEF Wrapping, Counted
  <1>8. \A q \in Processes \ {r} : Orderly(q)'
    BY <1>1, <1>4, <1>5, OthersOrderly DEF storeVars
  <1>9. Orderly(r)'
    BY <1>7 DEF Orderly
  <1>10. UNCHANGED <<files, batch, task>>
    BY <1>4 DEF storeVars
  <1> QED BY <1>6, <1>8, <1>9, <1>10, TasksStay, SameTasks, BatchesStay DEF WholeInv

LEMMA UploadedWhole == ASSUME WholeInv, NEW r \in Runners, NEW b \in Batches, Uploaded(r, b) PROVE WholeInv'
  <1> DEFINE at == task[r][b].at
             obj == IF at = "upOut" THEN [task[r][b].obj EXCEPT !.out = r] ELSE [task[r][b].obj EXCEPT !.err = r]
             kind == IF at = "upOut" THEN "out" ELSE "err"
             more == at = "upOut" /\ task[r][b].bad > 0
             steps == IF more THEN <<Step("await", b, "upErr")>>
                              ELSE <<Step("write", b, "completed")>> \o Finish(b, "completed")
  <1>1. task[r][b] \in TaskStates /\ at \in {"upOut", "upErr"} /\ TaskWhole(r, b) /\ r \in Processes
    BY TaskOf, RunnersRun DEF Uploaded, Resumes, WholeInv
  <1>2. files' = [files EXCEPT ![b] = @ \cup {<<r, kind>>}]
    BY DEF Uploaded
  <1>3. Holding(r, obj, steps) /\ UNCHANGED <<deploy, batch, spec, exec, lease, task, told>>
    BY DEF Uploaded
  <1>4. obj \in Batch /\ Counted(obj, task[r][b]) /\ (at = "upOut" => obj.out = r)
          /\ (at = "upErr" => obj.err = r /\ HasOut(obj, r, b))
    <2>1. Counted(task[r][b].obj, task[r][b]) /\ (at = "upErr" => HasOut(task[r][b].obj, r, b))
      BY <1>1 DEF TaskWhole
    <2> QED BY <1>1, <2>1 DEF TaskStates, Batch, Counted, HasOut
  <1>5. /\ files' \in [Batches -> SUBSET (Runners \X {"out", "err"})]
        /\ \A c \in Batches : files[c] \subseteq files'[c]
        /\ <<r, kind>> \in files'[b]
    <2>1. <<r, kind>> \in Runners \X {"out", "err"}
      OBVIOUS
    <2> HIDE DEF kind
    <2> QED BY <1>2, <2>1 DEF WholeInv, Types
  <1>6. /\ Finish(b, "completed") \in Seq(Plain(r)) /\ Step("write", b, "completed") \in Steps
        /\ Step("await", b, "upErr") \in Steps
    BY ProgramsPlain DEF Terminal, Steps, LastSteps, Ops, Step
  <1>7. steps \in Seq(Steps)
    <2>1. Finish(b, "completed") \in Seq(Steps)
      BY <1>6, SeqIn
    <2> HIDE DEF more
    <2> QED BY <1>6, <2>1, One, FirstOf
  <1>8. at = "upOut" \/ at = "upErr"
    BY <1>1
  <1> HIDE DEF obj, steps
  <1>9. PICK st \in States : Becomes(r, st) /\ st.obj = obj /\ st.todo = steps
    BY <1>3, <1>4, <1>7, HoldingIs
  <1>10. proc'[r] = st /\ proc' \in [Processes -> States]
    BY <1>1, <1>9, Stating DEF WholeInv
  <1>11. Types'
    BY <1>3, <1>5, <1>10 DEF WholeInv, Types
  <1>12. ASSUME more PROVE Orderly(r)'
    <2>1. Ends(steps, Step("await", b, "upErr")) /\ obj.out = r /\ <<r, "out">> \in files'[b]
      BY <1>12, <1>4, <1>5, <1>6, TwoSteps DEF steps
    <2>2. Wrapping(r, b)'
      BY <1>3, <1>4, <1>9, <1>10, <2>1 DEF Wrapping, Counted, HasOut
    <2> QED BY <2>2 DEF Orderly
  <1>13. ASSUME ~more PROVE Orderly(r)'
    <2>1. steps = <<Step("write", b, "completed")>> \o Finish(b, "completed")
      BY <1>13 DEF steps
    <2>2. Finish(b, "completed") \in Seq(Steps)
      BY <1>6, SeqIn
    <2>3. Begins(steps, Step("write", b, "completed")) /\ Tail(steps) = Finish(b, "completed")
      BY <1>6, <2>1, <2>2, FirstOf DEF Begins
    <2>4. obj.ok + obj.bad = Lines /\ obj.bad = task[r][b].bad
      BY <1>4 DEF Counted
    <2>5. CASE at = "upOut"
      <3>1. <<obj.out, "out">> \in files'[b] /\ ~(task[r][b].bad > 0)
        BY <1>4, <1>5, <1>13, <2>5
      <3> QED BY <1>6, <1>9, <1>10, <2>3, <2>4, <3>1 DEF Orderly, Wrapping, Whole
    <2>6. CASE at = "upErr"
      <3>1. <<obj.err, "err">> \in files'[b] /\ obj.out = r /\ obj.err = r /\ <<r, "out">> \in files'[b]
        BY <1>4, <1>5, <2>6 DEF HasOut
      <3> QED BY <1>6, <1>9, <1>10, <2>3, <2>4, <3>1 DEF Orderly, Wrapping, Whole
    <2> QED BY <1>8, <2>5, <2>6
  <1>14. \A q \in Processes \ {r} : Orderly(q)'
    BY <1>1, <1>3, <1>5, <1>9, OthersOrderly
  <1>15. \A q \in Runners, c \in Batches : TaskWhole(q, c)'
    BY <1>3, <1>5, TasksStay, SameTasks
  <1>16. CompletedIsWhole'
    BY <1>3, <1>5, BatchesStay
  <1> QED BY <1>11, <1>12, <1>13, <1>14, <1>15, <1>16 DEF WholeInv

-----------------------------------------------------------------------------

LEMMA NextWholeInv == ASSUME WholeInv, [Next]_vars PROVE WholeInv'
  <1>1. ASSUME NEW p \in Processes, StoreStep(p) \/ \E b \in Batches : Create(p, b) \/ Cancel(p, b) PROVE WholeInv'
    BY <1>1, StoreStepWhole, CreateWhole, CancelWhole
  <1>2. ASSUME NEW r \in Runners, LoopStep(r) PROVE WholeInv'
    BY <1>2, LoopWhole, LookWhole, SpawnWhole, AwaitWhole, StartWhole, DownWhole, TakeWhole DEF LoopStep
  <1>3. ASSUME NEW r \in Runners, Start(r) \/ Wake(r) \/ Stop(r) \/ Crash(r) PROVE WholeInv'
    BY <1>3, StartWhole, StopWhole, CrashWhole
  <1>4. ASSUME NEW r \in Runners, NEW b \in Batches, TaskStep(r, b) PROVE WholeInv'
    <2>1. Dispatched \subseteq BOOLEAN
      BY DEF Dispatched
    <2> QED BY <1>4, <2>1, BeginWhole, GatheredWhole, UploadedWhole, DropWhole, LineWhole DEF TaskStep
  <1>5. CASE UNCHANGED vars
    BY <1>5, SMTT(30) DEF vars, WholeInv, Types, Orderly, Wrapping, Whole, Counted, HasOut, TaskWhole, CompletedIsWhole
  <1> QED BY <1>1, <1>2, <1>3, <1>4, <1>5, WorkerCrashWhole, ExpireWhole DEF Next

LEMMA InitWholeInv == ASSUME Init PROVE WholeInv
  <1>1. NoBatch \in Batch /\ NoBatch.status # "completed" /\ NoExec \in Execution /\ NoLease \in Lease
    BY BatchAssumption DEF NoBatch, Batch, BatchStatus, NoExec, Execution, ExecStatus, NoLease, Lease
  <1>2. Fresh \in States /\ [Fresh EXCEPT !.up = "up"] \in States /\ Fresh.todo = <<>>
          /\ [Fresh EXCEPT !.up = "up"].todo = <<>>
    BY <1>1, EmptySeq DEF Fresh, States
  <1>3. \A p \in Processes : proc[p] \in States /\ proc[p].todo = <<>>
    BY <1>2 DEF Init
  <1>4. Types
    BY <1>1, <1>2, NoTaskIs DEF Init, Types
  <1>5. \A p \in Processes : Orderly(p)
    BY <1>3, EmptySeq DEF Orderly
  <1>6. \A r \in Runners, b \in Batches : TaskWhole(r, b)
    BY NoTaskIs DEF Init, TaskWhole
  <1>7. CompletedIsWhole
    BY <1>1 DEF Init, CompletedIsWhole
  <1> QED BY <1>4, <1>5, <1>6, <1>7 DEF WholeInv

LEMMA TypesAre == ASSUME Types PROVE TypeOK
  <1>1. ASSUME NEW p \in Processes, NEW i \in DOMAIN proc[p].todo PROVE proc[p].todo[i].op \in StepOps
    <2>1. proc[p].todo \in Seq(Steps)
      BY DEF Types, States
    <2>2. proc[p].todo[i] \in Steps
      BY <2>1, ElementOfSeq, LenProperties
    <2> QED BY <2>2, OpOf
  <1> QED BY <1>1 DEF Types, TypeOK, States, TaskStates

\* Every batch that reads "completed" accounts for each request of its input and names files
\* that are there, in every deployment: with any number of runners that crash, stop and run
\* one batch at once, whatever a handler or another runner stored over it.
THEOREM Wholeness == Spec => []CompletedIsWhole
  <1>1. Init => WholeInv
    BY InitWholeInv
  <1>2. WholeInv /\ [Next]_vars => WholeInv'
    BY NextWholeInv
  <1>3. WholeInv => CompletedIsWhole
    BY DEF WholeInv
  <1> QED BY <1>1, <1>2, <1>3, PTL DEF Spec

-----------------------------------------------------------------------------
(***************************************************************************)
(* One runner at a time.  The second part is about batches nobody else     *)
(* runs: with the handlers in the runner's process, or while nobody        *)
(* cancels.  Every batch is at rest, its records fitting together, but the *)
(* one the runner is at, for which each point of each program has a        *)
(* condition of its own.                                                   *)
(***************************************************************************)

\* One runner at a time, killed only where it shares no process with the handlers.
OneRunner == MaxUp = 1 /\ \A d \in Deployments : d.local => "crash" \notin d.faults

Crashes == "crash" \in deploy.faults
NoTasks(b) == \A r \in Runners : task[r][b].at = "none"
Taskless(r) == \A b \in Batches : task[r][b].at = "none"

\* A batch that has ended and still runs ended in a runner that was killed.
Open(b) == batch[b].status \in Terminal => Crashes

\* Batch b is not there yet or is being created; is queued or running; is over.
New(b) ==
    /\ exec[b] = NoExec /\ told[b] = "none" /\ NoTasks(b)
    /\ batch[b].status = "none" \/ (batch[b].status = "validating" /\ ~deploy.local)
Live(b) ==
    /\ exec[b].status \in {"queued", "running"} /\ batch[b].status # "none" /\ spec[b] /\ Open(b)
    /\ exec[b].cancel => deploy.local /\ exec[b].status = "running"
    /\ told[b] # "none" => exec[b].cancel /\ told[b] = "cancelling" /\ batch[b].status = "cancelling"
    /\ \A r \in Runners : task[r][b].at # "none" =>
          exec[b].status = "running" /\ exec[b].owner = r /\ (told[b] # "none" => task[r][b].hit)
Over(b) ==
    /\ exec[b].status \in Terminal /\ batch[b].status = exec[b].status /\ NoTasks(b)
    /\ told[b] # "none" => batch[b].status = "cancelled"
Resting(b) == New(b) \/ Live(b) \/ Over(b)

\* Runner r runs b and nobody has cancelled it; it is storing that b ended so; it has
\* stored that b ended.
Working(r, b) == Live(b) /\ task[r][b].at # "none" /\ told[b] = "none"
Storing(r, b, st) ==
    /\ exec[b].status = "running" /\ exec[b].owner = r /\ (exec[b].cancel => deploy.local)
    /\ spec[b] /\ batch[b].status # "none" /\ st \in Terminal
    /\ told[b] # "none" => st = "cancelled" /\ batch[b].status \in {told[b], "cancelled"}
    /\ \A q \in Runners \ {r} : task[q][b].at = "none"
Stored(r, b) ==
    /\ exec[b].status \in Terminal /\ batch[b].status = exec[b].status
    /\ told[b] # "none" => batch[b].status = "cancelled"
    /\ \A q \in Runners \ {r} : task[q][b].at = "none"

\* r stops and b is still recorded as running there; b is being cancelled for that.
Owned(r, b, flag) ==
    Live(b) /\ exec[b].status = "running" /\ exec[b].owner = r /\ exec[b].cancel = flag /\ NoTasks(b)
GivingUp(b) ==
    /\ exec[b].status = "running" /\ exec[b].cancel /\ deploy.local
    /\ NoTasks(b) /\ batch[b].status = "cancelled"

\* b may be claimed.
Free(b) == Live(b) /\ NoTasks(b) /\ ~exec[b].cancel

\* A queued batch has just been cancelled.
Unqueued(b) == Open(b) /\ NoTasks(b) /\ exec[b].status = "cancelled"

(***************************************************************************)
(* What is left of a program: each operator is named for the call that is  *)
(* next.                                                                   *)
(***************************************************************************)
First(s, op, b) == Begins(s, Step(op, b, "none"))

\* A task.
IsRelease(s, b) == Ends(s, Step("release", b, "none"))
IsDrop(s, b) == First(s, "dropSpec", b) /\ IsRelease(Tail(s), b)
IsSet(s, b, st) == Begins(s, Step("setExec", b, st)) /\ IsDrop(Tail(s), b)
IsFinish(s, b, st) == First(s, "getExec", b) /\ IsSet(Tail(s), b, st)
IsWrite(s, b, st) == Begins(s, Step("write", b, st)) /\ IsFinish(Tail(s), b, st)
IsMark(s, b, st) == First(s, "read", b) /\ IsWrite(Tail(s), b, st)
IsFailWrite(s, b) == Begins(s, Step("write", b, "failed")) /\ IsMark(Tail(s), b, "failed")
IsFailure(s, b) == First(s, "read", b) /\ IsFailWrite(Tail(s), b)
IsAwait(s, b, at) == Ends(s, Step("await", b, at))
IsGoing(s, b) == Begins(s, Step("write", b, "in_progress")) /\ IsAwait(Tail(s), b, "gather")
IsGo(s, b) == First(s, "read", b) /\ IsGoing(Tail(s), b)
IsCounting(s, b) == Begins(s, Step("write", b, "finalizing")) /\ IsAwait(Tail(s), b, "upOut")

\* A handler.
IsTell(s, b, st) == Ends(s, Step("tell", b, st))
IsAnswer(s, b, st) == Begins(s, Step("write", b, st)) /\ IsTell(Tail(s), b, st)
IsUnqueue(s, b) == First(s, "dropSpec", b) /\ IsAnswer(Tail(s), b, "cancelled")
IsEnqueue(s, b) == Ends(s, Step("enqueue", b, "none"))
IsPut(s, b) == First(s, "putSpec", b) /\ IsEnqueue(Tail(s), b)

\* The loop.
EachOf(s, job) == s # <<>> /\ Head(s).op = "each" /\ Head(s).arg = job
IsList(s) == Ends(s, Step("list", None, "none"))
LookRest(s) == IsList(s) \/ (EachOf(s, "look") /\ IsList(Tail(s)))
CheckRest(s) == s = <<>> \/ (EachOf(s, "check") /\ Tail(s) = <<>>)
IsRenew(s, b) == First(s, "renew", b) /\ LookRest(Tail(s))
IsLook(s, b) == First(s, "look", b) /\ IsRenew(Tail(s), b)
IsCheck(s, b) == First(s, "check", b) /\ CheckRest(Tail(s))
IsClaim(s, b) == First(s, "claim", b) /\ CheckRest(Tail(s))
IsSpawn(s, b) == First(s, "spawn", b) /\ CheckRest(Tail(s))
IsRunning(s, b) == Begins(s, Step("setExec", b, "running")) /\ IsSpawn(Tail(s), b)
IsClaimed(s, b) == First(s, "getExec", b) /\ IsRunning(Tail(s), b)

\* The shutdown; b is not among the batches r has still to give up.
IsDown(s) == Ends(s, Step("down", None, "none"))
IsOwned(s) == Begins(s, Step("owned", None, "none")) /\ IsDown(Tail(s))
Pairs(r, s) == \A pair \in Head(s).over : Owned(r, pair[1], pair[2])
GiveAll(r, s) == Taskless(r) /\ (IsDown(s) \/ (EachOf(s, "giveUp") /\ IsDown(Tail(s)) /\ Pairs(r, s)))
GiveRest(r, s, b) == GiveAll(r, s) /\ (EachOf(s, "giveUp") => \A pair \in Head(s).over : pair[1] # b)
GiveRelease(r, s, b) == First(s, "release", b) /\ GiveRest(r, Tail(s), b)
GiveSet(r, s, b, st) == Begins(s, Step("setExec", b, st)) /\ GiveRelease(r, Tail(s), b)
GiveGet(r, s, b, st) == First(s, "getExec", b) /\ GiveSet(r, Tail(s), b, st)
GiveDrop(r, s, b) == First(s, "dropSpec", b) /\ GiveGet(r, Tail(s), b, "cancelled")
GiveWrite(r, s, b) == Begins(s, Step("write", b, "cancelled")) /\ GiveDrop(r, Tail(s), b)
GiveRead(r, s, b) == First(s, "read", b) /\ GiveWrite(r, Tail(s), b)

(***************************************************************************)
(* The points of the programs of batch b, by the call that is next.        *)
(***************************************************************************)
AtRead(r, b, s) ==
    \/ (IsFailure(s, b) \/ IsGo(s, b)) /\ Working(r, b)
    \/ \E st \in Terminal : IsMark(s, b, st) /\ Storing(r, b, st) /\ (Open(b) \/ batch[b].status = st)
    \/ GiveRead(r, s, b) /\ Owned(r, b, TRUE)
AtWrite(r, b, s, obj) ==
    \/ (IsFailWrite(s, b) \/ IsGoing(s, b) \/ IsCounting(s, b)) /\ Working(r, b)
    \/ \E st \in Terminal : IsWrite(s, b, st) /\ Storing(r, b, st)
                              /\ (Open(b) \/ (batch[b].status = st /\ obj = batch[b]))
    \/ GiveWrite(r, s, b) /\ Owned(r, b, TRUE)
    \/ IsAnswer(s, b, "cancelling") /\ deploy.local /\ told[b] = "none" /\ Live(b) /\ exec[b].cancel
    \/ IsAnswer(s, b, "cancelled") /\ deploy.local /\ told[b] = "none" /\ Unqueued(b)
AtGetExec(r, b, s) ==
    \/ \E st \in Terminal : IsFinish(s, b, st) /\ Storing(r, b, st) /\ batch[b].status = st
    \/ IsClaimed(s, b) /\ Free(b)
    \/ GiveGet(r, s, b, "queued") /\ Owned(r, b, FALSE)
    \/ GiveGet(r, s, b, "cancelled") /\ GivingUp(b)
AtSetExec(r, b, s, seen) ==
    /\ seen = exec[b]
    /\ \/ \E st \in Terminal : IsSet(s, b, st) /\ Storing(r, b, st) /\ batch[b].status = st
       \/ IsRunning(s, b) /\ Free(b)
       \/ GiveSet(r, s, b, "queued") /\ Owned(r, b, FALSE)
       \/ GiveSet(r, s, b, "cancelled") /\ GivingUp(b)
AtDrop(r, b, s) ==
    \/ IsDrop(s, b) /\ Stored(r, b)
    \/ GiveDrop(r, s, b) /\ GivingUp(b)
    \/ IsUnqueue(s, b) /\ deploy.local /\ told[b] = "none" /\ Unqueued(b)
AtRelease(r, b, s) ==
    \/ IsRelease(s, b) /\ (Stored(r, b) \/ Live(b))
    \/ GiveRelease(r, s, b) /\ Resting(b)
AtTask(r, b, s) ==
    /\ Working(r, b)
    /\ \/ Ends(s, Step("getSpec", b, "none"))
       \/ \E at \in {"content", "gather", "upOut", "upErr"} : IsAwait(s, b, at)
AtHandler(r, b, s) ==
    /\ deploy.local /\ told[b] = "none"
    /\ \/ /\ IsPut(s, b) \/ (IsEnqueue(s, b) /\ spec[b])
          /\ exec[b] = NoExec /\ batch[b].status = "validating" /\ NoTasks(b)
       \/ Ends(s, Step("flag", b, "none")) /\ Live(b)
       \/ IsTell(s, b, "cancelling") /\ Live(b) /\ exec[b].cancel /\ batch[b].status = "cancelling"
       \/ IsTell(s, b, "cancelled") /\ Over(b) /\ batch[b].status = "cancelled"
AtLoop(r, b, s) ==
    \/ (IsLook(s, b) \/ IsRenew(s, b) \/ IsCheck(s, b)) /\ Resting(b)
    \/ IsClaim(s, b) /\ Free(b)
    \/ IsSpawn(s, b) /\ Free(b) /\ exec[b].status = "running" /\ exec[b].owner = r
Point(r, b, p) ==
    \/ AtRead(r, b, p.todo) \/ AtWrite(r, b, p.todo, p.obj)
    \/ AtGetExec(r, b, p.todo) \/ AtSetExec(r, b, p.todo, p.seen)
    \/ AtDrop(r, b, p.todo) \/ AtRelease(r, b, p.todo)
    \/ AtTask(r, b, p.todo) \/ AtHandler(r, b, p.todo) \/ AtLoop(r, b, p.todo)

\* ... and those of the loop between two batches.
Between(r, s) ==
    LookRest(s) \/ CheckRest(s) \/ (IsOwned(s) /\ Taskless(r)) \/ GiveAll(r, s)

\* The runner that is up is between two batches or at a point of a program of one of them.
RunnerAt(r, p) ==
    \/ Between(r, p.todo) /\ \A b \in Batches : Resting(b)
    \/ \E b \in Batches : Point(r, b, p) /\ \A c \in Batches \ {b} : Resting(c)

\* A worker does nothing or is creating a batch, alone.
Creating(s, b) ==
    /\ IsPut(s, b) \/ (IsEnqueue(s, b) /\ spec[b])
    /\ exec[b] = NoExec /\ batch[b].status = "validating"
WorkerAt(s) == s = <<>> \/ (~deploy.local /\ \E b \in Batches : Creating(s, b))

\* The inductive invariant.
RunInv ==
    /\ \A r, q \in Up : r = q
    /\ \A r \in Runners \ Up : proc[r].todo = <<>> /\ Taskless(r)
    /\ Up = {} => \A b \in Batches : Resting(b)
    /\ \A r \in Up : RunnerAt(r, proc[r])
    /\ \A w \in Workers : WorkerAt(proc[w].todo)
    /\ \A v, w \in Workers, b \in Batches : Creating(proc[v].todo, b) /\ Creating(proc[w].todo, b) => v = w
    /\ ~deploy.local => \A b \in Batches : told[b] = "none"

\* The deployments it is about.
Guarded == deploy.local \/ ~deploy.cancels
-----------------------------------------------------------------------------
(* What a step leaves as it is. *)

\* Nothing of batch b changes.
Same(b) ==
    /\ exec'[b] = exec[b] /\ batch'[b] = batch[b] /\ told'[b] = told[b] /\ spec'[b] = spec[b] /\ deploy' = deploy
    /\ \A r \in Runners : task'[r][b].at = task[r][b].at /\ (task[r][b].at = "none" \/ task'[r][b].hit = task[r][b].hit)

LEMMA StaysSo ==
    ASSUME NEW b \in Batches, Same(b)
    PROVE  /\ NoTasks(b) <=> NoTasks(b)'
           /\ Open(b) <=> Open(b)'
           /\ New(b) <=> New(b)'
           /\ Live(b) <=> Live(b)'
           /\ Over(b) <=> Over(b)'
           /\ Resting(b) <=> Resting(b)'
           /\ \A r \in Runners : Working(r, b) <=> Working(r, b)'
           /\ \A r \in Runners : \A st : Storing(r, b, st) <=> Storing(r, b, st)'
           /\ \A r \in Runners : Stored(r, b) <=> Stored(r, b)'
           /\ \A r \in Runners : \A flag : Owned(r, b, flag) <=> Owned(r, b, flag)'
           /\ GivingUp(b) <=> GivingUp(b)'
           /\ Free(b) <=> Free(b)'
           /\ Unqueued(b) <=> Unqueued(b)'
  <1>1. NoTasks(b) <=> NoTasks(b)'
    BY DEF Same, NoTasks
  <1>2. Open(b) <=> Open(b)'
    BY DEF Same, Open, Crashes
  <1>3. New(b) <=> New(b)'
    BY <1>1 DEF Same, New
  <1>4. Live(b) <=> Live(b)'
    BY <1>2 DEF Same, Live
  <1>5. Over(b) <=> Over(b)'
    BY <1>1 DEF Same, Over
  <1>6. Resting(b) <=> Resting(b)'
    BY <1>3, <1>4, <1>5 DEF Resting
  <1>7. \A r \in Runners : Working(r, b) <=> Working(r, b)'
    BY <1>4 DEF Same, Working
  <1>8. \A r \in Runners : \A st : Storing(r, b, st) <=> Storing(r, b, st)'
    BY DEF Same, Storing
  <1>9. \A r \in Runners : Stored(r, b) <=> Stored(r, b)'
    BY DEF Same, Stored
  <1>10. \A r \in Runners : \A flag : Owned(r, b, flag) <=> Owned(r, b, flag)'
    BY <1>1, <1>4 DEF Same, Owned
  <1>11. GivingUp(b) <=> GivingUp(b)'
    BY <1>1 DEF Same, GivingUp
  <1>12. Free(b) <=> Free(b)'
    BY <1>1, <1>4 DEF Same, Free
  <1>13. Unqueued(b) <=> Unqueued(b)'
    BY <1>1, <1>2 DEF Same, Unqueued
  <1> QED BY <1>1, <1>2, <1>3, <1>4, <1>5, <1>6, <1>7, <1>8, <1>9, <1>10, <1>11, <1>12, <1>13

\* A list of batches to give up, as long as those do not change.
LEMMA GiveStays ==
    ASSUME NEW r \in Runners, NEW s, Taskless(r) => Taskless(r)',
           EachOf(s, "giveUp") => Head(s).over \in SUBSET (Batches \X BOOLEAN),
           \A c \in Batches, flag \in BOOLEAN : Owned(r, c, flag) /\ EachOf(s, "giveUp") /\ <<c, flag>> \in Head(s).over => Same(c)
    PROVE  GiveAll(r, s) => GiveAll(r, s)'
  <1>1. ASSUME GiveAll(r, s), EachOf(s, "giveUp"), Pairs(r, s), NEW pair \in Head(s).over
        PROVE  Owned(r, pair[1], pair[2])'
    <2>1. pair[1] \in Batches /\ pair[2] \in BOOLEAN /\ pair = <<pair[1], pair[2]>> /\ Owned(r, pair[1], pair[2])
      BY <1>1 DEF Pairs
    <2>2. Same(pair[1])
      BY <1>1, <2>1
    <2> QED BY <2>1, <2>2, StaysSo
  <1>2. EachOf(s, "giveUp") /\ GiveAll(r, s) /\ Pairs(r, s) => Pairs(r, s)'
    BY <1>1 DEF Pairs
  <1> QED BY <1>2 DEF GiveAll

-----------------------------------------------------------------------------
(* Where a process is. *)

LEMMA StepIs == ASSUME NEW op, NEW b, NEW arg PROVE Step(op, b, arg).op = op /\ Step(op, b, arg).b = b /\ Step(op, b, arg).arg = arg
  BY DEF Step

LEMMA BeginsIs ==
    ASSUME NEW s, NEW op, NEW b, NEW arg
    PROVE  /\ Begins(s, Step(op, b, arg)) => s # <<>> /\ Head(s).op = op /\ Head(s).b = b /\ Head(s).arg = arg
           /\ Ends(s, Step(op, b, arg)) => s # <<>> /\ Head(s).op = op /\ Head(s).b = b /\ Head(s).arg = arg
  BY StepIs DEF Begins, Ends

LEMMA Heads ==
    ASSUME NEW r, NEW b, NEW s, NEW x
    PROVE  /\ AtRead(r, b, s) => s # <<>> /\ Head(s).op = "read" /\ Head(s).b = b
           /\ AtWrite(r, b, s, x) => s # <<>> /\ Head(s).op = "write" /\ Head(s).b = b
           /\ AtGetExec(r, b, s) => s # <<>> /\ Head(s).op = "getExec" /\ Head(s).b = b
           /\ AtSetExec(r, b, s, x) => s # <<>> /\ Head(s).op = "setExec" /\ Head(s).b = b
           /\ AtDrop(r, b, s) => s # <<>> /\ Head(s).op = "dropSpec" /\ Head(s).b = b
           /\ AtRelease(r, b, s) => s # <<>> /\ Head(s).op = "release" /\ Head(s).b = b
           /\ AtTask(r, b, s) => s # <<>> /\ Head(s).op \in {"getSpec", "await"} /\ Head(s).b = b
           /\ AtHandler(r, b, s) => s # <<>> /\ Head(s).op \in {"putSpec", "enqueue", "flag", "tell"} /\ Head(s).b = b
           /\ AtLoop(r, b, s) => s # <<>> /\ Head(s).op \in {"look", "renew", "check", "claim", "spawn"} /\ Head(s).b = b
           /\ Between(r, s) => s = <<>> \/ Head(s).op \in {"each", "list", "owned", "down"}
  <1>1. AtRead(r, b, s) => s # <<>> /\ Head(s).op = "read" /\ Head(s).b = b
    BY BeginsIs DEF AtRead, IsFailure, IsGo, IsMark, GiveRead, First
  <1>2. AtWrite(r, b, s, x) => s # <<>> /\ Head(s).op = "write" /\ Head(s).b = b
    BY BeginsIs DEF AtWrite, IsFailWrite, IsGoing, IsCounting, IsWrite, GiveWrite, IsAnswer, First
  <1>3. AtGetExec(r, b, s) => s # <<>> /\ Head(s).op = "getExec" /\ Head(s).b = b
    BY BeginsIs DEF AtGetExec, IsFinish, IsClaimed, GiveGet, First
  <1>4. AtSetExec(r, b, s, x) => s # <<>> /\ Head(s).op = "setExec" /\ Head(s).b = b
    BY BeginsIs DEF AtSetExec, IsSet, IsRunning, GiveSet
  <1>5. AtDrop(r, b, s) => s # <<>> /\ Head(s).op = "dropSpec" /\ Head(s).b = b
    BY BeginsIs DEF AtDrop, IsDrop, GiveDrop, IsUnqueue, First
  <1>6. AtRelease(r, b, s) => s # <<>> /\ Head(s).op = "release" /\ Head(s).b = b
    BY BeginsIs DEF AtRelease, IsRelease, GiveRelease, First
  <1>7. AtTask(r, b, s) => s # <<>> /\ Head(s).op \in {"getSpec", "await"} /\ Head(s).b = b
    BY BeginsIs DEF AtTask, IsAwait
  <1>8. AtHandler(r, b, s) => s # <<>> /\ Head(s).op \in {"putSpec", "enqueue", "flag", "tell"} /\ Head(s).b = b
    BY BeginsIs DEF AtHandler, IsPut, IsEnqueue, IsTell, First
  <1>9. AtLoop(r, b, s) => s # <<>> /\ Head(s).op \in {"look", "renew", "check", "claim", "spawn"} /\ Head(s).b = b
    BY BeginsIs DEF AtLoop, IsLook, IsRenew, IsCheck, IsClaim, IsSpawn, First
  <1>10. Between(r, s) => s = <<>> \/ Head(s).op \in {"each", "list", "owned", "down"}
    BY BeginsIs DEF Between, LookRest, CheckRest, IsOwned, GiveAll, IsList, IsDown, EachOf
  <1> QED BY <1>1, <1>2, <1>3, <1>4, <1>5, <1>6, <1>7, <1>8, <1>9, <1>10

\* A point is one of the call that is next.
LEMMA PointHeads ==
    ASSUME NEW r, NEW b, NEW p, Point(r, b, p)
    PROVE  /\ p.todo # <<>> /\ Head(p.todo).b = b
           /\ \/ Head(p.todo).op = "read" /\ AtRead(r, b, p.todo)
              \/ Head(p.todo).op = "write" /\ AtWrite(r, b, p.todo, p.obj)
              \/ Head(p.todo).op = "getExec" /\ AtGetExec(r, b, p.todo)
              \/ Head(p.todo).op = "setExec" /\ AtSetExec(r, b, p.todo, p.seen)
              \/ Head(p.todo).op = "dropSpec" /\ AtDrop(r, b, p.todo)
              \/ Head(p.todo).op = "release" /\ AtRelease(r, b, p.todo)
              \/ Head(p.todo).op \in {"getSpec", "await"} /\ AtTask(r, b, p.todo)
              \/ Head(p.todo).op \in {"putSpec", "enqueue", "flag", "tell"} /\ AtHandler(r, b, p.todo)
              \/ Head(p.todo).op \in {"look", "renew", "check", "claim", "spawn"} /\ AtLoop(r, b, p.todo)
  <1> DEFINE s == p.todo
  <1>1. /\ AtRead(r, b, s) => s # <<>> /\ Head(s).op = "read" /\ Head(s).b = b
        /\ AtWrite(r, b, s, p.obj) => s # <<>> /\ Head(s).op = "write" /\ Head(s).b = b
        /\ AtGetExec(r, b, s) => s # <<>> /\ Head(s).op = "getExec" /\ Head(s).b = b
        /\ AtSetExec(r, b, s, p.seen) => s # <<>> /\ Head(s).op = "setExec" /\ Head(s).b = b
        /\ AtDrop(r, b, s) => s # <<>> /\ Head(s).op = "dropSpec" /\ Head(s).b = b
        /\ AtRelease(r, b, s) => s # <<>> /\ Head(s).op = "release" /\ Head(s).b = b
        /\ AtTask(r, b, s) => s # <<>> /\ Head(s).op \in {"getSpec", "await"} /\ Head(s).b = b
        /\ AtHandler(r, b, s) => s # <<>> /\ Head(s).op \in {"putSpec", "enqueue", "flag", "tell"} /\ Head(s).b = b
        /\ AtLoop(r, b, s) => s # <<>> /\ Head(s).op \in {"look", "renew", "check", "claim", "spawn"} /\ Head(s).b = b
    BY Heads
  <1> QED BY <1>1 DEF Point

LEMMA AtOp ==
    ASSUME RunInv, NEW r \in Runners, NEW op, At(r, op)
    PROVE  /\ r \in Up
           /\ op \in {"each", "list", "owned", "down"} => Between(r, proc[r].todo) /\ \A b \in Batches : Resting(b)
           /\ op \notin {"each", "list", "owned", "down"} =>
                 On(r) \in Batches /\ Point(r, On(r), proc[r]) /\ \A c \in Batches \ {On(r)} : Resting(c)
           /\ op = "read" => AtRead(r, On(r), proc[r].todo)
           /\ op = "write" => AtWrite(r, On(r), proc[r].todo, proc[r].obj)
           /\ op = "getExec" => AtGetExec(r, On(r), proc[r].todo)
           /\ op = "setExec" => AtSetExec(r, On(r), proc[r].todo, proc[r].seen)
           /\ op = "dropSpec" => AtDrop(r, On(r), proc[r].todo)
           /\ op = "release" => AtRelease(r, On(r), proc[r].todo)
           /\ op \in {"getSpec", "await"} => AtTask(r, On(r), proc[r].todo)
           /\ op \in {"putSpec", "enqueue", "flag", "tell"} => AtHandler(r, On(r), proc[r].todo)
           /\ op \in {"look", "renew", "check", "claim", "spawn"} => AtLoop(r, On(r), proc[r].todo)
  <1>1. r \in Up /\ RunnerAt(r, proc[r]) /\ proc[r].todo # <<>> /\ Head(proc[r].todo).op = op /\ On(r) = Head(proc[r].todo).b
    BY DEF RunInv, At, On, Now, Up
  <1>2. CASE Between(r, proc[r].todo) /\ \A b \in Batches : Resting(b)
    BY <1>1, <1>2, Heads, ZenonT(40)
  <1>3. ASSUME NEW b \in Batches, Point(r, b, proc[r]), \A c \in Batches \ {b} : Resting(c)
        PROVE  /\ b = On(r)
               /\ op \notin {"each", "list", "owned", "down"}
               /\ op = "read" => AtRead(r, b, proc[r].todo)
               /\ op = "write" => AtWrite(r, b, proc[r].todo, proc[r].obj)
               /\ op = "getExec" => AtGetExec(r, b, proc[r].todo)
               /\ op = "setExec" => AtSetExec(r, b, proc[r].todo, proc[r].seen)
               /\ op = "dropSpec" => AtDrop(r, b, proc[r].todo)
               /\ op = "release" => AtRelease(r, b, proc[r].todo)
               /\ op \in {"getSpec", "await"} => AtTask(r, b, proc[r].todo)
               /\ op \in {"putSpec", "enqueue", "flag", "tell"} => AtHandler(r, b, proc[r].todo)
               /\ op \in {"look", "renew", "check", "claim", "spawn"} => AtLoop(r, b, proc[r].todo)
    <2>1. PICK p : p = proc[r]
      OBVIOUS
    <2>2. Point(r, b, p) /\ Head(p.todo).op = op /\ Head(p.todo).b = On(r)
      BY <1>1, <1>3, <2>1
    <2> QED BY <2>1, <2>2, PointHeads
  <1> QED BY <1>1, <1>2, <1>3 DEF RunnerAt

\* A runner with nothing to do is between two batches.
LEMMA AtRest ==
    ASSUME RunInv, NEW r \in Runners, Idle(r)
    PROVE  r \in Up /\ proc[r].todo = <<>> /\ \A b \in Batches : Resting(b)
  <1>1. r \in Up /\ RunnerAt(r, proc[r]) /\ proc[r].todo = <<>>
    BY DEF RunInv, Idle, Up
  <1>2. \A b \in Batches : ~Point(r, b, proc[r])
    BY <1>1, PointHeads
  <1> QED BY <1>1, <1>2 DEF RunnerAt

LEMMA Alone ==
    ASSUME RunInv, NEW r \in Up, NEW q \in Runners \ {r}
    PROVE  q \notin Up /\ proc[q].todo = <<>> /\ \A b \in Batches : task[q][b].at = "none"
  BY DEF RunInv, Up, Taskless

LEMMA CreatingIs ==
    ASSUME NEW s, NEW b, Creating(s, b)
    PROVE  s # <<>> /\ Head(s).b = b /\ Head(s).op \in {"putSpec", "enqueue"}
  BY BeginsIs DEF Creating, IsPut, IsEnqueue, First

\* The workers, as long as the batches they create do not change.
LEMMA WorkersStay ==
    ASSUME RunInv, \A w \in Workers : proc'[w] = proc[w], deploy' = deploy,
           \A b \in Batches : Same(b) \/ deploy.local \/ exec[b] # NoExec
    PROVE  /\ \A w \in Workers : WorkerAt(proc[w].todo)'
           /\ \A v, w \in Workers, b \in Batches :
                 (Creating(proc[v].todo, b) /\ Creating(proc[w].todo, b) => v = w)'
  <1>1. ASSUME NEW s, NEW b \in Batches, Creating(s, b), ~deploy.local PROVE Creating(s, b)'
    <2>1. Same(b)
      BY <1>1 DEF Creating
    <2> QED BY <1>1, <2>1 DEF Creating, Same
  <1>2. ASSUME NEW w \in Workers PROVE WorkerAt(proc[w].todo)'
    BY <1>1, <1>2 DEF RunInv, WorkerAt
  <1>3. ASSUME NEW w \in Workers, NEW b \in Batches, Creating(proc[w].todo, b)' PROVE Creating(proc[w].todo, b)
    <2>1. proc'[w].todo # <<>> /\ Head(proc'[w].todo).b = b
      <3>1. \A s : Creating(s, b)' => s # <<>> /\ Head(s).b = b
        BY BeginsIs DEF Creating, IsPut, IsEnqueue, First
      <3> QED BY <1>3, <3>1
    <2>2. proc[w].todo # <<>> /\ Head(proc[w].todo).b = b
      BY <2>1
    <2> QED BY <2>2, CreatingIs DEF RunInv, WorkerAt
  <1> QED BY <1>2, <1>3 DEF RunInv

\* A step of the runner that is up: it is enough to say where it gets.
LEMMA Lands ==
    ASSUME WholeInv, RunInv, NEW r \in Up, NEW st \in States, Becomes(r, st), st.up \in {"up", "stop"}, deploy' = deploy,
           \A b \in Batches : Same(b) \/ deploy.local \/ exec[b] # NoExec,
           \A b \in Batches : Same(b) \/ deploy.local \/ told'[b] = "none",
           \A q \in Runners \ {r}, b \in Batches : task'[q][b].at = task[q][b].at,
           RunnerAt(r, st)'
    PROVE  RunInv'
  <1>1. r \in Runners /\ r \in Processes
    BY RunnersRun DEF Up
  <1>2. proc'[r] = st /\ \A q \in Processes \ {r} : proc'[q] = proc[q]
    BY <1>1, Stating DEF WholeInv
  <1>3. Workers \cap Runners = {} /\ Workers \subseteq Processes /\ Runners \subseteq Processes
    BY BatchAssumption DEF Processes
  <1>4. Up' = {r}
    BY <1>1, <1>2, <1>3, Alone DEF Up
  <1>5. \A q \in Runners \ {r} : proc'[q].todo = <<>> /\ Taskless(q)'
    BY <1>2, <1>3, Alone DEF Taskless
  <1>6. /\ \A w \in Workers : WorkerAt(proc[w].todo)'
        /\ \A v, w \in Workers, b \in Batches :
                 (Creating(proc[v].todo, b) /\ Creating(proc[w].todo, b) => v = w)'
    BY <1>1, <1>2, <1>3, WorkersStay
  <1>7. RunnerAt(r, proc[r])'
    BY <1>2
  <1>8. ~deploy'.local => \A b \in Batches : told'[b] = "none"
    BY DEF RunInv, Same
  <1> QED BY <1>4, <1>5, <1>6, <1>7, <1>8 DEF RunInv

\* ... at a point of batch b, or between two.
LEMMA LandsAt ==
    ASSUME WholeInv, RunInv, NEW r \in Up, NEW st \in States, Becomes(r, st), st.up \in {"up", "stop"}, deploy' = deploy,
           NEW b \in Batches, \A c \in Batches \ {b} : Resting(c) /\ Same(c),
           Same(b) \/ deploy.local \/ (exec[b] # NoExec /\ told'[b] = "none"),
           \A q \in Runners \ {r}, c \in Batches : task'[q][c].at = task[q][c].at,
           Point(r, b, st)' \/ (Between(r, st.todo)' /\ Resting(b)')
    PROVE  RunInv'
  <1>1. \A c \in Batches : (Same(c) \/ deploy.local \/ exec[c] # NoExec) /\ (Same(c) \/ deploy.local \/ told'[c] = "none")
    OBVIOUS
  <1>2. \A c \in Batches \ {b} : Resting(c)'
    BY StaysSo
  <1>3. RunnerAt(r, st)'
    BY <1>2 DEF RunnerAt
  <1> QED BY <1>1, <1>3, Lands

LEMMA Rest == ASSUME NEW s \in Seq(Steps), s # <<>> PROVE Tail(s) \in Seq(Steps) /\ Head(s) \in Steps
  BY HeadTailProperties

\* What r has still to give up stays so while b alone changes.
LEMMA GiveSame ==
    ASSUME NEW r \in Runners, NEW b \in Batches, Taskless(r) => Taskless(r)', \A c \in Batches \ {b} : Same(c) \/ exec[c] = NoExec
    PROVE  /\ \A s \in Seq(Steps) : GiveRest(r, s, b) => GiveRest(r, s, b)'
           /\ \A s \in Seq(Steps) : GiveRelease(r, s, b) => GiveRelease(r, s, b)'
           /\ \A s \in Seq(Steps) : \A st : GiveSet(r, s, b, st) => GiveSet(r, s, b, st)'
           /\ \A s \in Seq(Steps) : \A st : GiveGet(r, s, b, st) => GiveGet(r, s, b, st)'
           /\ \A s \in Seq(Steps) : GiveDrop(r, s, b) => GiveDrop(r, s, b)'
           /\ \A s \in Seq(Steps) : GiveWrite(r, s, b) => GiveWrite(r, s, b)'
           /\ \A s \in Seq(Steps) : GiveRead(r, s, b) => GiveRead(r, s, b)'
  <1>1. ASSUME NEW s \in Seq(Steps), GiveRest(r, s, b) PROVE GiveRest(r, s, b)'
    <2>1. EachOf(s, "giveUp") => Head(s).over \in SUBSET (Batches \X BOOLEAN)
      BY Rest, OpOf DEF EachOf
    <2>2. \A c \in Batches, flag \in BOOLEAN : Owned(r, c, flag) /\ EachOf(s, "giveUp") /\ <<c, flag>> \in Head(s).over => Same(c)
      BY <1>1 DEF GiveRest, Owned, NoExec
    <2>3. GiveAll(r, s)'
      BY <1>1, <2>1, <2>2, GiveStays DEF GiveRest
    <2> QED BY <1>1, <2>3 DEF GiveRest
  <1>2. ASSUME NEW s \in Seq(Steps), GiveRelease(r, s, b) PROVE GiveRelease(r, s, b)'
    BY <1>1, <1>2, Rest DEF GiveRelease, First, Begins
  <1>3. ASSUME NEW s \in Seq(Steps), NEW st, GiveSet(r, s, b, st) PROVE GiveSet(r, s, b, st)'
    BY <1>2, <1>3, Rest DEF GiveSet, Begins
  <1>4. ASSUME NEW s \in Seq(Steps), NEW st, GiveGet(r, s, b, st) PROVE GiveGet(r, s, b, st)'
    BY <1>3, <1>4, Rest DEF GiveGet, First, Begins
  <1>5. ASSUME NEW s \in Seq(Steps), GiveDrop(r, s, b) PROVE GiveDrop(r, s, b)'
    BY <1>4, <1>5, Rest DEF GiveDrop, First, Begins
  <1>6. ASSUME NEW s \in Seq(Steps), GiveWrite(r, s, b) PROVE GiveWrite(r, s, b)'
    BY <1>5, <1>6, Rest DEF GiveWrite, Begins
  <1>7. ASSUME NEW s \in Seq(Steps), GiveRead(r, s, b) PROVE GiveRead(r, s, b)'
    BY <1>6, <1>7, Rest DEF GiveRead, First, Begins
  <1> QED BY <1>1, <1>2, <1>3, <1>4, <1>5, <1>6, <1>7

\* A point of a batch that does not change.
LEMMA PointStays ==
    ASSUME NEW r \in Runners, NEW b \in Batches, Same(b), NEW p, p.todo \in Seq(Steps),
           \A c \in Batches : Same(c) \/ (exec[c] = NoExec /\ task'[r][c].at = task[r][c].at)
    PROVE  Point(r, b, p) => Point(r, b, p)'
  <1>0. Same(b) /\ deploy' = deploy /\ exec'[b] = exec[b] /\ batch'[b] = batch[b] /\ told'[b] = told[b] /\ spec'[b] = spec[b]
    BY DEF Same
  <1>1. Taskless(r) => Taskless(r)'
    BY DEF Taskless, Same
  <1>2. /\ GiveRelease(r, p.todo, b) => GiveRelease(r, p.todo, b)'
        /\ \A st : GiveSet(r, p.todo, b, st) => GiveSet(r, p.todo, b, st)'
        /\ \A st : GiveGet(r, p.todo, b, st) => GiveGet(r, p.todo, b, st)'
        /\ GiveDrop(r, p.todo, b) => GiveDrop(r, p.todo, b)'
        /\ GiveWrite(r, p.todo, b) => GiveWrite(r, p.todo, b)'
        /\ GiveRead(r, p.todo, b) => GiveRead(r, p.todo, b)'
    BY <1>1, GiveSame
  <1>3. /\ (Open(b) => Open(b)') /\ (Live(b) => Live(b)') /\ (Resting(b) => Resting(b)') /\ (Free(b) => Free(b)')
        /\ (Over(b) => Over(b)') /\ (Unqueued(b) => Unqueued(b)') /\ (GivingUp(b) => GivingUp(b)')
        /\ (NoTasks(b) => NoTasks(b)') /\ (Working(r, b) => Working(r, b)') /\ (Stored(r, b) => Stored(r, b)')
        /\ \A st : Storing(r, b, st) => Storing(r, b, st)'
        /\ \A flag : Owned(r, b, flag) => Owned(r, b, flag)'
    BY <1>0, StaysSo
  <1>4. AtRead(r, b, p.todo) => AtRead(r, b, p.todo)'
    BY <1>0, <1>2, <1>3 DEF AtRead
  <1>5. AtWrite(r, b, p.todo, p.obj) => AtWrite(r, b, p.todo, p.obj)'
    BY <1>0, <1>2, <1>3 DEF AtWrite
  <1>6. AtGetExec(r, b, p.todo) => AtGetExec(r, b, p.todo)'
    BY <1>0, <1>2, <1>3 DEF AtGetExec
  <1>7. AtSetExec(r, b, p.todo, p.seen) => AtSetExec(r, b, p.todo, p.seen)'
    BY <1>0, <1>2, <1>3 DEF AtSetExec
  <1>8. AtDrop(r, b, p.todo) => AtDrop(r, b, p.todo)'
    BY <1>0, <1>2, <1>3 DEF AtDrop
  <1>9. AtRelease(r, b, p.todo) => AtRelease(r, b, p.todo)'
    BY <1>0, <1>2, <1>3 DEF AtRelease
  <1>10. AtTask(r, b, p.todo) => AtTask(r, b, p.todo)'
    BY <1>0, <1>2, <1>3 DEF AtTask
  <1>11. AtHandler(r, b, p.todo) => AtHandler(r, b, p.todo)'
    BY <1>0, <1>2, <1>3 DEF AtHandler
  <1>12. AtLoop(r, b, p.todo) => AtLoop(r, b, p.todo)'
    BY <1>0, <1>2, <1>3 DEF AtLoop
  <1> QED BY <1>4, <1>5, <1>6, <1>7, <1>8, <1>9, <1>10, <1>11, <1>12 DEF Point

LEMMA BetweenStays ==
    ASSUME NEW r \in Runners, Taskless(r) => Taskless(r)', \A c \in Batches : NoTasks(c) => Same(c), NEW s \in Seq(Steps)
    PROVE  Between(r, s) => Between(r, s)'
  <1>1. EachOf(s, "giveUp") => Head(s).over \in SUBSET (Batches \X BOOLEAN)
    BY Rest, OpOf DEF EachOf
  <1>2. GiveAll(r, s) => GiveAll(r, s)'
    BY <1>1, GiveStays DEF Owned
  <1> QED BY <1>2 DEF Between

\* The runner at a step of a batch.
LEMMA Current ==
    ASSUME WholeInv, RunInv, NEW r \in Runners, NEW op, At(r, op)
    PROVE  /\ r \in Up /\ r \in Processes /\ proc[r].up \in {"up", "stop"}
           /\ proc[r].todo \in Seq(Steps) /\ Tail(proc[r].todo) \in Seq(Steps) /\ proc[r].todo # <<>>
           /\ \A q \in Runners \ {r}, c \in Batches : task[q][c].at = "none"
  BY AtOp, RunnersRun, NowIs, Alone DEF WholeInv, Up

LEMMA Taking ==
    ASSUME WholeInv, RunInv, NEW r \in Runners, NEW op, At(r, op)
    PROVE  \E st \in States : st = Then(r, <<>>) /\ st.todo = Tail(proc[r].todo) /\ st.up = proc[r].up
                                /\ st.obj = proc[r].obj /\ st.seen = proc[r].seen
  BY Current, ThenIs, EmptySeq DEF WholeInv

-----------------------------------------------------------------------------
(* A runner's store calls. *)

LEMMA ReadRuns == ASSUME WholeInv, RunInv, NEW r \in Runners, Read(r) PROVE RunInv'
  <1>1. At(r, "read")
    BY DEF Read
  <1>2. /\ r \in Up /\ proc[r].up \in {"up", "stop"} /\ proc[r].todo \in Seq(Steps)
        /\ \A q \in Runners \ {r}, c \in Batches : task[q][c].at = "none"
    BY <1>1, Current
  <1>3. PICK b \in Batches : b = On(r) /\ AtRead(r, b, proc[r].todo) /\ \A c \in Batches \ {b} : Resting(c)
    BY <1>1, AtOp
  <1>4. PICK st \in States : Becomes(r, st) /\ st.todo = Tail(proc[r].todo) /\ st.up = proc[r].up /\ st.obj = batch[b]
    <2>1. [Then(r, <<>>) EXCEPT !.obj = batch[b]] \in States
      BY <1>1, Taking, ZenonT(40) DEF States, WholeInv, Types
    <2> QED BY <1>1, <1>3, <2>1, Taking DEF Read, States
  <1>5. \A c \in Batches : Same(c)
    BY DEF Read, Same, storeVars
  <1>6. Point(r, b, st)
    <2>1. ASSUME IsFailure(proc[r].todo, b) \/ IsGo(proc[r].todo, b), Working(r, b) PROVE AtWrite(r, b, st.todo, st.obj)
      BY <1>4, <2>1 DEF IsFailure, IsGo, AtWrite
    <2>2. ASSUME NEW s \in Terminal, IsMark(proc[r].todo, b, s), Storing(r, b, s), Open(b) \/ batch[b].status = s
          PROVE  AtWrite(r, b, st.todo, st.obj)
      BY <1>4, <2>2 DEF IsMark, AtWrite
    <2>3. ASSUME GiveRead(r, proc[r].todo, b), Owned(r, b, TRUE) PROVE AtWrite(r, b, st.todo, st.obj)
      BY <1>4, <2>3 DEF GiveRead, AtWrite
    <2> QED BY <1>3, <2>1, <2>2, <2>3 DEF AtRead, Point
  <1>7. Point(r, b, st)'
    BY <1>5, <1>6, PointStays DEF States
  <1> QED BY <1>2, <1>3, <1>4, <1>5, <1>7, LandsAt DEF Read

LEMMA GetExecRuns == ASSUME WholeInv, RunInv, NEW r \in Runners, GetExec(r) PROVE RunInv'
  <1>1. At(r, "getExec")
    BY DEF GetExec
  <1>2. /\ r \in Up /\ proc[r].up \in {"up", "stop"} /\ proc[r].todo \in Seq(Steps)
        /\ \A q \in Runners \ {r}, c \in Batches : task[q][c].at = "none"
    BY <1>1, Current
  <1>3. PICK b \in Batches : b = On(r) /\ AtGetExec(r, b, proc[r].todo) /\ \A c \in Batches \ {b} : Resting(c)
    BY <1>1, AtOp
  <1>4. PICK st \in States : Becomes(r, st) /\ st.todo = Tail(proc[r].todo) /\ st.up = proc[r].up /\ st.seen = exec[b]
    <2>1. [Then(r, <<>>) EXCEPT !.seen = exec[b]] \in States
      BY <1>1, Taking, ZenonT(40) DEF States, WholeInv, Types
    <2> QED BY <1>1, <1>3, <2>1, Taking DEF GetExec, States
  <1>5. \A c \in Batches : Same(c)
    BY DEF GetExec, Same, storeVars
  <1>6. AtSetExec(r, b, st.todo, st.seen)
    <2>1. ASSUME NEW s \in Terminal, IsFinish(proc[r].todo, b, s), Storing(r, b, s), batch[b].status = s
          PROVE  AtSetExec(r, b, st.todo, st.seen)
      BY <1>4, <2>1 DEF IsFinish, AtSetExec
    <2>2. ASSUME IsClaimed(proc[r].todo, b), Free(b) PROVE AtSetExec(r, b, st.todo, st.seen)
      BY <1>4, <2>2 DEF IsClaimed, AtSetExec
    <2>3. ASSUME GiveGet(r, proc[r].todo, b, "queued"), Owned(r, b, FALSE) PROVE AtSetExec(r, b, st.todo, st.seen)
      BY <1>4, <2>3 DEF GiveGet, AtSetExec
    <2>4. ASSUME GiveGet(r, proc[r].todo, b, "cancelled"), GivingUp(b) PROVE AtSetExec(r, b, st.todo, st.seen)
      BY <1>4, <2>4 DEF GiveGet, AtSetExec
    <2> QED BY <1>3, <2>1, <2>2, <2>3, <2>4 DEF AtGetExec
  <1>7. Point(r, b, st)'
    BY <1>5, <1>6, PointStays DEF Point, States
  <1> QED BY <1>2, <1>3, <1>4, <1>5, <1>7, LandsAt DEF GetExec

\* A write: the end of a batch is stored once, or over itself.
LEMMA WriteRuns == ASSUME WholeInv, RunInv, NEW r \in Runners, Write(r) PROVE RunInv'
  <1>1. At(r, "write")
    BY DEF Write
  <1>2. /\ r \in Up /\ proc[r].up \in {"up", "stop"} /\ proc[r].todo \in Seq(Steps) /\ Tail(proc[r].todo) \in Seq(Steps)
        /\ \A q \in Runners \ {r}, c \in Batches : task[q][c].at = "none"
        /\ Now(r) = Head(proc[r].todo)
    BY <1>1, Current DEF Now
  <1>3. PICK b \in Batches : b = On(r) /\ AtWrite(r, b, proc[r].todo, proc[r].obj) /\ \A c \in Batches \ {b} : Resting(c)
    BY <1>1, AtOp
  <1>4. PICK st \in States : Becomes(r, st) /\ st.todo = Tail(proc[r].todo) /\ st.up = proc[r].up
    <2>1. Now(r).arg \in BatchStatus
      BY <1>1, <1>2, NowIs, OpOf, RunnersRun DEF WholeInv, BatchStatus, Terminal
    <2>2. [proc[r].obj EXCEPT !.status = Now(r).arg] \in Batch
      BY <1>2, <2>1, RunnersRun, ZenonT(40) DEF WholeInv, Types, States, Batch
    <2>3. [Then(r, <<>>) EXCEPT !.obj = [proc[r].obj EXCEPT !.status = Now(r).arg]] \in States
      BY <1>1, <2>2, Taking DEF States
    <2> QED BY <1>1, <2>3, Taking DEF Write, States
  <1>5. /\ batch'[b].status = Now(r).arg
        /\ exec' = exec /\ spec' = spec /\ told' = told /\ task' = task /\ deploy' = deploy
        /\ \A c \in Batches \ {b} : Same(c)
    BY <1>3, RunnersRun DEF Write, Same, WholeInv, Types, States, Batch
  <1>6. Taskless(r) => Taskless(r)'
    BY <1>5 DEF Taskless
  <1>7. /\ NoTasks(b)' <=> NoTasks(b)
        /\ Open(b)' <=> (Now(r).arg \in Terminal => Crashes)
    BY <1>5 DEF NoTasks, Open, Crashes
  <1>8. ASSUME IsFailWrite(proc[r].todo, b), Working(r, b) PROVE Point(r, b, st)'
    <2>1. Now(r).arg = "failed" /\ IsMark(st.todo, b, "failed")
      BY <1>2, <1>4, <1>8, BeginsIs DEF IsFailWrite
    <2>2. Storing(r, b, "failed")'
      BY <1>2, <1>5, <1>8, <2>1 DEF Working, Live, Storing, Terminal
    <2> QED BY <1>5, <2>1, <2>2 DEF Point, AtRead, Terminal
  <1>9. ASSUME IsGoing(proc[r].todo, b) \/ IsCounting(proc[r].todo, b), Working(r, b) PROVE Point(r, b, st)'
    <2>1. Now(r).arg \in {"in_progress", "finalizing"} /\ \E at \in {"content", "gather", "upOut", "upErr"} : IsAwait(st.todo, b, at)
      BY <1>2, <1>4, <1>9, BeginsIs DEF IsGoing, IsCounting
    <2>2. Working(r, b)'
      BY <1>5, <1>7, <1>9, <2>1 DEF Working, Live, Terminal
    <2> QED BY <2>1, <2>2 DEF Point, AtTask
  <1>10. ASSUME NEW s \in Terminal, IsWrite(proc[r].todo, b, s), Storing(r, b, s) PROVE Point(r, b, st)'
    <2>1. Now(r).arg = s /\ IsFinish(st.todo, b, s)
      BY <1>2, <1>4, <1>10, BeginsIs DEF IsWrite
    <2>2. Storing(r, b, s)'
      BY <1>5, <1>10, <2>1 DEF Storing, Terminal
    <2> QED BY <1>5, <2>1, <2>2 DEF Point, AtGetExec
  <1>11. ASSUME GiveWrite(r, proc[r].todo, b), Owned(r, b, TRUE) PROVE Point(r, b, st)'
    <2>1. Now(r).arg = "cancelled" /\ GiveDrop(r, st.todo, b)
      BY <1>2, <1>4, <1>11, BeginsIs DEF GiveWrite
    <2>2. GivingUp(b)'
      BY <1>5, <1>7, <1>11, <2>1 DEF GivingUp, Owned, Live
    <2>3. GiveDrop(r, st.todo, b)'
      BY <1>2, <1>4, <1>5, <1>6, <2>1, GiveSame
    <2> QED BY <2>2, <2>3 DEF Point, AtDrop
  <1>12. ASSUME IsAnswer(proc[r].todo, b, "cancelling"), deploy.local, told[b] = "none", Live(b), exec[b].cancel PROVE Point(r, b, st)'
    <2>1. Now(r).arg = "cancelling" /\ IsTell(st.todo, b, "cancelling")
      BY <1>2, <1>4, <1>12, BeginsIs DEF IsAnswer
    <2>2. Live(b)'
      BY <1>5, <1>7, <1>12, <2>1 DEF Live, Terminal
    <2> QED BY <1>5, <1>12, <2>1, <2>2 DEF Point, AtHandler
  <1>13. ASSUME IsAnswer(proc[r].todo, b, "cancelled"), deploy.local, told[b] = "none", Unqueued(b) PROVE Point(r, b, st)'
    <2>1. Now(r).arg = "cancelled" /\ IsTell(st.todo, b, "cancelled")
      BY <1>2, <1>4, <1>13, BeginsIs DEF IsAnswer
    <2>2. Over(b)'
      BY <1>5, <1>7, <1>13, <2>1 DEF Over, Unqueued, Terminal
    <2> QED BY <1>5, <1>13, <2>1, <2>2 DEF Point, AtHandler
  <1>14. Point(r, b, st)'
    BY <1>3, <1>8, <1>9, <1>10, <1>11, <1>12, <1>13 DEF AtWrite
  <1>15. deploy.local \/ (exec[b] # NoExec /\ told'[b] = "none")
    <2>1. exec[b].status # "none"
      BY <1>3 DEF AtWrite, Working, Live, Storing, Owned, Unqueued, Terminal
    <2> QED BY <1>5, <2>1 DEF NoExec, RunInv
  <1> QED BY <1>2, <1>3, <1>4, <1>5, <1>14, <1>15, LandsAt

LEMMA PutExecRuns == ASSUME WholeInv, RunInv, NEW r \in Runners, PutExec(r) PROVE RunInv'
  <1>1. At(r, "setExec")
    BY DEF PutExec
  <1>2. /\ r \in Up /\ proc[r].up \in {"up", "stop"} /\ proc[r].todo \in Seq(Steps) /\ Tail(proc[r].todo) \in Seq(Steps)
        /\ \A q \in Runners \ {r}, c \in Batches : task[q][c].at = "none"
        /\ Now(r) = Head(proc[r].todo)
    BY <1>1, Current DEF Now
  <1>3. PICK b \in Batches : b = On(r) /\ AtSetExec(r, b, proc[r].todo, proc[r].seen) /\ \A c \in Batches \ {b} : Resting(c)
    BY <1>1, AtOp
  <1>4. PICK st \in States : Becomes(r, st) /\ st.todo = Tail(proc[r].todo) /\ st.up = proc[r].up
    BY <1>1, Taking DEF PutExec, Next1
  <1>5. proc[r].seen = exec[b] /\ exec[b].status # "none" /\ exec[b] \in Execution
    BY <1>3 DEF AtSetExec, Storing, Free, Live, Owned, GivingUp, WholeInv, Types
  <1>6. /\ exec'[b].status = Now(r).arg /\ exec'[b].cancel = exec[b].cancel
        /\ exec'[b].owner = IF Now(r).arg = "running" THEN r ELSE None
    BY <1>3, <1>5 DEF PutExec, NoExec, Execution, WholeInv, Types
  <1>7. /\ batch' = batch /\ spec' = spec /\ told' = told /\ task' = task /\ deploy' = deploy
        /\ \A c \in Batches \ {b} : Same(c)
    BY <1>3 DEF PutExec, Same, WholeInv, Types
  <1>8. /\ Taskless(r) => Taskless(r)'
        /\ NoTasks(b)' <=> NoTasks(b)
        /\ Open(b)' <=> Open(b)
    BY <1>7 DEF Taskless, NoTasks, Open, Crashes
  <1>9. ASSUME NEW s \in Terminal, IsSet(proc[r].todo, b, s), Storing(r, b, s), batch[b].status = s PROVE Point(r, b, st)'
    <2>1. Now(r).arg = s /\ IsDrop(st.todo, b)
      BY <1>2, <1>4, <1>9, BeginsIs DEF IsSet
    <2>2. Stored(r, b)'
      BY <1>6, <1>7, <1>9, <2>1 DEF Storing, Stored, Terminal
    <2> QED BY <2>1, <2>2 DEF Point, AtDrop
  <1>10. ASSUME IsRunning(proc[r].todo, b), Free(b) PROVE Point(r, b, st)'
    <2>1. Now(r).arg = "running" /\ IsSpawn(st.todo, b)
      BY <1>2, <1>4, <1>10, BeginsIs DEF IsRunning
    <2>2. Live(b)'
      BY <1>6, <1>7, <1>8, <1>10, <2>1 DEF Free, Live, NoTasks
    <2> QED BY <1>6, <1>8, <1>10, <2>1, <2>2 DEF Point, AtLoop, Free
  <1>11. ASSUME GiveSet(r, proc[r].todo, b, "queued"), Owned(r, b, FALSE) PROVE Point(r, b, st)'
    <2>1. Now(r).arg = "queued" /\ GiveRelease(r, st.todo, b)
      BY <1>2, <1>4, <1>11, BeginsIs DEF GiveSet
    <2>2. Live(b)'
      BY <1>6, <1>7, <1>8, <1>11, <2>1 DEF Owned, Live, NoTasks
    <2>3. GiveRelease(r, st.todo, b)'
      BY <1>2, <1>4, <1>7, <1>8, <2>1, GiveSame
    <2> QED BY <2>2, <2>3 DEF Point, AtRelease, Resting
  <1>12. ASSUME GiveSet(r, proc[r].todo, b, "cancelled"), GivingUp(b) PROVE Point(r, b, st)'
    <2>1. Now(r).arg = "cancelled" /\ GiveRelease(r, st.todo, b)
      BY <1>2, <1>4, <1>12, BeginsIs DEF GiveSet
    <2>2. Over(b)'
      BY <1>6, <1>7, <1>8, <1>12, <2>1 DEF GivingUp, Over, Terminal
    <2>3. GiveRelease(r, st.todo, b)'
      BY <1>2, <1>4, <1>7, <1>8, <2>1, GiveSame
    <2> QED BY <2>2, <2>3 DEF Point, AtRelease, Resting
  <1>13. Point(r, b, st)'
    BY <1>3, <1>9, <1>10, <1>11, <1>12 DEF AtSetExec
  <1>14. deploy.local \/ (exec[b] # NoExec /\ told'[b] = "none")
    BY <1>5, <1>7 DEF NoExec, RunInv
  <1> QED BY <1>2, <1>3, <1>4, <1>7, <1>13, <1>14, LandsAt

LEMMA DropRuns == ASSUME WholeInv, RunInv, NEW r \in Runners, DropSpec(r) PROVE RunInv'
  <1>1. At(r, "dropSpec")
    BY DEF DropSpec
  <1>2. /\ r \in Up /\ proc[r].up \in {"up", "stop"} /\ proc[r].todo \in Seq(Steps) /\ Tail(proc[r].todo) \in Seq(Steps)
        /\ \A q \in Runners \ {r}, c \in Batches : task[q][c].at = "none"
    BY <1>1, Current
  <1>3. PICK b \in Batches : b = On(r) /\ AtDrop(r, b, proc[r].todo) /\ \A c \in Batches \ {b} : Resting(c)
    BY <1>1, AtOp
  <1>4. PICK st \in States : Becomes(r, st) /\ st.todo = Tail(proc[r].todo) /\ st.up = proc[r].up
    BY <1>1, Taking DEF DropSpec, Next1
  <1>5. /\ batch' = batch /\ exec' = exec /\ told' = told /\ task' = task /\ deploy' = deploy
        /\ \A c \in Batches \ {b} : Same(c)
    BY <1>3 DEF DropSpec, Same, WholeInv, Types
  <1>6. /\ Taskless(r) => Taskless(r)'
        /\ NoTasks(b)' <=> NoTasks(b)
        /\ Open(b)' <=> Open(b)
        /\ GivingUp(b)' <=> GivingUp(b)
        /\ Stored(r, b)' <=> Stored(r, b)
        /\ Unqueued(b)' <=> Unqueued(b)
    BY <1>5 DEF Taskless, NoTasks, Open, Crashes, GivingUp, Stored, Unqueued
  <1>7. ASSUME IsDrop(proc[r].todo, b), Stored(r, b) PROVE Point(r, b, st)'
    BY <1>4, <1>6, <1>7 DEF IsDrop, Point, AtRelease
  <1>8. ASSUME GiveDrop(r, proc[r].todo, b), GivingUp(b) PROVE Point(r, b, st)'
    <2>1. GiveGet(r, st.todo, b, "cancelled")
      BY <1>4, <1>8 DEF GiveDrop
    <2>2. GiveGet(r, st.todo, b, "cancelled")'
      BY <1>2, <1>4, <1>5, <1>6, <2>1, GiveSame
    <2> QED BY <1>6, <1>8, <2>2 DEF Point, AtGetExec
  <1>9. ASSUME IsUnqueue(proc[r].todo, b), deploy.local, told[b] = "none", Unqueued(b) PROVE Point(r, b, st)'
    BY <1>4, <1>5, <1>6, <1>9 DEF IsUnqueue, Point, AtWrite
  <1>10. Point(r, b, st)'
    BY <1>3, <1>7, <1>8, <1>9 DEF AtDrop
  <1>11. deploy.local \/ (exec[b] # NoExec /\ told'[b] = "none")
    <2>1. exec[b].status # "none"
      BY <1>3 DEF AtDrop, Stored, GivingUp, Unqueued, Terminal
    <2> QED BY <1>5, <2>1 DEF NoExec, RunInv
  <1> QED BY <1>2, <1>3, <1>4, <1>5, <1>10, <1>11, LandsAt

LEMMA ReleaseRuns == ASSUME WholeInv, RunInv, NEW r \in Runners, Release(r) PROVE RunInv'
  <1>1. At(r, "release")
    BY DEF Release
  <1>2. /\ r \in Up /\ proc[r].up \in {"up", "stop"} /\ proc[r].todo \in Seq(Steps) /\ Tail(proc[r].todo) \in Seq(Steps)
        /\ \A q \in Runners \ {r}, c \in Batches : task[q][c].at = "none"
    BY <1>1, Current
  <1>3. PICK b \in Batches : b = On(r) /\ AtRelease(r, b, proc[r].todo) /\ \A c \in Batches \ {b} : Resting(c)
    BY <1>1, AtOp
  <1>4. PICK st \in States : Becomes(r, st) /\ st.todo = Tail(proc[r].todo) /\ st.up = proc[r].up
    BY <1>1, Taking DEF Release, Next1
  <1>5. /\ batch' = batch /\ exec' = exec /\ told' = told /\ spec' = spec /\ deploy' = deploy
        /\ \A q \in Runners, c \in Batches : q # r \/ c # b => task'[q][c] = task[q][c]
        /\ task'[r][b].at = "none"
    BY <1>3, NoTaskIs DEF Release, WholeInv, Types
  <1>6. /\ \A c \in Batches \ {b} : Same(c)
        /\ NoTasks(b)' /\ (Taskless(r) => Taskless(r)') /\ (Open(b)' <=> Open(b))
    BY <1>2, <1>5 DEF Same, Taskless, NoTasks, Open, Crashes
  <1>7. Resting(b) => Resting(b)'
    <2>1. New(b) => New(b)'
      BY <1>5, <1>6 DEF New
    <2>2. Live(b) => Live(b)'
      BY <1>5, <1>6 DEF Live, NoTasks
    <2>3. Over(b) => Over(b)'
      BY <1>5, <1>6 DEF Over
    <2> QED BY <2>1, <2>2, <2>3 DEF Resting
  <1>8. ASSUME IsRelease(proc[r].todo, b), Stored(r, b) \/ Live(b) PROVE Between(r, st.todo)' /\ Resting(b)'
    <2>1. st.todo = <<>>
      BY <1>4, <1>8 DEF IsRelease, Ends
    <2>2. Stored(r, b) => Over(b)'
      BY <1>5, <1>6 DEF Stored, Over
    <2> QED BY <1>7, <1>8, <2>1, <2>2 DEF Between, CheckRest, Resting
  <1>9. ASSUME GiveRelease(r, proc[r].todo, b), Resting(b) PROVE Between(r, st.todo)' /\ Resting(b)'
    <2>1. GiveRest(r, st.todo, b)
      BY <1>4, <1>9 DEF GiveRelease
    <2>2. GiveRest(r, st.todo, b)'
      BY <1>2, <1>4, <1>6, <2>1, GiveSame
    <2> QED BY <1>7, <1>9, <2>2 DEF Between, GiveRest
  <1>10. Between(r, st.todo)' /\ Resting(b)'
    BY <1>3, <1>8, <1>9 DEF AtRelease
  <1>11. /\ \A c \in Batches : Same(c) \/ c = b
         /\ \A q \in Runners \ {r}, c \in Batches : task'[q][c].at = task[q][c].at
    BY <1>5, <1>6
  <1>12. CASE deploy.local \/ exec[b] # NoExec
    <2>1. deploy.local \/ told'[b] = "none"
      BY <1>5 DEF RunInv
    <2> QED BY <1>2, <1>3, <1>4, <1>5, <1>6, <1>10, <1>11, <1>12, <2>1, LandsAt
  <1>13. CASE exec[b] = NoExec
    <2>1. New(b)
      BY <1>3, <1>13 DEF AtRelease, Stored, Resting, New, Live, Over, NoExec, Terminal
    <2>2. Same(b)
      BY <2>1, <1>2, <1>5 DEF New, NoTasks, Same
    <2> QED BY <1>2, <1>3, <1>4, <1>5, <1>6, <1>10, <1>11, <2>2, LandsAt
  <1> QED BY <1>12, <1>13

-----------------------------------------------------------------------------
(* Programs from their beginning. *)

LEMMA Before ==
    ASSUME NEW S, NEW x \in S, NEW s \in Seq(S)
    PROVE  Begins(<<x>> \o s, x) /\ Tail(<<x>> \o s) = s /\ <<x>> \o s \in Seq(S)
  BY FirstOf DEF Begins

\* One step is a list, and what comes first in a longer one.
LEMMA BeforeDo ==
    ASSUME NEW S, NEW op, NEW b, Step(op, b, "none") \in S, NEW s \in Seq(S)
    PROVE  /\ First(Do(op, b) \o s, op, b) /\ Tail(Do(op, b) \o s) = s
           /\ Do(op, b) \o s \in Seq(S) /\ Do(op, b) \in Seq(S)
           /\ Ends(Do(op, b), Step(op, b, "none"))
  BY Before, TwoSteps DEF Do, First

LEMMA StepsAre ==
    ASSUME NEW b \in Batches
    PROVE  /\ \A op \in {"putSpec", "enqueue", "flag", "dropSpec", "read", "getExec", "release", "look", "renew",
                         "check", "claim", "spawn", "getSpec"} : Step(op, b, "none") \in Steps
           /\ \A op \in {"list", "owned", "down"} : Step(op, None, "none") \in Steps
           /\ \A st \in {"queued", "running"} \cup Terminal : Step("setExec", b, st) \in Steps
           /\ \A st \in {"cancelling", "in_progress", "finalizing"} \cup Terminal : Step("write", b, st) \in Steps
           /\ \A at \in {"content", "gather", "upOut", "upErr"} : Step("await", b, at) \in Steps
           /\ \A st \in {"cancelling", "cancelled"} : Step("tell", b, st) \in Steps
  BY DEF Steps, ApiSteps, LoopSteps, LastSteps, Ops, Step, Terminal

LEMMA LoopStepsAre == \A op \in {"list", "owned", "down"} : Step(op, None, "none") \in Steps
  BY DEF Steps, LoopSteps, Step

\* A list that begins with this operation on this batch.
Starts(t, op, b, s) == First(t, op, b) /\ Tail(t) = s /\ t \in Seq(Steps)

LEMMA DoIs ==
    ASSUME NEW b \in Batches,
           NEW op \in {"putSpec", "enqueue", "flag", "dropSpec", "read", "getExec", "release", "look", "renew",
                       "check", "claim", "spawn", "getSpec"}
    PROVE  /\ Do(op, b) \in Seq(Steps) /\ Ends(Do(op, b), Step(op, b, "none"))
           /\ \A s \in Seq(Steps) : Starts(Do(op, b) \o s, op, b, s)
  <1>1. Step(op, b, "none") \in Steps
    BY StepsAre
  <1>2. Do(op, b) \in Seq(Steps) /\ Ends(Do(op, b), Step(op, b, "none"))
    BY <1>1, BeforeDo, EmptySeq
  <1>3. ASSUME NEW s \in Seq(Steps)
        PROVE  Starts(Do(op, b) \o s, op, b, s)
    BY <1>1, BeforeDo DEF Starts
  <1> QED BY <1>2, <1>3

LEMMA StepBefore ==
    ASSUME NEW x \in Steps
    PROVE  /\ <<x>> \in Seq(Steps) /\ Ends(<<x>>, x)
           /\ \A s \in Seq(Steps) : Begins(<<x>> \o s, x) /\ Tail(<<x>> \o s) = s /\ <<x>> \o s \in Seq(Steps)
  BY Before, TwoSteps

LEMMA FinishIs ==
    ASSUME NEW b \in Batches, NEW st \in Terminal
    PROVE  IsFinish(Finish(b, st), b, st) /\ Finish(b, st) \in Seq(Steps)
  <1> DEFINE e == Do("release", b)
             d == Do("dropSpec", b)
             x == <<Step("setExec", b, st)>>
             g == Do("getExec", b)
  <1>1. e \in Seq(Steps) /\ IsRelease(e, b)
    BY DoIs DEF IsRelease, Starts
  <1>2. d \in Seq(Steps) /\ d \o e \in Seq(Steps) /\ IsDrop(d \o e, b)
    <2> HIDE DEF e
    <2> QED BY <1>1, DoIs DEF IsDrop, Starts
  <1>3. x \in Seq(Steps) /\ x \o (d \o e) \in Seq(Steps) /\ IsSet(x \o (d \o e), b, st)
    <2>1. Step("setExec", b, st) \in Steps
      BY StepsAre
    <2> HIDE DEF d, e
    <2> QED BY <1>2, <2>1, StepBefore DEF IsSet
  <1>4. g \in Seq(Steps) /\ g \o (x \o (d \o e)) \in Seq(Steps) /\ IsFinish(g \o (x \o (d \o e)), b, st)
    <2> HIDE DEF x, d, e
    <2> QED BY <1>3, DoIs DEF IsFinish, Starts
  <1>5. Finish(b, st) = ((g \o x) \o d) \o e
    BY DEF Finish, SetExec
  <1> HIDE DEF e, d, x, g
  <1>6. ((g \o x) \o d) \o e = g \o (x \o (d \o e))
    <2>1. e \in Seq(Steps) /\ d \in Seq(Steps) /\ x \in Seq(Steps) /\ g \in Seq(Steps)
      BY <1>1, <1>2, <1>3, <1>4
    <2>2. PICK gx \in Seq(Steps) : gx = g \o x
      BY <2>1, Joined
    <2>3. PICK de \in Seq(Steps) : de = d \o e
      BY <2>1, Joined
    <2>4. Regroups(gx, d, e)
      BY <2>1, Regrouped
    <2>5. Regroups(g, x, de)
      BY <2>1, Regrouped
    <2> QED BY <2>2, <2>3, <2>4, <2>5 DEF Regroups
  <1> QED BY <1>4, <1>5, <1>6

LEMMA MarkIs ==
    ASSUME NEW b \in Batches, NEW st \in Terminal \cup {"in_progress"}, NEW s \in Seq(Steps)
    PROVE  /\ First(Mark(b, st) \o s, "read", b) /\ Begins(Tail(Mark(b, st) \o s), Step("write", b, st))
           /\ Tail(Tail(Mark(b, st) \o s)) = s /\ Mark(b, st) \o s \in Seq(Steps) /\ Mark(b, st) \in Seq(Steps)
  <1> DEFINE w == <<Step("write", b, st)>>
             d == Do("read", b)
  <1>1. w \in Seq(Steps) /\ Begins(w \o s, Step("write", b, st)) /\ Tail(w \o s) = s /\ w \o s \in Seq(Steps)
    <2>1. Step("write", b, st) \in Steps
      BY StepsAre
    <2> QED BY <2>1, StepBefore
  <1>2. d \in Seq(Steps) /\ First(d \o (w \o s), "read", b) /\ Tail(d \o (w \o s)) = w \o s /\ d \o (w \o s) \in Seq(Steps)
    <2> HIDE DEF w
    <2> QED BY <1>1, DoIs DEF Starts
  <1>3. Mark(b, st) = d \o w
    BY DEF Mark
  <1> HIDE DEF d, w
  <1>4. (d \o w) \o s = d \o (w \o s)
    BY <1>1, <1>2, Regrouped, SMTT(40) DEF Regroups
  <1>5. d \o w \in Seq(Steps)
    BY <1>1, <1>2, Joined
  <1> QED BY <1>1, <1>2, <1>3, <1>4, <1>5

LEMMA FailureRead ==
    ASSUME NEW b \in Batches
    PROVE  IsFailure(Failure(b), b) /\ Failure(b) \in Seq(Steps)
  <1> DEFINE m == Mark(b, "failed")
             f == Finish(b, "failed")
  <1>1. f \in Seq(Steps) /\ IsFinish(f, b, "failed")
    BY FinishIs DEF Terminal
  <1>2. m \in Seq(Steps) /\ m \o f \in Seq(Steps) /\ IsMark(m \o f, b, "failed")
    <2> HIDE DEF f
    <2> QED BY <1>1, MarkIs DEF IsMark, IsWrite, Terminal
  <1>3. m \o (m \o f) \in Seq(Steps) /\ IsFailure(m \o (m \o f), b)
    <2> DEFINE mf == m \o f
    <2> HIDE DEF mf, f
    <2>1. mf \in Seq(Steps) /\ IsMark(mf, b, "failed")
      BY <1>2 DEF mf
    <2>2. m \o mf \in Seq(Steps) /\ IsFailure(m \o mf, b)
      BY <2>1, MarkIs DEF IsFailure, IsFailWrite, Terminal
    <2> QED BY <2>2 DEF mf
  <1>4. Failure(b) = (m \o m) \o f
    BY DEF Failure
  <1> HIDE DEF m, f
  <1>5. (m \o m) \o f = m \o (m \o f)
    BY <1>1, <1>2, Regrouped DEF Regroups
  <1> QED BY <1>3, <1>4, <1>5

-----------------------------------------------------------------------------
(* A runner's handlers, in local mode. *)

\* A step that changes no record: it is enough to say where it gets.
LEMMA LandsSame ==
    ASSUME WholeInv, RunInv, NEW r \in Up, NEW st \in States, Becomes(r, st), st.up \in {"up", "stop"}, deploy' = deploy,
           \A c \in Batches : Same(c), RunnerAt(r, st)
    PROVE  RunInv'
  <1>1. r \in Runners /\ st.todo \in Seq(Steps)
    BY DEF Up, States
  <1>2. Taskless(r) => Taskless(r)'
    BY <1>1 DEF Taskless, Same
  <1>3. Between(r, st.todo) => Between(r, st.todo)'
    BY <1>1, <1>2, BetweenStays
  <1>4. \A b \in Batches : Point(r, b, st) => Point(r, b, st)'
    BY <1>1, PointStays
  <1>5. \A b \in Batches : Resting(b) => Resting(b)'
    BY StaysSo
  <1>6. RunnerAt(r, st)'
    BY <1>3, <1>4, <1>5 DEF RunnerAt
  <1>7. \A c \in Batches : told'[c] = told[c]
    BY DEF Same
  <1>8. \A q \in Runners \ {r}, c \in Batches : task'[q][c].at = task[q][c].at
    BY DEF Same
  <1> QED BY <1>6, <1>7, <1>8, Lands

LEMMA Resumed ==
    ASSUME WholeInv, RunInv, NEW r \in Runners, Idle(r)
    PROVE  /\ r \in Up /\ r \in Processes /\ proc[r].up \in {"up", "stop"} /\ proc[r].todo = <<>>
           /\ \A c \in Batches : Resting(c)
           /\ \A q \in Runners \ {r}, c \in Batches : task[q][c].at = "none"
  BY AtRest, RunnersRun, Alone DEF Up

LEMMA Started ==
    ASSUME WholeInv, NEW r \in Runners, NEW obj \in Batch, NEW steps \in Seq(Steps)
    PROVE  /\ Runs(r, steps) => \E st \in States : Becomes(r, st) /\ st.todo = steps /\ st.up = proc[r].up
           /\ Holding(r, obj, steps) =>
                \E st \in States : Becomes(r, st) /\ st.todo = steps /\ st.up = proc[r].up /\ st.obj = obj
  <1>1. proc[r].up \in {"unborn", "up", "stop", "down"}
    BY RunnersRun DEF WholeInv, Types, States
  <1>2. [Fresh EXCEPT !.up = proc[r].up, !.todo = steps] \in States
          /\ [Fresh EXCEPT !.up = proc[r].up, !.todo = steps].todo = steps
          /\ [Fresh EXCEPT !.up = proc[r].up, !.todo = steps].up = proc[r].up
    BY <1>1, FreshTyped DEF States
  <1>3. [Fresh EXCEPT !.up = proc[r].up, !.obj = obj, !.todo = steps] \in States
          /\ [Fresh EXCEPT !.up = proc[r].up, !.obj = obj, !.todo = steps].todo = steps
          /\ [Fresh EXCEPT !.up = proc[r].up, !.obj = obj, !.todo = steps].obj = obj
          /\ [Fresh EXCEPT !.up = proc[r].up, !.obj = obj, !.todo = steps].up = proc[r].up
    BY <1>1, FreshTyped DEF States
  <1> QED BY <1>2, <1>3 DEF Runs, Holding

LEMMA CreateRuns == ASSUME WholeInv, RunInv, NEW r \in Runners, NEW b \in Batches, Create(r, b) PROVE RunInv'
  <1>1. Idle(r) /\ deploy.local /\ batch[b] = NoBatch
    BY DEF Create, Serves
  <1>2. /\ r \in Up /\ proc[r].up \in {"up", "stop"} /\ \A c \in Batches : Resting(c)
        /\ \A q \in Runners \ {r}, c \in Batches : task[q][c].at = "none"
    BY <1>1, Resumed
  <1>3. exec[b] = NoExec /\ told[b] = "none" /\ NoTasks(b)
    <2>1. batch[b].status = "none"
      BY <1>1 DEF NoBatch
    <2> QED BY <1>2, <2>1 DEF Resting, New, Live, Over, Terminal
  <1> DEFINE steps == Do("putSpec", b) \o Do("enqueue", b)
  <1>4. steps \in Seq(Steps) /\ IsPut(steps, b)
    <2>1. Do("enqueue", b) \in Seq(Steps) /\ IsEnqueue(Do("enqueue", b), b)
      BY DoIs DEF IsEnqueue, Starts
    <2> DEFINE e == Do("enqueue", b)
    <2> HIDE DEF e
    <2>2. e \in Seq(Steps) /\ IsEnqueue(e, b)
      BY <2>1 DEF e
    <2>3. Do("putSpec", b) \o e \in Seq(Steps) /\ IsPut(Do("putSpec", b) \o e, b)
      BY <2>2, DoIs DEF IsPut, Starts
    <2> QED BY <2>3 DEF e
  <1>5. Runs(r, steps)
    BY DEF Create
  <1> HIDE DEF steps
  <1>6. PICK st \in States : Becomes(r, st) /\ st.todo = steps /\ st.up = proc[r].up
    BY <1>4, <1>5, Started, FreshTyped DEF States
  <1>7. /\ exec' = exec /\ spec' = spec /\ told' = told /\ task' = task /\ deploy' = deploy
        /\ batch'[b].status = "validating" /\ \A c \in Batches \ {b} : Same(c)
    BY DEF Create, Same, WholeInv, Types, Batch
  <1>8. Point(r, b, st)'
    BY <1>1, <1>3, <1>4, <1>6, <1>7 DEF Point, AtHandler, NoTasks
  <1> QED BY <1>1, <1>2, <1>6, <1>7, <1>8, LandsAt

LEMMA CancelRuns == ASSUME WholeInv, RunInv, NEW r \in Runners, NEW b \in Batches, Cancel(r, b) PROVE RunInv'
  <1>1. Idle(r) /\ deploy.local /\ proc[r].up = "up" /\ batch[b].status \in {"validating", "in_progress"}
    BY DEF Cancel, Serves
  <1>2. r \in Up /\ \A c \in Batches : Resting(c)
    BY <1>1, Resumed
  <1>3. Live(b) /\ told[b] = "none"
    BY <1>1, <1>2 DEF Resting, New, Live, Over, Terminal
  <1>4. Do("flag", b) \in Seq(Steps) /\ Ends(Do("flag", b), Step("flag", b, "none"))
    BY DoIs DEF Starts
  <1>5. Holding(r, batch[b], Do("flag", b)) /\ batch[b] \in Batch
    BY <1>1 DEF Cancel, Holding, WholeInv, Types
  <1>6. PICK st \in States : Becomes(r, st) /\ st.todo = Do("flag", b) /\ st.up = proc[r].up
    BY <1>4, <1>5, Started
  <1>7. deploy' = deploy /\ \A c \in Batches : Same(c)
    BY DEF Cancel, Same, storeVars
  <1>8. Point(r, b, st)
    BY <1>1, <1>3, <1>4, <1>6 DEF Point, AtHandler
  <1>9. RunnerAt(r, st)
    BY <1>2, <1>8 DEF RunnerAt
  <1> QED BY <1>1, <1>2, <1>6, <1>7, <1>9, LandsSame

LEMMA PutSpecRuns == ASSUME WholeInv, RunInv, NEW r \in Runners, PutSpec(r) PROVE RunInv'
  <1>1. At(r, "putSpec")
    BY DEF PutSpec
  <1>2. /\ r \in Up /\ proc[r].up \in {"up", "stop"}
        /\ \A q \in Runners \ {r}, c \in Batches : task[q][c].at = "none"
    BY <1>1, Current
  <1>3. PICK b \in Batches : b = On(r) /\ AtHandler(r, b, proc[r].todo) /\ \A c \in Batches \ {b} : Resting(c)
    BY <1>1, AtOp
  <1>4. PICK st \in States : Becomes(r, st) /\ st.todo = Tail(proc[r].todo) /\ st.up = proc[r].up
    BY <1>1, Taking DEF PutSpec, Next1
  <1>5. /\ batch' = batch /\ exec' = exec /\ told' = told /\ task' = task /\ deploy' = deploy
        /\ spec'[b] /\ \A c \in Batches \ {b} : Same(c)
    BY <1>3 DEF PutSpec, Same, WholeInv, Types
  <1>6. /\ IsPut(proc[r].todo, b) /\ deploy.local /\ told[b] = "none"
        /\ exec[b] = NoExec /\ batch[b].status = "validating" /\ NoTasks(b)
    BY <1>1, <1>3, BeginsIs DEF AtHandler, IsEnqueue, IsTell, At
  <1>7. Point(r, b, st)'
    BY <1>4, <1>5, <1>6 DEF IsPut, Point, AtHandler, NoTasks
  <1> QED BY <1>2, <1>3, <1>4, <1>5, <1>6, <1>7, LandsAt

LEMMA EnqueueRuns == ASSUME WholeInv, RunInv, NEW r \in Runners, Enqueue(r) PROVE RunInv'
  <1>1. At(r, "enqueue")
    BY DEF Enqueue
  <1>2. /\ r \in Up /\ proc[r].up \in {"up", "stop"}
        /\ \A q \in Runners \ {r}, c \in Batches : task[q][c].at = "none"
    BY <1>1, Current
  <1>3. PICK b \in Batches : b = On(r) /\ AtHandler(r, b, proc[r].todo) /\ \A c \in Batches \ {b} : Resting(c)
    BY <1>1, AtOp
  <1>4. PICK st \in States : Becomes(r, st) /\ st.todo = Tail(proc[r].todo) /\ st.up = proc[r].up
    BY <1>1, Taking DEF Enqueue, Next1
  <1>5. /\ batch' = batch /\ spec' = spec /\ told' = told /\ task' = task /\ deploy' = deploy
        /\ exec'[b] = QueuedExec /\ \A c \in Batches \ {b} : Same(c)
    BY <1>3 DEF Enqueue, Same, WholeInv, Types
  <1>6. /\ IsEnqueue(proc[r].todo, b) /\ spec[b] /\ deploy.local /\ told[b] = "none"
        /\ batch[b].status = "validating" /\ NoTasks(b)
    BY <1>1, <1>3, BeginsIs DEF AtHandler, IsPut, First, IsTell, At
  <1>7. st.todo = <<>>
    BY <1>4, <1>6 DEF IsEnqueue, Ends
  <1>8. Live(b)'
    BY <1>5, <1>6 DEF Live, Open, Terminal, NoTasks, QueuedExec
  <1>9. Between(r, st.todo)' /\ Resting(b)'
    BY <1>7, <1>8 DEF Between, CheckRest, Resting
  <1> QED BY <1>2, <1>3, <1>4, <1>5, <1>6, <1>9, LandsAt

LEMMA Replaced ==
    ASSUME WholeInv, RunInv, NEW r \in Runners, NEW op, At(r, op), NEW steps \in Seq(Steps), Becomes(r, Then(r, steps))
    PROVE  \E st \in States :
             /\ Becomes(r, st) /\ st.todo = steps \o Tail(proc[r].todo) /\ st.up = proc[r].up /\ st.obj = proc[r].obj
             /\ Tail(proc[r].todo) = <<>> => st.todo = steps
             /\ steps = <<>> => st.todo = Tail(proc[r].todo)
  <1>1. r \in Processes /\ proc[r].todo # <<>> /\ Tail(proc[r].todo) \in Seq(Steps)
    BY Current
  <1>2. /\ Then(r, steps) \in States /\ Then(r, steps).todo = steps \o Tail(proc[r].todo)
        /\ Then(r, steps).up = proc[r].up /\ Then(r, steps).obj = proc[r].obj
    BY <1>1, ThenIs DEF WholeInv
  <1>3. steps \o <<>> = steps
    BY ConcatEmptySeq
  <1>4. <<>> \o Tail(proc[r].todo) = Tail(proc[r].todo)
    BY <1>1, ConcatEmptySeq
  <1> QED BY <1>2, <1>3, <1>4

LEMMA AnswerIs ==
    ASSUME NEW b \in Batches, NEW st \in {"cancelling", "cancelled"}
    PROVE  /\ <<Step("write", b, st), Step("tell", b, st)>> \in Seq(Steps)
           /\ IsAnswer(<<Step("write", b, st), Step("tell", b, st)>>, b, st)
  <1>1. Step("write", b, st) \in Steps /\ Step("tell", b, st) \in Steps
    BY StepsAre DEF Terminal
  <1> QED BY <1>1, TwoSteps DEF IsAnswer, IsTell, Begins

LEMMA FlagRuns == ASSUME WholeInv, RunInv, NEW r \in Runners, Flag(r) PROVE RunInv'
  <1>1. At(r, "flag")
    BY DEF Flag
  <1>2. /\ r \in Up /\ proc[r].up \in {"up", "stop"}
        /\ \A q \in Runners \ {r}, c \in Batches : task[q][c].at = "none"
    BY <1>1, Current
  <1>3. PICK b \in Batches : b = On(r) /\ AtHandler(r, b, proc[r].todo) /\ \A c \in Batches \ {b} : Resting(c)
    BY <1>1, AtOp
  <1>4. Tail(proc[r].todo) = <<>> /\ Live(b) /\ deploy.local /\ told[b] = "none"
    BY <1>1, <1>3, BeginsIs DEF AtHandler, IsPut, First, IsEnqueue, IsTell, At, Ends
  <1>5. /\ batch' = batch /\ spec' = spec /\ told' = told /\ task' = task /\ deploy' = deploy
        /\ \A c \in Batches \ {b} : Same(c)
        /\ exec'[b] = RequestCancel(exec[b]) /\ exec[b] \in Execution
    BY <1>3 DEF Flag, Same, WholeInv, Types
  <1>6. NoTasks(b)' <=> NoTasks(b)
    BY <1>5 DEF NoTasks
  <1>7. Open(b)' <=> Open(b)
    BY <1>5 DEF Open, Crashes
  <1>8. CASE exec[b].status = "queued"
    <2>1. exec'[b].status = "cancelled" /\ exec'[b].cancel
      BY <1>5, <1>8 DEF RequestCancel, Execution, Terminal
    <2>2. Unqueued(b)'
      BY <1>4, <1>6, <1>7, <1>8, <2>1 DEF Unqueued, Live, NoTasks
    <2> DEFINE answer == <<Step("write", b, "cancelled"), Step("tell", b, "cancelled")>>
    <2>3. answer \in Seq(Steps) /\ IsAnswer(answer, b, "cancelled")
      BY AnswerIs
    <2> HIDE DEF answer
    <2> DEFINE steps == Do("dropSpec", b) \o answer
    <2>4. steps \in Seq(Steps) /\ IsUnqueue(steps, b)
      BY <2>3, DoIs DEF IsUnqueue, Starts
    <2>5. Becomes(r, Then(r, steps))
      BY <1>3, <1>5, <1>8, <2>1 DEF Flag, Terminal, answer
    <2> HIDE DEF steps
    <2>6. PICK st \in States : Becomes(r, st) /\ st.todo = steps /\ st.up = proc[r].up
      BY <1>1, <1>4, <2>4, <2>5, Replaced
    <2>7. Point(r, b, st)'
      BY <1>4, <1>5, <2>2, <2>4, <2>6 DEF Point, AtDrop
    <2> QED BY <1>2, <1>3, <1>4, <1>5, <2>6, <2>7, LandsAt
  <1>9. CASE exec[b].status = "running"
    <2>1. exec'[b].status = "running" /\ exec'[b].cancel /\ exec'[b].owner = exec[b].owner
      BY <1>5, <1>9 DEF RequestCancel, Execution, Terminal
    <2>2. Live(b)'
      BY <1>4, <1>5, <1>7, <1>9, <2>1 DEF Live
    <2> DEFINE steps == <<Step("write", b, "cancelling"), Step("tell", b, "cancelling")>>
    <2>3. steps \in Seq(Steps) /\ IsAnswer(steps, b, "cancelling")
      BY AnswerIs
    <2>4. Becomes(r, Then(r, steps))
      BY <1>3, <1>5, <1>9, <2>1 DEF Flag, Terminal
    <2> HIDE DEF steps
    <2>5. PICK st \in States : Becomes(r, st) /\ st.todo = steps /\ st.up = proc[r].up
      BY <1>1, <1>4, <2>3, <2>4, Replaced
    <2>6. Point(r, b, st)'
      BY <1>4, <1>5, <2>1, <2>2, <2>3, <2>5 DEF Point, AtWrite
    <2> QED BY <1>2, <1>3, <1>4, <1>5, <2>5, <2>6, LandsAt
  <1> QED BY <1>4, <1>8, <1>9 DEF Live

LEMMA TellRuns == ASSUME WholeInv, RunInv, NEW r \in Runners, Tell(r) PROVE RunInv'
  <1>1. At(r, "tell")
    BY DEF Tell
  <1>2. /\ r \in Up /\ proc[r].up \in {"up", "stop"} /\ Now(r) = Head(proc[r].todo)
        /\ \A q \in Runners \ {r}, c \in Batches : task[q][c].at = "none"
    BY <1>1, Current DEF Now
  <1>3. PICK b \in Batches : b = On(r) /\ AtHandler(r, b, proc[r].todo) /\ \A c \in Batches \ {b} : Resting(c)
    BY <1>1, AtOp
  <1>4. PICK st \in States : Becomes(r, st) /\ st.todo = Tail(proc[r].todo) /\ st.up = proc[r].up
    BY <1>1, Taking DEF Tell, Next1
  <1>5. /\ batch' = batch /\ exec' = exec /\ spec' = spec /\ deploy' = deploy
        /\ told'[b] = Now(r).arg /\ \A c \in Batches \ {b} : told'[c] = told[c]
    BY <1>3 DEF Tell, WholeInv, Types, storeVars
  <1>6. /\ \A q \in Runners, c \in Batches : task'[q][c].at = task[q][c].at
        /\ \A q \in Runners, c \in Batches : c # b => task'[q][c] = task[q][c]
        /\ task[r][b].at # "none" => task'[r][b].hit
    BY <1>3 DEF Tell, WholeInv, Types, TaskStates
  <1>7. /\ \A c \in Batches \ {b} : Same(c)
        /\ NoTasks(b)' <=> NoTasks(b)
        /\ Open(b)' <=> Open(b)
    BY <1>5, <1>6 DEF Same, NoTasks, Open, Crashes
  <1>8. deploy.local /\ st.todo = <<>>
          /\ (\/ IsTell(proc[r].todo, b, "cancelling") /\ Live(b) /\ exec[b].cancel /\ batch[b].status = "cancelling"
              \/ IsTell(proc[r].todo, b, "cancelled") /\ Over(b) /\ batch[b].status = "cancelled")
    BY <1>1, <1>3, <1>4, BeginsIs DEF AtHandler, IsPut, First, IsEnqueue, IsTell, At, Ends
  <1>9. ASSUME IsTell(proc[r].todo, b, "cancelling"), Live(b), exec[b].cancel, batch[b].status = "cancelling" PROVE Resting(b)'
    <2>1. told'[b] = "cancelling"
      BY <1>2, <1>5, <1>9, BeginsIs DEF IsTell
    <2>2. Live(b)'
      BY <1>2, <1>5, <1>6, <1>7, <1>9, <2>1 DEF Live
    <2> QED BY <2>2 DEF Resting
  <1>10. ASSUME Over(b), batch[b].status = "cancelled" PROVE Resting(b)'
    BY <1>5, <1>7, <1>10 DEF Over, Resting
  <1>11. Between(r, st.todo)' /\ Resting(b)'
    BY <1>8, <1>9, <1>10 DEF Between, CheckRest
  <1>12. \A q \in Runners \ {r}, c \in Batches : task'[q][c].at = task[q][c].at
    BY <1>6
  <1> QED BY <1>2, <1>3, <1>4, <1>5, <1>7, <1>8, <1>11, <1>12, LandsAt

-----------------------------------------------------------------------------
(* The loop between batches. *)

\* A list that begins with this job over these pairs.
JobOver(t, job, pairs, s) == t \in Seq(Steps) /\ EachOf(t, job) /\ Head(t).over = pairs /\ Tail(t) = s

LEMMA EachIs ==
    ASSUME NEW job \in {"look", "check", "giveUp"}, NEW pairs \in SUBSET (Batches \X BOOLEAN)
    PROVE  /\ Each(job, pairs) \in Seq(Steps)
           /\ \A s \in Seq(Steps) : JobOver(Each(job, pairs) \o s, job, pairs, s)
  <1> DEFINE x == [op |-> "each", b |-> None, arg |-> job, over |-> pairs]
  <1>1. x \in Steps /\ x.op = "each" /\ x.arg = job /\ x.over = pairs
    BY DEF Steps, LoopSteps
  <1>2. Each(job, pairs) = <<x>>
    BY DEF Each
  <1> HIDE DEF x
  <1>3. /\ <<x>> \in Seq(Steps)
        /\ \A s \in Seq(Steps) : Begins(<<x>> \o s, x) /\ Tail(<<x>> \o s) = s /\ <<x>> \o s \in Seq(Steps)
    BY <1>1, StepBefore
  <1> QED BY <1>1, <1>2, <1>3 DEF EachOf, Begins, JobOver

LEMMA LoopDoIs ==
    ASSUME NEW op \in {"list", "owned", "down"}
    PROVE  /\ Do(op, None) \in Seq(Steps) /\ Ends(Do(op, None), Step(op, None, "none"))
           /\ \A s \in Seq(Steps) : /\ Begins(Do(op, None) \o s, Step(op, None, "none")) /\ Tail(Do(op, None) \o s) = s
                                    /\ Do(op, None) \o s \in Seq(Steps)
  <1>1. Step(op, None, "none") \in Steps
    BY LoopStepsAre
  <1> QED BY <1>1, StepBefore DEF Do

LEMMA WakeRuns == ASSUME WholeInv, RunInv, NEW r \in Runners, Wake(r) PROVE RunInv'
  <1>1. Idle(r)
    BY DEF Wake
  <1>2. /\ r \in Up /\ proc[r].up \in {"up", "stop"} /\ \A c \in Batches : Resting(c)
    BY <1>1, Resumed
  <1> DEFINE steps == Each("look", Tasks(r) \X {FALSE}) \o Do("list", None)
  <1>3. steps \in Seq(Steps) /\ LookRest(steps)
    <2> DEFINE l == Do("list", None)
               pairs == Tasks(r) \X {FALSE}
    <2>1. l \in Seq(Steps) /\ IsList(l)
      BY LoopDoIs DEF IsList
    <2>2. pairs \in SUBSET (Batches \X BOOLEAN)
      BY DEF Tasks
    <2> HIDE DEF l, pairs
    <2>3. Each("look", pairs) \o l \in Seq(Steps) /\ LookRest(Each("look", pairs) \o l)
      BY <2>1, <2>2, EachIs DEF LookRest, JobOver
    <2> QED BY <2>3 DEF l, pairs
  <1>4. Runs(r, steps)
    BY DEF Wake
  <1> HIDE DEF steps
  <1>5. PICK st \in States : Becomes(r, st) /\ st.todo = steps /\ st.up = proc[r].up
    BY <1>3, <1>4, Started, FreshTyped DEF States
  <1>6. deploy' = deploy /\ \A c \in Batches : Same(c)
    BY DEF Wake, Same, storeVars
  <1>7. RunnerAt(r, st)
    BY <1>2, <1>3, <1>5 DEF RunnerAt, Between
  <1> QED BY <1>2, <1>5, <1>6, <1>7, LandsSame

LEMMA BetweenBatches ==
    ASSUME WholeInv, RunInv, NEW r \in Runners, NEW op \in {"each", "list", "owned", "down"}, At(r, op)
    PROVE  /\ r \in Up /\ proc[r].up \in {"up", "stop"} /\ \A c \in Batches : Resting(c)
           /\ proc[r].todo \in Seq(Steps) /\ Tail(proc[r].todo) \in Seq(Steps) /\ Now(r) = Head(proc[r].todo)
           /\ op = "each" => \/ EachOf(proc[r].todo, "look") /\ IsList(Tail(proc[r].todo))
                             \/ EachOf(proc[r].todo, "check") /\ Tail(proc[r].todo) = <<>>
                             \/ /\ EachOf(proc[r].todo, "giveUp") /\ IsDown(Tail(proc[r].todo))
                                /\ Taskless(r) /\ Pairs(r, proc[r].todo)
           /\ op = "list" => Tail(proc[r].todo) = <<>>
           /\ op = "owned" => Taskless(r) /\ IsDown(Tail(proc[r].todo))
           /\ op = "down" => Taskless(r)
  <1>1. /\ r \in Up /\ proc[r].up \in {"up", "stop"} /\ \A c \in Batches : Resting(c)
        /\ proc[r].todo \in Seq(Steps) /\ Tail(proc[r].todo) \in Seq(Steps) /\ Now(r) = Head(proc[r].todo)
        /\ Between(r, proc[r].todo) /\ proc[r].todo # <<>> /\ Head(proc[r].todo).op = op
    BY Current, AtOp DEF Now, At
  <1>2. /\ IsList(proc[r].todo) => op = "list" /\ Tail(proc[r].todo) = <<>>
        /\ IsDown(proc[r].todo) => op = "down"
        /\ IsOwned(proc[r].todo) => op = "owned" /\ IsDown(Tail(proc[r].todo))
        /\ \A job : EachOf(proc[r].todo, job) => op = "each"
    BY <1>1, BeginsIs DEF IsList, IsDown, IsOwned, EachOf, Ends
  <1> QED BY <1>1, <1>2 DEF Between, LookRest, CheckRest, GiveAll

LEMMA TakeNoneRuns == ASSUME WholeInv, RunInv, NEW r \in Runners, TakeNone(r) PROVE RunInv'
  <1>1. At(r, "each")
    BY DEF TakeNone
  <1>2. PICK st \in States : Becomes(r, st) /\ st.todo = Tail(proc[r].todo) /\ st.up = proc[r].up
    BY <1>1, Taking DEF TakeNone, Next1
  <1>3. deploy' = deploy /\ \A c \in Batches : Same(c)
    BY DEF TakeNone, Same, storeVars
  <1>4. Between(r, st.todo)
    BY <1>1, <1>2, BetweenBatches DEF Between, LookRest, CheckRest, GiveAll
  <1>5. r \in Up /\ proc[r].up \in {"up", "stop"} /\ RunnerAt(r, st)
    BY <1>1, <1>4, BetweenBatches DEF RunnerAt
  <1> QED BY <1>2, <1>3, <1>5, LandsSame

\* What is left of a list after one of its pairs is taken.
Left(job, rest, s) == (IF rest = {} THEN <<>> ELSE Each(job, rest)) \o s

\* What is left of a job over pairs, with a list after it.
LeftFits(t, job, rest, s) ==
  t \in Seq(Steps) /\ (rest = {} => t = s) /\ (rest # {} => JobOver(t, job, rest, s))

LEMMA LeftIs ==
    ASSUME NEW job \in {"look", "check", "giveUp"}, NEW rest \in SUBSET (Batches \X BOOLEAN), NEW s \in Seq(Steps)
    PROVE  LeftFits(Left(job, rest, s), job, rest, s)
  <1>1. CASE rest = {}
    <2>1. <<>> \o s = s
      BY ConcatEmptySeq
    <2>2. Left(job, rest, s) = s
      BY <1>1, <2>1 DEF Left
    <2> QED BY <1>1, <2>2 DEF LeftFits
  <1>2. CASE rest # {}
    <2>1. Left(job, rest, s) = Each(job, rest) \o s
      BY <1>2 DEF Left
    <2>2. JobOver(Each(job, rest) \o s, job, rest, s)
      BY EachIs
    <2> QED BY <1>2, <2>1, <2>2 DEF LeftFits, JobOver
  <1> QED BY <1>1, <1>2

LEMMA LookIs ==
    ASSUME NEW b \in Batches, NEW s \in Seq(Steps)
    PROVE  /\ Do("look", b) \o Do("renew", b) \in Seq(Steps)
           /\ LookRest(s) => IsLook((Do("look", b) \o Do("renew", b)) \o s, b)
  <1> DEFINE l == Do("look", b)
             n == Do("renew", b)
  <1>1. n \in Seq(Steps) /\ n \o s \in Seq(Steps) /\ (LookRest(s) => IsRenew(n \o s, b))
    BY DoIs DEF IsRenew, Starts
  <1>2. l \in Seq(Steps) /\ (LookRest(s) => IsLook(l \o (n \o s), b))
    <2> HIDE DEF n
    <2> QED BY <1>1, DoIs DEF IsLook, Starts
  <1> HIDE DEF l, n
  <1>3. (l \o n) \o s = l \o (n \o s) /\ l \o n \in Seq(Steps)
    BY <1>1, <1>2, Regrouped, Joined DEF Regroups
  <1> QED BY <1>2, <1>3 DEF l, n

LEMMA SetExecIs ==
    ASSUME NEW b \in Batches, NEW st \in Terminal \cup {"queued", "running"}, NEW s \in Seq(Steps)
    PROVE  /\ First(SetExec(b, st) \o s, "getExec", b) /\ Begins(Tail(SetExec(b, st) \o s), Step("setExec", b, st))
           /\ Tail(Tail(SetExec(b, st) \o s)) = s /\ SetExec(b, st) \o s \in Seq(Steps) /\ SetExec(b, st) \in Seq(Steps)
  <1> DEFINE w == <<Step("setExec", b, st)>>
             d == Do("getExec", b)
  <1>1. w \in Seq(Steps) /\ Begins(w \o s, Step("setExec", b, st)) /\ Tail(w \o s) = s /\ w \o s \in Seq(Steps)
    <2>1. Step("setExec", b, st) \in Steps
      BY StepsAre
    <2> QED BY <2>1, StepBefore
  <1>2. d \in Seq(Steps) /\ First(d \o (w \o s), "getExec", b) /\ Tail(d \o (w \o s)) = w \o s /\ d \o (w \o s) \in Seq(Steps)
    <2> HIDE DEF w
    <2> QED BY <1>1, DoIs DEF Starts
  <1>3. SetExec(b, st) = d \o w
    BY DEF SetExec
  <1> HIDE DEF d, w
  <1>4. (d \o w) \o s = d \o (w \o s)
    BY <1>1, <1>2, Regrouped, SMTT(40) DEF Regroups
  <1>5. d \o w \in Seq(Steps)
    BY <1>1, <1>2, Joined
  <1> QED BY <1>1, <1>2, <1>3, <1>4, <1>5

LEMMA GiveIs ==
    ASSUME NEW r \in Runners, NEW b \in Batches, NEW s \in Seq(Steps), GiveRest(r, s, b)
    PROVE  /\ GiveUp(b, FALSE) \in Seq(Steps) /\ GiveGet(r, GiveUp(b, FALSE) \o s, b, "queued")
           /\ GiveUp(b, TRUE) \in Seq(Steps) /\ GiveRead(r, GiveUp(b, TRUE) \o s, b)
  <1> DEFINE e == Do("release", b)
             d == Do("dropSpec", b)
  <1>1. e \in Seq(Steps) /\ e \o s \in Seq(Steps) /\ GiveRelease(r, e \o s, b)
    BY DoIs DEF GiveRelease, Starts
  <1>2. d \in Seq(Steps)
    BY DoIs DEF Starts
  <1>3. GiveUp(b, FALSE) \in Seq(Steps) /\ GiveGet(r, GiveUp(b, FALSE) \o s, b, "queued")
    <2> DEFINE x == SetExec(b, "queued")
    <2> HIDE DEF e
    <2>1. x \in Seq(Steps) /\ GiveGet(r, x \o (e \o s), b, "queued")
      BY <1>1, SetExecIs DEF GiveGet, GiveSet
    <2>2. GiveUp(b, FALSE) = x \o e
      BY DEF GiveUp, e
    <2> HIDE DEF x
    <2>3. (x \o e) \o s = x \o (e \o s) /\ x \o e \in Seq(Steps)
      BY <1>1, <2>1, Regrouped, Joined, SMTT(40) DEF Regroups
    <2> QED BY <2>1, <2>2, <2>3
  <1>4. GiveUp(b, TRUE) \in Seq(Steps) /\ GiveRead(r, GiveUp(b, TRUE) \o s, b)
    <2> DEFINE x == SetExec(b, "cancelled")
               m == Mark(b, "cancelled")
    <2> HIDE DEF e, d
    <2>1. PICK es \in Seq(Steps) : es = e \o s /\ GiveRelease(r, es, b)
      BY <1>1
    <2>2. x \in Seq(Steps) /\ x \o es \in Seq(Steps) /\ GiveGet(r, x \o es, b, "cancelled")
      BY <2>1, SetExecIs DEF GiveGet, GiveSet, Terminal
    <2> HIDE DEF x
    <2>3. PICK xs \in Seq(Steps) : xs = x \o es /\ GiveGet(r, xs, b, "cancelled")
      BY <2>2
    <2>4. d \o xs \in Seq(Steps) /\ GiveDrop(r, d \o xs, b)
      BY <2>3, DoIs DEF GiveDrop, d, Starts
    <2>5. PICK ds \in Seq(Steps) : ds = d \o xs /\ GiveDrop(r, ds, b)
      BY <2>4
    <2>6. m \in Seq(Steps) /\ m \o ds \in Seq(Steps) /\ GiveRead(r, m \o ds, b)
      BY <2>5, MarkIs DEF GiveRead, GiveWrite, Terminal
    <2>7. GiveUp(b, TRUE) = ((m \o d) \o x) \o e
      BY DEF GiveUp, x, e, d
    <2> HIDE DEF m
    <2>8. PICK md \in Seq(Steps) : md = m \o d
      BY <1>2, <2>6, Joined
    <2>9. PICK mx \in Seq(Steps) : mx = md \o x
      BY <2>2, Joined
    <2>10. (mx \o e) \o s = mx \o es
      <3>1. PICK e1 \in Seq(Steps) : e1 = e
        BY <1>1
      <3>2. Regroups(mx, e1, s)
        BY Regrouped
      <3> QED BY <2>1, <3>1, <3>2 DEF Regroups
    <2>11. (md \o x) \o es = md \o xs
      <3>1. Regroups(md, x, es)
        BY <2>2, Regrouped
      <3> QED BY <2>3, <3>1 DEF Regroups
    <2>12. (m \o d) \o xs = m \o ds
      <3>1. PICK m1 \in Seq(Steps), d1 \in Seq(Steps) : m1 = m /\ d1 = d
        BY <1>2, <2>6
      <3>2. Regroups(m1, d1, xs)
        BY Regrouped
      <3> QED BY <2>5, <3>1, <3>2 DEF Regroups
    <2>13. mx \o e \in Seq(Steps)
      BY <1>1, Joined
    <2> QED BY <2>6, <2>7, <2>8, <2>9, <2>10, <2>11, <2>12, <2>13
  <1> QED BY <1>3, <1>4

LEMMA TakeRuns ==
    ASSUME WholeInv, RunInv, NEW r \in Runners, NEW b \in Batches, NEW flagged \in BOOLEAN, Take(r, b, flagged)
    PROVE  RunInv'
  <1> DEFINE job == Now(r).arg
             steps == CASE job = "look"   -> Do("look", b) \o Do("renew", b)
                        [] job = "check"  -> Do("check", b)
                        [] job = "giveUp" -> GiveUp(b, flagged)
             rest  == Now(r).over \ {<<b, flagged>>}
             more == IF rest = {} THEN <<>> ELSE Each(job, rest)
             tail == Tail(proc[r].todo)
  <1>1. At(r, "each") /\ <<b, flagged>> \in Now(r).over
    BY DEF Take
  <1>2. /\ r \in Up /\ r \in Processes /\ proc[r].up \in {"up", "stop"} /\ \A c \in Batches : Resting(c)
        /\ tail \in Seq(Steps) /\ Now(r) = Head(proc[r].todo) /\ Now(r) \in Steps /\ Now(r).op = "each"
        /\ \/ EachOf(proc[r].todo, "look") /\ IsList(tail)
           \/ EachOf(proc[r].todo, "check") /\ tail = <<>>
           \/ /\ EachOf(proc[r].todo, "giveUp") /\ IsDown(tail)
              /\ Taskless(r) /\ Pairs(r, proc[r].todo)
    <2>1. r \in Processes /\ Types
      BY RunnersRun DEF WholeInv
    <2> QED BY <1>1, <2>1, BetweenBatches, NowIs
  <1>3. job \in {"look", "check", "giveUp"} /\ rest \in SUBSET (Batches \X BOOLEAN)
    BY <1>2, OpOf
  <1>4. Becomes(r, Then(r, steps \o more))
    BY DEF Take
  <1>5. deploy' = deploy /\ \A c \in Batches : Same(c)
    BY DEF Take, Same, storeVars
  <1> DEFINE left == Left(job, rest, tail)
  <1>6. /\ left \in Seq(Steps) /\ (rest = {} => left = tail)
        /\ rest # {} => EachOf(left, job) /\ Head(left).over = rest /\ Tail(left) = tail
    <2>1. PICK j \in {"look", "check", "giveUp"}, w \in SUBSET (Batches \X BOOLEAN), t \in Seq(Steps) :
             j = job /\ w = rest /\ t = tail
      BY <1>2, <1>3
    <2>2. LeftFits(Left(j, w, t), j, w, t)
      BY LeftIs
    <2> HIDE DEF job, rest, tail
    <2> QED BY <2>1, <2>2 DEF LeftFits, JobOver
  <1>7. left = more \o tail /\ more \in Seq(Steps)
    <2>1. left = more \o tail
      BY DEF Left
    <2> HIDE DEF rest, job
    <2> QED BY <1>3, <2>1, EachIs, EmptySeq DEF JobOver
  <1>8. job = "look" => IsLook(steps \o left, b) /\ steps \in Seq(Steps)
    <2>1. ASSUME job = "look" PROVE LookRest(left)
      BY <1>2, <1>6, <2>1 DEF EachOf, LookRest
    <2>2. ASSUME job = "look" PROVE steps = Do("look", b) \o Do("renew", b)
      BY <2>2
    <2> HIDE DEF steps, left, job
    <2> QED BY <1>6, <2>1, <2>2, LookIs
  <1>9. job = "check" => IsCheck(steps \o left, b) /\ steps \in Seq(Steps)
    <2>1. ASSUME job = "check" PROVE CheckRest(left)
      BY <1>2, <1>6, <2>1 DEF EachOf, CheckRest
    <2>2. ASSUME job = "check" PROVE steps = Do("check", b)
      BY <2>2
    <2> HIDE DEF steps, left, job
    <2>3. Do("check", b) \in Seq(Steps) /\ Starts(Do("check", b) \o left, "check", b, left)
      BY <1>6, DoIs
    <2> QED BY <2>1, <2>2, <2>3 DEF IsCheck, Starts
  <1>10. job = "giveUp" =>
           /\ steps \in Seq(Steps) /\ Owned(r, b, flagged)
           /\ ~flagged => GiveGet(r, steps \o left, b, "queued")
           /\ flagged => GiveRead(r, steps \o left, b)
    <2> SUFFICES ASSUME job = "giveUp"
                 PROVE  /\ steps \in Seq(Steps) /\ Owned(r, b, flagged)
                        /\ ~flagged => GiveGet(r, steps \o left, b, "queued")
                        /\ flagged => GiveRead(r, steps \o left, b)
      OBVIOUS
    <2>1. IsDown(tail) /\ Taskless(r) /\ \A pair \in Now(r).over : Owned(r, pair[1], pair[2])
      BY <1>2 DEF EachOf, Pairs
    <2>2. Owned(r, b, flagged)
      BY <1>1, <2>1
    <2>3. ASSUME NEW pair \in rest PROVE pair[1] # b /\ Owned(r, pair[1], pair[2])
      <3>1. pair = <<pair[1], pair[2]>> /\ pair \in Now(r).over /\ pair # <<b, flagged>>
        BY <1>3, <2>3
      <3>2. Owned(r, pair[1], pair[2])
        BY <2>1, <3>1
      <3>3. exec[pair[1]].cancel = pair[2] /\ exec[b].cancel = flagged
        BY <2>2, <3>2 DEF Owned
      <3> QED BY <3>1, <3>2, <3>3
    <2>4. GiveRest(r, left, b)
      <3>1. CASE rest = {}
        <4>1. ~EachOf(left, "giveUp")
          BY <3>1, <1>6, <2>1, BeginsIs DEF IsDown, Ends, EachOf
        <4> QED BY <3>1, <4>1, <1>6, <2>1 DEF GiveRest, GiveAll
      <3>2. CASE rest # {}
        <4> HIDE DEF rest, left, job, tail
        <4> QED BY <3>2, <1>6, <2>1, <2>3 DEF GiveRest, GiveAll, Pairs
      <3> QED BY <3>1, <3>2
    <2>5. steps = GiveUp(b, flagged)
      OBVIOUS
    <2> HIDE DEF steps, left, job
    <2> QED BY <1>6, <2>2, <2>4, <2>5, GiveIs
  <1>11. steps \in Seq(Steps) /\ (IsLook(steps \o left, b) \/ IsCheck(steps \o left, b)
                                   \/ (Owned(r, b, FALSE) /\ GiveGet(r, steps \o left, b, "queued"))
                                   \/ (Owned(r, b, TRUE) /\ GiveRead(r, steps \o left, b)))
    <2> HIDE DEF steps, left, job
    <2> QED BY <1>3, <1>8, <1>9, <1>10
  <1> HIDE DEF steps, left, more, tail
  <1>12. PICK now \in Seq(Steps) : now = steps \o more
    BY <1>7, <1>11, Joined
  <1>13. PICK st \in States : Becomes(r, st) /\ st.todo = now \o tail /\ st.up = proc[r].up
    BY <1>1, <1>4, <1>12, Replaced DEF tail
  <1>14. st.todo = steps \o left
    <2>1. Regroups(steps, more, tail)
      BY <1>2, <1>7, <1>11, Regrouped
    <2> QED BY <1>7, <1>12, <1>13, <2>1 DEF Regroups
  <1>15. Point(r, b, st)
    BY <1>2, <1>11, <1>14 DEF Point, AtLoop, AtGetExec, AtRead
  <1>16. RunnerAt(r, st)
    BY <1>2, <1>15 DEF RunnerAt
  <1> QED BY <1>2, <1>5, <1>13, <1>16, LandsSame

LEMMA ListRuns == ASSUME WholeInv, RunInv, NEW r \in Runners, List(r) PROVE RunInv'
  <1> DEFINE pairs == {b \in Batches : ClaimableBatch(r, b)} \X {FALSE}
  <1>1. At(r, "list") /\ Becomes(r, Then(r, Each("check", pairs)))
    BY DEF List
  <1>2. pairs \in SUBSET (Batches \X BOOLEAN)
    OBVIOUS
  <1> HIDE DEF pairs
  <1>3. /\ r \in Up /\ proc[r].up \in {"up", "stop"} /\ \A c \in Batches : Resting(c)
        /\ Tail(proc[r].todo) \in Seq(Steps) /\ Tail(proc[r].todo) = <<>>
    BY <1>1, BetweenBatches
  <1>4. PICK steps \in Seq(Steps) : steps = Each("check", pairs)
    BY <1>2, EachIs DEF JobOver
  <1>5. PICK st \in States : Becomes(r, st) /\ st.todo = steps \o Tail(proc[r].todo) /\ st.up = proc[r].up
    BY <1>1, <1>4, Replaced
  <1>6. CheckRest(st.todo)
    <2>1. PICK t \in Seq(Steps) : t = Tail(proc[r].todo)
      BY <1>3
    <2>2. EachOf(Each("check", pairs) \o t, "check") /\ Tail(Each("check", pairs) \o t) = t
      BY <1>2, EachIs DEF JobOver
    <2> QED BY <1>3, <1>4, <1>5, <2>1, <2>2 DEF CheckRest
  <1>7. deploy' = deploy /\ \A c \in Batches : Same(c)
    BY DEF List, Same, storeVars
  <1>8. RunnerAt(r, st)
    BY <1>3, <1>6 DEF RunnerAt, Between
  <1> QED BY <1>3, <1>5, <1>7, <1>8, LandsSame

\* The runner at a step of its loop.
LEMMA OnLoop ==
    ASSUME WholeInv, RunInv, NEW r \in Runners, NEW op \in {"look", "renew", "check", "claim", "spawn"}, At(r, op)
    PROVE  /\ r \in Up /\ proc[r].up \in {"up", "stop"} /\ proc[r].todo \in Seq(Steps) /\ Tail(proc[r].todo) \in Seq(Steps)
           /\ \A q \in Runners \ {r}, c \in Batches : task[q][c].at = "none"
           /\ \E b \in Batches :
                 /\ b = On(r) /\ \A c \in Batches \ {b} : Resting(c)
                 /\ op = "look" => IsLook(proc[r].todo, b) /\ Resting(b)
                 /\ op = "renew" => IsRenew(proc[r].todo, b) /\ Resting(b)
                 /\ op = "check" => IsCheck(proc[r].todo, b) /\ Resting(b)
                 /\ op = "claim" => IsClaim(proc[r].todo, b) /\ Free(b)
                 /\ op = "spawn" => IsSpawn(proc[r].todo, b) /\ Free(b) /\ exec[b].status = "running" /\ exec[b].owner = r
  <1>1. /\ r \in Up /\ proc[r].up \in {"up", "stop"} /\ proc[r].todo \in Seq(Steps) /\ Tail(proc[r].todo) \in Seq(Steps)
        /\ \A q \in Runners \ {r}, c \in Batches : task[q][c].at = "none"
    BY Current
  <1>2. PICK b \in Batches : b = On(r) /\ AtLoop(r, b, proc[r].todo) /\ \A c \in Batches \ {b} : Resting(c)
    BY AtOp
  <1>3. /\ IsLook(proc[r].todo, b) => op = "look"
        /\ IsRenew(proc[r].todo, b) => op = "renew"
        /\ IsCheck(proc[r].todo, b) => op = "check"
        /\ IsClaim(proc[r].todo, b) => op = "claim"
        /\ IsSpawn(proc[r].todo, b) => op = "spawn"
    BY BeginsIs DEF IsLook, IsRenew, IsCheck, IsClaim, IsSpawn, First, At
  <1> QED BY <1>1, <1>2, <1>3 DEF AtLoop

LEMMA CheckRuns == ASSUME WholeInv, RunInv, NEW r \in Runners, Check(r) PROVE RunInv'
  <1>1. At(r, "check")
    BY DEF Check
  <1>2. /\ r \in Up /\ proc[r].up \in {"up", "stop"} /\ proc[r].todo \in Seq(Steps) /\ Tail(proc[r].todo) \in Seq(Steps)
        /\ \A q \in Runners \ {r}, c \in Batches : task[q][c].at = "none"
    BY <1>1, OnLoop
  <1>3. PICK b \in Batches : b = On(r) /\ IsCheck(proc[r].todo, b) /\ \A c \in Batches : Resting(c)
    BY <1>1, OnLoop
  <1>4. CheckRest(Tail(proc[r].todo))
    BY <1>3 DEF IsCheck
  <1>5. deploy' = deploy /\ \A c \in Batches : Same(c)
    BY DEF Check, Same, storeVars
  <1>6. CASE ClaimableBatch(r, b)
    <2>1. Free(b)
      BY <1>2, <1>3, <1>6 DEF ClaimableBatch, Claimable, Resting, New, NoExec, Over, Terminal, Free, NoTasks
    <2>2. PICK steps \in Seq(Steps) : steps = Do("claim", b)
      BY DoIs DEF Starts
    <2>3. Becomes(r, Then(r, steps))
      BY <1>3, <1>6, <2>2 DEF Check
    <2>4. PICK st \in States : Becomes(r, st) /\ st.todo = steps \o Tail(proc[r].todo) /\ st.up = proc[r].up
      BY <1>1, <2>3, Replaced
    <2>5. IsClaim(st.todo, b)
      <3>1. PICK t \in Seq(Steps) : t = Tail(proc[r].todo)
        BY <1>2
      <3>2. First(Do("claim", b) \o t, "claim", b) /\ Tail(Do("claim", b) \o t) = t
        BY DoIs DEF Starts
      <3> QED BY <1>4, <2>2, <2>4, <3>1, <3>2 DEF IsClaim
    <2>6. RunnerAt(r, st)
      BY <1>3, <2>1, <2>5 DEF RunnerAt, Point, AtLoop
    <2> QED BY <1>2, <1>5, <2>4, <2>6, LandsSame
  <1>7. CASE ~ClaimableBatch(r, b)
    <2>1. Becomes(r, Then(r, <<>>))
      BY <1>3, <1>7 DEF Check
    <2>2. <<>> \in Seq(Steps)
      BY EmptySeq
    <2>3. PICK st \in States : Becomes(r, st) /\ st.todo = Tail(proc[r].todo) /\ st.up = proc[r].up
      BY <1>1, <2>1, <2>2, Replaced
    <2>4. RunnerAt(r, st)
      BY <1>3, <1>4, <2>3 DEF RunnerAt, Between
    <2> QED BY <1>2, <1>5, <2>3, <2>4, LandsSame
  <1> QED BY <1>6, <1>7

LEMMA ClaimIs ==
    ASSUME NEW b \in Batches, NEW s \in Seq(Steps), CheckRest(s)
    PROVE  /\ SetExec(b, "running") \o Do("spawn", b) \in Seq(Steps)
           /\ IsClaimed((SetExec(b, "running") \o Do("spawn", b)) \o s, b)
  <1>1. PICK d \in Seq(Steps) : d = Do("spawn", b)
    BY DoIs DEF Starts
  <1>2. PICK ds \in Seq(Steps) : ds = d \o s /\ IsSpawn(ds, b)
    <2>1. First(Do("spawn", b) \o s, "spawn", b) /\ Tail(Do("spawn", b) \o s) = s /\ Do("spawn", b) \o s \in Seq(Steps)
      BY DoIs DEF Starts
    <2> QED BY <1>1, <2>1 DEF IsSpawn
  <1>3. SetExec(b, "running") \in Seq(Steps) /\ IsClaimed(SetExec(b, "running") \o ds, b)
    BY <1>2, SetExecIs DEF IsClaimed, IsRunning
  <1>4. PICK x \in Seq(Steps) : x = SetExec(b, "running")
    BY <1>3
  <1>5. (x \o d) \o s = x \o ds
    BY <1>2, Regrouped, SMTT(40) DEF Regroups
  <1>6. x \o d \in Seq(Steps)
    BY Joined
  <1> QED BY <1>1, <1>3, <1>4, <1>5, <1>6

LEMMA ClaimRuns == ASSUME WholeInv, RunInv, NEW r \in Runners, Claim(r) PROVE RunInv'
  <1>1. At(r, "claim")
    BY DEF Claim
  <1>2. /\ r \in Up /\ proc[r].up \in {"up", "stop"} /\ proc[r].todo \in Seq(Steps) /\ Tail(proc[r].todo) \in Seq(Steps)
    BY <1>1, OnLoop
  <1>3. PICK b \in Batches : b = On(r) /\ IsClaim(proc[r].todo, b) /\ Free(b) /\ \A c \in Batches \ {b} : Resting(c)
    BY <1>1, OnLoop
  <1>4. CheckRest(Tail(proc[r].todo))
    BY <1>3 DEF IsClaim
  <1>5. deploy' = deploy /\ \A c \in Batches : Same(c)
    BY DEF Claim, Same
  <1>6. CASE ~HeldByOther(lease[b], r)
    <2>1. PICK steps \in Seq(Steps) : steps = SetExec(b, "running") \o Do("spawn", b) /\ IsClaimed(steps \o Tail(proc[r].todo), b)
      BY <1>2, <1>4, ClaimIs
    <2>2. Becomes(r, Then(r, steps))
      BY <1>3, <1>6, <2>1 DEF Claim
    <2>3. PICK st \in States : Becomes(r, st) /\ st.todo = steps \o Tail(proc[r].todo) /\ st.up = proc[r].up
      BY <1>1, <2>2, Replaced
    <2>4. RunnerAt(r, st)
      BY <1>3, <2>1, <2>3 DEF RunnerAt, Point, AtGetExec
    <2> QED BY <1>2, <1>5, <2>3, <2>4, LandsSame
  <1>7. CASE HeldByOther(lease[b], r)
    <2>1. Becomes(r, Then(r, <<>>))
      BY <1>3, <1>7 DEF Claim
    <2>2. <<>> \in Seq(Steps)
      BY EmptySeq
    <2>3. PICK st \in States : Becomes(r, st) /\ st.todo = Tail(proc[r].todo) /\ st.up = proc[r].up
      BY <1>1, <2>1, <2>2, Replaced
    <2>4. RunnerAt(r, st)
      BY <1>3, <1>4, <2>3 DEF RunnerAt, Between, Free, Resting
    <2> QED BY <1>2, <1>5, <2>3, <2>4, LandsSame
  <1> QED BY <1>6, <1>7

LEMMA SpawnRuns == ASSUME WholeInv, RunInv, NEW r \in Runners, Spawn(r) PROVE RunInv'
  <1>1. At(r, "spawn")
    BY DEF Spawn
  <1>2. /\ r \in Up /\ proc[r].up \in {"up", "stop"}
        /\ \A q \in Runners \ {r}, c \in Batches : task[q][c].at = "none"
    BY <1>1, OnLoop
  <1>3. PICK b \in Batches : /\ b = On(r) /\ IsSpawn(proc[r].todo, b) /\ Free(b) /\ exec[b].status = "running" /\ exec[b].owner = r
                             /\ \A c \in Batches \ {b} : Resting(c)
    BY <1>1, OnLoop
  <1>4. PICK st \in States : Becomes(r, st) /\ st.todo = Tail(proc[r].todo) /\ st.up = proc[r].up
    BY <1>1, Taking DEF Spawn, Next1
  <1>5. /\ batch' = batch /\ spec' = spec /\ told' = told /\ exec' = exec /\ deploy' = deploy
        /\ \A q \in Runners, c \in Batches : q # r \/ c # b => task'[q][c] = task[q][c]
    BY <1>3 DEF Spawn, WholeInv, Types, storeVars
  <1>6. \A c \in Batches \ {b} : Same(c)
    BY <1>5 DEF Same
  <1>7. told[b] = "none"
    BY <1>3 DEF Free, Live
  <1>8. Live(b)'
    BY <1>2, <1>3, <1>5, <1>7 DEF Free, Live, Open, Crashes
  <1>9. Between(r, st.todo)' /\ Resting(b)'
    BY <1>3, <1>4, <1>8 DEF IsSpawn, Between, Resting
  <1>10. exec[b] # NoExec /\ told'[b] = "none" /\ \A q \in Runners \ {r}, c \in Batches : task'[q][c].at = task[q][c].at
    BY <1>3, <1>5, <1>7 DEF NoExec
  <1> QED BY <1>2, <1>3, <1>4, <1>5, <1>6, <1>9, <1>10, LandsAt

LEMMA LookRuns == ASSUME WholeInv, RunInv, NEW r \in Runners, Look(r) PROVE RunInv'
  <1>1. At(r, "look")
    BY DEF Look
  <1>2. /\ r \in Up /\ proc[r].up \in {"up", "stop"}
        /\ \A q \in Runners \ {r}, c \in Batches : task[q][c].at = "none"
    BY <1>1, OnLoop
  <1>3. PICK b \in Batches : b = On(r) /\ IsLook(proc[r].todo, b) /\ \A c \in Batches : Resting(c)
    BY <1>1, OnLoop
  <1>4. PICK st \in States : Becomes(r, st) /\ st.todo = Tail(proc[r].todo) /\ st.up = proc[r].up
    BY <1>1, Taking DEF Look, Next1
  <1>5. /\ batch' = batch /\ spec' = spec /\ told' = told /\ exec' = exec /\ deploy' = deploy
        /\ \A q \in Runners, c \in Batches : q # r \/ c # b => task'[q][c] = task[q][c]
        /\ task'[r][b].at = task[r][b].at /\ (task[r][b].hit => task'[r][b].hit)
    BY <1>3 DEF Look, WholeInv, Types, TaskStates, storeVars
  <1>6. \A c \in Batches \ {b} : Same(c)
    BY <1>5 DEF Same
  <1>7. /\ \A q \in Runners, c \in Batches : task'[q][c].at = task[q][c].at
        /\ NoTasks(b)' <=> NoTasks(b)
        /\ NoTasks(b) => Same(b)
    BY <1>5 DEF NoTasks, Same
  <1>8. Resting(b)'
    <2>1. New(b) => New(b)'
      BY <1>5, <1>7 DEF New
    <2>2. Live(b) => Live(b)'
      BY <1>5, <1>7 DEF Live, Open, Crashes
    <2>3. Over(b) => Over(b)'
      BY <1>5, <1>7 DEF Over
    <2> QED BY <1>3, <2>1, <2>2, <2>3 DEF Resting
  <1>9. Point(r, b, st)'
    BY <1>3, <1>4, <1>8 DEF IsLook, Point, AtLoop
  <1>10. Same(b) \/ deploy.local \/ (exec[b] # NoExec /\ told'[b] = "none")
    <2>1. CASE exec[b] = NoExec
      BY <1>3, <1>7, <2>1 DEF Resting, New, Live, Over, NoExec, Terminal
    <2>2. CASE exec[b] # NoExec
      BY <1>5, <2>2 DEF RunInv
    <2> QED BY <2>1, <2>2
  <1>11. \A q \in Runners \ {r}, c \in Batches : task'[q][c].at = task[q][c].at
    BY <1>7
  <1> QED BY <1>2, <1>3, <1>4, <1>5, <1>6, <1>9, <1>10, <1>11, LandsAt

LEMMA RenewRuns == ASSUME WholeInv, RunInv, NEW r \in Runners, Renew(r) PROVE RunInv'
  <1>1. At(r, "renew")
    BY DEF Renew
  <1>2. r \in Up /\ proc[r].up \in {"up", "stop"}
    BY <1>1, OnLoop
  <1>3. PICK b \in Batches : IsRenew(proc[r].todo, b) /\ \A c \in Batches : Resting(c)
    BY <1>1, OnLoop
  <1>4. PICK st \in States : Becomes(r, st) /\ st.todo = Tail(proc[r].todo) /\ st.up = proc[r].up
    BY <1>1, Taking DEF Renew, Next1
  <1>5. deploy' = deploy /\ \A c \in Batches : Same(c)
    BY DEF Renew, Same
  <1>6. RunnerAt(r, st)
    BY <1>3, <1>4 DEF IsRenew, RunnerAt, Between
  <1> QED BY <1>2, <1>4, <1>5, <1>6, LandsSame

LEMMA AwaitRuns == ASSUME WholeInv, RunInv, NEW r \in Runners, Await(r) PROVE RunInv'
  <1>1. At(r, "await")
    BY DEF Await
  <1>2. /\ r \in Up /\ proc[r].up \in {"up", "stop"} /\ Now(r) = Head(proc[r].todo)
        /\ \A q \in Runners \ {r}, c \in Batches : task[q][c].at = "none"
    BY <1>1, Current DEF Now
  <1>3. PICK b \in Batches : b = On(r) /\ AtTask(r, b, proc[r].todo) /\ \A c \in Batches \ {b} : Resting(c)
    BY <1>1, AtOp
  <1>4. PICK st \in States : Becomes(r, st) /\ st.todo = Tail(proc[r].todo) /\ st.up = proc[r].up
    BY <1>1, Taking DEF Await, Next1
  <1>5. PICK at \in {"content", "gather", "upOut", "upErr"} : IsAwait(proc[r].todo, b, at) /\ Working(r, b)
    BY <1>1, <1>3, BeginsIs DEF AtTask, At
  <1>6. st.todo = <<>> /\ Now(r).arg = at
    BY <1>2, <1>4, <1>5, BeginsIs DEF IsAwait, Ends
  <1>7. /\ batch' = batch /\ spec' = spec /\ told' = told /\ exec' = exec /\ deploy' = deploy
        /\ \A q \in Runners, c \in Batches : q # r \/ c # b => task'[q][c] = task[q][c]
    BY <1>3 DEF Await, WholeInv, Types, storeVars
  <1>8. \A c \in Batches \ {b} : Same(c)
    BY <1>7 DEF Same
  <1>9. told[b] = "none" /\ Live(b) /\ exec[b].status = "running" /\ exec[b].owner = r
    BY <1>5 DEF Working, Live
  <1>10. Live(b)'
    BY <1>2, <1>7, <1>9 DEF Live, Open, Crashes
  <1>11. Between(r, st.todo)' /\ Resting(b)'
    BY <1>6, <1>10 DEF CheckRest, Between, Resting
  <1>12. exec[b] # NoExec /\ told'[b] = "none" /\ \A q \in Runners \ {r}, c \in Batches : task'[q][c].at = task[q][c].at
    BY <1>7, <1>9 DEF NoExec
  <1> QED BY <1>2, <1>3, <1>4, <1>7, <1>8, <1>11, <1>12, LandsAt

LEMMA GetSpecRuns == ASSUME WholeInv, RunInv, NEW r \in Runners, GetSpec(r) PROVE RunInv'
  <1>1. At(r, "getSpec")
    BY DEF GetSpec
  <1>2. r \in Up /\ proc[r].up \in {"up", "stop"}
    BY <1>1, Current
  <1>3. PICK b \in Batches : b = On(r) /\ AtTask(r, b, proc[r].todo) /\ \A c \in Batches \ {b} : Resting(c)
    BY <1>1, AtOp
  <1>4. Working(r, b) /\ Tail(proc[r].todo) = <<>>
    BY <1>1, <1>3, BeginsIs DEF AtTask, At, IsAwait, Ends
  <1>5. spec[b]
    BY <1>4 DEF Working, Live
  <1>6. PICK steps \in Seq(Steps) : steps = <<Step("await", b, "content")>> /\ IsAwait(steps, b, "content")
    <2>1. Step("await", b, "content") \in Steps
      BY StepsAre
    <2> QED BY <2>1, StepBefore DEF IsAwait
  <1>7. Becomes(r, Then(r, steps))
    BY <1>3, <1>5, <1>6 DEF GetSpec
  <1>8. PICK st \in States : Becomes(r, st) /\ st.todo = steps /\ st.up = proc[r].up
    BY <1>1, <1>4, <1>7, Replaced
  <1>9. deploy' = deploy /\ \A c \in Batches : Same(c)
    BY DEF GetSpec, Same, storeVars
  <1>10. RunnerAt(r, st)
    BY <1>3, <1>4, <1>6, <1>8 DEF RunnerAt, Point, AtTask
  <1> QED BY <1>2, <1>8, <1>9, <1>10, LandsSame

LEMMA ReleaseOwnedRuns == ASSUME WholeInv, RunInv, NEW r \in Runners, ReleaseOwned(r) PROVE RunInv'
  <1>1. Idle(r) /\ Taskless(r)
    BY DEF ReleaseOwned, Tasks, Taskless
  <1>2. /\ r \in Up /\ proc[r].up \in {"up", "stop"} /\ \A c \in Batches : Resting(c)
    BY <1>1, Resumed
  <1>3. PICK d \in Seq(Steps) : d = Do("down", None) /\ IsDown(d)
    BY LoopDoIs DEF IsDown
  <1>4. PICK steps \in Seq(Steps) : steps = Do("owned", None) \o d /\ IsOwned(steps)
    BY <1>3, LoopDoIs DEF IsOwned
  <1>5. Runs(r, steps)
    BY <1>3, <1>4 DEF ReleaseOwned
  <1>6. PICK st \in States : Becomes(r, st) /\ st.todo = steps /\ st.up = proc[r].up
    BY <1>5, Started, FreshTyped DEF States
  <1>7. deploy' = deploy /\ \A c \in Batches : Same(c)
    BY DEF ReleaseOwned, Same, storeVars
  <1>8. RunnerAt(r, st)
    BY <1>1, <1>2, <1>4, <1>6 DEF RunnerAt, Between
  <1> QED BY <1>2, <1>6, <1>7, <1>8, LandsSame

LEMMA ListOwnedRuns == ASSUME WholeInv, RunInv, NEW r \in Runners, ListOwned(r) PROVE RunInv'
  <1> DEFINE pairs == {<<b, exec[b].cancel>> : b \in {c \in Batches : exec[c].owner = r /\ exec[c].status = "running"}}
  <1>1. At(r, "owned") /\ Becomes(r, Then(r, Each("giveUp", pairs)))
    BY DEF ListOwned
  <1>2. /\ r \in Up /\ proc[r].up \in {"up", "stop"} /\ \A c \in Batches : Resting(c)
        /\ Taskless(r) /\ IsDown(Tail(proc[r].todo))
    BY <1>1, BetweenBatches
  <1>3. \A q \in Runners, c \in Batches : task[q][c].at = "none"
    BY <1>2, Alone DEF Taskless
  <1>4. \A c \in Batches : exec[c].cancel \in BOOLEAN
    BY DEF WholeInv, Types, Execution
  <1>5. ASSUME NEW c \in Batches, exec[c].owner = r, exec[c].status = "running" PROVE Owned(r, c, exec[c].cancel)
    BY <1>2, <1>3, <1>5 DEF Resting, New, NoExec, Over, Terminal, Owned, NoTasks
  <1>6. pairs \in SUBSET (Batches \X BOOLEAN) /\ \A pair \in pairs : Owned(r, pair[1], pair[2])
    BY <1>4, <1>5
  <1> HIDE DEF pairs
  <1>7. PICK t \in Seq(Steps) : t = Tail(proc[r].todo)
    BY <1>1, BetweenBatches
  <1>8. PICK steps \in Seq(Steps) : steps = Each("giveUp", pairs)
    BY <1>6, EachIs DEF JobOver
  <1>9. PICK st \in States : Becomes(r, st) /\ st.todo = steps \o t /\ st.up = proc[r].up
    BY <1>1, <1>7, <1>8, Replaced
  <1>10. EachOf(steps \o t, "giveUp") /\ Head(steps \o t).over = pairs /\ Tail(steps \o t) = t
    BY <1>6, <1>8, EachIs DEF JobOver
  <1>11. GiveAll(r, st.todo)
    BY <1>2, <1>6, <1>7, <1>9, <1>10 DEF GiveAll, Pairs
  <1>12. deploy' = deploy /\ \A c \in Batches : Same(c)
    BY DEF ListOwned, Same, storeVars
  <1>13. RunnerAt(r, st)
    BY <1>2, <1>11 DEF RunnerAt, Between
  <1> QED BY <1>2, <1>9, <1>12, <1>13, LandsSame

-----------------------------------------------------------------------------
(* A batch's task. *)

LEMMA TaskAt ==
    ASSUME WholeInv, RunInv, NEW r \in Runners, NEW b \in Batches, Idle(r), task[r][b].at # "none"
    PROVE  /\ r \in Up /\ proc[r].up \in {"up", "stop"} /\ proc[r].todo = <<>> /\ \A c \in Batches : Resting(c)
           /\ \A q \in Runners \ {r}, c \in Batches : task[q][c].at = "none"
           /\ Live(b) /\ exec[b].status = "running" /\ exec[b].owner = r
           /\ ~task[r][b].hit => Working(r, b)
  <1>1. /\ r \in Up /\ proc[r].up \in {"up", "stop"} /\ proc[r].todo = <<>> /\ \A c \in Batches : Resting(c)
        /\ \A q \in Runners \ {r}, c \in Batches : task[q][c].at = "none"
    BY Resumed
  <1>2. Live(b)
    BY <1>1 DEF Resting, New, Over, NoTasks
  <1> QED BY <1>1, <1>2 DEF Live, Working

\* A task that goes on from where it is suspended.
LEMMA GoesOn ==
    ASSUME WholeInv, RunInv, NEW r \in Runners, NEW b \in Batches, Idle(r), task[r][b].at # "none",
           NEW st \in States, Becomes(r, st), st.up = proc[r].up, deploy' = deploy, \A c \in Batches : Same(c), Point(r, b, st)
    PROVE  RunInv'
  <1>1. r \in Up /\ st.up \in {"up", "stop"} /\ RunnerAt(r, st)
    BY TaskAt DEF RunnerAt
  <1> QED BY <1>1, LandsSame

LEMMA BeginRuns == ASSUME WholeInv, RunInv, NEW r \in Runners, NEW b \in Batches, Begin(r, b) PROVE RunInv'
  <1>1. Idle(r) /\ task[r][b].at # "none" /\ Working(r, b) /\ Runs(r, Do("getSpec", b))
    BY TaskAt DEF Begin, Resumes
  <1>2. PICK steps \in Seq(Steps) : steps = Do("getSpec", b) /\ Ends(steps, Step("getSpec", b, "none"))
    BY DoIs DEF Starts
  <1>3. PICK st \in States : Becomes(r, st) /\ st.todo = steps /\ st.up = proc[r].up
    BY <1>1, <1>2, Started, FreshTyped DEF States
  <1>4. Point(r, b, st)
    BY <1>1, <1>2, <1>3 DEF Point, AtTask
  <1>5. deploy' = deploy /\ \A c \in Batches : Same(c)
    BY DEF Begin, Same, storeVars
  <1> QED BY <1>1, <1>3, <1>4, <1>5, GoesOn

LEMMA ContentRuns == ASSUME WholeInv, RunInv, NEW r \in Runners, NEW b \in Batches, Content(r, b) PROVE RunInv'
  <1>1. Idle(r) /\ task[r][b].at # "none" /\ Working(r, b)
    BY TaskAt DEF Content, Resumes
  <1>2. PICK w \in Seq(Steps) : w = <<Step("await", b, "gather")>> /\ IsAwait(w, b, "gather")
    <2>1. Step("await", b, "gather") \in Steps
      BY StepsAre
    <2> QED BY <2>1, StepBefore DEF IsAwait
  <1>3. PICK steps \in Seq(Steps) : steps = Mark(b, "in_progress") \o w /\ IsGo(steps, b)
    BY <1>2, MarkIs DEF IsGo, IsGoing
  <1>4. Runs(r, steps)
    BY <1>2, <1>3 DEF Content
  <1>5. PICK st \in States : Becomes(r, st) /\ st.todo = steps /\ st.up = proc[r].up
    BY <1>4, Started, FreshTyped DEF States
  <1>6. Point(r, b, st)
    BY <1>1, <1>3, <1>5 DEF Point, AtRead
  <1>7. deploy' = deploy /\ \A c \in Batches : Same(c)
    BY DEF Content, Same, storeVars
  <1> QED BY <1>1, <1>5, <1>6, <1>7, GoesOn

LEMMA FailsRuns == ASSUME WholeInv, RunInv, NEW r \in Runners, NEW b \in Batches, Fails(r, b) PROVE RunInv'
  <1>1. Idle(r) /\ task[r][b].at # "none" /\ Working(r, b) /\ Runs(r, Failure(b))
    BY TaskAt DEF Fails, Resumes
  <1>2. PICK steps \in Seq(Steps) : steps = Failure(b) /\ IsFailure(steps, b)
    BY FailureRead
  <1>3. PICK st \in States : Becomes(r, st) /\ st.todo = steps /\ st.up = proc[r].up
    BY <1>1, <1>2, Started, FreshTyped DEF States
  <1>4. Point(r, b, st)
    BY <1>1, <1>2, <1>3 DEF Point, AtRead
  <1>5. deploy' = deploy /\ \A c \in Batches : Same(c)
    BY DEF Fails, Same, storeVars
  <1> QED BY <1>1, <1>3, <1>4, <1>5, GoesOn

LEMMA CancelledRuns == ASSUME WholeInv, RunInv, NEW r \in Runners, NEW b \in Batches, Cancelled(r, b) PROVE RunInv'
  <1>1. Idle(r) /\ task[r][b].at # "none" /\ Live(b) /\ exec[b].status = "running" /\ exec[b].owner = r
          /\ \A q \in Runners \ {r}, c \in Batches : task[q][c].at = "none"
    BY TaskAt DEF Cancelled
  <1>2. deploy' = deploy /\ \A c \in Batches : Same(c)
    BY DEF Cancelled, Same, storeVars
  <1>3. CASE proc[r].up = "stop"
    <2>1. PICK steps \in Seq(Steps) : steps = Do("release", b) /\ IsRelease(steps, b)
      BY DoIs DEF IsRelease, Starts
    <2>2. Runs(r, steps)
      BY <1>3, <2>1 DEF Cancelled, Cancellation
    <2>3. PICK st \in States : Becomes(r, st) /\ st.todo = steps /\ st.up = proc[r].up
      BY <2>2, Started, FreshTyped DEF States
    <2>4. Point(r, b, st)
      BY <1>1, <2>1, <2>3 DEF Point, AtRelease
    <2> QED BY <1>1, <1>2, <2>3, <2>4, GoesOn
  <1>4. CASE proc[r].up # "stop"
    <2>1. PICK f \in Seq(Steps) : f = Finish(b, "cancelled") /\ IsFinish(f, b, "cancelled")
      BY FinishIs DEF Terminal
    <2>2. PICK steps \in Seq(Steps) : steps = Mark(b, "cancelled") \o f /\ IsMark(steps, b, "cancelled")
      BY <2>1, MarkIs DEF IsMark, IsWrite, Terminal
    <2>3. Runs(r, steps)
      BY <1>4, <2>1, <2>2 DEF Cancelled, Cancellation
    <2>4. PICK st \in States : Becomes(r, st) /\ st.todo = steps /\ st.up = proc[r].up
      BY <2>3, Started, FreshTyped DEF States
    <2>5. Storing(r, b, "cancelled") /\ Open(b)
      BY <1>1 DEF Live, Storing, Terminal
    <2>6. "cancelled" \in Terminal
      BY DEF Terminal
    <2>7. Point(r, b, st)
      BY <2>2, <2>4, <2>5, <2>6 DEF Point, AtRead
    <2> QED BY <1>1, <1>2, <2>4, <2>7, GoesOn
  <1> QED BY <1>3, <1>4

LEMMA GatheredRuns == ASSUME WholeInv, RunInv, NEW r \in Runners, NEW b \in Batches, Gathered(r, b) PROVE RunInv'
  <1> DEFINE obj == [task[r][b].obj EXCEPT !.ok = task[r][b].ok, !.bad = task[r][b].bad]
  <1>1. Idle(r) /\ task[r][b].at # "none" /\ Working(r, b)
    BY TaskAt DEF Gathered, Resumes
  <1>2. obj \in Batch
    BY TaskOf, ZenonT(60) DEF TaskStates, Batch
  <1>3. PICK steps \in Seq(Steps) : steps = <<Step("write", b, "finalizing"), Step("await", b, "upOut")>> /\ IsCounting(steps, b)
    <2>1. Step("write", b, "finalizing") \in Steps /\ Step("await", b, "upOut") \in Steps
      BY StepsAre
    <2> QED BY <2>1, TwoSteps DEF IsCounting, IsAwait, Begins
  <1>4. Holding(r, obj, steps)
    BY <1>3 DEF Gathered
  <1> HIDE DEF obj
  <1>5. PICK st \in States : Becomes(r, st) /\ st.todo = steps /\ st.up = proc[r].up
    BY <1>2, <1>4, Started
  <1>6. Point(r, b, st)
    BY <1>1, <1>3, <1>5 DEF Point, AtWrite
  <1>7. deploy' = deploy /\ \A c \in Batches : Same(c)
    BY DEF Gathered, Same, storeVars
  <1> QED BY <1>1, <1>5, <1>6, <1>7, GoesOn

LEMMA UploadedRuns == ASSUME WholeInv, RunInv, NEW r \in Runners, NEW b \in Batches, Uploaded(r, b) PROVE RunInv'
  <1> DEFINE at == task[r][b].at
             obj == IF at = "upOut" THEN [task[r][b].obj EXCEPT !.out = r] ELSE [task[r][b].obj EXCEPT !.err = r]
             more == at = "upOut" /\ task[r][b].bad > 0
  <1>1. Idle(r) /\ task[r][b].at # "none" /\ Working(r, b)
    BY TaskAt DEF Uploaded, Resumes
  <1>2. obj \in Batch
    BY TaskOf DEF TaskStates, Batch
  <1>3. deploy' = deploy /\ \A c \in Batches : Same(c)
    BY DEF Uploaded, Same
  <1>4. CASE more
    <2>1. PICK steps \in Seq(Steps) : steps = <<Step("await", b, "upErr")>> /\ IsAwait(steps, b, "upErr")
      <3>1. Step("await", b, "upErr") \in Steps
        BY StepsAre
      <3> QED BY <3>1, StepBefore DEF IsAwait
    <2>2. Holding(r, obj, steps)
      BY <1>4, <2>1 DEF Uploaded
    <2> HIDE DEF obj
    <2>3. PICK st \in States : Becomes(r, st) /\ st.todo = steps /\ st.up = proc[r].up
      BY <1>2, <2>2, Started
    <2>4. Point(r, b, st)
      BY <1>1, <2>1, <2>3 DEF Point, AtTask
    <2> QED BY <1>1, <1>3, <2>3, <2>4, GoesOn
  <1>5. CASE ~more
    <2>1. PICK f \in Seq(Steps) : f = Finish(b, "completed") /\ IsFinish(f, b, "completed")
      BY FinishIs DEF Terminal
    <2>2. PICK steps \in Seq(Steps) : steps = <<Step("write", b, "completed")>> \o f /\ IsWrite(steps, b, "completed")
      <3>1. Step("write", b, "completed") \in Steps
        BY StepsAre DEF Terminal
      <3> QED BY <2>1, <3>1, StepBefore DEF IsWrite
    <2>3. Holding(r, obj, steps)
      BY <1>5, <2>1, <2>2 DEF Uploaded
    <2> HIDE DEF obj
    <2>4. PICK st \in States : Becomes(r, st) /\ st.todo = steps /\ st.up = proc[r].up
      BY <1>2, <2>3, Started
    <2>5. \A q \in Runners \ {r}, c \in Batches : task[q][c].at = "none"
      BY <1>1, TaskAt
    <2>6. Storing(r, b, "completed") /\ Open(b) /\ "completed" \in Terminal
      BY <1>1, <2>5 DEF Working, Live, Storing, Terminal
    <2>7. Point(r, b, st)
      BY <2>2, <2>4, <2>6 DEF Point, AtWrite
    <2> QED BY <1>1, <1>3, <2>4, <2>7, GoesOn
  <1> QED BY <1>4, <1>5

\* A step in which the process itself stays as it is.
LEMMA StandsAt ==
    ASSUME WholeInv, NEW r \in Runners, proc' = proc
    PROVE  proc[r] \in States /\ Becomes(r, proc[r])
  <1>1. proc \in [Processes -> States] /\ r \in Processes
    BY RunnersRun DEF WholeInv, Types
  <1>2. [proc EXCEPT ![r] = proc[r]] = proc
    BY <1>1
  <1> QED BY <1>1, <1>2 DEF Becomes

LEMMA LineRuns ==
    ASSUME WholeInv, RunInv, NEW r \in Runners, NEW b \in Batches, NEW ok \in BOOLEAN, LineDone(r, b, ok)
    PROVE  RunInv'
  <1>1. Idle(r) /\ task[r][b].at # "none" /\ proc' = proc /\ deploy' = deploy
    BY DEF LineDone, Resumes
  <1>2. /\ r \in Up /\ proc[r].up \in {"up", "stop"} /\ proc[r].todo = <<>> /\ \A c \in Batches : Resting(c)
    BY <1>1, TaskAt
  <1>3. \A q \in Runners, c \in Batches : task'[q][c].at = task[q][c].at /\ task'[q][c].hit = task[q][c].hit
    BY DEF LineDone, WholeInv, Types, TaskStates
  <1>4. \A c \in Batches : Same(c)
    BY <1>3 DEF LineDone, Same, storeVars
  <1>5. PICK st \in States : st = proc[r] /\ Becomes(r, st)
    BY <1>1, StandsAt
  <1>6. RunnerAt(r, st)
    BY <1>2, <1>5 DEF RunnerAt, Between, CheckRest
  <1> QED BY <1>1, <1>2, <1>4, <1>5, <1>6, LandsSame

LEMMA DropRunsUnstarted == ASSUME WholeInv, RunInv, NEW r \in Runners, NEW b \in Batches, DropUnstarted(r, b) PROVE RunInv'
  <1>1. Idle(r) /\ task[r][b].at # "none" /\ proc' = proc /\ deploy' = deploy
    BY DEF DropUnstarted
  <1>2. /\ r \in Up /\ proc[r].up \in {"up", "stop"} /\ proc[r].todo = <<>> /\ \A c \in Batches : Resting(c)
        /\ Live(b) /\ \A q \in Runners \ {r}, c \in Batches : task[q][c].at = "none"
    BY <1>1, TaskAt
  <1>3. /\ batch' = batch /\ spec' = spec /\ told' = told /\ exec' = exec
        /\ \A q \in Runners, c \in Batches : q # r \/ c # b => task'[q][c] = task[q][c]
        /\ task'[r][b].at = "none"
    BY NoTaskIs DEF DropUnstarted, WholeInv, Types, storeVars
  <1>4. \A c \in Batches \ {b} : Same(c)
    BY <1>1, <1>3 DEF Same
  <1>5. Live(b)'
    BY <1>1, <1>2, <1>3 DEF Live, Open, Crashes
  <1>6. PICK st \in States : st = proc[r] /\ Becomes(r, st)
    BY <1>1, StandsAt
  <1>7. Between(r, st.todo)' /\ Resting(b)'
    BY <1>2, <1>5, <1>6 DEF Between, CheckRest, Resting
  <1>8. deploy.local \/ (exec[b] # NoExec /\ told'[b] = "none")
    BY <1>2, <1>3 DEF Live, NoExec, RunInv
  <1>9. \A q \in Runners \ {r}, c \in Batches : task'[q][c].at = task[q][c].at
    BY <1>3
  <1> QED BY <1>1, <1>2, <1>4, <1>6, <1>7, <1>8, <1>9, LandsAt

-----------------------------------------------------------------------------
(* Starting, stopping and dying. *)

LEMMA StopRuns == ASSUME WholeInv, RunInv, NEW r \in Runners, Stop(r) PROVE RunInv'
  <1>1. Idle(r) /\ deploy' = deploy
    BY DEF Stop
  <1>2. /\ r \in Up /\ proc[r].todo = <<>> /\ \A c \in Batches : Resting(c)
        /\ \A q \in Runners \ {r}, c \in Batches : task[q][c].at = "none"
    BY <1>1, Resumed
  <1>3. PICK st \in States : Becomes(r, st) /\ st.up = "stop" /\ st.todo = <<>>
    <2>1. [proc[r] EXCEPT !.up = "stop"] \in States /\ [proc[r] EXCEPT !.up = "stop"].up = "stop"
            /\ [proc[r] EXCEPT !.up = "stop"].todo = proc[r].todo
      BY RunnersRun DEF WholeInv, Types, States
    <2> QED BY <1>2, <2>1 DEF Stop, Becomes
  <1>4. /\ batch' = batch /\ spec' = spec /\ told' = told /\ exec' = exec
        /\ \A q \in Runners \ {r}, c \in Batches : task'[q][c] = task[q][c]
    BY DEF Stop, WholeInv, Types, storeVars
  <1>5. \A c \in Batches : task'[r][c].at = task[r][c].at /\ (task[r][c].at # "none" => task'[r][c].hit)
    <2>1. ASSUME NEW c \in Batches, task[r][c].at = "none" PROVE task'[r][c].at = "none"
      BY <2>1, NoTaskIs DEF Stop, Tasks, WholeInv, Types
    <2>2. ASSUME NEW c \in Batches, task[r][c].at # "none" PROVE task'[r][c].at = task[r][c].at /\ task'[r][c].hit
      BY <2>2, TaskOf DEF Stop, Tasks, WholeInv, Types, TaskStates
    <2> QED BY <2>1, <2>2
  <1>6. ASSUME NEW c \in Batches PROVE Resting(c)' /\ (NoTasks(c) => Same(c))
    <2>1. NoTasks(c)' <=> NoTasks(c)
      BY <1>4, <1>5 DEF NoTasks
    <2>2. New(c) => New(c)'
      BY <1>1, <1>4, <2>1 DEF New
    <2>3. Live(c) => Live(c)'
      BY <1>1, <1>2, <1>4, <1>5 DEF Live, Open, Crashes
    <2>4. Over(c) => Over(c)'
      BY <1>4, <2>1 DEF Over
    <2>5. NoTasks(c) => Same(c)
      BY <1>1, <1>4, <1>5 DEF NoTasks, Same
    <2> QED BY <1>2, <2>2, <2>3, <2>4, <2>5 DEF Resting
  <1>7. \A c \in Batches : Same(c) \/ deploy.local \/ exec[c] # NoExec
    BY <1>2, <1>6 DEF Resting, New, Live, Over, NoExec, Terminal
  <1>8. \A c \in Batches : Same(c) \/ deploy.local \/ told'[c] = "none"
    BY <1>4 DEF RunInv
  <1>9. RunnerAt(r, st)'
    BY <1>3, <1>6 DEF RunnerAt, Between, CheckRest
  <1>10. \A q \in Runners \ {r}, c \in Batches : task'[q][c].at = task[q][c].at
    BY <1>4
  <1> QED BY <1>1, <1>2, <1>3, <1>7, <1>8, <1>9, <1>10, Lands

\* A runner that leaves, once every batch is at rest.
LEMMA Leaves ==
    ASSUME WholeInv, RunInv, NEW r \in Up, NEW st \in States, Becomes(r, st), st.up = "down", st.todo = <<>>, deploy' = deploy,
           \A b \in Batches : Same(b) \/ deploy.local \/ exec[b] # NoExec,
           \A b \in Batches : told'[b] = told[b],
           \A q \in Runners \ {r}, b \in Batches : task'[q][b].at = task[q][b].at,
           Taskless(r)', \A b \in Batches : Resting(b)'
    PROVE  RunInv'
  <1>1. r \in Runners /\ r \in Processes
    BY RunnersRun DEF Up
  <1>2. proc'[r] = st /\ \A q \in Processes \ {r} : proc'[q] = proc[q]
    BY <1>1, Stating DEF WholeInv
  <1>3. Workers \cap Runners = {} /\ Workers \subseteq Processes /\ Runners \subseteq Processes
    BY BatchAssumption DEF Processes
  <1>4. Up' = {}
    BY <1>1, <1>2, <1>3, Alone DEF Up
  <1>5. \A q \in Runners : proc'[q].todo = <<>> /\ Taskless(q)'
    BY <1>2, <1>3, Alone DEF Taskless
  <1>6. /\ \A w \in Workers : WorkerAt(proc[w].todo)'
        /\ \A v, w \in Workers, b \in Batches :
                 (Creating(proc[v].todo, b) /\ Creating(proc[w].todo, b) => v = w)'
    BY <1>1, <1>2, <1>3, WorkersStay
  <1>7. ~deploy'.local => \A b \in Batches : told'[b] = "none"
    BY DEF RunInv
  <1> QED BY <1>4, <1>5, <1>6, <1>7 DEF RunInv

LEMMA Gone ==
    /\ [Fresh EXCEPT !.up = "down"] \in States /\ [Fresh EXCEPT !.up = "down"].up = "down"
    /\ [Fresh EXCEPT !.up = "down"].todo = <<>>
  BY FreshTyped DEF States

LEMMA DownRuns == ASSUME WholeInv, RunInv, NEW r \in Runners, Down(r) PROVE RunInv'
  <1>1. At(r, "down")
    BY DEF Down
  <1>2. r \in Up /\ Taskless(r) /\ \A c \in Batches : Resting(c)
    BY <1>1, BetweenBatches
  <1>3. PICK st \in States : Becomes(r, st) /\ st.up = "down" /\ st.todo = <<>>
    BY Gone DEF Down
  <1>4. deploy' = deploy /\ told' = told /\ task' = task /\ \A c \in Batches : Same(c)
    BY DEF Down, Same, storeVars
  <1>5. Taskless(r)' /\ \A c \in Batches : Resting(c)'
    BY <1>2, <1>4, StaysSo DEF Taskless
  <1> QED BY <1>2, <1>3, <1>4, <1>5, Leaves

\* Where the runner is killed, what it leaves is at rest: it shares no process with the
\* handlers and nobody cancels.
LEMMA LeftAtRest ==
    ASSUME NEW r \in Runners, NEW b \in Batches, ~deploy.local, Crashes, told[b] = "none",
           deploy' = deploy, batch' = batch, spec' = spec, told' = told, exec' = exec, NoTasks(b)',
           Resting(b) \/ \E p : Point(r, b, p)
    PROVE  Resting(b)' /\ (exec[b] = NoExec => NoTasks(b))
  <1>1. Resting(b) => Resting(b)'
    BY DEF Resting, New, Live, Over, NoTasks, Open, Crashes
  <1>2. Live(b) => Live(b)'
    BY DEF Live, NoTasks, Open, Crashes
  <1>3. \A st : Storing(r, b, st) => Live(b)'
    BY DEF Storing, Live, NoTasks, Open, Crashes
  <1>4. Stored(r, b) => Over(b)'
    BY DEF Stored, Over
  <1>5. ASSUME NEW p, Point(r, b, p)
        PROVE Resting(b) \/ Live(b) \/ (\E st : Storing(r, b, st)) \/ Stored(r, b)
    <2>1. /\ \A q \in Runners : Working(q, b) => Live(b)
          /\ \A flag : Owned(r, b, flag) => Live(b)
          /\ (Free(b) => Live(b)) /\ ~GivingUp(b)
      BY DEF Working, Owned, Free, GivingUp
    <2>2. AtRead(r, b, p.todo) => Live(b) \/ \E st : Storing(r, b, st)
      BY <2>1 DEF AtRead
    <2>3. AtWrite(r, b, p.todo, p.obj) => Live(b) \/ \E st : Storing(r, b, st)
      BY <2>1 DEF AtWrite
    <2>4. AtGetExec(r, b, p.todo) => Live(b) \/ \E st : Storing(r, b, st)
      BY <2>1 DEF AtGetExec
    <2>5. AtSetExec(r, b, p.todo, p.seen) => Live(b) \/ \E st : Storing(r, b, st)
      BY <2>1 DEF AtSetExec
    <2>6. AtDrop(r, b, p.todo) => Stored(r, b)
      BY <2>1 DEF AtDrop
    <2>7. AtRelease(r, b, p.todo) => Stored(r, b) \/ Live(b) \/ Resting(b)
      BY DEF AtRelease
    <2>8. AtTask(r, b, p.todo) => Live(b)
      BY <2>1 DEF AtTask
    <2>9. ~AtHandler(r, b, p.todo)
      BY DEF AtHandler
    <2>10. AtLoop(r, b, p.todo) => Live(b) \/ Resting(b)
      BY <2>1 DEF AtLoop
    <2> QED BY <1>5, <2>2, <2>3, <2>4, <2>5, <2>6, <2>7, <2>8, <2>9, <2>10 DEF Point
  <1>6. Resting(b) \/ Live(b) \/ (\E st : Storing(r, b, st)) \/ Stored(r, b)
    BY <1>5
  <1>7. exec[b] = NoExec => NoTasks(b)
    BY <1>6 DEF Resting, New, Live, Over, Storing, Stored, NoExec, Terminal
  <1> QED BY <1>1, <1>2, <1>3, <1>4, <1>6, <1>7 DEF Resting

LEMMA CrashRuns == ASSUME OneRunner, WholeInv, RunInv, NEW r \in Runners, Crash(r) PROVE RunInv'
  <1>1. r \in Up /\ Crashes /\ ~deploy.local /\ deploy \in Deployments
    BY DEF Crash, Crashes, OneRunner, WholeInv, Types
  <1>2. \A b \in Batches : told[b] = "none"
    BY <1>1 DEF RunInv
  <1>3. PICK st \in States : Becomes(r, st) /\ st.up = "down" /\ st.todo = <<>>
    BY Gone DEF Crash
  <1>4. /\ deploy' = deploy /\ batch' = batch /\ spec' = spec /\ told' = told /\ exec' = exec
        /\ \A q \in Runners \ {r}, c \in Batches : task'[q][c] = task[q][c]
        /\ \A c \in Batches : task'[r][c].at = "none"
    BY NoTaskIs DEF Crash, WholeInv, Types, storeVars
  <1>5. \A q \in Runners, c \in Batches : task'[q][c].at = "none"
    BY <1>1, <1>4, Alone
  <1>6. \A b \in Batches : NoTasks(b)'
    BY <1>5 DEF NoTasks
  <1>7. \A b \in Batches : Resting(b) \/ \E p : Point(r, b, p)
    BY <1>1 DEF RunInv, RunnerAt
  <1>8. \A b \in Batches : Resting(b)' /\ (exec[b] = NoExec => NoTasks(b))
    BY <1>1, <1>2, <1>4, <1>6, <1>7, LeftAtRest
  <1>9. \A b \in Batches : NoTasks(b) => Same(b)
    BY <1>4, <1>5 DEF NoTasks, Same
  <1>10. \A b \in Batches : Same(b) \/ deploy.local \/ exec[b] # NoExec
    BY <1>8, <1>9
  <1>11. Taskless(r)' /\ \A q \in Runners \ {r}, b \in Batches : task'[q][b].at = task[q][b].at
    BY <1>4, <1>5 DEF Taskless
  <1>12. \A b \in Batches : told'[b] = told[b]
    BY <1>4
  <1> QED BY <1>1, <1>3, <1>4, <1>8, <1>10, <1>11, <1>12, Leaves

LEMMA StartRuns == ASSUME OneRunner, WholeInv, RunInv, NEW r \in Runners, Start(r) PROVE RunInv'
  <1>1. Up = {}
    <2>1. ASSUME NEW q \in Up PROVE FALSE
      <3>1. Up = {q}
        BY DEF RunInv
      <3>2. Cardinality({q}) = 1
        BY FS_Singleton
      <3> QED BY <3>1, <3>2 DEF Start, OneRunner
    <2> QED BY <2>1
  <1>2. r \in Processes /\ \A c \in Batches : Resting(c)
    BY <1>1, RunnersRun DEF RunInv
  <1>3. PICK steps \in Seq(Steps) : steps = Do("list", None) /\ IsList(steps)
    BY LoopDoIs DEF IsList
  <1>4. PICK st \in States : Becomes(r, st) /\ st.up = "up" /\ st.todo = steps
    <2>1. [Fresh EXCEPT !.up = "up", !.todo = steps] \in States /\ [Fresh EXCEPT !.up = "up", !.todo = steps].up = "up"
            /\ [Fresh EXCEPT !.up = "up", !.todo = steps].todo = steps
      BY FreshTyped DEF States
    <2> QED BY <1>3, <2>1 DEF Start
  <1>5. proc'[r] = st /\ \A q \in Processes \ {r} : proc'[q] = proc[q]
    BY <1>2, <1>4, Stating DEF WholeInv
  <1>6. Workers \cap Runners = {} /\ Workers \subseteq Processes /\ Runners \subseteq Processes
    BY BatchAssumption DEF Processes
  <1>7. deploy' = deploy /\ told' = told /\ task' = task /\ \A c \in Batches : Same(c)
    BY DEF Start, Same, storeVars
  <1>8. Up' = {r}
    BY <1>1, <1>4, <1>5, <1>6 DEF Up
  <1>9. \A q \in Runners \ {r} : proc'[q].todo = <<>> /\ Taskless(q)'
    BY <1>1, <1>5, <1>6, <1>7 DEF RunInv, Taskless
  <1>10. \A c \in Batches : Resting(c)'
    BY <1>2, <1>7, StaysSo
  <1>11. RunnerAt(r, proc[r])'
    BY <1>3, <1>4, <1>5, <1>10 DEF RunnerAt, Between, LookRest
  <1>12. \A w \in Workers : proc'[w] = proc[w]
    BY <1>2, <1>5, <1>6
  <1>13. /\ \A w \in Workers : WorkerAt(proc[w].todo)'
         /\ \A v, w \in Workers, b \in Batches :
                 (Creating(proc[v].todo, b) /\ Creating(proc[w].todo, b) => v = w)'
    BY <1>7, <1>12, WorkersStay
  <1>14. ~deploy'.local => \A b \in Batches : told'[b] = "none"
    BY <1>7 DEF RunInv
  <1> QED BY <1>8, <1>9, <1>11, <1>13, <1>14 DEF RunInv

-----------------------------------------------------------------------------
(* The workers, which create batches next to a runner that does not know of *)
(* them. *)

\* A batch that is not queued yet is at rest, whatever the runner is at.
LEMMA Unstarted ==
    ASSUME RunInv, ~deploy.local, NEW b \in Batches, exec[b] = NoExec \/ batch[b].status = "none"
    PROVE  New(b)
  <1>1. ASSUME NEW r \in Runners, NEW p, Point(r, b, p) PROVE Resting(b)
    <2>1. ~Live(b) /\ ~Free(b) /\ ~GivingUp(b) /\ (\A flag : ~Owned(r, b, flag)) /\ ~Working(r, b)
      BY DEF Live, Free, GivingUp, Owned, Working, NoExec
    <2>2. (\A st : ~Storing(r, b, st)) /\ ~Stored(r, b)
      BY DEF Storing, Stored, NoExec, Terminal
    <2>3. ~AtRead(r, b, p.todo)
      BY <2>1, <2>2 DEF AtRead
    <2>4. ~AtWrite(r, b, p.todo, p.obj)
      BY <2>1, <2>2 DEF AtWrite
    <2>5. ~AtGetExec(r, b, p.todo)
      BY <2>1, <2>2 DEF AtGetExec
    <2>6. ~AtSetExec(r, b, p.todo, p.seen)
      BY <2>1, <2>2 DEF AtSetExec
    <2>7. ~AtDrop(r, b, p.todo)
      BY <2>1, <2>2 DEF AtDrop
    <2>8. AtRelease(r, b, p.todo) => Resting(b)
      BY <2>1, <2>2 DEF AtRelease
    <2>9. ~AtTask(r, b, p.todo) /\ ~AtHandler(r, b, p.todo)
      BY <2>1, <2>2 DEF AtTask, AtHandler
    <2>10. AtLoop(r, b, p.todo) => Resting(b)
      BY <2>1 DEF AtLoop
    <2> QED BY <1>1, <2>3, <2>4, <2>5, <2>6, <2>7, <2>8, <2>9, <2>10 DEF Point
  <1>2. Resting(b)
    BY <1>1 DEF RunInv, RunnerAt, Up
  <1> QED BY <1>2 DEF Resting, New, Live, Over, NoExec, Terminal

\* A point of a batch that is not queued yet only needs the batch to be at rest.
LEMMA PointOfNew ==
    ASSUME NEW r \in Runners, NEW b \in Batches, ~deploy.local, New(b), Resting(b)', task' = task,
           \A c \in Batches \ {b} : Same(c), NEW p, p.todo \in Seq(Steps), Point(r, b, p)
    PROVE  Point(r, b, p)'
  <1>1. ~Live(b) /\ ~Free(b) /\ ~GivingUp(b) /\ (\A flag : ~Owned(r, b, flag)) /\ ~Working(r, b)
    BY DEF New, Live, Free, GivingUp, Owned, Working, NoExec
  <1>2. (\A st : ~Storing(r, b, st)) /\ ~Stored(r, b)
    BY DEF New, Storing, Stored, NoExec, Terminal
  <1>3. ~AtRead(r, b, p.todo)
    BY <1>1, <1>2 DEF AtRead
  <1>4. ~AtWrite(r, b, p.todo, p.obj)
    BY <1>1, <1>2 DEF AtWrite
  <1>5. ~AtGetExec(r, b, p.todo)
    BY <1>1, <1>2 DEF AtGetExec
  <1>6. ~AtSetExec(r, b, p.todo, p.seen)
    BY <1>1, <1>2 DEF AtSetExec
  <1>7. ~AtDrop(r, b, p.todo)
    BY <1>1, <1>2 DEF AtDrop
  <1>8. ~AtTask(r, b, p.todo) /\ ~AtHandler(r, b, p.todo)
    BY <1>1, <1>2 DEF AtTask, AtHandler
  <1>9. AtRelease(r, b, p.todo) => AtRelease(r, b, p.todo)'
    <2>1. Taskless(r) => Taskless(r)'
      BY DEF Taskless
    <2>2. GiveRelease(r, p.todo, b) => GiveRelease(r, p.todo, b)'
      BY <2>1, GiveSame
    <2> QED BY <1>1, <1>2, <2>2 DEF AtRelease
  <1>10. AtLoop(r, b, p.todo) => AtLoop(r, b, p.todo)'
    BY <1>1 DEF AtLoop
  <1> QED BY <1>3, <1>4, <1>5, <1>6, <1>7, <1>8, <1>9, <1>10 DEF Point

LEMMA WorkerMoves ==
    ASSUME WholeInv, RunInv, NEW w \in Workers, NEW st \in States, Becomes(w, st), ~deploy.local,
           UNCHANGED <<deploy, task, told>>, NEW b \in Batches, New(b), Resting(b)',
           \A c \in Batches \ {b} : Same(c), st.todo = <<>> \/ Creating(st.todo, b)',
           \A v \in Workers \ {w} : ~Creating(proc[v].todo, b)
    PROVE  RunInv'
  <1>1. Workers \cap Runners = {} /\ Workers \subseteq Processes /\ Runners \subseteq Processes /\ w \in Processes
    BY BatchAssumption DEF Processes
  <1>2. proc'[w] = st /\ \A q \in Processes \ {w} : proc'[q] = proc[q]
    BY <1>1, Stating DEF WholeInv
  <1>3. \A r \in Runners : proc'[r] = proc[r]
    BY <1>1, <1>2
  <1>4. Up' = Up
    BY <1>3 DEF Up
  <1>5. \A r \in Runners \ Up : proc'[r].todo = <<>> /\ Taskless(r)'
    BY <1>3 DEF RunInv, Taskless
  <1>6. \A c \in Batches : Resting(c) => Resting(c)'
    BY StaysSo
  <1>7. Up' = {} => \A c \in Batches : Resting(c)'
    BY <1>4, <1>6 DEF RunInv
  <1>8. ASSUME NEW r \in Up PROVE RunnerAt(r, proc[r])'
    <2>1. r \in Runners /\ proc'[r] = proc[r] /\ proc[r].todo \in Seq(Steps)
      BY <1>1, <1>3 DEF Up, WholeInv, Types, States
    <2>2. \A c \in Batches : Same(c) \/ (exec[c] = NoExec /\ task'[r][c].at = task[r][c].at)
      BY DEF New
    <2>3. ASSUME NEW c \in Batches, Point(r, c, proc[r]) PROVE Point(r, c, proc[r])'
      <3>1. PICK p : p = proc[r] /\ p.todo \in Seq(Steps)
        BY <2>1
      <3>2. Point(r, c, p)'
        <4>1. CASE c = b
          BY <2>1, <2>3, <3>1, <4>1, PointOfNew
        <4>2. CASE c # b
          BY <2>1, <2>2, <2>3, <3>1, <4>2, PointStays
        <4> QED BY <4>1, <4>2
      <3> QED BY <2>1, <3>1, <3>2
    <2>4. ASSUME Between(r, proc[r].todo) PROVE Between(r, proc[r].todo)'
      <3>1. PICK s \in Seq(Steps) : s = proc[r].todo
        BY <2>1
      <3>2. EachOf(s, "giveUp") => Head(s).over \in SUBSET (Batches \X BOOLEAN)
        BY Rest, OpOf DEF EachOf
      <3>3. \A c \in Batches, flag \in BOOLEAN : Owned(r, c, flag) => Same(c)
        BY DEF Owned, New, NoExec
      <3>4. GiveAll(r, s) => GiveAll(r, s)'
        BY <2>1, <3>2, <3>3, GiveStays DEF Taskless
      <3>5. Taskless(r) => Taskless(r)'
        BY DEF Taskless
      <3>6. Between(r, s)'
        BY <2>4, <3>1, <3>4, <3>5 DEF Between
      <3> QED BY <2>1, <3>1, <3>6
    <2> QED BY <1>6, <2>3, <2>4 DEF RunInv, RunnerAt
  <1>9. ASSUME NEW v \in Workers \ {w}, NEW c \in Batches, Creating(proc[v].todo, c) PROVE Creating(proc[v].todo, c)'
    <2>1. c # b /\ proc'[v] = proc[v]
      BY <1>1, <1>2, <1>9
    <2>2. Same(c)
      BY <2>1
    <2> QED BY <1>9, <2>1, <2>2 DEF Creating, Same
  <1>10. ASSUME NEW v \in Workers PROVE WorkerAt(proc[v].todo)'
    <2>1. CASE v = w
      BY <1>2, <2>1 DEF WorkerAt
    <2>2. CASE v # w
      <3>1. proc'[v] = proc[v]
        BY <1>1, <1>2, <2>2
      <3> QED BY <1>9, <2>2, <3>1 DEF RunInv, WorkerAt
    <2> QED BY <2>1, <2>2
  <1>11. ASSUME NEW v \in Workers, NEW c \in Batches, Creating(proc[v].todo, c)'
         PROVE  (v = w /\ c = b) \/ (v # w /\ Creating(proc[v].todo, c))
    <2>1. proc'[v].todo # <<>> /\ Head(proc'[v].todo).b = c
      <3>1. \A s : Creating(s, c)' => s # <<>> /\ Head(s).b = c
        BY BeginsIs DEF Creating, IsPut, IsEnqueue, First
      <3> QED BY <1>11, <3>1
    <2>2. CASE v = w
      <3>1. \A s : Creating(s, b)' => s # <<>> /\ Head(s).b = b
        BY BeginsIs DEF Creating, IsPut, IsEnqueue, First
      <3> QED BY <1>2, <2>1, <2>2, <3>1
    <2>3. CASE v # w
      <3>1. proc[v].todo # <<>> /\ Head(proc[v].todo).b = c
        BY <1>1, <1>2, <2>1, <2>3
      <3> QED BY <2>3, <3>1, CreatingIs DEF RunInv, WorkerAt
    <2> QED BY <2>2, <2>3
  <1>12. (\A u, v \in Workers, c \in Batches : Creating(proc[u].todo, c) /\ Creating(proc[v].todo, c) => u = v)'
    BY <1>11 DEF RunInv
  <1>13. ~deploy'.local => \A c \in Batches : told'[c] = "none"
    BY DEF RunInv
  <1> QED BY <1>4, <1>5, <1>7, <1>8, <1>10, <1>12, <1>13 DEF RunInv

LEMMA WorkersAre ==
    ASSUME NEW w \in Workers
    PROVE  w \in Processes /\ w \notin Runners
  BY BatchAssumption DEF Processes

\* The step a worker is at.
LEMMA WorkerStep ==
    ASSUME WholeInv, RunInv, NEW w \in Workers, proc[w].todo # <<>>
    PROVE  /\ ~deploy.local
           /\ \E b \in Batches : /\ b = On(w) /\ Creating(proc[w].todo, b) /\ New(b)
                                 /\ \A v \in Workers \ {w} : ~Creating(proc[v].todo, b)
           /\ Now(w).op \in {"putSpec", "enqueue"}
  <1>1. PICK b \in Batches : ~deploy.local /\ Creating(proc[w].todo, b)
    BY DEF RunInv, WorkerAt
  <1>2. Now(w).op \in {"putSpec", "enqueue"} /\ On(w) = b
    BY <1>1, CreatingIs DEF Now, On
  <1>3. New(b)
    BY <1>1, Unstarted DEF Creating
  <1>4. \A v \in Workers \ {w} : ~Creating(proc[v].todo, b)
    BY <1>1 DEF RunInv
  <1> QED BY <1>1, <1>2, <1>3, <1>4

LEMMA PutIs ==
    ASSUME NEW b \in Batches
    PROVE  Do("putSpec", b) \o Do("enqueue", b) \in Seq(Steps) /\ IsPut(Do("putSpec", b) \o Do("enqueue", b), b)
  <1>1. Do("enqueue", b) \in Seq(Steps) /\ IsEnqueue(Do("enqueue", b), b)
    BY DoIs DEF IsEnqueue, Starts
  <1> DEFINE e == Do("enqueue", b)
  <1> HIDE DEF e
  <1>2. e \in Seq(Steps) /\ IsEnqueue(e, b)
    BY <1>1 DEF e
  <1>3. Do("putSpec", b) \o e \in Seq(Steps) /\ IsPut(Do("putSpec", b) \o e, b)
    BY <1>2, DoIs DEF IsPut, Starts
  <1> QED BY <1>3 DEF e

LEMMA CreateWorks == ASSUME WholeInv, RunInv, NEW w \in Workers, NEW b \in Batches, Create(w, b) PROVE RunInv'
  <1>1. ~deploy.local /\ batch[b].status = "none" /\ proc[w].up = "up"
    BY WorkersAre DEF Create, Serves, NoBatch
  <1>2. New(b)
    BY <1>1, Unstarted
  <1>3. PICK steps \in Seq(Steps) : steps = Do("putSpec", b) \o Do("enqueue", b) /\ IsPut(steps, b)
    BY PutIs
  <1>4. PICK st \in States : Becomes(w, st) /\ st.todo = steps
    <2>1. [Fresh EXCEPT !.up = proc[w].up, !.todo = steps] \in States
            /\ [Fresh EXCEPT !.up = proc[w].up, !.todo = steps].todo = steps
      BY <1>1, FreshTyped DEF States
    <2> QED BY <1>3, <2>1 DEF Create, Runs
  <1>5. /\ exec' = exec /\ spec' = spec /\ told' = told /\ task' = task /\ deploy' = deploy
        /\ batch'[b].status = "validating" /\ \A c \in Batches \ {b} : Same(c)
    BY DEF Create, Same, WholeInv, Types, Batch
  <1>6. Resting(b)'
    BY <1>1, <1>2, <1>5 DEF Resting, New, NoTasks
  <1>7. Creating(st.todo, b)'
    BY <1>2, <1>3, <1>4, <1>5 DEF Creating, New
  <1>8. \A v \in Workers \ {w} : ~Creating(proc[v].todo, b)
    BY <1>1 DEF Creating
  <1> QED BY <1>1, <1>2, <1>4, <1>5, <1>6, <1>7, <1>8, WorkerMoves

LEMMA NextOfWorker ==
    ASSUME WholeInv, NEW w \in Workers, proc[w].todo # <<>>, Next1(w)
    PROVE  \E st \in States : Becomes(w, st) /\ st.todo = Tail(proc[w].todo)
  BY WorkersAre, ThenIs, EmptySeq DEF Next1, WholeInv

LEMMA PutSpecWorks == ASSUME WholeInv, RunInv, NEW w \in Workers, PutSpec(w) PROVE RunInv'
  <1>1. At(w, "putSpec") /\ proc[w].todo # <<>>
    BY DEF PutSpec, At
  <1>2. PICK b \in Batches : /\ b = On(w) /\ Creating(proc[w].todo, b) /\ New(b)
                             /\ \A v \in Workers \ {w} : ~Creating(proc[v].todo, b)
    BY <1>1, WorkerStep
  <1>3. ~deploy.local
    BY <1>1, WorkerStep
  <1>4. PICK st \in States : Becomes(w, st) /\ st.todo = Tail(proc[w].todo)
    BY <1>1, NextOfWorker DEF PutSpec
  <1>5. /\ batch' = batch /\ exec' = exec /\ told' = told /\ task' = task /\ deploy' = deploy
        /\ spec'[b] /\ \A c \in Batches \ {b} : Same(c)
    BY <1>2 DEF PutSpec, Same, WholeInv, Types
  <1>6. IsEnqueue(st.todo, b)
    BY <1>1, <1>2, <1>4, BeginsIs DEF Creating, IsPut, IsEnqueue, At
  <1>7. Creating(st.todo, b)'
    BY <1>2, <1>5, <1>6 DEF Creating
  <1>8. Resting(b)'
    BY <1>2, <1>5 DEF Resting, New, NoTasks
  <1> QED BY <1>2, <1>3, <1>4, <1>5, <1>7, <1>8, WorkerMoves

LEMMA EnqueueWorks == ASSUME WholeInv, RunInv, NEW w \in Workers, Enqueue(w) PROVE RunInv'
  <1>1. At(w, "enqueue") /\ proc[w].todo # <<>>
    BY DEF Enqueue, At
  <1>2. PICK b \in Batches : /\ b = On(w) /\ Creating(proc[w].todo, b) /\ New(b)
                             /\ \A v \in Workers \ {w} : ~Creating(proc[v].todo, b)
    BY <1>1, WorkerStep
  <1>3. ~deploy.local
    BY <1>1, WorkerStep
  <1>4. PICK st \in States : Becomes(w, st) /\ st.todo = Tail(proc[w].todo)
    BY <1>1, NextOfWorker DEF Enqueue
  <1>5. /\ batch' = batch /\ spec' = spec /\ told' = told /\ task' = task /\ deploy' = deploy
        /\ exec'[b] = QueuedExec /\ \A c \in Batches \ {b} : Same(c)
    BY <1>2 DEF Enqueue, Same, WholeInv, Types
  <1>6. IsEnqueue(proc[w].todo, b) /\ spec[b] /\ batch[b].status = "validating"
    BY <1>1, <1>2, BeginsIs DEF Creating, IsPut, First, At
  <1>7. st.todo = <<>>
    BY <1>4, <1>6 DEF IsEnqueue, Ends
  <1>8. Live(b)'
    BY <1>2, <1>5, <1>6 DEF New, Live, Open, Terminal, NoTasks, QueuedExec
  <1> QED BY <1>2, <1>3, <1>4, <1>5, <1>7, <1>8, WorkerMoves DEF Resting

\* A worker that dies leaves a batch nobody will queue.
LEMMA CrashWorks == ASSUME WholeInv, RunInv, NEW w \in Workers, WorkerCrash(w) PROVE RunInv'
  <1>1. proc[w].todo # <<>>
    BY DEF WorkerCrash
  <1>2. PICK b \in Batches : New(b) /\ \A v \in Workers \ {w} : ~Creating(proc[v].todo, b)
    BY <1>1, WorkerStep
  <1>3. ~deploy.local
    BY <1>1, WorkerStep
  <1>4. PICK st \in States : Becomes(w, st) /\ st.todo = <<>>
    <2>1. [Fresh EXCEPT !.up = "up"] \in States /\ [Fresh EXCEPT !.up = "up"].todo = <<>>
      BY FreshTyped DEF States
    <2> QED BY <2>1 DEF WorkerCrash
  <1>5. deploy' = deploy /\ task' = task /\ told' = told /\ \A c \in Batches : Same(c)
    BY DEF WorkerCrash, Same, storeVars
  <1>6. Resting(b)'
    BY <1>2, <1>5, StaysSo DEF Resting
  <1> QED BY <1>2, <1>3, <1>4, <1>5, <1>6, WorkerMoves

LEMMA StoreWorks ==
    ASSUME WholeInv, RunInv, NEW w \in Workers, StoreStep(w)
    PROVE  RunInv'
  <1>1. PutSpec(w) \/ Enqueue(w)
    <2>1. proc[w].todo # <<>>
      BY DEF StoreStep, PutSpec, Enqueue, Flag, Tell, Read, Write, GetExec, PutExec, DropSpec, Release, At
    <2>2. Now(w).op \in {"putSpec", "enqueue"}
      BY <2>1, WorkerStep
    <2> QED BY <2>2 DEF Now, StoreStep, PutSpec, Enqueue, Flag, Tell, Read, Write, GetExec, PutExec, DropSpec, Release, At
  <1> QED BY <1>1, PutSpecWorks, EnqueueWorks

-----------------------------------------------------------------------------
(* Every step. *)

\* A step that changes no process and no record but leases.
LEMMA NothingRuns ==
    ASSUME WholeInv, RunInv, proc' = proc, deploy' = deploy, task' = task, told' = told, \A c \in Batches : Same(c)
    PROVE  RunInv'
  <1>1. CASE Up = {}
    <2>1. Up' = {} /\ \A b \in Batches : Resting(b)'
      BY <1>1, StaysSo DEF Up, RunInv
    <2>2. \A r \in Runners : proc'[r].todo = <<>> /\ Taskless(r)'
      BY <1>1 DEF RunInv, Taskless
    <2>3. /\ \A w \in Workers : WorkerAt(proc[w].todo)'
          /\ \A v, w \in Workers, b \in Batches :
                   (Creating(proc[v].todo, b) /\ Creating(proc[w].todo, b) => v = w)'
      BY WorkersStay
    <2> QED BY <2>1, <2>2, <2>3 DEF RunInv
  <1>2. CASE Up # {}
    <2>1. PICK r \in Up : TRUE
      BY <1>2
    <2>2. r \in Runners /\ proc[r].up \in {"up", "stop"} /\ RunnerAt(r, proc[r])
      BY DEF Up, RunInv
    <2>3. PICK st \in States : st = proc[r] /\ Becomes(r, st)
      BY <2>2, StandsAt
    <2> QED BY <2>2, <2>3, LandsSame
  <1> QED BY <1>1, <1>2

LEMMA StoreRuns == ASSUME WholeInv, RunInv, NEW p \in Processes, StoreStep(p) PROVE RunInv'
  <1>1. CASE p \in Runners
    BY <1>1, PutSpecRuns, EnqueueRuns, FlagRuns, TellRuns, ReadRuns, WriteRuns, GetExecRuns, PutExecRuns, DropRuns,
       ReleaseRuns DEF StoreStep
  <1>2. CASE p \in Workers
    BY <1>2, StoreWorks
  <1> QED BY <1>1, <1>2 DEF Processes

LEMMA LoopRuns == ASSUME WholeInv, RunInv, NEW r \in Runners, LoopStep(r) PROVE RunInv'
  BY TakeNoneRuns, LookRuns, RenewRuns, ListRuns, CheckRuns, ClaimRuns, SpawnRuns, AwaitRuns, GetSpecRuns,
     ReleaseOwnedRuns, ListOwnedRuns, DownRuns, TakeRuns DEF LoopStep

LEMMA TaskRuns == ASSUME WholeInv, RunInv, NEW r \in Runners, NEW b \in Batches, TaskStep(r, b) PROVE RunInv'
  <1>1. Dispatched \subseteq BOOLEAN
    BY DEF Dispatched
  <1> QED BY <1>1, BeginRuns, ContentRuns, GatheredRuns, UploadedRuns, FailsRuns, DropRunsUnstarted, CancelledRuns,
             LineRuns DEF TaskStep

LEMMA NextRuns == ASSUME OneRunner, WholeInv, Guarded, RunInv, [Next]_vars PROVE RunInv'
  <1>1. ASSUME NEW p \in Processes, NEW b \in Batches, Create(p, b) PROVE RunInv'
    BY <1>1, CreateRuns, CreateWorks DEF Processes
  <1>2. ASSUME NEW p \in Processes, NEW b \in Batches, Cancel(p, b) PROVE RunInv'
    <2>1. p \in Runners
      BY <1>2 DEF Cancel, Serves, Guarded
    <2> QED BY <1>2, <2>1, CancelRuns
  <1>3. ASSUME NEW b \in Batches, Expire(b) PROVE RunInv'
    <2>1. proc' = proc /\ deploy' = deploy /\ task' = task /\ told' = told /\ \A c \in Batches : Same(c)
      BY <1>3 DEF Expire, Same
    <2> QED BY <2>1, NothingRuns
  <1>4. CASE UNCHANGED vars
    <2>1. proc' = proc /\ deploy' = deploy /\ task' = task /\ told' = told /\ \A c \in Batches : Same(c)
      BY <1>4 DEF vars, Same
    <2> QED BY <2>1, NothingRuns
  <1>5. ASSUME NEW r \in Runners, Start(r) \/ Wake(r) \/ LoopStep(r) \/ Stop(r) \/ Crash(r) PROVE RunInv'
    BY <1>5, StartRuns, WakeRuns, LoopRuns, StopRuns, CrashRuns
  <1> QED BY <1>1, <1>2, <1>3, <1>4, <1>5, StoreRuns, TaskRuns, CrashWorks DEF Next

LEMMA InitRuns == ASSUME Init PROVE RunInv
  <1>1. \A r \in Runners : proc[r] = Fresh /\ \A b \in Batches : task[r][b].at = "none"
    BY BatchAssumption, NoTaskIs DEF Init, Processes
  <1>2. Fresh.up = "unborn" /\ Fresh.todo = <<>> /\ [Fresh EXCEPT !.up = "up"].todo = <<>>
    BY DEF Fresh
  <1>3. Up = {} /\ \A r \in Runners : proc[r].todo = <<>> /\ Taskless(r)
    BY <1>1, <1>2 DEF Up, Taskless
  <1>4. \A w \in Workers : proc[w].todo = <<>>
    BY <1>2, WorkersAre DEF Init
  <1>5. \A b \in Batches : Resting(b)
    BY <1>1 DEF Init, Resting, New, NoTasks, NoBatch
  <1>6. \A b \in Batches : told[b] = "none"
    BY DEF Init
  <1>7. \A w \in Workers, b \in Batches : ~Creating(proc[w].todo, b)
    BY <1>4, CreatingIs
  <1> QED BY <1>3, <1>4, <1>5, <1>6, <1>7 DEF RunInv, WorkerAt

-----------------------------------------------------------------------------
(* What clients can rely on. *)

\* A batch at a point of a program is not quiet.
LEMMA QuietRests ==
    ASSUME WholeInv, RunInv, NEW b \in Batches, Quiet(b)
    PROVE  Resting(b)
  <1>1. ASSUME NEW r \in Up, Point(r, b, proc[r]) PROVE FALSE
    <2>1. r \in Processes /\ proc[r].todo \in Seq(Steps)
      BY RunnersRun DEF Up, WholeInv, Types, States
    <2>2. proc[r].todo # <<>> /\ Head(proc[r].todo).b = b
      BY <1>1, PointHeads
    <2>3. 1 \in DOMAIN proc[r].todo /\ proc[r].todo[1] = Head(proc[r].todo)
      BY <2>1, <2>2
    <2> QED BY <2>1, <2>2, <2>3 DEF Quiet
  <1> QED BY <1>1 DEF RunInv, RunnerAt

LEMMA RunSettled == ASSUME WholeInv, Guarded => RunInv PROVE SettledAgree
  <1>1. ASSUME NEW b \in Batches, Quiet(b), exec[b].status \in Terminal, Guarded PROVE batch[b].status = exec[b].status
    <2>1. Resting(b)
      BY <1>1, QuietRests
    <2> QED BY <1>1, <2>1 DEF Resting, New, Live, Over, NoExec, Terminal
  <1> QED BY <1>1 DEF SettledAgree, Guarded

LEMMA RunAnswers == ASSUME WholeInv, Guarded => RunInv PROVE CancelAnswerHolds
  <1> DEFINE Held(b) == told[b] # "none" => batch[b].status \in {told[b], "cancelled"}
  <1>1. ASSUME NEW b \in Batches, Resting(b) PROVE Held(b)
    BY <1>1 DEF Resting, New, Live, Over
  <1>2. ASSUME NEW r \in Up, NEW b \in Batches, NEW p, Point(r, b, p) PROVE Held(b)
    <2>1. r \in Runners
      BY DEF Up
    <2>2. /\ Live(b) => Held(b)
          /\ \A st : Storing(r, b, st) => Held(b)
          /\ Stored(r, b) => Held(b)
          /\ GivingUp(b) => Held(b)
      BY DEF Live, Storing, Stored, GivingUp
    <2>3. /\ Working(r, b) => Live(b)
          /\ Free(b) => Live(b)
          /\ \A flag : Owned(r, b, flag) => Live(b)
      BY DEF Working, Owned, Free
    <2>4. told[b] = "none" => Held(b)
      OBVIOUS
    <2> HIDE DEF Held
    <2>5. AtRead(r, b, p.todo) => Held(b)
      BY <2>2, <2>3 DEF AtRead
    <2>6. AtWrite(r, b, p.todo, p.obj) => Held(b)
      BY <2>2, <2>3, <2>4 DEF AtWrite
    <2>7. AtGetExec(r, b, p.todo) => Held(b)
      BY <2>2, <2>3 DEF AtGetExec
    <2>8. AtSetExec(r, b, p.todo, p.seen) => Held(b)
      BY <2>2, <2>3 DEF AtSetExec
    <2>9. AtDrop(r, b, p.todo) => Held(b)
      BY <2>2, <2>4 DEF AtDrop
    <2>10. AtRelease(r, b, p.todo) => Held(b)
      BY <1>1, <2>2 DEF AtRelease
    <2>11. AtTask(r, b, p.todo) => Held(b)
      BY <2>2, <2>3 DEF AtTask
    <2>12. AtHandler(r, b, p.todo) => Held(b)
      BY <2>4 DEF AtHandler
    <2>13. AtLoop(r, b, p.todo) => Held(b)
      BY <1>1, <2>2, <2>3 DEF AtLoop
    <2> QED BY <1>2, <2>5, <2>6, <2>7, <2>8, <2>9, <2>10, <2>11, <2>12, <2>13 DEF Point
  <1>3. ASSUME NEW b \in Batches, deploy.local PROVE Held(b)
    <2>1. RunInv
      BY <1>3 DEF Guarded
    <2>2. Resting(b) \/ \E r \in Up : Point(r, b, proc[r])
      BY <2>1 DEF RunInv, RunnerAt
    <2> HIDE DEF Held
    <2> QED BY <2>2, <1>1, <1>2
  <1> QED BY <1>3 DEF CancelAnswerHolds

\* A batch that has ended is stored again only as it is.
LEMMA WriteFinal ==
    ASSUME WholeInv, RunInv, NEW r \in Runners, Write(r), NEW b \in Batches, batch[b].status \in Terminal, ~Crashes
    PROVE  batch'[b] = batch[b]
  <1>1. At(r, "write")
    BY DEF Write
  <1>2. PICK c \in Batches : c = On(r) /\ AtWrite(r, c, proc[r].todo, proc[r].obj)
    BY <1>1, AtOp
  <1>3. batch'[c] = [proc[r].obj EXCEPT !.status = Now(r).arg] /\ \A d \in Batches \ {c} : batch'[d] = batch[d]
    BY <1>2 DEF Write, WholeInv, Types
  <1>4. CASE c = b
    <2>1. ~Open(b)
      BY DEF Open
    <2>2. /\ ~Live(b) /\ ~Working(r, b) /\ ~Unqueued(b)
          /\ \A flag : ~Owned(r, b, flag)
      BY <2>1 DEF Live, Working, Unqueued, Owned
    <2>3. PICK st : IsWrite(proc[r].todo, b, st) /\ batch[b].status = st /\ proc[r].obj = batch[b]
      BY <1>2, <1>4, <2>1, <2>2 DEF AtWrite
    <2>4. Now(r).arg = st
      BY <2>3, BeginsIs DEF IsWrite, Now
    <2>5. [batch[b] EXCEPT !.status = batch[b].status] = batch[b]
      BY DEF WholeInv, Types, Batch
    <2> QED BY <1>3, <1>4, <2>3, <2>4, <2>5
  <1>5. CASE c # b
    BY <1>3, <1>5
  <1> QED BY <1>4, <1>5

\* Only Create and Write store batches.
LEMMA BatchWriters ==
    ASSUME [Next]_vars
    PROVE  \/ batch' = batch
           \/ \E p \in Processes, c \in Batches : Create(p, c)
           \/ \E p \in Processes : Write(p)
  <1>1. ASSUME NEW p \in Processes, StoreStep(p) PROVE batch' = batch \/ Write(p)
    BY <1>1 DEF StoreStep, PutSpec, Enqueue, Flag, Tell, Read, GetExec, PutExec, DropSpec, Release, storeVars
  <1>2. ASSUME NEW p \in Processes, NEW b \in Batches, Cancel(p, b) PROVE batch' = batch
    BY <1>2 DEF Cancel, storeVars
  <1>3. ASSUME NEW r \in Runners, Start(r) \/ Wake(r) \/ Stop(r) \/ Crash(r) PROVE batch' = batch
    BY <1>3 DEF Start, Wake, Stop, Crash, storeVars
  <1>4. ASSUME NEW r \in Runners, LoopStep(r) PROVE batch' = batch
    BY <1>4 DEF LoopStep, TakeNone, Look, Renew, List, Check, Claim, Spawn, Await, GetSpec, ReleaseOwned, ListOwned,
                Down, Take, storeVars
  <1>5. ASSUME NEW r \in Runners, NEW b \in Batches, TaskStep(r, b) PROVE batch' = batch
    BY <1>5 DEF TaskStep, Begin, Content, Gathered, Uploaded, Fails, DropUnstarted, Cancelled, LineDone, storeVars
  <1>6. ASSUME NEW w \in Workers, WorkerCrash(w) PROVE batch' = batch
    BY <1>6 DEF WorkerCrash, storeVars
  <1>7. ASSUME NEW b \in Batches, Expire(b) PROVE batch' = batch
    BY <1>7 DEF Expire
  <1>8. CASE UNCHANGED vars
    BY <1>8 DEF vars
  <1> QED BY <1>1, <1>2, <1>3, <1>4, <1>5, <1>6, <1>7, <1>8 DEF Next

LEMMA NextFinal ==
    ASSUME WholeInv, Guarded => RunInv, [Next]_vars, NEW b \in Batches, batch[b].status \in Terminal,
           "crash" \notin deploy.faults, Guarded
    PROVE  batch'[b] = batch[b]
  <1>1. ASSUME NEW p \in Processes, NEW c \in Batches, Create(p, c) PROVE batch'[b] = batch[b]
    <2>1. c # b
      BY <1>1 DEF Create, NoBatch, Terminal
    <2> QED BY <1>1, <2>1 DEF Create, WholeInv, Types
  <1>2. ASSUME NEW p \in Processes, Write(p) PROVE batch'[b] = batch[b]
    <2>1. p \in Runners
      <3>1. proc[p].todo # <<>> /\ Now(p).op = "write"
        BY <1>2 DEF Write, At, Now
      <3>2. p \notin Workers
        BY <3>1, WorkerStep
      <3> QED BY <3>2 DEF Processes
    <2> QED BY <1>2, <2>1, WriteFinal DEF Crashes
  <1> QED BY <1>1, <1>2, BatchWriters

LEMMA DeploymentStays == ASSUME [Next]_vars PROVE deploy' = deploy
  <1>1. ASSUME NEW p \in Processes, StoreStep(p) PROVE deploy' = deploy
    BY <1>1 DEF StoreStep, PutSpec, Enqueue, Flag, Tell, Read, Write, GetExec, PutExec, DropSpec, Release
  <1>2. ASSUME NEW p \in Processes, NEW b \in Batches, Create(p, b) \/ Cancel(p, b) PROVE deploy' = deploy
    BY <1>2 DEF Create, Cancel
  <1>3. ASSUME NEW r \in Runners, Start(r) \/ Wake(r) \/ Stop(r) \/ Crash(r) PROVE deploy' = deploy
    BY <1>3 DEF Start, Wake, Stop, Crash
  <1>4. ASSUME NEW r \in Runners, LoopStep(r) PROVE deploy' = deploy
    BY <1>4 DEF LoopStep, TakeNone, Look, Renew, List, Check, Claim, Spawn, Await, GetSpec, ReleaseOwned, ListOwned,
                Down, Take
  <1>5. ASSUME NEW r \in Runners, NEW b \in Batches, TaskStep(r, b) PROVE deploy' = deploy
    BY <1>5 DEF TaskStep, Begin, Content, Gathered, Uploaded, Fails, DropUnstarted, Cancelled, LineDone
  <1>6. ASSUME NEW w \in Workers, WorkerCrash(w) PROVE deploy' = deploy
    BY <1>6 DEF WorkerCrash
  <1>7. ASSUME NEW b \in Batches, Expire(b) PROVE deploy' = deploy
    BY <1>7 DEF Expire
  <1>8. CASE UNCHANGED vars
    BY <1>8 DEF vars
  <1> QED BY <1>1, <1>2, <1>3, <1>4, <1>5, <1>6, <1>7, <1>8 DEF Next

LEMMA NextGuarded ==
    ASSUME OneRunner, WholeInv, Guarded => RunInv, [Next]_vars
    PROVE  WholeInv' /\ (Guarded => RunInv)'
  <1>1. Guarded <=> Guarded'
    BY DeploymentStays DEF Guarded
  <1>2. Guarded => RunInv'
    BY NextRuns
  <1> QED BY <1>1, <1>2, NextWholeInv

\* With one runner at a time: once nobody is in the middle of anything that concerns a batch,
\* what clients read of it agrees with its execution; and in local mode a client that was told
\* its batch is being cancelled never sees it go on, complete or fail.
THEOREM ToldTruly == ASSUME OneRunner PROVE Spec => []BatchToldTruly
  <1>1. Init => WholeInv /\ (Guarded => RunInv)
    BY InitWholeInv, InitRuns
  <1>2. WholeInv /\ (Guarded => RunInv) /\ [Next]_vars => WholeInv' /\ (Guarded => RunInv)'
    BY NextGuarded
  <1>3. WholeInv /\ (Guarded => RunInv) => BatchToldTruly
    BY TypesAre, RunSettled, RunAnswers DEF WholeInv, BatchToldTruly
  <1> QED BY <1>1, <1>2, <1>3, PTL DEF Spec

\* With one runner at a time: unless that one may be killed, a batch that has ended keeps its
\* end, its counts and its files, although its task, the handlers and the shutdown store it as
\* they last read it.
THEOREM EndStays == ASSUME OneRunner PROVE Spec => EndIsFinal
  <1>1. Init => WholeInv /\ (Guarded => RunInv)
    BY InitWholeInv, InitRuns
  <1>2. WholeInv /\ (Guarded => RunInv) /\ [Next]_vars => WholeInv' /\ (Guarded => RunInv)'
    BY NextGuarded
  <1>3. WholeInv /\ (Guarded => RunInv) /\ [Next]_vars =>
          [\A b \in Batches : batch[b].status \in Terminal /\ "crash" \notin deploy.faults
                 /\ (deploy.local \/ ~deploy.cancels) => batch'[b] = batch[b]]_vars
    BY NextFinal DEF Guarded
  <1> QED BY <1>1, <1>2, <1>3, PTL DEF Spec, EndIsFinal

=============================================================================
