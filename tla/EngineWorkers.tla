---------------------------- MODULE EngineWorkers ----------------------------
(***************************************************************************)
(* The engine worker processes of an embedded deployment with managed      *)
(* transport, and the way a request takes to one of them.                  *)
(*                                                                         *)
(* The parent starts one worker per runtime model, in the order of the     *)
(* routes, each listening on a Unix socket named after its model; it takes *)
(* over a worker that already answers there.  A request resolves its model *)
(* to a backend, asks the worker for its health unless an answer is        *)
(* cached, compares the model served with the one expected, and only then  *)
(* generates.                                                              *)
(*                                                                         *)
(* Two settings the code accepts make routes meet: names of models that    *)
(* differ only in characters a file name may not have share a socket, and  *)
(* with managed transport two models may be given one backend.             *)
(***************************************************************************)
EXTENDS Naturals, Sequences, FiniteSets

CONSTANTS
  Routes,      \* runtime models in the order of the routes
  Sockets,     \* paths of sockets
  Backends,    \* names of backends
  Workers,     \* bound: worker processes ever started
  Requests,    \* bound: requests made of one parent
  MaxCrashes,  \* bound: times the parent is killed
  MaxDeaths,   \* bound: workers that die by themselves
  None

Models == { Routes[i] : i \in DOMAIN Routes }

\* An embedded deployment has a model, and a route for each runtime model, once.
ASSUME EngineWorkersAssumption ==
  /\ Routes \in Seq(Models) /\ Len(Routes) > 0
  /\ \A i, j \in DOMAIN Routes : Routes[i] = Routes[j] => i = j
  /\ IsFiniteSet(Workers)
  /\ "found" \notin Workers /\ None \notin Workers \cup Models

Forms == {"chat", "embed"}

VARIABLES
  \* settings, never changed
  socketOf,    \* the socket of a model
  backendOf,   \* the backend of a model's route
  \* the parent process
  phase,       \* off, starting, up, failing, stopping, stopped
  at,          \* the route being started
  proc,        \* the worker being waited for
  procs,       \* _processes: model -> worker it owns, "found", or None
  crashes,
  \* the workers
  worker,      \* worker -> [state, model]
  left,        \* workers no parent can stop any more
  deaths,
  path,        \* what is bound to a socket: a worker, dead or alive, or nothing
  \* an API process of the parent
  health,      \* _health_cache: backend -> model that answered, or None
  known,       \* clients whose max_model_len is known
  req          \* the requests

parent == <<phase, at, proc, procs, crashes>>
workers == <<worker, left, deaths, path>>
api == <<health, known, req>>
vars == <<socketOf, backendOf, parent, workers, api>>

Alive(w) == worker[w].state \in {"starting", "bound", "ready"}
Answers(s) == path[s] # None /\ worker[path[s]].state = "ready"
Owned == { m \in Models : procs[m] \in Workers }
Fresh == { w \in Workers : worker[w].state = "unused" }
NoRequest == [state |-> "idle", form |-> "chat", model |-> None, client |-> None, by |-> None]

-----------------------------------------------------------------------------
(* The parent. *)

\* Bound: a parent is started only while there are workers for all its routes.
Start ==
  /\ Cardinality(Fresh) >= Len(Routes)
  /\ phase \in {"off", "stopped"}
  /\ phase' = "starting" /\ at' = 1
  /\ UNCHANGED <<proc, procs, crashes, workers, api>>

Registered(value) ==
  /\ procs' = [procs EXCEPT ![Routes[at]] = value]
  /\ at' = at + 1
  /\ phase' = IF at = Len(Routes) THEN "up" ELSE "starting"

\* Something ready listens on the socket already: it is used and not owned.
TakeOver ==
  /\ phase = "starting" /\ proc = None
  /\ Answers(socketOf[Routes[at]])
  /\ Registered("found")
  /\ UNCHANGED <<proc, crashes, workers, api>>

\* Nothing ready does: what is bound to the socket is removed and a worker started.
Spawn ==
  /\ phase = "starting" /\ proc = None
  /\ ~Answers(socketOf[Routes[at]])
  /\ path' = [path EXCEPT ![socketOf[Routes[at]]] = None]
  /\ proc' = CHOOSE w \in Fresh : TRUE
  /\ worker' = [worker EXCEPT ![proc'] = [state |-> "starting", model |-> Routes[at]]]
  /\ UNCHANGED <<phase, at, procs, crashes, left, deaths, api>>

WorkerReady ==
  /\ phase = "starting" /\ proc # None /\ Alive(proc)
  /\ Answers(socketOf[Routes[at]])
  /\ Registered(proc) /\ proc' = None
  /\ UNCHANGED <<crashes, workers, api>>

WorkerExited ==
  /\ phase = "starting" /\ proc # None /\ ~Alive(proc)
  /\ phase' = "failing" /\ proc' = None
  /\ UNCHANGED <<at, procs, crashes, workers, api>>

Stopped(w) == worker' = [worker EXCEPT ![w].state = "dead"]

\* Mutant: a worker that takes too long is given up, not stopped.
GiveUp ==
  /\ phase = "starting" /\ proc # None
  /\ phase' = "failing" /\ proc' = None
  /\ UNCHANGED <<at, procs, crashes, workers, api>>

\* Mutant: only a worker that has ended takes too long.
TimeoutOfDead ==
  /\ phase = "starting" /\ proc # None /\ ~Alive(proc)
  /\ phase' = "failing" /\ proc' = None
  /\ UNCHANGED <<at, procs, crashes, workers, api>>

\* A worker that is not ready in time, whatever it does, is stopped.
StartupTimeout ==
  /\ phase = "starting" /\ proc # None
  /\ Stopped(proc)
  /\ phase' = "failing" /\ proc' = None
  /\ UNCHANGED <<at, procs, crashes, left, deaths, path, api>>

\* An interrupt ends the wait; the worker waited for is not registered yet.
Interrupt ==
  /\ phase = "starting" /\ proc # None
  /\ left' = left \cup {proc}
  /\ phase' = "failing" /\ proc' = None
  /\ UNCHANGED <<at, procs, crashes, worker, deaths, path, api>>

\* The server has ended, or the start has failed.  Requests end with the server.
Shutdown ==
  /\ phase \in {"up", "failing"}
  /\ phase' = "stopping"
  /\ health' = [b \in Backends |-> None] /\ known' = {}
  /\ req' = [q \in Requests |-> NoRequest]
  /\ UNCHANGED <<at, proc, procs, crashes, workers>>

\* An owned worker is terminated, or killed, and its socket removed.
StopWorker(m) ==
  /\ phase = "stopping" /\ m \in Owned
  /\ Stopped(procs[m])
  /\ path' = [path EXCEPT ![socketOf[m]] = None]
  /\ procs' = [procs EXCEPT ![m] = None]
  /\ UNCHANGED <<phase, at, proc, crashes, left, deaths, api>>

AllStopped ==
  /\ phase = "stopping" /\ Owned = {}
  /\ phase' = "stopped" /\ procs' = [m \in Models |-> None]
  /\ UNCHANGED <<at, proc, crashes, workers, api>>

\* The parent is killed: its workers stay.
Crash ==
  /\ phase \notin {"off", "stopped"} /\ crashes < MaxCrashes
  /\ crashes' = crashes + 1
  /\ phase' = "off" /\ proc' = None /\ procs' = [m \in Models |-> None]
  /\ left' = left \cup { w \in Workers : Alive(w) }
  /\ health' = [b \in Backends |-> None] /\ known' = {}
  /\ req' = [q \in Requests |-> NoRequest]
  /\ UNCHANGED <<at, worker, deaths, path>>

-----------------------------------------------------------------------------
(* The workers. *)

\* The worker removes what is bound to its socket and listens there.
Bind(w) ==
  /\ worker[w].state = "starting"
  /\ worker' = [worker EXCEPT ![w].state = "bound"]
  /\ path' = [path EXCEPT ![socketOf[worker[w].model]] = w]
  /\ UNCHANGED <<parent, left, deaths, api>>

\* Its engine is loaded and it answers.
Loaded(w) ==
  /\ worker[w].state = "bound"
  /\ worker' = [worker EXCEPT ![w].state = "ready"]
  /\ UNCHANGED <<parent, left, deaths, path, api>>

Die(w) ==
  /\ Alive(w) /\ deaths < MaxDeaths
  /\ Stopped(w) /\ deaths' = deaths + 1
  /\ UNCHANGED <<parent, left, path, api>>

-----------------------------------------------------------------------------
(* The requests. *)

\* The first route with the backend says where its worker listens.
Endpoint(b) ==
  LET first == CHOOSE i \in DOMAIN Routes :
        /\ backendOf[Routes[i]] = b
        /\ \A j \in 1..i - 1 : backendOf[Routes[j]] # b IN
  socketOf[Routes[first]]

\* One client per backend, made when it is first needed.
ClientFor(b, q) == b

\* Mutant: whatever answers is used.
AnyIdentity(m, served) == "checked"
Identity(m, served) == IF served = m THEN "checked" ELSE "refused"

\* A cached answer is validated at once; else health is asked for first.  An
\* embedding goes to the worker as it is.
Resolve(q, m, form) ==
  LET b == backendOf[m]
      state == IF form = "embed" THEN "checked"
               ELSE IF health[b] # None THEN Identity(m, health[b]) ELSE "asking" IN
  /\ phase = "up" /\ req[q].state = "idle"
  /\ req' = [req EXCEPT ![q] =
       [state |-> state, form |-> form, model |-> m, client |-> ClientFor(b, q), by |-> None]]
  /\ UNCHANGED <<parent, workers, health, known>>

\* The worker answers: the answer is cached, the client remembers the length of
\* the model's context, and the request is validated.
HealthAnswer(q) ==
  LET b == backendOf[req[q].model]
      w == path[Endpoint(b)] IN
  /\ req[q].state = "asking" /\ Answers(Endpoint(b))
  /\ health' = [health EXCEPT ![b] = worker[w].model]
  /\ known' = known \cup {req[q].client}
  /\ req' = [req EXCEPT ![q].state = Identity(req[q].model, worker[w].model)]
  /\ UNCHANGED <<parent, workers>>

Generate(q) ==
  LET s == Endpoint(backendOf[req[q].model]) IN
  /\ req[q].state = "checked" /\ Answers(s)
  /\ req' = [req EXCEPT ![q].state = "served", ![q].by = worker[path[s]].model]
  /\ UNCHANGED <<parent, workers, health, known>>

Unreachable(q) ==
  /\ req[q].state \in {"asking", "checked"}
  /\ ~Answers(Endpoint(backendOf[req[q].model]))
  /\ req' = [req EXCEPT ![q].state = "failed"]
  /\ UNCHANGED <<parent, workers, health, known>>

\* The readiness probe asks anew.
Probe(m) ==
  LET b == backendOf[m] IN
  /\ phase = "up" /\ Answers(Endpoint(b))
  /\ health' = [health EXCEPT ![b] = worker[path[Endpoint(b)]].model]
  /\ known' = known \cup {b}
  /\ UNCHANGED <<parent, workers, req>>

Expire(b) ==
  /\ health[b] # None
  /\ health' = [health EXCEPT ![b] = None]
  /\ UNCHANGED <<parent, workers, known, req>>

-----------------------------------------------------------------------------
Init ==
  /\ socketOf \in [Models -> Sockets] /\ backendOf \in [Models -> Backends]
  /\ phase = "off" /\ at = 1 /\ proc = None /\ crashes = 0
  /\ procs = [m \in Models |-> None]
  /\ worker = [w \in Workers |-> [state |-> "unused", model |-> None]]
  /\ left = {} /\ deaths = 0 /\ path = [s \in Sockets |-> None]
  /\ health = [b \in Backends |-> None] /\ known = {}
  /\ req = [q \in Requests |-> NoRequest]

StartStep == TakeOver \/ Spawn \/ WorkerReady \/ WorkerExited \/ StartupTimeout
StopStep == Shutdown \/ (\E m \in Models : StopWorker(m)) \/ AllStopped
Step ==
  \/ Start \/ StartStep \/ StopStep \/ Interrupt \/ Crash
  \/ \E w \in Workers : Bind(w) \/ Loaded(w) \/ Die(w)
  \/ \E q \in Requests, m \in Models, form \in Forms : Resolve(q, m, form)
  \/ \E q \in Requests : HealthAnswer(q) \/ Generate(q) \/ Unreachable(q)
  \/ \E m \in Models : Probe(m)
  \/ \E b \in Backends : Expire(b)
Next == Step /\ UNCHANGED <<socketOf, backendOf>>

\* The parent goes on with what it started; workers may hang for ever.
Spec == Init /\ [][Next]_vars
FairSpec ==
  /\ Spec
  /\ WF_vars(StartStep /\ UNCHANGED <<socketOf, backendOf>>)
  /\ WF_vars(phase # "up" /\ StopStep /\ UNCHANGED <<socketOf, backendOf>>)

-----------------------------------------------------------------------------
\* Processes, sockets and requests have their types, and no parent waits for or
\* owns a worker that was never started.
TypeOK ==
  /\ socketOf \in [Models -> Sockets] /\ backendOf \in [Models -> Backends]
  /\ phase \in {"off", "starting", "up", "failing", "stopping", "stopped"}
  /\ at \in 1..Len(Routes) + 1 /\ proc \in Workers \cup {None}
  /\ procs \in [Models -> Workers \cup {"found", None}]
  /\ worker \in [Workers -> [state : {"unused", "starting", "bound", "ready", "dead"},
                             model : Models \cup {None}]]
  /\ left \subseteq Workers /\ path \in [Sockets -> Workers \cup {None}]
  /\ health \in [Backends -> Models \cup {None}] /\ known \subseteq Backends
  /\ \A q \in Requests : req[q].state \in
       {"idle", "asking", "checked", "refused", "served", "failed"}
  /\ \A m \in Owned : procs[m] \notin Fresh /\ worker[procs[m]].model = m
  /\ proc # None => proc \notin Fresh

\* Once the parent has stopped, after serving or after a start that failed, no
\* worker runs but those that were left by a killed parent or by an interrupt.
OwnedAreStopped ==
  /\ TypeOK
  /\ phase = "stopped" => \A w \in Workers : Alive(w) => w \in left

\* While the parent serves, a worker of its own that runs is the one its socket
\* leads to, as long as no worker was left by another parent.
OwnWorkerReachable ==
  phase = "up" /\ left = {} =>
    \A m \in Owned : Alive(procs[m]) => path[socketOf[m]] = procs[m]

\* A request other than an embedding is served by a worker of its model, even
\* when models share sockets or backends, unless a worker left by a killed
\* parent came between.
ServedByItsModel ==
  left = {} => \A q \in Requests :
    req[q].state = "served" /\ req[q].form = "chat" => req[q].by = req[q].model

\* A request that was validated, by a cached answer or a new one, has a client
\* that knows how long its prompt may be.
LimitKnown ==
  \A q \in Requests :
    req[q].form = "chat" /\ req[q].state \in {"checked", "served"} => req[q].client \in known

\* A request finds a worker that runs, is the one meant for its model and is asked no
\* more than it can take.
RightWorkerServes == OwnWorkerReachable /\ ServedByItsModel /\ LimitKnown

\* A start and a stop end, with the workers up, with an error or with all of the
\* parent's workers stopped, whatever they do.
TransitionsEnd ==
  phase \in {"starting", "failing", "stopping"} ~> phase \in {"off", "up", "stopped"}

=============================================================================
