------------------------- MODULE EngineWorkersProofs -------------------------
(***************************************************************************)
(* Proofs about the worker processes of the engine, for all routes,        *)
(* sockets, backends, workers and requests, whichever models share a       *)
(* socket or a backend: once its parent has stopped only workers left      *)
(* behind run, and a request finds a worker of its model.                  *)
(***************************************************************************)
EXTENDS EngineWorkers, FiniteSetTheorems, WellFoundedInduction, TLAPS

\* Requests are records, made by the client of their model's backend, and a worker that
\* was started has a model.
Shapes ==
  /\ req \in [Requests -> [state : {"idle", "asking", "checked", "refused", "served", "failed"},
                           form : Forms, model : Models \cup {None}, client : Backends \cup {None},
                           by : Models \cup {None}]]
  /\ \A q \in Requests : req[q].state # "idle" => req[q].model \in Models /\ req[q].client = backendOf[req[q].model]
  /\ \A w \in Workers \ Fresh : worker[w].model \in Models

\* A parent owns nothing it has not come to yet, waits for a worker of the route it has
\* come to, and has workers for the routes ahead.
Progress ==
  /\ phase = "starting" =>
       /\ at \in 1..Len(Routes)
       /\ \A i \in at..Len(Routes) : procs[Routes[i]] = None
       /\ Cardinality(Fresh) >= Len(Routes) - at + (IF proc = None THEN 1 ELSE 0)
  /\ proc # None => phase = "starting" /\ worker[proc].model = Routes[at]
  /\ phase \in {"off", "stopped"} => \A m \in Models : procs[m] = None

\* A worker that runs is waited for, owned, or left behind.
Accounted ==
  \A w \in Workers : Alive(w) => w \in left \/ w = proc \/ \E m \in Models : procs[m] = w

\* As long as nothing was left behind, only the worker waited for may not be ready, and
\* the sockets lead to the parent's own workers.
Undisturbed ==
  left = {} =>
    /\ \A m \in Owned : worker[procs[m]].state \in {"ready", "dead"}
    /\ proc # None =>
         /\ path[socketOf[Routes[at]]] \in {None, proc}
         /\ worker[proc].state \in {"bound", "ready"} => path[socketOf[Routes[at]]] = proc
    /\ phase \in {"starting", "up"} =>
         \A m \in Owned : Alive(procs[m]) => path[socketOf[m]] = procs[m]

\* Only a parent that serves has requests and has been told of a worker's health.
Served ==
  phase # "up" => (\A b \in Backends : health[b] = None) /\ (\A q \in Requests : req[q] = NoRequest)

\* What a backend's health was told of is remembered by its client, and is still so as
\* long as no worker was left behind.
HealthKnown ==
  \A b \in Backends : health[b] # None =>
    /\ b \in known
    /\ left = {} => path[Endpoint(b)] \in Workers \ Fresh /\ worker[path[Endpoint(b)]].model = health[b]

\* A request that was validated leads to its model, as long as no worker was left behind.
CheckedLeads ==
  left = {} => \A q \in Requests :
    req[q].form = "chat" /\ req[q].state = "checked" =>
      LET w == path[Endpoint(backendOf[req[q].model])] IN w \in Workers \ Fresh /\ worker[w].model = req[q].model

\* The facts each step keeps.
IInv ==
  /\ TypeOK /\ Shapes /\ Progress /\ Accounted /\ Undisturbed
  /\ Served /\ HealthKnown /\ CheckedLeads /\ ServedByItsModel /\ LimitKnown

States == {"unused", "starting", "bound", "ready", "dead"}
RequestRecord == [state : {"idle", "asking", "checked", "refused", "served", "failed"},
                  form : Forms, model : Models \cup {None}, client : Backends \cup {None},
                  by : Models \cup {None}]

LEMMA RoutesAreModels ==
    /\ Len(Routes) \in Nat \ {0} /\ DOMAIN Routes = 1..Len(Routes)
    /\ \A i \in 1..Len(Routes) : Routes[i] \in Models
    /\ \A m \in Models : \E i \in 1..Len(Routes) : m = Routes[i]
  BY EngineWorkersAssumption DEF Models

\* The first route with a backend leads to a socket.
LEMMA EndpointIsSocket ==
    ASSUME socketOf \in [Models -> Sockets], NEW m \in Models
    PROVE  Endpoint(backendOf[m]) \in Sockets
  <1> DEFINE b == backendOf[m]
             R == { ss \in Nat \X Nat : ss[1] < ss[2] }
             T == { i \in DOMAIN Routes : backendOf[Routes[i]] = b }
             IsFirst(i) == backendOf[Routes[i]] = b /\ \A j \in 1..i - 1 : backendOf[Routes[j]] # b
             first == CHOOSE i \in DOMAIN Routes : IsFirst(i)
  <1>1. T \subseteq Nat /\ T # {}
    BY RoutesAreModels
  <1>2. IsWellFoundedOn(R, Nat)
    BY NatLessThanWellFounded DEF OpToRel
  <1>3. PICK i \in T : \A j \in T : ~(<<j, i>> \in R)
    <2> HIDE DEF R, T
    <2> QED  BY <1>1, <1>2, WFMin
  <1>4. i \in 1..Len(Routes) /\ backendOf[Routes[i]] = b
    BY RoutesAreModels
  <1>5. ASSUME NEW j \in 1..i - 1 PROVE backendOf[Routes[j]] # b
    <2>1. j \in 1..Len(Routes) /\ j \in Nat /\ i \in Nat /\ j < i
      BY <1>4, RoutesAreModels
    <2>2. <<j, i>> \in R
      BY <2>1
    <2>3. j \notin T
      BY <1>3, <2>2
    <2> QED  BY <2>1, <2>3, RoutesAreModels
  <1>6. first \in DOMAIN Routes
    <2>1. \E k \in DOMAIN Routes : IsFirst(k)
      BY <1>4, <1>5, RoutesAreModels
    <2> QED  BY <2>1
  <1>7. Endpoint(b) = socketOf[Routes[first]]
    BY DEF Endpoint
  <1> QED  BY <1>6, <1>7, RoutesAreModels

LEMMA EndpointsStay ==
    ASSUME UNCHANGED <<socketOf, backendOf>>
    PROVE  \A b : Endpoint(b)' = Endpoint(b)
  BY DEF Endpoint

\* A step that leaves the requests and the sockets alone, and the models of workers.
LEMMA ApiStays ==
    ASSUME IInv, UNCHANGED <<socketOf, backendOf, path, api>>, left \subseteq left',
           \A w \in Workers \ Fresh : w \notin Fresh' /\ worker'[w].model = worker[w].model
    PROVE  HealthKnown' /\ CheckedLeads' /\ ServedByItsModel' /\ LimitKnown'
  <1>1. \A b : Endpoint(b)' = Endpoint(b)
    BY EndpointsStay
  <1>2. UNCHANGED <<path, health, known, req, backendOf>>
    BY DEF api
  <1>3. left' = {} => left = {}
    OBVIOUS
  <1>4. HealthKnown'
    BY <1>1, <1>2, <1>3 DEF IInv, HealthKnown
  <1>5. CheckedLeads'
    BY <1>1, <1>2, <1>3 DEF IInv, CheckedLeads
  <1> QED  BY <1>2, <1>3, <1>4, <1>5 DEF IInv, ServedByItsModel, LimitKnown

LEMMA InitIInv == Init => IInv
  <1> SUFFICES ASSUME Init PROVE IInv
    OBVIOUS
  <1>1. NoRequest \in RequestRecord
    BY DEF NoRequest, RequestRecord, Forms
  <1>2. TypeOK
    BY <1>1, RoutesAreModels, EngineWorkersAssumption DEF Init, TypeOK, NoRequest, Owned
  <1>3. Shapes
    BY <1>1 DEF Init, Shapes, NoRequest, Fresh, RequestRecord
  <1> QED  BY <1>2, <1>3, EngineWorkersAssumption DEF Init, IInv, Progress, Accounted, Undisturbed, Served, HealthKnown,
             CheckedLeads, ServedByItsModel, LimitKnown, Alive, NoRequest, Owned

LEMMA StartStepIInv ==
    ASSUME IInv, UNCHANGED <<socketOf, backendOf>>, Start PROVE IInv'
  <1>1. /\ UNCHANGED <<socketOf, backendOf, proc, procs, worker, left, deaths, path, health, known, req>>
        /\ phase \in {"off", "stopped"} /\ phase' = "starting" /\ at' = 1
        /\ Cardinality(Fresh) >= Len(Routes)
    BY DEF Start, workers, api
  <1>2. proc = None /\ \A m \in Models : procs[m] = None
    BY <1>1 DEF IInv, Progress
  <1>3. Fresh' = Fresh /\ Owned' = Owned
    BY <1>1 DEF Fresh, Owned
  <1>4. TypeOK'
    BY <1>1, <1>3, RoutesAreModels DEF IInv, TypeOK
  <1>5. Shapes'
    BY <1>1, <1>3 DEF IInv, Shapes
  <1>6. Progress'
    <2>1. Len(Routes) - at' + 1 = Len(Routes)
      BY <1>1, RoutesAreModels
    <2> QED  BY <1>1, <1>2, <1>3, <2>1, RoutesAreModels DEF Progress
  <1>7. Accounted'
    BY <1>1 DEF IInv, Accounted, Alive
  <1>8. Undisturbed'
    BY <1>1, <1>2, <1>3, EngineWorkersAssumption DEF Undisturbed, Owned
  <1>9. Served'
    BY <1>1 DEF IInv, Served
  <1> QED  BY <1>1, <1>3, <1>4, <1>5, <1>6, <1>7, <1>8, <1>9, ApiStays DEF IInv, api

\* A worker of the route, or one found there, is registered.
LEMMA RegisteredIInv ==
    ASSUME IInv, UNCHANGED <<socketOf, backendOf>>, TakeOver \/ WorkerReady PROVE IInv'
  <1>1. /\ UNCHANGED <<socketOf, backendOf, worker, left, deaths, path, health, known, req>>
        /\ phase = "starting" /\ proc' = None /\ at' = at + 1
        /\ phase' = IF at = Len(Routes) THEN "up" ELSE "starting"
    BY DEF TakeOver, WorkerReady, Registered, workers, api
  <1>2. PICK v \in Workers \cup {"found"} :
          /\ procs' = [procs EXCEPT ![Routes[at]] = v]
          /\ v = proc \/ (v = "found" /\ proc = None)
          /\ v \in Workers => v = proc /\ Alive(v) /\ Answers(socketOf[Routes[at]])
    BY EngineWorkersAssumption DEF TakeOver, WorkerReady, Registered, IInv, TypeOK
  <1>3. at \in 1..Len(Routes) /\ Routes[at] \in Models
    BY <1>1, RoutesAreModels DEF IInv, Progress
  <1> DEFINE L == Len(Routes)
  <1>4. L \in Nat /\ at \in Nat /\ 1 <= at /\ at <= L
    BY <1>3, RoutesAreModels
  <1> HIDE DEF L
  <1>5. phase' = IF at = L THEN "up" ELSE "starting"
    BY <1>1 DEF L
  <1>6. procs' \in [Models -> Workers \cup {"found", None}]
    BY <1>2, <1>3 DEF IInv, TypeOK
  <1>7. procs'[Routes[at]] = v /\ \A m \in Models : m # Routes[at] => procs'[m] = procs[m]
    BY <1>2, <1>3 DEF IInv, TypeOK
  <1>8. Fresh' = Fresh
    BY <1>1 DEF Fresh
  <1>9. v \in Workers => v = proc /\ v \notin Fresh /\ worker[v].model = Routes[at] /\ proc # None
    BY <1>2, EngineWorkersAssumption DEF IInv, TypeOK, Progress
  <1>10. TypeOK'
    <2>1. at' \in 1..L + 1 /\ phase' \in {"starting", "up"}
      BY <1>1, <1>4
    <2>2. \A m \in Owned' : procs'[m] \notin Fresh' /\ worker'[procs'[m]].model = m
      BY <1>1, <1>7, <1>8, <1>9 DEF IInv, TypeOK, Owned
    <2> QED  BY <1>1, <1>6, <2>1, <2>2 DEF IInv, TypeOK, L
  <1>11. Shapes'
    BY <1>1, <1>8 DEF IInv, Shapes
  <1>12. Progress'
    <2>1. ASSUME phase' = "starting" PROVE at' \in 1..L
      BY <1>1, <1>4, <1>5, <2>1
    <2>2. ASSUME phase' = "starting", NEW i \in at'..L PROVE procs'[Routes[i]] = None
      <3>1. i \in at..L /\ i # at /\ i \in 1..L
        BY <1>1, <1>4
      <3>2. Routes[i] # Routes[at]
        BY <1>3, <3>1, RoutesAreModels, EngineWorkersAssumption DEF L
      <3> QED  BY <1>1, <1>7, <3>1, <3>2, RoutesAreModels DEF IInv, Progress, L
    <2>3. Cardinality(Fresh') >= L - at' + 1
      <3>1. Cardinality(Fresh) \in Nat
        <4>1. IsFiniteSet(Fresh)
          BY EngineWorkersAssumption, FS_Subset DEF Fresh
        <4> QED  BY <4>1, FS_CardinalityType
      <3>2. \E k \in {0, 1} : Cardinality(Fresh) >= L - at + k
        BY <1>1 DEF IInv, Progress, L
      <3> QED  BY <1>1, <1>8, <1>4, <3>1, <3>2
    <2> QED  BY <1>1, <2>1, <2>2, <2>3 DEF Progress, L
  <1>13. Accounted'
    <2> SUFFICES ASSUME NEW w \in Workers, Alive(w), w \notin left PROVE \E m \in Models : procs'[m] = w
      BY <1>1 DEF Accounted, Alive
    <2>1. CASE w = proc
      BY <1>2, <1>3, <1>7, <2>1, EngineWorkersAssumption
    <2>2. CASE w # proc
      <3>1. PICK m \in Models : procs[m] = w
        BY <2>2 DEF IInv, Accounted
      <3>2. m # Routes[at]
        BY <1>1, <1>3, <3>1, EngineWorkersAssumption DEF IInv, Progress
      <3> QED  BY <1>7, <3>1, <3>2
    <2> QED  BY <2>1, <2>2
  <1>14. Undisturbed'
    <2> SUFFICES ASSUME left = {}, NEW m \in Owned'
                 PROVE  /\ worker[procs'[m]].state \in {"ready", "dead"}
                        /\ Alive(procs'[m]) => path[socketOf[m]] = procs'[m]
      BY <1>1 DEF Undisturbed, Alive
    <2>1. CASE m = Routes[at]
      <3>1. v \in Workers /\ procs'[m] = v
        BY <1>7, <2>1 DEF Owned
      <3>2. path[socketOf[m]] # None /\ path[socketOf[m]] \in {None, proc}
        BY <1>2, <1>9, <2>1, <3>1 DEF IInv, Undisturbed, Answers
      <3> QED  BY <1>2, <2>1, <3>1, <3>2 DEF Answers
    <2>2. CASE m # Routes[at]
      BY <1>1, <1>7, <2>2 DEF IInv, Undisturbed, Owned
    <2> QED  BY <2>1, <2>2
  <1>15. Served'
    BY <1>1 DEF IInv, Served
  <1> QED  BY <1>1, <1>8, <1>10, <1>11, <1>12, <1>13, <1>14, <1>15, ApiStays DEF IInv, api

LEMMA FreshIsFinite == IsFiniteSet(Fresh) /\ Cardinality(Fresh) \in Nat
  <1>1. IsFiniteSet(Fresh)
    BY EngineWorkersAssumption, FS_Subset DEF Fresh
  <1> QED  BY <1>1, FS_CardinalityType

LEMMA SpawnIInv ==
    ASSUME IInv, UNCHANGED <<socketOf, backendOf>>, Spawn PROVE IInv'
  <1> DEFINE s == socketOf[Routes[at]]
             w0 == CHOOSE w \in Fresh : TRUE
             L == Len(Routes)
  <1>1. /\ UNCHANGED <<socketOf, backendOf, phase, at, procs, left, deaths, health, known, req>>
        /\ phase = "starting" /\ proc = None /\ ~Answers(s)
        /\ path' = [path EXCEPT ![s] = None] /\ proc' = w0
        /\ worker' = [worker EXCEPT ![w0] = [state |-> "starting", model |-> Routes[at]]]
    BY DEF Spawn, api
  <1>2. at \in 1..L /\ Routes[at] \in Models /\ s \in Sockets /\ L \in Nat
    BY <1>1, RoutesAreModels DEF IInv, Progress, TypeOK
  <1>3. Cardinality(Fresh) >= L - at + 1
    BY <1>1 DEF IInv, Progress
  <1>4. w0 \in Fresh
    <2> HIDE DEF L
    <2>1. ~(Cardinality(Fresh) = 0)
      BY <1>2, <1>3
    <2>2. Fresh # {}
      BY <2>1, FS_EmptySet
    <2> QED  BY <2>2
  <1> HIDE DEF s, w0, L
  <1>5. w0 \in Workers /\ worker[w0].state = "unused" /\ w0 # None
    BY <1>4, EngineWorkersAssumption DEF Fresh
  <1>6. worker' \in [Workers -> [state : States, model : Models \cup {None}]]
    BY <1>1, <1>2, <1>5 DEF IInv, TypeOK, States
  <1>7. /\ worker'[w0].state = "starting" /\ worker'[w0].model = Routes[at]
        /\ \A w \in Workers : w # w0 => worker'[w] = worker[w]
    BY <1>1, <1>5 DEF IInv, TypeOK
  <1>8. path' \in [Sockets -> Workers \cup {None}] /\ path'[s] = None /\ \A t \in Sockets : t # s => path'[t] = path[t]
    BY <1>1, <1>2 DEF IInv, TypeOK
  <1>9. Fresh' = Fresh \ {w0}
    BY <1>5, <1>7 DEF Fresh
  <1>10. Owned' = Owned /\ w0 \notin { procs[m] : m \in Owned }
    BY <1>1, <1>4 DEF IInv, TypeOK, Owned
  <1>11. TypeOK'
    <2>1. \A m \in Owned' : procs'[m] \notin Fresh' /\ worker'[procs'[m]].model = m
      BY <1>1, <1>7, <1>9, <1>10 DEF IInv, TypeOK, Owned
    <2> QED  BY <1>1, <1>5, <1>6, <1>8, <1>9, <2>1 DEF IInv, TypeOK, States
  <1>12. Shapes'
    BY <1>1, <1>2, <1>5, <1>7, <1>9 DEF IInv, Shapes
  <1>13. Progress'
    <2>1. Cardinality(Fresh') >= L - at
      <3>1. Cardinality(Fresh') = Cardinality(Fresh) - 1
        BY <1>4, <1>9, FreshIsFinite, FS_RemoveElement
      <3> QED  BY <1>2, <1>3, <3>1, FreshIsFinite
    <2>2. Cardinality(Fresh') >= L - at + 0
      BY <1>2, <2>1
    <2> QED  BY <1>1, <1>5, <1>7, <2>2 DEF IInv, Progress, L
  <1>14. Accounted'
    BY <1>1, <1>5, <1>7, EngineWorkersAssumption DEF IInv, Accounted, Alive
  <1>15. Undisturbed'
    <2> SUFFICES ASSUME left = {} PROVE Undisturbed'
      BY <1>1 DEF Undisturbed
    <2>1. \A m \in Owned : worker'[procs[m]] = worker[procs[m]]
      BY <1>7, <1>10 DEF Owned
    <2>2. ASSUME NEW m \in Owned, Alive(procs[m]) PROVE path'[socketOf[m]] = procs[m]
      <3>1. path[socketOf[m]] = procs[m] /\ worker[procs[m]].state = "ready"
        BY <1>1, <2>2 DEF IInv, Undisturbed, Alive
      <3>2. procs[m] # None /\ socketOf[m] \in Sockets
        BY EngineWorkersAssumption DEF Owned, IInv, TypeOK
      <3>3. socketOf[m] # s
        BY <1>1, <3>1, <3>2 DEF Answers
      <3> QED  BY <1>8, <3>1, <3>2, <3>3
    <2> QED  BY <1>1, <1>7, <1>8, <1>10, <2>1, <2>2 DEF IInv, Undisturbed, Alive, s
  <1>16. Served'
    BY <1>1 DEF IInv, Served
  <1>17. \A q \in Requests : req[q].state = "idle"
    BY <1>1 DEF IInv, Served, NoRequest
  <1>18. HealthKnown' /\ CheckedLeads' /\ ServedByItsModel' /\ LimitKnown'
    BY <1>1, <1>17 DEF IInv, Served, HealthKnown, CheckedLeads, ServedByItsModel, LimitKnown
  <1> QED  BY <1>11, <1>12, <1>13, <1>14, <1>15, <1>16, <1>18 DEF IInv

\* The parent stops waiting for a worker, which has ended, is stopped or is left behind.
LEMMA FailedIInv ==
    ASSUME IInv, UNCHANGED <<socketOf, backendOf>>, WorkerExited \/ StartupTimeout \/ Interrupt PROVE IInv'
  <1>1. /\ UNCHANGED <<socketOf, backendOf, at, procs, crashes, deaths, path, health, known, req>>
        /\ phase = "starting" /\ proc # None /\ phase' = "failing" /\ proc' = None
    BY DEF WorkerExited, StartupTimeout, Interrupt, workers, api
  <1>2. proc \in Workers /\ worker[proc].state # "unused"
    BY <1>1 DEF IInv, TypeOK, Fresh
  <1>3. /\ worker' \in [Workers -> [state : States, model : Models \cup {None}]]
        /\ \A w \in Workers : worker'[w].model = worker[w].model /\ (worker'[w] = worker[w] \/ worker'[w].state = "dead")
        /\ \A w \in Workers : w # proc => worker'[w] = worker[w]
    BY <1>2, SMTT(40) DEF WorkerExited, StartupTimeout, Interrupt, Stopped, workers, IInv, TypeOK, States
  <1>4. /\ left \subseteq left' /\ left' \subseteq Workers
        /\ proc \in left' \/ worker'[proc].state \notin {"starting", "bound", "ready"}
    BY <1>2 DEF WorkerExited, StartupTimeout, Interrupt, Stopped, workers, IInv, TypeOK, Alive
  <1>5. Fresh' = Fresh
    BY <1>2, <1>3 DEF Fresh
  <1>6. Owned' = Owned
    BY <1>1 DEF Owned
  <1>7. TypeOK'
    BY <1>1, <1>3, <1>4, <1>5, <1>6 DEF IInv, TypeOK, States, Owned
  <1>8. Shapes'
    BY <1>1, <1>3, <1>5 DEF IInv, Shapes
  <1>9. Progress'
    BY <1>1 DEF Progress
  <1>10. Accounted'
    BY <1>1, <1>3, <1>4 DEF IInv, Accounted, Alive
  <1>11. Undisturbed'
    BY <1>1, <1>3, <1>4, <1>6 DEF IInv, Undisturbed, Owned
  <1>12. Served'
    BY <1>1 DEF IInv, Served
  <1>13. \A w \in Workers \ Fresh : w \notin Fresh' /\ worker'[w].model = worker[w].model
    BY <1>3, <1>5
  <1> QED  BY <1>1, <1>4, <1>7, <1>8, <1>9, <1>10, <1>11, <1>12, <1>13, ApiStays DEF IInv, api

\* A request ends with the server, and what was known of workers is forgotten.
LEMMA ServerEndsIInv ==
    ASSUME IInv, UNCHANGED <<socketOf, backendOf>>, Shutdown \/ Crash PROVE IInv'
  <1>1. /\ UNCHANGED <<socketOf, backendOf, at, worker, deaths, path>>
        /\ phase' \in {"stopping", "off"} /\ health' = [b \in Backends |-> None] /\ known' = {}
        /\ req' = [q \in Requests |-> NoRequest]
    BY DEF Shutdown, Crash, workers
  <1>2. NoRequest \in RequestRecord
    BY DEF NoRequest, RequestRecord, Forms
  <1>3. ASSUME Shutdown PROVE TypeOK' /\ Progress' /\ Accounted' /\ Undisturbed'
    <2>1. UNCHANGED <<proc, procs, left>> /\ phase \in {"up", "failing"} /\ phase' = "stopping"
      BY <1>3 DEF Shutdown, workers
    <2>2. proc = None
      BY <2>1 DEF IInv, Progress
    <2>3. Fresh' = Fresh /\ Owned' = Owned
      BY <1>1, <2>1 DEF Fresh, Owned
    <2>4. TypeOK'
      BY <1>1, <2>1, <2>2, <2>3 DEF IInv, TypeOK, NoRequest
    <2>5. Progress' /\ Accounted' /\ Undisturbed'
      BY <1>1, <2>1, <2>2, <2>3 DEF IInv, Progress, Accounted, Undisturbed, Alive
    <2> QED  BY <2>4, <2>5
  <1>4. ASSUME Crash PROVE TypeOK' /\ Progress' /\ Accounted' /\ Undisturbed'
    <2>1. /\ proc' = None /\ procs' = [m \in Models |-> None] /\ phase' = "off"
          /\ left' = left \cup { w \in Workers : Alive(w) }
      BY <1>4 DEF Crash
    <2>2. Fresh' = Fresh /\ Owned' = {}
      BY <1>1, <2>1, EngineWorkersAssumption DEF Fresh, Owned
    <2>3. TypeOK'
      BY <1>1, <2>1, <2>2 DEF IInv, TypeOK, NoRequest
    <2>4. Progress' /\ Accounted' /\ Undisturbed'
      BY <1>1, <2>1, <2>2 DEF IInv, Progress, Accounted, Undisturbed, Alive
    <2> QED  BY <2>3, <2>4
  <1>5. Shapes' /\ Served'
    BY <1>1, <1>2 DEF IInv, Shapes, Served, NoRequest, RequestRecord, Fresh
  <1>6. HealthKnown' /\ CheckedLeads' /\ ServedByItsModel' /\ LimitKnown'
    BY <1>1 DEF HealthKnown, CheckedLeads, ServedByItsModel, LimitKnown, NoRequest
  <1> QED  BY <1>3, <1>4, <1>5, <1>6 DEF IInv

LEMMA StopWorkerIInv ==
    ASSUME IInv, UNCHANGED <<socketOf, backendOf>>, NEW m \in Models, StopWorker(m) PROVE IInv'
  <1> DEFINE v == procs[m]
             s == socketOf[m]
  <1>1. /\ UNCHANGED <<socketOf, backendOf, phase, at, proc, left, deaths, health, known, req>>
        /\ phase = "stopping" /\ worker' = [worker EXCEPT ![v].state = "dead"]
        /\ path' = [path EXCEPT ![s] = None] /\ procs' = [procs EXCEPT ![m] = None]
    BY DEF StopWorker, Stopped, api
  <1>2. v \in Workers /\ v \notin Fresh /\ s \in Sockets /\ worker[v].state # "unused"
    BY DEF StopWorker, Owned, IInv, TypeOK, Fresh
  <1> HIDE DEF v, s
  <1>3. proc = None
    BY <1>1 DEF IInv, Progress
  <1>4. /\ worker' \in [Workers -> [state : States, model : Models \cup {None}]]
        /\ \A w \in Workers : worker'[w].model = worker[w].model /\ (w # v => worker'[w] = worker[w])
        /\ worker'[v].state = "dead"
    BY <1>1, <1>2 DEF IInv, TypeOK, States
  <1>5. path' \in [Sockets -> Workers \cup {None}]
    BY <1>1 DEF IInv, TypeOK
  <1>6. /\ procs' \in [Models -> Workers \cup {"found", None}]
        /\ procs'[m] = None /\ \A n \in Models : n # m => procs'[n] = procs[n]
    BY <1>1 DEF IInv, TypeOK
  <1>7. Fresh' = Fresh
    BY <1>2, <1>4 DEF Fresh
  <1>8. Owned' \subseteq Owned /\ m \notin Owned'
    BY <1>6, EngineWorkersAssumption DEF Owned
  <1>9. TypeOK'
    BY <1>1, <1>3, <1>4, <1>5, <1>6, <1>7, <1>8 DEF IInv, TypeOK, States
  <1>10. Shapes'
    BY <1>1, <1>4, <1>7 DEF IInv, Shapes
  <1>11. Progress'
    BY <1>1, <1>3 DEF Progress
  <1>12. Accounted'
    <2> SUFFICES ASSUME NEW w \in Workers, Alive(w)', w \notin left PROVE \E n \in Models : procs'[n] = w
      BY <1>1 DEF Accounted
    <2>1. w # v /\ Alive(w)
      BY <1>4 DEF Alive
    <2>2. PICK n \in Models : procs[n] = w
      BY <1>3, <2>1, EngineWorkersAssumption DEF IInv, Accounted
    <2> QED  BY <1>6, <2>1, <2>2 DEF v
  <1>13. Undisturbed'
    BY <1>1, <1>3, <1>4, <1>6, <1>8 DEF IInv, Undisturbed, Owned
  <1>14. Served'
    BY <1>1 DEF IInv, Served
  <1>15. HealthKnown' /\ CheckedLeads' /\ ServedByItsModel' /\ LimitKnown'
    BY <1>1 DEF IInv, Served, NoRequest, HealthKnown, CheckedLeads, ServedByItsModel, LimitKnown
  <1> QED  BY <1>9, <1>10, <1>11, <1>12, <1>13, <1>14, <1>15 DEF IInv

LEMMA AllStoppedIInv ==
    ASSUME IInv, UNCHANGED <<socketOf, backendOf>>, AllStopped PROVE IInv'
  <1>1. /\ UNCHANGED <<socketOf, backendOf, at, proc, worker, left, deaths, path, health, known, req>>
        /\ phase = "stopping" /\ phase' = "stopped" /\ Owned = {} /\ procs' = [m \in Models |-> None]
    BY DEF AllStopped, workers, api
  <1>2. proc = None
    BY <1>1 DEF IInv, Progress
  <1>3. Fresh' = Fresh /\ Owned' = {}
    BY <1>1, EngineWorkersAssumption DEF Fresh, Owned
  <1>4. TypeOK' /\ Shapes'
    BY <1>1, <1>2, <1>3 DEF IInv, TypeOK, Shapes
  <1>5. Progress' /\ Undisturbed' /\ Served'
    BY <1>1, <1>2, <1>3 DEF IInv, Progress, Undisturbed, Served
  <1>6. Accounted'
    BY <1>1, <1>2, EngineWorkersAssumption DEF IInv, Accounted, Owned, Alive
  <1> QED  BY <1>1, <1>3, <1>4, <1>5, <1>6, ApiStays DEF IInv, api

\* A worker comes to its next state, or ends.
LEMMA WorkerMoves ==
    ASSUME IInv, UNCHANGED <<socketOf, backendOf, parent, left>>, NEW w \in Workers, NEW state \in {"bound", "ready", "dead"},
           Alive(w), worker' = [worker EXCEPT ![w].state = state], path' \in [Sockets -> Workers \cup {None}],
           UNCHANGED api
    PROVE  /\ worker'[w].state = state
           /\ \A x \in Workers : worker'[x].model = worker[x].model /\ (x # w => worker'[x] = worker[x])
           /\ Fresh' = Fresh /\ Owned' = Owned /\ UNCHANGED <<phase, at, proc, procs, health, known, req>>
           /\ TypeOK' /\ Shapes' /\ Progress' /\ Accounted' /\ Served'
  <1>1. UNCHANGED <<phase, at, proc, procs, health, known, req>>
    BY DEF parent, api
  <1>2. /\ worker' \in [Workers -> [state : States, model : Models \cup {None}]]
        /\ \A x \in Workers : worker'[x].model = worker[x].model /\ (x # w => worker'[x] = worker[x])
        /\ worker'[w].state = state
    BY DEF IInv, TypeOK, States
  <1>3. Fresh' = Fresh /\ Owned' = Owned
    BY <1>1, <1>2 DEF Fresh, Owned, Alive
  <1>4. TypeOK'
    BY <1>1, <1>2, <1>3 DEF IInv, TypeOK, States, Owned
  <1>5. Shapes' /\ Progress' /\ Served'
    BY <1>1, <1>2, <1>3 DEF IInv, TypeOK, Shapes, Progress, Served
  <1>6. Accounted'
    BY <1>1, <1>2 DEF IInv, Accounted, Alive
  <1> QED  BY <1>1, <1>2, <1>3, <1>4, <1>5, <1>6

LEMMA BindIInv ==
    ASSUME IInv, UNCHANGED <<socketOf, backendOf>>, NEW w \in Workers, Bind(w) PROVE IInv'
  <1> DEFINE s == socketOf[worker[w].model]
  <1>1. /\ worker[w].state = "starting" /\ worker' = [worker EXCEPT ![w].state = "bound"]
        /\ path' = [path EXCEPT ![s] = w] /\ UNCHANGED <<socketOf, backendOf, parent, left, deaths, api>>
    BY DEF Bind
  <1>2. s \in Sockets
    BY <1>1 DEF IInv, Shapes, TypeOK, Fresh
  <1>3. /\ path' \in [Sockets -> Workers \cup {None}] /\ path'[s] = w
        /\ \A t \in Sockets : t # s => path'[t] = path[t]
    BY <1>1, <1>2 DEF IInv, TypeOK
  <1>4. /\ worker'[w].state = "bound"
        /\ \A x \in Workers : worker'[x].model = worker[x].model /\ (x # w => worker'[x] = worker[x])
        /\ Fresh' = Fresh /\ Owned' = Owned /\ UNCHANGED <<phase, at, proc, procs, health, known, req>>
        /\ TypeOK' /\ Shapes' /\ Progress' /\ Accounted' /\ Served'
    <2>1. Alive(w)
      BY <1>1 DEF Alive
    <2> QED  BY <1>1, <1>3, <2>1, WorkerMoves
  <1>5. ASSUME left = {} PROVE w = proc /\ phase = "starting" /\ s = socketOf[Routes[at]] /\ w # None
    <2>1. ~\E m \in Models : procs[m] = w
      BY <1>1, <1>5 DEF IInv, Undisturbed, Owned
    <2>2. w = proc /\ w # None
      BY <1>1, <1>5, <2>1, EngineWorkersAssumption DEF IInv, Accounted, Alive
    <2> QED  BY <2>2 DEF IInv, Progress
  <1>6. Undisturbed'
    <2> SUFFICES ASSUME left = {} PROVE Undisturbed'
      BY <1>1 DEF Undisturbed
    <2>1. \A m \in Owned : procs[m] # w /\ socketOf[m] \in Sockets
      BY <1>1, <1>5 DEF IInv, Undisturbed, Owned, TypeOK
    <2>2. ASSUME NEW m \in Owned, Alive(procs[m]) PROVE path'[socketOf[m]] = procs[m]
      <3>1. path[socketOf[m]] = procs[m] /\ procs[m] \in Workers
        BY <1>5, <2>2 DEF IInv, Undisturbed, Owned
      <3>2. socketOf[m] # s
        <4>1. path[s] \in {None, w}
          BY <1>5 DEF IInv, Undisturbed
        <4> QED  BY <2>1, <3>1, <4>1, EngineWorkersAssumption
      <3> QED  BY <1>3, <2>1, <3>1, <3>2
    <2> HIDE DEF s
    <2>3. path'[socketOf'[Routes[at']]] = w
      BY <1>1, <1>3, <1>4, <1>5
    <2> QED  BY <1>1, <1>4, <1>5, <2>1, <2>2, <2>3 DEF IInv, Undisturbed, Owned, Alive
  <1>7. ASSUME left = {} PROVE (\A b \in Backends : health[b] = None) /\ (\A q \in Requests : req[q].state = "idle")
    BY <1>5, <1>7 DEF IInv, Served, NoRequest
  <1>8. HealthKnown' /\ CheckedLeads' /\ ServedByItsModel' /\ LimitKnown'
    BY <1>1, <1>4, <1>7 DEF IInv, HealthKnown, CheckedLeads, ServedByItsModel, LimitKnown
  <1> QED  BY <1>4, <1>6, <1>8 DEF IInv

LEMMA LoadedOrDeadIInv ==
    ASSUME IInv, UNCHANGED <<socketOf, backendOf>>, NEW w \in Workers, Loaded(w) \/ Die(w) PROVE IInv'
  <1>1. PICK state \in {"ready", "dead"} :
          /\ Alive(w) /\ worker' = [worker EXCEPT ![w].state = state]
          /\ state = "ready" => worker[w].state = "bound"
    BY DEF Loaded, Die, Stopped, Alive
  <1>2. UNCHANGED <<socketOf, backendOf, parent, left, path, api>>
    BY DEF Loaded, Die
  <1>3. /\ worker'[w].state = state
        /\ \A x \in Workers : worker'[x].model = worker[x].model /\ (x # w => worker'[x] = worker[x])
        /\ Fresh' = Fresh /\ Owned' = Owned /\ UNCHANGED <<phase, at, proc, procs, health, known, req>>
        /\ TypeOK' /\ Shapes' /\ Progress' /\ Accounted' /\ Served'
    <2>1. path' \in [Sockets -> Workers \cup {None}]
      BY <1>2 DEF IInv, TypeOK
    <2> QED  BY <1>1, <1>2, <2>1, WorkerMoves
  <1>4. Undisturbed'
    BY <1>1, <1>2, <1>3 DEF IInv, Undisturbed, Owned, Alive
  <1> QED  BY <1>2, <1>3, <1>4, ApiStays DEF IInv

\* A step of a request, or of the health cache, leaves parent and workers alone.
LEMMA RestStays ==
    ASSUME IInv, UNCHANGED <<socketOf, backendOf, parent, workers>>
    PROVE  /\ UNCHANGED <<phase, at, proc, procs, worker, left, path>> /\ Fresh' = Fresh /\ Owned' = Owned
           /\ Progress' /\ Accounted' /\ Undisturbed'
           /\ \A b : Endpoint(b)' = Endpoint(b)
  <1>1. UNCHANGED <<phase, at, proc, procs, worker, left, path>>
    BY DEF parent, workers
  <1>2. Fresh' = Fresh /\ Owned' = Owned
    BY <1>1 DEF Fresh, Owned
  <1> QED  BY <1>1, <1>2, EndpointsStay DEF IInv, Progress, Accounted, Undisturbed, Alive

\* What is asked of a route that answers comes from a worker of some model.
LEMMA AnswerHasModel ==
    ASSUME IInv, NEW m \in Models, Answers(Endpoint(backendOf[m]))
    PROVE  LET w == path[Endpoint(backendOf[m])] IN w \in Workers \ Fresh /\ worker[w].model \in Models
  <1>1. Endpoint(backendOf[m]) \in Sockets
    BY EndpointIsSocket DEF IInv, TypeOK
  <1> QED  BY <1>1 DEF Answers, IInv, TypeOK, Shapes, Fresh

\* What a step that changes one request does to the requests.
LEMMA OneRequestChanges ==
    ASSUME Shapes, NEW q \in Requests, NEW r \in RequestRecord, req' = [req EXCEPT ![q] = r]
    PROVE  req' \in [Requests -> RequestRecord] /\ req'[q] = r /\ \A p \in Requests : p # q => req'[p] = req[p]
  BY DEF Shapes, RequestRecord

\* A request of a parent that serves comes to its next state, and health may be learned.
LEMMA RequestMoves ==
    ASSUME IInv, UNCHANGED <<socketOf, backendOf, parent, workers>>, phase = "up",
           NEW q \in Requests, NEW r \in RequestRecord, req' = [req EXCEPT ![q] = r],
           r.model \in Models, r.client = backendOf[r.model],
           health' \in [Backends -> Models \cup {None}], known' \subseteq Backends, known \subseteq known'
    PROVE  /\ req'[q] = r /\ \A p \in Requests : p # q => req'[p] = req[p]
           /\ TypeOK' /\ Shapes' /\ Served'
  <1>1. UNCHANGED <<phase, at, proc, procs, worker, left, path>> /\ Fresh' = Fresh /\ Owned' = Owned
    BY RestStays
  <1>2. req' \in [Requests -> RequestRecord] /\ req'[q] = r /\ \A p \in Requests : p # q => req'[p] = req[p]
    BY OneRequestChanges DEF IInv
  <1>3. \A p \in Requests : req'[p].state \in {"idle", "asking", "checked", "refused", "served", "failed"}
    BY <1>2 DEF RequestRecord
  <1>4. TypeOK'
    BY <1>1, <1>3 DEF IInv, TypeOK
  <1>5. Shapes'
    BY <1>1, <1>2 DEF IInv, Shapes, RequestRecord
  <1> QED  BY <1>1, <1>2, <1>4, <1>5 DEF Served

LEMMA ResolveIInv ==
    ASSUME IInv, UNCHANGED <<socketOf, backendOf>>, NEW q \in Requests, NEW m \in Models, NEW form \in Forms,
           Resolve(q, m, form)
    PROVE  IInv'
  <1> DEFINE b == backendOf[m]
             state == IF form = "embed" THEN "checked"
                      ELSE IF health[b] # None THEN Identity(m, health[b]) ELSE "asking"
             r == [state |-> state, form |-> form, model |-> m, client |-> b, by |-> None]
  <1>1. /\ UNCHANGED <<socketOf, backendOf, parent, workers, health, known>> /\ phase = "up"
        /\ req' = [req EXCEPT ![q] = r]
    BY DEF Resolve, ClientFor
  <1>2. b \in Backends
    BY DEF IInv, TypeOK
  <1>3. state \in {"asking", "checked", "refused"}
    BY DEF Identity
  <1>4. form = "chat" /\ state = "checked" => health[b] = m /\ m # None
    BY EngineWorkersAssumption DEF Identity
  <1> HIDE DEF b, state
  <1>5. r \in RequestRecord
    BY <1>2, <1>3 DEF RequestRecord
  <1>6. r.state = state /\ r.form = form /\ r.model = m /\ r.client = b
    OBVIOUS
  <1> HIDE DEF r
  <1>7. /\ req'[q] = r /\ \A p \in Requests : p # q => req'[p] = req[p]
        /\ TypeOK' /\ Shapes' /\ Served'
    <2>1. health' \in [Backends -> Models \cup {None}] /\ known' \subseteq Backends /\ known \subseteq known'
      BY <1>1 DEF IInv, TypeOK
    <2> QED  BY <1>1, <1>5, <1>6, <2>1, RequestMoves DEF b
  <1>8. /\ UNCHANGED <<worker, left, path>> /\ Fresh' = Fresh /\ Progress' /\ Accounted' /\ Undisturbed'
        /\ \A a : Endpoint(a)' = Endpoint(a)
    BY <1>1, RestStays
  <1>9. HealthKnown'
    BY <1>1, <1>8 DEF IInv, HealthKnown
  <1>10. CheckedLeads'
    <2> SUFFICES ASSUME left = {}, NEW p \in Requests, req'[p].form = "chat", req'[p].state = "checked"
                 PROVE  LET w == path[Endpoint(backendOf[req'[p].model])] IN
                        w \in Workers \ Fresh /\ worker[w].model = req'[p].model
      BY <1>1, <1>8 DEF CheckedLeads
    <2>1. CASE p = q
      BY <1>2, <1>4, <1>6, <1>7, <2>1 DEF IInv, HealthKnown, b
    <2>2. CASE p # q
      BY <1>7, <2>2 DEF IInv, CheckedLeads
    <2> QED  BY <2>1, <2>2
  <1>11. ServedByItsModel'
    BY <1>3, <1>6, <1>7, <1>8 DEF IInv, ServedByItsModel
  <1>12. LimitKnown'
    BY <1>1, <1>2, <1>3, <1>4, <1>6, <1>7 DEF IInv, LimitKnown, HealthKnown
  <1> QED  BY <1>7, <1>8, <1>9, <1>10, <1>11, <1>12 DEF IInv

\* A worker's answer to a request or to the probe is true of the worker that gave it.
LEMMA HealthLearned ==
    ASSUME IInv, UNCHANGED <<socketOf, backendOf, parent, workers>>, NEW m \in Models, NEW b, b = backendOf[m],
           Answers(Endpoint(b)), health' = [health EXCEPT ![b] = worker[path[Endpoint(b)]].model],
           known' = known \cup {b}
    PROVE  health' \in [Backends -> Models \cup {None}] /\ known' \subseteq Backends /\ HealthKnown'
  <1>1. b \in Backends
    BY DEF IInv, TypeOK
  <1>2. path[Endpoint(b)] \in Workers \ Fresh /\ worker[path[Endpoint(b)]].model \in Models
    BY AnswerHasModel
  <1>3. health' \in [Backends -> Models \cup {None}] /\ known' \subseteq Backends
    BY <1>1, <1>2 DEF IInv, TypeOK
  <1>4. /\ health'[b] = worker[path[Endpoint(b)]].model
        /\ \A a \in Backends : a # b => health'[a] = health[a]
    BY <1>1 DEF IInv, TypeOK
  <1>5. /\ UNCHANGED <<worker, left, path>> /\ Fresh' = Fresh
        /\ \A a : Endpoint(a)' = Endpoint(a)
    BY RestStays
  <1> QED  BY <1>2, <1>3, <1>4, <1>5 DEF IInv, HealthKnown

LEMMA ProbeIInv ==
    ASSUME IInv, UNCHANGED <<socketOf, backendOf>>, NEW m \in Models, Probe(m) PROVE IInv'
  <1>1. UNCHANGED <<socketOf, backendOf, parent, workers, req>> /\ phase = "up" /\ known \subseteq known'
    BY DEF Probe
  <1>2. health' \in [Backends -> Models \cup {None}] /\ known' \subseteq Backends /\ HealthKnown'
    BY <1>1, HealthLearned DEF Probe
  <1>3. /\ UNCHANGED <<phase, at, proc, procs, worker, left, path>> /\ Fresh' = Fresh /\ Owned' = Owned
        /\ Progress' /\ Accounted' /\ Undisturbed' /\ \A b : Endpoint(b)' = Endpoint(b)
    BY <1>1, RestStays
  <1>4. TypeOK' /\ Shapes' /\ Served'
    BY <1>1, <1>2, <1>3 DEF IInv, TypeOK, Shapes, Served
  <1>5. CheckedLeads' /\ ServedByItsModel' /\ LimitKnown'
    BY <1>1, <1>3 DEF IInv, CheckedLeads, ServedByItsModel, LimitKnown
  <1> QED  BY <1>2, <1>3, <1>4, <1>5 DEF IInv

LEMMA ExpireIInv ==
    ASSUME IInv, UNCHANGED <<socketOf, backendOf>>, NEW b \in Backends, Expire(b) PROVE IInv'
  <1>1. UNCHANGED <<socketOf, backendOf, parent, workers, known, req>>
    BY DEF Expire
  <1>2. health' \in [Backends -> Models \cup {None}] /\ \A a \in Backends : health'[a] \in {None, health[a]}
    BY DEF Expire, IInv, TypeOK
  <1>3. /\ UNCHANGED <<phase, at, proc, procs, worker, left, path>> /\ Fresh' = Fresh /\ Owned' = Owned
        /\ Progress' /\ Accounted' /\ Undisturbed' /\ \A a : Endpoint(a)' = Endpoint(a)
    BY <1>1, RestStays
  <1>4. TypeOK' /\ Shapes' /\ Served'
    BY <1>1, <1>2, <1>3 DEF IInv, TypeOK, Shapes, Served
  <1>5. HealthKnown' /\ CheckedLeads' /\ ServedByItsModel' /\ LimitKnown'
    BY <1>1, <1>2, <1>3 DEF IInv, HealthKnown, CheckedLeads, ServedByItsModel, LimitKnown
  <1> QED  BY <1>3, <1>4, <1>5 DEF IInv

LEMMA HealthAnswerIInv ==
    ASSUME IInv, UNCHANGED <<socketOf, backendOf>>, NEW q \in Requests, HealthAnswer(q) PROVE IInv'
  <1> DEFINE m == req[q].model
             b == backendOf[m]
             w == path[Endpoint(b)]
             r == [req[q] EXCEPT !.state = Identity(m, worker[w].model)]
  <1>1. /\ UNCHANGED <<socketOf, backendOf, parent, workers>> /\ req[q].state = "asking" /\ Answers(Endpoint(b))
        /\ health' = [health EXCEPT ![b] = worker[w].model] /\ known' = known \cup {req[q].client}
        /\ req' = [req EXCEPT ![q].state = Identity(m, worker[w].model)]
    BY DEF HealthAnswer
  <1>2. m \in Models /\ req[q].client = b /\ phase = "up"
    BY <1>1 DEF IInv, Shapes, Served, NoRequest
  <1>3. w \in Workers \ Fresh /\ worker[w].model \in Models
    BY <1>1, <1>2, AnswerHasModel, SMTT(40)
  <1>4. health' \in [Backends -> Models \cup {None}] /\ known' \subseteq Backends /\ HealthKnown'
    BY <1>1, <1>2, HealthLearned
  <1>5. Identity(m, worker[w].model) \in {"checked", "refused"} /\ (Identity(m, worker[w].model) = "checked" => worker[w].model = m)
    BY DEF Identity
  <1>6. /\ r \in RequestRecord /\ req' = [req EXCEPT ![q] = r]
        /\ r.state = Identity(m, worker[w].model) /\ r.model = m /\ r.client = b /\ r.form = req[q].form
    <2>1. req \in [Requests -> RequestRecord]
      BY DEF IInv, Shapes, RequestRecord
    <2>2. PICK o, v : o = req[q] /\ v = Identity(m, worker[w].model)
      OBVIOUS
    <2>3. o \in RequestRecord /\ r = [o EXCEPT !.state = v]
      BY <2>1, <2>2
    <2>4. v \in {"checked", "refused"} /\ o.model = m /\ o.client = b
      BY <1>2, <1>5, <2>2
    <2> HIDE DEF m, b, w
    <2>5. [o EXCEPT !.state = v] \in RequestRecord
      BY <2>3, <2>4 DEF RequestRecord
    <2>6. /\ [o EXCEPT !.state = v].state = v /\ [o EXCEPT !.state = v].model = o.model
          /\ [o EXCEPT !.state = v].client = o.client /\ [o EXCEPT !.state = v].form = o.form
      BY <2>3 DEF RequestRecord
    <2>7. req' = [req EXCEPT ![q] = [req[q] EXCEPT !.state = v]]
      BY <1>1, <2>2
    <2>8. r = [req[q] EXCEPT !.state = v]
      BY <2>2
    <2> HIDE DEF r
    <2> QED  BY <2>2, <2>3, <2>4, <2>5, <2>6, <2>7, <2>8
  <1> HIDE DEF r
  <1>7. /\ req'[q] = r /\ \A p \in Requests : p # q => req'[p] = req[p]
        /\ TypeOK' /\ Shapes' /\ Served'
    <2>1. known \subseteq known'
      BY <1>1
    <2> QED  BY <1>1, <1>2, <1>4, <1>6, <2>1, RequestMoves, Zenon
  <1>8. /\ UNCHANGED <<worker, left, path>> /\ Fresh' = Fresh /\ Progress' /\ Accounted' /\ Undisturbed'
        /\ \A a : Endpoint(a)' = Endpoint(a)
    BY <1>1, RestStays
  <1>9. CheckedLeads'
    <2> SUFFICES ASSUME left = {}, NEW p \in Requests, req'[p].form = "chat", req'[p].state = "checked"
                 PROVE  LET x == path[Endpoint(backendOf[req'[p].model])] IN
                        x \in Workers \ Fresh /\ worker[x].model = req'[p].model
      BY <1>1, <1>8 DEF CheckedLeads
    <2>1. CASE p = q
      BY <1>3, <1>5, <1>6, <1>7, <2>1
    <2>2. CASE p # q
      BY <1>7, <2>2 DEF IInv, CheckedLeads
    <2> QED  BY <2>1, <2>2, SMTT(40)
  <1>10. ServedByItsModel'
    BY <1>5, <1>6, <1>7, <1>8, SMTT(40) DEF IInv, ServedByItsModel
  <1>11. LimitKnown'
    BY <1>1, <1>2, <1>6, <1>7 DEF IInv, LimitKnown
  <1> QED  BY <1>4, <1>7, <1>8, <1>9, <1>10, <1>11 DEF IInv

LEMMA AnsweredIInv ==
    ASSUME IInv, UNCHANGED <<socketOf, backendOf>>, NEW q \in Requests, Generate(q) \/ Unreachable(q) PROVE IInv'
  <1> DEFINE m == req[q].model
             w == path[Endpoint(backendOf[m])]
  <1>1. /\ UNCHANGED <<socketOf, backendOf, parent, workers, health, known>> /\ req[q].state \in {"asking", "checked"}
    BY DEF Generate, Unreachable
  <1>2. m \in Models /\ req[q].client = backendOf[m] /\ phase = "up"
    BY <1>1, SMTT(40) DEF IInv, Shapes, Served, NoRequest
  <1>3. PICK state \in {"served", "failed"}, by \in Models \cup {None} :
          /\ req' = [req EXCEPT ![q] = [req[q] EXCEPT !.state = state, !.by = by]]
          /\ state = "served" => req[q].state = "checked" /\ by = worker[w].model
    <2>1. CASE Generate(q)
      <3>1. worker[w].model \in Models
        BY <1>2, <2>1, AnswerHasModel DEF Generate
      <3>2. req' = [req EXCEPT ![q] = [req[q] EXCEPT !.state = "served", !.by = worker[w].model]]
        BY <2>1 DEF Generate, IInv, Shapes
      <3> QED  BY <2>1, <3>1, <3>2 DEF Generate
    <2>2. CASE Unreachable(q)
      <3>1. req[q].by \in Models \cup {None}
        BY DEF IInv, Shapes
      <3>2. req' = [req EXCEPT ![q] = [req[q] EXCEPT !.state = "failed", !.by = req[q].by]]
        BY <2>2 DEF Unreachable, IInv, Shapes
      <3> QED  BY <3>1, <3>2
    <2> QED  BY <2>1, <2>2, ZenonT(60)
  <1> DEFINE r == [req[q] EXCEPT !.state = state, !.by = by]
  <1>4. /\ r \in RequestRecord /\ req' = [req EXCEPT ![q] = r] /\ r.state = state /\ r.by = by
        /\ r.model = m /\ r.client = backendOf[m] /\ r.form = req[q].form
    BY <1>2, <1>3 DEF IInv, Shapes, RequestRecord
  <1> HIDE DEF r
  <1>5. /\ req'[q] = r /\ \A p \in Requests : p # q => req'[p] = req[p]
        /\ TypeOK' /\ Shapes' /\ Served'
    <2>1. health' \in [Backends -> Models \cup {None}] /\ known' \subseteq Backends /\ known \subseteq known'
      BY <1>1 DEF IInv, TypeOK
    <2> QED  BY <1>1, <1>2, <1>4, <2>1, RequestMoves
  <1>6. /\ UNCHANGED <<worker, left, path>> /\ Fresh' = Fresh /\ Progress' /\ Accounted' /\ Undisturbed'
        /\ \A a : Endpoint(a)' = Endpoint(a)
    BY <1>1, RestStays
  <1>7. HealthKnown'
    BY <1>1, <1>6 DEF IInv, HealthKnown
  <1>8. CheckedLeads'
    BY <1>1, <1>4, <1>5, <1>6 DEF IInv, CheckedLeads
  <1>9. ServedByItsModel'
    BY <1>3, <1>4, <1>5, <1>6 DEF IInv, ServedByItsModel, CheckedLeads
  <1>10. LimitKnown'
    BY <1>1, <1>3, <1>4, <1>5 DEF IInv, LimitKnown
  <1> QED  BY <1>5, <1>6, <1>7, <1>8, <1>9, <1>10 DEF IInv

LEMMA NextIInv == IInv /\ [Next]_vars => IInv'
  <1> SUFFICES ASSUME IInv, [Next]_vars PROVE IInv'
    OBVIOUS
  <1>1. CASE UNCHANGED vars
    <2>1. UNCHANGED <<socketOf, backendOf, parent, workers, health, known, req>>
      BY <1>1 DEF vars, api
    <2>2. /\ UNCHANGED <<phase, at, proc, procs, worker, left, path>> /\ Fresh' = Fresh /\ Owned' = Owned
          /\ Progress' /\ Accounted' /\ Undisturbed' /\ \A b : Endpoint(b)' = Endpoint(b)
      BY <2>1, RestStays
    <2>3. TypeOK' /\ Shapes' /\ Served'
      BY <2>1, <2>2 DEF IInv, TypeOK, Shapes, Served
    <2>4. HealthKnown' /\ CheckedLeads' /\ ServedByItsModel' /\ LimitKnown'
      BY <2>1, <2>2 DEF IInv, HealthKnown, CheckedLeads, ServedByItsModel, LimitKnown
    <2> QED  BY <2>2, <2>3, <2>4 DEF IInv
  <1>2. CASE Next
    <2>1. UNCHANGED <<socketOf, backendOf>> /\ Step
      BY <1>2 DEF Next
    <2>2. CASE Start
      BY <2>1, <2>2, StartStepIInv
    <2>3. CASE StartStep \/ Interrupt
      BY <2>1, <2>3, RegisteredIInv, SpawnIInv, FailedIInv DEF StartStep
    <2>4. CASE StopStep \/ Crash
      BY <2>1, <2>4, ServerEndsIInv, StopWorkerIInv, AllStoppedIInv DEF StopStep
    <2>5. CASE \E w \in Workers : Bind(w) \/ Loaded(w) \/ Die(w)
      BY <2>1, <2>5, BindIInv, LoadedOrDeadIInv
    <2>6. CASE \E q \in Requests, m \in Models, form \in Forms : Resolve(q, m, form)
      BY <2>1, <2>6, ResolveIInv
    <2>7. CASE \E q \in Requests : HealthAnswer(q) \/ Generate(q) \/ Unreachable(q)
      BY <2>1, <2>7, HealthAnswerIInv, AnsweredIInv
    <2>8. CASE (\E m \in Models : Probe(m)) \/ (\E b \in Backends : Expire(b))
      BY <2>1, <2>8, ProbeIInv, ExpireIInv
    <2> QED  BY <2>1, <2>2, <2>3, <2>4, <2>5, <2>6, <2>7, <2>8 DEF Step
  <1> QED  BY <1>1, <1>2

\* A parent that has stopped leaves no worker running but those a killed parent or an
\* interrupt left behind, for any number of routes, workers, crashes and deaths; and
\* every variable keeps its type.
THEOREM StoppedLeavesNone == Spec => []OwnedAreStopped
  <1>1. IInv => OwnedAreStopped
    BY EngineWorkersAssumption DEF IInv, Accounted, Progress, OwnedAreStopped
  <1> QED  BY InitIInv, NextIInv, <1>1, PTL DEF Spec

\* A request finds a worker of its model, which the socket of its route leads to and whose
\* context length its client knows, however many models share a socket or a backend, as
\* long as no worker was left behind.
THEOREM RightWorker == Spec => []RightWorkerServes
  <1>1. IInv => RightWorkerServes
    BY DEF IInv, Undisturbed, RightWorkerServes, OwnWorkerReachable
  <1> QED  BY InitIInv, NextIInv, <1>1, PTL DEF Spec

=============================================================================
