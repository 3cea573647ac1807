----------------------------- MODULE EngineService -----------------------------
(***************************************************************************)
(* One engine worker process: the engines it starts and stops, and the     *)
(* adapters operators load into and unload from the engine its routes      *)
(* serve, while generations that name adapters are under way.  Calls are   *)
(* coroutines that interleave where they wait for the engine.              *)
(*                                                                         *)
(* The inference engine is external.  It knows adapters by number: one it  *)
(* does not hold is loaded from the path that comes with it, one it holds  *)
(* stays as it is, and it may drop one to make room.                       *)
(***************************************************************************)
EXTENDS Integers, FiniteSets

CONSTANTS
  Models,      \* 1..n, the models this process boots; 1 is the one its routes serve
  Names,       \* of adapters
  Paths,       \* where adapters are stored
  Configured,  \* the adapters registered at start: a set of <<name, path, number>>
  Calls,       \* calls of the routes that can be under way at once
  MaxId,       \* bound: numbers of adapters are 1..MaxId
  None,
  Faults       \* "boot", "stop", "reject", "evict"

ASSUME EngineServiceAssumption ==
  /\ IsFiniteSet(Models) /\ Models = 1..Cardinality(Models) /\ Models # {} /\ MaxId \in Nat
  /\ Configured \subseteq Names \X Paths \X (1..MaxId)
  /\ \A x, y \in Configured : x[3] = y[3] => x = y
  /\ None \notin Names \cup Paths \cup [id : 1..MaxId, path : Paths]

VARIABLES
  phase,     \* of the process: "boot", "failed", "serving", "down"
  engine,    \* per model: "none", "running", "stopped", or "broken" when stopping it failed
  runtimes,  \* the models that have a runtime
  primary,   \* whether the manager has a primary runtime
  shown,     \* whether its list of adapters is the first runtime's
  adapters,  \* lora_requests of the first runtime: name -> None or [id, path]
  held,      \* external: number -> None or the path of what the engine holds
  call,      \* what each call is doing
  shared,    \* history: numbers two loads under way at once were given
  left       \* history: numbers the engine could still use when they were unregistered

vars == <<phase, engine, runtimes, primary, shown, adapters, held, call, shared, left>>

Ids == 1..MaxId
NoCall == [op |-> "none", at |-> "none", name |-> None, path |-> None, id |-> 0, ok |-> FALSE, used |-> None]
Registered == { n \in Names : adapters[n] # None }
Go(c, at) == call' = [call EXCEPT ![c].at = at]
End(c) == call' = [call EXCEPT ![c] = NoCall]

-----------------------------------------------------------------------------
(* The process. *)

\* Engines are made one after another; when one fails those before it are left to
\* the end of the process.
Start(n) ==
  /\ phase = "boot" /\ (n \in Models \/ n = 0)
  /\ n # Cardinality(Models) => "boot" \in Faults
  /\ engine' = [m \in Models |-> IF m <= n THEN "running" ELSE "none"]
  /\ runtimes' = 1..n
  /\ primary' = (n = Cardinality(Models)) /\ shown' = primary'
  /\ phase' = IF primary' THEN "serving" ELSE "failed"
  /\ UNCHANGED <<adapters, held, call, shared, left>>

\* Every engine is stopped, also when another fails to.
Shutdown(broken) ==
  /\ phase = "serving" /\ (broken # {} => "stop" \in Faults)
  /\ engine' = [m \in Models |-> IF m \in broken THEN "broken" ELSE "stopped"]
  /\ runtimes' = {} /\ primary' = FALSE /\ shown' = FALSE /\ phase' = "down"
  /\ held' = [i \in Ids |-> None]
  /\ UNCHANGED <<adapters, call, shared, left>>

\* What the health route reports.
Ready == runtimes # {} \/ primary

-----------------------------------------------------------------------------
(* Adapters. *)

Numbers == { adapters[n].id : n \in Registered }

\* Mutant: the number is counted, not taken after the highest.
CountedId == Cardinality(Registered) + 1
NextId == IF Registered = {} THEN 1 ELSE 1 + (CHOOSE i \in Numbers : \A j \in Numbers : j <= i)

\* Loading one that is there is refused, or nothing to do, at once.
Load(c, n, p) ==
  /\ phase = "serving" /\ call[c] = NoCall
  /\ n \notin Registered /\ NextId <= MaxId
  /\ call' = [call EXCEPT ![c] = [NoCall EXCEPT !.op = "load", !.at = "engine", !.name = n, !.path = p, !.id = NextId]]
  /\ shared' = shared \cup { i \in {NextId} : \E d \in Calls : call[d].op = "load" /\ call[d].id = i }
  /\ UNCHANGED <<phase, engine, runtimes, primary, shown, adapters, held, left>>

\* A stopped engine raises, a running one may refuse.
EngineAdd(c, ok) ==
  /\ call[c].op = "load" /\ call[c].at = "engine"
  /\ ok => engine[1] = "running"
  /\ ~ok => engine[1] # "running" \/ "reject" \in Faults
  /\ held' = IF ok /\ held[call[c].id] = None THEN [held EXCEPT ![call[c].id] = call[c].path] ELSE held
  /\ call' = [call EXCEPT ![c].at = "answer", ![c].ok = ok]
  /\ UNCHANGED <<phase, engine, runtimes, primary, shown, adapters, shared, left>>

\* The number of what is registered under the name of a call that ends.
Replaced(c) == { i \in Ids : adapters[call[c].name] # None /\ adapters[call[c].name].id = i }

\* Mutant: what is registered is shown whether the runtime still is the primary's or not.
RegisterAnyway(c) ==
  /\ call[c].op = "load" /\ call[c].at = "answer"
  /\ IF call[c].ok
       THEN /\ adapters' = [adapters EXCEPT ![call[c].name] = [id |-> call[c].id, path |-> call[c].path]]
            /\ shown' = TRUE
            /\ left' = left \cup Replaced(c)
       ELSE UNCHANGED <<adapters, shown, left>>
  /\ End(c)
  /\ UNCHANGED <<phase, engine, runtimes, primary, held, shared>>

Register(c) ==
  /\ call[c].op = "load" /\ call[c].at = "answer"
  /\ IF call[c].ok
       THEN /\ adapters' = [adapters EXCEPT ![call[c].name] = [id |-> call[c].id, path |-> call[c].path]]
            /\ shown' = (shown \/ primary)
            /\ left' = left \cup Replaced(c)
       ELSE UNCHANGED <<adapters, shown, left>>
  /\ End(c)
  /\ UNCHANGED <<phase, engine, runtimes, primary, held, shared>>

Unload(c, n) ==
  /\ phase = "serving" /\ call[c] = NoCall /\ n \in Registered
  /\ call' = [call EXCEPT ![c] = [NoCall EXCEPT !.op = "unload", !.at = "engine", !.name = n, !.id = adapters[n].id]]
  /\ UNCHANGED <<phase, engine, runtimes, primary, shown, adapters, held, shared, left>>

\* The engine refuses to remove what it does not hold, one it never used included.
EngineRemove(c) ==
  LET i == call[c].id IN
  /\ call[c].op = "unload" /\ call[c].at = "engine"
  /\ held' = IF engine[1] = "running" THEN [held EXCEPT ![i] = None] ELSE held
  /\ call' = [call EXCEPT ![c].at = "answer", ![c].ok = engine[1] = "running" /\ held[i] # None]
  /\ UNCHANGED <<phase, engine, runtimes, primary, shown, adapters, shared, left>>

Awaited(i) == \E d \in Calls : call[d].op = "generate" /\ call[d].at = "engine" /\ call[d].id = i

\* Whatever has the name is taken off the list.
Unregister(c) ==
  /\ call[c].op = "unload" /\ call[c].at = "answer"
  /\ IF call[c].ok
       THEN /\ adapters' = [adapters EXCEPT ![call[c].name] = None]
            /\ left' = left \cup { i \in Replaced(c) : held[i] # None \/ Awaited(i) }
       ELSE UNCHANGED <<adapters, left>>
  /\ End(c)
  /\ UNCHANGED <<phase, engine, runtimes, primary, shown, held, shared>>

-----------------------------------------------------------------------------
(* Generations. *)

\* The adapter is looked up when the generation begins ...
Generate(c, n) ==
  /\ phase = "serving" /\ call[c] = NoCall /\ n \in Registered
  /\ call' = [call EXCEPT ![c] = [NoCall EXCEPT !.op = "generate", !.at = "engine", !.name = n,
                                                !.path = adapters[n].path, !.id = adapters[n].id]]
  /\ UNCHANGED <<phase, engine, runtimes, primary, shown, adapters, held, shared, left>>

\* ... and used when the engine comes to it, which a stopped one never does.
EngineRun(c) ==
  LET i == call[c].id
      used == IF held[i] = None THEN call[c].path ELSE held[i] IN
  /\ call[c].op = "generate" /\ call[c].at = "engine"
  /\ IF engine[1] = "running"
       THEN held' = [held EXCEPT ![i] = used] /\ call' = [call EXCEPT ![c].at = "run", ![c].used = used]
       ELSE UNCHANGED held /\ End(c)
  /\ UNCHANGED <<phase, engine, runtimes, primary, shown, adapters, shared, left>>

\* The stream ends, or breaks off.
EndRun(c) ==
  /\ call[c].op = "generate" /\ call[c].at = "run"
  /\ End(c)
  /\ UNCHANGED <<phase, engine, runtimes, primary, shown, adapters, held, shared, left>>

Evict(i) ==
  /\ "evict" \in Faults /\ engine[1] = "running" /\ held[i] # None
  /\ held' = [held EXCEPT ![i] = None]
  /\ UNCHANGED <<phase, engine, runtimes, primary, shown, adapters, call, shared, left>>

-----------------------------------------------------------------------------
Init ==
  /\ phase = "boot" /\ engine = [m \in Models |-> "none"] /\ runtimes = {}
  /\ primary = FALSE /\ shown = FALSE
  /\ adapters = [n \in Names |-> IF \E a \in Configured : a[1] = n
                   THEN LET a == CHOOSE a \in Configured : a[1] = n IN [id |-> a[3], path |-> a[2]]
                   ELSE None]
  /\ held = [i \in Ids |-> None] /\ call = [c \in Calls |-> NoCall] /\ shared = {} /\ left = {}

Next ==
  \/ \E n \in 0..Cardinality(Models) : Start(n)
  \/ \E broken \in SUBSET Models : Shutdown(broken)
  \/ \E c \in Calls, n \in Names :
       (\E p \in Paths : Load(c, n, p)) \/ Unload(c, n) \/ Generate(c, n)
  \/ \E c \in Calls :
       \/ (\E ok \in BOOLEAN : EngineAdd(c, ok)) \/ Register(c)
       \/ EngineRemove(c) \/ Unregister(c) \/ EngineRun(c) \/ EndRun(c)
  \/ \E i \in Ids : Evict(i)

Spec == Init /\ [][Next]_vars

-----------------------------------------------------------------------------
TypeOK ==
  /\ phase \in {"boot", "failed", "serving", "down"}
  /\ engine \in [Models -> {"none", "running", "stopped", "broken"}]
  /\ runtimes \subseteq Models /\ primary \in BOOLEAN /\ shown \in BOOLEAN
  /\ adapters \in [Names -> {None} \cup [id : Ids, path : Paths]]
  /\ held \in [Ids -> Paths \cup {None}]
  /\ call \in [Calls -> [op : {"none", "load", "unload", "generate"}, at : {"none", "engine", "answer", "run"},
                         name : Names \cup {None}, path : Paths \cup {None}, id : Ids \cup {0},
                         ok : BOOLEAN, used : Paths \cup {None}]]
  /\ shared \subseteq Ids /\ left \subseteq Ids

\* Two registered adapters never have one number, unless their loads overlapped:
\* numbers are handed out again after unloads in any order.
NumbersDiffer ==
  /\ TypeOK
  /\ \A n, o \in Registered : n # o /\ adapters[n].id = adapters[o].id
       => adapters[n].id \in shared

\* A generation runs with the adapter it was asked for, although others come and
\* go and the engine drops some, unless its number was given to two loads at once
\* or was unregistered or replaced while the engine could still use it.
RunsItsAdapter ==
  \A c \in Calls : call[c].at = "run" /\ call[c].id \notin shared \cup left => call[c].used = call[c].path

\* After a shutdown nothing runs, nothing is shown as ready and no adapter is
\* listed, whichever engines failed to stop and whatever calls finish after it.
ShutdownLeavesNothing ==
  phase = "down" => ~Ready /\ ~shown /\ \A m \in Models : engine[m] \in {"stopped", "broken"}

=============================================================================
