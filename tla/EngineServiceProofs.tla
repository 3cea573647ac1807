------------------------- MODULE EngineServiceProofs -------------------------
(***************************************************************************)
(* Proofs about the engine service, for all sets of models, adapters,      *)
(* paths and calls and every fault: its variables keep their types, two    *)
(* registered adapters differ in number, a generation runs its adapter,    *)
(* and a shutdown leaves nothing.                                          *)
(***************************************************************************)
EXTENDS EngineService, FiniteSetTheorems, WellFoundedInduction, TLAPS

Loading(c, i) == call[c].op = "load" /\ call[c].id = i
Waiting(c, i) == call[c].op = "generate" /\ call[c].at = "engine" /\ call[c].id = i
Known(n, i) == adapters[n] # None /\ adapters[n].id = i

\* A call under way has a name and a number; only generations run.
CallShape ==
  \A c \in Calls :
    IF call[c].op = "none" THEN call[c] = NoCall
    ELSE /\ call[c].name \in Names /\ call[c].id \in Ids
         /\ call[c].at \in IF call[c].op = "generate" THEN {"engine", "run"} ELSE {"engine", "answer"}
         /\ call[c].op \in {"load", "generate"} => call[c].path \in Paths

\* A number is registered, or about to be, at most once, unless it is shared.
NumbersApart ==
  \A i \in Ids \ shared :
    /\ \A n, o \in Names : Known(n, i) /\ Known(o, i) => n = o
    /\ \A c, d \in Calls : Loading(c, i) /\ Loading(d, i) => c = d
    /\ \A c \in Calls, n \in Names : ~(Loading(c, i) /\ Known(n, i))

\* What the engine holds or may yet load under a number is registered under it, or
\* was just accepted and is about to be registered.
HeldIsKnown ==
  \A i \in Ids \ (shared \cup left) :
    held[i] # None \/ Awaited(i) =>
      \/ \E n \in Names : Known(n, i)
      \/ \E c \in Calls : Loading(c, i) /\ call[c].at = "answer" /\ call[c].ok

\* Whoever uses a number agrees on where its adapter is stored.
PathsAgree ==
  \A i \in Ids \ (shared \cup left), p \in Paths :
    (\E n \in Names : Known(n, i) /\ adapters[n].path = p) \/ (\E c \in Calls : Loading(c, i) /\ call[c].path = p) =>
      /\ held[i] \in {None, p}
      /\ \A c \in Calls : Waiting(c, i) => call[c].path = p

Quiet == phase \in {"boot", "failed", "down"} => ~shown /\ ~primary

\* The facts each step keeps.
IInv == TypeOK /\ CallShape /\ NumbersApart /\ HeldIsKnown /\ PathsAgree /\ RunsItsAdapter /\ Quiet /\ ShutdownLeavesNothing

\* A set of numbers up to a bound has a highest one.
LEMMA HighestExists ==
    ASSUME NEW S, S \subseteq Ids, S # {}
    PROVE  \E i \in S : \A j \in S : j <= i
  <1> DEFINE R == { ss \in Nat \X Nat : ss[1] < ss[2] }
             T == { MaxId - i : i \in S }
  <1>1. T \subseteq Nat /\ T # {}
    <2>1. MaxId \in Nat /\ S \subseteq 1..MaxId
      BY EngineServiceAssumption DEF Ids
    <2>2. \A i \in S : MaxId - i \in Nat
      BY <2>1
    <2> QED  BY <2>2
  <1>2. IsWellFoundedOn(R, Nat)
    BY NatLessThanWellFounded DEF OpToRel
  <1>3. PICK x \in T : \A y \in T : ~(<<y, x>> \in R)
    <2> HIDE DEF R, T
    <2> QED  BY <1>1, <1>2, WFMin
  <1>4. PICK i \in S : x = MaxId - i
    OBVIOUS
  <1>5. ASSUME NEW j \in S PROVE j <= i
    <2>1. MaxId - j \in T
      OBVIOUS
    <2>2. ~(<<MaxId - j, MaxId - i>> \in R)
      BY <1>3, <1>4, <2>1
    <2>3. ~(MaxId - j < MaxId - i)
      BY <1>1, <1>4, <2>1, <2>2
    <2> QED  BY <2>3, EngineServiceAssumption DEF Ids
  <1> QED  BY <1>5

\* The number given to an adapter is one no registered adapter has.
LEMMA NextIdIsFresh ==
    ASSUME TypeOK, NextId <= MaxId
    PROVE  NextId \in Ids /\ \A n \in Names : ~Known(n, NextId)
  <1>1. \A n \in Registered : adapters[n].id \in Ids
    BY DEF TypeOK, Registered
  <1>2. CASE Registered = {}
    BY <1>2, EngineServiceAssumption DEF NextId, Registered, Ids, Known
  <1>3. CASE Registered # {}
    <2> DEFINE top == CHOOSE i \in Numbers : \A j \in Numbers : j <= i
    <2>1. Numbers \subseteq Ids /\ Numbers # {}
      BY <1>1, <1>3 DEF Numbers
    <2>2. top \in Numbers /\ \A j \in Numbers : j <= top
      <3>1. \E i \in Numbers : \A j \in Numbers : j <= i
        BY <2>1, HighestExists
      <3> QED  BY <3>1
    <2>3. NextId = 1 + top
      BY <1>3 DEF NextId
    <2> HIDE DEF top
    <2>4. NextId \in Ids
      BY <2>1, <2>2, <2>3, EngineServiceAssumption DEF Ids
    <2>5. ASSUME NEW n \in Names, Known(n, NextId) PROVE FALSE
      <3>1. NextId \in Numbers
        BY <2>5 DEF Known, Numbers, Registered
      <3> QED  BY <2>1, <2>2, <2>3, <3>1, EngineServiceAssumption DEF Ids
    <2> QED  BY <2>4, <2>5
  <1> QED  BY <1>2, <1>3

LEMMA ModelsAreNumbered == Cardinality(Models) \in Nat /\ 1 \in Models /\ \A n \in 0..Cardinality(Models) : 1..n \subseteq Models
  <1>1. Cardinality(Models) \in Nat
    BY EngineServiceAssumption, FS_CardinalityType
  <1> QED  BY <1>1, EngineServiceAssumption

\* What a step that changes one call does to the calls.
CallRecord ==
  [op : {"none", "load", "unload", "generate"}, at : {"none", "engine", "answer", "run"},
   name : Names \cup {None}, path : Paths \cup {None}, id : Ids \cup {0}, ok : BOOLEAN, used : Paths \cup {None}]

LEMMA OneCallChanges ==
    ASSUME TypeOK, NEW c \in Calls, NEW r \in CallRecord, call' = [call EXCEPT ![c] = r]
    PROVE  /\ call' \in [Calls -> CallRecord]
           /\ call'[c] = r /\ \A d \in Calls : d # c => call'[d] = call[d]
  BY DEF TypeOK, CallRecord

LEMMA EndsCall ==
    ASSUME TypeOK, NEW c \in Calls, End(c)
    PROVE  /\ call' \in [Calls -> CallRecord]
           /\ call'[c] = NoCall /\ \A d \in Calls : d # c => call'[d] = call[d]
  <1>1. NoCall \in CallRecord
    BY DEF NoCall, CallRecord
  <1> QED  BY <1>1, OneCallChanges DEF End

\* Where a call has come to is changed, and what it found.
LEMMA CallMoves ==
    ASSUME TypeOK, NEW c \in Calls, NEW at \in {"none", "engine", "answer", "run"}, NEW ok \in BOOLEAN
    PROVE  /\ [call[c] EXCEPT !.at = at, !.ok = ok] \in CallRecord
           /\ [call EXCEPT ![c].at = at, ![c].ok = ok] = [call EXCEPT ![c] = [call[c] EXCEPT !.at = at, !.ok = ok]]
  <1>1. call[c] \in CallRecord
    BY DEF TypeOK, CallRecord
  <1>2. [call[c] EXCEPT !.at = at, !.ok = ok] \in CallRecord
    BY <1>1 DEF CallRecord
  <1> QED  BY <1>2 DEF TypeOK

LEMMA InitIInv == Init => IInv
  <1> SUFFICES ASSUME Init PROVE IInv
    OBVIOUS
  <1>1. ASSUME NEW n \in Names, adapters[n] # None
        PROVE  \E e \in Configured : e[1] = n /\ adapters[n] = [id |-> e[3], path |-> e[2]]
    BY <1>1 DEF Init
  <1>2. adapters \in [Names -> {None} \cup [id : Ids, path : Paths]]
    BY EngineServiceAssumption DEF Init, Ids
  <1>3. TypeOK
    BY <1>2, EngineServiceAssumption DEF Init, TypeOK, NoCall, Ids
  <1>4. NumbersApart
    <2>1. ASSUME NEW n \in Names, NEW o \in Names, NEW i \in Ids, Known(n, i), Known(o, i) PROVE n = o
      <3>1. PICK e \in Configured : e[1] = n /\ adapters[n] = [id |-> e[3], path |-> e[2]]
        BY <1>1, <2>1 DEF Known
      <3>2. PICK f \in Configured : f[1] = o /\ adapters[o] = [id |-> f[3], path |-> f[2]]
        BY <1>1, <2>1 DEF Known
      <3>3. e[3] = f[3]
        BY <2>1, <3>1, <3>2 DEF Known
      <3> QED  BY <3>1, <3>2, <3>3, EngineServiceAssumption
    <2> QED  BY <2>1 DEF NumbersApart, Init, Loading, NoCall
  <1>5. CallShape /\ HeldIsKnown /\ RunsItsAdapter /\ Quiet /\ ShutdownLeavesNothing
    BY DEF Init, CallShape, HeldIsKnown, RunsItsAdapter, Quiet, ShutdownLeavesNothing, Awaited, NoCall
  <1>6. PathsAgree
    BY DEF Init, PathsAgree, Waiting, NoCall
  <1> QED  BY <1>3, <1>4, <1>5, <1>6 DEF IInv

-----------------------------------------------------------------------------
(* Each step keeps the facts. *)

LEMMA ProcessSteps ==
    ASSUME IInv,
           \/ \E n \in 0..Cardinality(Models) : Start(n)
           \/ \E broken \in SUBSET Models : Shutdown(broken)
    PROVE  IInv'
  <1> USE DEF IInv
  <1>1. ASSUME NEW n \in 0..Cardinality(Models), Start(n) PROVE IInv'
    <2>1. TypeOK'
      BY <1>1, ModelsAreNumbered DEF Start, TypeOK
    <2>2. CallShape' /\ NumbersApart' /\ HeldIsKnown' /\ PathsAgree' /\ RunsItsAdapter'
      BY <1>1 DEF Start, CallShape, NumbersApart, HeldIsKnown, PathsAgree, RunsItsAdapter,
                  Known, Loading, Waiting, Awaited
    <2>3. Quiet' /\ ShutdownLeavesNothing'
      BY <1>1 DEF Start, Quiet, ShutdownLeavesNothing
    <2> QED  BY <2>1, <2>2, <2>3
  <1>2. ASSUME NEW broken \in SUBSET Models, Shutdown(broken) PROVE IInv'
    <2>1. TypeOK'
      BY <1>2 DEF Shutdown, TypeOK
    <2>2. CallShape' /\ NumbersApart' /\ RunsItsAdapter'
      BY <1>2 DEF Shutdown, CallShape, NumbersApart, RunsItsAdapter, Known, Loading
    <2>3. HeldIsKnown' /\ PathsAgree'
      BY <1>2 DEF Shutdown, HeldIsKnown, PathsAgree, Known, Loading, Waiting, Awaited
    <2>4. Quiet' /\ ShutdownLeavesNothing'
      BY <1>2 DEF Shutdown, Quiet, ShutdownLeavesNothing, Ready
    <2> QED  BY <2>1, <2>2, <2>3, <2>4
  <1> QED  BY <1>1, <1>2

\* What a step that changes one call only does to the others.
LEMMA LoadKeeps ==
    ASSUME IInv, NEW c \in Calls, NEW n \in Names, NEW p \in Paths, Load(c, n, p)
    PROVE  IInv'
  <1> USE DEF IInv
  <1> DEFINE new == [NoCall EXCEPT !.op = "load", !.at = "engine", !.name = n, !.path = p, !.id = NextId]
  <1>1. NextId \in Ids /\ \A o \in Names : ~Known(o, NextId)
    BY NextIdIsFresh DEF Load
  <1>2. call' = [call EXCEPT ![c] = new] /\ call[c].op = "none"
    BY DEF Load, NoCall
  <1>3. /\ new \in CallRecord /\ new.op = "load" /\ new.at = "engine" /\ new.name = n
        /\ new.path = p /\ new.id = NextId /\ new.ok = FALSE
    BY <1>1 DEF CallRecord, NoCall
  <1> HIDE DEF new
  <1>4. call' \in [Calls -> CallRecord] /\ call'[c] = new /\ \A d \in Calls : d # c => call'[d] = call[d]
    BY <1>2, <1>3, OneCallChanges
  <1>5. UNCHANGED <<phase, engine, runtimes, primary, shown, adapters, held, left>> /\ shared \subseteq shared'
    BY DEF Load
  <1>6. \A d \in Calls : Loading(d, NextId) => NextId \in shared'
    BY DEF Load, Loading
  <1>7. TypeOK'
    BY <1>1, <1>4 DEF Load, TypeOK, CallRecord
  <1>8. CallShape'
    <2>1. call'[c].op = "load" /\ call'[c].name = n /\ call'[c].id = NextId /\ call'[c].at = "engine" /\ call'[c].path = p
      BY <1>3, <1>4
    <2> QED  BY <1>1, <1>4, <2>1 DEF CallShape
  <1>9. NumbersApart'
    BY <1>1, <1>2, <1>3, <1>4, <1>5, <1>6 DEF NumbersApart, Known, Loading
  <1>10. HeldIsKnown'
    BY <1>2, <1>3, <1>4, <1>5 DEF HeldIsKnown, Known, Loading, Awaited
  <1>11. PathsAgree'
    <2>1. ASSUME NextId \notin shared' \cup left'
          PROVE  held[NextId] = None /\ \A d \in Calls : ~Waiting(d, NextId)
      BY <1>1, <1>5, <1>6, <2>1 DEF HeldIsKnown, Waiting, Awaited
    <2> QED  BY <1>2, <1>3, <1>4, <1>5, <2>1 DEF PathsAgree, Known, Loading, Waiting
  <1>12. RunsItsAdapter' /\ Quiet' /\ ShutdownLeavesNothing'
    BY <1>3, <1>4, <1>5 DEF RunsItsAdapter, Quiet, ShutdownLeavesNothing, Ready
  <1> QED  BY <1>7, <1>8, <1>9, <1>10, <1>11, <1>12

LEMMA EngineAddKeeps ==
    ASSUME IInv, NEW c \in Calls, NEW ok \in BOOLEAN, EngineAdd(c, ok)
    PROVE  IInv'
  <1> USE DEF IInv
  <1> DEFINE i == call[c].id
             p == call[c].path
  <1>1. call[c].op = "load" /\ i \in Ids /\ p \in Paths /\ call[c].at = "engine" /\ call[c].name \in Names
    BY DEF EngineAdd, CallShape
  <1>2. /\ call'[c] = [call[c] EXCEPT !.at = "answer", !.ok = ok]
        /\ \A d \in Calls : d # c => call'[d] = call[d]
        /\ UNCHANGED <<phase, engine, runtimes, primary, shown, adapters, shared, left>>
    BY DEF EngineAdd, TypeOK
  <1>3. /\ call'[c].op = "load" /\ call'[c].id = i /\ call'[c].path = p /\ call'[c].name = call[c].name
        /\ call'[c].at = "answer" /\ call'[c].ok = ok
    BY <1>1, <1>2 DEF TypeOK
  <1>4. \A j \in Ids : held'[j] = IF ok /\ j = i /\ held[i] = None THEN p ELSE held[j]
    BY <1>1 DEF EngineAdd, TypeOK
  <1>5. TypeOK'
    <2>1. call' \in [Calls -> CallRecord]
      <3> DEFINE r == [call[c] EXCEPT !.at = "answer", !.ok = ok]
      <3>1. r \in CallRecord /\ call' = [call EXCEPT ![c] = r]
        BY CallMoves DEF EngineAdd
      <3> HIDE DEF r
      <3> QED  BY <3>1, OneCallChanges
    <2> QED  BY <1>1, <2>1 DEF EngineAdd, TypeOK, CallRecord
  <1>6. CallShape'
    BY <1>1, <1>2, <1>3, ZenonT(60) DEF CallShape
  <1>7. \A d \in Calls, j \in Ids : /\ Loading(d, j)' <=> Loading(d, j)
                                    /\ Waiting(d, j)' <=> Waiting(d, j)
                                    /\ Loading(d, j) => call'[d].path = call[d].path
                                    /\ Waiting(d, j) => call'[d].path = call[d].path
    BY <1>1, <1>2, <1>3, ZenonT(60) DEF Loading, Waiting
  <1>8. \A n \in Names, j \in Ids : Known(n, j)' <=> Known(n, j)
    BY <1>2 DEF Known
  <1>9. NumbersApart'
    BY <1>2, <1>7, <1>8 DEF NumbersApart
  <1>10. HeldIsKnown'
    <2>1. \A j \in Ids : Awaited(j)' <=> Awaited(j)
      BY <1>7 DEF Awaited, Waiting
    <2> SUFFICES ASSUME NEW j \in Ids \ (shared \cup left), held'[j] # None \/ Awaited(j)'
                 PROVE  \/ \E n \in Names : Known(n, j)'
                        \/ \E d \in Calls : Loading(d, j)' /\ call'[d].at = "answer" /\ call'[d].ok
      BY <1>2 DEF HeldIsKnown
    <2>2. CASE held[j] = None /\ ~Awaited(j)
      BY <2>1, <2>2, <1>3, <1>4, <1>1 DEF Loading
    <2>3. CASE held[j] # None \/ Awaited(j)
      <3>1. CASE \E n \in Names : Known(n, j)
        BY <3>1, <1>8
      <3>2. CASE \E d \in Calls : Loading(d, j) /\ call[d].at = "answer" /\ call[d].ok
        BY <3>2, <1>1, <1>2, <1>7
      <3> QED  BY <2>3, <3>1, <3>2 DEF HeldIsKnown
    <2> QED  BY <2>2, <2>3
  <1>11. PathsAgree'
    <2> SUFFICES ASSUME NEW j \in Ids \ (shared \cup left), NEW q \in Paths,
                        \/ \E n \in Names : Known(n, j) /\ adapters[n].path = q
                        \/ \E d \in Calls : Loading(d, j) /\ call[d].path = q
                 PROVE  held'[j] \in {None, q} /\ \A d \in Calls : Waiting(d, j) => call[d].path = q
      BY <1>2, <1>7, <1>8 DEF PathsAgree
    <2>1. held[j] \in {None, q} /\ \A d \in Calls : Waiting(d, j) => call[d].path = q
      BY DEF PathsAgree
    <2>2. CASE j = i
      <3>1. q = p
        BY <1>1, <2>2 DEF NumbersApart, Loading
      <3> QED  BY <2>1, <2>2, <3>1, <1>4
    <2> QED  BY <2>1, <2>2, <1>4
  <1>12. RunsItsAdapter' /\ Quiet' /\ ShutdownLeavesNothing'
    BY <1>2, <1>3, ZenonT(60) DEF RunsItsAdapter, Quiet, ShutdownLeavesNothing, Ready
  <1> QED  BY <1>5, <1>6, <1>9, <1>10, <1>11, <1>12

LEMMA RegisterKeeps ==
    ASSUME IInv, NEW c \in Calls, Register(c)
    PROVE  IInv'
  <1> USE DEF IInv
  <1> DEFINE i == call[c].id
             p == call[c].path
             n == call[c].name
  <1>1. call[c].op = "load" /\ call[c].at = "answer" /\ i \in Ids /\ p \in Paths /\ n \in Names
    BY DEF Register, CallShape
  <1>2. /\ call' \in [Calls -> CallRecord]
        /\ call'[c] = NoCall /\ \A d \in Calls : d # c => call'[d] = call[d]
    BY EndsCall DEF Register
  <1>3. /\ UNCHANGED <<phase, engine, runtimes, primary, held, shared>> /\ left \subseteq left'
        /\ Quiet' /\ ShutdownLeavesNothing'
    BY DEF Register, Quiet, ShutdownLeavesNothing, Ready
  <1>4. CASE call[c].ok
    <2>1. /\ adapters' = [adapters EXCEPT ![n] = [id |-> i, path |-> p]] /\ left' = left \cup Replaced(c)
          /\ shown' = (shown \/ primary)
      BY <1>4 DEF Register
    <2>2. [id |-> i, path |-> p] \in [id : Ids, path : Paths] /\ [id |-> i, path |-> p] # None
      BY <1>1, EngineServiceAssumption DEF Ids
    <2>3. TypeOK'
      BY <1>2, <1>3, <2>1, <2>2 DEF TypeOK, CallRecord, Replaced
    <2>4. /\ adapters'[n] = [id |-> i, path |-> p] /\ \A o \in Names : o # n => adapters'[o] = adapters[o]
          /\ \A o \in Names, j \in Ids : Known(o, j)' <=> IF o = n THEN j = i ELSE Known(o, j)
      BY <1>1, <2>1, <2>2 DEF TypeOK, Known
    <2>5. CallShape'
      BY <1>2 DEF CallShape, NoCall
    <2>6. \A d \in Calls, j \in Ids : /\ Loading(d, j)' <=> d # c /\ Loading(d, j)
                                      /\ Waiting(d, j)' <=> d # c /\ Waiting(d, j)
      BY <1>2 DEF Loading, Waiting, NoCall
    <2>7. Loading(c, i) /\ \A j \in Ids : ~Waiting(c, j)
      BY <1>1 DEF Loading, Waiting
    <2>8. NumbersApart'
      BY <1>1, <1>3, <2>4, <2>6, <2>7 DEF NumbersApart
    <2>9. HeldIsKnown'
      <3> SUFFICES ASSUME NEW j \in Ids \ (shared \cup left'), held[j] # None \/ Awaited(j)'
                   PROVE  \/ \E o \in Names : Known(o, j)'
                          \/ \E d \in Calls : Loading(d, j)' /\ call'[d].at = "answer" /\ call'[d].ok
        BY <1>3 DEF HeldIsKnown
      <3>1. Awaited(j)' => Awaited(j)
        BY <2>6 DEF Awaited, Waiting
      <3>2. CASE \E o \in Names : Known(o, j)
        BY <1>1, <2>1, <2>4, <3>2 DEF Known, Replaced
      <3>3. CASE \E d \in Calls : Loading(d, j) /\ call[d].at = "answer" /\ call[d].ok
        <4>1. PICK d \in Calls : Loading(d, j) /\ call[d].at = "answer" /\ call[d].ok
          BY <3>3
        <4>2. CASE d = c
          BY <1>1, <2>4, <4>1, <4>2 DEF Loading
        <4> QED  BY <1>2, <2>6, <4>1, <4>2
      <3> QED  BY <1>3, <3>1, <3>2, <3>3 DEF HeldIsKnown
    <2>10. PathsAgree'
      <3> SUFFICES ASSUME NEW j \in Ids \ (shared \cup left'), NEW q \in Paths,
                          \/ \E o \in Names : Known(o, j)' /\ adapters'[o].path = q
                          \/ \E d \in Calls : Loading(d, j)' /\ call'[d].path = q
                   PROVE  held[j] \in {None, q} /\ \A d \in Calls : Waiting(d, j)' => call'[d].path = q
        BY <1>3 DEF PathsAgree
      <3>1. \/ \E o \in Names : Known(o, j) /\ adapters[o].path = q
            \/ \E d \in Calls : Loading(d, j) /\ call[d].path = q
        BY <1>1, <1>2, <2>4, <2>6, <2>7
      <3> QED  BY <1>2, <1>3, <2>6, <3>1 DEF PathsAgree
    <2>11. RunsItsAdapter'
      BY <1>2, <1>3 DEF RunsItsAdapter, NoCall
    <2> QED  BY <1>3, <2>3, <2>5, <2>8, <2>9, <2>10, <2>11
  <1>5. CASE ~call[c].ok
    <2>1. UNCHANGED <<adapters, shown, left>>
      BY <1>5 DEF Register
    <2>2. TypeOK'
      BY <1>2, <1>3, <2>1 DEF TypeOK, CallRecord
    <2>3. CallShape' /\ RunsItsAdapter'
      BY <1>2, <1>3, <2>1 DEF CallShape, RunsItsAdapter, NoCall
    <2>4. NumbersApart' /\ HeldIsKnown' /\ PathsAgree'
      BY <1>2, <1>3, <1>5, <2>1 DEF NumbersApart, HeldIsKnown, PathsAgree, Known, Loading, Waiting, Awaited, NoCall
    <2> QED  BY <1>3, <2>2, <2>3, <2>4
  <1> QED  BY <1>4, <1>5

LEMMA UnloadKeeps ==
    ASSUME IInv, NEW c \in Calls, NEW n \in Names, Unload(c, n)
    PROVE  IInv'
  <1> USE DEF IInv
  <1> DEFINE new == [NoCall EXCEPT !.op = "unload", !.at = "engine", !.name = n, !.id = adapters[n].id]
  <1>1. /\ call' = [call EXCEPT ![c] = new] /\ call[c].op = "none" /\ adapters[n].id \in Ids
        /\ UNCHANGED <<phase, engine, runtimes, primary, shown, adapters, held, shared, left>>
    BY DEF Unload, NoCall, Registered, TypeOK
  <1>2. new \in CallRecord /\ new.op = "unload" /\ new.at = "engine" /\ new.name = n /\ new.id = adapters[n].id
    BY <1>1 DEF CallRecord, NoCall
  <1> HIDE DEF new
  <1>3. call' \in [Calls -> CallRecord] /\ call'[c] = new /\ \A d \in Calls : d # c => call'[d] = call[d]
    BY <1>1, <1>2, OneCallChanges
  <1>4. TypeOK' /\ CallShape'
    BY <1>1, <1>2, <1>3 DEF TypeOK, CallRecord, CallShape
  <1>5. NumbersApart' /\ HeldIsKnown' /\ PathsAgree'
    BY <1>1, <1>2, <1>3 DEF NumbersApart, HeldIsKnown, PathsAgree, Known, Loading, Waiting, Awaited
  <1>6. RunsItsAdapter' /\ Quiet' /\ ShutdownLeavesNothing'
    BY <1>1, <1>2, <1>3 DEF RunsItsAdapter, Quiet, ShutdownLeavesNothing, Ready
  <1> QED  BY <1>4, <1>5, <1>6

LEMMA EngineRemoveKeeps ==
    ASSUME IInv, NEW c \in Calls, EngineRemove(c)
    PROVE  IInv'
  <1> USE DEF IInv
  <1> DEFINE ok == engine[1] = "running" /\ held[call[c].id] # None
             new == [call[c] EXCEPT !.at = "answer", !.ok = ok]
  <1>1. /\ call[c].op = "unload" /\ call[c].id \in Ids /\ call[c].name \in Names
        /\ UNCHANGED <<phase, engine, runtimes, primary, shown, adapters, shared, left>>
    BY DEF EngineRemove, CallShape
  <1>2. new \in CallRecord /\ call' = [call EXCEPT ![c] = new]
    <2>1. ok \in BOOLEAN
      OBVIOUS
    <2> HIDE DEF ok
    <2>2. new \in CallRecord /\ [call EXCEPT ![c].at = "answer", ![c].ok = ok] = [call EXCEPT ![c] = new]
      BY <2>1, CallMoves, ZenonT(60)
    <2> HIDE DEF new
    <2> QED  BY <2>2 DEF EngineRemove, ok
  <1>3. new.op = "unload" /\ new.at = "answer" /\ new.name = call[c].name /\ new.id = call[c].id
    BY <1>1 DEF TypeOK
  <1> HIDE DEF new
  <1>4. call' \in [Calls -> CallRecord] /\ call'[c] = new /\ \A d \in Calls : d # c => call'[d] = call[d]
    BY <1>2, OneCallChanges
  <1>5. held' \in [Ids -> Paths \cup {None}] /\ \A j \in Ids : held'[j] \in {None, held[j]}
    BY <1>1 DEF EngineRemove, TypeOK
  <1>6. TypeOK' /\ CallShape'
    BY <1>1, <1>3, <1>4, <1>5 DEF TypeOK, CallRecord, CallShape
  <1>7. NumbersApart' /\ HeldIsKnown' /\ PathsAgree'
    <2>1. \A d \in Calls, j \in Ids : /\ Loading(d, j)' <=> Loading(d, j)
                                      /\ Waiting(d, j)' <=> Waiting(d, j)
                                      /\ Loading(d, j) \/ Waiting(d, j) => call'[d] = call[d]
      BY <1>1, <1>3, <1>4 DEF Loading, Waiting
    <2>2. \A j \in Ids : Awaited(j)' <=> Awaited(j)
      BY <2>1 DEF Awaited, Waiting
    <2> QED  BY <1>1, <1>5, <2>1, <2>2 DEF NumbersApart, HeldIsKnown, PathsAgree, Known
  <1>8. RunsItsAdapter' /\ Quiet' /\ ShutdownLeavesNothing'
    BY <1>1, <1>3, <1>4 DEF RunsItsAdapter, Quiet, ShutdownLeavesNothing, Ready
  <1> QED  BY <1>6, <1>7, <1>8

LEMMA UnregisterKeeps ==
    ASSUME IInv, NEW c \in Calls, Unregister(c)
    PROVE  IInv'
  <1> USE DEF IInv
  <1> DEFINE n == call[c].name
  <1>1. call[c].op = "unload" /\ n \in Names
    BY DEF Unregister, CallShape
  <1>2. /\ call' \in [Calls -> CallRecord]
        /\ call'[c] = NoCall /\ \A d \in Calls : d # c => call'[d] = call[d]
    BY EndsCall DEF Unregister
  <1>3. /\ UNCHANGED <<phase, engine, runtimes, primary, shown, held, shared>> /\ left \subseteq left'
        /\ \/ UNCHANGED <<adapters, left>>
           \/ /\ adapters' = [adapters EXCEPT ![n] = None]
              /\ left' = left \cup { j \in Replaced(c) : held[j] # None \/ Awaited(j) }
    BY DEF Unregister
  <1>4. adapters' \in [Names -> {None} \cup [id : Ids, path : Paths]] /\ left' \subseteq Ids
    BY <1>3 DEF TypeOK, Replaced
  <1>5. TypeOK' /\ CallShape' /\ RunsItsAdapter' /\ Quiet' /\ ShutdownLeavesNothing'
    BY <1>2, <1>3, <1>4, SMTT(40) DEF TypeOK, CallRecord, CallShape, RunsItsAdapter, Quiet, ShutdownLeavesNothing, Ready, NoCall
  <1>6. \A d \in Calls, j \in Ids : /\ Loading(d, j)' <=> Loading(d, j)
                                    /\ Waiting(d, j)' <=> Waiting(d, j)
                                    /\ Loading(d, j) \/ Waiting(d, j) => call'[d] = call[d]
    BY <1>1, <1>2 DEF Loading, Waiting, NoCall
  <1>7. \A o \in Names, j \in Ids : Known(o, j)' => Known(o, j) /\ adapters'[o] = adapters[o]
    BY <1>1, <1>3 DEF TypeOK, Known
  <1>8. \A j \in Ids : Awaited(j)' <=> Awaited(j)
    BY <1>6 DEF Awaited, Waiting
  <1>9. NumbersApart' /\ PathsAgree'
    BY <1>3, <1>6, <1>7 DEF NumbersApart, PathsAgree
  <1>10. HeldIsKnown'
    <2> SUFFICES ASSUME NEW j \in Ids \ (shared \cup left'), held[j] # None \/ Awaited(j)
                 PROVE  \/ \E o \in Names : Known(o, j)'
                        \/ \E d \in Calls : Loading(d, j)' /\ call'[d].at = "answer" /\ call'[d].ok
      BY <1>3, <1>8 DEF HeldIsKnown
    <2>1. CASE \E o \in Names : Known(o, j)
      <3>1. PICK o \in Names : Known(o, j)
        BY <2>1
      <3>2. CASE o = n /\ adapters' # adapters
        BY <1>3, <3>1, <3>2 DEF Known, Replaced
      <3> QED  BY <1>3, <3>1, <3>2 DEF TypeOK, Known
    <2>2. CASE \E d \in Calls : Loading(d, j) /\ call[d].at = "answer" /\ call[d].ok
      BY <1>6, <2>2
    <2> QED  BY <1>3, <2>1, <2>2 DEF HeldIsKnown
  <1> QED  BY <1>5, <1>9, <1>10

LEMMA GenerateKeeps ==
    ASSUME IInv, NEW c \in Calls, NEW n \in Names, Generate(c, n)
    PROVE  IInv'
  <1> USE DEF IInv
  <1> DEFINE i == adapters[n].id
             p == adapters[n].path
             new == [NoCall EXCEPT !.op = "generate", !.at = "engine", !.name = n, !.path = p, !.id = i]
  <1>1. /\ call' = [call EXCEPT ![c] = new] /\ call[c].op = "none" /\ i \in Ids /\ p \in Paths /\ Known(n, i)
        /\ UNCHANGED <<phase, engine, runtimes, primary, shown, adapters, held, shared, left>>
    BY DEF Generate, NoCall, Registered, TypeOK, Known
  <1>2. /\ new \in CallRecord /\ new.op = "generate" /\ new.at = "engine" /\ new.name = n
        /\ new.path = p /\ new.id = i
    BY <1>1 DEF CallRecord, NoCall
  <1> HIDE DEF new
  <1>3. call' \in [Calls -> CallRecord] /\ call'[c] = new /\ \A d \in Calls : d # c => call'[d] = call[d]
    BY <1>1, <1>2, OneCallChanges
  <1>4. TypeOK' /\ CallShape'
    BY <1>1, <1>2, <1>3 DEF TypeOK, CallRecord, CallShape
  <1>5. \A d \in Calls, j \in Ids : /\ Loading(d, j)' <=> Loading(d, j)
                                    /\ Loading(d, j) => call'[d] = call[d]
                                    /\ Waiting(d, j)' <=> (Waiting(d, j) \/ (d = c /\ j = i))
    BY <1>1, <1>2, <1>3 DEF Loading, Waiting
  <1>6. \A j \in Ids : Awaited(j)' => Awaited(j) \/ j = i
    BY <1>5 DEF Awaited, Waiting
  <1>7. NumbersApart' /\ HeldIsKnown'
    BY <1>1, <1>5, <1>6 DEF NumbersApart, HeldIsKnown, Known
  <1>8. PathsAgree'
    <2> SUFFICES ASSUME NEW j \in Ids \ (shared \cup left), NEW q \in Paths,
                        \/ \E o \in Names : Known(o, j) /\ adapters[o].path = q
                        \/ \E d \in Calls : Loading(d, j) /\ call[d].path = q
                 PROVE  held[j] \in {None, q} /\ \A d \in Calls : Waiting(d, j)' => call'[d].path = q
      BY <1>1, <1>5 DEF PathsAgree, Known
    <2>1. held[j] \in {None, q} /\ \A d \in Calls : Waiting(d, j) => call[d].path = q
      BY DEF PathsAgree
    <2>2. j = i => q = p
      BY <1>1 DEF NumbersApart
    <2> QED  BY <1>1, <1>2, <1>3, <1>5, <2>1, <2>2 DEF Waiting
  <1>9. RunsItsAdapter' /\ Quiet' /\ ShutdownLeavesNothing'
    BY <1>1, <1>2, <1>3 DEF RunsItsAdapter, Quiet, ShutdownLeavesNothing, Ready
  <1> QED  BY <1>4, <1>7, <1>8, <1>9

\* What the engine runs is what the generation was asked for, when its number is neither
\* shared nor left.
LEMMA EngineRunKeeps ==
    ASSUME IInv, NEW c \in Calls, EngineRun(c)
    PROVE  IInv'
  <1> USE DEF IInv
  <1> DEFINE i == call[c].id
             p == call[c].path
             used == IF held[i] = None THEN p ELSE held[i]
  <1>1. /\ call[c].op = "generate" /\ call[c].at = "engine" /\ i \in Ids /\ p \in Paths /\ call[c].name \in Names
        /\ Waiting(c, i) /\ Awaited(i)
        /\ UNCHANGED <<phase, engine, runtimes, primary, shown, adapters, shared, left>>
    BY DEF EngineRun, CallShape, Waiting, Awaited
  <1>2. used \in Paths
    BY <1>1 DEF TypeOK
  <1>3. i \notin shared \cup left => used = p
    <2> SUFFICES ASSUME i \notin shared \cup left PROVE used = p
      OBVIOUS
    <2>1. PICK q \in Paths : \/ \E n \in Names : Known(n, i) /\ adapters[n].path = q
                             \/ \E d \in Calls : Loading(d, i) /\ call[d].path = q
      <3>1. CASE \E n \in Names : Known(n, i)
        BY <3>1 DEF Known, TypeOK
      <3>2. CASE \E d \in Calls : Loading(d, i)
        BY <3>2 DEF CallShape, Loading
      <3> QED  BY <1>1, <3>1, <3>2 DEF HeldIsKnown
    <2> QED  BY <1>1, <2>1 DEF PathsAgree
  <1> HIDE DEF used
  <1>4. CASE engine[1] = "running"
    <2> DEFINE new == [call[c] EXCEPT !.at = "run", !.used = used]
    <2>1. held' = [held EXCEPT ![i] = used] /\ call' = [call EXCEPT ![c] = new]
      BY <1>4 DEF EngineRun, TypeOK, used
    <2>2. /\ new \in CallRecord /\ new.op = "generate" /\ new.at = "run" /\ new.name = call[c].name
          /\ new.id = i /\ new.path = p /\ new.used = used
      <3>1. call[c] \in CallRecord
        BY DEF TypeOK, CallRecord
      <3> QED  BY <1>1, <1>2, <3>1 DEF CallRecord
    <2> HIDE DEF new
    <2>3. call' \in [Calls -> CallRecord] /\ call'[c] = new /\ \A d \in Calls : d # c => call'[d] = call[d]
      BY <2>1, <2>2, OneCallChanges
    <2>4. \A j \in Ids : held'[j] = IF j = i THEN used ELSE held[j]
      BY <2>1 DEF TypeOK
    <2>5. TypeOK'
      BY <1>1, <1>2, <2>1, <2>3 DEF TypeOK, CallRecord
    <2>6. CallShape'
      BY <1>1, <2>2, <2>3 DEF CallShape
    <2>7. \A d \in Calls, j \in Ids : /\ Loading(d, j)' <=> Loading(d, j)
                                      /\ Loading(d, j) => call'[d] = call[d]
                                      /\ Waiting(d, j)' => Waiting(d, j) /\ call'[d] = call[d]
      BY <1>1, <2>2, <2>3 DEF Loading, Waiting
    <2>8. \A n \in Names, j \in Ids : Known(n, j)' <=> Known(n, j)
      BY <1>1 DEF Known
    <2>9. NumbersApart'
      BY <1>1, <2>7, <2>8 DEF NumbersApart
    <2>10. HeldIsKnown'
      <3>1. \A j \in Ids : held'[j] # None \/ Awaited(j)' => held[j] # None \/ Awaited(j)
        BY <1>1, <2>4, <2>7 DEF Awaited, Waiting
      <3> QED  BY <1>1, <2>7, <2>8, <3>1 DEF HeldIsKnown
    <2>11. PathsAgree'
      <3> SUFFICES ASSUME NEW j \in Ids \ (shared \cup left), NEW q \in Paths,
                          \/ \E n \in Names : Known(n, j) /\ adapters[n].path = q
                          \/ \E d \in Calls : Loading(d, j) /\ call[d].path = q
                   PROVE  held'[j] \in {None, q} /\ \A d \in Calls : Waiting(d, j)' => call'[d].path = q
        BY <1>1, <2>7, <2>8 DEF PathsAgree
      <3>1. held[j] \in {None, q} /\ \A d \in Calls : Waiting(d, j) => call[d].path = q
        BY DEF PathsAgree
      <3> QED  BY <1>1, <1>3, <2>4, <2>7, <3>1
    <2>12. RunsItsAdapter' /\ Quiet' /\ ShutdownLeavesNothing'
      BY <1>1, <1>3, <2>2, <2>3 DEF RunsItsAdapter, Quiet, ShutdownLeavesNothing, Ready
    <2> QED  BY <2>5, <2>6, <2>9, <2>10, <2>11, <2>12
  <1>5. CASE engine[1] # "running"
    <2>1. /\ call' \in [Calls -> CallRecord] /\ held' = held
          /\ call'[c] = NoCall /\ \A d \in Calls : d # c => call'[d] = call[d]
      BY <1>5, EndsCall DEF EngineRun
    <2>2. TypeOK' /\ CallShape'
      BY <1>1, <2>1 DEF TypeOK, CallRecord, CallShape, NoCall
    <2>3. NumbersApart' /\ HeldIsKnown' /\ PathsAgree'
      BY <1>1, <2>1 DEF NumbersApart, HeldIsKnown, PathsAgree, Known, Loading, Waiting, Awaited, NoCall
    <2>4. RunsItsAdapter' /\ Quiet' /\ ShutdownLeavesNothing'
      BY <1>1, <2>1 DEF RunsItsAdapter, Quiet, ShutdownLeavesNothing, Ready, NoCall
    <2> QED  BY <2>2, <2>3, <2>4
  <1> QED  BY <1>4, <1>5

LEMMA EndRunKeeps ==
    ASSUME IInv, NEW c \in Calls, EndRun(c)
    PROVE  IInv'
  <1> USE DEF IInv
  <1>1. /\ call' \in [Calls -> CallRecord] /\ call[c].op = "generate" /\ call[c].at = "run"
        /\ call'[c] = NoCall /\ \A d \in Calls : d # c => call'[d] = call[d]
        /\ UNCHANGED <<phase, engine, runtimes, primary, shown, adapters, held, shared, left>>
    BY EndsCall DEF EndRun
  <1>2. TypeOK' /\ CallShape'
    BY <1>1 DEF TypeOK, CallRecord, CallShape, NoCall
  <1>3. NumbersApart' /\ HeldIsKnown' /\ PathsAgree'
    BY <1>1 DEF NumbersApart, HeldIsKnown, PathsAgree, Known, Loading, Waiting, Awaited, NoCall
  <1>4. RunsItsAdapter' /\ Quiet' /\ ShutdownLeavesNothing'
    BY <1>1 DEF RunsItsAdapter, Quiet, ShutdownLeavesNothing, Ready, NoCall
  <1> QED  BY <1>2, <1>3, <1>4

LEMMA EvictKeeps ==
    ASSUME IInv, NEW i \in Ids, Evict(i)
    PROVE  IInv'
  <1> USE DEF IInv
  <1>1. TypeOK' /\ CallShape' /\ NumbersApart'
    BY DEF Evict, TypeOK, CallShape, NumbersApart, Known, Loading
  <1>2. HeldIsKnown' /\ PathsAgree'
    BY DEF Evict, TypeOK, HeldIsKnown, PathsAgree, Known, Loading, Waiting, Awaited
  <1>3. RunsItsAdapter' /\ Quiet' /\ ShutdownLeavesNothing'
    BY DEF Evict, RunsItsAdapter, Quiet, ShutdownLeavesNothing, Ready
  <1> QED  BY <1>1, <1>2, <1>3

LEMMA NextIInv == IInv /\ [Next]_vars => IInv'
  <1> SUFFICES ASSUME IInv, [Next]_vars PROVE IInv'
    OBVIOUS
  <1>1. CASE UNCHANGED vars
    <2>1. TypeOK' /\ CallShape' /\ NumbersApart' /\ Quiet' /\ ShutdownLeavesNothing'
      BY <1>1 DEF vars, IInv, TypeOK, CallShape, NumbersApart, Known, Loading, Quiet, ShutdownLeavesNothing, Ready
    <2>2. HeldIsKnown' /\ PathsAgree' /\ RunsItsAdapter'
      BY <1>1 DEF vars, IInv, HeldIsKnown, PathsAgree, Known, Loading, Waiting, Awaited, RunsItsAdapter
    <2> QED  BY <2>1, <2>2 DEF IInv
  <1>2. CASE Next
    <2>1. CASE \/ \E n \in 0..Cardinality(Models) : Start(n)
               \/ \E broken \in SUBSET Models : Shutdown(broken)
      BY <2>1, ProcessSteps
    <2>2. CASE \E c \in Calls, n \in Names :
                 (\E p \in Paths : Load(c, n, p)) \/ Unload(c, n) \/ Generate(c, n)
      BY <2>2, LoadKeeps, UnloadKeeps, GenerateKeeps
    <2>3. CASE \E c \in Calls :
                 \/ (\E ok \in BOOLEAN : EngineAdd(c, ok)) \/ Register(c)
                 \/ EngineRemove(c) \/ Unregister(c) \/ EngineRun(c) \/ EndRun(c)
      BY <2>3, EngineAddKeeps, RegisterKeeps, EngineRemoveKeeps, UnregisterKeeps, EngineRunKeeps, EndRunKeeps
    <2>4. CASE \E i \in Ids : Evict(i)
      BY <2>4, EvictKeeps
    <2> QED  BY <1>2, <2>1, <2>2, <2>3, <2>4 DEF Next
  <1> QED  BY <1>1, <1>2

LEMMA Invariance == Spec => []IInv
  BY InitIInv, NextIInv, PTL DEF Spec

-----------------------------------------------------------------------------
\* The process, its engines, its list of adapters and its calls are always of their
\* types, and no two registered adapters have one number, although numbers are handed
\* out again and loads overlap, unless two loads under way at once were given it.
THEOREM Numbering == Spec => []NumbersDiffer
  <1>1. IInv => NumbersDiffer
    BY DEF IInv, NumbersDiffer, NumbersApart, Registered, Known, TypeOK
  <1> QED  BY <1>1, Invariance, PTL

\* Whatever operators load and unload while it waits, and whatever the engine drops, a
\* generation runs with the adapter it was asked for, unless the number was shared by
\* two loads or was given up while the engine could still use it.
THEOREM RightAdapter == Spec => []RunsItsAdapter
  <1>1. IInv => RunsItsAdapter
    BY DEF IInv
  <1> QED  BY <1>1, Invariance, PTL

\* Once the process is shut down no engine runs, it does not report itself ready, and no
\* load that is answered later puts its adapter on the list again.
THEOREM CleanShutdown == Spec => []ShutdownLeavesNothing
  <1>1. IInv => ShutdownLeavesNothing
    BY DEF IInv
  <1> QED  BY <1>1, Invariance, PTL

=============================================================================
