----------------------------- MODULE StoreProofs -----------------------------
(***************************************************************************)
(* Theorems about the store and what is kept in it.                        *)
(*                                                                         *)
(* LmdbStore, for all sets of namespaces, keys and processes: its          *)
(* variables keep their types, the expiry index agrees with the entries,   *)
(* no cleanup is visible, and callers see a map with expiries.             *)
(*                                                                         *)
(* IndexedStore, for every set of chat completions, of API processes and   *)
(* of listings, every page size and every number of entries read at once:  *)
(* object, index entry and messages stay together, and a listing shows     *)
(* what is stored, whatever the processes do at once.                      *)
(***************************************************************************)
EXTENDS LmdbStore, IndexedStore, FiniteSetTheorems, SequenceTheorems, WellFoundedInduction, TLAPS

-----------------------------------------------------------------------------
(* The store. *)

\* The expiry of a write is a time to come, or none.
LEMMA ExpiryIsLater ==
    ASSUME StoreTypeOK, NEW t \in Retentions \cup {Never}
    PROVE  /\ ExpiryOf(t) \in Nat
           /\ ExpiryOf(t) # Never => ExpiryOf(t) > clock
           /\ ExpiryOf(t) \in {Never} \cup {clock + l : l \in {r * Minute : r \in Retentions}}
  <1>1. CASE t = Never
    BY <1>1 DEF ExpiryOf, Never
  <1>2. CASE t # Never
    <2>1. t \in Nat /\ t >= 1 /\ Minute \in Nat /\ Minute >= 1 /\ clock \in Nat /\ t \in Retentions
      BY <1>2, LmdbStoreAssumption DEF StoreTypeOK, Never
    <2>2. t * Minute \in Nat /\ t * Minute >= 1
      BY <2>1
    <2>3. ExpiryOf(t) = clock + t * Minute
      BY <1>2 DEF ExpiryOf
    <2>4. ExpiryOf(t) \in Nat /\ ExpiryOf(t) > clock
      <3> DEFINE m == t * Minute
      <3>1. m \in Nat /\ m >= 1 /\ ExpiryOf(t) = clock + m /\ clock \in Nat
        BY <2>1, <2>2, <2>3
      <3> HIDE DEF m
      <3> QED  BY <3>1
    <2>5. t * Minute \in {r * Minute : r \in Retentions}
      BY <2>1
    <2> QED  BY <2>3, <2>4, <2>5
  <1> QED  BY <1>1, <1>2

LEMMA BucketsAreNat == ASSUME NEW t \in Nat PROVE Bucket(t) \in Nat
  BY LmdbStoreAssumption DEF Bucket

LEMMA NoSweepIsSweep == NoSweep \in Sweep
  BY DEF NoSweep, Sweep

\* The facts each step keeps.
EntriesInv == StoreTypeOK /\ SweepsLookBack /\ IndexAgrees

LEMMA InitEntriesInv == StoreInit => EntriesInv
  BY DEF StoreInit, EntriesInv, StoreTypeOK, SweepsLookBack, IndexAgrees, NoSweep, Sweep, Expiries, Absent, Never

LEMMA NextEntriesInv == EntriesInv /\ [StoreNext]_storeVars => EntriesInv'
  <1> SUFFICES ASSUME EntriesInv, [StoreNext]_storeVars PROVE EntriesInv'
    OBVIOUS
  <1> USE DEF EntriesInv
  <1>1. ASSUME NEW p \in Processes, NEW ns \in Namespaces, NEW k \in EntryKeys, DeleteEntry(p, ns, k)
        PROVE  EntriesInv'
    <2>1. StoreTypeOK'
      BY <1>1 DEF DeleteEntry, StoreTypeOK, Expiries, Absent, Never, Indexed
    <2>2. SweepsLookBack'
      BY <1>1 DEF DeleteEntry, SweepsLookBack
    <2>3. IndexAgrees'
      BY <1>1 DEF DeleteEntry, StoreTypeOK, Expiries, Absent, Never, Indexed, IndexAgrees
    <2> QED  BY <2>1, <2>2, <2>3
  <1>2. ASSUME NEW p \in Processes, NEW ns \in Namespaces, NEW k \in EntryKeys,
               NEW r \in Retentions \cup {Never}, Put(p, ns, k, r)
        PROVE  EntriesInv'
    <2> DEFINE t == ExpiryOf(r)
    <2>0. t \in Nat
      BY ExpiryIsLater
    <2>b. Bucket(t) \in Nat
      BY <2>0, BucketsAreNat
    <2>p. /\ entry' = [entry EXCEPT ![ns][k] = t]
          /\ meta' = [meta EXCEPT ![ns][k] = IF t = Never THEN Absent ELSE t]
          /\ expIndex' = [expIndex EXCEPT ![ns] = (@ \ Indexed(ns, k)) \cup
                        (IF t = Never THEN {} ELSE {<<Bucket(t), k>>})]
          /\ UNCHANGED <<clock, registered, sweep>>
      BY <1>2 DEF Put
    <2> HIDE DEF t
    <2>1. StoreTypeOK'
      BY <2>0, <2>b, <2>p DEF StoreTypeOK, Expiries, Absent, Never, Indexed
    <2>2. SweepsLookBack'
      BY <2>p DEF SweepsLookBack
    <2>3. IndexAgrees'
      BY <2>0, <2>b, <2>p DEF StoreTypeOK, Expiries, Absent, Never, Indexed, IndexAgrees
    <2> QED  BY <2>1, <2>2, <2>3
  <1>3. ASSUME NEW p \in Processes, NEW ns \in Namespaces, Register(p, ns)
        PROVE  EntriesInv'
    BY <1>3 DEF Register, StoreTypeOK, SweepsLookBack, IndexAgrees
  <1>4. ASSUME NEW p \in Processes, NEW ns \in Namespaces, SweepNext(p, ns)
        PROVE  EntriesInv'
    <2> DEFINE s == sweep[p]
               batch == DueBatch(ns, Bucket(s.now), s.budget)
               dead == Dead(ns, batch, s.now)
               purged(f) == [k \in EntryKeys |-> IF k \in dead THEN Absent ELSE f[k]]
               rest == s.budget - Cardinality(dead)
    <2>0. /\ entry' = [entry EXCEPT ![ns] = purged(@)]
          /\ meta' = [meta EXCEPT ![ns] = purged(@)]
          /\ expIndex' = [expIndex EXCEPT ![ns] = @ \ batch]
          /\ sweep' = [sweep EXCEPT ![p] = IF rest <= 0 \/ s.left = {ns} THEN NoSweep
                                         ELSE [s EXCEPT !.left = s.left \ {ns}, !.budget = rest]]
          /\ UNCHANGED <<clock, registered>>
      BY <1>4 DEF SweepNext
    <2>1. rest \in Int
      <3>1. dead \subseteq EntryKeys
        BY DEF Dead
      <3>2. IsFiniteSet(dead)
        BY <3>1, LmdbStoreAssumption, FS_Subset
      <3>3. Cardinality(dead) \in Nat
        BY <3>2, FS_CardinalityType
      <3> QED  BY <3>3 DEF StoreTypeOK, Sweep
    <2>2. \A k \in dead, x \in expIndex[ns] : x[2] = k => x \in batch
      <3> SUFFICES ASSUME NEW k \in dead, NEW x \in expIndex[ns], x[2] = k PROVE x \in batch
        OBVIOUS
      <3>1. PICK y \in batch : y[2] = k
        BY DEF Dead
      <3>2. y \in expIndex[ns]
        BY DEF DueBatch
      <3>3. x[1] = y[1] /\ x[2] = y[2]
        BY <3>1, <3>2 DEF IndexAgrees
      <3>4. x = <<x[1], x[2]>> /\ y = <<y[1], y[2]>>
        BY <3>2 DEF StoreTypeOK
      <3>5. x = y
        BY <3>3, <3>4
      <3> QED  BY <3>5
    <2>3. dead \subseteq EntryKeys
      BY DEF Dead
    <2> HIDE DEF dead, batch, rest
    <2>4. StoreTypeOK'
      <3>1. entry' \in [Namespaces -> [EntryKeys -> Expiries]]
        BY <2>0 DEF StoreTypeOK, Expiries
      <3>2. meta' \in [Namespaces -> [EntryKeys -> Expiries \ {Never}]]
        BY <2>0 DEF StoreTypeOK, Expiries, Absent, Never
      <3>3. expIndex' \in [Namespaces -> SUBSET (Nat \X EntryKeys)]
        BY <2>0 DEF StoreTypeOK
      <3>4. sweep' \in [Processes -> Sweep]
        <4>1. s \in Sweep
          BY DEF StoreTypeOK
        <4>2. [s EXCEPT !.left = s.left \ {ns}, !.budget = rest] \in Sweep
          BY <4>1, <2>1 DEF Sweep
        <4> QED  BY <4>2, <2>0, NoSweepIsSweep DEF StoreTypeOK
      <3> QED  BY <3>1, <3>2, <3>3, <3>4, <2>0 DEF StoreTypeOK
    <2>5. SweepsLookBack'
      BY <2>0 DEF StoreTypeOK, SweepsLookBack, NoSweep, Sweep
    <2>6. IndexAgrees'
      <3>1. ASSUME NEW n \in Namespaces, n # ns
            PROVE  entry'[n] = entry[n] /\ meta'[n] = meta[n] /\ expIndex'[n] = expIndex[n]
        BY <3>1, <2>0 DEF StoreTypeOK
      <3>2. /\ entry'[ns] = purged(entry[ns])
            /\ meta'[ns] = purged(meta[ns])
            /\ expIndex'[ns] = expIndex[ns] \ batch
        BY <2>0 DEF StoreTypeOK
      <3>3. ASSUME NEW x \in expIndex'[ns]
            PROVE  entry'[ns][x[2]] > 0 /\ x[1] = Bucket(entry'[ns][x[2]])
        <4>1. x \in expIndex[ns] /\ x \notin batch
          BY <3>2, <3>3
        <4>2. x[2] \in EntryKeys /\ x[2] \notin dead
          BY <4>1, <2>2 DEF StoreTypeOK
        <4>3. entry'[ns][x[2]] = entry[ns][x[2]]
          BY <4>2, <3>2
        <4> QED  BY <4>1, <4>3 DEF IndexAgrees
      <3>4. ASSUME NEW k \in EntryKeys
            PROVE  meta'[ns][k] = IF entry'[ns][k] > 0 THEN entry'[ns][k] ELSE Absent
        BY <3>2 DEF IndexAgrees, Absent
      <3>5. ASSUME NEW n \in Namespaces
            PROVE  /\ \A x \in expIndex'[n] : /\ entry'[n][x[2]] > 0
                                           /\ x[1] = Bucket(entry'[n][x[2]])
                   /\ \A k \in EntryKeys :
                        meta'[n][k] = IF entry'[n][k] > 0 THEN entry'[n][k] ELSE Absent
        <4>1. CASE n = ns
          BY <4>1, <3>3, <3>4
        <4>2. CASE n # ns
          BY <4>2, <3>1 DEF IndexAgrees
        <4> QED  BY <4>1, <4>2
      <3>6. \A t : Bucket(t)' = Bucket(t)
        BY DEF Bucket
      <3> QED  BY <3>5 DEF IndexAgrees, Bucket
    <2> QED  BY <2>4, <2>5, <2>6
  <1>5. ASSUME NEW p \in Processes, NEW ns \in Namespaces, SweepFails(p, ns)
        PROVE  EntriesInv'
    <2>1. sweep[p] \in Sweep
      BY DEF StoreTypeOK
    <2> DEFINE dead == Dead(ns, DueBatch(ns, Bucket(sweep[p].now), sweep[p].budget), sweep[p].now)
    <2> DEFINE onward(rest) == [sweep[p] EXCEPT !.left = sweep[p].left \ {ns}, !.budget = rest]
    <2>2. PICK counted \in 0..Cardinality(dead) :
            sweep' = [sweep EXCEPT ![p] =
                        IF sweep[p].budget - counted <= 0 \/ sweep[p].left = {ns} THEN NoSweep
                        ELSE onward(sweep[p].budget - counted)]
      BY <1>5, Zenon DEF SweepFails
    <2> HIDE DEF dead
    <2>3. sweep'[p] \in Sweep /\ sweep'[p].now \in {sweep[p].now, 0}
      <3>1. sweep[p].budget - counted \in Int
        BY <2>1, <2>2 DEF Sweep
      <3>2. sweep'[p] \in {NoSweep, onward(sweep[p].budget - counted)}
        BY <2>2 DEF StoreTypeOK
      <3>3. ASSUME NEW rest \in Int
            PROVE  onward(rest) \in Sweep /\ onward(rest).now = sweep[p].now
        BY <2>1 DEF Sweep
      <3>4. NoSweep.now = 0
        BY DEF NoSweep
      <3> HIDE DEF onward
      <3> QED  BY <3>1, <3>2, <3>3, <3>4, NoSweepIsSweep
    <2>4. sweep' = [sweep EXCEPT ![p] = sweep'[p]]
      BY <2>2 DEF StoreTypeOK
    <2>5. StoreTypeOK'
      BY <1>5, <2>3, <2>4 DEF SweepFails, StoreTypeOK
    <2>6. SweepsLookBack'
      <3>1. clock' = clock /\ clock >= 0
        BY <1>5 DEF SweepFails, StoreTypeOK
      <3>2. sweep'[p].now <= clock
        BY <2>3, <2>4, <3>1 DEF StoreTypeOK, SweepsLookBack
      <3>3. \A q \in Processes : q # p => sweep'[q] = sweep[q]
        BY <2>4 DEF StoreTypeOK
      <3> QED  BY <3>1, <3>2, <3>3 DEF SweepsLookBack
    <2>7. IndexAgrees'
      BY <1>5 DEF SweepFails, IndexAgrees
    <2> QED  BY <2>5, <2>6, <2>7
  <1>6. ASSUME NEW p \in Processes, StartSweep(p)
        PROVE  EntriesInv'
    BY <1>6, LmdbStoreAssumption DEF StartSweep, StoreTypeOK, SweepsLookBack, IndexAgrees, Sweep
  <1>7. ASSUME NEW p \in Processes, Restart(p)
        PROVE  EntriesInv'
    BY <1>7 DEF Restart, StoreTypeOK, SweepsLookBack, IndexAgrees, Sweep, NoSweep
  <1>8. CASE Tick
    BY <1>8 DEF Tick, StoreTypeOK, SweepsLookBack, IndexAgrees, Sweep
  <1>9. CASE UNCHANGED storeVars
    BY <1>9 DEF storeVars, StoreTypeOK, SweepsLookBack, IndexAgrees
  <1> QED  BY <1>1, <1>2, <1>3, <1>4, <1>5, <1>6, <1>7, <1>8, <1>9 DEF StoreNext

LEMMA EntriesInvariance == StoreSpec => []EntriesInv
  BY InitEntriesInv, NextEntriesInv, PTL DEF StoreSpec

\* Every variable keeps its type.
THEOREM Typing == StoreSpec => []StoreTypeOK
  BY EntriesInvariance, PTL DEF EntriesInv

\* Index, meta and entries agree, whatever processes write, delete, clean up, fail
\* and restart: an overwritten key leaves no index entry behind.
THEOREM IndexSound == StoreSpec => []IndexAgrees
  BY EntriesInvariance, PTL DEF EntriesInv

-----------------------------------------------------------------------------
\* No step of a cleanup changes what callers see: what it deletes had expired when
\* the cleanup began, and time does not go back.
LEMMA SweepStep == EntriesInv /\ [StoreNext]_storeVars => [sweep' # sweep => Contents' = Contents]_storeVars
  <1> SUFFICES ASSUME EntriesInv, StoreNext, sweep' # sweep PROVE Contents' = Contents
    BY DEF storeVars
  <1>1. ASSUME NEW p \in Processes, NEW ns \in Namespaces, SweepNext(p, ns)
        PROVE  Contents' = Contents
    <2> DEFINE batch == DueBatch(ns, Bucket(sweep[p].now), sweep[p].budget)
               dead == Dead(ns, batch, sweep[p].now)
    <2>1. /\ entry' = [entry EXCEPT ![ns] = [k \in EntryKeys |-> IF k \in dead THEN Absent ELSE @[k]]]
          /\ clock' = clock
      BY <1>1 DEF SweepNext
    <2>2. ASSUME NEW k \in dead
          PROVE  ~Visible(ns, k)
      <3>1. k \in EntryKeys /\ Expired(entry[ns][k], sweep[p].now)
        BY DEF Dead
      <3>2. sweep[p].now <= clock /\ sweep[p].now \in Nat /\ clock \in Nat /\ entry[ns][k] \in Int
        BY <3>1 DEF EntriesInv, SweepsLookBack, StoreTypeOK, Sweep, Expiries, Absent
      <3> QED  BY <3>1, <3>2 DEF Visible, Expired
    <2> HIDE DEF dead
    <2>3. ASSUME NEW n \in Namespaces, NEW k \in EntryKeys
          PROVE  (IF Visible(n, k)' THEN entry'[n][k] ELSE Absent)
                    = IF Visible(n, k) THEN entry[n][k] ELSE Absent
      <3>1. CASE n = ns /\ k \in dead
        <4>1. entry'[n][k] = Absent
          BY <3>1, <2>1 DEF EntriesInv, StoreTypeOK
        <4> QED  BY <3>1, <4>1, <2>2 DEF Visible
      <3>2. CASE ~(n = ns /\ k \in dead)
        <4>1. entry'[n][k] = entry[n][k]
          BY <3>2, <2>1 DEF EntriesInv, StoreTypeOK
        <4> QED  BY <4>1, <2>1 DEF Visible
      <3> QED  BY <3>1, <3>2
    <2> QED  BY <2>3 DEF Contents
  <1>2. ASSUME UNCHANGED <<clock, entry>> PROVE Contents' = Contents
    BY <1>2 DEF Contents, Visible
  <1> QED  BY <1>1, <1>2 DEF StoreNext, DeleteEntry, Put, Register, SweepFails, StartSweep, Restart, Tick

\* No cleanup, of whatever process, is visible to a caller.
THEOREM Invisibility == StoreSpec => CleanupsAreInvisible
  BY EntriesInvariance, SweepStep, PTL DEF StoreSpec, CleanupsAreInvisible

-----------------------------------------------------------------------------
(* Refinement. *)

LEMMA TtlInit == StoreInit => Ttl!Init
  BY DEF StoreInit, Ttl!Init, Ttl!Absent, Contents, Visible, Absent

LEMMA TtlStep == EntriesInv /\ [StoreNext]_storeVars => [Ttl!Next]_<<clock, Contents>>
  <1> SUFFICES ASSUME EntriesInv, [StoreNext]_storeVars PROVE [Ttl!Next]_<<clock, Contents>>
    OBVIOUS
  <1>1. ASSUME NEW p \in Processes, NEW ns \in Namespaces, NEW k \in EntryKeys, DeleteEntry(p, ns, k)
        PROVE  Ttl!Next
    <2>1. Contents' = [Contents EXCEPT ![ns][k] = Absent]
      BY <1>1 DEF DeleteEntry, Contents, Visible, EntriesInv, StoreTypeOK
    <2> QED  BY <1>1, <2>1 DEF DeleteEntry, Ttl!Next, Ttl!Delete, Ttl!Absent, Absent
  <1>2. ASSUME NEW p \in Processes, NEW ns \in Namespaces, NEW k \in EntryKeys,
               NEW r \in Retentions \cup {Never}, Put(p, ns, k, r)
        PROVE  Ttl!Next
    <2> DEFINE t == ExpiryOf(r)
    <2>0. /\ t \in Nat
          /\ t # Never => t > clock
          /\ t \in {Never} \cup {clock + l : l \in {q * Minute : q \in Retentions}}
      BY ExpiryIsLater DEF EntriesInv
    <2>1. entry' = [entry EXCEPT ![ns][k] = t] /\ clock' = clock
      BY <1>2 DEF Put
    <2> HIDE DEF t
    <2>2. Contents' = [Contents EXCEPT ![ns][k] = t]
      <3>1. clock \in Nat
        BY DEF EntriesInv, StoreTypeOK
      <3>2. t # Absent /\ ~Expired(t, clock)
        BY <2>0, <3>1 DEF Expired, Never, Absent
      <3> QED  BY <2>1, <3>2 DEF Contents, Visible, EntriesInv, StoreTypeOK
    <2>3. Ttl!Put(ns, k, t)
      BY <2>1, <2>2 DEF Ttl!Put
    <2> QED  BY <2>0, <2>3 DEF Ttl!Next, Ttl!Never, Never
  <1>3. CASE Tick
    <2>1. clock' = clock + 1 /\ entry' = entry /\ clock \in Nat
      BY <1>3 DEF Tick, EntriesInv, StoreTypeOK
    <2>2. ASSUME NEW ns \in Namespaces, NEW k \in EntryKeys
          PROVE  (IF Visible(ns, k)' THEN entry'[ns][k] ELSE Absent) =
                    IF Contents[ns][k] > 0 /\ Contents[ns][k] <= clock' THEN Absent
                    ELSE Contents[ns][k]
      <3>1. entry[ns][k] \in Nat \cup {-1}
        BY DEF EntriesInv, StoreTypeOK, Expiries, Absent
      <3>2. Contents[ns][k] = IF Visible(ns, k) THEN entry[ns][k] ELSE Absent
        BY DEF Contents
      <3> QED  BY <2>1, <3>1, <3>2 DEF Visible, Expired, Absent
    <2>3. Contents' = [ns \in Namespaces |-> [k \in EntryKeys |->
                          IF Contents[ns][k] > 0 /\ Contents[ns][k] <= clock' THEN Absent
                          ELSE Contents[ns][k]]]
      BY <2>2 DEF Contents
    <2>4. Ttl!Tick
      BY <2>1, <2>3 DEF Ttl!Tick, Ttl!Absent, Absent
    <2> QED  BY <2>4 DEF Ttl!Next
  <1>4. CASE sweep' # sweep
    <2>1. Contents' = Contents
      BY <1>4, SweepStep, SMTT(40) DEF storeVars
    <2>2. clock' = clock
      BY <1>4 DEF storeVars, StoreNext, DeleteEntry, Put, Register, SweepNext, SweepFails, StartSweep, Restart, Tick
    <2> QED  BY <2>1, <2>2
  <1>5. CASE UNCHANGED <<clock, entry>>
    BY <1>5 DEF Contents, Visible
  <1>6. ASSUME NEW p \in Processes, NEW ns \in Namespaces, SweepNext(p, ns)
        PROVE  sweep' # sweep
    <2>1. sweep[p].left # {} /\ ns \in sweep[p].left
      BY <1>6 DEF SweepNext, IsNext
    <2>2. sweep'[p].left # sweep[p].left
      BY <1>6, <2>1 DEF SweepNext, NoSweep, EntriesInv, StoreTypeOK, Sweep
    <2> QED  BY <2>2
  <1> QED
    BY <1>1, <1>2, <1>3, <1>4, <1>5, <1>6
       DEF StoreNext, storeVars, Register, SweepFails, StartSweep, Restart

\* The store implements a map with expiries.
THEOREM Refinement == StoreSpec => ImplementsTtl
  BY EntriesInvariance, TtlInit, TtlStep, PTL DEF StoreSpec, ImplementsTtl, Ttl!Spec

-----------------------------------------------------------------------------
(* The stored chat completions. *)

Query == [after : Completions \cup {0}, reverse : BOOLEAN, filter : 0..2]
Points == { <<"idle", "none">> } \cup ({"store"} \X {"index", "put"})
          \cup ({"update"} \X {"object", "index", "messages", "put"}) \cup ({"delete"} \X Pieces)
          \cup ({"list"} \X {"keys", "backfill", "fill", "cursor", "page", "get", "done", "lost"})
Work == [op : {"idle", "store", "update", "delete", "list"},
         at : {"none", "object", "index", "put", "messages", "keys", "backfill", "fill", "cursor",
               "page", "get", "done", "lost"},
         c : Completions \cup {0}, query : Query, keys : SUBSET Completions, scan : Completions \cup {0},
         page : Seq(Completions), more : BOOLEAN, found : Seq(Completions)]

\* Every value has its type, and only completions that were stored are worked on.
Types ==
  /\ object \in [Completions -> 0..2] /\ index \in SUBSET created /\ messages \in SUBSET created
  /\ created \in SUBSET Completions /\ torn \in SUBSET (created \X Pieces) /\ deleted \in SUBSET created
  /\ renewed \in [Completions -> SUBSET Pieces] /\ proc \in [Procs -> Work]
  /\ steady \in [Procs -> SUBSET Completions]
  /\ \A c \in Completions : object[c] # 0 => c \in created

\* What a process is at says what it works on.
WorkFits(l) ==
  /\ <<l.op, l.at>> \in Points /\ (l.op = "idle" => l = Idle)
  /\ l.op \in {"store", "update", "delete"} \/ (l.op = "list" /\ l.at = "fill") => l.c \in created
  /\ l.op = "delete" => l.c \in deleted
  /\ l.keys \subseteq created
WorkersFit == \A p \in Procs : WorkFits(proc[p])

\* Somebody is about to write the object, its index entry or its messages, or to delete it.
WillPut(c) == \E p \in Procs : proc[p].op = "update" /\ proc[p].at = "object" /\ proc[p].c = c
WillIndex(c) == \E p \in Procs : proc[p].op \in {"store", "update"} /\ proc[p].at = "index" /\ proc[p].c = c
WillDrop(c) == \E p \in Procs : proc[p].op = "delete" /\ proc[p].at = "object" /\ proc[p].c = c
WillStore(c) == \E p \in Procs : proc[p].op = "store" /\ proc[p].c = c
WillRenew(c) == \E p \in Procs : proc[p].op = "update" /\ proc[p].at \in {"index", "messages", "put"} /\ proc[p].c = c

\* An object without an entry will get one or go, and one written later than its
\* entry has it written next.
EntryOf(c) ==
  object[c] # 0 /\ <<c, "index">> \notin torn =>
    /\ c \in index \/ WillIndex(c) \/ WillDrop(c)
    /\ "object" \in renewed[c] /\ "index" \notin renewed[c] => WillIndex(c)

\* The same of the messages, until the completion is deleted.
MessagesOf(c) ==
  c \notin deleted /\ <<c, "messages">> \notin torn =>
    /\ object[c] # 0 \/ WillPut(c) => c \in messages \/ WillStore(c)
    /\ object[c] # 0 /\ "object" \in renewed[c] /\ "messages" \notin renewed[c] /\ c \in messages =>
         WillStore(c) \/ WillRenew(c)

Whole == \A c \in Completions : EntryOf(c) /\ MessagesOf(c)

\* In the order of the listing.
Before(l, a, b) == Beyond(a, l.query.reverse, b)
Sorted(l, s) == \A i, j \in 1..Len(s) : i < j => Before(l, s[i], s[j])
Among(c, s) == \E i \in 1..Len(s) : c = s[i]

\* What a listing has found and what it has read of the index come in order, and
\* behind its cursor.
ListingSorted(l) ==
  /\ Sorted(l, l.found) /\ Sorted(l, l.page)
  /\ \A c \in Completions : Among(c, l.found) \/ Among(c, l.page) =>
       Before(l, l.query.after, c) /\ l.scan # 0 /\ (c = l.scan \/ Before(l, c, l.scan))
  /\ l.scan # l.query.after => l.scan # 0 /\ Before(l, l.query.after, l.scan)
  /\ \A i \in 1..Len(l.found), j \in 1..Len(l.page) : Before(l, l.found[i], l.page[j])

ListingBounded(l) ==
  /\ Len(l.page) <= Batch /\ Len(l.found) <= Limit + 1
  /\ l.op = "list" /\ l.at # "done" => Len(l.found) <= Limit
  /\ l.op = "list" /\ l.at \in {"keys", "backfill", "fill", "cursor"} => 
       l.scan = l.query.after /\ l.found = <<>> /\ l.page = <<>>
  /\ l.op = "list" /\ l.at = "page" => l.page = <<>>
  /\ l.op = "list" /\ l.at = "get" => l.page # <<>>

\* A completion nobody touched is in the index with its object, and was found, is on the
\* page just read, or lies ahead.
Ahead(p, c) ==
  LET l == proc[p] IN Among(c, l.page) \/ (Before(l, l.scan, c) /\ (l.at = "get" => l.more))
Untouched(p) ==
  LET l == proc[p] IN
  /\ l.op # "list" => steady[p] = {}
  /\ \A c \in steady[p] :
       /\ c \in index /\ object[c] # 0
       /\ Matches(c, l.query) /\ Before(l, l.query.after, c) =>
            Among(c, l.found) \/ (~(l.at = "done" /\ ~Enough(l.found)) /\ (Ahead(p, c)))

Listings == \A p \in Procs : ListingSorted(proc[p]) /\ ListingBounded(proc[p]) /\ Untouched(p)

IInv == Types /\ WorkersFit /\ Whole /\ Listings

-----------------------------------------------------------------------------
(* A step of one process. *)

Writers == {"store", "update", "delete"}

LEMMA IdleIsWork == Idle \in Work /\ WorkFits(Idle)
  <1>1. <<>> \in Seq(Completions) /\ {} \in SUBSET Completions
    OBVIOUS
  <1>2. [after |-> 0, reverse |-> FALSE, filter |-> 0] \in Query
    BY DEF Query
  <1>3. Idle \in Work
    BY <1>1, <1>2 DEF Idle, Work
  <1>4. Idle.op = "idle" /\ Idle.at = "none" /\ Idle.keys = {}
    BY DEF Idle
  <1> QED  BY <1>3, <1>4 DEF WorkFits, Points

LEMMA DoChanges ==
    ASSUME Types, NEW p \in Procs, NEW l \in Work, Do(p, l)
    PROVE  /\ proc' \in [Procs -> Work] /\ proc'[p] = l
           /\ \A q \in Procs : q # p => proc'[q] = proc[q]
  BY DEF Do, Types

LEMMA OneFits ==
    ASSUME WorkersFit, NEW p \in Procs, \A q \in Procs : q # p => proc'[q] = proc[q],
           created \subseteq created', deleted \subseteq deleted', WorkFits(proc[p])'
    PROVE  WorkersFit'
  <1>1. ASSUME NEW q \in Procs, q # p PROVE WorkFits(proc[q])'
    BY <1>1 DEF WorkersFit, WorkFits
  <1> QED  BY <1>1 DEF WorkersFit

\* A process goes on with what it has.
LEMMA GoIs ==
    ASSUME Types, NEW p \in Procs, NEW at,
           at \in {"none", "object", "index", "put", "messages", "keys", "backfill", "fill", "cursor",
                   "page", "get", "done", "lost"}
    PROVE  LET l == [proc[p] EXCEPT !.at = at] IN
           /\ l \in Work /\ l.at = at /\ l.op = proc[p].op /\ l.c = proc[p].c /\ l.query = proc[p].query
           /\ l.keys = proc[p].keys /\ l.scan = proc[p].scan /\ l.page = proc[p].page
           /\ l.more = proc[p].more /\ l.found = proc[p].found
  <1>1. proc[p] \in Work
    BY DEF Types
  <1> QED  BY <1>1, SMTT(40) DEF Work

LEMMA IdleIs ==
    /\ Idle \in Work /\ Idle.op = "idle" /\ Idle.at = "none" /\ Idle.c = 0 /\ Idle.keys = {} /\ Idle.scan = 0
    /\ Idle.page = <<>> /\ Idle.found = <<>>
    /\ Idle.query = [after |-> 0, reverse |-> FALSE, filter |-> 0]
  BY IdleIsWork DEF Idle

\* A piece that is written: it is newer than the others, or all are of one age.
LEMMA RenewIs ==
    ASSUME Types, NEW c \in Completions, NEW piece \in Pieces, Renew(c, piece)
    PROVE  /\ renewed' \in [Completions -> SUBSET Pieces]
           /\ \A d \in Completions : d # c => renewed'[d] = renewed[d]
           /\ renewed'[c] = {} \/ renewed'[c] = renewed[c] \cup {piece}
  BY DEF Renew, Types

-----------------------------------------------------------------------------
(* The pieces of a completion. *)

\* What a step leaves alone of a completion.
SamePieces(c) ==
  /\ object'[c] = object[c] /\ (c \in index' <=> c \in index) /\ (c \in messages' <=> c \in messages)
  /\ renewed'[c] = renewed[c] /\ (c \in deleted' <=> c \in deleted)
  /\ \A piece \in {"index", "messages"} : <<c, piece>> \in torn' <=> <<c, piece>> \in torn

SameWills(c) ==
  /\ WillPut(c)' <=> WillPut(c)
  /\ WillIndex(c)' <=> WillIndex(c)
  /\ WillDrop(c)' <=> WillDrop(c)
  /\ WillStore(c)' <=> WillStore(c)
  /\ WillRenew(c)' <=> WillRenew(c)

LEMMA StaysWhole ==
    ASSUME NEW c \in Completions, SamePieces(c), SameWills(c), EntryOf(c), MessagesOf(c)
    PROVE  EntryOf(c)' /\ MessagesOf(c)'
  BY DEF SamePieces, SameWills, EntryOf, MessagesOf

\* A process that works on another completion, or lists, before and after.
LEMMA OthersWill ==
    ASSUME NEW p \in Procs, NEW c \in Completions, \A q \in Procs : q # p => proc'[q] = proc[q],
           proc[p].op \notin Writers \/ proc[p].c # c, proc'[p].op \notin Writers \/ proc'[p].c # c
    PROVE  SameWills(c)
  <1>1. WillPut(c)' <=> WillPut(c)
    BY DEF WillPut, Writers
  <1>2. WillIndex(c)' <=> WillIndex(c)
    BY DEF WillIndex, Writers
  <1>3. WillDrop(c)' <=> WillDrop(c)
    BY DEF WillDrop, Writers
  <1>4. WillStore(c)' <=> WillStore(c)
    BY DEF WillStore, Writers
  <1>5. WillRenew(c)' <=> WillRenew(c)
    BY DEF WillRenew, Writers
  <1> QED  BY <1>1, <1>2, <1>3, <1>4, <1>5 DEF SameWills

\* What the others will do they still will, whatever this process does.
LEMMA OthersStill ==
    ASSUME NEW p \in Procs, NEW c \in Completions, \A q \in Procs : q # p => proc'[q] = proc[q]
    PROVE  /\ WillIndex(c) => WillIndex(c)' \/ (proc[p].op \in {"store", "update"} /\ proc[p].at = "index")
           /\ WillDrop(c) => WillDrop(c)' \/ (proc[p].op = "delete" /\ proc[p].at = "object")
           /\ WillStore(c) => WillStore(c)' \/ proc[p].op = "store"
           /\ WillRenew(c) => WillRenew(c)' \/ (proc[p].op = "update" /\ proc[p].at \in {"index", "messages", "put"})
           /\ WillPut(c)' => WillPut(c) \/ (proc'[p].op = "update" /\ proc'[p].at = "object" /\ proc'[p].c = c)
  <1>1. WillIndex(c) => WillIndex(c)' \/ (proc[p].op \in {"store", "update"} /\ proc[p].at = "index")
    BY DEF WillIndex
  <1>2. WillDrop(c) => WillDrop(c)' \/ (proc[p].op = "delete" /\ proc[p].at = "object")
    BY DEF WillDrop
  <1>3. WillStore(c) => WillStore(c)' \/ proc[p].op = "store"
    BY DEF WillStore
  <1>4. WillRenew(c) => WillRenew(c)' \/ (proc[p].op = "update" /\ proc[p].at \in {"index", "messages", "put"})
    BY DEF WillRenew
  <1>5. WillPut(c)' => WillPut(c) \/ (proc'[p].op = "update" /\ proc'[p].at = "object" /\ proc'[p].c = c)
    BY DEF WillPut
  <1> QED  BY <1>1, <1>2, <1>3, <1>4, <1>5

-----------------------------------------------------------------------------
(* Writing. *)

StoreInv == Types /\ WorkersFit /\ Whole

LEMMA OthersWhole ==
    ASSUME Whole, NEW p \in Procs, NEW c, \A q \in Procs : q # p => proc'[q] = proc[q],
           proc[p].op \notin Writers \/ proc[p].c = c, proc'[p].op \notin Writers \/ proc'[p].c = c,
           \A d \in Completions : d # c => SamePieces(d)
    PROVE  \A d \in Completions : d # c => EntryOf(d)' /\ MessagesOf(d)'
  <1>1. ASSUME NEW d \in Completions, d # c PROVE SameWills(d)
    BY <1>1, OthersWill
  <1> QED  BY <1>1, StaysWhole DEF Whole

LEMMA StoreKeeps ==
    ASSUME StoreInv, NEW p \in Procs, NEW c \in Completions, Store(p, c)
    PROVE  StoreInv'
  <1> DEFINE l == [Idle EXCEPT !.op = "store", !.at = "index", !.c = c]
  <1>1. /\ l \in Work /\ l.op = "store" /\ l.at = "index" /\ l.c = c /\ l.keys = {}
        /\ proc[p] = Idle /\ Do(p, l) /\ c \notin created
    <2>1. /\ l \in Work /\ l.op = "store" /\ l.at = "index" /\ l.c = c /\ l.keys = {}
      BY IdleIs DEF Work
    <2> QED  BY <2>1 DEF Store
  <1> HIDE DEF l
  <1>2. /\ proc' \in [Procs -> Work] /\ proc'[p] = l
        /\ \A q \in Procs : q # p => proc'[q] = proc[q]
    BY <1>1, DoChanges DEF StoreInv
  <1>3. /\ object' \in [Completions -> 0..2] /\ object'[c] # 0
        /\ \A d \in Completions : d # c => object'[d] = object[d]
        /\ created' = created \cup {c} /\ UNCHANGED <<index, messages, renewed, torn, deleted, steady>>
    BY DEF Store, StoreInv, Types
  <1>4. Types'
    BY <1>2, <1>3 DEF StoreInv, Types
  <1>5. WorkersFit'
    <2>1. WorkFits(proc[p])'
      BY <1>1, <1>2, <1>3 DEF WorkFits, Points
    <2> QED  BY <1>2, <1>3, <2>1, OneFits DEF StoreInv
  <1>6. EntryOf(c)' /\ MessagesOf(c)'
    <2>1. WillIndex(c)' /\ WillStore(c)'
      BY <1>1, <1>2 DEF WillIndex, WillStore
    <2> QED  BY <2>1 DEF EntryOf, MessagesOf
  <1>7. \A d \in Completions : d # c => EntryOf(d)' /\ MessagesOf(d)'
    <2>1. \A d \in Completions : d # c => SamePieces(d)
      BY <1>3 DEF SamePieces
    <2>2. Idle.op \notin Writers
      BY DEF Idle, Writers
    <2> QED  BY <1>1, <1>2, <2>1, <2>2, OthersWhole DEF StoreInv
  <1> QED  BY <1>4, <1>5, <1>6, <1>7 DEF StoreInv, Whole

LEMMA UpdateKeeps ==
    ASSUME StoreInv, NEW p \in Procs, NEW c \in Completions, Update(p, c)
    PROVE  StoreInv'
  <1> DEFINE l == [Idle EXCEPT !.op = "update", !.at = "object", !.c = c]
  <1>1. /\ l \in Work /\ l.op = "update" /\ l.at = "object" /\ l.c = c /\ l.keys = {}
        /\ proc[p] = Idle /\ Do(p, l) /\ object[c] = 1 /\ UNCHANGED <<store, history, steady>>
    <2>1. /\ l \in Work /\ l.op = "update" /\ l.at = "object" /\ l.c = c /\ l.keys = {}
      BY IdleIs DEF Work
    <2> QED  BY <2>1 DEF Update
  <1> HIDE DEF l
  <1>2. /\ proc' \in [Procs -> Work] /\ proc'[p] = l
        /\ \A q \in Procs : q # p => proc'[q] = proc[q]
    BY <1>1, DoChanges DEF StoreInv
  <1>3. Types'
    BY <1>1, <1>2 DEF StoreInv, Types, store, history
  <1>4. WorkersFit'
    <2>1. c \in created
      BY <1>1 DEF StoreInv, Types
    <2>2. WorkFits(proc[p])'
      BY <1>1, <1>2, <2>1 DEF WorkFits, Points, history
    <2> QED  BY <1>1, <1>2, <2>2, OneFits DEF StoreInv, history
  <1>5. Idle.op = "idle"
    BY DEF Idle
  <1>6. EntryOf(c)' /\ MessagesOf(c)'
    <2>1. /\ WillIndex(c) => WillIndex(c)'
          /\ WillDrop(c) => WillDrop(c)'
          /\ WillStore(c) => WillStore(c)'
          /\ WillRenew(c) => WillRenew(c)'
      BY <1>1, <1>2, <1>5, OthersStill
    <2>2. EntryOf(c) /\ MessagesOf(c)
      BY DEF StoreInv, Whole
    <2> QED  BY <1>1, <2>1, <2>2 DEF EntryOf, MessagesOf, store, history
  <1>7. \A d \in Completions : d # c => EntryOf(d)' /\ MessagesOf(d)'
    <2>1. \A d \in Completions : d # c => SamePieces(d)
      BY <1>1 DEF SamePieces, store, history
    <2> QED  BY <1>1, <1>2, <1>5, <2>1, OthersWhole DEF StoreInv, Writers
  <1> QED  BY <1>3, <1>4, <1>6, <1>7 DEF StoreInv, Whole

LEMMA PutObjectKeeps ==
    ASSUME StoreInv, NEW p \in Procs, PutObject(p)
    PROVE  StoreInv'
  <1> DEFINE l == [proc[p] EXCEPT !.at = "index"]
  <1>1. PICK c \in created : c = proc[p].c
    BY DEF PutObject, StoreInv, WorkersFit, WorkFits
  <1>2. c \in Completions /\ created \subseteq Completions
    BY DEF StoreInv, Types
  <1>3. /\ l \in Work /\ l.op = "update" /\ l.at = "index" /\ l.c = c /\ l.keys = proc[p].keys
        /\ proc[p].op = "update" /\ proc[p].at = "object" /\ Do(p, l)
    BY <1>1, GoIs DEF PutObject, Go, StoreInv
  <1> HIDE DEF l
  <1>4. /\ proc' \in [Procs -> Work] /\ proc'[p] = l
        /\ \A q \in Procs : q # p => proc'[q] = proc[q]
    BY <1>3, DoChanges DEF StoreInv
  <1>5. /\ object' \in [Completions -> 0..2] /\ object'[c] # 0
        /\ \A d \in Completions : d # c => object'[d] = object[d]
        /\ UNCHANGED <<index, messages, history>>
    BY <1>1, <1>2 DEF PutObject, StoreInv, Types
  <1>6. /\ renewed' \in [Completions -> SUBSET Pieces]
        /\ \A d \in Completions : d # c => renewed'[d] = renewed[d]
    BY <1>1, <1>2, RenewIs DEF PutObject, StoreInv, Pieces
  <1>7. steady' \in [Procs -> SUBSET Completions]
    BY DEF PutObject, Touched, StoreInv, Types
  <1>8. Types'
    BY <1>1, <1>4, <1>5, <1>6, <1>7 DEF StoreInv, Types, history
  <1>9. WorkersFit'
    <2>1. proc[p].keys \subseteq created
      BY DEF StoreInv, WorkersFit, WorkFits
    <2>2. WorkFits(proc[p])'
      BY <1>1, <1>3, <1>4, <1>5, <2>1 DEF WorkFits, Points, history
    <2> QED  BY <1>4, <1>5, <2>2, OneFits DEF StoreInv, history
  <1>10. EntryOf(c)' /\ MessagesOf(c)'
    <2>1. WillIndex(c)' /\ WillRenew(c)' /\ WillPut(c)
      BY <1>1, <1>3, <1>4 DEF WillIndex, WillRenew, WillPut
    <2>2. WillStore(c) => WillStore(c)'
      BY <1>2, <1>3, <1>4, OthersStill
    <2>3. MessagesOf(c)
      BY <1>2 DEF StoreInv, Whole
    <2> QED  BY <1>5, <2>1, <2>2, <2>3 DEF EntryOf, MessagesOf, history
  <1>11. \A d \in Completions : d # c => EntryOf(d)' /\ MessagesOf(d)'
    <2>1. \A d \in Completions : d # c => SamePieces(d)
      BY <1>5, <1>6 DEF SamePieces, history
    <2> QED  BY <1>1, <1>3, <1>4, <2>1, OthersWhole DEF StoreInv
  <1> QED  BY <1>8, <1>9, <1>10, <1>11 DEF StoreInv, Whole

\* The entry is written, by a store, an update or a listing that makes the index.
LEMMA EntryWritten ==
    ASSUME StoreInv, NEW p \in Procs, NEW c \in created, \A q \in Procs : q # p => proc'[q] = proc[q],
           index' = index \cup {c}, Renew(c, "index"), torn' = torn \ {<<c, "index">>},
           UNCHANGED <<object, messages, created, deleted>>, proc' \in [Procs -> Work],
           steady' \in [Procs -> SUBSET Completions],
           proc[p].op \notin Writers \/ proc[p].c = c, proc'[p].op \notin Writers \/ proc'[p].c = c,
           SameWills(c) \/ (proc[p].op \in {"store", "update"} /\ proc[p].at = "index" /\
                            proc'[p].op = proc[p].op /\ proc'[p].c = c /\
                            proc'[p].at = IF proc[p].op = "store" THEN "put" ELSE "messages")
    PROVE  Types' /\ Whole'
  <1>1. c \in Completions
    BY DEF StoreInv, Types
  <1>2. /\ renewed' \in [Completions -> SUBSET Pieces]
        /\ \A d \in Completions : d # c => renewed'[d] = renewed[d]
        /\ renewed'[c] = {} \/ renewed'[c] = renewed[c] \cup {"index"}
    BY <1>1, RenewIs DEF StoreInv, Pieces
  <1>3. Types'
    BY <1>2 DEF StoreInv, Types
  <1>4. EntryOf(c)'
    BY <1>2 DEF EntryOf
  <1>5. MessagesOf(c)'
    <2>1. /\ WillStore(c) => WillStore(c)'
          /\ WillRenew(c) => WillRenew(c)'
          /\ WillPut(c)' => WillPut(c)
      <3>1. CASE SameWills(c)
        BY <3>1 DEF SameWills
      <3>2. CASE ~SameWills(c)
        <4>1. /\ proc[p].op = "store" => WillStore(c)'
              /\ proc[p].op = "update" => WillRenew(c)'
          BY <3>2 DEF WillStore, WillRenew
        <4>2. proc'[p].at # "object"
          BY <3>2
        <4> QED  BY <1>1, <4>1, <4>2, OthersStill
      <3> QED  BY <3>1, <3>2
    <2>2. MessagesOf(c)
      BY <1>1 DEF StoreInv, Whole
    <2> QED  BY <1>2, <2>1, <2>2 DEF MessagesOf
  <1>6. \A d \in Completions : d # c => EntryOf(d)' /\ MessagesOf(d)'
    <2>1. \A d \in Completions : d # c => SamePieces(d)
      BY <1>2 DEF SamePieces
    <2> QED  BY <2>1, OthersWhole DEF StoreInv
  <1> QED  BY <1>3, <1>4, <1>5, <1>6 DEF Whole

LEMMA PutIndexKeeps ==
    ASSUME StoreInv, NEW p \in Procs, PutIndex(p)
    PROVE  StoreInv'
  <1> DEFINE at == IF proc[p].op = "store" THEN "put" ELSE "messages"
             l == [proc[p] EXCEPT !.at = at]
  <1>1. PICK c \in created : c = proc[p].c
    BY DEF PutIndex, StoreInv, WorkersFit, WorkFits
  <1>2. /\ l \in Work /\ l.op = proc[p].op /\ l.at = at /\ l.c = c /\ l.keys = proc[p].keys
        /\ proc[p].op \in {"store", "update"} /\ proc[p].at = "index" /\ Do(p, l)
    BY <1>1, GoIs DEF PutIndex, Go, StoreInv
  <1> HIDE DEF l
  <1>3. /\ proc' \in [Procs -> Work] /\ proc'[p] = l
        /\ \A q \in Procs : q # p => proc'[q] = proc[q]
    BY <1>2, DoChanges DEF StoreInv
  <1>4. steady' \in [Procs -> SUBSET Completions]
    BY DEF PutIndex, Touched, StoreInv, Types
  <1>5. Types' /\ Whole'
    BY <1>1, <1>2, <1>3, <1>4, EntryWritten DEF PutIndex
  <1>6. WorkersFit'
    <2>1. proc[p].keys \subseteq created /\ UNCHANGED <<created, deleted>>
      BY DEF StoreInv, WorkersFit, WorkFits, PutIndex
    <2>2. WorkFits(proc[p])'
      BY <1>1, <1>2, <1>3, <2>1 DEF WorkFits, Points
    <2> QED  BY <1>3, <2>1, <2>2, OneFits DEF StoreInv
  <1> QED  BY <1>5, <1>6 DEF StoreInv

LEMMA FillKeeps ==
    ASSUME StoreInv, NEW p \in Procs, Fill(p)
    PROVE  StoreInv'
  <1> DEFINE l == [proc[p] EXCEPT !.at = "backfill"]
  <1>1. PICK c \in created : c = proc[p].c
    BY DEF Fill, StoreInv, WorkersFit, WorkFits
  <1>2. /\ l \in Work /\ l.op = "list" /\ l.at = "backfill" /\ l.c = c /\ l.keys = proc[p].keys
        /\ proc[p].op = "list" /\ Do(p, l)
    BY <1>1, GoIs DEF Fill, Go, StoreInv
  <1> HIDE DEF l
  <1>3. /\ proc' \in [Procs -> Work] /\ proc'[p] = l
        /\ \A q \in Procs : q # p => proc'[q] = proc[q]
    BY <1>2, DoChanges DEF StoreInv
  <1>4. steady' \in [Procs -> SUBSET Completions]
    BY DEF Fill, Touched, StoreInv, Types
  <1>5. SameWills(c)
    BY <1>1, <1>2, <1>3, OthersWill DEF Writers, StoreInv, Types
  <1>6. Types' /\ Whole'
    BY <1>1, <1>2, <1>3, <1>4, <1>5, EntryWritten DEF Fill, Writers
  <1>7. WorkersFit'
    <2>1. proc[p].keys \subseteq created /\ UNCHANGED <<created, deleted>>
      BY DEF StoreInv, WorkersFit, WorkFits, Fill
    <2>2. WorkFits(proc[p])'
      BY <1>1, <1>2, <1>3, <2>1 DEF WorkFits, Points
    <2> QED  BY <1>3, <2>1, <2>2, OneFits DEF StoreInv
  <1> QED  BY <1>6, <1>7 DEF StoreInv

\* A step that touches nothing in the store.
LEMMA NothingWritten ==
    ASSUME StoreInv, NEW p \in Procs, \A q \in Procs : q # p => proc'[q] = proc[q],
           UNCHANGED <<object, index, messages, renewed, created, torn, deleted>>, proc' \in [Procs -> Work],
           steady' \in [Procs -> SUBSET Completions],
           proc[p].op \notin Writers, proc'[p].op \notin Writers, WorkFits(proc[p])'
    PROVE  StoreInv'
  <1>1. Types'
    BY DEF StoreInv, Types
  <1>2. WorkersFit'
    BY OneFits DEF StoreInv
  <1>3. ASSUME NEW d \in Completions PROVE EntryOf(d)' /\ MessagesOf(d)'
    <2>1. SamePieces(d)
      BY DEF SamePieces
    <2>2. SameWills(d)
      BY OthersWill
    <2> QED  BY <2>1, <2>2, StaysWhole DEF StoreInv, Whole
  <1> QED  BY <1>1, <1>2, <1>3 DEF StoreInv, Whole

LEMMA GetMessagesKeeps ==
    ASSUME StoreInv, NEW p \in Procs, GetMessages(p)
    PROVE  StoreInv'
  <1> DEFINE l == IF proc[p].c \in messages THEN [proc[p] EXCEPT !.at = "put"] ELSE Idle
  <1>1. PICK c \in created : c = proc[p].c
    BY DEF GetMessages, StoreInv, WorkersFit, WorkFits
  <1>2. c \in Completions /\ created \subseteq Completions
    BY DEF StoreInv, Types
  <1>3. /\ l \in Work /\ proc[p].op = "update" /\ proc[p].at = "messages" /\ Do(p, l)
        /\ c \in messages => l.op = "update" /\ l.at = "put" /\ l.c = c /\ l.keys = proc[p].keys
        /\ c \notin messages => l = Idle
        /\ UNCHANGED <<store, history, steady>>
    BY <1>1, GoIs, IdleIs DEF GetMessages, Go, Finish, StoreInv
  <1> HIDE DEF l
  <1>4. /\ proc' \in [Procs -> Work] /\ proc'[p] = l
        /\ \A q \in Procs : q # p => proc'[q] = proc[q]
    BY <1>3, DoChanges DEF StoreInv
  <1>5. Types'
    BY <1>3, <1>4 DEF StoreInv, Types, store, history
  <1>6. WorkersFit'
    <2>1. proc[p].keys \subseteq created /\ UNCHANGED <<created, deleted>>
      BY <1>3 DEF StoreInv, WorkersFit, WorkFits, history
    <2>2. WorkFits(proc[p])'
      BY <1>1, <1>3, <1>4, <2>1, IdleIs DEF WorkFits, Points
    <2> QED  BY <1>4, <2>1, <2>2, OneFits DEF StoreInv
  <1>7. EntryOf(c)' /\ MessagesOf(c)'
    <2>1. /\ WillIndex(c) => WillIndex(c)'
          /\ WillDrop(c) => WillDrop(c)'
          /\ WillStore(c) => WillStore(c)'
          /\ WillPut(c)' => WillPut(c)
      BY <1>2, <1>3, <1>4, OthersStill, IdleIs
    <2>2. c \in messages => WillRenew(c)'
      BY <1>3, <1>4 DEF WillRenew
    <2>3. EntryOf(c) /\ MessagesOf(c)
      BY <1>2 DEF StoreInv, Whole
    <2> QED  BY <1>3, <2>1, <2>2, <2>3 DEF EntryOf, MessagesOf, store, history
  <1>8. \A d \in Completions : d # c => EntryOf(d)' /\ MessagesOf(d)'
    <2>1. \A d \in Completions : d # c => SamePieces(d)
      BY <1>3 DEF SamePieces, store, history
    <2>2. l.op \notin Writers \/ l.c = c
      BY <1>3, IdleIs DEF Writers
    <2> QED  BY <1>1, <1>4, <2>1, <2>2, OthersWhole DEF StoreInv
  <1> QED  BY <1>5, <1>6, <1>7, <1>8 DEF StoreInv, Whole

LEMMA PutMessagesKeeps ==
    ASSUME StoreInv, NEW p \in Procs, PutMessages(p)
    PROVE  StoreInv'
  <1>1. PICK c \in created : c = proc[p].c
    BY DEF PutMessages, StoreInv, WorkersFit, WorkFits
  <1>2. c \in Completions /\ created \subseteq Completions
    BY DEF StoreInv, Types
  <1>3. /\ proc[p].op \in {"store", "update"} /\ proc[p].at = "put" /\ Do(p, Idle)
        /\ messages' = messages \cup {c} /\ Renew(c, "messages")
        /\ UNCHANGED <<object, index, history, steady>>
    BY <1>1 DEF PutMessages, Finish
  <1>4. /\ proc' \in [Procs -> Work] /\ proc'[p] = Idle
        /\ \A q \in Procs : q # p => proc'[q] = proc[q]
    BY <1>3, DoChanges, IdleIs DEF StoreInv
  <1>5. /\ renewed' \in [Completions -> SUBSET Pieces]
        /\ \A d \in Completions : d # c => renewed'[d] = renewed[d]
        /\ renewed'[c] = {} \/ renewed'[c] = renewed[c] \cup {"messages"}
    BY <1>2, <1>3, RenewIs DEF StoreInv, Pieces
  <1>6. Types'
    BY <1>3, <1>4, <1>5 DEF StoreInv, Types, history
  <1>7. WorkersFit'
    <2>1. WorkFits(proc[p])'
      BY <1>4, IdleIs DEF WorkFits, Points
    <2> QED  BY <1>3, <1>4, <2>1, OneFits DEF StoreInv, history
  <1>8. EntryOf(c)' /\ MessagesOf(c)'
    <2>1. /\ WillIndex(c) => WillIndex(c)'
          /\ WillDrop(c) => WillDrop(c)'
      BY <1>2, <1>3, <1>4, OthersStill
    <2>2. EntryOf(c)
      BY <1>2 DEF StoreInv, Whole
    <2> QED  BY <1>3, <1>5, <2>1, <2>2 DEF EntryOf, MessagesOf, history
  <1>9. \A d \in Completions : d # c => EntryOf(d)' /\ MessagesOf(d)'
    <2>1. \A d \in Completions : d # c => SamePieces(d)
      BY <1>3, <1>5 DEF SamePieces, history
    <2>2. Idle.op \notin Writers
      BY IdleIs DEF Writers
    <2> QED  BY <1>1, <1>4, <2>1, <2>2, OthersWhole DEF StoreInv
  <1> QED  BY <1>6, <1>7, <1>8, <1>9 DEF StoreInv, Whole

LEMMA DeleteKeeps ==
    ASSUME StoreInv, NEW p \in Procs, NEW c \in Completions, Delete(p, c)
    PROVE  StoreInv'
  <1> DEFINE l == [Idle EXCEPT !.op = "delete", !.c = c,
                               !.at = IF object[c] # 0 THEN DropOrder[1] ELSE DropOrder[2]]
  <1>1. DropOrder[1] = "index" /\ DropOrder[2] = "object"
    BY DEF DropOrder
  <1>2. /\ l \in Work /\ l.op = "delete" /\ l.at \in {"index", "object"} /\ l.c = c /\ l.keys = {}
    BY <1>1, IdleIs DEF Work
  <1>3. /\ proc[p] = Idle /\ Do(p, l) /\ c \in created /\ deleted' = deleted \cup {c}
        /\ UNCHANGED <<store, created, torn, steady>>
    BY DEF Delete
  <1> HIDE DEF l
  <1>4. /\ proc' \in [Procs -> Work] /\ proc'[p] = l
        /\ \A q \in Procs : q # p => proc'[q] = proc[q]
    BY <1>2, <1>3, DoChanges DEF StoreInv
  <1>5. Types'
    BY <1>3, <1>4 DEF StoreInv, Types, store
  <1>6. WorkersFit'
    <2>1. WorkFits(proc[p])'
      BY <1>2, <1>3, <1>4 DEF WorkFits, Points, Pieces
    <2> QED  BY <1>3, <1>4, <2>1, OneFits DEF StoreInv
  <1>7. EntryOf(c)' /\ MessagesOf(c)'
    <2>1. /\ WillIndex(c) => WillIndex(c)'
          /\ WillDrop(c) => WillDrop(c)'
      BY <1>3, <1>4, IdleIs, OthersStill
    <2>2. EntryOf(c)
      BY DEF StoreInv, Whole
    <2> QED  BY <1>3, <2>1, <2>2 DEF EntryOf, MessagesOf, store
  <1>8. \A d \in Completions : d # c => EntryOf(d)' /\ MessagesOf(d)'
    <2>1. \A d \in Completions : d # c => SamePieces(d)
      BY <1>3 DEF SamePieces, store
    <2>2. Idle.op \notin Writers
      BY IdleIs DEF Writers
    <2> QED  BY <1>2, <1>3, <1>4, <2>1, <2>2, OthersWhole DEF StoreInv
  <1> QED  BY <1>5, <1>6, <1>7, <1>8 DEF StoreInv, Whole

\* A delete goes from one piece to the next.
LEMMA DropSteps ==
    ASSUME StoreInv, NEW p \in Procs, Drop(p)
    PROVE  /\ proc[p].op = "delete" /\ proc[p].at \in Pieces
           /\ Do(p, IF proc[p].at = "messages" THEN Idle
                    ELSE [proc[p] EXCEPT !.at = IF proc[p].at = "index" THEN "object" ELSE "messages"])
  <1> DEFINE i == CHOOSE i \in 1..3 : DropOrder[i] = proc[p].at
  <1>1. proc[p].op = "delete" /\ proc[p].at \in Pieces
    BY DEF Drop, StoreInv, WorkersFit, WorkFits, Points
  <1>2. DropOrder[1] = "index" /\ DropOrder[2] = "object" /\ DropOrder[3] = "messages"
    BY DEF DropOrder
  <1>3. \E k \in 1..3 : DropOrder[k] = proc[p].at
    <2>1. CASE proc[p].at = "index"
      BY <1>2, <2>1
    <2>2. CASE proc[p].at = "object"
      BY <1>2, <2>2
    <2>3. CASE proc[p].at = "messages"
      BY <1>2, <2>3
    <2> QED  BY <1>1, <2>1, <2>2, <2>3 DEF Pieces
  <1>4. i \in 1..3 /\ DropOrder[i] = proc[p].at
    BY <1>3
  <1>5. IF i = 3 THEN Finish(p) ELSE Go(p, DropOrder[i + 1])
    BY DEF Drop
  <1> HIDE DEF i
  <1>6. /\ proc[p].at = "index" => i = 1
        /\ proc[p].at = "object" => i = 2
        /\ proc[p].at = "messages" => i = 3
    <2>1. i = 1 \/ i = 2 \/ i = 3
      BY <1>4
    <2> QED  BY <1>2, <1>4, <2>1
  <1>7. CASE proc[p].at = "index"
    BY <1>1, <1>2, <1>5, <1>6, <1>7 DEF Go
  <1>8. CASE proc[p].at = "object"
    BY <1>1, <1>2, <1>5, <1>6, <1>8 DEF Go
  <1>9. CASE proc[p].at = "messages"
    BY <1>1, <1>5, <1>6, <1>9 DEF Finish
  <1> QED  BY <1>1, <1>7, <1>8, <1>9 DEF Pieces

LEMMA DropKeeps ==
    ASSUME StoreInv, NEW p \in Procs, Drop(p)
    PROVE  StoreInv'
  <1> DEFINE l == IF proc[p].at = "messages" THEN Idle
                  ELSE [proc[p] EXCEPT !.at = IF proc[p].at = "index" THEN "object" ELSE "messages"]
  <1>1. PICK c \in created : c = proc[p].c
    BY DEF Drop, StoreInv, WorkersFit, WorkFits
  <1>2. c \in Completions /\ created \subseteq Completions /\ c \in deleted
    BY <1>1 DEF StoreInv, Types, Drop, WorkersFit, WorkFits
  <1>3. /\ l \in Work /\ Do(p, l) /\ proc[p].op = "delete" /\ proc[p].at \in Pieces
        /\ proc[p].at = "messages" => l = Idle
        /\ proc[p].at # "messages" => l.op = "delete" /\ l.c = c /\ l.keys = proc[p].keys
        /\ proc[p].at = "index" => l.at = "object"
        /\ proc[p].at = "object" => l.at = "messages"
    <2>1. Do(p, l) /\ proc[p].op = "delete" /\ proc[p].at \in Pieces
      BY DropSteps
    <2>2. CASE proc[p].at = "messages"
      BY <2>1, <2>2, IdleIs
    <2>3. CASE proc[p].at = "index"
      <3>1. l = [proc[p] EXCEPT !.at = "object"]
        BY <2>3
      <3> HIDE DEF l
      <3>2. l \in Work /\ l.op = "delete" /\ l.c = c /\ l.keys = proc[p].keys /\ l.at = "object"
        BY <1>1, <2>1, <3>1, GoIs DEF StoreInv
      <3> QED  BY <2>1, <2>3, <3>2
    <2>4. CASE proc[p].at = "object"
      <3>1. l = [proc[p] EXCEPT !.at = "messages"]
        BY <2>4
      <3> HIDE DEF l
      <3>2. l \in Work /\ l.op = "delete" /\ l.c = c /\ l.keys = proc[p].keys /\ l.at = "messages"
        BY <1>1, <2>1, <3>1, GoIs DEF StoreInv
      <3> QED  BY <2>1, <2>4, <3>2
    <2> QED  BY <2>1, <2>2, <2>3, <2>4 DEF Pieces
  <1> HIDE DEF l
  <1>4. /\ proc' \in [Procs -> Work] /\ proc'[p] = l
        /\ \A q \in Procs : q # p => proc'[q] = proc[q]
    BY <1>3, DoChanges DEF StoreInv
  <1>5. /\ object' = IF proc[p].at = "object" THEN [object EXCEPT ![c] = 0] ELSE object
        /\ index' = IF proc[p].at = "index" THEN index \ {c} ELSE index
        /\ messages' = IF proc[p].at = "messages" THEN messages \ {c} ELSE messages
        /\ UNCHANGED <<renewed, created, torn, deleted>>
    BY <1>1 DEF Drop, history
  <1>6. steady' \in [Procs -> SUBSET Completions]
    BY DEF Drop, Touched, StoreInv, Types
  <1>7. Types'
    BY <1>2, <1>4, <1>5, <1>6 DEF StoreInv, Types
  <1>8. WorkersFit'
    <2>1. proc[p].keys \subseteq created
      BY DEF StoreInv, WorkersFit, WorkFits
    <2>2. WorkFits(proc[p])'
      BY <1>1, <1>2, <1>3, <1>4, <1>5, <2>1, IdleIs DEF WorkFits, Points, Pieces
    <2> QED  BY <1>4, <1>5, <2>2, OneFits DEF StoreInv
  <1>9. EntryOf(c)' /\ MessagesOf(c)'
    <2>1. MessagesOf(c)'
      BY <1>2, <1>5 DEF MessagesOf
    <2>2. WillIndex(c) => WillIndex(c)'
      BY <1>2, <1>3, <1>4, OthersStill
    <2>3. EntryOf(c)
      BY <1>2 DEF StoreInv, Whole
    <2>4. CASE proc[p].at = "index"
      <3>1. WillDrop(c)'
        BY <1>3, <1>4, <2>4 DEF WillDrop
      <3> QED  BY <1>5, <2>1, <2>2, <2>3, <2>4, <3>1 DEF EntryOf
    <2>5. CASE proc[p].at = "object"
      <3>1. object'[c] = 0
        BY <1>2, <1>5, <2>5 DEF StoreInv, Types
      <3> QED  BY <2>1, <3>1 DEF EntryOf
    <2>6. CASE proc[p].at = "messages"
      <3>1. WillDrop(c) => WillDrop(c)'
        BY <1>2, <1>3, <1>4, <2>6, OthersStill
      <3> QED  BY <1>5, <2>1, <2>2, <2>3, <2>6, <3>1 DEF EntryOf
    <2> QED  BY <1>3, <2>4, <2>5, <2>6 DEF Pieces
  <1>10. \A d \in Completions : d # c => EntryOf(d)' /\ MessagesOf(d)'
    <2>1. \A d \in Completions : d # c => SamePieces(d)
      BY <1>2, <1>5 DEF SamePieces, StoreInv, Types
    <2>2. l.op \notin Writers \/ l.c = c
      BY <1>3, IdleIs DEF Writers
    <2> QED  BY <1>1, <1>4, <2>1, <2>2, OthersWhole DEF StoreInv
  <1> QED  BY <1>7, <1>8, <1>9, <1>10 DEF StoreInv, Whole

\* What ends first is what was written first: an entry before its object only when the
\* object was written again, the messages before it likewise.
LEMMA OldestFirst ==
    ASSUME NEW c, NEW piece \in {"index", "messages"}, object[c] # 0,
           \A other \in Existing(c) : Age(c, piece) <= Age(c, other)
    PROVE  "object" \in renewed[c] /\ piece \notin renewed[c]
  <1>1. "object" \in Existing(c)
    BY DEF Existing, Has, Pieces
  <1>2. Age(c, piece) <= Age(c, "object")
    BY <1>1
  <1> QED  BY <1>2 DEF Age

LEMMA ExpireKeeps ==
    ASSUME StoreInv, NEW c \in Completions, NEW piece \in Pieces, Expire(c, piece)
    PROVE  StoreInv'
  <1>1. /\ Has(c, piece) /\ \A other \in Existing(c) : Age(c, piece) <= Age(c, other)
        /\ object' = IF piece = "object" THEN [object EXCEPT ![c] = 0] ELSE object
        /\ index' = IF piece = "index" THEN index \ {c} ELSE index
        /\ messages' = IF piece = "messages" THEN messages \ {c} ELSE messages
        /\ torn' = IF piece = "messages" /\ Updated(c) THEN torn \cup {<<c, "messages">>} ELSE torn
        /\ renewed' = [renewed EXCEPT ![c] = IF Existing(c) = {piece} THEN {} ELSE renewed[c]]
        /\ UNCHANGED <<created, deleted, proc>>
    BY DEF Expire
  <1>2. steady' \in [Procs -> SUBSET Completions]
    BY DEF Expire, Touched, StoreInv, Types
  <1>3. renewed'[c] \in {{}, renewed[c]} /\ \A d \in Completions : d # c => renewed'[d] = renewed[d]
    BY <1>1 DEF StoreInv, Types
  <1>4. Types'
    <2>1. piece = "messages" => c \in created
      BY <1>1 DEF Has, StoreInv, Types
    <2>2. torn' \in SUBSET (created \X Pieces)
      BY <1>1, <2>1 DEF StoreInv, Types, Pieces
    <2>3. object' \in [Completions -> 0..2] /\ \A d \in Completions : object'[d] # 0 => object[d] # 0
      BY <1>1 DEF StoreInv, Types
    <2> QED  BY <1>1, <1>2, <2>2, <2>3 DEF StoreInv, Types
  <1>5. WorkersFit'
    BY <1>1 DEF StoreInv, WorkersFit, WorkFits
  <1>6. ASSUME NEW d \in Completions PROVE SameWills(d)
    BY <1>1 DEF SameWills, WillPut, WillIndex, WillDrop, WillStore, WillRenew
  <1>7. EntryOf(c)' /\ MessagesOf(c)'
    <2>1. EntryOf(c) /\ MessagesOf(c) /\ SameWills(c)
      BY <1>6 DEF StoreInv, Whole
    <2>2. CASE piece = "object"
      <3>1. object'[c] = 0
        BY <1>1, <2>2 DEF StoreInv, Types
      <3> QED  BY <1>1, <2>1, <2>2, <3>1 DEF EntryOf, MessagesOf, SameWills
    <2>3. CASE piece = "index"
      <3>1. object[c] # 0 => "object" \in renewed[c] /\ "index" \notin renewed[c]
        BY <1>1, <2>3, OldestFirst
      <3> QED  BY <1>1, <1>3, <2>1, <2>3, <3>1 DEF EntryOf, MessagesOf, SameWills
    <2>4. CASE piece = "messages"
      <3>1. object[c] # 0 => "object" \in renewed[c] /\ "messages" \notin renewed[c]
        BY <1>1, <2>4, OldestFirst
      <3>2. c \in messages
        BY <1>1, <2>4 DEF Has
      <3>3. EntryOf(c)'
        BY <1>1, <1>3, <2>1, <2>4 DEF EntryOf, SameWills
      <3>4. WillPut(c) \/ WillRenew(c) => <<c, "messages">> \in torn'
        BY <1>1, <2>4 DEF WillPut, WillRenew, Updated
      <3>5. <<c, "messages">> \in torn => <<c, "messages">> \in torn'
        BY <1>1
      <3>6. c \notin messages'
        BY <1>1, <2>4
      <3> QED  BY <1>1, <2>1, <2>4, <3>1, <3>2, <3>3, <3>4, <3>5, <3>6 DEF MessagesOf, SameWills
    <2> QED  BY <2>2, <2>3, <2>4 DEF Pieces
  <1>8. ASSUME NEW d \in Completions, d # c PROVE EntryOf(d)' /\ MessagesOf(d)'
    <2>1. SamePieces(d)
      BY <1>1, <1>3, <1>8 DEF SamePieces, StoreInv, Types
    <2> QED  BY <1>6, <2>1, StaysWhole DEF StoreInv, Whole
  <1> QED  BY <1>4, <1>5, <1>7, <1>8 DEF StoreInv, Whole

LEMMA CrashKeeps ==
    ASSUME StoreInv, NEW p \in Procs, Crash(p)
    PROVE  StoreInv'
  <1>1. /\ proc[p] # Idle /\ Do(p, Idle) /\ UNCHANGED <<store, created, deleted>>
        /\ torn' = IF proc[p].op = "list" THEN torn
                   ELSE torn \cup {<<proc[p].c, piece>> : piece \in {"index", "messages"}}
    BY DEF Crash, Finish
  <1>2. /\ proc' \in [Procs -> Work] /\ proc'[p] = Idle
        /\ \A q \in Procs : q # p => proc'[q] = proc[q]
    BY <1>1, DoChanges, IdleIs DEF StoreInv
  <1>3. proc[p].op = "list" \/ (proc[p].op \in Writers /\ proc[p].c \in created)
    BY <1>1 DEF StoreInv, WorkersFit, WorkFits, Points, Writers
  <1>4. steady' \in [Procs -> SUBSET Completions]
    BY DEF Crash, StoreInv, Types
  <1>5. WorkFits(proc[p])'
    BY <1>2, IdleIs DEF WorkFits, Points
  <1>6. CASE proc[p].op = "list"
    <2>1. Idle.op \notin Writers /\ "list" \notin Writers
      BY IdleIs DEF Writers
    <2> QED  BY <1>1, <1>2, <1>4, <1>5, <1>6, <2>1, NothingWritten DEF store
  <1>7. CASE proc[p].op \in Writers
    <2>1. PICK c \in created : c = proc[p].c
      BY <1>3, <1>7 DEF Writers
    <2>2. torn' = torn \cup {<<c, "index">>, <<c, "messages">>}
      BY <1>1, <1>7, <2>1 DEF Writers
    <2>3. Types'
      BY <1>1, <1>2, <1>4, <2>2 DEF StoreInv, Types, store, Pieces
    <2>4. WorkersFit'
      BY <1>1, <1>2, <1>5, OneFits DEF StoreInv
    <2>5. EntryOf(c)' /\ MessagesOf(c)'
      BY <2>2 DEF EntryOf, MessagesOf
    <2>6. \A d \in Completions : d # c => EntryOf(d)' /\ MessagesOf(d)'
      <3>1. \A d \in Completions : d # c => SamePieces(d)
        BY <1>1, <2>2 DEF SamePieces, store
      <3>2. Idle.op \notin Writers
        BY IdleIs DEF Writers
      <3> QED  BY <1>2, <2>1, <3>1, <3>2, OthersWhole DEF StoreInv
    <2> QED  BY <2>3, <2>4, <2>5, <2>6 DEF StoreInv, Whole
  <1> QED  BY <1>3, <1>6, <1>7

-----------------------------------------------------------------------------
(* What a scan of the index reads. *)

\* Entries are ranked by how many come up to them: the scan reads a sequence of those
\* beyond its place, in order, at most Batch, and leaves out only entries behind the last.
LEMMA EntriesInOrder ==
    ASSUME Types, NEW from, from \in Completions \cup {0}, NEW reverse \in BOOLEAN
    PROVE  LET s == Entries(from, reverse)
               S == {c \in index : Beyond(from, reverse, c)} IN
           /\ s \in Seq(S) /\ Len(s) <= Batch /\ (s = <<>> <=> S = {})
           /\ \A i, j \in 1..Len(s) : i < j => Beyond(s[i], reverse, s[j])
           /\ s # <<>> => \A c \in S : Among(c, s) \/ Beyond(s[Len(s)], reverse, c)
  <1> DEFINE S == {c \in index : Beyond(from, reverse, c)}
             upTo == [c \in S |-> {d \in S : d = c \/ Beyond(d, reverse, c)}]
             rank == [c \in S |-> Cardinality(upTo[c])]
             size == IF Cardinality(S) < Batch THEN Cardinality(S) ELSE Batch
             s == Entries(from, reverse)
             Ranks == 1..Cardinality(S)
  <1>1. /\ S \subseteq Completions /\ S \subseteq Nat \ {0} /\ IsFiniteSet(S) /\ Cardinality(S) \in Nat
        /\ (S = {} <=> Cardinality(S) = 0) /\ Batch \in Nat \ {0}
    <2>1. S \subseteq Completions /\ Completions \subseteq Nat \ {0} /\ IsFiniteSet(Completions)
      BY IndexedStoreAssumption DEF Types
    <2> HIDE DEF S
    <2>2. IsFiniteSet(S)
      BY <2>1, FS_Subset
    <2> QED  BY <2>1, <2>2, FS_CardinalityType, FS_EmptySet, IndexedStoreAssumption
  <1>2. s = [i \in 1..size |-> CHOOSE c \in S : Cardinality({d \in S : d = c \/ Beyond(d, reverse, c)}) = i]
    BY DEF Entries
  <1> HIDE DEF S, s
  <1>3. \A c \in S : rank[c] = Cardinality({d \in S : d = c \/ Beyond(d, reverse, c)})
    OBVIOUS
  <1>4. \A c, d \in S : d \in upTo[c] <=> d = c \/ Beyond(d, reverse, c)
    OBVIOUS
  <1>5. /\ \A c \in S : upTo[c] \in SUBSET S /\ IsFiniteSet(upTo[c])
        /\ rank \in [S -> Nat] /\ \A c \in S : rank[c] = Cardinality(upTo[c])
    <2>1. \A c \in S : upTo[c] \in SUBSET S
      OBVIOUS
    <2> HIDE DEF upTo
    <2>2. \A c \in S : IsFiniteSet(upTo[c])
      BY <1>1, <2>1, FS_Subset
    <2> QED  BY <2>1, <2>2, FS_CardinalityType
  <1> HIDE DEF upTo, rank
  <1>6. \A c, d \in S : /\ ~Beyond(c, reverse, c) /\ (c = d \/ Beyond(c, reverse, d) \/ Beyond(d, reverse, c))
                        /\ \A e \in S : Beyond(c, reverse, d) /\ Beyond(d, reverse, e) => Beyond(c, reverse, e)
    BY <1>1 DEF Beyond
  <1>7. ASSUME NEW c \in S, NEW d \in S, Beyond(c, reverse, d) PROVE rank[c] < rank[d]
    <2>1. \A e \in S : e \in upTo[c] => e \in upTo[d]
      BY <1>4, <1>6, <1>7
    <2>2. upTo[c] \in SUBSET upTo[d] /\ d \in upTo[d] /\ d \notin upTo[c]
      BY <1>4, <1>5, <1>6, <1>7, <2>1
    <2>3. rank[c] <= rank[d] /\ (rank[c] = rank[d] => upTo[c] = upTo[d])
      BY <1>5, <2>2, FS_Subset
    <2> QED  BY <1>5, <2>2, <2>3
  <1>8. \A c \in S : rank[c] \in Ranks
    <2> TAKE c \in S
    <2>1. upTo[c] \in SUBSET S /\ upTo[c] # {}
      BY <1>4, <1>5
    <2>2. Cardinality(upTo[c]) <= Cardinality(S) /\ Cardinality(upTo[c]) # 0
      BY <1>1, <1>5, <2>1, FS_Subset, FS_EmptySet
    <2> QED  BY <1>1, <1>5, <2>2
  <1>9. \A k \in Ranks : \E c \in S : rank[c] = k
    <2>1. rank \in [S -> Ranks]
      BY <1>5, <1>8
    <2>2. rank \in Injection(S, Ranks)
      BY <2>1, <1>5, <1>6, <1>7 DEF Injection, IsInjective
    <2>3. IsFiniteSet(Ranks) /\ Cardinality(Ranks) = Cardinality(S)
      BY <1>1, FS_Interval
    <2> HIDE DEF Ranks
    <2>4. rank \in Surjection(S, Ranks)
      BY <1>1, <2>2, <2>3, FS_Injection
    <2> QED  BY <2>4 DEF Surjection
  <1>10. size \in Nat /\ size <= Cardinality(S) /\ size <= Batch /\ (size = 0 <=> S = {})
    BY <1>1
  <1> HIDE DEF size
  <1>11. \A i \in 1..size : s[i] \in S /\ rank[s[i]] = i
    <2> TAKE i \in 1..size
    <2>1. \E c \in S : rank[c] = i
      BY <1>1, <1>9, <1>10
    <2>2. \E c \in S : Cardinality({d \in S : d = c \/ Beyond(d, reverse, c)}) = i
      BY <1>3, <2>1
    <2>3. s[i] \in S /\ Cardinality({d \in S : d = s[i] \/ Beyond(d, reverse, s[i])}) = i
      BY <1>2, <2>2
    <2> QED  BY <1>3, <2>3
  <1>12. s \in Seq(S) /\ Len(s) = size /\ (s = <<>> <=> S = {})
    <2>1. s \in [1..size -> S]
      BY <1>2, <1>11, Zenon
    <2>2. s \in Seq(S) /\ Len(s) = size
      BY <1>10, <2>1
    <2> QED  BY <1>10, <2>2
  <1>13. \A i, j \in 1..Len(s) : i < j => Beyond(s[i], reverse, s[j])
    <2> SUFFICES ASSUME NEW i \in 1..size, NEW j \in 1..size, i < j PROVE Beyond(s[i], reverse, s[j])
      BY <1>12
    <2>1. PICK c \in S, d \in S : c = s[i] /\ d = s[j] /\ rank[c] < rank[d]
      BY <1>10, <1>11
    <2>2. ~(rank[d] < rank[c]) /\ rank[c] # rank[d]
      BY <1>5, <2>1
    <2>3. ~Beyond(d, reverse, c) /\ c # d
      BY <1>7, <2>2
    <2> QED  BY <1>6, <2>1, <2>3
  <1>14. ASSUME s # <<>>, NEW c \in S PROVE Among(c, s) \/ Beyond(s[Len(s)], reverse, c)
    <2>1. rank[c] \in Nat /\ rank[c] \in Ranks /\ size \in 1..size
      BY <1>5, <1>8, <1>10, <1>12, <1>14
    <2>2. CASE rank[c] <= size
      <3>1. rank[c] \in 1..size
        BY <1>10, <2>1, <2>2
      <3>2. PICK d \in S : d = s[rank[c]] /\ rank[d] = rank[c]
        BY <1>11, <3>1
      <3>3. ~(rank[c] < rank[d]) /\ ~(rank[d] < rank[c])
        BY <1>5, <3>2
      <3>4. c = d
        BY <1>6, <1>7, <3>2, <3>3
      <3> QED  BY <1>12, <3>1, <3>2, <3>4 DEF Among
    <2>3. CASE size < rank[c]
      <3>1. PICK d \in S : d = s[size] /\ rank[d] < rank[c]
        BY <1>11, <2>1, <2>3
      <3>2. ~(rank[c] < rank[d]) /\ rank[c] # rank[d]
        BY <1>5, <3>1
      <3>3. Beyond(d, reverse, c)
        BY <1>6, <1>7, <3>1, <3>2
      <3> QED  BY <1>12, <3>1, <3>3
    <2> QED  BY <1>10, <2>1, <2>2, <2>3
  <1>15. s \in Seq(S) /\ Len(s) <= Batch /\ (s = <<>> <=> S = {})
    BY <1>10, <1>12
  <1> QED  BY <1>13, <1>14, <1>15 DEF S, s

-----------------------------------------------------------------------------
(* Listings beside the steps of others. *)

\* Nobody touches what is still counted as untouched.
SteadyKept ==
  \A q \in Procs : /\ steady'[q] \subseteq steady[q]
                   /\ \A c \in steady'[q] : c \in index' /\ object'[c] = object[c]

LEMMA TouchedKeeps ==
    ASSUME Types, Listings, NEW c, Touched(c), index \ {c} \subseteq index',
           \A d \in Completions : d # c => object'[d] = object[d]
    PROVE  SteadyKept
  <1>1. ASSUME NEW q \in Procs PROVE steady'[q] = steady[q] \ {c}
    BY DEF Touched
  <1>2. ASSUME NEW q \in Procs PROVE steady[q] \subseteq index /\ steady[q] \subseteq Completions
    BY DEF Listings, Untouched, Types
  <1> QED  BY <1>1, <1>2 DEF SteadyKept

LEMMA SameKeeps ==
    ASSUME Types, Listings, UNCHANGED <<index, object>>, \A q \in Procs : steady'[q] \subseteq steady[q]
    PROVE  SteadyKept
  BY DEF SteadyKept, Types, Listings, Untouched

\* Only the found, the page, the place and the query of a listing count.
SameListing(l, m) == l.found = m.found /\ l.page = m.page /\ l.scan = m.scan /\ l.query = m.query

LEMMA SameIsSorted ==
    ASSUME NEW l, NEW m, SameListing(l, m), ListingSorted(m)
    PROVE  ListingSorted(l)
  BY DEF SameListing, ListingSorted, Sorted, Before

LEMMA IdleListing == ListingSorted(Idle) /\ ListingBounded(Idle)
  <1>1. Len(<<>>) = 0
    OBVIOUS
  <1>2. ListingSorted(Idle)
    BY <1>1, IdleIs DEF ListingSorted, Sorted, Among, Before
  <1>3. ListingBounded(Idle)
    BY <1>1, IdleIs, IndexedStoreAssumption DEF ListingBounded
  <1> QED  BY <1>2, <1>3

LEMMA OthersListings ==
    ASSUME Types, Listings, NEW p \in Procs, \A q \in Procs : q # p => proc'[q] = proc[q], 
           \A q \in Procs : q # p => steady'[q] \subseteq steady[q] /\
                            \A c \in steady'[q] : c \in index' /\ object'[c] = object[c],
           ListingSorted(proc[p])', ListingBounded(proc[p])', Untouched(p)'
    PROVE  Listings'
  <1>1. ASSUME NEW q \in Procs, q # p PROVE Untouched(q)'
    <2>1. proc'[q] = proc[q] /\ steady'[q] \subseteq steady[q] /\ Untouched(q)
      BY <1>1 DEF Listings
    <2>2. ASSUME NEW c \in steady'[q]
          PROVE  /\ c \in index' /\ object'[c] # 0
                 /\ Matches(c, proc[q].query)' <=> Matches(c, proc[q].query)
      BY <1>1, <2>1, <2>2 DEF Untouched, Matches
    <2> QED  BY <2>1, <2>2 DEF Untouched, Ahead, Among, Before, Beyond, Enough
  <1>2. ASSUME NEW q \in Procs, q # p PROVE ListingSorted(proc[q])' /\ ListingBounded(proc[q])'
    <2>1. proc'[q] = proc[q] /\ ListingSorted(proc[q]) /\ ListingBounded(proc[q])
      BY <1>2 DEF Listings
    <2> QED  BY <2>1 DEF ListingSorted, ListingBounded, Sorted, Among, Before, Beyond
  <1> QED  BY <1>1, <1>2 DEF Listings

\* A process that does not list goes on, or is through.
LEMMA WriterListings ==
    ASSUME Types, Listings, SteadyKept, NEW p \in Procs, \A q \in Procs : q # p => proc'[q] = proc[q],
           proc[p].op # "list", proc'[p].op # "list",
           SameListing(proc'[p], proc[p]) \/ SameListing(proc'[p], Idle)
    PROVE  Listings'
  <1>1. ListingSorted(proc[p]) /\ ListingBounded(proc[p]) /\ Untouched(p)
    BY DEF Listings
  <1>2. ListingSorted(proc'[p]) /\ ListingBounded(proc'[p])
    <2>1. CASE SameListing(proc'[p], proc[p])
      BY <1>1, <2>1, SameIsSorted DEF SameListing, ListingBounded
    <2>2. CASE SameListing(proc'[p], Idle)
      BY <2>2, SameIsSorted, IdleListing DEF SameListing, ListingBounded
    <2> QED  BY <2>1, <2>2
  <1>3. Untouched(p)'
    BY <1>1 DEF Untouched, SteadyKept
  <1>4. ListingSorted(proc[p])' /\ ListingBounded(proc[p])'
    BY <1>2 DEF ListingSorted, ListingBounded, Sorted, Among, Before, Beyond
  <1> QED  BY <1>3, <1>4, OthersListings DEF SteadyKept

LEMMA StillLists ==
    ASSUME Types, Listings, SteadyKept, UNCHANGED proc
    PROVE  Listings'
  <1>1. ASSUME NEW q \in Procs PROVE Untouched(q)'
    <2>1. proc'[q] = proc[q] /\ steady'[q] \subseteq steady[q] /\ Untouched(q)
      BY DEF Listings, SteadyKept
    <2>2. ASSUME NEW c \in steady'[q]
          PROVE  /\ c \in index' /\ object'[c] # 0
                 /\ Matches(c, proc[q].query)' <=> Matches(c, proc[q].query)
      BY <2>1, <2>2 DEF Untouched, Matches, SteadyKept
    <2> QED  BY <2>1, <2>2 DEF Untouched, Ahead, Among, Before, Beyond, Enough
  <1>2. ASSUME NEW q \in Procs PROVE ListingSorted(proc[q])' /\ ListingBounded(proc[q])'
    <2>1. proc'[q] = proc[q] /\ ListingSorted(proc[q]) /\ ListingBounded(proc[q])
      BY DEF Listings
    <2> QED  BY <2>1 DEF ListingSorted, ListingBounded, Sorted, Among, Before, Beyond
  <1> QED  BY <1>1, <1>2 DEF Listings

\* Each step of a process that does not list.
WriterStep(p) ==
  \/ \E c \in Completions : Store(p, c) \/ Update(p, c) \/ Delete(p, c)
  \/ PutObject(p) \/ PutIndex(p) \/ GetMessages(p) \/ PutMessages(p) \/ Drop(p)

LEMMA WriterKeepsSteady ==
    ASSUME StoreInv, Listings, NEW p \in Procs, WriterStep(p)
    PROVE  SteadyKept
  <1>1. Types
    BY DEF StoreInv
  <1>2. ASSUME NEW c \in Completions, Store(p, c) PROVE SteadyKept
    <2>1. c \notin index /\ UNCHANGED <<index, steady>> /\ \A d \in Completions : d # c => object'[d] = object[d]
      BY <1>1, <1>2 DEF Store, Types
    <2>2. ASSUME NEW q \in Procs, NEW d \in steady[q] PROVE d \in index /\ d # c /\ d \in Completions
      BY <1>1, <2>1, <2>2 DEF Listings, Untouched, Types
    <2> QED  BY <2>1, <2>2 DEF SteadyKept
  <1>3. ASSUME NEW c \in Completions, Update(p, c) PROVE SteadyKept
    BY <1>1, <1>3, SameKeeps DEF Update, store
  <1>4. ASSUME NEW c \in Completions, Delete(p, c) PROVE SteadyKept
    BY <1>1, <1>4, SameKeeps DEF Delete, store
  <1>5. CASE PutObject(p)
    BY <1>1, <1>5, TouchedKeeps DEF PutObject, Types
  <1>6. CASE PutIndex(p)
    BY <1>1, <1>6, TouchedKeeps DEF PutIndex, Types
  <1>7. CASE GetMessages(p)
    BY <1>1, <1>7, SameKeeps DEF GetMessages, store
  <1>8. CASE PutMessages(p)
    BY <1>1, <1>8, SameKeeps DEF PutMessages
  <1>9. CASE Drop(p)
    <2> DEFINE c == proc[p].c
    <2>1. Touched(c) /\ index \ {c} \subseteq index' /\ \A d \in Completions : d # c => object'[d] = object[d]
      BY <1>1, <1>9 DEF Drop, Types
    <2> QED  BY <1>1, <2>1, TouchedKeeps
  <1> QED  BY <1>2, <1>3, <1>4, <1>5, <1>6, <1>7, <1>8, <1>9 DEF WriterStep

LEMMA WriterGoes ==
    ASSUME StoreInv, NEW p \in Procs, WriterStep(p)
    PROVE  /\ proc[p].op # "list" /\ proc'[p].op # "list" /\ \A q \in Procs : q # p => proc'[q] = proc[q]
           /\ SameListing(proc'[p], proc[p]) \/ SameListing(proc'[p], Idle)
  <1>1. Types /\ proc[p] \in Work
    BY DEF StoreInv, Types
  <1>2. Idle.op # "list" /\ Idle.op \notin Writers
    BY IdleIs DEF Writers
  <1>3. ASSUME NEW op \in Writers, NEW at, NEW c, proc[p] = Idle, proc' = [proc EXCEPT ![p] = [Idle EXCEPT !.op = op, !.at = at, !.c = c]]
        PROVE  /\ proc'[p].op # "list" /\ \A q \in Procs : q # p => proc'[q] = proc[q]
               /\ SameListing(proc'[p], Idle)
    <2>1. proc'[p] = [Idle EXCEPT !.op = op, !.at = at, !.c = c] /\ \A q \in Procs : q # p => proc'[q] = proc[q]
      BY <1>1, <1>3 DEF Types
    <2>2. [Idle EXCEPT !.op = op, !.at = at, !.c = c].op = op
          /\ SameListing([Idle EXCEPT !.op = op, !.at = at, !.c = c], Idle)
      BY IdleIs DEF SameListing, Work
    <2> QED  BY <2>1, <2>2 DEF Writers
  <1>4. ASSUME NEW at, proc[p].op \in Writers, Go(p, at)
        PROVE  /\ proc'[p].op # "list" /\ \A q \in Procs : q # p => proc'[q] = proc[q]
               /\ SameListing(proc'[p], proc[p])
    <2>1. proc'[p] = [proc[p] EXCEPT !.at = at] /\ \A q \in Procs : q # p => proc'[q] = proc[q]
      BY <1>1, <1>4 DEF Types, Go, Do
    <2>2. proc'[p].op = proc[p].op /\ SameListing(proc'[p], proc[p])
      BY <1>1, <2>1 DEF SameListing, Work
    <2> QED  BY <1>4, <2>1, <2>2 DEF Writers
  <1>5. ASSUME Finish(p)
        PROVE  /\ proc'[p].op # "list" /\ \A q \in Procs : q # p => proc'[q] = proc[q]
               /\ SameListing(proc'[p], Idle)
    BY <1>1, <1>2, <1>5 DEF Finish, Do, SameListing, Types
  <1>6. ASSUME NEW c \in Completions, Store(p, c)
        PROVE proc[p].op # "list" /\ proc'[p].op # "list" /\ (\A q \in Procs : q # p => proc'[q] = proc[q])
              /\ SameListing(proc'[p], Idle)
    BY <1>2, <1>3, <1>6 DEF Store, Do, Writers
  <1>7. ASSUME NEW c \in Completions, Update(p, c)
        PROVE proc[p].op # "list" /\ proc'[p].op # "list" /\ (\A q \in Procs : q # p => proc'[q] = proc[q])
              /\ SameListing(proc'[p], Idle)
    BY <1>2, <1>3, <1>7 DEF Update, Do, Writers
  <1>8. ASSUME NEW c \in Completions, Delete(p, c)
        PROVE proc[p].op # "list" /\ proc'[p].op # "list" /\ (\A q \in Procs : q # p => proc'[q] = proc[q])
              /\ SameListing(proc'[p], Idle)
    <2> DEFINE at == IF object[c] # 0 THEN DropOrder[1] ELSE DropOrder[2]
               l == [Idle EXCEPT !.op = "delete", !.c = c, !.at = at]
    <2>1. proc[p] = Idle /\ Do(p, l)
      BY <1>8 DEF Delete
    <2>2. l.op = "delete" /\ SameListing(l, Idle)
      BY <1>1, <2>1 DEF SameListing, Work
    <2> HIDE DEF l
    <2> QED  BY <1>1, <1>2, <2>1, <2>2 DEF Do, Types
  <1>9. CASE PutObject(p)
    BY <1>4, <1>9 DEF PutObject, Writers
  <1>10. CASE PutIndex(p)
    BY <1>4, <1>10 DEF PutIndex, Writers
  <1>11. CASE GetMessages(p)
    BY <1>4, <1>5, <1>11 DEF GetMessages, Writers
  <1>12. CASE PutMessages(p)
    BY <1>5, <1>12 DEF PutMessages
  <1>13. CASE Drop(p)
    <2>1. /\ proc[p].op = "delete"
          /\ proc[p].at = "messages" => Finish(p)
          /\ proc[p].at = "index" => Go(p, "object")
          /\ proc[p].at = "object" => Go(p, "messages")
          /\ proc[p].at \in Pieces
      BY <1>13, DropSteps DEF Go, Finish
    <2> QED  BY <1>4, <1>5, <2>1 DEF Writers, Pieces
  <1> QED  BY <1>6, <1>7, <1>8, <1>9, <1>10, <1>11, <1>12, <1>13 DEF WriterStep

LEMMA WriterKeeps ==
    ASSUME StoreInv, Listings, NEW p \in Procs, WriterStep(p)
    PROVE  StoreInv' /\ Listings'
  <1>1. Listings'
    BY WriterKeepsSteady, WriterGoes, WriterListings DEF StoreInv
  <1>2. StoreInv'
    BY StoreKeeps, UpdateKeeps, DeleteKeeps, PutObjectKeeps, PutIndexKeeps, GetMessagesKeeps, PutMessagesKeeps,
       DropKeeps DEF WriterStep
  <1> QED  BY <1>1, <1>2

LEMMA ExpireKeepsListings ==
    ASSUME StoreInv, Listings, NEW c \in Completions, NEW piece \in Pieces, Expire(c, piece)
    PROVE  Listings'
  <1>1. /\ Touched(c) /\ index \ {c} \subseteq index' /\ UNCHANGED proc
        /\ \A d \in Completions : d # c => object'[d] = object[d]
    BY DEF Expire, StoreInv, Types
  <1> QED  BY <1>1, TouchedKeeps, StillLists DEF StoreInv

\* A process that is through, or was stopped.
LEMMA IdleKeepsListings ==
    ASSUME StoreInv, Listings, NEW p \in Procs, Finish(p), steady' = [steady EXCEPT ![p] = {}],
           UNCHANGED <<object, index>>
    PROVE  Listings'
  <1>1. proc'[p] = Idle /\ \A q \in Procs : q # p => proc'[q] = proc[q]
    BY DEF Finish, Do, StoreInv, Types
  <1>2. steady'[p] = {} /\ \A q \in Procs : q # p => steady'[q] = steady[q]
    BY DEF StoreInv, Types
  <1>3. \A q \in Procs : steady[q] \subseteq index
    BY DEF Listings, Untouched
  <1>4. ListingSorted(proc[p])' /\ ListingBounded(proc[p])'
    BY <1>1, IdleListing, SMTT(40) DEF ListingSorted, ListingBounded, Sorted, Among, Before, Beyond
  <1>5. Untouched(p)'
    BY <1>2 DEF Untouched
  <1> QED  BY <1>1, <1>2, <1>3, <1>4, <1>5, OthersListings DEF StoreInv

-----------------------------------------------------------------------------
(* Listing. *)

LEMMA LowestExists ==
    ASSUME NEW S, S \subseteq Nat, S # {}
    PROVE  \E c \in S : \A d \in S : c <= d
  <1> DEFINE R == { ss \in Nat \X Nat : ss[1] < ss[2] }
  <1>1. IsWellFoundedOn(R, Nat)
    BY NatLessThanWellFounded DEF OpToRel
  <1>2. PICK c \in S : \A d \in S : ~(<<d, c>> \in R)
    <2> HIDE DEF R
    <2> QED  BY <1>1, WFMin
  <1>3. ASSUME NEW d \in S PROVE c <= d
    <2>1. ~(d < c) /\ d \in Nat /\ c \in Nat
      BY <1>2, <1>3
    <2> QED  BY <2>1
  <1> QED  BY <1>3

\* A listing that has not read the index yet goes on.
LEMMA EarlyListing ==
    ASSUME Types, Listings, SteadyKept, NEW p \in Procs, \A q \in Procs : q # p => proc'[q] = proc[q],
           proc[p].op = "list", proc[p].at \in {"keys", "backfill", "fill", "cursor"}, 
           SameListing(proc'[p], proc[p]), proc'[p].op = "list",
           proc'[p].at \in {"keys", "backfill", "fill", "cursor", "page", "lost"}
    PROVE  Listings'
  <1> DEFINE l == proc[p]
             m == proc'[p]
  <1>1. /\ ListingSorted(l) /\ ListingBounded(l) /\ Untouched(p) /\ SameListing(m, l)
        /\ l.op = "list" /\ m.op = "list"
        /\ l.at \in {"keys", "backfill", "fill", "cursor"}
        /\ m.at \in {"keys", "backfill", "fill", "cursor", "page", "lost"}
    BY DEF Listings
  <1>2. /\ l.found = <<>> /\ l.page = <<>> /\ l.scan = l.query.after
        /\ m.found = <<>> /\ m.page = <<>> /\ m.scan = m.query.after /\ m.query = l.query
    BY <1>1 DEF ListingBounded, SameListing
  <1>3. Len(<<>>) = 0 /\ 0 <= Limit /\ 0 <= Limit + 1 /\ 0 <= Batch
    BY IndexedStoreAssumption
  <1>4. ListingSorted(m)
    BY <1>1, SameIsSorted
  <1>5. ListingBounded(m)
    <2> HIDE DEF m, l
    <2> QED  BY <1>1, <1>2, <1>3 DEF ListingBounded
  <1>6. Untouched(p)'
    <2>1. ASSUME NEW c \in steady'[p]
          PROVE  /\ c \in steady[p] /\ c \in index' /\ object'[c] # 0
                 /\ Matches(c, l.query)' <=> Matches(c, l.query)
      BY <1>1, <1>2, <2>1 DEF Untouched, Matches, SteadyKept
    <2>2. ASSUME NEW c \in steady[p], Matches(c, l.query), Before(l, l.query.after, c)
          PROVE  Before(l, l.scan, c)
      BY <1>2, <2>2
    <2> QED  BY <1>1, <1>2, <2>1, <2>2 DEF Untouched, Ahead, Before, Beyond, Matches
  <1>7. ListingSorted(proc[p])' /\ ListingBounded(proc[p])'
    BY <1>4, <1>5 DEF ListingSorted, ListingBounded, Sorted, Among, Before, Beyond
  <1> QED  BY <1>6, <1>7, OthersListings DEF SteadyKept

LEMMA ListKeeps ==
    ASSUME StoreInv, Listings, NEW p \in Procs, NEW q \in Queries, List(p, q)
    PROVE  StoreInv' /\ Listings'
  <1> DEFINE at == IF index = {} THEN "keys" ELSE "cursor"
             l == [Idle EXCEPT !.op = "list", !.query = q, !.scan = q.after, !.at = at]
  <1>1. q \in Query /\ q.after \in Completions \cup {0}
    BY IndexedStoreAssumption DEF Query
  <1>2. /\ l \in Work /\ l.op = "list" /\ l.at \in {"keys", "cursor"} /\ l.query = q /\ l.scan = q.after
        /\ l.keys = {} /\ l.page = <<>> /\ l.found = <<>>
    BY <1>1, IdleIs DEF Work
  <1>3. /\ proc[p] = Idle /\ Do(p, l) /\ steady' = [steady EXCEPT ![p] = {c \in index : object[c] # 0}]
        /\ UNCHANGED <<store, history>>
    BY DEF List
  <1> HIDE DEF l
  <1>4. /\ proc' \in [Procs -> Work] /\ proc'[p] = l
        /\ \A r \in Procs : r # p => proc'[r] = proc[r]
    BY <1>2, <1>3, DoChanges DEF StoreInv
  <1>5. /\ steady' \in [Procs -> SUBSET Completions] /\ steady'[p] = {c \in index : object[c] # 0}
        /\ \A r \in Procs : r # p => steady'[r] = steady[r]
    BY <1>3 DEF StoreInv, Types
  <1>6. StoreInv'
    <2>1. WorkFits(proc[p])'
      BY <1>2, <1>4 DEF WorkFits, Points
    <2>2. proc[p].op \notin Writers /\ proc'[p].op \notin Writers
      BY <1>2, <1>3, <1>4, IdleIs DEF Writers
    <2> QED  BY <1>3, <1>4, <1>5, <2>1, <2>2, NothingWritten DEF store, history
  <1>7. Listings'
    <2>1. Len(<<>>) = 0 /\ 0 <= Limit /\ 0 <= Limit + 1 /\ 0 <= Batch
      BY IndexedStoreAssumption
    <2>2. ListingSorted(l)
      BY <1>2, <2>1 DEF ListingSorted, Sorted, Among, Before
    <2>3. ListingBounded(l)
      BY <1>2, <2>1 DEF ListingBounded
    <2>4. ListingSorted(proc[p])' /\ ListingBounded(proc[p])'
      BY <1>4, <2>2, <2>3 DEF ListingSorted, ListingBounded, Sorted, Among, Before, Beyond
    <2>5. Untouched(p)'
      BY <1>2, <1>3, <1>4, <1>5 DEF Untouched, Ahead, Before, store
    <2>6. \A r \in Procs : steady[r] \subseteq index
      BY DEF Listings, Untouched
    <2> QED  BY <1>3, <1>4, <1>5, <2>4, <2>5, <2>6, OthersListings DEF StoreInv, store
  <1> QED  BY <1>6, <1>7

LEMMA KeysKeeps ==
    ASSUME StoreInv, Listings, NEW p \in Procs, Keys(p)
    PROVE  StoreInv' /\ Listings'
  <1> DEFINE l == [proc[p] EXCEPT !.keys = {c \in Completions : object[c] # 0}, !.at = "backfill"]
  <1>1. proc[p] \in Work /\ Types
    BY DEF StoreInv, Types
  <1>2. /\ l \in Work /\ l.op = proc[p].op /\ l.at = "backfill" /\ l.keys = {c \in Completions : object[c] # 0}
        /\ SameListing(l, proc[p])
    BY <1>1 DEF Work, SameListing
  <1>3. proc[p].op = "list" /\ proc[p].at = "keys" /\ Do(p, l) /\ UNCHANGED <<store, history, steady>>
    BY DEF Keys
  <1> HIDE DEF l
  <1>4. /\ proc' \in [Procs -> Work] /\ proc'[p] = l
        /\ \A q \in Procs : q # p => proc'[q] = proc[q]
    BY <1>1, <1>2, <1>3, DoChanges
  <1>5. WorkFits(proc[p])'
    <2>1. l.keys \subseteq created
      BY <1>1, <1>2 DEF Types
    <2> QED  BY <1>2, <1>3, <1>4, <2>1 DEF WorkFits, Points, history
  <1>6. StoreInv'
    <2>1. steady' \in [Procs -> SUBSET Completions]
      BY <1>1, <1>3 DEF Types
    <2> QED  BY <1>2, <1>3, <1>4, <1>5, <2>1, NothingWritten DEF store, history, Writers
  <1>7. Listings'
    <2>1. SteadyKept
      BY <1>1, <1>3, SameKeeps DEF store
    <2> QED  BY <1>1, <1>2, <1>3, <1>4, <2>1, EarlyListing
  <1> QED  BY <1>6, <1>7

LEMMA BackfillKeeps ==
    ASSUME StoreInv, Listings, NEW p \in Procs, Backfill(p)
    PROVE  StoreInv' /\ Listings'
  <1> DEFINE keys == proc[p].keys
             c == CHOOSE c \in keys : \A d \in keys : c <= d
             at == IF object[c] # 0 THEN "fill" ELSE "backfill"
             l == IF keys = {} THEN [proc[p] EXCEPT !.at = "cursor"]
                  ELSE [proc[p] EXCEPT !.keys = keys \ {c}, !.c = c, !.at = at]
  <1>1. proc[p] \in Work /\ Types /\ keys \subseteq created /\ created \subseteq Completions
    BY DEF StoreInv, Types, WorkersFit, WorkFits
  <1>2. keys # {} => c \in keys
    <2>1. keys \subseteq Nat
      BY <1>1, IndexedStoreAssumption
    <2> HIDE DEF keys
    <2> QED  BY <2>1, LowestExists
  <1>3. proc[p].op = "list" /\ proc[p].at = "backfill" /\ Do(p, l) /\ UNCHANGED <<store, history, steady>>
    BY DEF Backfill, Go
  <1> HIDE DEF c
  <1>4. /\ l \in Work /\ l.op = "list" /\ l.at \in {"cursor", "fill", "backfill"} /\ l.keys \subseteq created
        /\ SameListing(l, proc[p]) /\ (l.at = "fill" => l.c \in created)
    <2>1. CASE keys = {}
      BY <1>1, <1>3, <2>1 DEF Work, SameListing
    <2>2. CASE keys # {}
      <3>1. l = [proc[p] EXCEPT !.keys = keys \ {c}, !.c = c, !.at = at] /\ at \in {"fill", "backfill"}
        BY <2>2
      <3>2. keys \ {c} \in SUBSET Completions /\ c \in Completions
        BY <1>1, <1>2, <2>2
      <3> HIDE DEF l, at
      <3>3. l \in Work /\ l.op = "list" /\ l.at = at /\ l.keys = keys \ {c} /\ SameListing(l, proc[p]) /\ l.c = c
        BY <1>1, <1>3, <3>1, <3>2 DEF Work, SameListing
      <3> QED  BY <1>1, <1>2, <2>2, <3>1, <3>3
    <2> QED  BY <2>1, <2>2
  <1> HIDE DEF l
  <1>5. /\ proc' \in [Procs -> Work] /\ proc'[p] = l
        /\ \A q \in Procs : q # p => proc'[q] = proc[q]
    BY <1>1, <1>3, <1>4, DoChanges
  <1>6. WorkFits(proc[p])'
    BY <1>3, <1>4, <1>5 DEF WorkFits, Points, history
  <1>7. StoreInv'
    <2>1. steady' \in [Procs -> SUBSET Completions]
      BY <1>1, <1>3 DEF Types
    <2> QED  BY <1>3, <1>4, <1>5, <1>6, <2>1, NothingWritten DEF store, history, Writers
  <1>8. Listings'
    <2>1. SteadyKept
      BY <1>1, <1>3, SameKeeps DEF store
    <2> QED  BY <1>1, <1>3, <1>4, <1>5, <2>1, EarlyListing
  <1> QED  BY <1>7, <1>8

LEMMA FillKeepsListings ==
    ASSUME StoreInv, Listings, NEW p \in Procs, Fill(p)
    PROVE  Listings'
  <1> DEFINE l == [proc[p] EXCEPT !.at = "backfill"]
             c == proc[p].c
  <1>1. proc[p] \in Work /\ Types
    BY DEF StoreInv, Types
  <1>2. l \in Work /\ l.op = proc[p].op /\ l.at = "backfill" /\ SameListing(l, proc[p])
    BY <1>1, GoIs DEF SameListing
  <1>3. proc[p].op = "list" /\ proc[p].at = "fill" /\ Do(p, l)
    BY DEF Fill, Go
  <1> HIDE DEF l
  <1>4. proc'[p] = l /\ \A q \in Procs : q # p => proc'[q] = proc[q]
    BY <1>1, <1>2, <1>3, DoChanges
  <1>5. SteadyKept
    <2>1. Touched(c) /\ index \ {c} \subseteq index' /\ \A d \in Completions : d # c => object'[d] = object[d]
      BY DEF Fill
    <2> QED  BY <1>1, <2>1, TouchedKeeps
  <1> QED  BY <1>1, <1>2, <1>3, <1>4, <1>5, EarlyListing

LEMMA CursorKeeps ==
    ASSUME StoreInv, Listings, NEW p \in Procs, Cursor(p)
    PROVE  StoreInv' /\ Listings'
  <1> DEFINE at == IF proc[p].query.after # 0 /\ object[proc[p].query.after] = 0 THEN "lost" ELSE "page"
             l == [proc[p] EXCEPT !.at = at]
  <1>1. proc[p] \in Work /\ Types /\ WorkFits(proc[p])
    BY DEF StoreInv, Types, WorkersFit
  <1>2. at \in {"lost", "page"}
    OBVIOUS
  <1>3. proc[p].op = "list" /\ proc[p].at = "cursor" /\ Do(p, l) /\ UNCHANGED <<store, history, steady>>
    BY DEF Cursor, Go
  <1> HIDE DEF at
  <1>4. l \in Work /\ l.op = "list" /\ l.at = at /\ SameListing(l, proc[p]) /\ l.keys = proc[p].keys
    BY <1>1, <1>2, <1>3, GoIs DEF SameListing
  <1> HIDE DEF l
  <1>5. /\ proc' \in [Procs -> Work] /\ proc'[p] = l
        /\ \A q \in Procs : q # p => proc'[q] = proc[q]
    BY <1>1, <1>3, <1>4, DoChanges
  <1>6. WorkFits(proc[p])'
    BY <1>1, <1>2, <1>3, <1>4, <1>5 DEF WorkFits, Points, history
  <1>7. StoreInv'
    <2>1. steady' \in [Procs -> SUBSET Completions]
      BY <1>1, <1>3 DEF Types
    <2> QED  BY <1>3, <1>4, <1>5, <1>6, <2>1, NothingWritten DEF store, history, Writers
  <1>8. Listings'
    <2>1. SteadyKept
      BY <1>1, <1>3, SameKeeps DEF store
    <2> QED  BY <1>1, <1>2, <1>3, <1>4, <1>5, <2>1, EarlyListing
  <1> QED  BY <1>7, <1>8

LEMMA BeyondIsOrder ==
    ASSUME NEW r \in BOOLEAN
    PROVE  /\ \A a \in Completions \cup {0}, b, c \in Completions :
                Beyond(a, r, b) /\ Beyond(b, r, c) => Beyond(a, r, c)
           /\ \A a \in Completions : ~Beyond(a, r, a)
           /\ \A a, b \in Completions : ~(Beyond(a, r, b) /\ Beyond(b, r, a))
           /\ \A a \in Completions : a # 0
  <1>1. Completions \subseteq Nat \ {0}
    BY IndexedStoreAssumption
  <1> QED  BY <1>1 DEF Beyond

LEMMA AmongIsIn ==
    ASSUME NEW S, NEW s \in Seq(S)
    PROVE  /\ \A c : Among(c, s) => c \in S
           /\ \A i \in 1..Len(s) : s[i] \in S
           /\ s # <<>> => Len(s) \in 1..Len(s)
  <1>1. \A i \in 1..Len(s) : s[i] \in S
    BY ElementOfSeq
  <1> QED  BY <1>1 DEF Among

\* A part of the index that was read comes behind what was found before.
LEMMA PageSorted ==
    ASSUME NEW l \in Work, NEW m \in Work, ListingSorted(l), l.page = <<>>,
           m.found = l.found, m.query = l.query, m.page # <<>>, m.scan = m.page[Len(m.page)],
           Sorted(m, m.page), \A c \in Completions : Among(c, m.page) => Before(l, l.scan, c)
    PROVE  ListingSorted(m)
  <1> DEFINE r == l.query.reverse
             last == m.page[Len(m.page)]
             after == l.query.after
  <1>1. /\ r \in BOOLEAN /\ l.scan \in Completions \cup {0} /\ after \in Completions \cup {0}
        /\ l.found \in Seq(Completions) /\ m.page \in Seq(Completions)
    BY DEF Work, Query
  <1>2. last \in Completions /\ Among(last, m.page) /\ last # 0
    BY <1>1, AmongIsIn, BeyondIsOrder DEF Among
  <1>3. \A c \in Completions : Among(c, m.page) => c = last \/ Before(m, c, last)
    BY <1>1, AmongIsIn DEF Among, Sorted, Before
  <1>4. \A c \in Completions : Among(c, m.page) => Before(l, after, c)
    <2>1. l.scan # after => l.scan \in Completions /\ Before(l, after, l.scan)
      BY <1>1 DEF ListingSorted
    <2> QED  BY <1>1, <2>1, BeyondIsOrder DEF Before
  <1>5. \A c \in Completions : Among(c, l.found) => l.scan \in Completions /\ (c = l.scan \/ Before(l, c, l.scan))
    BY <1>1 DEF ListingSorted
  <1>6. \A c, d \in Completions : Among(c, l.found) /\ Among(d, m.page) => Before(l, c, d)
    BY <1>1, <1>5, BeyondIsOrder DEF Before
  <1>7. Sorted(m, m.found)
    BY DEF ListingSorted, Sorted, Before
  <1>8. ASSUME NEW c \in Completions, Among(c, m.found) \/ Among(c, m.page)
        PROVE  Before(m, m.query.after, c) /\ m.scan # 0 /\ (c = m.scan \/ Before(m, c, m.scan))
    <2>1. CASE Among(c, m.page)
      BY <1>2, <1>3, <1>4, <2>1 DEF Before
    <2>2. CASE Among(c, m.found)
      <3>1. Before(l, c, last)
        BY <1>2, <1>6, <2>2
      <3>2. Before(l, after, c)
        BY <2>2 DEF ListingSorted
      <3> QED  BY <1>2, <3>1, <3>2 DEF Before
    <2> QED  BY <1>8, <2>1, <2>2
  <1>9. m.scan # 0 /\ Before(m, m.query.after, m.scan)
    BY <1>2, <1>4 DEF Before
  <1>10. \A i \in 1..Len(m.found), j \in 1..Len(m.page) : Before(m, m.found[i], m.page[j])
    <2> SUFFICES ASSUME NEW i \in 1..Len(l.found), NEW j \in 1..Len(m.page)
                 PROVE  Before(l, l.found[i], m.page[j])
      BY DEF Before
    <2>1. l.found[i] \in Completions /\ m.page[j] \in Completions
      BY <1>1, AmongIsIn
    <2>2. Among(l.found[i], l.found) /\ Among(m.page[j], m.page)
      BY DEF Among
    <2> QED  BY <1>6, <2>1, <2>2
  <1> QED  BY <1>7, <1>8, <1>9, <1>10 DEF ListingSorted

LEMMA PageKeeps ==
    ASSUME StoreInv, Listings, NEW p \in Procs, Page(p)
    PROVE  StoreInv' /\ Listings'
  <1> DEFINE l == proc[p]
             page == Entries(l.scan, l.query.reverse)
             S == {c \in index : Beyond(l.scan, l.query.reverse, c)}
             more == {c \in index : Beyond(page[Len(page)], l.query.reverse, c)} # {}
             m == IF page = <<>> THEN [l EXCEPT !.at = "done"]
                  ELSE [l EXCEPT !.page = page, !.scan = page[Len(page)], !.at = "get", !.more = more]
  <1>1. /\ l \in Work /\ Types /\ WorkFits(l) /\ index \subseteq Completions
        /\ ListingSorted(l) /\ ListingBounded(l) /\ Untouched(p)
    BY DEF StoreInv, Types, WorkersFit, Listings
  <1>2. l.op = "list" /\ l.at = "page" /\ Do(p, m) /\ UNCHANGED <<store, history, steady>>
    BY DEF Page, Go
  <1>3. /\ page \in Seq(S) /\ Len(page) <= Batch /\ (page = <<>> <=> S = {})
        /\ \A i, j \in 1..Len(page) : i < j => Beyond(page[i], l.query.reverse, page[j])
        /\ page # <<>> => \A c \in S : Among(c, page) \/ Beyond(page[Len(page)], l.query.reverse, c)
    <2>1. l.scan \in Completions \cup {0} /\ l.query.reverse \in BOOLEAN
      BY <1>1 DEF Work, Query
    <2> QED  BY <1>1, <2>1, EntriesInOrder, ZenonT(60)
  <1>4. S \subseteq Completions /\ page \in Seq(Completions)
    BY <1>1, <1>3, SeqMonotonic
  <1>5. l.page = <<>> /\ Len(l.found) <= Limit
    BY <1>1, <1>2 DEF ListingBounded
  <1> HIDE DEF page
  <1>6. page # <<>> => Len(page) \in 1..Len(page) /\ page[Len(page)] \in Completions
    BY <1>4, AmongIsIn
  <1>7. /\ m \in Work /\ m.op = "list" /\ m.found = l.found /\ m.query = l.query /\ m.keys = l.keys
        /\ page = <<>> => SameListing(m, l) /\ m.at = "done"
        /\ page # <<>> => m.page = page /\ m.scan = page[Len(page)] /\ m.at = "get" /\ m.more = more
    <2>1. more \in BOOLEAN
      OBVIOUS
    <2> HIDE DEF more
    <2>2. CASE page = <<>>
      BY <1>1, <1>2, <2>2 DEF Work, SameListing
    <2>3. CASE page # <<>>
      BY <1>1, <1>2, <1>4, <1>6, <2>1, <2>3 DEF Work
    <2> QED  BY <2>2, <2>3
  <1> HIDE DEF m
  <1>8. /\ proc' \in [Procs -> Work] /\ proc'[p] = m
        /\ \A q \in Procs : q # p => proc'[q] = proc[q]
    BY <1>1, <1>2, <1>7, DoChanges
  <1>9. StoreInv'
    <2>1. WorkFits(proc[p])'
      BY <1>1, <1>2, <1>7, <1>8 DEF WorkFits, Points, history
    <2>2. steady' \in [Procs -> SUBSET Completions]
      BY <1>1, <1>2 DEF Types
    <2> QED  BY <1>2, <1>7, <1>8, <2>1, <2>2, NothingWritten DEF store, history, Writers
  <1>10. ListingSorted(m)
    <2>1. CASE page = <<>>
      BY <1>1, <1>7, <2>1, SameIsSorted
    <2>2. CASE page # <<>>
      <3>1. Sorted(m, m.page)
        BY <1>3, <1>7, <2>2 DEF Sorted, Before
      <3>2. \A c \in Completions : Among(c, m.page) => Before(l, l.scan, c)
        BY <1>3, <1>7, <2>2, AmongIsIn DEF Before
      <3> HIDE DEF l
      <3> QED  BY <1>1, <1>5, <1>7, <2>2, <3>1, <3>2, PageSorted
    <2> QED  BY <2>1, <2>2
  <1>11. ListingBounded(m)
    <2>1. Len(<<>>) = 0 /\ 0 <= Batch /\ Limit \in Nat /\ Len(l.found) \in Nat
      BY <1>1, IndexedStoreAssumption DEF Work
    <2> HIDE DEF l
    <2>2. Len(l.found) <= Limit + 1
      BY <1>5, <2>1
    <2> QED  BY <1>3, <1>5, <1>7, <2>1, <2>2 DEF ListingBounded, SameListing
  <1>12. Untouched(p)'
    <2>1. ASSUME NEW c \in steady[p] PROVE c \in index /\ object[c] # 0
      BY <1>1, <2>1 DEF Untouched
    <2>2. ASSUME NEW c \in steady[p], Matches(c, l.query), Before(l, l.query.after, c)
          PROVE  Among(c, l.found) \/ c \in S
      <3>1. Among(c, l.found) \/ Among(c, l.page) \/ Before(l, l.scan, c)
        BY <1>1, <2>2 DEF Untouched, Ahead
      <3>2. ~Among(c, l.page)
        BY <1>5 DEF Among
      <3> QED  BY <2>1, <2>2, <3>1, <3>2 DEF Before
    <2>3. ASSUME NEW c \in steady[p], c \in S
          PROVE  m.at = "get" /\ (Among(c, m.page) \/ (Before(m, m.scan, c) /\ m.more))
      <3>1. page # <<>> /\ (Among(c, page) \/ Beyond(page[Len(page)], l.query.reverse, c))
        BY <1>3, <2>3
      <3>2. Beyond(page[Len(page)], l.query.reverse, c) => more
        BY <2>1, <2>3
      <3> HIDE DEF more
      <3> QED  BY <1>7, <3>1, <3>2 DEF Before
    <2>4. UNCHANGED <<index, object, steady>>
      BY <1>2 DEF store
    <2> HIDE DEF S
    <2>5. ASSUME NEW c \in steady[p], Matches(c, l.query), Before(m, m.query.after, c)
          PROVE  \/ Among(c, m.found)
                 \/ m.at = "get" /\ (Among(c, m.page) \/ (Before(m, m.scan, c) /\ m.more))
      BY <1>7, <2>2, <2>3, <2>5 DEF Before
    <2>6. ASSUME NEW c \in steady'[p], Matches(c, proc[p].query)', Before(m, m.query.after, c)
          PROVE  \/ Among(c, m.found)
                 \/ m.at = "get" /\ (Among(c, m.page) \/ (Before(m, m.scan, c) /\ m.more))
      BY <1>7, <1>8, <2>4, <2>5, <2>6 DEF Matches
    <2> QED  BY <1>7, <1>8, <2>1, <2>4, <2>6 DEF Untouched, Ahead, Before, Beyond, Among
  <1>13. ListingSorted(proc[p])' /\ ListingBounded(proc[p])'
    BY <1>8, <1>10, <1>11 DEF ListingSorted, ListingBounded, Sorted, Among, Before, Beyond
  <1>14. SteadyKept
    BY <1>1, <1>2, SameKeeps DEF store
  <1> QED  BY <1>1, <1>8, <1>9, <1>12, <1>13, <1>14, OthersListings DEF SteadyKept

\* The first entry of the page is found, or passed over.
LEMMA FoundSorted ==
    ASSUME NEW l \in Work, NEW m \in Work, ListingSorted(l), l.page # <<>>,
           m.found = l.found \/ m.found = Append(l.found, l.page[1]),
           m.query = l.query, m.page = Tail(l.page), m.scan = l.scan
    PROVE  /\ ListingSorted(m)
           /\ \A c : Among(c, l.page) => c = l.page[1] \/ Among(c, m.page)
           /\ \A c : Among(c, l.found) => Among(c, m.found)
           /\ m.found # l.found => Among(l.page[1], m.found)
           /\ Len(m.found) <= Len(l.found) + 1 /\ Len(m.page) <= Len(l.page)
           /\ m.page = <<>> <=> Len(l.page) <= 1
  <1> DEFINE first == l.page[1]
  <1>1. l.page \in Seq(Completions) /\ l.found \in Seq(Completions)
    BY DEF Work
  <1>2. /\ Len(l.page) \in Nat /\ Len(l.page) >= 1 /\ Len(m.page) = Len(l.page) - 1
        /\ \A i \in 1..Len(m.page) : i + 1 \in 1..Len(l.page) /\ m.page[i] = l.page[i + 1]
    BY <1>1
  <1>3. /\ Len(m.found) = Len(l.found) \/ (Len(m.found) = Len(l.found) + 1 /\ m.found[Len(m.found)] = first)
        /\ \A i \in 1..Len(l.found) : i \in 1..Len(m.found) /\ m.found[i] = l.found[i]
        /\ m.found # l.found => Len(m.found) = Len(l.found) + 1
        /\ Len(l.found) \in Nat /\ Len(m.found) \in Nat
    <2>1. CASE m.found = l.found
      BY <1>1, <2>1
    <2>2. CASE m.found = Append(l.found, first)
      BY <1>1, <2>2
    <2> QED  BY <2>1, <2>2
  <1>4. \A i \in 1..Len(m.found) : i \in 1..Len(l.found) \/ (i = Len(m.found) /\ m.found[i] = first /\ Len(m.found) = Len(l.found) + 1)
    BY <1>3
  <1>5. \A c : Among(c, l.page) => c = first \/ Among(c, m.page)
    <2> SUFFICES ASSUME NEW i \in 1..Len(l.page) PROVE l.page[i] = first \/ Among(l.page[i], m.page)
      BY DEF Among
    <2>1. CASE i = 1
      BY <2>1
    <2>2. CASE i # 1
      <3>1. i - 1 \in 1..Len(m.page) /\ (i - 1) + 1 = i
        BY <1>2, <2>2
      <3> QED  BY <1>2, <3>1 DEF Among
    <2> QED  BY <2>1, <2>2
  <1>6. \A c : Among(c, m.page) => Among(c, l.page)
    BY <1>2 DEF Among
  <1>7. Among(first, l.page)
    BY <1>2 DEF Among
  <1>8. \A c : Among(c, l.found) => Among(c, m.found)
    BY <1>3 DEF Among
  <1>9. \A c : Among(c, m.found) => Among(c, l.found) \/ c = first
    BY <1>3, <1>4 DEF Among
  <1>10. m.found # l.found => Among(first, m.found)
    <2>1. ASSUME m.found # l.found PROVE Len(m.found) \in 1..Len(m.found) /\ m.found[Len(m.found)] = first
      BY <1>3, <2>1
    <2> QED  BY <2>1 DEF Among
  <1>11. Sorted(m, m.page)
    <2> SUFFICES ASSUME NEW i \in 1..Len(m.page), NEW j \in 1..Len(m.page), i < j
                 PROVE  Before(l, l.page[i + 1], l.page[j + 1])
      BY <1>2 DEF Sorted, Before
    <2>1. i + 1 < j + 1
      BY <1>2
    <2> QED  BY <1>2, <2>1 DEF ListingSorted, Sorted
  <1>12. Sorted(m, m.found)
    <2> SUFFICES ASSUME NEW i \in 1..Len(m.found), NEW j \in 1..Len(m.found), i < j
                 PROVE  Before(l, m.found[i], m.found[j])
      BY DEF Sorted, Before
    <2>1. i \in 1..Len(l.found)
      BY <1>3, <1>4
    <2>2. CASE j \in 1..Len(l.found)
      BY <1>3, <2>1, <2>2 DEF ListingSorted, Sorted
    <2>3. CASE m.found[j] = first
      <3>1. 1 \in 1..Len(l.page)
        BY <1>2
      <3> QED  BY <1>3, <2>1, <2>3, <3>1 DEF ListingSorted
    <2> QED  BY <1>4, <2>2, <2>3
  <1>13. \A i \in 1..Len(m.found), j \in 1..Len(m.page) : Before(m, m.found[i], m.page[j])
    <2> SUFFICES ASSUME NEW i \in 1..Len(m.found), NEW j \in 1..Len(m.page)
                 PROVE  Before(l, m.found[i], l.page[j + 1])
      BY <1>2 DEF Before
    <2>1. CASE i \in 1..Len(l.found)
      BY <1>2, <1>3, <2>1 DEF ListingSorted
    <2>2. CASE m.found[i] = first
      <3>1. 1 \in 1..Len(l.page) /\ j + 1 \in 1..Len(l.page) /\ 1 < j + 1
        BY <1>2
      <3> QED  BY <2>2, <3>1 DEF ListingSorted, Sorted
    <2> QED  BY <1>4, <2>1, <2>2
  <1>14. ASSUME NEW c \in Completions, Among(c, m.found) \/ Among(c, m.page)
         PROVE  Before(m, m.query.after, c) /\ m.scan # 0 /\ (c = m.scan \/ Before(m, c, m.scan))
    <2>1. Among(c, l.found) \/ Among(c, l.page)
      BY <1>6, <1>7, <1>9, <1>14
    <2> QED  BY <2>1 DEF ListingSorted, Before
  <1>15. m.scan # m.query.after => m.scan # 0 /\ Before(m, m.query.after, m.scan)
    BY DEF ListingSorted, Before
  <1>16. ListingSorted(m)
    BY <1>11, <1>12, <1>13, <1>14, <1>15 DEF ListingSorted
  <1>17. m.page = <<>> <=> Len(l.page) <= 1
    <2>1. PICK s \in Seq(Completions) : s = m.page
      BY DEF Work
    <2>2. s = <<>> <=> Len(s) = 0
      OBVIOUS
    <2> QED  BY <1>2, <2>1, <2>2
  <1>18. Len(m.found) <= Len(l.found) + 1 /\ Len(m.page) <= Len(l.page)
    BY <1>2, <1>3
  <1> QED  BY <1>5, <1>8, <1>10, <1>16, <1>17, <1>18

LEMMA GetKeeps ==
    ASSUME StoreInv, Listings, NEW p \in Procs, Get(p)
    PROVE  StoreInv' /\ Listings'
  <1> DEFINE l == proc[p]
             first == l.page[1]
             found == IF Matches(first, l.query) THEN Append(l.found, first) ELSE l.found
             at == IF Enough(found) THEN "done" ELSE IF Len(l.page) > 1 THEN "get"
                   ELSE IF l.more THEN "page" ELSE "done"
             m == [l EXCEPT !.found = found, !.page = Tail(l.page), !.at = at]
  <1>1. /\ l \in Work /\ Types /\ WorkFits(l) /\ index \subseteq Completions
        /\ ListingSorted(l) /\ ListingBounded(l) /\ Untouched(p)
    BY DEF StoreInv, Types, WorkersFit, Listings
  <1>2. l.op = "list" /\ l.at = "get" /\ Do(p, m) /\ UNCHANGED <<store, history, steady>>
    BY DEF Get
  <1>3. l.page # <<>> /\ Len(l.found) <= Limit /\ Len(l.page) <= Batch
    BY <1>1, <1>2 DEF ListingBounded
  <1>4. /\ l.page \in Seq(Completions) /\ l.found \in Seq(Completions) /\ first \in Completions
        /\ Tail(l.page) \in Seq(Completions) /\ Len(l.page) \in Nat /\ Len(l.found) \in Nat
    <2>1. l.page \in Seq(Completions) /\ l.found \in Seq(Completions)
      BY <1>1 DEF Work
    <2> HIDE DEF l
    <2> QED  BY <1>3, <2>1
  <1>5. found \in Seq(Completions) /\ (found = l.found \/ found = Append(l.found, first))
    BY <1>4
  <1>6. at \in {"done", "get", "page"}
    OBVIOUS
  <1> HIDE DEF found, at
  <1>7. /\ m \in Work /\ m.op = "list" /\ m.at = at /\ m.found = found /\ m.query = l.query /\ m.keys = l.keys
        /\ m.page = Tail(l.page) /\ m.scan = l.scan /\ m.more = l.more
    BY <1>1, <1>2, <1>4, <1>5, <1>6 DEF Work
  <1> HIDE DEF m
  <1>8. /\ proc' \in [Procs -> Work] /\ proc'[p] = m
        /\ \A q \in Procs : q # p => proc'[q] = proc[q]
    BY <1>1, <1>2, <1>7, DoChanges
  <1>9. StoreInv'
    <2>1. WorkFits(proc[p])'
      BY <1>1, <1>2, <1>6, <1>7, <1>8 DEF WorkFits, Points, history
    <2>2. steady' \in [Procs -> SUBSET Completions]
      BY <1>1, <1>2 DEF Types
    <2> QED  BY <1>2, <1>7, <1>8, <2>1, <2>2, NothingWritten DEF store, history, Writers
  <1>10. /\ ListingSorted(m)
         /\ \A c : Among(c, l.page) => c = first \/ Among(c, m.page)
         /\ \A c : Among(c, l.found) => Among(c, m.found)
         /\ m.found # l.found => Among(first, m.found)
         /\ Len(m.found) <= Len(l.found) + 1 /\ Len(m.page) <= Len(l.page)
         /\ m.page = <<>> <=> Len(l.page) <= 1
    <2> HIDE DEF l
    <2>1. l.page[1] = first
      BY DEF l
    <2> HIDE DEF first
    <2> QED  BY <1>1, <1>3, <1>5, <1>7, <2>1, FoundSorted
  <1>11. /\ at = "get" => Len(l.page) > 1
         /\ at = "page" => Len(l.page) <= 1
         /\ at # "done" => ~Enough(found)
         /\ at = "done" /\ ~Enough(found) => Len(l.page) <= 1 /\ ~l.more
    BY <1>4 DEF at
  <1>12. Matches(first, l.query) => Among(first, m.found)
    <2>1. ASSUME Matches(first, l.query) PROVE m.found # l.found
      <3>1. m.found = Append(l.found, first)
        BY <1>7, <2>1 DEF found
      <3> QED  BY <1>4, <3>1
    <2> QED  BY <1>10, <2>1
  <1> HIDE DEF first
  <1>13. ListingBounded(m)
    <2>1. Limit \in Nat /\ Batch \in Nat /\ Len(m.found) \in Nat /\ Len(m.page) \in Nat
      BY <1>7, IndexedStoreAssumption DEF Work
    <2>2. Len(m.found) <= Limit + 1 /\ Len(m.page) <= Batch
      BY <1>3, <1>4, <1>10, <2>1, SMTT(40)
    <2>3. m.at # "done" => Len(m.found) <= Limit
      BY <1>7, <1>11, <2>1 DEF Enough
    <2>4. /\ m.at = "page" => m.page = <<>>
          /\ m.at = "get" => m.page # <<>>
      BY <1>4, <1>7, <1>10, <1>11
    <2> QED  BY <1>6, <1>7, <2>2, <2>3, <2>4 DEF ListingBounded
  <1>14. Untouched(p)'
    <2>1. ASSUME NEW c \in steady[p] PROVE c \in index /\ object[c] # 0
      BY <1>1, <2>1 DEF Untouched
    <2>2. ASSUME NEW c \in steady[p], Matches(c, l.query), Before(l, l.query.after, c)
          PROVE  \/ Among(c, m.found)
                 \/ /\ ~(m.at = "done" /\ ~Enough(m.found))
                    /\ Among(c, m.page) \/ (Before(m, m.scan, c) /\ (m.at = "get" => m.more))
      <3>1. Among(c, l.found) \/ Among(c, l.page) \/ (Before(l, l.scan, c) /\ l.more)
        BY <1>1, <1>2, <2>2 DEF Untouched, Ahead
      <3>2. CASE Among(c, l.found)
        BY <1>10, <3>2
      <3>3. CASE Among(c, l.page)
        <4>1. c = first => Among(c, m.found)
          BY <1>12, <2>2
        <4>2. ASSUME Among(c, m.page) PROVE ~(m.at = "done" /\ ~Enough(m.found))
          <5>1. m.page # <<>>
            BY <4>2 DEF Among
          <5> QED  BY <1>7, <1>10, <1>11, <5>1
        <4> QED  BY <1>10, <3>3, <4>1, <4>2
      <3>4. CASE Before(l, l.scan, c) /\ l.more
        BY <1>7, <1>11, <3>4 DEF Before
      <3> QED  BY <3>1, <3>2, <3>3, <3>4
    <2>3. UNCHANGED <<index, object, steady>>
      BY <1>2 DEF store
    <2>4. ASSUME NEW c \in steady'[p], Matches(c, proc[p].query)', Before(m, m.query.after, c)
          PROVE  \/ Among(c, m.found)
                 \/ /\ ~(m.at = "done" /\ ~Enough(m.found))
                    /\ Among(c, m.page) \/ (Before(m, m.scan, c) /\ (m.at = "get" => m.more))
      <3>1. c \in steady[p] /\ Matches(c, l.query) /\ Before(l, l.query.after, c)
        BY <1>7, <1>8, <2>3, <2>4 DEF Matches, Before
      <3> QED  BY <2>2, <3>1
    <2> QED  BY <1>7, <1>8, <2>1, <2>3, <2>4 DEF Untouched, Ahead, Before, Beyond, Among, Enough
  <1>15. ListingSorted(proc[p])' /\ ListingBounded(proc[p])'
    BY <1>8, <1>10, <1>13 DEF ListingSorted, ListingBounded, Sorted, Among, Before, Beyond
  <1>16. SteadyKept
    BY <1>1, <1>2, SameKeeps DEF store
  <1> QED  BY <1>1, <1>8, <1>9, <1>14, <1>15, <1>16, OthersListings DEF SteadyKept

LEMMA ReturnKeeps ==
    ASSUME StoreInv, Listings, NEW p \in Procs, Return(p)
    PROVE  StoreInv' /\ Listings'
  <1>1. /\ proc[p].op = "list" /\ Do(p, Idle) /\ steady' = [steady EXCEPT ![p] = {}]
        /\ Finish(p) /\ UNCHANGED <<store, history>>
    BY DEF Return, Finish
  <1>2. /\ proc' \in [Procs -> Work] /\ proc'[p] = Idle
        /\ \A q \in Procs : q # p => proc'[q] = proc[q]
    BY <1>1, DoChanges, IdleIs DEF StoreInv
  <1>3. steady' \in [Procs -> SUBSET Completions]
    BY <1>1 DEF StoreInv, Types
  <1>4. WorkFits(proc[p])'
    BY <1>2, IdleIs DEF WorkFits, Points
  <1>5. StoreInv'
    BY <1>1, <1>2, <1>3, <1>4, IdleIs, NothingWritten DEF store, history, Writers
  <1>6. Listings'
    BY <1>1, IdleKeepsListings DEF store
  <1> QED  BY <1>5, <1>6

-----------------------------------------------------------------------------
(* The inductive invariant. *)

LEMMA InitIInv == Init => IInv
  <1> SUFFICES ASSUME Init PROVE IInv
    OBVIOUS
  <1>1. Types
    BY IdleIs, IndexedStoreAssumption DEF Init, Types, Pieces
  <1>2. WorkersFit
    BY IdleIsWork, IdleIs DEF Init, WorkersFit, WorkFits, Points
  <1>3. Whole
    <2> SUFFICES ASSUME NEW c \in Completions PROVE EntryOf(c) /\ MessagesOf(c)
      BY DEF Whole
    <2>1. object[c] # 0 => c \in Legacy
      BY DEF Init
    <2>2. ~WillPut(c)
      BY IdleIs DEF Init, WillPut
    <2>3. renewed[c] = {}
      BY DEF Init
    <2> QED  BY <2>1, <2>2, <2>3 DEF Init, EntryOf, MessagesOf
  <1>4. Listings
    BY IdleListing DEF Init, Listings, Untouched
  <1> QED  BY <1>1, <1>2, <1>3, <1>4 DEF IInv

LEMMA NextIInv == IInv /\ [Next]_vars => IInv'
  <1> SUFFICES ASSUME IInv, [Next]_vars PROVE IInv'
    OBVIOUS
  <1>1. StoreInv /\ Listings
    BY DEF IInv, StoreInv
  <1>2. ASSUME NEW p \in Procs, WriterStep(p) PROVE StoreInv' /\ Listings'
    BY <1>1, <1>2, WriterKeeps
  <1>3. ASSUME NEW p \in Procs, NEW q \in Queries, List(p, q) PROVE StoreInv' /\ Listings'
    BY <1>1, <1>3, ListKeeps
  <1>4. ASSUME NEW p \in Procs, Keys(p) \/ Backfill(p) \/ Cursor(p) \/ Page(p) \/ Get(p) \/ Return(p)
        PROVE  StoreInv' /\ Listings'
    BY <1>1, <1>4, KeysKeeps, BackfillKeeps, CursorKeeps, PageKeeps, GetKeeps, ReturnKeeps
  <1>5. ASSUME NEW p \in Procs, Fill(p) PROVE StoreInv' /\ Listings'
    BY <1>1, <1>5, FillKeeps, FillKeepsListings
  <1>6. ASSUME NEW p \in Procs, Crash(p) PROVE StoreInv' /\ Listings'
    <2>1. Finish(p) /\ steady' = [steady EXCEPT ![p] = {}] /\ UNCHANGED <<object, index>>
      BY <1>6 DEF Crash, store
    <2> QED  BY <1>1, <1>6, <2>1, CrashKeeps, IdleKeepsListings
  <1>7. ASSUME NEW c \in Completions, NEW piece \in Pieces, Expire(c, piece) PROVE StoreInv' /\ Listings'
    BY <1>1, <1>7, ExpireKeeps, ExpireKeepsListings
  <1>8. ASSUME UNCHANGED vars PROVE StoreInv' /\ Listings'
    <2>1. UNCHANGED <<object, index, messages, renewed, created, torn, deleted, proc, steady>>
      BY <1>8 DEF vars, store, history
    <2>2. Types' /\ WorkersFit'
      BY <1>1, <2>1 DEF StoreInv, Types, WorkersFit, WorkFits
    <2>3. ASSUME NEW c \in Completions PROVE EntryOf(c)' /\ MessagesOf(c)'
      <3>1. SamePieces(c)
        BY <2>1 DEF SamePieces
      <3>2. SameWills(c)
        BY <2>1 DEF SameWills, WillPut, WillIndex, WillDrop, WillStore, WillRenew
      <3> QED  BY <1>1, <3>1, <3>2, StaysWhole DEF StoreInv, Whole
    <2>4. SteadyKept
      BY <1>1, <2>1, SameKeeps DEF StoreInv
    <2>5. Listings'
      BY <1>1, <2>1, <2>4, StillLists DEF StoreInv
    <2> QED  BY <2>2, <2>3, <2>5 DEF StoreInv, Whole
  <1>9. StoreInv' /\ Listings'
    <2>1. CASE Next
      <3>1. Listers \subseteq Procs
        BY IndexedStoreAssumption
      <3> QED  BY <1>2, <1>3, <1>4, <1>5, <1>6, <1>7, <2>1, <3>1 DEF Next, WriterStep
    <2> QED  BY <1>8, <2>1
  <1> QED  BY <1>9 DEF IInv, StoreInv

LEMMA Invariance == Spec => []IInv
  BY InitIInv, NextIInv, PTL DEF Spec

\* What is stored of a chat completion is all of it, for any number of API processes that
\* store, update, delete and list completions at once: the object, index entry and messages
\* that chat_store.py writes by separate calls of the store are together whenever nobody is
\* amid an operation on the completion and no crash cut one off.
THEOREM Wholeness == Spec => []StoredIsWhole
  <1>1. IInv => StoredIsWhole
    <2> SUFFICES ASSUME IInv, NEW c \in Completions, ~Busy(c), object[c] # 0
                 PROVE  /\ <<c, "index">> \notin torn => c \in index
                        /\ c \notin deleted /\ <<c, "messages">> \notin torn => c \in messages
      BY DEF StoredIsWhole, StoredIsListed, MessagesKept
    <2>1. EntryOf(c) /\ MessagesOf(c)
      BY DEF IInv, Whole
    <2>2. ~WillIndex(c) /\ ~WillDrop(c) /\ ~WillStore(c)
      BY DEF WillIndex, WillDrop, WillStore, Busy
    <2> QED  BY <2>1, <2>2 DEF EntryOf, MessagesOf
  <1> QED  BY <1>1, Invariance, PTL

\* A listing never returns a completion twice or out of order, and leaves out no matching
\* one that nobody touched since it began, whichever pages of the index it read, however
\* large, and whatever other processes wrote, deleted or made of the index in between
\* (list_created_at_models and ensure_created_at_index of helper/indexed_store.py).
THEOREM RightListing == Spec => []ListedRight
  <1>1. IInv => TypeOK
    BY DEF IInv, Types, Listings, ListingBounded, TypeOK, Work
  <1>2. IInv => ListedInOrder
    <2> SUFFICES ASSUME IInv, NEW p \in Procs PROVE
          LET f == proc[p].found  q == proc[p].query IN
          /\ \A i, j \in DOMAIN f : i < j => Beyond(f[i], q.reverse, f[j]) /\ f[i] # f[j]
          /\ \A i \in DOMAIN f : f[i] # q.after
      BY DEF ListedInOrder
    <2> DEFINE l == proc[p]
    <2>1. l \in Work /\ ListingSorted(l)
      BY DEF IInv, Types, Listings
    <2>2. l.found \in Seq(Completions) /\ DOMAIN l.found = 1..Len(l.found) /\ l.query.reverse \in BOOLEAN
      BY <2>1 DEF Work, Query
    <2>3. \A i \in 1..Len(l.found) : l.found[i] \in Completions
      BY <2>2, AmongIsIn
    <2>4. \A i, j \in 1..Len(l.found) : i < j => Beyond(l.found[i], l.query.reverse, l.found[j])
      BY <2>1 DEF ListingSorted, Sorted, Before
    <2>5. \A i \in 1..Len(l.found) : Beyond(l.query.after, l.query.reverse, l.found[i])
      BY <2>1, <2>3 DEF ListingSorted, Before, Among
    <2>6. \A c \in Completions : ~Beyond(c, l.query.reverse, c) /\ c # 0
      BY <2>2, BeyondIsOrder
    <2> HIDE DEF l
    <2>7. \A i, j \in DOMAIN l.found : i < j => Beyond(l.found[i], l.query.reverse, l.found[j]) /\ l.found[i] # l.found[j]
      BY <2>2, <2>3, <2>4, <2>6
    <2>8. \A i \in DOMAIN l.found : l.found[i] # l.query.after
      BY <2>2, <2>3, <2>5, <2>6
    <2> QED  BY <2>7, <2>8 DEF l
  <1>3. IInv => ListedAll
    <2> SUFFICES ASSUME IInv, NEW p \in Procs, proc[p].op = "list", proc[p].at = "done",
                        NEW c \in steady[p], Matches(c, proc[p].query), 
                        Beyond(proc[p].query.after, proc[p].query.reverse, c)
                 PROVE  \/ \E i \in DOMAIN Result(p) : c = Result(p)[i]
                        \/ /\ Enough(proc[p].found)
                           /\ \A i \in DOMAIN Result(p) : Beyond(Result(p)[i], proc[p].query.reverse, c)
      BY DEF ListedAll
    <2> DEFINE l == proc[p]
               r == l.query.reverse
    <2>1. l \in Work /\ ListingSorted(l) /\ ListingBounded(l) /\ Untouched(p) /\ c \in Completions
      BY DEF IInv, Types, Listings
    <2>2. l.found \in Seq(Completions) /\ l.page \in Seq(Completions) /\ r \in BOOLEAN /\ l.scan \in Completions \cup {0}
      BY <2>1 DEF Work, Query
    <2>3. \A i \in 1..Len(l.found) : l.found[i] \in Completions /\ Among(l.found[i], l.found)
      BY <2>2, AmongIsIn DEF Among
    <2>4. Among(c, l.found) \/ (Enough(l.found) /\ (Among(c, l.page) \/ Beyond(l.scan, r, c)))
      BY <2>1 DEF Untouched, Ahead, Before
    <2>5. ASSUME Among(c, l.page) \/ Beyond(l.scan, r, c), NEW i \in 1..Len(l.found)
          PROVE  Beyond(l.found[i], r, c)
      <3>1. CASE Among(c, l.page)
        BY <2>1, <3>1 DEF ListingSorted, Among, Before
      <3>2. CASE Beyond(l.scan, r, c)
        <4>1. l.scan # 0 /\ (l.found[i] = l.scan \/ Beyond(l.found[i], r, l.scan))
          BY <2>1, <2>3 DEF ListingSorted, Before
        <4> HIDE DEF r
        <4> QED  BY <2>1, <2>2, <2>3, <3>2, <4>1, BeyondIsOrder
      <3> QED  BY <2>5, <3>1, <3>2
    <2>6. CASE ~Enough(l.found)
      <3>1. Result(p) = l.found
        BY <2>6 DEF Result
      <3> QED  BY <2>2, <2>4, <2>6, <3>1 DEF Among
    <2>7. CASE Enough(l.found)
      <3>1. Limit \in Nat /\ Len(l.found) \in Nat /\ Len(l.found) = Limit + 1
        BY <2>1, <2>2, <2>7, IndexedStoreAssumption DEF Enough, ListingBounded
      <3>2. Result(p) = SubSeq(l.found, 1, Limit)
        BY <2>7 DEF Result
      <3>3. DOMAIN Result(p) = 1..Limit /\ \A i \in 1..Limit : Result(p)[i] = l.found[i] /\ i \in 1..Len(l.found)
        BY <2>2, <3>1, <3>2
      <3>4. CASE Among(c, l.found)
        <4>1. PICK j \in 1..Len(l.found) : c = l.found[j]
          BY <3>4 DEF Among
        <4>2. CASE j \in 1..Limit
          BY <3>3, <4>1, <4>2
        <4>3. CASE j \notin 1..Limit
          <5>1. \A i \in 1..Limit : i < j
            BY <3>1, <4>1, <4>3
          <5>2. \A i \in 1..Limit : Beyond(l.found[i], r, c)
            BY <2>1, <3>3, <4>1, <5>1 DEF ListingSorted, Sorted, Before
          <5> QED  BY <2>7, <3>3, <5>2
        <4> QED  BY <4>2, <4>3
      <3>5. CASE Among(c, l.page) \/ Beyond(l.scan, r, c)
        BY <2>5, <2>7, <3>3, <3>5
      <3> QED  BY <2>4, <3>4, <3>5
    <2> QED  BY <2>6, <2>7
  <1> QED  BY <1>1, <1>2, <1>3, Invariance, PTL DEF ListedRight

=============================================================================
