------------------------------ MODULE LmdbStore ------------------------------
(***************************************************************************)
(* StoreService (service/store/lmdb.py): the entries of every namespace,   *)
(* the expiry index that sorts them by the minute they expire in           *)
(* (__exp__<ns>), the expiry each key was last written with                *)
(* (__expmeta__<ns>), and the cleanup loops of the processes that share    *)
(* the environment.                                                        *)
(*                                                                         *)
(* An operation is one LMDB write transaction, and write transactions are  *)
(* serial.  A cleanup is one transaction per namespace, between which      *)
(* other processes make theirs; its own process's event loop is busy.      *)
(* Values are opaque, namespaces and keys are their lexicographic ranks.   *)
(***************************************************************************)
EXTENDS Integers, FiniteSets

CONSTANTS
    Namespaces, EntryKeys,
    Processes,
    Retentions,   \* the retentions callers ask for, in minutes
    MaxDeletes,   \* cleanup_max_deletes
    Minute,       \* seconds in a minute: 60, fewer for TLC
    MaxTime       \* bound on the clock

ASSUME LmdbStoreAssumption ==
    /\ Namespaces \subseteq Nat /\ EntryKeys \subseteq Nat
    /\ IsFiniteSet(Namespaces) /\ IsFiniteSet(EntryKeys)
    /\ Retentions \subseteq Nat \ {0}
    /\ MaxDeletes \in Nat \ {0}
    /\ Minute \in Nat \ {0}
    /\ MaxTime \in Nat

VARIABLES
    clock,        \* time.time(), in seconds
    entry,        \* the data databases: the expiry stored before each value
    expIndex,        \* __exp__: <<bucket, key>> pairs
    meta,         \* __expmeta__
    registered,   \* the namespaces in __meta__
    sweep         \* per process: where its cleanup is

storeVars == <<clock, entry, expIndex, meta, registered, sweep>>

Absent == -1   \* no such key
Never == 0     \* written without retention

Expiries == {Absent} \cup Nat

Sweep == [left : SUBSET Namespaces, now : Nat, budget : Int]

NoSweep == [left |-> {}, now |-> 0, budget |-> 0]

Bucket(t) == t \div Minute

Expired(t, now) == t > 0 /\ t <= now

\* What get, list_keys and list_page return: present and not expired.
Visible(ns, k) == entry[ns][k] # Absent /\ ~Expired(entry[ns][k], clock)

StoreTypeOK ==
    /\ clock \in Nat
    /\ entry \in [Namespaces -> [EntryKeys -> Expiries]]
    /\ expIndex \in [Namespaces -> SUBSET (Nat \X EntryKeys)]
    /\ meta \in [Namespaces -> [EntryKeys -> Expiries \ {Never}]]
    /\ registered \subseteq Namespaces
    /\ sweep \in [Processes -> Sweep]

StoreInit ==
    /\ clock = 1
    /\ entry = [ns \in Namespaces |-> [k \in EntryKeys |-> Absent]]
    /\ expIndex = [ns \in Namespaces |-> {}]
    /\ meta = [ns \in Namespaces |-> [k \in EntryKeys |-> Absent]]
    /\ registered = {}
    /\ sweep = [p \in Processes |-> NoSweep]

Sweeping(p) == sweep[p].left # {}

\* _register_namespace, before a process first uses a namespace.  Which ones it has
\* registered a process remembers in _namespaces; as none is ever taken back, what
\* __meta__ lists is all that matters.
Register(p, ns) ==
    /\ ~Sweeping(p)
    /\ registered' = registered \cup {ns}
    /\ UNCHANGED <<clock, entry, expIndex, meta, sweep>>

\* Mutant: the old index entry is only looked for where a key is deleted.
NotIndexed(ns, k) == {}

\* The index entry of a key, found through its meta entry.
Indexed(ns, k) == IF meta[ns][k] > 0 THEN {<<Bucket(meta[ns][k]), k>>} ELSE {}

\* Mutant: the retention is taken for seconds.
ExpiryInSeconds(retention) == IF retention = Never THEN Never ELSE clock + retention

\* The expiry a write gives an entry; no retention means none, whatever the
\* entry it replaces had.
ExpiryOf(retention) == IF retention = Never THEN Never ELSE clock + retention * Minute

\* Mutant: an entry that never expires has a meta entry too.
PutWithMeta(p, ns, k, retention) ==
    LET t == ExpiryOf(retention)
    IN  /\ ~Sweeping(p) /\ ns \in registered
        /\ entry' = [entry EXCEPT ![ns][k] = t]
        /\ meta' = [meta EXCEPT ![ns][k] = t]
        /\ expIndex' = [expIndex EXCEPT ![ns] = (@ \ Indexed(ns, k)) \cup
                        (IF t = Never THEN {} ELSE {<<Bucket(t), k>>})]
        /\ UNCHANGED <<clock, registered, sweep>>

\* _txn_put, of set and of StoreMutation.set.
Put(p, ns, k, retention) ==
    LET t == ExpiryOf(retention)
    IN  /\ ~Sweeping(p) /\ ns \in registered
        /\ entry' = [entry EXCEPT ![ns][k] = t]
        /\ meta' = [meta EXCEPT ![ns][k] = IF t = Never THEN Absent ELSE t]
        /\ expIndex' = [expIndex EXCEPT ![ns] = (@ \ Indexed(ns, k)) \cup
                        (IF t = Never THEN {} ELSE {<<Bucket(t), k>>})]
        /\ UNCHANGED <<clock, registered, sweep>>

\* _txn_delete, of delete and of StoreMutation.delete.
DeleteEntry(p, ns, k) ==
    /\ ~Sweeping(p) /\ ns \in registered
    /\ entry' = [entry EXCEPT ![ns][k] = Absent]
    /\ meta' = [meta EXCEPT ![ns][k] = Absent]
    /\ expIndex' = [expIndex EXCEPT ![ns] = @ \ Indexed(ns, k)]
    /\ UNCHANGED <<clock, registered, sweep>>

\* cleanup_expired: the time is read once, and the namespaces are listed.
StartSweep(p) ==
    /\ ~Sweeping(p)
    /\ registered # {}
    /\ sweep' = [sweep EXCEPT ![p] = [left |-> registered, now |-> clock, budget |-> MaxDeletes]]
    /\ UNCHANGED <<clock, entry, expIndex, meta, registered>>

\* Index entries in cursor order: by bucket, then by key.
Precedes(x, y) == x[1] < y[1] \/ (x[1] = y[1] /\ x[2] < y[2])

\* The first index entries of the buckets that have begun, as many as the budget
\* allows.
DueBatch(ns, bucket, budget) ==
    LET due == {x \in expIndex[ns] : x[1] <= bucket}
    IN  {x \in due : Cardinality({y \in due : Precedes(y, x)}) < budget}

\* The namespace process p's cleanup takes up next: the first in __meta__'s order.
IsNext(p, ns) == ns \in sweep[p].left /\ \A m \in sweep[p].left : ns <= m

\* Mutant: what is in a bucket that has begun is taken for expired.
DeadByBucket(ns, batch, now) == {k \in EntryKeys : \E x \in batch : x[2] = k}

\* The keys of a batch whose entries have expired by the time the cleanup began.
Dead(ns, batch, now) ==
    {k \in EntryKeys : Expired(entry[ns][k], now) /\ \E x \in batch : x[2] = k}

\* _cleanup_env, one namespace: the expired entries of the batch go, and so does
\* every index entry of it.
SweepNext(p, ns) ==
    LET s == sweep[p]
        batch == DueBatch(ns, Bucket(s.now), s.budget)
        dead == Dead(ns, batch, s.now)
        rest == s.budget - Cardinality(dead)
        purged(f) == [k \in EntryKeys |-> IF k \in dead THEN Absent ELSE f[k]]
    IN  /\ IsNext(p, ns)
        /\ entry' = [entry EXCEPT ![ns] = purged(@)]
        /\ meta' = [meta EXCEPT ![ns] = purged(@)]
        /\ expIndex' = [expIndex EXCEPT ![ns] = @ \ batch]
        /\ sweep' = [sweep EXCEPT ![p] = IF rest <= 0 \/ s.left = {ns} THEN NoSweep
                                         ELSE [s EXCEPT !.left = s.left \ {ns}, !.budget = rest]]
        /\ UNCHANGED <<clock, registered>>

\* A transaction that fails is logged, and the sweep goes on with the next; what it
\* had counted as deleted stays counted.
SweepFails(p, ns) ==
    LET s == sweep[p]
        dead == Dead(ns, DueBatch(ns, Bucket(s.now), s.budget), s.now)
    IN  /\ IsNext(p, ns)
        /\ \E counted \in 0..Cardinality(dead) :
             LET rest == s.budget - counted IN
             sweep' = [sweep EXCEPT ![p] = IF rest <= 0 \/ s.left = {ns} THEN NoSweep
                                           ELSE [s EXCEPT !.left = s.left \ {ns}, !.budget = rest]]
        /\ UNCHANGED <<clock, entry, expIndex, meta, registered>>

\* A process is shut down or dies, and another one takes its place.
Restart(p) ==
    /\ sweep' = [sweep EXCEPT ![p] = NoSweep]
    /\ UNCHANGED <<clock, entry, expIndex, meta, registered>>

Tick ==
    /\ clock < MaxTime
    /\ clock' = clock + 1
    /\ UNCHANGED <<entry, expIndex, meta, registered, sweep>>

StoreNext ==
    \/ \E p \in Processes, ns \in Namespaces, k \in EntryKeys :
          DeleteEntry(p, ns, k) \/ \E t \in Retentions \cup {Never} : Put(p, ns, k, t)
    \/ \E p \in Processes, ns \in Namespaces :
          Register(p, ns) \/ SweepNext(p, ns) \/ SweepFails(p, ns)
    \/ \E p \in Processes : StartSweep(p) \/ Restart(p)
    \/ Tick

StoreSpec == StoreInit /\ [][StoreNext]_storeVars

-----------------------------------------------------------------------------
(* Properties. *)

\* The expiry index, the expiry meta and the entries say the same: an index entry
\* is that of the key's current expiry, so that overwriting or deleting a key
\* finds it and a cleanup never meets a stale one.
IndexAgrees ==
    \A ns \in Namespaces :
        /\ \A x \in expIndex[ns] : /\ entry[ns][x[2]] > 0
                                /\ x[1] = Bucket(entry[ns][x[2]])
        /\ \A k \in EntryKeys : meta[ns][k] = IF entry[ns][k] > 0 THEN entry[ns][k] ELSE Absent

\* A cleanup works with a time that has passed.
SweepsLookBack == \A p \in Processes : sweep[p].now <= clock

\* What a caller sees of the store.
Contents == [ns \in Namespaces |-> [k \in EntryKeys |-> IF Visible(ns, k) THEN entry[ns][k] ELSE Absent]]

\* A cleanup, in any process and with a time read before others wrote, changes
\* nothing a caller can see.
CleanupsAreInvisible == [][sweep' # sweep => Contents' = Contents]_storeVars

\* The store is a map with expiries: an entry is there until it is replaced or
\* deleted or its retention is over, whatever index and meta say.
Ttl == INSTANCE TtlStore WITH
    Keys <- EntryKeys,
    now <- clock,
    deadline <- Contents,
    Lifetimes <- {r * Minute : r \in Retentions}

ImplementsTtl == Ttl!Spec

(***************************************************************************)
(* Time goes on, every process cleans up again and again, and a namespace's*)
(* cleanup does not fail, or lose its process, every time.                 *)
(***************************************************************************)
StoreFairness ==
    /\ WF_storeVars(Tick)
    /\ \A p \in Processes : /\ WF_storeVars(StartSweep(p))
                            /\ \A ns \in Namespaces : SF_storeVars(SweepNext(p, ns))

FairStoreSpec == StoreSpec /\ StoreFairness

\* What has expired is purged (lmdb.py: "A periodic cleanup loop to purge expired
\* entries"), or written anew.
ExpiredArePurged ==
    \A ns \in Namespaces, k \in EntryKeys :
        Expired(entry[ns][k], clock) ~> ~Expired(entry[ns][k], clock)
=============================================================================
