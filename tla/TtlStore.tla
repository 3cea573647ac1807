------------------------------ MODULE TtlStore ------------------------------
(***************************************************************************)
(* What StoreService (service/store/lmdb.py) promises its callers: in each *)
(* namespace a map from keys to values that may have an expiry, whose      *)
(* entries are gone the second they expire.  Values are opaque.            *)
(***************************************************************************)
EXTENDS Integers

CONSTANTS
    Namespaces, Keys,
    Lifetimes   \* how long an entry may be given to live, in seconds

VARIABLES
    now,
    deadline   \* per namespace and key: Absent, Never, or when it expires

Absent == -1
Never == 0

Init ==
    /\ now \in Nat
    /\ deadline = [ns \in Namespaces |-> [k \in Keys |-> Absent]]

Put(ns, k, t) ==
    /\ deadline' = [deadline EXCEPT ![ns][k] = t]
    /\ UNCHANGED now

Delete(ns, k) ==
    /\ deadline' = [deadline EXCEPT ![ns][k] = Absent]
    /\ UNCHANGED now

\* What is due goes, and only that.
Tick ==
    /\ now' = now + 1
    /\ deadline' = [ns \in Namespaces |-> [k \in Keys |->
                      IF deadline[ns][k] > 0 /\ deadline[ns][k] <= now' THEN Absent
                      ELSE deadline[ns][k]]]

Next ==
    \/ \E ns \in Namespaces, k \in Keys, t \in {Never} \cup {now + l : l \in Lifetimes} :
          Put(ns, k, t)
    \/ \E ns \in Namespaces, k \in Keys : Delete(ns, k)
    \/ Tick

Spec == Init /\ [][Next]_<<now, deadline>>
=============================================================================
