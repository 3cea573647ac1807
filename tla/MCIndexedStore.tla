---------------------------- MODULE MCIndexedStore -----------------------------
(* Listings from both ends, after a cursor, and filtered. *)
EXTENDS IndexedStore

CONSTANTS p1, p2
Three == 1..3
TheQueries == { [after |-> 0, reverse |-> FALSE, filter |-> 1],
                [after |-> 2, reverse |-> FALSE, filter |-> 0],
                [after |-> 0, reverse |-> TRUE, filter |-> 0] }
=============================================================================
