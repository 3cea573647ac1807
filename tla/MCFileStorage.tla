---------------------------- MODULE MCFileStorage ----------------------------
(***************************************************************************)
(* File storage for TLC.                                                   *)
(***************************************************************************)
EXTENDS FileStorage, TLC

\* The second file has a purpose of its own.
TwoPurposes == [f \in Files |-> IF f = 2 THEN "batch" ELSE "user_data"]

TheQueries == {<<"user_data", FALSE, None>>, <<All, TRUE, 3>>}
CONSTANTS w1, w2, l1, c1

\* Listings while a writer uploads and deletes; a cleanup loop and writers that die.
Both ==
    { [files |-> {1, 2, 3}, handlers |-> {w1, l1}, cleaners |-> {}, faults |-> {"write", "expire"}],
      [files |-> {1, 2}, handlers |-> {w1, w2}, cleaners |-> {c1}, faults |-> {"write", "crash"}] }

\* A cleanup loop that comes by while a file is uploaded.
CleanupOnly == { [files |-> {1}, handlers |-> {w1}, cleaners |-> {c1}, faults |-> {}] }
=============================================================================
