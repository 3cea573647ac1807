---------------------------- MODULE MCConversation -----------------------------
(* Three requests, each of which may continue any earlier one. *)
EXTENDS Conversation

ThreeTurns == 1..3
Kind(i, a, m) == [instructions |-> i, auto |-> a, mode |-> m]
SomeKinds == {Kind(TRUE, TRUE, "stream"), Kind(FALSE, TRUE, "sync"), Kind(FALSE, FALSE, "background")}
=============================================================================
