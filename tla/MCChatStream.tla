------------------------------ MODULE MCChatStream -----------------------------
(* Two choices of up to four pieces together. *)
EXTENDS ChatStream

TwoChoices == 1..2
=============================================================================
