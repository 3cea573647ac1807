--------------------------- MODULE MCResponseStream ---------------------------
(***************************************************************************)
(* Streamed responses for TLC.                                             *)
(***************************************************************************)
EXTENDS ResponseStream, TLC

Says(thinks, new, delta, calls) ==
    [reason |-> thinks, text |-> new, content |-> delta, calls |-> calls]

Names(i) == [index |-> i, named |-> TRUE, args |-> FALSE]

Argues(i) == [index |-> i, named |-> FALSE, args |-> TRUE]

\* What needs no tool parser: reasoning, its end in the middle of a chunk, blanks,
\* text, the start of a tool call.
PlainChunks ==
    {Says(TRUE, "none", FALSE, <<>>), Says(TRUE, "plain", FALSE, <<>>),
     Says(FALSE, "blank", FALSE, <<>>), Says(FALSE, "plain", FALSE, <<>>),
     Says(FALSE, "call", FALSE, <<>>)}

\* What it adds: content, a call, its arguments, the next call, two at once and content.
ParsedChunks ==
    {Says(FALSE, "plain", TRUE, <<>>), Says(TRUE, "plain", TRUE, <<>>),
     Says(FALSE, "call", FALSE, <<Names(0)>>), Says(FALSE, "plain", FALSE, <<Argues(0)>>),
     Says(FALSE, "plain", TRUE, <<Argues(0), Names(1)>>)}

AllChunks == PlainChunks \cup ParsedChunks
=============================================================================
