------------------------------ MODULE ChatStream ------------------------------
(***************************************************************************)
(* The chunks of a streamed completion: of a chat completion, of one round *)
(* of the tool loop ("collect"), and of a text completion.  The engine     *)
(* delivers cumulative texts of n choices in any order; the stream tells   *)
(* what is new of each, keeps back text that may still turn out to be a    *)
(* tool call, and closes each choice with a finish chunk.                  *)
(*                                                                         *)
(* A text is a sequence of pieces, words "w", markup of a call "m" and     *)
(* blanks "b", one token each.  With a tool parser a delivery also says    *)
(* what the parser made of it: nothing, or a piece of a call and the text  *)
(* beside it.  Chunks are [choice, kind] with the pieces of their content; *)
(* ids, log probabilities and reasoning are left out.                      *)
(***************************************************************************)
EXTENDS Naturals, Sequences, FiniteSets, FiniteSetsExt

CONSTANTS
  Indices,     \* 1..n
  MaxPieces    \* bound: pieces of all choices together

ASSUME ChatStreamAssumption ==
  /\ IsFiniteSet(Indices) /\ Indices # {} /\ Indices = 1..Cardinality(Indices)
  /\ MaxPieces \in Nat

Forms == {"chat", "collect", "completion"}

\* tools: the request has tool definitions.  In a chat completion they are the
\* client's own, for which a parser is demanded: one with tools of the servers
\* goes to the tool loop.  Text completions have no tools.
Streams ==
  { r \in [form : Forms, tools : BOOLEAN, parser : BOOLEAN, usage : BOOLEAN] :
      /\ r.form = "chat" => (r.tools => r.parser)
      /\ r.form = "collect" => r.tools /\ ~r.usage
      /\ r.form = "completion" => ~r.tools /\ ~r.parser }

VARIABLES
  stream,     \* the request
  phase,      \* where the stream is
  text,       \* state.text: the pieces of each choice
  kind,       \* state.kind: undecided, text or tool_calls; none without a state
  streamed,   \* whether state.streamed_text has anything
  ended,      \* the engine has given the choice a finish reason
  semantic,   \* semantic_tool_calls_seen
  parsed,     \* choices whose last output has parsed calls
  counted,    \* prev_token_counts
  at,         \* the choice being closed
  chunks,     \* the chunks told
  closed      \* the engine's stream has been closed

state == <<text, kind, streamed, ended, semantic, parsed, counted>>
chunksVars == <<stream, phase, state, at, chunks, closed>>

Chunk(c, k, pieces) == [choice |-> c, kind |-> k, pieces |-> pieces]
Total(counts) == MapThenSumSet(LAMBDA c : counts[c], Indices)
Tell(more) == chunks' = chunks \o more

-----------------------------------------------------------------------------
Open ==
  /\ phase = "open"
  /\ phase' = "stream"
  /\ Tell(IF stream.form = "chat" THEN [c \in Indices |-> Chunk(c, "role", <<>>)] ELSE <<>>)
  /\ UNCHANGED <<stream, state, at, closed>>

\* The client may leave among the role chunks: they are told before the engine's
\* stream is begun, and nothing closes it then.
LeaveEarly ==
  /\ phase = "open" /\ stream.form = "chat"
  /\ \E n \in Indices : Tell([c \in 1..n |-> Chunk(c, "role", <<>>)])
  /\ phase' = "left"
  /\ UNCHANGED <<stream, state, at, closed>>

Blank(t) == \A i \in DOMAIN t : t[i] = "b"
LooksLikeCall(t) == \E i \in DOMAIN t : t[i] = "m" /\ \A j \in 1..i - 1 : t[j] = "b"
\* A call is complete with two pieces of markup and no word.
Parseable(t) ==
  /\ \E i, j \in DOMAIN t : i # j /\ t[i] = "m" /\ t[j] = "m"
  /\ \A i \in DOMAIN t : t[i] # "w"
Normalized(c) == stream.tools /\ Parseable(text[c])

\* Blank text decides nothing.
NextKind(k, t) ==
  IF k \in {"text", "tool_calls"} THEN k
  ELSE IF Blank(t) THEN "undecided"
  ELSE IF stream.tools /\ LooksLikeCall(t) THEN "tool_calls" ELSE "text"

\* What a delivery adds to a text, and the words the parser leaves beside a call.
Deltas == {<<>>, <<"w">>, <<"m">>, <<"b">>, <<"b", "w">>, <<"w", "m">>}
Beside(piece) == IF piece = <<"w", "m">> THEN <<"w">> ELSE <<>>
HasRoom(piece) == Total([c \in Indices |-> Len(text[c])]) + Len(piece) <= MaxPieces

ContentChunk(c, told) == IF told # <<>> THEN <<Chunk(c, "content", told)>> ELSE <<>>

CountOf(c, t) == counted[c] + (IF Len(t) > counted[c] THEN Len(t) - counted[c] ELSE 0)

\* More text of a choice, or its end.  What the parser reads as part of a call is
\* told as such, and of its text only what is beside it; other text is told unless
\* it is kept back or the choice is undecided.
Deliver(c, piece, call, last) ==
  LET t == text[c] \o piece
      k == NextKind(kind[c], t) IN
  /\ phase = "stream" /\ ~ended[c] /\ HasRoom(piece)
  /\ call => stream.parser /\ piece \in {<<"m">>, <<"w", "m">>}
  /\ text' = [text EXCEPT ![c] = t]
  /\ kind' = [kind EXCEPT ![c] = k]
  /\ streamed' = [streamed EXCEPT ![c] = @ \/ (piece # <<>> /\ k = "text")]
  /\ ended' = [ended EXCEPT ![c] = last]
  /\ parsed' = IF last /\ stream.parser /\ \E i \in DOMAIN t : t[i] = "m"
               THEN parsed \cup {c} ELSE parsed
  /\ semantic' = IF call THEN semantic \cup {c} ELSE semantic
  /\ counted' = IF call THEN counted ELSE [counted EXCEPT ![c] = CountOf(c, t)]
  /\ Tell(ContentChunk(c, IF call THEN Beside(piece) ELSE IF k = "text" THEN piece ELSE <<>>) \o
          (IF call THEN <<Chunk(c, "call", <<>>)>> ELSE <<>>))
  /\ UNCHANGED <<stream, phase, at, closed>>

\* A text completion closes a choice as soon as the engine does.
DeliverText(c, piece, last) ==
  LET t == text[c] \o piece IN
  /\ phase = "stream" /\ ~ended[c] /\ HasRoom(piece)
  /\ text' = [text EXCEPT ![c] = t]
  /\ ended' = [ended EXCEPT ![c] = last]
  /\ counted' = [counted EXCEPT ![c] = CountOf(c, t)]
  /\ Tell(ContentChunk(c, piece) \o
          (IF last THEN <<Chunk(c, "finish", <<>>)>> ELSE <<>>))
  /\ UNCHANGED <<stream, phase, kind, streamed, semantic, parsed, at, closed>>

\* The engine's stream is over, whether or not it has ended, or begun, every
\* choice; a round of the tool loop releases it here.
Exhausted ==
  /\ phase = "stream"
  /\ phase' = IF stream.form = "completion" THEN "usage" ELSE "close"
  /\ closed' = (stream.form = "collect")
  /\ UNCHANGED <<stream, state, at, chunks>>

-----------------------------------------------------------------------------
Deferred(c) ==
  IF ~Normalized(c) /\ text[c] # <<>> /\ ~streamed[c]
  THEN <<Chunk(c, "content", text[c])>> ELSE <<>>
TextCalls(c) == <<Chunk(c, "call", <<>>), Chunk(c, "call", <<>>)>>

\* Mutant: the last choice is not closed.
AdvanceShort == at' = at + 1 /\ phase' = IF at + 2 \in Indices THEN "close" ELSE "usage"
Advance == at' = at + 1 /\ phase' = IF at + 1 \in Indices THEN "close" ELSE "usage"

\* Mutant: the engine's reason is told as it is.
EngineReason(c, calls) == <<Chunk(c, "finish", <<>>)>>
Finish(c, calls) == <<Chunk(c, IF calls THEN "finishCalls" ELSE "finish", <<>>)>>

\* Mutant: what was kept back and is no call is not told.
SilentCloseChoice ==
  /\ phase = "close" /\ stream.form = "chat" /\ (at \in semantic \/ ~Normalized(at))
  /\ Tell(Finish(at, at \in semantic))
  /\ Advance
  /\ UNCHANGED <<stream, state, closed>>

CloseChoice ==
  /\ phase = "close" /\ stream.form = "chat" /\ (at \in semantic \/ ~Normalized(at))
  /\ Tell((IF at \in semantic THEN <<>> ELSE Deferred(at)) \o Finish(at, at \in semantic))
  /\ Advance
  /\ UNCHANGED <<stream, state, closed>>

\* A client's tools demand the parser: a call only the text shows is an error.
CloseRefused ==
  /\ phase = "close" /\ stream.form = "chat" /\ at \notin semantic /\ Normalized(at)
  /\ phase' = "failed" /\ closed' = TRUE
  /\ Tell(<<Chunk(at, "error", <<>>)>>)
  /\ UNCHANGED <<stream, state, at>>

\* In a round of the tool loop calls the parser found in the last output count
\* even when none of its deltas showed them; then no chunk tells them.
CloseCollected ==
  /\ phase = "close" /\ stream.form = "collect" /\ kind[at] # "none"
  /\ LET calls == at \in semantic \cup parsed
         fromText == ~calls /\ Normalized(at) IN
       Tell((IF calls THEN <<>> ELSE IF fromText THEN TextCalls(at) ELSE Deferred(at)) \o
            Finish(at, calls \/ fromText))
  /\ Advance
  /\ UNCHANGED <<stream, state, closed>>

\* A round has no state for a choice the engine never delivered.
SkipUnseen ==
  /\ phase = "close" /\ stream.form = "collect" /\ kind[at] = "none"
  /\ Advance
  /\ UNCHANGED <<stream, state, chunks, closed>>

Usage ==
  /\ phase = "usage"
  /\ phase' = "last"
  /\ Tell(IF stream.usage THEN <<Chunk(Total(counted), "usage", <<>>)>> ELSE <<>>)
  /\ UNCHANGED <<stream, state, at, closed>>

\* The sentinel of a round of the tool loop is the loop's.
Done ==
  /\ phase = "last"
  /\ phase' = "done" /\ closed' = TRUE
  /\ Tell(IF stream.form = "collect" THEN <<>> ELSE <<Chunk(0, "done", <<>>)>>)
  /\ UNCHANGED <<stream, state, at>>

\* The engine fails: an error event, and no sentinel.
EngineError ==
  /\ phase = "stream"
  /\ phase' = "failed" /\ closed' = TRUE
  /\ Tell(IF stream.form = "collect" THEN <<>> ELSE <<Chunk(0, "error", <<>>)>>)
  /\ UNCHANGED <<stream, state, at>>

\* The client leaves.
Disconnect ==
  /\ phase \in {"stream", "close", "usage", "last"}
  /\ phase' = "gone" /\ closed' = TRUE
  /\ UNCHANGED <<stream, state, at, chunks>>

-----------------------------------------------------------------------------
ChunksInit ==
  /\ stream \in Streams /\ phase = "open" /\ at = 1 /\ chunks = <<>> /\ closed = FALSE
  /\ text = [c \in Indices |-> <<>>]
  /\ kind = [c \in Indices |-> IF stream.form = "collect" THEN "none" ELSE "undecided"]
  /\ streamed = [c \in Indices |-> FALSE] /\ ended = [c \in Indices |-> FALSE]
  /\ semantic = {} /\ parsed = {} /\ counted = [c \in Indices |-> 0]

ChunksNext ==
  \/ Open
  \/ \E c \in Indices, piece \in Deltas, last \in BOOLEAN :
       IF stream.form = "completion" THEN DeliverText(c, piece, last)
       ELSE \E call \in BOOLEAN : Deliver(c, piece, call, last)
  \/ Exhausted \/ CloseChoice \/ CloseRefused \/ CloseCollected \/ SkipUnseen \/ Usage \/ Done
  \/ EngineError \/ LeaveEarly \/ Disconnect

ChunksSpec == ChunksInit /\ [][ChunksNext]_chunksVars

-----------------------------------------------------------------------------
Finishes == {"finish", "finishCalls"}
\* The pieces of a choice's content in the chunks of s, put together.
ContentIn(s, c) ==
  LET upTo[i \in 0..Len(s)] ==
        IF i = 0 THEN <<>>
        ELSE upTo[i - 1] \o IF s[i].choice = c /\ s[i].kind = "content" THEN s[i].pieces ELSE <<>>
  IN upTo[Len(s)]
Content(c) == ContentIn(chunks, c)
FinishedWith(c, k) == \E i \in DOMAIN chunks : chunks[i].choice = c /\ chunks[i].kind = k

\* The request and the states of the choices have their types, no choice counts
\* more tokens than it has, and a stream that is over has released the engine.
ChunksTypeOK ==
  /\ stream \in Streams
  /\ phase \in {"open", "stream", "close", "usage", "last", "done", "failed", "gone", "left"}
  /\ \A c \in Indices : /\ kind[c] \in {"none", "undecided", "text", "tool_calls"}
                         /\ counted[c] <= Len(text[c])
  /\ semantic \subseteq Indices /\ parsed \subseteq Indices /\ at \in 1..Cardinality(Indices) + 1
  /\ phase \in {"done", "failed", "gone"} => closed

\* The choices to be finished: all of a chat completion, those a round has a state
\* of, and those of a text completion that the engine has ended.
Due(c) ==
  /\ stream.form = "completion" => ended[c]
  /\ stream.form = "collect" => kind[c] # "none"

\* A choice is finished at most once and nothing follows its finish chunk; a
\* stream told to its end has finished every choice it is to finish.
FinishOnce ==
  \A c \in Indices :
    /\ \A i, j \in DOMAIN chunks :
         chunks[i].choice = c /\ chunks[i].kind \in Finishes /\ i < j /\ chunks[j].choice = c =>
           chunks[j].kind = "usage"
    /\ phase = "done" /\ Due(c) => FinishedWith(c, "finish") \/ FinishedWith(c, "finishCalls")

\* told is t without some blanks it begins with, which are missing only when other
\* text follows them.
Blanks(n) == [i \in 1..n |-> "b"]
AllButBlanks(t, told) ==
  \E n \in 0..Len(t) : t = Blanks(n) \o told /\ (n > 0 => ~Blank(told))

\* A choice that ends without a call has told its whole text in order, the part
\* kept back included, and nothing twice.  Only the blanks a choice of a chat or a
\* round begins with are lost if more text follows: they are delivered before the
\* choice has a kind.
TextDelivered ==
  \A c \in Indices : FinishedWith(c, "finish") =>
    IF stream.form = "completion" THEN Content(c) = text[c] ELSE AllButBlanks(text[c], Content(c))

\* A choice said to end with calls has told one, except in a round of the tool
\* loop whose parser found it at the very end; a choice that told one says so.
CallsTold ==
  \A c \in Indices :
    LET tells == FinishedWith(c, "call") IN
    /\ FinishedWith(c, "finishCalls") =>
         tells \/ (stream.form = "collect" /\ c \in parsed \ semantic)
    /\ FinishedWith(c, "finish") => ~tells

\* Markup of a call that begins a text is not told as content when it becomes
\* a call; only words beside a parsed call are.
NoMarkup(t) == \A i \in DOMAIN t : t[i] # "m"
MarkupHidden ==
  \A c \in Indices : stream.tools /\ LooksLikeCall(text[c]) /\ FinishedWith(c, "finishCalls") =>
    NoMarkup(Content(c)) /\ (c \notin semantic => Content(c) = <<>>)

\* A client that puts the content of the chunks together has the text of the model
\* but for first blanks, without the markup of calls it is told as calls.
ContentDelivered == TextDelivered /\ MarkupHidden

\* The sentinel is told last, once every choice it waits for is finished and never after an
\* error; after an error nothing is told.
DoneIsLast ==
  \A i \in DOMAIN chunks :
    /\ chunks[i].kind \in {"done", "error"} => i = Len(chunks)
    /\ chunks[i].kind = "done" =>
         \A c \in Indices : Due(c) => \E j \in 1..i : chunks[j].choice = c /\ chunks[j].kind \in Finishes

\* The tokens reported are those generated, in every stream without call deltas.
UsageIsTrue ==
  \A i \in DOMAIN chunks : chunks[i].kind = "usage" /\ semantic = {} =>
    chunks[i].choice = Total([c \in Indices |-> Len(text[c])])

\* A stream ends as the protocol says, choice by choice and as a whole.
StreamEndsOnce == ChunksTypeOK /\ FinishOnce /\ DoneIsLast /\ UsageIsTrue

=============================================================================
