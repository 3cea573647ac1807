---------------------------- MODULE ResponseStream ----------------------------
(***************************************************************************)
(* A streamed response: the generator that turns the engine's cumulative   *)
(* output into events (adapter/response_streaming.py with                  *)
(* adapter/assistant_output.py), the use case that stores the response     *)
(* before it passes on the event that ends it                              *)
(* (usecases/responses_streaming_direct.py, ..._coordinator.py), and the   *)
(* client that reads them.                                                 *)
(*                                                                         *)
(* A chunk of the engine says what it adds: reasoning, text, and what the  *)
(* engine's tool parser makes of that text.  Texts are token counts.  The  *)
(* generator hands out one event at a time; between two of them the client *)
(* may be gone.                                                            *)
(***************************************************************************)
EXTENDS Integers, FiniteSets, Sequences

CONSTANTS
    Chunks,      \* what the engine may say at a time
    MaxChunks,   \* bound on how often
    Quirks,      \* "late": reasoning after text; "holding": the tool parser keeps
                 \* text to itself although it has let some through
    Mentions,    \* the request's own text contains the name of a final event
    Faults       \* "engine", "store", "disconnect"

None == 0        \* the response itself
Reasoning == 1   \* reasoning_id
Message == 2     \* msg_id
Item(n) == n + 2 \* ids of the items the tool parser's deltas open, n = 1, 2, ...

Events ==
    [type : {"created", "in_progress", "added", "part", "delta", "text_done", "part_done",
             "args_done", "done", "error", "failed", "completed"},
     item : Nat, at : Nat,            \* at: output_index
     len : Nat,                       \* tokens of a message's text
     n : Nat]                         \* sequence_number

Call == [index : Nat, named : BOOLEAN, args : BOOLEAN]

Chunk ==
    [reason  : BOOLEAN,
     text    : {"none", "blank", "plain", "call"},  \* "call": the start of a tool call
     content : BOOLEAN,                             \* semantic.content_delta
     calls   : Seq(Call)]                           \* semantic.tool_call_deltas

ASSUME ResponseStreamAssumption ==
    /\ Chunks \subseteq Chunk
    /\ MaxChunks \in Nat
    /\ Quirks \subseteq {"late", "holding"}
    /\ Mentions \in BOOLEAN
    /\ Faults \subseteq {"engine", "store", "disconnect"}

VARIABLES
    mode,      \* the request has no "tools", or the model no "parser" for them
    pc,
    chunk,     \* what is left to do of the current chunk
    said,      \* chunks so far
    text,      \* tokens so far, and tokens in streamed_text
    kind,      \* AssistantOutputStreamState.kind
    reasoning, \* reasoning_item_emitted
    textOpen,  \* text_item_emitted
    index,     \* output_index
    active,    \* active_item
    semantic,  \* semantic_emitted
    output,    \* completed_output_items, at the end final_output_items
    seq,       \* the generator's sequence number
    queue,     \* events the generator is about to yield
    next,      \* the use case's sequence number
    stored,    \* the status of the stored response
    sent       \* what the client got

vars == <<mode, pc, chunk, said, text, kind, reasoning, textOpen, index, active, semantic,
          output, seq, queue, next, stored, sent>>

itemVars == <<reasoning, textOpen, index, active, semantic, output>>

Active ==
    [kind : {"none", "message", "tool_call"}, at : Nat, item : Nat, call : Int, len : Nat]

\* _ActiveResponseItemState(output_index=at)
NoItem(at) == [kind |-> "none", at |-> at, item |-> None, call |-> -1, len |-> 0]

Nothing == [reason |-> FALSE, text |-> "none", content |-> FALSE, calls |-> <<>>]

TypeOK ==
    /\ mode \in {"plain", "tools", "parser"}
    /\ pc \in {"start", "next", "reason", "update", "close", "calls", "content", "text",
               "finish", "failing", "ended", "raised", "over", "gone"}
    /\ chunk \in Chunk /\ said \in 0..MaxChunks
    /\ text \in [all : Nat, streamed : Nat]
    /\ kind \in {"undecided", "text", "tool_calls"}
    /\ reasoning \in BOOLEAN /\ textOpen \in BOOLEAN /\ semantic \in BOOLEAN
    /\ index \in Nat /\ active \in Active
    /\ output \in Seq(Nat)
    /\ seq \in Nat /\ next \in Nat
    /\ queue \in Seq(Events) /\ sent \in Seq(Events)
    /\ stored \in {"none", "in_progress", "completed", "failed"}

Init ==
    /\ mode \in {"plain", "tools", "parser"}
    /\ pc = "start"
    /\ chunk = Nothing /\ said = 0
    /\ text = [all |-> 0, streamed |-> 0]
    /\ kind = "undecided"
    /\ reasoning = FALSE /\ textOpen = FALSE /\ semantic = FALSE
    /\ index = 0 /\ active = NoItem(0)
    /\ output = <<>>
    /\ seq = 0 /\ next = 0
    /\ queue = <<>> /\ sent = <<>>
    /\ stored = "none"

Event(type, item, at) == [type |-> type, item |-> item, at |-> at, len |-> 0]

Text(type, item, at, len) == [type |-> type, item |-> item, at |-> at, len |-> len]

Numbered(events, from) ==
    [i \in DOMAIN events |-> [type |-> events[i].type, item |-> events[i].item,
                              at |-> events[i].at, len |-> events[i].len, n |-> from + i - 1]]

\* The generator, its last events taken, yields some more.
Yield(events) ==
    /\ queue = <<>>
    /\ queue' = Numbered(events, seq)
    /\ seq' = seq + Len(events)
    /\ UNCHANGED <<next, stored, sent>>

If(condition, events) == IF condition THEN events ELSE <<>>

OpenMessage(item, at) == <<Event("added", item, at), Event("part", item, at)>>

CloseMessage(item, at, len) ==
    <<Text("text_done", item, at, len), Event("part_done", item, at), Event("done", item, at)>>

OpenCall(item, at) == <<Event("added", item, at)>>

CloseCall(item, at) == <<Event("args_done", item, at), Event("done", item, at)>>

Failure == <<Event("error", None, 0), Event("failed", None, 0)>>

CloseActive(at) ==
    If(active.kind = "message", CloseMessage(active.item, at, active.len)) \o
    If(active.kind = "tool_call", CloseCall(active.item, at))

\* The id of the next item the deltas open, the items in items having been closed.
NewItem(items) == Item(Cardinality({i \in DOMAIN items : items[i] # Reasoning}) + 1)

-----------------------------------------------------------------------------
(* The engine. *)

Semantic(c) == c.content \/ c.calls # <<>>

\* What reasoning and tool parser may make of the output.
Possible(c) ==
    /\ Semantic(c) => mode = "parser"
    /\ c.reason => "late" \in Quirks \/ (text.all = 0 /\ ~semantic)
    /\ mode = "parser" /\ c.text # "none" /\ ~Semantic(c) =>
          \/ "holding" \in Quirks
          \/ kind = "tool_calls"
          \/ kind = "undecided" /\ c.text # "plain"

Prelude ==
    /\ pc = "start"
    /\ Yield(<<Event("created", None, 0), Event("in_progress", None, 0)>>)
    /\ pc' = "next"
    /\ UNCHANGED <<mode, chunk, said, text, kind, itemVars>>

\* Tokenizing the prompt fails, before the stream or at its start.
NotStarted ==
    /\ "engine" \in Faults
    /\ pc = "start"
    /\ pc' = "raised"
    /\ UNCHANGED <<mode, chunk, said, text, kind, itemVars, seq, queue, next, stored, sent>>

Receive(c) ==
    /\ pc = "next" /\ queue = <<>>
    /\ said < MaxChunks
    /\ Possible(c)
    /\ said' = said + 1
    /\ chunk' = c
    /\ pc' = "reason"
    /\ UNCHANGED <<mode, text, kind, itemVars, seq, queue, next, stored, sent>>

EngineFails ==
    /\ "engine" \in Faults
    /\ pc = "next"
    /\ Yield(Failure)
    /\ pc' = "ended"
    /\ UNCHANGED <<mode, chunk, said, text, kind, itemVars>>

EngineEnds ==
    /\ pc = "next" /\ queue = <<>>
    /\ pc' = "finish"
    /\ UNCHANGED <<mode, chunk, said, text, kind, itemVars, seq, queue, next, stored, sent>>

-----------------------------------------------------------------------------
(* One chunk. *)

\* New reasoning opens its item, or goes on with it.
Reason ==
    /\ pc = "reason"
    /\ Yield(If(chunk.reason,
               If(~reasoning, <<Event("added", Reasoning, index)>>)
                 \o <<Event("delta", Reasoning, index)>>))
    /\ reasoning' = (reasoning \/ chunk.reason)
    /\ pc' = "update"
    /\ UNCHANGED <<mode, chunk, said, text, kind, textOpen, index, active, semantic, output>>

\* The first text that is not blank decides what the output is.
Decided ==
    IF kind = "undecided" /\ chunk.text \in {"plain", "call"}
      THEN IF mode # "plain" /\ chunk.text = "call" THEN "tool_calls" ELSE "text"
      ELSE kind

\* AssistantOutputStreamState.update: text is streamed once the kind is known to be
\* "text"; nobody goes back to what came before.
Update ==
    LET new == IF chunk.text = "none" THEN 0 ELSE 1
    IN  /\ pc = "update"
        /\ kind' = Decided
        /\ text' = [all |-> text.all + new,
                    streamed |-> text.streamed + (IF kind' = "text" THEN new ELSE 0)]
        /\ pc' = IF Semantic(chunk) THEN "close" ELSE "text"
        /\ UNCHANGED <<mode, chunk, said, itemVars, seq, queue, next, stored, sent>>

\* Mutant: the reasoning item is closed and yet goes on.
CloseReasoningKept ==
    /\ pc = "close"
    /\ Yield(If(reasoning, <<Event("done", Reasoning, active.at)>>))
    /\ semantic' = TRUE
    /\ IF reasoning
         THEN /\ output' = Append(output, Reasoning)
              /\ active' = [active EXCEPT !.at = @ + 1]
         ELSE UNCHANGED <<output, active>>
    /\ pc' = "calls"
    /\ UNCHANGED <<mode, chunk, said, text, kind, reasoning, textOpen, index>>

\* A delta of the tool parser ends the reasoning.
CloseReasoning ==
    /\ pc = "close"
    /\ Yield(If(reasoning, <<Event("done", Reasoning, active.at)>>))
    /\ semantic' = TRUE
    /\ reasoning' = FALSE
    /\ IF reasoning
         THEN /\ output' = Append(output, Reasoning)
              /\ active' = [active EXCEPT !.at = @ + 1]
         ELSE UNCHANGED <<output, active>>
    /\ pc' = "calls"
    /\ UNCHANGED <<mode, chunk, said, text, kind, textOpen, index>>

\* A tool call delta: what is open and not this call is closed, the call is opened
\* by the delta that names it, and gets the arguments.
ToolCallDelta ==
    LET d == Head(chunk.calls)
        goesOn == active.kind = "tool_call" /\ active.call = d.index
        closes == active.kind # "none" /\ ~goesOn
        at == IF closes THEN active.at + 1 ELSE active.at
        done == IF closes THEN Append(output, active.item) ELSE output
        item == IF goesOn THEN active.item ELSE NewItem(done)
    IN  /\ pc = "calls" /\ chunk.calls # <<>>
        /\ Yield(If(closes, CloseActive(active.at))
                 \o If(~goesOn /\ d.named, OpenCall(item, at))
                 \o If((goesOn \/ d.named) /\ d.args, <<Event("delta", item, at)>>))
        /\ output' = done
        /\ active' = IF goesOn THEN active
                     ELSE IF d.named
                       THEN [NoItem(at) EXCEPT !.kind = "tool_call", !.item = item, !.call = d.index]
                       ELSE NoItem(at)
        /\ chunk' = [chunk EXCEPT !.calls = Tail(@)]
        /\ UNCHANGED <<mode, pc, said, text, kind, reasoning, textOpen, index, semantic>>

NoMoreCalls ==
    /\ pc = "calls" /\ chunk.calls = <<>> /\ queue = <<>>
    /\ pc' = IF chunk.content THEN "content" ELSE "next"
    /\ UNCHANGED <<mode, chunk, said, text, kind, itemVars, seq, queue, next, stored, sent>>

\* A content delta, likewise.
ContentDelta ==
    LET goesOn == active.kind = "message"
        closes == active.kind = "tool_call"
        at == IF closes THEN active.at + 1 ELSE active.at
        done == IF closes THEN Append(output, active.item) ELSE output
        item == IF goesOn THEN active.item ELSE NewItem(done)
    IN  /\ pc = "content"
        /\ Yield(If(closes, CloseActive(active.at)) \o If(~goesOn, OpenMessage(item, at))
                 \o <<Text("delta", item, at, 1)>>)
        /\ output' = done
        /\ active' = [NoItem(at) EXCEPT !.kind = "message", !.item = item,
                                       !.len = IF goesOn THEN active.len + 1 ELSE 1]
        /\ pc' = "next"
        /\ UNCHANGED <<mode, chunk, said, text, kind, reasoning, textOpen, index, semantic>>

\* Text the tool parser has no part in: closes the reasoning, whose flag stays set,
\* and opens the message.
TextDelta ==
    LET delta == chunk.text # "none" /\ kind = "text"
        opens == delta /\ ~textOpen
        at == IF opens /\ reasoning THEN index + 1 ELSE index
    IN  /\ pc = "text"
        /\ Yield(If(opens /\ reasoning, <<Event("done", Reasoning, index)>>)
                 \o If(opens, OpenMessage(Message, at))
                 \o If(delta, <<Text("delta", Message, at, 1)>>))
        /\ textOpen' = (textOpen \/ delta)
        /\ index' = at
        /\ pc' = "next"
        /\ UNCHANGED <<mode, chunk, said, text, kind, reasoning, active, semantic, output>>

-----------------------------------------------------------------------------
(* The end of the stream. *)

\* With deltas of the tool parser: close what is open.
FinishSemantic ==
    LET at == IF reasoning THEN active.at + 1 ELSE active.at
    IN  /\ pc = "finish" /\ semantic
        /\ Yield(If(reasoning, <<Event("done", Reasoning, active.at)>>)
                 \o CloseActive(at) \o <<Event("completed", None, 0)>>)
        /\ output' = output \o If(reasoning, <<Reasoning>>)
                            \o If(active.kind # "none", <<active.item>>)
        /\ pc' = "ended"
        /\ UNCHANGED <<mode, chunk, said, text, kind, reasoning, textOpen, index, active, semantic>>

\* There is text, and none of it has been streamed.
Deferred == text.all > 0 /\ text.streamed = 0

\* Mutant: only reasoning that nothing followed is put into the response.
OutputUnlessClosed ==
    output \o If(reasoning /\ ~textOpen, <<Reasoning>>) \o If(textOpen \/ Deferred, <<Message>>)

OutputOfText ==
    output \o If(reasoning, <<Reasoning>>) \o If(textOpen \/ Deferred, <<Message>>)

\* Without: reasoning nobody closed, text that was kept back, the open message.
FinishText ==
    LET closes == reasoning /\ ~textOpen
        at == IF closes THEN index + 1 ELSE index
        says == Deferred /\ ~textOpen
    IN  /\ pc = "finish" /\ ~semantic
        /\ Yield(If(closes, <<Event("done", Reasoning, index)>>)
                 \o If(says, OpenMessage(Message, at) \o <<Text("delta", Message, at, text.all)>>)
                 \o If(textOpen \/ says, CloseMessage(Message, at, text.all))
                 \o <<Event("completed", None, 0)>>)
        /\ output' = OutputOfText
        /\ index' = at
        /\ pc' = "ended"
        /\ UNCHANGED <<mode, chunk, said, text, kind, reasoning, textOpen, active, semantic>>

\* The text turns out to be tool calls that no parser delivered: an error.
FinishRaises ==
    LET closes == reasoning /\ ~textOpen
    IN  /\ pc = "finish" /\ ~semantic
        /\ mode # "plain" /\ kind # "undecided"
        /\ Yield(If(closes, <<Event("done", Reasoning, index)>>))
        /\ index' = IF closes THEN index + 1 ELSE index
        /\ pc' = "raised"
        /\ UNCHANGED <<mode, chunk, said, text, kind, reasoning, textOpen, active, semantic, output>>

-----------------------------------------------------------------------------
(* The use case. *)

\* Mutant: only a completed response is looked for.
Completes(e) == e.type = "completed"

\* A final event, as the search for its name in the event's text finds it.
Final(e) ==
    \/ e.type \in {"completed", "failed"}
    \/ Mentions /\ e.type \in {"created", "in_progress"}

StatusOf(e) == IF e.type \in {"completed", "failed"} THEN e.type ELSE "in_progress"

\* An event is passed on, a final one after the response has been stored, which
\* happens once.  The use case's own failure events follow the storing anyway.
Pass ==
    /\ queue # <<>>
    /\ sent' = Append(sent, Head(queue))
    /\ queue' = Tail(queue)
    /\ next' = Head(queue).n + 1
    /\ stored' = IF Final(Head(queue)) /\ stored = "none" THEN StatusOf(Head(queue)) ELSE stored
    /\ UNCHANGED <<mode, pc, chunk, said, text, kind, itemVars, seq>>

\* Storing fails: the event is not passed on, and the generator is given up.
StoreFails ==
    /\ "store" \in Faults
    /\ queue # <<>> /\ pc # "failing"
    /\ Final(Head(queue)) /\ stored = "none"
    /\ next' = Head(queue).n + 1
    /\ queue' = <<>>
    /\ pc' = "raised"
    /\ UNCHANGED <<mode, chunk, said, text, kind, itemVars, seq, stored, sent>>

\* An exception: the response is stored as failed, unless it is stored already, and
\* two more events say so.
Fail ==
    /\ pc = "raised" /\ queue = <<>>
    /\ stored' = IF stored = "none" THEN "failed" ELSE stored
    /\ queue' = Numbered(Failure, next)
    /\ pc' = "failing"
    /\ UNCHANGED <<mode, chunk, said, text, kind, itemVars, seq, next, sent>>

\* Not even that can be stored: the exception goes up, the stream breaks off.
FailFails ==
    /\ "store" \in Faults
    /\ pc = "raised" /\ queue = <<>> /\ stored = "none"
    /\ pc' = "gone"
    /\ UNCHANGED <<mode, chunk, said, text, kind, itemVars, seq, queue, next, stored, sent>>

End ==
    /\ pc \in {"ended", "failing"} /\ queue = <<>>
    /\ pc' = "over"
    /\ UNCHANGED <<mode, chunk, said, text, kind, itemVars, seq, queue, next, stored, sent>>

\* The client is gone; the generators are closed.
Disconnect ==
    /\ "disconnect" \in Faults
    /\ pc \notin {"over", "gone"}
    /\ pc' = "gone"
    /\ queue' = <<>>
    /\ UNCHANGED <<mode, chunk, said, text, kind, itemVars, seq, next, stored, sent>>

Next ==
    \/ Prelude \/ NotStarted \/ EngineFails \/ EngineEnds
    \/ \E c \in Chunks : Receive(c)
    \/ Reason \/ Update
    \/ CloseReasoning \/ ToolCallDelta \/ NoMoreCalls \/ ContentDelta \/ TextDelta
    \/ FinishSemantic \/ FinishText \/ FinishRaises
    \/ Pass \/ StoreFails \/ Fail \/ FailFails \/ End \/ Disconnect

Spec == Init /\ [][Next]_vars

-----------------------------------------------------------------------------
(* Properties. *)

Sent(k, type) == {i \in 1..k : sent[i].type = type}

\* Sequence numbers count the events, through every branch that yields some; one is
\* missing where the final event could not be stored and was withheld.
NumbersCount ==
    \A k \in DOMAIN sent :
        LET before == IF k = 1 THEN -1 ELSE sent[k - 1].n
        IN  sent[k].n = before + 1 \/ (sent[k].type = "error" /\ sent[k].n = before + 2)

\* Output items are opened in the order of their output indices and one at a time;
\* every event about an item comes while it is open and has its index; a completed
\* response has none open (response_streaming.py: "Follows the OpenAI Responses API
\* streaming event protocol").
ItemsInTurn ==
    \A k \in DOMAIN sent :
        LET e == sent[k]
            opened == Sent(k - 1, "added")
            closed == Cardinality(Sent(k - 1, "done"))
        IN  /\ e.type = "added" =>
                  /\ Cardinality(opened) = closed /\ e.at = closed
                  /\ \A i \in opened : sent[i].item # e.item
            /\ e.item # None /\ e.type # "added" =>
                  /\ Cardinality(opened) = closed + 1 /\ e.at = closed
                  /\ \E i \in opened : sent[i].item = e.item /\ sent[i].at = e.at
            /\ e.type = "completed" => Cardinality(opened) = closed

\* The events a client gets follow the protocol: numbered without a gap, item after
\* item, each opened, filled and closed once.
EventsInTurn == TypeOK /\ NumbersCount /\ ItemsInTurn

\* The output of a completed response is the items the events told of, in their order.
OutputAsTold ==
    \A k \in DOMAIN sent : sent[k].type = "completed" =>
        /\ Len(output) = Cardinality(Sent(k, "done"))
        /\ \A i \in Sent(k, "done") : output[sent[i].at + 1] = sent[i].item

\* The tokens of the deltas of item i among the first k events.
Told(k, i) ==
    Cardinality(UNION {{j} \X (1..sent[j].len) : j \in {h \in Sent(k, "delta") : sent[h].item = i}})

\* A message's final text is what its deltas said, but for blanks before the first
\* other text, and no text of a completed response is lost.
TextAsTold ==
    \A k \in DOMAIN sent :
        /\ sent[k].type = "text_done" =>
              sent[k].len = Told(k, sent[k].item) +
                 IF sent[k].item = Message /\ text.streamed > 0 THEN text.all - text.streamed ELSE 0
        /\ sent[k].type = "completed" /\ ~semantic /\ text.all > 0 =>
              \E j \in Sent(k, "text_done") : sent[j].len = text.all

\* The response a stream ends with is the one its events told.
ContentAsTold == OutputAsTold /\ TextAsTold

\* Who is told that the response has ended finds it stored so (for requests that are
\* to be stored), whatever fails, and nothing follows; and a stream nobody cuts off
\* does end so.
ToldIsStored ==
    /\ \A k \in DOMAIN sent : sent[k].type \in {"completed", "failed"} =>
          k = Len(sent) /\ stored = sent[k].type
    /\ pc = "over" => sent[Len(sent)].type \in {"completed", "failed"}
=============================================================================
