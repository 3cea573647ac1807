------------------------- MODULE ResponseStreamProofs -------------------------
(***************************************************************************)
(* Proofs about streamed responses, for any chunks, any number of them and *)
(* any faults: who is told that a response has ended finds it stored so;   *)
(* where reasoning comes first and the tool parser gives text up, the      *)
(* events follow the protocol and tell of the response the stream ends     *)
(* with.                                                                   *)
(***************************************************************************)
EXTENDS ResponseStream, FiniteSetTheorems, SequenceTheorems, TLAPS

\* The events of the generator that have not been thrown away.
Yielded == sent \o queue

Alive == pc \in {"start", "next", "reason", "update", "close", "calls", "content", "text", "finish"}

-----------------------------------------------------------------------------
(* How the stream ends. *)

Ends(e) == e.type \in {"completed", "failed"}

EndIsLast == \A k \in DOMAIN Yielded : Ends(Yielded[k]) => k = Len(Yielded)

NoEnd == \A k \in DOMAIN Yielded : ~Ends(Yielded[k])

HasEnd == Yielded # <<>> /\ Ends(Yielded[Len(Yielded)])

EndStored ==
    /\ EndIsLast
    /\ \A k \in DOMAIN sent : Ends(sent[k]) => stored = sent[k].type
    /\ Alive \/ pc = "raised" => NoEnd /\ stored = "none"
    /\ pc \in {"ended", "failing", "over"} => HasEnd
    /\ pc = "ended" /\ queue # <<>> => stored = "none"
    /\ pc = "failing" => stored = "failed" /\ Yielded[Len(Yielded)].type = "failed"
    /\ pc \in {"over", "gone"} => queue = <<>>

-----------------------------------------------------------------------------
(* How the events are numbered. *)

InStep == \A k \in DOMAIN Yielded : Yielded[k].n = k - 1

\* ... by one, but for the gap before an error.
StepOk(s, k) ==
    LET before == IF k = 1 THEN -1 ELSE s[k - 1].n
    IN  s[k].n = before + 1 \/ (s[k].type = "error" /\ s[k].n = before + 2)

Numbering ==
    /\ \A k \in DOMAIN Yielded : StepOk(Yielded, k)
    /\ Alive \/ pc \in {"ended", "raised"} => InStep
    /\ Alive \/ pc = "ended" => seq = Len(Yielded) /\ next = Len(sent)
    /\ pc = "raised" => next = Len(sent) \/ (queue = <<>> /\ next = Len(sent) + 1)
    /\ pc \in {"over", "gone"} => queue = <<>>

-----------------------------------------------------------------------------
(* What a sequence s of events has told. *)

Of(s, k, type) == {i \in 1..k : s[i].type = type}

\* The tokens of item i among the first k.
Tokens(s, k, i) ==
    UNION {{j} \X (1..s[j].len) : j \in {h \in Of(s, k, "delta") : s[h].item = i}}

InTurn(s, k) ==
    LET e == s[k]
        opened == Of(s, k - 1, "added")
        closed == Cardinality(Of(s, k - 1, "done"))
    IN  /\ e.type = "added" =>
              /\ Cardinality(opened) = closed /\ e.at = closed
              /\ \A i \in opened : s[i].item # e.item
        /\ e.item # None /\ e.type # "added" =>
              /\ Cardinality(opened) = closed + 1 /\ e.at = closed
              /\ \E i \in opened : s[i].item = e.item /\ s[i].at = e.at
        /\ e.type = "completed" => Cardinality(opened) = closed

\* extra: the blanks before the text of the message.
TextFits(s, k, extra) ==
    s[k].type = "text_done" =>
        s[k].len = Cardinality(Tokens(s, k, s[k].item)) + IF s[k].item = Message THEN extra ELSE 0

FollowsProtocol(s, extra) == \A k \in 1..Len(s) : InTurn(s, k) /\ TextFits(s, k, extra)

\* The items of done have been opened and closed, in this order, and open, unless it is
\* None, is open and has got length tokens.
Tells(s, extra, open, length, done) ==
    /\ FollowsProtocol(s, extra)
    /\ Cardinality(Of(s, Len(s), "done")) = Len(done)
    /\ Cardinality(Of(s, Len(s), "added")) = Len(done) + IF open = None THEN 0 ELSE 1
    /\ \A i \in 1..Len(s) : s[i].item \in {None, open} \/ \E d \in 1..Len(done) : s[i].item = done[d]
    /\ open # None => \E i \in Of(s, Len(s), "added") : s[i].item = open /\ s[i].at = Len(done)
    /\ \A i \in Of(s, Len(s), "done") : s[i].at + 1 \in 1..Len(done) /\ done[s[i].at + 1] = s[i].item
    /\ \A i \in Nat : IsFiniteSet(Tokens(s, Len(s), i))
    /\ open # None => Cardinality(Tokens(s, Len(s), open)) = length

-----------------------------------------------------------------------------
(* Where the generator is. *)

\* A token of text is counted that no event has told of.
Pending == pc = "text" /\ chunk.text # "none" /\ kind = "text"

Owed == IF Pending THEN 1 ELSE 0

Open == IF textOpen THEN Message ELSE IF reasoning THEN Reasoning ELSE active.item

Length == IF textOpen THEN text.streamed - Owed ELSE active.len

Done == IF textOpen /\ reasoning THEN <<Reasoning>> ELSE output

Extra == IF text.streamed > 0 THEN text.all - text.streamed ELSE 0

\* The ids given to the items are the first ones.
IdsCount(items) ==
    \A d \in 1..Len(items) :
        items[d] = Reasoning \/ \E n \in Nat : items[d] = Item(n + 1) /\ Item(n + 1) < NewItem(items)

\* A chunk is what reasoning and tool parser can make of the output.
ChunkFits ==
    /\ pc = "reason" /\ chunk.reason => text.all = 0 /\ ~semantic
    /\ pc \in {"reason", "update"} =>
          /\ Semantic(chunk) => mode = "parser"
          /\ mode = "parser" /\ chunk.text # "none" /\ ~Semantic(chunk) =>
                kind = "tool_calls" \/ (kind = "undecided" /\ chunk.text # "plain")
    /\ pc \in {"close", "calls", "content"} => mode = "parser"
    /\ pc \in {"calls", "content"} => semantic
    /\ mode = "parser" => ~Pending

\* Either the tool parser's deltas make the items or the text does.
ItemsFit ==
    /\ semantic => mode = "parser" /\ ~reasoning
    /\ ~semantic => output = <<>> /\ active.kind = "none"
    /\ textOpen => mode # "parser" /\ kind = "text" /\ text.streamed > Owed
    /\ index = IF textOpen /\ reasoning THEN 1 ELSE 0
    /\ active.at = Len(output)
    /\ active.kind = "none" => active.item = None /\ active.len = 0
    /\ active.kind # "none" => active.item = NewItem(output)
    /\ active.kind = "tool_call" => active.len = 0
    /\ IdsCount(output)

TextCounted ==
    /\ text.streamed <= text.all
    /\ kind # "text" => text.streamed = 0
    /\ mode = "parser" /\ kind = "text" => semantic \/ pc = "close"
    /\ mode # "parser" /\ ~textOpen => text.streamed = Owed

\* extra: whatever blanks a message begins with, none has been closed.
AliveFits ==
    /\ ChunkFits /\ ItemsFit /\ TextCounted
    /\ \A extra \in Nat : Tells(Yielded, extra, Open, Length, Done)
    /\ \A k \in DOMAIN Yielded : Yielded[k].type # "completed"

\* The response a stream ends with is the one its events tell of.
Whole(s) ==
    \A k \in DOMAIN s : s[k].type = "completed" =>
        /\ Len(output) = Cardinality(Of(s, k, "done"))
        /\ \A i \in Of(s, k, "done") : output[s[i].at + 1] = s[i].item
        /\ ~semantic /\ text.all > 0 => \E j \in Of(s, k, "text_done") : s[j].len = text.all

HasTold == FollowsProtocol(Yielded, Extra) /\ Whole(Yielded)

Telling ==
    /\ Alive => AliveFits
    /\ ~Alive => HasTold

-----------------------------------------------------------------------------
(* The events a step yields. *)

EventTypes ==
    {"created", "in_progress", "added", "part", "delta", "text_done", "part_done",
     "args_done", "done", "error", "failed", "completed"}

\* Events without their numbers, and those that do not end the stream.
Plain == [type : EventTypes, item : Nat, at : Nat, len : Nat]

Calm == [type : EventTypes \ {"completed", "failed"}, item : Nat, at : Nat, len : Nat]

LEMMA CalmIsPlain == Calm \subseteq Plain /\ Seq(Calm) \subseteq Seq(Plain)
  <1>1. Calm \subseteq Plain
    BY DEF Calm, Plain
  <1> QED  BY <1>1, SeqMonotonic

LEMMA CalmEnds ==
    ASSUME NEW es \in Seq(Calm), NEW i \in 1..Len(es) PROVE es[i].type \notin {"completed", "failed"}
  <1>1. es[i] \in Calm
    BY ElementOfSeq
  <1> QED  BY <1>1 DEF Calm

LEMMA EventIs ==
    ASSUME NEW type \in EventTypes, NEW item \in Nat, NEW at \in Nat, NEW len \in Nat
    PROVE  /\ Event(type, item, at) \in Plain /\ Text(type, item, at, len) \in Plain
           /\ type \notin {"completed", "failed"} =>
                 Event(type, item, at) \in Calm /\ Text(type, item, at, len) \in Calm
  BY DEF Event, Text, Plain, Calm

LEMMA IfIs ==
    ASSUME NEW c, NEW es \in Seq(Calm) PROVE If(c, es) \in Seq(Calm)
  BY DEF If

\* What the steps' events are made of.
LEMMA PartsAreCalm ==
    ASSUME NEW item \in Nat, NEW at \in Nat, NEW len \in Nat
    PROVE  /\ OpenMessage(item, at) \in Seq(Calm)
           /\ CloseMessage(item, at, len) \in Seq(Calm)
           /\ OpenCall(item, at) \in Seq(Calm)
           /\ CloseCall(item, at) \in Seq(Calm)
           /\ \A type \in {"created", "in_progress", "added", "delta", "done", "error"} :
                 /\ <<Event(type, item, at)>> \in Seq(Calm)
                 /\ <<Text(type, item, at, len)>> \in Seq(Calm)
  <1>1. \A type \in EventTypes \ {"completed", "failed"} :
            Event(type, item, at) \in Calm /\ Text(type, item, at, len) \in Calm
    BY EventIs
  <1>2. {"created", "in_progress", "added", "part", "delta", "text_done", "part_done", "args_done", "done", "error"}
            \subseteq EventTypes \ {"completed", "failed"}
    BY DEF EventTypes
  <1>3. OpenMessage(item, at) \in Seq(Calm) /\ OpenCall(item, at) \in Seq(Calm) /\ CloseCall(item, at) \in Seq(Calm)
    BY <1>1, <1>2 DEF OpenMessage, OpenCall, CloseCall
  <1>4. CloseMessage(item, at, len) \in Seq(Calm)
    BY <1>1, <1>2 DEF CloseMessage
  <1>5. \A type \in {"created", "in_progress", "added", "delta", "done", "error"} :
            <<Event(type, item, at)>> \in Seq(Calm) /\ <<Text(type, item, at, len)>> \in Seq(Calm)
    BY <1>1, <1>2
  <1> QED  BY <1>3, <1>4, <1>5

\* t is s, numbered.
Alike(t, s) ==
    /\ Len(t) = Len(s)
    /\ \A i \in 1..Len(s) : /\ t[i].type = s[i].type /\ t[i].item = s[i].item
                            /\ t[i].at = s[i].at /\ t[i].len = s[i].len

LEMMA NumberedIs ==
    ASSUME NEW es \in Seq(Plain), NEW from \in Nat
    PROVE  LET t == Numbered(es, from) IN
           /\ t \in Seq(Events) /\ Alike(t, es)
           /\ \A i \in 1..Len(es) : t[i].n = from + i - 1
  <1> DEFINE t == Numbered(es, from)
             e == [i \in 1..Len(es) |-> [type |-> es[i].type, item |-> es[i].item,
                                         at |-> es[i].at, len |-> es[i].len, n |-> from + i - 1]]
  <1>1. t = e
    BY LenProperties DEF Numbered
  <1>2. \A i \in 1..Len(es) : e[i] \in Events
    <2> TAKE i \in 1..Len(es)
    <2>1. es[i] \in Plain
      BY ElementOfSeq
    <2>2. /\ es[i].type \in EventTypes /\ es[i].item \in Nat /\ es[i].at \in Nat /\ es[i].len \in Nat
          /\ from + i - 1 \in Nat
      BY <2>1, LenProperties DEF Plain
    <2> QED  BY <2>2 DEF Events, EventTypes
  <1>3. /\ Len(es) \in Nat /\ e \in [1..Len(es) -> Events]
    BY <1>2, LenProperties, Zenon
  <1>4. \A i \in 1..Len(es) : /\ e[i].type = es[i].type /\ e[i].item = es[i].item
                              /\ e[i].at = es[i].at /\ e[i].len = es[i].len
                              /\ e[i].n = from + i - 1
    OBVIOUS
  <1> HIDE DEF e
  <1>5. e \in Seq(Events) /\ Len(e) = Len(es)
    BY <1>3
  <1> QED  BY <1>1, <1>4, <1>5 DEF Alike

-----------------------------------------------------------------------------
(* Types. *)

LEMMA YieldIs ==
    ASSUME TypeOK, NEW es \in Seq(Plain), Yield(es)
    PROVE  /\ queue = <<>> /\ queue' \in Seq(Events) /\ Alike(queue', es)
           /\ \A i \in 1..Len(es) : queue'[i].n = seq + i - 1
           /\ seq' = seq + Len(es) /\ Len(es) \in Nat /\ seq' \in Nat
           /\ UNCHANGED <<next, stored, sent>>
  <1>1. seq \in Nat
    BY DEF TypeOK
  <1>2. queue = <<>> /\ queue' = Numbered(es, seq) /\ seq' = seq + Len(es) /\ UNCHANGED <<next, stored, sent>>
    BY DEF Yield
  <1>3. Len(es) \in Nat
    BY LenProperties
  <1>4. /\ Numbered(es, seq) \in Seq(Events) /\ Alike(Numbered(es, seq), es)
        /\ \A i \in 1..Len(es) : Numbered(es, seq)[i].n = seq + i - 1
    BY <1>1, NumberedIs
  <1>5. seq + Len(es) \in Nat
    BY <1>1, <1>3
  <1> QED  BY <1>2, <1>3, <1>4, <1>5

LEMMA NewItemIs ==
    ASSUME NEW items \in Seq(Nat)
    PROVE  /\ IsFiniteSet({i \in DOMAIN items : items[i] # Reasoning})
           /\ Cardinality({i \in DOMAIN items : items[i] # Reasoning}) \in Nat
           /\ NewItem(items) \in Nat /\ NewItem(items) > Message
  <1>1. DOMAIN items = 1..Len(items) /\ Len(items) \in Nat
    BY LenProperties
  <1>2. IsFiniteSet(1..Len(items))
    BY <1>1, FS_Interval
  <1>3. IsFiniteSet({i \in DOMAIN items : items[i] # Reasoning})
    BY <1>1, <1>2, FS_Subset
  <1> QED  BY <1>3, FS_CardinalityType DEF NewItem, Item, Message

\* What closes the active item, given the types of what it reads.
LEMMA ActiveIs ==
    ASSUME TypeOK, NEW at \in Nat
    PROVE  /\ CloseActive(at) \in Seq(Calm)
           /\ active.item \in Nat /\ active.at \in Nat /\ active.len \in Nat
           /\ Append(output, active.item) \in Seq(Nat)
           /\ NewItem(output) \in Nat /\ NewItem(Append(output, active.item)) \in Nat
  <1>1. active.item \in Nat /\ active.len \in Nat /\ active.at \in Nat /\ output \in Seq(Nat)
    BY DEF TypeOK, Active
  <1>2. CloseMessage(active.item, at, active.len) \in Seq(Calm) /\ CloseCall(active.item, at) \in Seq(Calm)
    BY <1>1, PartsAreCalm
  <1>3. /\ If(active.kind = "message", CloseMessage(active.item, at, active.len)) \in Seq(Calm)
        /\ If(active.kind = "tool_call", CloseCall(active.item, at)) \in Seq(Calm)
    BY <1>2, IfIs
  <1>4. CloseActive(at) \in Seq(Calm)
    BY <1>3, ConcatProperties DEF CloseActive
  <1>5. Append(output, active.item) \in Seq(Nat)
    BY <1>1, AppendProperties
  <1> QED  BY <1>1, <1>4, <1>5, NewItemIs

\* A step yields events that end nothing, or some and then one that does.
Goes == \E es \in Seq(Calm) : Yield(es)

Finishes == \E es \in Seq(Calm), e \in Plain : Ends(e) /\ Yield(es \o <<e>>)

LEMMA ReasonGoes == ASSUME TypeOK, Prelude \/ Reason \/ CloseReasoning \/ FinishRaises PROVE Goes
  <1>1. index \in Nat /\ active.at \in Nat /\ chunk.reason \in BOOLEAN /\ reasoning \in BOOLEAN /\ textOpen \in BOOLEAN
    BY DEF TypeOK, Active, Chunk
  <1>2. CASE Prelude
    <2>1. <<Event("created", None, 0)>> \in Seq(Calm) /\ <<Event("in_progress", None, 0)>> \in Seq(Calm)
      BY PartsAreCalm DEF None
    <2>2. <<Event("created", None, 0), Event("in_progress", None, 0)>> \in Seq(Calm)
      BY <2>1
    <2> QED  BY <1>2, <2>2 DEF Prelude, Goes
  <1>3. CASE Reason
    <2>1. <<Event("added", Reasoning, index)>> \in Seq(Calm) /\ <<Event("delta", Reasoning, index)>> \in Seq(Calm)
      BY <1>1, PartsAreCalm DEF Reasoning
    <2>2. If(~reasoning, <<Event("added", Reasoning, index)>>) \o <<Event("delta", Reasoning, index)>> \in Seq(Calm)
      BY <1>1, <2>1, IfIs, ConcatProperties
    <2>3. If(chunk.reason, If(~reasoning, <<Event("added", Reasoning, index)>>)
                             \o <<Event("delta", Reasoning, index)>>) \in Seq(Calm)
      BY <1>1, <2>2, IfIs
    <2> QED  BY <1>3, <2>3 DEF Reason, Goes
  <1>4. ASSUME NEW at \in Nat, NEW c \in BOOLEAN PROVE If(c, <<Event("done", Reasoning, at)>>) \in Seq(Calm)
    BY PartsAreCalm, IfIs DEF Reasoning
  <1>5. CASE CloseReasoning
    <2>1. If(reasoning, <<Event("done", Reasoning, active.at)>>) \in Seq(Calm)
      BY <1>1, <1>4
    <2> QED  BY <1>5, <2>1 DEF CloseReasoning, Goes
  <1>6. CASE FinishRaises
    <2>1. If(reasoning /\ ~textOpen, <<Event("done", Reasoning, index)>>) \in Seq(Calm)
      BY <1>1, <1>4
    <2> QED  BY <1>6, <2>1 DEF FinishRaises, Goes
  <1> QED  BY <1>2, <1>3, <1>5, <1>6

LEMMA DeltaGoes == ASSUME TypeOK, ToolCallDelta \/ ContentDelta \/ TextDelta PROVE Goes
  <1>1. /\ index \in Nat /\ active.at \in Nat /\ active.item \in Nat /\ reasoning \in BOOLEAN
        /\ textOpen \in BOOLEAN /\ index + 1 \in Nat /\ active.at + 1 \in Nat /\ Message \in Nat /\ Reasoning \in Nat
    BY DEF TypeOK, Active, Message, Reasoning
  <1>2. \A at \in Nat : CloseActive(at) \in Seq(Calm)
    BY ActiveIs
  <1>3. NewItem(output) \in Nat /\ NewItem(Append(output, active.item)) \in Nat
    BY <1>1, ActiveIs
  <1>4. CASE ToolCallDelta
    <2> DEFINE d == Head(chunk.calls)
               goesOn == active.kind = "tool_call" /\ active.call = d.index
               closes == active.kind # "none" /\ ~goesOn
               at == IF closes THEN active.at + 1 ELSE active.at
               done == IF closes THEN Append(output, active.item) ELSE output
               item == IF goesOn THEN active.item ELSE NewItem(done)
               a == If(closes, CloseActive(active.at))
               b == If(~goesOn /\ d.named, OpenCall(item, at))
               c == If((goesOn \/ d.named) /\ d.args, <<Event("delta", item, at)>>)
    <2>1. at \in Nat /\ item \in Nat
      BY <1>1, <1>3
    <2>2. a \in Seq(Calm) /\ b \in Seq(Calm) /\ c \in Seq(Calm)
      <3> HIDE DEF at, item, goesOn, closes, d
      <3>1. a \in Seq(Calm)
        BY <1>1, <1>2, IfIs
      <3>2. OpenCall(item, at) \in Seq(Calm) /\ <<Event("delta", item, at)>> \in Seq(Calm)
        BY <2>1, PartsAreCalm
      <3> QED  BY <3>1, <3>2, IfIs
    <2>3. Yield(a \o b \o c)
      BY <1>4 DEF ToolCallDelta
    <2> HIDE DEF a, b, c
    <2> QED  BY <2>2, <2>3, ConcatProperties DEF Goes
  <1>5. CASE ContentDelta
    <2> DEFINE goesOn == active.kind = "message"
               closes == active.kind = "tool_call"
               at == IF closes THEN active.at + 1 ELSE active.at
               done == IF closes THEN Append(output, active.item) ELSE output
               item == IF goesOn THEN active.item ELSE NewItem(done)
               a == If(closes, CloseActive(active.at))
               b == If(~goesOn, OpenMessage(item, at))
               c == <<Text("delta", item, at, 1)>>
    <2>1. at \in Nat /\ item \in Nat
      BY <1>1, <1>3
    <2>2. a \in Seq(Calm) /\ b \in Seq(Calm) /\ c \in Seq(Calm)
      <3> HIDE DEF at, item, goesOn, closes
      <3>1. a \in Seq(Calm)
        BY <1>1, <1>2, IfIs
      <3>2. OpenMessage(item, at) \in Seq(Calm) /\ <<Text("delta", item, at, 1)>> \in Seq(Calm)
        BY <2>1, PartsAreCalm
      <3> QED  BY <3>1, <3>2, IfIs
    <2>3. Yield(a \o b \o c)
      BY <1>5 DEF ContentDelta
    <2> HIDE DEF a, b, c
    <2> QED  BY <2>2, <2>3, ConcatProperties DEF Goes
  <1>6. CASE TextDelta
    <2> DEFINE delta == chunk.text # "none" /\ kind = "text"
               opens == delta /\ ~textOpen
               at == IF opens /\ reasoning THEN index + 1 ELSE index
               a == If(opens /\ reasoning, <<Event("done", Reasoning, index)>>)
               b == If(opens, OpenMessage(Message, at))
               c == If(delta, <<Text("delta", Message, at, 1)>>)
    <2>1. at \in Nat
      BY <1>1
    <2>2. a \in Seq(Calm) /\ b \in Seq(Calm) /\ c \in Seq(Calm)
      <3> HIDE DEF at, delta, opens
      <3>1. /\ <<Event("done", Reasoning, index)>> \in Seq(Calm)
            /\ OpenMessage(Message, at) \in Seq(Calm) /\ <<Text("delta", Message, at, 1)>> \in Seq(Calm)
        BY <1>1, <2>1, PartsAreCalm
      <3> QED  BY <3>1, IfIs
    <2>3. Yield(a \o b \o c)
      BY <1>6 DEF TextDelta
    <2> HIDE DEF a, b, c
    <2> QED  BY <2>2, <2>3, ConcatProperties DEF Goes
  <1> QED  BY <1>4, <1>5, <1>6

LEMMA EndFinishes == ASSUME TypeOK, EngineFails \/ FinishSemantic \/ FinishText PROVE Finishes
  <1>1. /\ index \in Nat /\ active.at \in Nat /\ reasoning \in BOOLEAN
        /\ textOpen \in BOOLEAN /\ index + 1 \in Nat /\ active.at + 1 \in Nat /\ Message \in Nat /\ Reasoning \in Nat
        /\ text.all \in Nat /\ text.streamed \in Nat
    BY DEF TypeOK, Active, Message, Reasoning
  <1>2. Event("completed", None, 0) \in Plain /\ Ends(Event("completed", None, 0))
    BY EventIs DEF None, EventTypes, Ends, Event
  <1>3. CASE EngineFails
    <2>1. <<Event("error", None, 0)>> \in Seq(Calm)
      BY PartsAreCalm DEF None
    <2>2. Event("failed", None, 0) \in Plain /\ Ends(Event("failed", None, 0))
      BY EventIs DEF None, EventTypes, Ends, Event
    <2>3. Failure = <<Event("error", None, 0)>> \o <<Event("failed", None, 0)>>
      BY DEF Failure
    <2> QED  BY <1>3, <2>1, <2>2, <2>3 DEF EngineFails, Finishes
  <1>4. CASE FinishSemantic
    <2> DEFINE at == IF reasoning THEN active.at + 1 ELSE active.at
               a == If(reasoning, <<Event("done", Reasoning, active.at)>>)
               b == CloseActive(at)
    <2>1. at \in Nat
      BY <1>1
    <2>2. a \in Seq(Calm) /\ b \in Seq(Calm)
      <3> HIDE DEF at
      <3> QED  BY <1>1, <2>1, PartsAreCalm, IfIs, ActiveIs
    <2>3. Yield(a \o b \o <<Event("completed", None, 0)>>)
      BY <1>4 DEF FinishSemantic
    <2> HIDE DEF a, b
    <2>4. a \o b \in Seq(Calm)
      BY <2>2, ConcatProperties
    <2> QED  BY <1>2, <2>3, <2>4 DEF Finishes
  <1>5. CASE FinishText
    <2> DEFINE closes == reasoning /\ ~textOpen
               at == IF closes THEN index + 1 ELSE index
               says == Deferred /\ ~textOpen
               a == If(closes, <<Event("done", Reasoning, index)>>)
               b == If(says, OpenMessage(Message, at) \o <<Text("delta", Message, at, text.all)>>)
               c == If(textOpen \/ says, CloseMessage(Message, at, text.all))
    <2>1. at \in Nat /\ says \in BOOLEAN
      BY <1>1 DEF Deferred
    <2>2. OpenMessage(Message, at) \o <<Text("delta", Message, at, text.all)>> \in Seq(Calm)
      BY <1>1, <2>1, PartsAreCalm, ConcatProperties
    <2>3. a \in Seq(Calm) /\ b \in Seq(Calm) /\ c \in Seq(Calm)
      <3> HIDE DEF at, says
      <3> QED  BY <1>1, <2>1, <2>2, PartsAreCalm, IfIs
    <2>4. Yield(a \o b \o c \o <<Event("completed", None, 0)>>)
      BY <1>5 DEF FinishText
    <2> HIDE DEF a, b, c
    <2>5. a \o b \o c \in Seq(Calm)
      BY <2>3, ConcatProperties
    <2> QED  BY <1>2, <2>4, <2>5 DEF Finishes
  <1> QED  BY <1>3, <1>4, <1>5

LEMMA GoesIs ==
    ASSUME TypeOK, Goes
    PROVE  /\ queue = <<>> /\ queue' \in Seq(Events) /\ sent \in Seq(Events)
           /\ seq' = seq + Len(queue') /\ seq' \in Nat /\ UNCHANGED <<next, stored, sent>>
           /\ \A i \in 1..Len(queue') : queue'[i].n = seq + i - 1 /\ ~Ends(queue'[i])
  <1>1. PICK es \in Seq(Calm) : Yield(es)
    BY DEF Goes
  <1>2. es \in Seq(Plain) /\ \A i \in 1..Len(es) : es[i].type \notin {"completed", "failed"}
    BY CalmIsPlain, CalmEnds
  <1>3. /\ queue = <<>> /\ queue' \in Seq(Events) /\ Alike(queue', es)
        /\ \A i \in 1..Len(es) : queue'[i].n = seq + i - 1
        /\ seq' = seq + Len(es) /\ Len(es) \in Nat /\ seq' \in Nat
        /\ UNCHANGED <<next, stored, sent>>
    BY <1>1, <1>2, YieldIs
  <1> QED  BY <1>2, <1>3 DEF Alike, Ends, TypeOK

LEMMA FinishesIs ==
    ASSUME TypeOK, Finishes
    PROVE  /\ queue = <<>> /\ queue' \in Seq(Events) /\ sent \in Seq(Events) /\ Len(queue') > 0
           /\ seq' = seq + Len(queue') /\ seq' \in Nat /\ UNCHANGED <<next, stored, sent>>
           /\ \A i \in 1..Len(queue') : queue'[i].n = seq + i - 1 /\ (Ends(queue'[i]) <=> i = Len(queue'))
  <1>1. PICK cs \in Seq(Calm), e \in Plain : Ends(e) /\ Yield(cs \o <<e>>)
    BY DEF Finishes
  <1> DEFINE es == cs \o <<e>>
  <1>2. /\ cs \in Seq(Plain) /\ <<e>> \in Seq(Plain)
        /\ \A i \in 1..Len(cs) : cs[i].type \notin {"completed", "failed"}
    BY CalmIsPlain, CalmEnds
  <1>3. /\ es \in Seq(Plain) /\ Len(es) = Len(cs) + 1 /\ Len(cs) \in Nat
        /\ \A i \in 1..Len(es) : es[i] = IF i <= Len(cs) THEN cs[i] ELSE e
    BY <1>2, ConcatProperties, LenProperties
  <1>4. Yield(es)
    BY <1>1
  <1> HIDE DEF es
  <1>5. /\ queue = <<>> /\ queue' \in Seq(Events) /\ Alike(queue', es)
        /\ \A i \in 1..Len(es) : queue'[i].n = seq + i - 1
        /\ seq' = seq + Len(es) /\ Len(es) \in Nat /\ seq' \in Nat
        /\ UNCHANGED <<next, stored, sent>>
    BY <1>3, <1>4, YieldIs
  <1>6. \A i \in 1..Len(es) : es[i].type \in {"completed", "failed"} <=> i = Len(es)
    BY <1>1, <1>2, <1>3 DEF Ends
  <1>7. /\ Len(queue') = Len(es) /\ Len(es) > 0
        /\ \A i \in 1..Len(es) : queue'[i].type = es[i].type
    BY <1>3, <1>5 DEF Alike
  <1>8. \A i \in 1..Len(queue') : queue'[i].n = seq + i - 1 /\ (Ends(queue'[i]) <=> i = Len(queue'))
    BY <1>5, <1>6, <1>7 DEF Ends
  <1> QED  BY <1>5, <1>7, <1>8 DEF TypeOK

\* A step that yields, passes on and stores nothing.
Silent ==
    /\ UNCHANGED <<seq, queue, next, stored, sent>>
    /\ \/ pc' = pc \/ (Alive /\ Alive') \/ (pc = "start" /\ pc' = "raised")
       \/ queue = <<>> /\ pc = "raised" /\ pc' = "gone"
       \/ queue = <<>> /\ pc \in {"ended", "failing"} /\ pc' = "over"

\* What a step does to the events and to what is stored.
LEMMA Steps ==
    ASSUME TypeOK, [Next]_vars
    PROVE  \/ Silent
           \/ Alive /\ Goes /\ (Alive' \/ pc' = "raised")
           \/ Alive /\ Finishes /\ pc' = "ended"
           \/ Pass \/ StoreFails \/ Fail \/ Disconnect
  <1>1. CASE Prelude \/ Reason \/ CloseReasoning \/ FinishRaises
    BY <1>1, ReasonGoes DEF Prelude, Reason, CloseReasoning, FinishRaises, Alive
  <1>2. CASE ToolCallDelta \/ ContentDelta \/ TextDelta
    BY <1>2, DeltaGoes DEF ToolCallDelta, ContentDelta, TextDelta, Alive
  <1>3. CASE EngineFails \/ FinishSemantic \/ FinishText
    BY <1>3, EndFinishes DEF EngineFails, FinishSemantic, FinishText, Alive
  <1>4. CASE NotStarted \/ EngineEnds \/ Update \/ NoMoreCalls \/ \E c \in Chunks : Receive(c)
    BY <1>4 DEF NotStarted, EngineEnds, Update, NoMoreCalls, Receive, Alive, Silent
  <1>5. CASE FailFails \/ End
    BY <1>5 DEF FailFails, End, Silent
  <1>6. CASE UNCHANGED vars
    BY <1>6 DEF vars, Silent
  <1> QED  BY <1>1, <1>2, <1>3, <1>4, <1>5, <1>6 DEF Next

\* The first of the events on their way.
LEMMA HeadIs ==
    ASSUME TypeOK, queue # <<>>
    PROVE  /\ sent \in Seq(Events) /\ Tail(queue) \in Seq(Events) /\ Head(queue) \in Events
           /\ Append(sent, Head(queue)) \in Seq(Events)
           /\ Append(sent, Head(queue)) \o Tail(queue) = Yielded
           /\ Yielded \in Seq(Events) /\ Yielded[Len(sent) + 1] = Head(queue)
           /\ Len(sent) \in Nat /\ Len(Yielded) = Len(sent) + Len(queue)
           /\ Len(Append(sent, Head(queue))) = Len(sent) + 1
           /\ Len(Tail(queue)) = Len(queue) - 1 /\ Len(queue) \in Nat \ {0}
  <1>1. sent \in Seq(Events) /\ queue \in Seq(Events)
    BY DEF TypeOK
  <1>2. /\ Head(queue) \in Events /\ Tail(queue) \in Seq(Events) /\ Len(Tail(queue)) = Len(queue) - 1
        /\ \A i \in 1..Len(Tail(queue)) : Tail(queue)[i] = queue[i + 1]
        /\ Head(queue) = queue[1] /\ Len(queue) \in Nat \ {0} /\ Len(sent) \in Nat
    BY <1>1, HeadTailProperties, LenProperties, EmptySeq
  <1> DEFINE s == Append(sent, Head(queue))
             q == Tail(queue)
  <1>3. /\ s \in Seq(Events) /\ Len(s) = Len(sent) + 1 /\ s[Len(sent) + 1] = Head(queue)
        /\ \A i \in 1..Len(sent) : s[i] = sent[i]
    BY <1>1, <1>2, AppendProperties
  <1>4. q \in Seq(Events) /\ Len(q) = Len(queue) - 1 /\ \A i \in 1..Len(q) : q[i] = queue[i + 1]
    BY <1>2
  <1> HIDE DEF s, q
  <1>5. /\ s \o q \in Seq(Events) /\ Len(s \o q) = Len(s) + Len(q)
        /\ \A i \in 1..(Len(s) + Len(q)) : (s \o q)[i] = IF i <= Len(s) THEN s[i] ELSE q[i - Len(s)]
    BY <1>3, <1>4, ConcatProperties
  <1>6. /\ sent \o queue \in Seq(Events) /\ Len(sent \o queue) = Len(sent) + Len(queue)
        /\ \A i \in 1..(Len(sent) + Len(queue)) : (sent \o queue)[i] = IF i <= Len(sent) THEN sent[i] ELSE queue[i - Len(sent)]
    BY <1>1, ConcatProperties
  <1>7. Len(s \o q) = Len(sent \o queue)
    BY <1>2, <1>3, <1>4, <1>5, <1>6
  <1>8. ASSUME NEW i \in 1..Len(s \o q) PROVE (s \o q)[i] = (sent \o queue)[i]
    <2>1. i <= Len(sent) \/ i = Len(sent) + 1 \/ i > Len(sent) + 1
      <3>1. i \in Nat /\ Len(sent) \in Nat
        BY <1>2, <1>5
      <3> QED  BY <3>1
    <2>2. CASE i <= Len(sent)
      BY <1>2, <1>3, <1>4, <1>5, <1>6, <2>2
    <2>3. CASE i = Len(sent) + 1
      BY <1>2, <1>3, <1>4, <1>5, <1>6, <2>3
    <2>4. CASE i > Len(sent) + 1
      <3>1. i - Len(s) \in 1..Len(q) /\ (s \o q)[i] = q[i - Len(s)] /\ i - Len(s) + 1 = i - Len(sent)
        BY <1>2, <1>3, <1>4, <1>5, <2>4
      <3>2. (sent \o queue)[i] = queue[i - Len(sent)]
        BY <1>2, <1>5, <1>6, <1>7, <2>4
      <3> QED  BY <1>4, <3>1, <3>2
    <2> QED  BY <2>1, <2>2, <2>3, <2>4, Zenon
  <1>9. s \o q = sent \o queue
    BY <1>5, <1>6, <1>7, <1>8, SeqEqual
  <1>10. Yielded[Len(sent) + 1] = Head(queue)
    BY <1>2, <1>6 DEF Yielded
  <1> QED  BY <1>1, <1>2, <1>3, <1>6, <1>9, <1>10 DEF Yielded, s, q

\* The use case's part of the state.
PassTypes ==
    /\ seq \in Nat /\ next \in Nat
    /\ queue \in Seq(Events) /\ sent \in Seq(Events)
    /\ stored \in {"none", "in_progress", "completed", "failed"}

LEMMA PassKeepsTypes == ASSUME TypeOK, [Next]_vars PROVE PassTypes'
  <1>1. PassTypes
    BY DEF TypeOK, PassTypes
  <1>2. CASE Silent
    BY <1>1, <1>2 DEF PassTypes, Silent
  <1>3. CASE Goes \/ Finishes
    <2>1. seq' \in Nat /\ queue' \in Seq(Events) /\ UNCHANGED <<next, stored, sent>>
      BY <1>3, GoesIs, FinishesIs
    <2> QED  BY <1>1, <2>1 DEF PassTypes
  <1>4. CASE Pass
    <2>1. queue # <<>> /\ sent' = Append(sent, Head(queue)) /\ queue' = Tail(queue) /\ next' = Head(queue).n + 1
      BY <1>4 DEF Pass
    <2>2. Head(queue) \in Events /\ Append(sent, Head(queue)) \in Seq(Events) /\ Tail(queue) \in Seq(Events)
      BY <2>1, HeadIs
    <2>3. Head(queue).n + 1 \in Nat
      BY <2>2, SMTT(40) DEF Events
    <2>4. stored' \in {"none", "in_progress", "completed", "failed"} /\ seq' = seq
      BY <1>1, <1>4 DEF Pass, PassTypes, StatusOf
    <2> QED  BY <1>1, <2>1, <2>2, <2>3, <2>4 DEF PassTypes
  <1>5. CASE StoreFails
    <2>1. queue # <<>> /\ queue' = <<>> /\ next' = Head(queue).n + 1 /\ UNCHANGED <<seq, stored, sent>>
      BY <1>5 DEF StoreFails
    <2>2. Head(queue) \in Events
      BY <2>1, HeadIs
    <2>3. Head(queue).n + 1 \in Nat
      BY <2>2 DEF Events
    <2> QED  BY <1>1, <2>1, <2>3 DEF PassTypes
  <1>6. CASE Fail
    <2>1. <<Event("error", None, 0), Event("failed", None, 0)>> \in Seq(Plain)
      <3>1. Event("error", None, 0) \in Plain /\ Event("failed", None, 0) \in Plain
        BY EventIs DEF EventTypes, None
      <3> QED  BY <3>1
    <2>2. Numbered(Failure, next) \in Seq(Events)
      BY <1>1, <2>1, NumberedIs DEF PassTypes, Failure
    <2> QED  BY <1>1, <1>6, <2>2 DEF Fail, PassTypes
  <1>7. CASE Disconnect
    BY <1>1, <1>7 DEF Disconnect, PassTypes
  <1> QED  BY <1>2, <1>3, <1>4, <1>5, <1>6, <1>7, Steps

\* The generator's.
ChunkTypes ==
    /\ mode \in {"plain", "tools", "parser"}
    /\ pc \in {"start", "next", "reason", "update", "close", "calls", "content", "text",
               "finish", "failing", "ended", "raised", "over", "gone"}
    /\ chunk \in Chunk /\ said \in 0..MaxChunks
    /\ text \in [all : Nat, streamed : Nat]
    /\ kind \in {"undecided", "text", "tool_calls"}

ItemTypes ==
    /\ reasoning \in BOOLEAN /\ textOpen \in BOOLEAN /\ semantic \in BOOLEAN
    /\ index \in Nat /\ active \in Active
    /\ output \in Seq(Nat)

LEMMA TypesAre == TypeOK <=> PassTypes /\ ChunkTypes /\ ItemTypes
  BY DEF TypeOK, PassTypes, ChunkTypes, ItemTypes

LEMMA ChunkKeepsTypes == ASSUME TypeOK, [Next]_vars PROVE ChunkTypes'
  <1>1. ChunkTypes
    BY TypesAre
  <1>2. CASE ToolCallDelta
    <2>1. chunk' = [chunk EXCEPT !.calls = Tail(@)] /\ chunk.calls # <<>>
          /\ UNCHANGED <<mode, pc, said, text, kind>>
      BY <1>2 DEF ToolCallDelta
    <2>2. chunk.calls \in Seq(Call) /\ chunk \in Chunk
      BY <1>1 DEF ChunkTypes, Chunk
    <2>3. Tail(chunk.calls) \in Seq(Call)
      BY <2>1, <2>2, HeadTailProperties
    <2>4. chunk' \in Chunk
      BY <2>1, <2>2, <2>3 DEF Chunk
    <2> QED  BY <1>1, <2>1, <2>4 DEF ChunkTypes
  <1>3. CASE Update
    <2>1. text' \in [all : Nat, streamed : Nat]
      BY <1>1, <1>3 DEF Update, ChunkTypes
    <2>2. kind' \in {"undecided", "text", "tool_calls"}
      BY <1>1, <1>3 DEF Update, ChunkTypes, Decided
    <2> QED  BY <1>1, <1>3, <2>1, <2>2 DEF Update, ChunkTypes
  <1>4. ASSUME NEW c \in Chunks, Receive(c) PROVE ChunkTypes'
    BY <1>1, <1>4, ResponseStreamAssumption DEF Receive, ChunkTypes
  <1>5. CASE Prelude \/ NotStarted \/ EngineFails \/ EngineEnds \/ Reason
    BY <1>1, <1>5 DEF Prelude, NotStarted, EngineFails, EngineEnds, Reason, ChunkTypes
  <1>6. CASE CloseReasoning \/ NoMoreCalls \/ ContentDelta \/ TextDelta
    BY <1>1, <1>6 DEF CloseReasoning, NoMoreCalls, ContentDelta, TextDelta, ChunkTypes
  <1>7. CASE FinishSemantic \/ FinishText \/ FinishRaises
    BY <1>1, <1>7 DEF FinishSemantic, FinishText, FinishRaises, ChunkTypes
  <1>8. CASE Pass \/ StoreFails \/ Fail \/ FailFails \/ End \/ Disconnect
    BY <1>1, <1>8 DEF Pass, StoreFails, Fail, FailFails, End, Disconnect, ChunkTypes
  <1>9. CASE UNCHANGED vars
    BY <1>1, <1>9 DEF vars, ChunkTypes
  <1> QED  BY <1>2, <1>3, <1>4, <1>5, <1>6, <1>7, <1>8, <1>9 DEF Next

LEMMA ItemKeepsTypes == ASSUME TypeOK, [Next]_vars PROVE ItemTypes'
  <1>1. ItemTypes /\ ChunkTypes
    BY TypesAre
  <1>2. /\ index + 1 \in Nat /\ active.item \in Nat /\ active.at \in Nat /\ active.at + 1 \in Nat /\ active.len + 1 \in Nat
        /\ NewItem(output) \in Nat /\ NewItem(Append(output, active.item)) \in Nat
        /\ Append(output, active.item) \in Seq(Nat) /\ Append(output, Reasoning) \in Seq(Nat) /\ Reasoning \in Nat /\ Message \in Nat
    <2>1. index \in Nat /\ output \in Seq(Nat) /\ active \in Active /\ Reasoning \in Nat /\ Message \in Nat
      BY <1>1 DEF ItemTypes, Reasoning, Message
    <2>2. active.item \in Nat /\ active.at \in Nat /\ active.len \in Nat
      BY <2>1 DEF Active
    <2>3. Append(output, Reasoning) \in Seq(Nat)
      BY <2>1, AppendProperties
    <2>4. /\ NewItem(output) \in Nat /\ NewItem(Append(output, active.item)) \in Nat
          /\ Append(output, active.item) \in Seq(Nat)
      BY ActiveIs
    <2> QED  BY <2>1, <2>2, <2>3, <2>4
  <1>3. \A at \in Nat : NoItem(at) \in Active
    BY DEF NoItem, Active, None
  <1>4. CASE ToolCallDelta
    <2>1. Head(chunk.calls).index \in Int
      <3>1. chunk.calls \in Seq(Call) /\ chunk.calls # <<>>
        BY <1>1, <1>4 DEF ToolCallDelta, ChunkTypes, Chunk
      <3>2. Head(chunk.calls) \in Call
        BY <3>1, HeadTailProperties
      <3> QED  BY <3>2 DEF Call
    <2>2. ASSUME NEW at \in Nat, NEW item \in Nat
          PROVE  [NoItem(at) EXCEPT !.kind = "tool_call", !.item = item, !.call = Head(chunk.calls).index] \in Active
      BY <2>1 DEF NoItem, Active
    <2>3. active' \in Active
      <3> DEFINE d == Head(chunk.calls)
                 goesOn == active.kind = "tool_call" /\ active.call = d.index
                 closes == active.kind # "none" /\ ~goesOn
                 at == IF closes THEN active.at + 1 ELSE active.at
                 done == IF closes THEN Append(output, active.item) ELSE output
                 item == IF goesOn THEN active.item ELSE NewItem(done)
      <3>1. at \in Nat /\ item \in Nat /\ active \in Active
        BY <1>1, <1>2 DEF ItemTypes
      <3>2. active' = IF goesOn THEN active
                      ELSE IF d.named
                        THEN [NoItem(at) EXCEPT !.kind = "tool_call", !.item = item, !.call = d.index]
                        ELSE NoItem(at)
        BY <1>4 DEF ToolCallDelta
      <3> HIDE DEF at, item
      <3> QED  BY <1>3, <2>2, <3>1, <3>2
    <2>4. output' \in Seq(Nat) /\ UNCHANGED <<reasoning, textOpen, index, semantic>>
      BY <1>1, <1>2, <1>4 DEF ToolCallDelta, ItemTypes
    <2> QED  BY <1>1, <2>3, <2>4 DEF ItemTypes
  <1>5. CASE ContentDelta
    <2>1. ASSUME NEW r \in Active, NEW item \in Nat, NEW len \in Nat
          PROVE  [r EXCEPT !.kind = "message", !.item = item, !.len = len] \in Active
      BY DEF Active
    <2>2. active' \in Active
      <3> DEFINE goesOn == active.kind = "message"
                 closes == active.kind = "tool_call"
                 at == IF closes THEN active.at + 1 ELSE active.at
                 done == IF closes THEN Append(output, active.item) ELSE output
                 item == IF goesOn THEN active.item ELSE NewItem(done)
                 len == IF goesOn THEN active.len + 1 ELSE 1
      <3>1. at \in Nat /\ item \in Nat /\ len \in Nat
        BY <1>2
      <3>2. active' = [NoItem(at) EXCEPT !.kind = "message", !.item = item, !.len = len]
        BY <1>5 DEF ContentDelta
      <3> HIDE DEF at, item, len
      <3> QED  BY <1>3, <2>1, <3>1, <3>2
    <2>3. output' \in Seq(Nat) /\ UNCHANGED <<reasoning, textOpen, index, semantic>>
      BY <1>1, <1>2, <1>5 DEF ContentDelta, ItemTypes
    <2> QED  BY <1>1, <2>2, <2>3 DEF ItemTypes
  <1>6. CASE CloseReasoning
    <2>1. [active EXCEPT !.at = @ + 1] \in Active
      BY <1>1, <1>2 DEF ItemTypes, Active
    <2> QED  BY <1>1, <1>2, <1>6, <2>1 DEF CloseReasoning, ItemTypes
  <1>7. CASE FinishSemantic
    <2>1. If(reasoning, <<Reasoning>>) \in Seq(Nat) /\ If(active.kind # "none", <<active.item>>) \in Seq(Nat)
      BY <1>2 DEF If
    <2>2. output' \in Seq(Nat)
      BY <1>1, <1>7, <2>1, ConcatProperties DEF FinishSemantic, ItemTypes
    <2> QED  BY <1>1, <1>7, <2>2 DEF FinishSemantic, ItemTypes
  <1>8. CASE FinishText
    <2>1. If(reasoning, <<Reasoning>>) \in Seq(Nat) /\ If(textOpen \/ Deferred, <<Message>>) \in Seq(Nat)
      BY <1>2 DEF If
    <2>2. output' \in Seq(Nat)
      BY <1>1, <1>8, <2>1, ConcatProperties DEF FinishText, OutputOfText, ItemTypes
    <2> QED  BY <1>1, <1>2, <1>8, <2>2 DEF FinishText, ItemTypes
  <1>9. CASE Reason \/ TextDelta \/ FinishRaises
    BY <1>1, <1>2, <1>9 DEF Reason, TextDelta, FinishRaises, ItemTypes, ChunkTypes, Chunk
  <1>10. CASE Prelude \/ NotStarted \/ EngineFails \/ EngineEnds \/ Update \/ NoMoreCalls \/ \E c \in Chunks : Receive(c)
    BY <1>1, <1>10 DEF Prelude, NotStarted, EngineFails, EngineEnds, Update, NoMoreCalls, Receive, ItemTypes, itemVars
  <1>11. CASE Pass \/ StoreFails \/ Fail \/ FailFails \/ End \/ Disconnect
    BY <1>1, <1>11 DEF Pass, StoreFails, Fail, FailFails, End, Disconnect, ItemTypes, itemVars
  <1>12. CASE UNCHANGED vars
    BY <1>1, <1>12 DEF vars, ItemTypes
  <1> QED  BY <1>4, <1>5, <1>6, <1>7, <1>8, <1>9, <1>10, <1>11, <1>12 DEF Next

LEMMA NextTypes == ASSUME TypeOK, [Next]_vars PROVE TypeOK'
  <1>1. (PassTypes /\ ChunkTypes /\ ItemTypes)'
    BY PassKeepsTypes, ChunkKeepsTypes, ItemKeepsTypes
  <1> QED  BY <1>1 DEF TypeOK, PassTypes, ChunkTypes, ItemTypes

LEMMA InitTypes == ASSUME Init PROVE TypeOK
  <1>1. Nothing \in Chunk
    BY DEF Nothing, Chunk
  <1>2. NoItem(0) \in Active
    BY DEF NoItem, Active, None
  <1>3. 0 \in 0..MaxChunks
    BY ResponseStreamAssumption
  <1>4. <<>> \in Seq(Nat) /\ <<>> \in Seq(Events)
    OBVIOUS
  <1>5. PassTypes
    BY <1>4 DEF Init, PassTypes
  <1>6. ChunkTypes
    BY <1>1, <1>3 DEF Init, ChunkTypes
  <1>7. ItemTypes
    BY <1>2, <1>4 DEF Init, ItemTypes
  <1> QED  BY <1>5, <1>6, <1>7, TypesAre

-----------------------------------------------------------------------------
(* Who is told that the response has ended finds it stored so. *)

LEMMA JoinedIs ==
    ASSUME NEW s \in Seq(Events), NEW q \in Seq(Events)
    PROVE  /\ s \o q \in Seq(Events) /\ Len(s) \in Nat /\ Len(q) \in Nat /\ Len(s \o q) = Len(s) + Len(q)
           /\ DOMAIN s = 1..Len(s) /\ DOMAIN (s \o q) = 1..(Len(s) + Len(q))
           /\ \A i \in 1..Len(s) : (s \o q)[i] = s[i]
           /\ \A i \in 1..Len(q) : (s \o q)[Len(s) + i] = q[i]
           /\ \A i \in 1..(Len(s) + Len(q)) : i \in 1..Len(s) \/ \E j \in 1..Len(q) : i = Len(s) + j
           /\ s \o <<>> = s
           /\ q = <<>> <=> Len(q) = 0
  <1>1. Len(s) \in Nat /\ Len(q) \in Nat /\ DOMAIN s = 1..Len(s)
    BY LenProperties
  <1>2. /\ s \o q \in Seq(Events) /\ Len(s \o q) = Len(s) + Len(q)
        /\ \A i \in 1..(Len(s) + Len(q)) : (s \o q)[i] = IF i <= Len(s) THEN s[i] ELSE q[i - Len(s)]
    BY ConcatProperties
  <1>3. \A i \in 1..Len(s) : (s \o q)[i] = s[i]
    BY <1>1, <1>2
  <1>4. \A i \in 1..Len(q) : (s \o q)[Len(s) + i] = q[i]
    <2> TAKE i \in 1..Len(q)
    <2>1. Len(s) + i \in 1..(Len(s) + Len(q)) /\ ~(Len(s) + i <= Len(s)) /\ Len(s) + i - Len(s) = i
      BY <1>1
    <2> QED  BY <1>2, <2>1
  <1>5. \A i \in 1..(Len(s) + Len(q)) : i \in 1..Len(s) \/ \E j \in 1..Len(q) : i = Len(s) + j
    <2> TAKE i \in 1..(Len(s) + Len(q))
    <2>1. i \in 1..Len(s) \/ (i - Len(s) \in 1..Len(q) /\ i = Len(s) + (i - Len(s)))
      BY <1>1
    <2> QED  BY <2>1
  <1>6. DOMAIN (s \o q) = 1..(Len(s) + Len(q)) /\ s \o <<>> = s
    BY <1>2, LenProperties, ConcatEmptySeq
  <1>7. q = <<>> <=> Len(q) = 0
    BY EmptySeq
  <1> QED  BY <1>1, <1>2, <1>3, <1>4, <1>5, <1>6, <1>7

LEMMA EndGoes ==
    ASSUME TypeOK, EndStored, Alive, Goes, Alive' \/ pc' = "raised" PROVE EndStored'
  <1>1. /\ queue = <<>> /\ queue' \in Seq(Events) /\ sent \in Seq(Events)
        /\ UNCHANGED <<next, stored, sent>> /\ \A i \in 1..Len(queue') : ~Ends(queue'[i])
    BY GoesIs
  <1>2. NoEnd /\ stored = "none" /\ Yielded = sent
    BY <1>1, JoinedIs DEF EndStored, Yielded
  <1>3. \A i \in 1..Len(sent) : ~Ends(sent[i])
    BY <1>1, <1>2, JoinedIs DEF NoEnd
  <1>4. NoEnd'
    BY <1>1, <1>3, JoinedIs, SMTT(40) DEF NoEnd, Yielded
  <1>5. EndIsLast'
    BY <1>4 DEF NoEnd, EndIsLast
  <1>6. \A k \in DOMAIN sent' : Ends(sent'[k]) => stored' = sent'[k].type
    BY <1>1, <1>3, JoinedIs
  <1> QED  BY <1>1, <1>2, <1>4, <1>5, <1>6 DEF EndStored, Alive

LEMMA EndFinishesIt ==
    ASSUME TypeOK, EndStored, Alive, Finishes, pc' = "ended" PROVE EndStored'
  <1>1. /\ queue = <<>> /\ queue' \in Seq(Events) /\ sent \in Seq(Events) /\ Len(queue') > 0
        /\ UNCHANGED <<next, stored, sent>> /\ \A i \in 1..Len(queue') : Ends(queue'[i]) <=> i = Len(queue')
    BY FinishesIs
  <1>2. NoEnd /\ stored = "none" /\ Yielded = sent
    BY <1>1, JoinedIs DEF EndStored, Yielded
  <1>3. \A i \in 1..Len(sent) : ~Ends(sent[i])
    BY <1>1, <1>2, JoinedIs DEF NoEnd
  <1>4. /\ Yielded' = sent \o queue' /\ Len(queue') \in Nat /\ Len(sent) \in Nat /\ Len(Yielded') = Len(sent) + Len(queue')
        /\ Yielded' # <<>> /\ Yielded'[Len(Yielded')] = queue'[Len(queue')] /\ Ends(queue'[Len(queue')])
    <2>1. Yielded' = sent \o queue'
      BY <1>1 DEF Yielded
    <2>2. /\ Len(queue') \in Nat /\ Len(queue') \in 1..Len(queue') /\ Len(sent) \in Nat
          /\ Len(Yielded') = Len(sent) + Len(queue')
      BY <1>1, <2>1, JoinedIs
    <2>3. Yielded' # <<>>
      BY <1>1, <2>2, EmptySeq
    <2> QED  BY <1>1, <2>1, <2>2, <2>3, JoinedIs
  <1>5. EndIsLast'
    <2> SUFFICES ASSUME NEW k \in DOMAIN Yielded', Ends(Yielded'[k]) PROVE k = Len(Yielded')
      BY DEF EndIsLast
    <2>1. k \in 1..(Len(sent) + Len(queue'))
      BY <1>1, <1>4, JoinedIs
    <2>2. CASE k \in 1..Len(sent)
      BY <1>1, <1>3, <1>4, <2>2, JoinedIs
    <2>3. ASSUME NEW j \in 1..Len(queue'), k = Len(sent) + j PROVE k = Len(Yielded')
      <3>1. Yielded'[k] = queue'[j]
        BY <1>1, <1>4, <2>3, JoinedIs
      <3> QED  BY <1>1, <1>4, <2>3, <3>1
    <2>4. k \in 1..Len(sent) \/ \E j \in 1..Len(queue') : k = Len(sent) + j
      BY <1>1, <2>1, JoinedIs, ZenonT(60)
    <2> QED  BY <2>2, <2>3, <2>4
  <1>6. HasEnd'
    BY <1>4 DEF HasEnd
  <1>7. \A k \in DOMAIN sent' : Ends(sent'[k]) => stored' = sent'[k].type
    BY <1>1, <1>3, JoinedIs
  <1> QED  BY <1>1, <1>2, <1>5, <1>6, <1>7 DEF EndStored, Alive

\* Only what ends the stream is stored before it is passed on.
LEMMA FinalEnds == ASSUME Mentions = FALSE, NEW e PROVE Final(e) <=> Ends(e)
  BY DEF Final, Ends

LEMMA EndPass == ASSUME Mentions = FALSE, TypeOK, EndStored, Pass PROVE EndStored'
  <1> DEFINE e == Head(queue)
  <1>1. /\ queue # <<>> /\ sent' = Append(sent, e) /\ queue' = Tail(queue) /\ pc' = pc
        /\ stored' = IF Ends(e) /\ stored = "none" THEN e.type ELSE stored
    BY FinalEnds DEF Pass, Ends, StatusOf
  <1>2. /\ Yielded' = Yielded /\ Yielded[Len(sent) + 1] = e /\ Len(Yielded) = Len(sent) + Len(queue)
        /\ Len(sent) \in Nat /\ Len(queue) \in Nat \ {0} /\ Len(queue') = Len(queue) - 1
        /\ sent' \in Seq(Events) /\ queue' \in Seq(Events) /\ Len(sent') = Len(sent) + 1
        /\ Yielded \in Seq(Events) /\ sent \in Seq(Events) /\ queue \in Seq(Events)
    BY <1>1, HeadIs DEF Yielded, TypeOK
  <1>3. \A k \in 1..Len(sent') : sent'[k] = Yielded[k] /\ k \in DOMAIN Yielded
    BY <1>2, JoinedIs, SMTT(40) DEF Yielded
  <1>4. ASSUME NEW k \in DOMAIN sent', Ends(sent'[k]) PROVE stored' = sent'[k].type
    <2>1. k \in 1..Len(sent')
      BY <1>2, JoinedIs
    <2>2. Ends(Yielded[k]) /\ k \in DOMAIN Yielded
      BY <1>3, <1>4, <2>1
    <2>3. k = Len(sent) + Len(queue) /\ ~NoEnd
      BY <1>2, <2>2 DEF EndStored, EndIsLast, NoEnd
    <2>4. k = Len(sent) + 1 /\ Len(queue) = 1
      BY <1>2, <2>1, <2>3
    <2>5. sent'[k] = e /\ Ends(e)
      BY <1>2, <1>3, <2>1, <2>4, <1>4
    <2>6. pc \in {"ended", "failing"}
      BY <1>1, <2>3 DEF EndStored, TypeOK, Alive
    <2>7. CASE pc = "ended"
      BY <1>1, <2>5, <2>7 DEF EndStored
    <2>8. CASE pc = "failing"
      BY <1>1, <1>2, <2>4, <2>5, <2>8 DEF EndStored
    <2> QED  BY <2>6, <2>7, <2>8
  <1>5. ASSUME queue' # <<>> \/ NoEnd PROVE stored' = stored
    <2>1. ASSUME Ends(e) PROVE FALSE
      <3>1. Len(sent) + 1 \in DOMAIN Yielded /\ Ends(Yielded[Len(sent) + 1])
        BY <1>2, <2>1, LenProperties
      <3>2. ~NoEnd /\ Len(sent) + 1 = Len(Yielded)
        BY <3>1 DEF EndStored, EndIsLast, NoEnd
      <3>3. Len(queue) = 1 /\ Len(queue') = 0
        BY <1>2, <3>2
      <3> QED  BY <1>2, <1>5, <3>2, <3>3, EmptySeq
    <2> QED  BY <1>1, <2>1
  <1>6. EndIsLast' /\ (NoEnd => NoEnd') /\ (HasEnd => HasEnd')
    BY <1>2 DEF EndStored, EndIsLast, NoEnd, HasEnd
  <1>7. \A k \in DOMAIN sent' : Ends(sent'[k]) => stored' = sent'[k].type
    BY <1>4
  <1>8. Alive \/ pc = "raised" => NoEnd' /\ stored' = "none"
    BY <1>5, <1>6 DEF EndStored
  <1>9. pc = "ended" /\ queue' # <<>> => stored' = "none"
    BY <1>1, <1>5 DEF EndStored
  <1>10. pc = "failing" => stored' = "failed" /\ Yielded'[Len(Yielded')].type = "failed"
    BY <1>1, <1>2 DEF EndStored
  <1>11. pc \in {"ended", "failing", "over"} => HasEnd'
    BY <1>6 DEF EndStored
  <1> QED  BY <1>1, <1>6, <1>7, <1>8, <1>9, <1>10, <1>11 DEF EndStored, Alive

\* What is left when the rest is thrown away.
LEMMA EndCut ==
    ASSUME TypeOK, EndStored, queue' = <<>>, UNCHANGED <<stored, sent>>,
           \/ pc' = "gone"
           \/ pc' = "raised" /\ queue # <<>> /\ stored = "none"
    PROVE  EndStored'
  <1>1. sent \in Seq(Events) /\ queue \in Seq(Events)
    BY DEF TypeOK
  <1>2. Yielded' = sent
    BY <1>1, JoinedIs DEF Yielded
  <1>3. \A k \in 1..Len(sent) : sent[k] = Yielded[k] /\ k \in DOMAIN Yielded /\ k <= Len(sent) /\ Len(sent) <= Len(Yielded)
    BY <1>1, JoinedIs DEF Yielded
  <1>4. \A k \in 1..Len(sent) : Ends(sent[k]) => k = Len(Yielded) /\ k = Len(sent)
    <2> TAKE k \in 1..Len(sent)
    <2>1. Ends(sent[k]) => k = Len(Yielded)
      BY <1>3 DEF EndStored, EndIsLast
    <2>2. k \in Nat /\ Len(sent) \in Nat /\ Len(Yielded) \in Nat
      BY <1>1, JoinedIs DEF Yielded
    <2> QED  BY <1>3, <2>1, <2>2
  <1>5. EndIsLast'
    BY <1>1, <1>2, <1>4, JoinedIs DEF EndIsLast
  <1>6. queue # <<>> => \A k \in 1..Len(sent) : ~Ends(sent[k])
    BY <1>1, <1>4, JoinedIs DEF Yielded
  <1>7. queue # <<>> => NoEnd'
    BY <1>1, <1>2, <1>6, JoinedIs DEF NoEnd
  <1>8. \A k \in DOMAIN sent' : Ends(sent'[k]) => stored' = sent'[k].type
    BY DEF EndStored
  <1> QED  BY <1>5, <1>7, <1>8 DEF EndStored, Alive

LEMMA FailureIs ==
    ASSUME NEW from \in Nat
    PROVE  LET q == Numbered(Failure, from) IN
           /\ q \in Seq(Events) /\ Len(q) = 2 /\ q[1].type = "error" /\ q[2].type = "failed"
           /\ \A i \in 1..2 : q[i].item = None /\ q[i].n = from + i - 1
  <1>1. Failure \in Seq(Plain) /\ Len(Failure) = 2
    <2>1. Event("error", None, 0) \in Plain /\ Event("failed", None, 0) \in Plain
      BY EventIs DEF EventTypes, None
    <2> QED  BY <2>1 DEF Failure
  <1>2. Failure[1].type = "error" /\ Failure[2].type = "failed" /\ \A i \in 1..2 : Failure[i].item = None
    BY DEF Failure, Event
  <1> HIDE DEF Failure
  <1>3. /\ Numbered(Failure, from) \in Seq(Events) /\ Alike(Numbered(Failure, from), Failure)
        /\ \A i \in 1..Len(Failure) : Numbered(Failure, from)[i].n = from + i - 1
    BY <1>1, NumberedIs
  <1> QED  BY <1>1, <1>2, <1>3 DEF Alike

LEMMA EndFail == ASSUME TypeOK, EndStored, Fail PROVE EndStored'
  <1> DEFINE q == Numbered(Failure, next)
  <1>1. pc = "raised" /\ queue = <<>> /\ queue' = q /\ pc' = "failing" /\ UNCHANGED sent /\ stored' = "failed"
    BY DEF Fail, EndStored
  <1>2. sent \in Seq(Events) /\ next \in Nat
    BY DEF TypeOK
  <1>3. q \in Seq(Events) /\ Len(q) = 2 /\ q[1].type = "error" /\ q[2].type = "failed"
    BY <1>2, FailureIs
  <1> HIDE DEF q
  <1>4. Yielded = sent /\ NoEnd
    BY <1>1, <1>2, JoinedIs DEF EndStored, Yielded
  <1>5. \A k \in 1..Len(sent) : ~Ends(sent[k])
    BY <1>2, <1>4, JoinedIs DEF NoEnd
  <1>6. /\ Yielded' = sent \o q /\ Len(Yielded') = Len(sent) + 2 /\ Len(sent) \in Nat
        /\ Yielded'[Len(sent) + 1] = q[1] /\ Yielded'[Len(sent) + 2] = q[2]
        /\ DOMAIN Yielded' = 1..(Len(sent) + 2)
        /\ \A k \in 1..Len(sent) : Yielded'[k] = sent[k]
    <2>1. Yielded' = sent \o q
      BY <1>1 DEF Yielded
    <2>2. 1 \in 1..Len(q) /\ 2 \in 1..Len(q)
      BY <1>3
    <2>3. /\ Len(Yielded') = Len(sent) + Len(q) /\ Len(sent) \in Nat /\ DOMAIN Yielded' = 1..(Len(sent) + Len(q))
          /\ \A k \in 1..Len(sent) : Yielded'[k] = sent[k]
          /\ \A k \in 1..Len(q) : Yielded'[Len(sent) + k] = q[k]
      BY <1>2, <1>3, <2>1, JoinedIs, ZenonT(60)
    <2> QED  BY <1>3, <2>1, <2>2, <2>3
  <1>7. EndIsLast' /\ HasEnd'
    <2>1. Yielded' # <<>>
      BY <1>6, EmptySeq
    <2>2. \A k \in DOMAIN Yielded' : k \in 1..Len(sent) \/ k = Len(sent) + 1 \/ k = Len(sent) + 2
      BY <1>6
    <2>3. Ends(q[2]) /\ ~Ends(q[1])
      BY <1>3 DEF Ends
    <2>4. EndIsLast'
      BY <1>5, <1>6, <2>2, <2>3 DEF EndIsLast
    <2> QED  BY <1>6, <2>1, <2>3, <2>4 DEF HasEnd
  <1>8. \A k \in DOMAIN sent' : Ends(sent'[k]) => stored' = sent'[k].type
    BY <1>1, <1>2, <1>5, JoinedIs
  <1> QED  BY <1>1, <1>3, <1>6, <1>7, <1>8 DEF EndStored, Alive

LEMMA NextEnd == ASSUME Mentions = FALSE, TypeOK, EndStored, [Next]_vars PROVE EndStored'
  <1>1. CASE Silent
    <2>1. Yielded' = Yielded /\ queue' = queue /\ sent' = sent /\ stored' = stored
      BY <1>1 DEF Yielded, Silent
    <2>2. EndIsLast' /\ (NoEnd => NoEnd') /\ (HasEnd => HasEnd')
      BY <2>1 DEF EndStored, EndIsLast, NoEnd, HasEnd
    <2>3. \A k \in DOMAIN sent' : Ends(sent'[k]) => stored' = sent'[k].type
      BY <2>1 DEF EndStored
    <2> QED  BY <1>1, <2>1, <2>2, <2>3 DEF EndStored, Alive, Silent
  <1>2. CASE StoreFails
    BY <1>2, EndCut DEF StoreFails
  <1>3. CASE Disconnect
    BY <1>3, EndCut DEF Disconnect
  <1> QED  BY <1>1, <1>2, <1>3, Steps, EndGoes, EndFinishesIt, EndPass, EndFail

LEMMA InitEnd == ASSUME Init PROVE EndStored
  <1>1. sent = <<>> /\ queue = <<>> /\ pc = "start" /\ stored = "none"
    BY DEF Init
  <1>2. Yielded = <<>>
    BY <1>1, ConcatEmptySeq DEF Yielded
  <1>3. DOMAIN Yielded = {} /\ DOMAIN sent = {}
    BY <1>1, <1>2
  <1> QED  BY <1>1, <1>3 DEF EndStored, EndIsLast, NoEnd, Alive

\* Where the search for a final event's name finds nothing else, whoever is told that the
\* response has ended finds it stored so, nothing follows, and a stream that is not cut
\* off tells so (responses_streaming_coordinator.py, pre_emit): with any faults of the
\* engine, the store and the client.
THEOREM Storing == ASSUME Mentions = FALSE PROVE Spec => []ToldIsStored
  <1>1. Init => TypeOK /\ EndStored
    BY InitTypes, InitEnd
  <1>2. TypeOK /\ EndStored /\ [Next]_vars => (TypeOK /\ EndStored)'
    BY NextTypes, NextEnd
  <1>3. TypeOK /\ EndStored => ToldIsStored
    <2> SUFFICES ASSUME TypeOK, EndStored PROVE ToldIsStored
      OBVIOUS
    <2>1. sent \in Seq(Events) /\ queue \in Seq(Events)
      BY DEF TypeOK
    <2>2. ASSUME NEW k \in DOMAIN sent, sent[k].type \in {"completed", "failed"}
          PROVE  k = Len(sent) /\ stored = sent[k].type
      <3>1. k \in DOMAIN Yielded /\ Yielded[k] = sent[k] /\ Len(sent) <= Len(Yielded) /\ k <= Len(sent)
            /\ k \in Nat /\ Len(sent) \in Nat /\ Len(Yielded) \in Nat
        BY <2>1, JoinedIs DEF Yielded
      <3>2. k = Len(Yielded)
        BY <2>2, <3>1 DEF EndStored, EndIsLast, Ends
      <3>3. stored = sent[k].type
        BY <2>2 DEF EndStored, Ends
      <3> QED  BY <3>1, <3>2, <3>3
    <2>3. pc = "over" => sent[Len(sent)].type \in {"completed", "failed"}
      BY <2>1, JoinedIs DEF EndStored, HasEnd, Ends, Yielded
    <2> QED  BY <2>2, <2>3 DEF ToldIsStored
  <1> QED  BY <1>1, <1>2, <1>3, PTL DEF Spec

-----------------------------------------------------------------------------
(* Sequence numbers count the events. *)

\* Events that follow on s, one of which may say "error" after a gap.
LEMMA StepsJoin ==
    ASSUME NEW s \in Seq(Events), NEW q \in Seq(Events),
           \A k \in 1..Len(s) : StepOk(s, k),
           \A k \in 1..Len(s) : s[k].n = k - 1,
           \/ \A i \in 1..Len(q) : q[i].n = Len(s) + i - 1
           \/ /\ \A i \in 1..Len(q) : q[i].n = Len(s) + i
              /\ Len(q) > 0 => q[1].type = "error"
    PROVE  \A k \in 1..Len(s \o q) : StepOk(s \o q, k)
  <1> DEFINE t == s \o q
  <1>1. /\ t \in Seq(Events) /\ Len(s) \in Nat /\ Len(q) \in Nat /\ Len(t) = Len(s) + Len(q)
        /\ \A i \in 1..Len(s) : t[i] = s[i]
        /\ \A i \in 1..Len(q) : t[Len(s) + i] = q[i]
        /\ \A i \in 1..(Len(s) + Len(q)) : i \in 1..Len(s) \/ \E j \in 1..Len(q) : i = Len(s) + j
    BY JoinedIs
  <1> HIDE DEF t
  <1>2. ASSUME NEW k \in 1..Len(s) PROVE StepOk(t, k)
    <2>1. t[k] = s[k] /\ StepOk(s, k)
      BY <1>1
    <2>2. k # 1 => k - 1 \in 1..Len(s)
      OBVIOUS
    <2>3. k # 1 => t[k - 1] = s[k - 1]
      BY <1>1, <2>2
    <2> QED  BY <2>1, <2>3 DEF StepOk
  <1>3. ASSUME NEW j \in 1..Len(q) PROVE StepOk(t, Len(s) + j)
    <2> DEFINE k == Len(s) + j
    <2>1. k \in Nat /\ t[k] = q[j] /\ k - 1 = Len(s) + (j - 1) /\ (k = 1 <=> Len(s) = 0 /\ j = 1)
      BY <1>1
    <2>2. CASE j = 1
      <3>1. q[1].n = Len(s) \/ (q[1].n = Len(s) + 1 /\ q[1].type = "error")
        BY <1>1, <2>2
      <3>2. CASE Len(s) = 0
        BY <2>1, <2>2, <3>1, <3>2 DEF StepOk
      <3>3. CASE Len(s) # 0
        <4>1. k - 1 = Len(s) /\ k # 1 /\ Len(s) \in 1..Len(s)
          BY <1>1, <2>1, <2>2, <3>3
        <4>2. t[k - 1] = s[Len(s)] /\ s[Len(s)].n = Len(s) - 1
          BY <1>1, <4>1
        <4> HIDE DEF k
        <4> QED  BY <1>1, <2>1, <2>2, <3>1, <4>1, <4>2 DEF StepOk
      <3> QED  BY <3>2, <3>3
    <2>3. CASE j # 1
      <3>1. j - 1 \in 1..Len(q) /\ k # 1
        BY <1>1, <2>1, <2>3
      <3>2. t[k - 1] = q[j - 1]
        BY <1>1, <2>1, <3>1
      <3>3. q[j].n = q[j - 1].n + 1
        <4>1. \E i \in 1..Len(q) : i = j - 1
          BY <3>1
        <4>2. \/ q[j].n = Len(s) + j - 1 /\ q[j - 1].n = Len(s) + (j - 1) - 1
              \/ q[j].n = Len(s) + j /\ q[j - 1].n = Len(s) + (j - 1)
          BY <4>1
        <4> QED  BY <1>1, <4>2
      <3>4. StepOk(t, k)
        <4> HIDE DEF k
        <4> QED  BY <2>1, <3>1, <3>2, <3>3 DEF StepOk
      <3> QED  BY <3>4
    <2> QED  BY <2>2, <2>3
  <1>4. \A k \in 1..Len(t) : StepOk(t, k)
    BY <1>1, <1>2, <1>3
  <1> QED  BY <1>4 DEF t

\* A step is as it was before what came after.
LEMMA StepsCut ==
    ASSUME NEW s \in Seq(Events), NEW q \in Seq(Events), NEW k \in 1..Len(s), StepOk(s \o q, k)
    PROVE  StepOk(s, k)
  <1>1. (s \o q)[k] = s[k]
    BY JoinedIs
  <1>2. k # 1 => (s \o q)[k - 1] = s[k - 1]
    BY JoinedIs
  <1> QED  BY <1>1, <1>2 DEF StepOk

LEMMA NumbersGo ==
    ASSUME TypeOK, Numbering, Alive,
           (Goes /\ (Alive' \/ pc' = "raised")) \/ (Finishes /\ pc' = "ended")
    PROVE  Numbering'
  <1>1. /\ queue = <<>> /\ queue' \in Seq(Events) /\ sent \in Seq(Events)
        /\ seq' = seq + Len(queue') /\ UNCHANGED <<next, stored, sent>>
        /\ \A i \in 1..Len(queue') : queue'[i].n = seq + i - 1
    BY GoesIs, FinishesIs
  <1>2. Yielded = sent /\ Yielded' = sent \o queue'
    BY <1>1, JoinedIs DEF Yielded
  <1>3. /\ \A k \in 1..Len(sent) : StepOk(sent, k) /\ sent[k].n = k - 1
        /\ seq = Len(sent) /\ next = Len(sent)
    BY <1>1, <1>2, JoinedIs DEF Numbering, InStep
  <1>4. /\ Len(sent) \in Nat /\ Len(queue') \in Nat /\ Len(Yielded') = Len(sent) + Len(queue')
        /\ DOMAIN Yielded' = 1..Len(Yielded')
    BY <1>1, <1>2, JoinedIs
  <1>5. \A k \in DOMAIN Yielded' : StepOk(Yielded', k)
    BY <1>1, <1>2, <1>3, <1>4, StepsJoin
  <1>6. InStep'
    <2>1. ASSUME NEW k \in 1..Len(sent) PROVE Yielded'[k].n = k - 1
      BY <1>1, <1>2, <1>3, JoinedIs
    <2>2. ASSUME NEW j \in 1..Len(queue') PROVE Yielded'[Len(sent) + j].n = Len(sent) + j - 1
      BY <1>1, <1>2, <1>3, JoinedIs
    <2>3. \A k \in 1..(Len(sent) + Len(queue')) : k \in 1..Len(sent) \/ \E j \in 1..Len(queue') : k = Len(sent) + j
      BY <1>1, JoinedIs
    <2>4. ASSUME NEW k \in DOMAIN Yielded' PROVE Yielded'[k].n = k - 1
      <3>1. k \in 1..Len(sent) \/ \E j \in 1..Len(queue') : k = Len(sent) + j
        BY <1>4, <2>3
      <3>2. ASSUME NEW j \in 1..Len(queue'), k = Len(sent) + j PROVE Yielded'[k].n = k - 1
        BY <2>2, <3>2
      <3> QED  BY <2>1, <3>1, <3>2
    <2> QED  BY <2>4 DEF InStep
  <1>7. seq' = Len(Yielded)' /\ next' = Len(sent)'
    BY <1>1, <1>3, <1>4
  <1> QED  BY <1>5, <1>6, <1>7 DEF Numbering, Alive

LEMMA NumbersPass == ASSUME TypeOK, Numbering, Pass PROVE Numbering'
  <1> DEFINE e == Head(queue)
  <1>1. /\ queue # <<>> /\ sent' = Append(sent, e) /\ queue' = Tail(queue) /\ pc' = pc /\ seq' = seq /\ next' = e.n + 1
    BY DEF Pass
  <1>2. /\ Yielded' = Yielded /\ Yielded[Len(sent) + 1] = e /\ Len(Yielded) = Len(sent) + Len(queue)
        /\ Len(sent) \in Nat /\ Len(queue) \in Nat \ {0} /\ Len(sent') = Len(sent) + 1 /\ DOMAIN Yielded = 1..Len(Yielded)
    BY <1>1, HeadIs, LenProperties DEF Yielded, TypeOK
  <1>3. InStep => e.n = Len(sent)
    <2>1. Len(sent) + 1 \in DOMAIN Yielded
      BY <1>2
    <2> QED  BY <1>2, <2>1 DEF InStep
  <1>4. InStep => next' = Len(sent')
    BY <1>1, <1>2, <1>3
  <1>5. InStep => InStep'
    BY <1>2 DEF InStep
  <1>6. \A k \in DOMAIN Yielded' : StepOk(Yielded', k)
    BY <1>2 DEF Numbering
  <1>7. pc \notin {"over", "gone"}
    BY <1>1 DEF Numbering
  <1> QED  BY <1>1, <1>2, <1>4, <1>5, <1>6, <1>7 DEF Numbering, Alive

LEMMA NumbersCut ==
    ASSUME TypeOK, Numbering, StoreFails \/ Disconnect PROVE Numbering'
  <1>1. sent \in Seq(Events) /\ queue \in Seq(Events) /\ queue' = <<>> /\ sent' = sent
    BY DEF TypeOK, StoreFails, Disconnect
  <1>2. Yielded' = sent
    BY <1>1, JoinedIs DEF Yielded
  <1>3. \A k \in DOMAIN Yielded' : StepOk(Yielded', k)
    <2> SUFFICES ASSUME NEW k \in 1..Len(sent) PROVE StepOk(sent, k)
      BY <1>1, <1>2, JoinedIs
    <2>1. StepOk(sent \o queue, k)
      BY <1>1, JoinedIs DEF Numbering, Yielded
    <2> QED  BY <1>1, <2>1, StepsCut
  <1>4. CASE Disconnect
    BY <1>1, <1>3, <1>4 DEF Disconnect, Numbering, Alive
  <1>5. CASE StoreFails
    <2>1. queue # <<>> /\ pc # "failing" /\ next' = Head(queue).n + 1 /\ pc' = "raised"
      BY <1>5 DEF StoreFails
    <2>2. InStep
      BY <2>1 DEF Numbering, Alive, TypeOK
    <2>3. /\ Yielded[Len(sent) + 1] = Head(queue) /\ Len(sent) \in Nat /\ Len(queue) \in Nat \ {0}
          /\ Len(Yielded) = Len(sent) + Len(queue) /\ Yielded \in Seq(Events)
      BY <2>1, HeadIs
    <2>4. Len(sent) + 1 \in DOMAIN Yielded
      BY <2>3, LenProperties
    <2>5. Head(queue).n = Len(sent)
      BY <2>2, <2>3, <2>4 DEF InStep
    <2>6. InStep'
      <3>1. \A k \in DOMAIN sent : k \in DOMAIN Yielded /\ Yielded[k] = sent[k]
        BY <1>1, JoinedIs DEF Yielded
      <3> QED  BY <1>2, <2>2, <3>1 DEF InStep
    <2> QED  BY <1>1, <1>3, <2>1, <2>3, <2>5, <2>6 DEF Numbering, Alive
  <1> QED  BY <1>4, <1>5

LEMMA NumbersFail == ASSUME TypeOK, Numbering, Fail PROVE Numbering'
  <1> DEFINE q == Numbered(Failure, next)
  <1>1. pc = "raised" /\ queue = <<>> /\ queue' = q /\ pc' = "failing" /\ UNCHANGED sent
    BY DEF Fail
  <1>2. sent \in Seq(Events) /\ next \in Nat /\ Len(sent) \in Nat
    BY LenProperties DEF TypeOK
  <1>3. q \in Seq(Events) /\ Len(q) = 2 /\ q[1].type = "error" /\ \A i \in 1..2 : q[i].n = next + i - 1
    BY <1>2, FailureIs
  <1> HIDE DEF q
  <1>4. Yielded = sent /\ Yielded' = sent \o q
    BY <1>1, <1>2, JoinedIs DEF Yielded
  <1>5. /\ \A k \in 1..Len(sent) : StepOk(sent, k) /\ sent[k].n = k - 1
        /\ next = Len(sent) \/ next = Len(sent) + 1
    BY <1>1, <1>2, <1>4, JoinedIs DEF Numbering, InStep
  <1>6. \/ \A i \in 1..Len(q) : q[i].n = Len(sent) + i - 1
        \/ \A i \in 1..Len(q) : q[i].n = Len(sent) + i
    BY <1>2, <1>3, <1>5
  <1>7. \A k \in 1..Len(sent \o q) : StepOk(sent \o q, k)
    BY <1>2, <1>3, <1>5, <1>6, StepsJoin
  <1>8. \A k \in DOMAIN Yielded' : StepOk(Yielded', k)
    BY <1>2, <1>3, <1>4, <1>7, JoinedIs
  <1> QED  BY <1>1, <1>8 DEF Numbering, Alive

LEMMA NextNumbers == ASSUME TypeOK, Numbering, [Next]_vars PROVE Numbering'
  <1>1. CASE Silent
    <2>1. Yielded' = Yielded /\ queue' = queue /\ sent' = sent /\ seq' = seq /\ next' = next
      BY <1>1 DEF Yielded, Silent
    <2>2. (\A k \in DOMAIN Yielded' : StepOk(Yielded', k)) /\ (InStep => InStep')
      BY <2>1 DEF Numbering, InStep
    <2> QED  BY <1>1, <2>1, <2>2 DEF Numbering, Alive, Silent
  <1>2. CASE Alive /\ ((Goes /\ (Alive' \/ pc' = "raised")) \/ (Finishes /\ pc' = "ended"))
    BY <1>2, NumbersGo
  <1>3. CASE Pass \/ StoreFails \/ Fail \/ Disconnect
    BY <1>3, NumbersPass, NumbersCut, NumbersFail
  <1>4. \/ Silent
        \/ Alive /\ ((Goes /\ (Alive' \/ pc' = "raised")) \/ (Finishes /\ pc' = "ended"))
        \/ Pass \/ StoreFails \/ Fail \/ Disconnect
    BY Steps
  <1> QED  BY <1>1, <1>2, <1>3, <1>4

LEMMA InitNumbers == ASSUME Init PROVE Numbering
  <1>1. sent = <<>> /\ queue = <<>> /\ pc = "start" /\ seq = 0 /\ next = 0
    BY DEF Init
  <1>2. Yielded = <<>>
    BY <1>1, ConcatEmptySeq DEF Yielded
  <1>3. DOMAIN Yielded = {} /\ Len(Yielded) = 0 /\ Len(sent) = 0
    BY <1>1, <1>2
  <1> QED  BY <1>1, <1>3 DEF Numbering, InStep, Alive

LEMMA NumbersAre == ASSUME TypeOK, Numbering PROVE NumbersCount
  <1>1. sent \in Seq(Events) /\ queue \in Seq(Events)
    BY DEF TypeOK
  <1>2. \A k \in DOMAIN sent : StepOk(sent, k)
    <2> SUFFICES ASSUME NEW k \in 1..Len(sent) PROVE StepOk(sent, k)
      BY <1>1, JoinedIs
    <2>1. StepOk(sent \o queue, k)
      BY <1>1, JoinedIs DEF Numbering, Yielded
    <2> QED  BY <1>1, <2>1, StepsCut
  <1> QED  BY <1>2 DEF NumbersCount, StepOk

-----------------------------------------------------------------------------
(* What events tell. *)

LEMMA OfIs ==
    ASSUME NEW s \in Seq(Events), NEW k \in 0..Len(s), NEW type
    PROVE  /\ IsFiniteSet(Of(s, k, type)) /\ Cardinality(Of(s, k, type)) \in Nat
           /\ \A i \in Of(s, k, type) : i \in 1..Len(s) /\ i <= k /\ s[i].type = type
  <1>1. k \in Nat /\ Len(s) \in Nat
    BY LenProperties
  <1>2. IsFiniteSet(1..k)
    BY <1>1, FS_Interval
  <1>3. IsFiniteSet(Of(s, k, type))
    BY <1>2, FS_Subset DEF Of
  <1> QED  BY <1>1, <1>3, FS_CardinalityType DEF Of

\* The first k events of a longer sequence.
LEMMA OfPrefix ==
    ASSUME NEW s \in Seq(Events), NEW q \in Seq(Events), NEW k \in 0..Len(s)
    PROVE  /\ \A type : Of(s \o q, k, type) = Of(s, k, type)
           /\ \A i : Tokens(s \o q, k, i) = Tokens(s, k, i)
           /\ \A type : \A i \in Of(s, k, type) : (s \o q)[i] = s[i]
  <1>1. \A i \in 1..k : (s \o q)[i] = s[i]
    <2>1. k \in Nat /\ Len(s) \in Nat /\ k <= Len(s)
      BY LenProperties
    <2> QED  BY <2>1, JoinedIs
  <1>2. \A type : Of(s \o q, k, type) = Of(s, k, type)
    BY <1>1 DEF Of
  <1>3. ASSUME NEW i PROVE Tokens(s \o q, k, i) = Tokens(s, k, i)
    <2> DEFINE a == {h \in Of(s \o q, k, "delta") : (s \o q)[h].item = i}
               b == {h \in Of(s, k, "delta") : s[h].item = i}
    <2>1. a = b
      BY <1>1, <1>2 DEF Of
    <2>2. \A j \in b : (s \o q)[j] = s[j]
      BY <1>1 DEF Of
    <2>3. {{j} \X (1..(s \o q)[j].len) : j \in a} = {{j} \X (1..s[j].len) : j \in b}
      BY <2>1, <2>2
    <2> QED  BY <2>3 DEF Tokens
  <1> QED  BY <1>1, <1>2, <1>3 DEF Of

LEMMA InTurnPrefix ==
    ASSUME NEW s \in Seq(Events), NEW q \in Seq(Events), NEW k \in 1..Len(s), NEW extra
    PROVE  /\ InTurn(s \o q, k) <=> InTurn(s, k)
           /\ TextFits(s \o q, k, extra) <=> TextFits(s, k, extra)
  <1>1. (s \o q)[k] = s[k] /\ k \in 0..Len(s) /\ k - 1 \in 0..Len(s)
    BY JoinedIs
  <1>2. /\ \A type : Of(s \o q, k - 1, type) = Of(s, k - 1, type)
        /\ \A type : \A i \in Of(s, k - 1, type) : (s \o q)[i] = s[i]
        /\ \A i : Tokens(s \o q, k, i) = Tokens(s, k, i)
    BY <1>1, OfPrefix
  <1> QED  BY <1>1, <1>2 DEF InTurn, TextFits

LEMMA FollowsCut ==
    ASSUME NEW s \in Seq(Events), NEW q \in Seq(Events), NEW extra, FollowsProtocol(s \o q, extra)
    PROVE  FollowsProtocol(s, extra)
  <1>1. \A k \in 1..Len(s) : k \in 1..Len(s \o q)
    BY JoinedIs
  <1> QED  BY <1>1, InTurnPrefix DEF FollowsProtocol

LEMMA FollowsMore ==
    ASSUME NEW s \in Seq(Events), NEW q \in Seq(Events), Len(q) = 1, NEW extra,
           FollowsProtocol(s, extra), InTurn(s \o q, Len(s) + 1), TextFits(s \o q, Len(s) + 1, extra)
    PROVE  FollowsProtocol(s \o q, extra)
  <1>1. \A k \in 1..Len(s \o q) : k \in 1..Len(s) \/ k = Len(s) + 1
    BY JoinedIs, SMTT(40)
  <1> QED  BY <1>1, InTurnPrefix DEF FollowsProtocol

\* One event more.
LEMMA OneMore ==
    ASSUME NEW s \in Seq(Events), NEW q \in Seq(Events), Len(q) = 1
    PROVE  LET t == s \o q
               n == Len(s) + 1
               e == q[1]
           IN /\ t \in Seq(Events) /\ Len(t) = n /\ n \in Nat /\ t[n] = e /\ e \in Events
              /\ \A i \in 1..Len(s) : t[i] = s[i]
              /\ \A type : Of(t, n - 1, type) = Of(s, Len(s), type)
              /\ \A type : Of(t, n, type) = Of(s, Len(s), type) \cup {i \in {n} : e.type = type}
              /\ \A type : Cardinality(Of(t, n, type)) =
                    Cardinality(Of(s, Len(s), type)) + IF e.type = type THEN 1 ELSE 0
  <1> DEFINE t == s \o q
             n == Len(s) + 1
             e == q[1]
  <1>1. /\ t \in Seq(Events) /\ Len(t) = n /\ n \in Nat /\ n - 1 = Len(s) /\ Len(s) \in Nat
        /\ t[n] = e /\ \A i \in 1..Len(s) : t[i] = s[i]
    <2>1. 1 \in 1..Len(q)
      OBVIOUS
    <2>2. /\ t \in Seq(Events) /\ Len(s) \in Nat /\ Len(t) = Len(s) + Len(q)
          /\ \A i \in 1..Len(s) : t[i] = s[i]
          /\ \A i \in 1..Len(q) : t[Len(s) + i] = q[i]
      BY JoinedIs
    <2> HIDE DEF t
    <2> QED  BY <2>1, <2>2
  <1>2. e \in Events
    BY ElementOfSeq
  <1>3. \A type : Of(t, n - 1, type) = Of(s, Len(s), type)
    BY <1>1, OfPrefix
  <1>4. ASSUME NEW type PROVE Of(t, n, type) = Of(s, Len(s), type) \cup {i \in {n} : e.type = type}
    <2> HIDE DEF t, n, e
    <2>1. \A i : i \in 1..n <=> i \in 1..Len(s) \/ i = n
      BY <1>1 DEF n
    <2>2. n \notin 1..Len(s)
      BY <1>1 DEF n
    <2> QED  BY <1>1, <2>1, <2>2 DEF Of
  <1>5. ASSUME NEW type
        PROVE  Cardinality(Of(t, n, type)) = Cardinality(Of(s, Len(s), type)) + IF e.type = type THEN 1 ELSE 0
    <2>1. IsFiniteSet(Of(s, Len(s), type)) /\ n \notin Of(s, Len(s), type) /\ Cardinality(Of(s, Len(s), type)) \in Nat
      <3>1. Len(s) \in 0..Len(s)
        BY <1>1
      <3> QED  BY <1>1, <3>1, OfIs
    <2>2. CASE e.type = type
      <3>1. Of(t, n, type) = Of(s, Len(s), type) \cup {n}
        BY <1>4, <2>2
      <3> QED  BY <2>1, <2>2, <3>1, FS_AddElement
    <2>3. CASE e.type # type
      <3>1. Of(t, n, type) = Of(s, Len(s), type)
        BY <1>4, <2>3
      <3> QED  BY <2>1, <2>3, <3>1
    <2> QED  BY <2>2, <2>3
  <1> QED  BY <1>1, <1>2, <1>3, <1>4, <1>5

LEMMA TokensOf ==
    ASSUME NEW n, NEW m \in Nat
    PROVE  IsFiniteSet({n} \X (1..m)) /\ Cardinality({n} \X (1..m)) = m
  <1> DEFINE f == [k \in 1..m |-> <<n, k>>]
             T == {n} \X (1..m)
  <1>1. f \in Bijection(1..m, T)
    <2>1. f \in [1..m -> T]
      OBVIOUS
    <2>2. \A x, y \in 1..m : f[x] = f[y] => x = y
      OBVIOUS
    <2>3. \A z \in T : \E x \in 1..m : f[x] = z
      OBVIOUS
    <2> QED  BY <2>1, <2>2, <2>3 DEF Bijection, Injection, Surjection, IsInjective
  <1>2. IsFiniteSet(1..m) /\ Cardinality(1..m) = m
    BY FS_Interval
  <1>3. ExistsBijection(1..m, T)
    BY <1>1 DEF ExistsBijection
  <1> HIDE DEF T
  <1>4. IsFiniteSet(T) /\ Cardinality(T) = m
    BY <1>2, <1>3, FS_Bijection
  <1> QED  BY <1>4 DEF T

\* ... and its tokens.
LEMMA MoreTokens ==
    ASSUME NEW s \in Seq(Events), NEW q \in Seq(Events), Len(q) = 1, NEW i, IsFiniteSet(Tokens(s, Len(s), i))
    PROVE  LET new == IF q[1].type = "delta" /\ q[1].item = i THEN q[1].len ELSE 0 IN
           /\ IsFiniteSet(Tokens(s \o q, Len(s) + 1, i))
           /\ Cardinality(Tokens(s \o q, Len(s) + 1, i)) = Cardinality(Tokens(s, Len(s), i)) + new
           /\ Cardinality(Tokens(s, Len(s), i)) \in Nat /\ new \in Nat
  <1> DEFINE t == s \o q
             n == Len(s) + 1
             e == q[1]
             a == {h \in Of(s, Len(s), "delta") : s[h].item = i}
             b == {h \in Of(t, n, "delta") : t[h].item = i}
  <1>1. /\ Len(s) \in Nat /\ n \in Nat /\ t[n] = e /\ e \in Events
        /\ \A j \in 1..Len(s) : t[j] = s[j]
        /\ Of(t, n, "delta") = Of(s, Len(s), "delta") \cup {j \in {n} : e.type = "delta"}
    BY OneMore, LenProperties
  <1>2. e.len \in Nat
    BY <1>1 DEF Events
  <1>3. \A j \in Of(s, Len(s), "delta") : j \in 1..Len(s)
    BY DEF Of
  <1> HIDE DEF t, e
  <1>4. b = a \cup {j \in {n} : e.type = "delta" /\ e.item = i}
    BY <1>1, <1>3
  <1>5. \A j \in a : t[j] = s[j]
    BY <1>1, <1>3
  <1>6. /\ Tokens(t, n, i) = UNION {{j} \X (1..t[j].len) : j \in b}
        /\ Tokens(s, Len(s), i) = UNION {{j} \X (1..s[j].len) : j \in a}
    BY DEF Tokens
  <1>7. CASE e.type = "delta" /\ e.item = i
    <2> DEFINE new == {n} \X (1..e.len)
               old == Tokens(s, Len(s), i)
    <2>1. b = a \cup {n}
      BY <1>4, <1>7
    <2>2. Tokens(t, n, i) = old \cup new
      <3>1. \A x : x \in Tokens(t, n, i) <=> \E j \in b : x \in {j} \X (1..t[j].len)
        BY <1>6
      <3>2. \A x : x \in old <=> \E j \in a : x \in {j} \X (1..s[j].len)
        BY <1>6
      <3> HIDE DEF a, b, old, n
      <3>3. \A x : x \in Tokens(t, n, i) <=> x \in old \/ x \in new
        BY <1>1, <1>5, <2>1, <3>1, <3>2
      <3> QED  BY <3>3
    <2>3. old \cap new = {}
      <3>1. \A x \in old : x[1] \in 1..Len(s)
        BY <1>3, <1>6
      <3>2. \A x \in new : x[1] = n
        OBVIOUS
      <3>3. n \notin 1..Len(s)
        BY <1>1
      <3> QED  BY <3>1, <3>2, <3>3
    <2>4. IsFiniteSet(new) /\ Cardinality(new) = e.len
      BY <1>2, TokensOf
    <2>5. IsFiniteSet(old)
      OBVIOUS
    <2> HIDE DEF new, old
    <2>6. /\ IsFiniteSet(Tokens(t, n, i))
          /\ Cardinality(Tokens(t, n, i)) = Cardinality(old) + Cardinality(new) - Cardinality(old \cap new)
      BY <2>2, <2>4, <2>5, FS_Union
    <2>7. Cardinality(old \cap new) = 0 /\ Cardinality(old) \in Nat
      BY <2>3, <2>5, FS_EmptySet, FS_CardinalityType
    <2>8. /\ IsFiniteSet(Tokens(t, n, i)) /\ Cardinality(Tokens(t, n, i)) = Cardinality(old) + e.len
          /\ Cardinality(old) \in Nat
      <3> DEFINE x == Cardinality(old)
                 y == Cardinality(new)
      <3>1. x \in Nat /\ y \in Nat /\ y = e.len /\ Cardinality(Tokens(t, n, i)) = x + y - 0
        BY <1>2, <2>4, <2>6, <2>7
      <3> HIDE DEF x, y
      <3>2. x + y - 0 = x + e.len /\ x \in Nat
        BY <3>1
      <3>3. Cardinality(Tokens(t, n, i)) = x + e.len
        BY <3>1, <3>2
      <3> QED  BY <2>6, <3>2, <3>3 DEF x
    <2> QED  BY <1>2, <1>7, <2>8 DEF t, e, old
  <1>8. CASE ~(e.type = "delta" /\ e.item = i)
    <2>1. b = a
      BY <1>4, <1>8
    <2>2. Tokens(t, n, i) = Tokens(s, Len(s), i)
      <3> HIDE DEF a, b
      <3>1. UNION {{j} \X (1..t[j].len) : j \in b} = UNION {{j} \X (1..s[j].len) : j \in a}
        BY <1>5, <2>1
      <3> QED  BY <1>6, <3>1
    <2>3. Cardinality(Tokens(s, Len(s), i)) \in Nat
      BY FS_CardinalityType
    <2> QED  BY <1>8, <2>2, <2>3 DEF t, e
  <1> QED  BY <1>7, <1>8

\* An item is opened.
LEMMA Opens ==
    ASSUME NEW s \in Seq(Events), NEW q \in Seq(Events), Len(q) = 1, NEW extra, NEW item, NEW length,
           NEW done \in Seq(Nat), Tells(s, extra, None, length, done),
           q[1].type = "added", q[1].item = item, item # None, q[1].at = Len(done),
           \A d \in 1..Len(done) : done[d] # item
    PROVE  Tells(s \o q, extra, item, 0, done)
  <1> DEFINE t == s \o q
             n == Len(s) + 1
             e == q[1]
  <1>1. /\ t \in Seq(Events) /\ Len(t) = n /\ n \in Nat /\ t[n] = e /\ \A i \in 1..Len(s) : t[i] = s[i]
        /\ \A type : Of(t, n - 1, type) = Of(s, Len(s), type)
        /\ \A type : Of(t, n, type) = Of(s, Len(s), type) \cup {i \in {n} : e.type = type}
        /\ \A type : Cardinality(Of(t, n, type)) = Cardinality(Of(s, Len(s), type)) + IF e.type = type THEN 1 ELSE 0
    BY OneMore
  <1>2. Len(s) \in Nat /\ Len(done) \in Nat /\ \A type : \A i \in Of(s, Len(s), type) : i \in 1..Len(s)
    BY LenProperties DEF Of
  <1>3. /\ FollowsProtocol(s, extra)
        /\ Cardinality(Of(s, Len(s), "done")) = Len(done) /\ Cardinality(Of(s, Len(s), "added")) = Len(done)
        /\ \A i \in 1..Len(s) : s[i].item = None \/ \E d \in 1..Len(done) : s[i].item = done[d]
        /\ \A i \in Of(s, Len(s), "done") : s[i].at + 1 \in 1..Len(done) /\ done[s[i].at + 1] = s[i].item
        /\ \A i \in Nat : IsFiniteSet(Tokens(s, Len(s), i))
    BY <1>2 DEF Tells
  <1>4. \A i \in 1..Len(s) : s[i].item # item
    BY <1>3
  <1>5. FollowsProtocol(t, extra)
    <2>1. InTurn(t, n)
      BY <1>1, <1>2, <1>3, <1>4 DEF InTurn
    <2>2. TextFits(t, n, extra)
      BY <1>1 DEF TextFits
    <2> QED  BY <1>3, <2>1, <2>2, FollowsMore
  <1>6. /\ Cardinality(Of(t, n, "done")) = Len(done) /\ Cardinality(Of(t, n, "added")) = Len(done) + 1
        /\ \A i \in Of(t, n, "done") : t[i].at + 1 \in 1..Len(done) /\ done[t[i].at + 1] = t[i].item
        /\ n \in Of(t, n, "added")
    BY <1>1, <1>2, <1>3
  <1>7. \A i \in 1..n : t[i].item \in {None, item} \/ \E d \in 1..Len(done) : t[i].item = done[d]
    <2> TAKE i \in 1..n
    <2>1. i \in 1..Len(s) \/ i = n
      BY <1>2
    <2> QED  BY <1>1, <1>3, <2>1
  <1>8. ASSUME NEW i \in Nat PROVE IsFiniteSet(Tokens(t, n, i))
    BY <1>3, MoreTokens
  <1>9. Cardinality(Tokens(t, n, item)) = 0
    <2>1. Tokens(s, Len(s), item) = {}
      BY <1>2, <1>4 DEF Tokens
    <2>2. IsFiniteSet(Tokens(s, Len(s), item)) /\ Cardinality(Tokens(s, Len(s), item)) = 0
      BY <2>1, FS_EmptySet
    <2> QED  BY <2>2, MoreTokens
  <1> HIDE DEF t, n
  <1>10. Tells(t, extra, item, 0, done)
    BY <1>1, <1>5, <1>6, <1>7, <1>8, <1>9, ZenonT(60) DEF Tells
  <1> QED  BY <1>10 DEF t

\* What InTurn asks of an event of the open item.
LEMMA OpenInTurn ==
    ASSUME NEW s \in Seq(Events), NEW q \in Seq(Events), Len(q) = 1, NEW extra, NEW open, NEW length,
           NEW done \in Seq(Nat), Tells(s, extra, open, length, done), open # None,
           q[1].type \notin {"added", "completed"}, q[1].item = open, q[1].at = Len(done)
    PROVE  InTurn(s \o q, Len(s) + 1)
  <1> DEFINE t == s \o q
             n == Len(s) + 1
             e == q[1]
  <1>1. /\ t[n] = e /\ \A i \in 1..Len(s) : t[i] = s[i]
        /\ \A type : Of(t, n - 1, type) = Of(s, Len(s), type)
    BY OneMore
  <1>2. Len(done) \in Nat /\ \A type : \A i \in Of(s, Len(s), type) : i \in 1..Len(s)
    BY LenProperties DEF Of
  <1>3. /\ Cardinality(Of(s, Len(s), "done")) = Len(done) /\ Cardinality(Of(s, Len(s), "added")) = Len(done) + 1
        /\ \E i \in Of(s, Len(s), "added") : s[i].item = open /\ s[i].at = Len(done)
    BY DEF Tells
  <1>4. \E i \in Of(t, n - 1, "added") : t[i].item = open /\ t[i].at = Len(done)
    BY <1>1, <1>2, <1>3
  <1>5. Cardinality(Of(t, n - 1, "done")) = Len(done) /\ Cardinality(Of(t, n - 1, "added")) = Len(done) + 1
    BY <1>1, <1>3
  <1> HIDE DEF t, n
  <1>6. InTurn(t, n)
    BY <1>1, <1>2, <1>4, <1>5 DEF InTurn
  <1> QED  BY <1>6 DEF t, n

\* The open item goes on.
LEMMA GoesOn ==
    ASSUME NEW s \in Seq(Events), NEW q \in Seq(Events), Len(q) = 1, NEW extra \in Nat, NEW open \in Nat, NEW length \in Nat,
           NEW done \in Seq(Nat), Tells(s, extra, open, length, done), open # None,
           q[1].type \in {"part", "delta", "text_done", "part_done", "args_done"},
           q[1].item = open, q[1].at = Len(done),
           q[1].type = "text_done" => q[1].len = length + IF open = Message THEN extra ELSE 0
    PROVE  Tells(s \o q, extra, open, length + IF q[1].type = "delta" THEN q[1].len ELSE 0, done)
  <1> DEFINE t == s \o q
             n == Len(s) + 1
             e == q[1]
             more == length + IF e.type = "delta" THEN e.len ELSE 0
  <1>1. /\ t \in Seq(Events) /\ Len(t) = n /\ n \in Nat /\ t[n] = e /\ \A i \in 1..Len(s) : t[i] = s[i]
        /\ \A type : Of(t, n, type) = Of(s, Len(s), type) \cup {i \in {n} : e.type = type}
    BY OneMore
  <1>2. Len(s) \in Nat /\ \A type : \A i \in Of(s, Len(s), type) : i \in 1..Len(s)
    BY LenProperties DEF Of
  <1>3. /\ FollowsProtocol(s, extra)
        /\ Cardinality(Of(s, Len(s), "done")) = Len(done) /\ Cardinality(Of(s, Len(s), "added")) = Len(done) + 1
        /\ \A i \in 1..Len(s) : s[i].item \in {None, open} \/ \E d \in 1..Len(done) : s[i].item = done[d]
        /\ \E i \in Of(s, Len(s), "added") : s[i].item = open /\ s[i].at = Len(done)
        /\ \A i \in Of(s, Len(s), "done") : s[i].at + 1 \in 1..Len(done) /\ done[s[i].at + 1] = s[i].item
        /\ \A i \in Nat : IsFiniteSet(Tokens(s, Len(s), i))
        /\ Cardinality(Tokens(s, Len(s), open)) = length
    BY DEF Tells
  <1>4. Of(t, n, "done") = Of(s, Len(s), "done") /\ Of(t, n, "added") = Of(s, Len(s), "added")
    BY <1>1, ZenonT(60)
  <1>5. ASSUME NEW i \in Nat PROVE IsFiniteSet(Tokens(t, n, i))
    BY <1>3, MoreTokens
  <1>6. Cardinality(Tokens(t, n, open)) = more
    BY <1>3, MoreTokens, ZenonT(60)
  <1>7. FollowsProtocol(t, extra)
    <2>1. InTurn(t, n)
      BY OpenInTurn
    <2>2. TextFits(t, n, extra)
      <3>1. e.type = "text_done" => Cardinality(Tokens(t, n, open)) = length
        BY <1>6
      <3> QED  BY <1>1, <3>1 DEF TextFits
    <2> QED  BY <1>3, <2>1, <2>2, FollowsMore
  <1>8. /\ \E i \in Of(t, n, "added") : t[i].item = open /\ t[i].at = Len(done)
        /\ \A i \in Of(t, n, "done") : t[i].at + 1 \in 1..Len(done) /\ done[t[i].at + 1] = t[i].item
    BY <1>1, <1>2, <1>3, <1>4
  <1>9. \A i \in 1..n : t[i].item \in {None, open} \/ \E d \in 1..Len(done) : t[i].item = done[d]
    <2> TAKE i \in 1..n
    <2>1. i \in 1..Len(s) \/ i = n
      BY <1>2
    <2> QED  BY <1>1, <1>3, <2>1
  <1> HIDE DEF t, n, more
  <1>10. Tells(t, extra, open, more, done)
    BY <1>1, <1>3, <1>4, <1>5, <1>6, <1>7, <1>8, <1>9 DEF Tells
  <1> QED  BY <1>10 DEF t, more

\* The open item is closed.
LEMMA Closes ==
    ASSUME NEW s \in Seq(Events), NEW q \in Seq(Events), Len(q) = 1, NEW extra, NEW open \in Nat, NEW length,
           NEW done \in Seq(Nat), Tells(s, extra, open, length, done), open # None,
           q[1].type = "done", q[1].item = open, q[1].at = Len(done), NEW any
    PROVE  Tells(s \o q, extra, None, any, Append(done, open))
  <1> DEFINE t == s \o q
             n == Len(s) + 1
             e == q[1]
             more == Append(done, open)
  <1>1. /\ t \in Seq(Events) /\ Len(t) = n /\ n \in Nat /\ t[n] = e /\ \A i \in 1..Len(s) : t[i] = s[i]
        /\ \A type : Of(t, n, type) = Of(s, Len(s), type) \cup {i \in {n} : e.type = type}
        /\ \A type : Cardinality(Of(t, n, type)) = Cardinality(Of(s, Len(s), type)) + IF e.type = type THEN 1 ELSE 0
    BY OneMore
  <1>2. Len(s) \in Nat /\ \A type : \A i \in Of(s, Len(s), type) : i \in 1..Len(s)
    BY LenProperties DEF Of
  <1>3. /\ FollowsProtocol(s, extra)
        /\ Cardinality(Of(s, Len(s), "done")) = Len(done) /\ Cardinality(Of(s, Len(s), "added")) = Len(done) + 1
        /\ \A i \in 1..Len(s) : s[i].item \in {None, open} \/ \E d \in 1..Len(done) : s[i].item = done[d]
        /\ \A i \in Of(s, Len(s), "done") : s[i].at + 1 \in 1..Len(done) /\ done[s[i].at + 1] = s[i].item
        /\ \A i \in Nat : IsFiniteSet(Tokens(s, Len(s), i))
    BY DEF Tells
  <1>4. /\ more \in Seq(Nat) /\ Len(more) = Len(done) + 1 /\ Len(done) \in Nat /\ more[Len(done) + 1] = open
        /\ \A d \in 1..Len(done) : more[d] = done[d]
    BY AppendProperties, LenProperties
  <1>5. ASSUME NEW i \in Nat PROVE IsFiniteSet(Tokens(t, n, i))
    BY <1>3, MoreTokens
  <1>6. FollowsProtocol(t, extra)
    <2>1. InTurn(t, n)
      BY OpenInTurn
    <2>2. TextFits(t, n, extra)
      BY <1>1 DEF TextFits
    <2> QED  BY <1>3, <2>1, <2>2, FollowsMore
  <1> HIDE DEF more
  <1>7. Cardinality(Of(t, n, "done")) = Len(more) /\ Cardinality(Of(t, n, "added")) = Len(more)
    BY <1>1, <1>3, <1>4
  <1>8. \A i \in Of(t, n, "done") : t[i].at + 1 \in 1..Len(more) /\ more[t[i].at + 1] = t[i].item
    <2> TAKE i \in Of(t, n, "done")
    <2>1. i \in Of(s, Len(s), "done") \/ i = n
      BY <1>1
    <2>2. CASE i \in Of(s, Len(s), "done")
      <3>1. t[i] = s[i] /\ s[i].at + 1 \in 1..Len(done) /\ done[s[i].at + 1] = s[i].item
        BY <1>1, <1>2, <1>3, <2>2
      <3> QED  BY <1>4, <3>1, SMTT(40)
    <2>3. CASE i = n
      BY <1>1, <1>4, <2>3, SMTT(40)
    <2> QED  BY <2>1, <2>2, <2>3
  <1>9. \A i \in 1..n : t[i].item \in {None, None} \/ \E d \in 1..Len(more) : t[i].item = more[d]
    <2> TAKE i \in 1..n
    <2>1. i \in 1..Len(s) \/ i = n
      BY <1>2
    <2>2. Len(done) + 1 \in 1..Len(more) /\ \A d \in 1..Len(done) : d \in 1..Len(more)
      BY <1>4
    <2>3. CASE i = n \/ s[i].item = open
      BY <1>1, <1>4, <2>1, <2>2, <2>3, SMTT(40)
    <2>4. CASE i \in 1..Len(s) /\ s[i].item # open
      BY <1>1, <1>3, <1>4, <2>2, <2>4
    <2> QED  BY <2>1, <2>3, <2>4
  <1> HIDE DEF t, n
  <1>10. Cardinality(Of(t, n, "added")) = Len(more) + 0
    BY <1>4, <1>7
  <1>11. Tells(t, extra, None, any, more)
    BY <1>1, <1>5, <1>6, <1>7, <1>8, <1>9, <1>10 DEF Tells
  <1> QED  BY <1>11 DEF t, more

\* An event of the response itself.
LEMMA SpeaksFor ==
    ASSUME NEW s \in Seq(Events), NEW q \in Seq(Events), Len(q) = 1, NEW extra, NEW open, NEW length,
           NEW done \in Seq(Nat), Tells(s, extra, open, length, done), q[1].item = None,
           \/ q[1].type \in {"created", "in_progress", "error", "failed"}
           \/ q[1].type = "completed" /\ open = None
    PROVE  Tells(s \o q, extra, open, length, done)
  <1> DEFINE t == s \o q
             n == Len(s) + 1
             e == q[1]
  <1>1. /\ t \in Seq(Events) /\ Len(t) = n /\ n \in Nat /\ t[n] = e /\ \A i \in 1..Len(s) : t[i] = s[i]
        /\ \A type : Of(t, n - 1, type) = Of(s, Len(s), type)
        /\ \A type : Of(t, n, type) = Of(s, Len(s), type) \cup {i \in {n} : e.type = type}
    BY OneMore
  <1>2. Len(s) \in Nat /\ Len(done) \in Nat /\ \A type : \A i \in Of(s, Len(s), type) : i \in 1..Len(s)
    BY LenProperties DEF Of
  <1>3. /\ FollowsProtocol(s, extra)
        /\ Cardinality(Of(s, Len(s), "done")) = Len(done)
        /\ Cardinality(Of(s, Len(s), "added")) = Len(done) + IF open = None THEN 0 ELSE 1
        /\ \A i \in 1..Len(s) : s[i].item \in {None, open} \/ \E d \in 1..Len(done) : s[i].item = done[d]
        /\ open # None => \E i \in Of(s, Len(s), "added") : s[i].item = open /\ s[i].at = Len(done)
        /\ \A i \in Of(s, Len(s), "done") : s[i].at + 1 \in 1..Len(done) /\ done[s[i].at + 1] = s[i].item
        /\ \A i \in Nat : IsFiniteSet(Tokens(s, Len(s), i))
        /\ open # None => Cardinality(Tokens(s, Len(s), open)) = length
    BY DEF Tells
  <1>4. Of(t, n, "done") = Of(s, Len(s), "done") /\ Of(t, n, "added") = Of(s, Len(s), "added") /\ Of(t, n, "delta") = Of(s, Len(s), "delta")
    BY <1>1, ZenonT(60)
  <1>5. \A i : Tokens(t, n, i) = Tokens(s, Len(s), i)
    <2>1. Len(s) \in 0..Len(s)
      BY <1>2
    <2>2. \A i : Tokens(t, Len(s), i) = Tokens(s, Len(s), i)
      BY <2>1, OfPrefix
    <2>3. Of(t, Len(s), "delta") = Of(s, Len(s), "delta")
      BY <2>1, OfPrefix
    <2>4. \A i : Tokens(t, n, i) = Tokens(t, Len(s), i)
      BY <1>4, <2>3 DEF Tokens
    <2> QED  BY <2>2, <2>4
  <1>6. FollowsProtocol(t, extra)
    <2>1. InTurn(t, n)
      BY <1>1, <1>2, <1>3 DEF InTurn
    <2>2. TextFits(t, n, extra)
      BY <1>1 DEF TextFits
    <2> QED  BY <1>3, <2>1, <2>2, FollowsMore
  <1>7. /\ open # None => \E i \in Of(t, n, "added") : t[i].item = open /\ t[i].at = Len(done)
        /\ \A i \in Of(t, n, "done") : t[i].at + 1 \in 1..Len(done) /\ done[t[i].at + 1] = t[i].item
    BY <1>1, <1>2, <1>3, <1>4
  <1>8. \A i \in 1..n : t[i].item \in {None, open} \/ \E d \in 1..Len(done) : t[i].item = done[d]
    <2> TAKE i \in 1..n
    <2>1. i \in 1..Len(s) \/ i = n
      BY <1>2
    <2> QED  BY <1>1, <1>3, <2>1
  <1> HIDE DEF t, n
  <1>9. Tells(t, extra, open, length, done)
    BY <1>1, <1>3, <1>4, <1>5, <1>6, <1>7, <1>8 DEF Tells
  <1> QED  BY <1>9 DEF t

-----------------------------------------------------------------------------
(* What the steps' events tell.  A state of the telling: the open item, the tokens it    *)
(* has got, the closed items.                                                            *)

Leads(es, extra, p, q) ==
    \A s, t \in Seq(Events) :
        Tells(s, extra, p[1], p[2], p[3]) /\ Alike(t, es) => Tells(s \o t, extra, q[1], q[2], q[3])

LEMMA NothingLeads == ASSUME NEW extra, NEW p PROVE Leads(<<>>, extra, p, p)
  <1>1. ASSUME NEW t \in Seq(Events), Alike(t, <<>>) PROVE t = <<>>
    BY <1>1, EmptySeq DEF Alike
  <1>2. \A s \in Seq(Events) : s \o <<>> = s
    BY ConcatEmptySeq
  <1> QED  BY <1>1, <1>2 DEF Leads

LEMMA BothLead ==
    ASSUME NEW a \in Seq(Plain), NEW b \in Seq(Plain), NEW extra, NEW p, NEW q, NEW r,
           Leads(a, extra, p, q), Leads(b, extra, q, r)
    PROVE  Leads(a \o b, extra, p, r)
  <1> SUFFICES ASSUME NEW s \in Seq(Events), NEW t \in Seq(Events), Tells(s, extra, p[1], p[2], p[3]), Alike(t, a \o b)
               PROVE  Tells(s \o t, extra, r[1], r[2], r[3])
    BY DEF Leads
  <1> DEFINE u == SubSeq(t, 1, Len(a))
             v == SubSeq(t, Len(a) + 1, Len(t))
  <1>1. /\ Len(a) \in Nat /\ Len(b) \in Nat /\ Len(t) \in Nat /\ Len(t) = Len(a) + Len(b)
        /\ \A i \in 1..(Len(a) + Len(b)) : (a \o b)[i] = IF i <= Len(a) THEN a[i] ELSE b[i - Len(a)]
    BY ConcatProperties, LenProperties DEF Alike
  <1>2. \A i \in 1..Len(t) : t[i] \in Events
    BY ElementOfSeq
  <1>3. u \in Seq(Events) /\ Len(u) = Len(a) /\ \A i \in 1..Len(a) : u[i] = t[i]
    <2>1. \A i \in 1..Len(a) : t[i] \in Events
      BY <1>1, <1>2
    <2> QED  BY <1>1, <2>1, SubSeqProperties
  <1>4. v \in Seq(Events) /\ Len(v) = Len(b) /\ \A i \in 1..Len(b) : v[i] = t[Len(a) + i]
    <2>1. \A i \in (Len(a) + 1)..Len(t) : t[i] \in Events
      BY <1>1, <1>2
    <2>2. Len(a) + 1 \in Int /\ Len(t) \in Int /\ Len(t) - (Len(a) + 1) + 1 = Len(b)
      BY <1>1
    <2>3. /\ v \in Seq(Events) /\ Len(v) = IF Len(a) + 1 <= Len(t) THEN Len(t) - (Len(a) + 1) + 1 ELSE 0
          /\ \A i \in 1..(Len(t) - (Len(a) + 1) + 1) : v[i] = t[Len(a) + 1 + i - 1]
      BY <2>1, <2>2, SubSeqProperties
    <2>4. Len(v) = Len(b)
      BY <1>1, <2>2, <2>3
    <2>5. \A i \in 1..Len(b) : v[i] = t[Len(a) + 1 + i - 1] /\ Len(a) + 1 + i - 1 = Len(a) + i
      BY <1>1, <2>2, <2>3
    <2> QED  BY <2>3, <2>4, <2>5
  <1>5. t = u \o v
    <2>1. 1 \in 1..(Len(t) + 1) /\ Len(a) \in (1 - 1)..Len(t) /\ Len(t) \in Len(a)..Len(t)
      BY <1>1
    <2>2. SubSeq(t, 1, Len(a)) \o SubSeq(t, Len(a) + 1, Len(t)) = SubSeq(t, 1, Len(t))
      BY <2>1, ConcatAdjacentSubSeq
    <2> QED  BY <2>2, SubSeqFull
  <1> HIDE DEF u, v
  <1>6. Alike(u, a)
    <2> SUFFICES ASSUME NEW i \in 1..Len(a)
                 PROVE  /\ u[i].type = a[i].type /\ u[i].item = a[i].item
                        /\ u[i].at = a[i].at /\ u[i].len = a[i].len
      BY <1>3 DEF Alike
    <2>1. i \in 1..Len(a \o b) /\ (a \o b)[i] = a[i] /\ u[i] = t[i]
      BY <1>1, <1>3, ConcatProperties
    <2> QED  BY <2>1 DEF Alike
  <1>7. Alike(v, b)
    <2> SUFFICES ASSUME NEW i \in 1..Len(b)
                 PROVE  /\ v[i].type = b[i].type /\ v[i].item = b[i].item
                        /\ v[i].at = b[i].at /\ v[i].len = b[i].len
      BY <1>4 DEF Alike
    <2> DEFINE j == Len(a) + i
    <2>1. j \in 1..(Len(a) + Len(b)) /\ ~(j <= Len(a)) /\ j - Len(a) = i
      BY <1>1
    <2>2. j \in 1..Len(a \o b) /\ (a \o b)[j] = b[i] /\ v[i] = t[j]
      BY <1>1, <1>4, <2>1, ConcatProperties
    <2> HIDE DEF j
    <2> QED  BY <2>2 DEF Alike
  <1>8. s \o t = (s \o u) \o v /\ s \o u \in Seq(Events)
    <2>1. (s \o u) \o v = s \o (u \o v)
      <3>1. s \in Seq(Events) /\ u \in Seq(Events) /\ v \in Seq(Events)
        BY <1>3, <1>4
      <3> QED  BY <3>1, ConcatAssociative, SMTT(40)
    <2>2. s \o u \in Seq(Events)
      BY <1>3, ConcatProperties
    <2> QED  BY <1>5, <2>1, <2>2
  <1>9. Tells(s \o u, extra, q[1], q[2], q[3])
    BY <1>3, <1>6 DEF Leads
  <1>10. Tells((s \o u) \o v, extra, r[1], r[2], r[3])
    BY <1>4, <1>7, <1>8, <1>9 DEF Leads
  <1> QED  BY <1>8, <1>10

LEMMA OneAlike ==
    ASSUME NEW e, NEW t, Alike(t, <<e>>)
    PROVE  Len(t) = 1 /\ t[1].type = e.type /\ t[1].item = e.item /\ t[1].at = e.at /\ t[1].len = e.len
  BY DEF Alike

LEMMA OpensLeads ==
    ASSUME NEW extra, NEW item \in Nat \ {None}, NEW any, NEW done \in Seq(Nat), \A d \in 1..Len(done) : done[d] # item
    PROVE  Leads(<<Event("added", item, Len(done))>>, extra, <<None, any, done>>, <<item, 0, done>>)
  <1> SUFFICES ASSUME NEW s \in Seq(Events), NEW t \in Seq(Events), Tells(s, extra, None, any, done),
                      Alike(t, <<Event("added", item, Len(done))>>)
               PROVE  Tells(s \o t, extra, item, 0, done)
    BY DEF Leads
  <1>1. Len(t) = 1 /\ t[1].type = "added" /\ t[1].item = item /\ t[1].at = Len(done)
    BY OneAlike DEF Event
  <1> QED  BY <1>1, Opens

LEMMA GoesOnLeads ==
    ASSUME NEW extra \in Nat, NEW item \in Nat \ {None}, NEW length \in Nat, NEW done \in Seq(Nat), NEW len \in Nat
    PROVE  /\ \A type \in {"part", "delta", "part_done", "args_done"} :
                Leads(<<Event(type, item, Len(done))>>, extra, <<item, length, done>>, <<item, length, done>>)
           /\ Leads(<<Text("delta", item, Len(done), len)>>, extra, <<item, length, done>>, <<item, length + len, done>>)
           /\ len = (length + IF item = Message THEN extra ELSE 0) =>
                Leads(<<Text("text_done", item, Len(done), len)>>, extra, <<item, length, done>>, <<item, length, done>>)
  <1>1. ASSUME NEW type \in {"part", "delta", "part_done", "args_done"}, NEW s \in Seq(Events), NEW t \in Seq(Events),
               Tells(s, extra, item, length, done), Alike(t, <<Event(type, item, Len(done))>>)
        PROVE  Tells(s \o t, extra, item, length, done)
    <2>1. Len(t) = 1 /\ t[1].type = type /\ t[1].item = item /\ t[1].at = Len(done) /\ t[1].len = 0
      BY <1>1, OneAlike DEF Event
    <2>2. Tells(s \o t, extra, item, length + IF t[1].type = "delta" THEN t[1].len ELSE 0, done)
      BY <1>1, <2>1, GoesOn
    <2>3. (length + IF t[1].type = "delta" THEN t[1].len ELSE 0) = length
      BY <2>1
    <2> QED  BY <2>2, <2>3
  <1>2. ASSUME NEW s \in Seq(Events), NEW t \in Seq(Events),
               Tells(s, extra, item, length, done), Alike(t, <<Text("delta", item, Len(done), len)>>)
        PROVE  Tells(s \o t, extra, item, length + len, done)
    <2>1. Len(t) = 1 /\ t[1].type = "delta" /\ t[1].item = item /\ t[1].at = Len(done) /\ t[1].len = len
      BY <1>2, OneAlike DEF Text
    <2>2. Tells(s \o t, extra, item, length + IF t[1].type = "delta" THEN t[1].len ELSE 0, done)
      BY <1>2, <2>1, GoesOn
    <2> QED  BY <2>1, <2>2
  <1>3. ASSUME NEW s \in Seq(Events), NEW t \in Seq(Events), len = (length + IF item = Message THEN extra ELSE 0),
               Tells(s, extra, item, length, done), Alike(t, <<Text("text_done", item, Len(done), len)>>)
        PROVE  Tells(s \o t, extra, item, length, done)
    <2>1. Len(t) = 1 /\ t[1].type = "text_done" /\ t[1].item = item /\ t[1].at = Len(done) /\ t[1].len = len
      BY <1>3, OneAlike DEF Text
    <2>2. Tells(s \o t, extra, item, length + IF t[1].type = "delta" THEN t[1].len ELSE 0, done)
      BY <1>3, <2>1, GoesOn
    <2>3. (length + IF t[1].type = "delta" THEN t[1].len ELSE 0) = length
      BY <2>1
    <2> QED  BY <2>2, <2>3
  <1> QED  BY <1>1, <1>2, <1>3 DEF Leads

LEMMA ClosesLeads ==
    ASSUME NEW extra, NEW item \in Nat \ {None}, NEW length, NEW done \in Seq(Nat), NEW any
    PROVE  Leads(<<Event("done", item, Len(done))>>, extra, <<item, length, done>>, <<None, any, Append(done, item)>>)
  <1> SUFFICES ASSUME NEW s \in Seq(Events), NEW t \in Seq(Events), Tells(s, extra, item, length, done),
                      Alike(t, <<Event("done", item, Len(done))>>)
               PROVE  Tells(s \o t, extra, None, any, Append(done, item))
    BY DEF Leads
  <1>1. Len(t) = 1 /\ t[1].type = "done" /\ t[1].item = item /\ t[1].at = Len(done)
    BY OneAlike DEF Event
  <1> QED  BY <1>1, Closes

LEMMA SpeaksForLeads ==
    ASSUME NEW extra, NEW open, NEW length, NEW done \in Seq(Nat), NEW type,
           type \in {"created", "in_progress", "error", "failed"} \/ (type = "completed" /\ open = None)
    PROVE  Leads(<<Event(type, None, 0)>>, extra, <<open, length, done>>, <<open, length, done>>)
  <1> SUFFICES ASSUME NEW s \in Seq(Events), NEW t \in Seq(Events), Tells(s, extra, open, length, done),
                      Alike(t, <<Event(type, None, 0)>>)
               PROVE  Tells(s \o t, extra, open, length, done)
    BY DEF Leads
  <1>1. Len(t) = 1 /\ t[1].type = type /\ t[1].item = None
    BY OneAlike DEF Event
  <1> QED  BY <1>1, SpeaksFor

\* A message or a call is opened and closed.
LEMMA ItemsLead ==
    ASSUME NEW extra \in Nat, NEW item \in Nat \ {None}, NEW length \in Nat, NEW done \in Seq(Nat), NEW len \in Nat, NEW any
    PROVE  /\ (\A d \in 1..Len(done) : done[d] # item) =>
                /\ Leads(OpenMessage(item, Len(done)), extra, <<None, any, done>>, <<item, 0, done>>)
                /\ Leads(OpenCall(item, Len(done)), extra, <<None, any, done>>, <<item, 0, done>>)
           /\ len = (length + IF item = Message THEN extra ELSE 0) =>
                Leads(CloseMessage(item, Len(done), len), extra, <<item, length, done>>, <<None, any, Append(done, item)>>)
           /\ Leads(CloseCall(item, Len(done)), extra, <<item, length, done>>, <<None, any, Append(done, item)>>)
  <1> DEFINE at == Len(done)
             p == <<None, any, done>>
             o == <<item, 0, done>>
             g == <<item, length, done>>
             c == <<None, any, Append(done, item)>>
  <1>1. at \in Nat
    BY LenProperties
  <1>2. /\ \A type \in EventTypes : <<Event(type, item, at)>> \in Seq(Plain) /\ <<Text(type, item, at, len)>> \in Seq(Plain)
    <2>1. \A type \in EventTypes : Event(type, item, at) \in Plain /\ Text(type, item, at, len) \in Plain
      BY <1>1, EventIs
    <2> QED  BY <2>1
  <1>3. {"added", "part", "part_done", "args_done", "text_done", "done"} \subseteq EventTypes
    BY DEF EventTypes
  <1>4. /\ OpenMessage(item, at) = <<Event("added", item, at)>> \o <<Event("part", item, at)>>
        /\ CloseCall(item, at) = <<Event("args_done", item, at)>> \o <<Event("done", item, at)>>
        /\ CloseMessage(item, at, len) = <<Text("text_done", item, at, len)>>
              \o (<<Event("part_done", item, at)>> \o <<Event("done", item, at)>>)
    BY DEF OpenMessage, CloseCall, CloseMessage
  <1>5. /\ \A type \in {"part", "part_done", "args_done"} : Leads(<<Event(type, item, at)>>, extra, g, g)
        /\ Leads(<<Event("part", item, at)>>, extra, o, o)
        /\ len = (length + IF item = Message THEN extra ELSE 0) => Leads(<<Text("text_done", item, at, len)>>, extra, g, g)
        /\ Leads(<<Event("done", item, at)>>, extra, g, c)
    BY GoesOnLeads, ClosesLeads
  <1>6. (\A d \in 1..Len(done) : done[d] # item) => Leads(<<Event("added", item, at)>>, extra, p, o)
    BY OpensLeads
  <1> HIDE DEF p, o, g, c, at
  <1>7. <<Event("part_done", item, at)>> \o <<Event("done", item, at)>> \in Seq(Plain)
    BY <1>2, <1>3, ConcatProperties
  <1>8. (\A d \in 1..Len(done) : done[d] # item) =>
            Leads(OpenMessage(item, at), extra, p, o) /\ Leads(OpenCall(item, at), extra, p, o)
    BY <1>2, <1>3, <1>4, <1>5, <1>6, BothLead DEF OpenCall
  <1>9. Leads(CloseCall(item, at), extra, g, c)
    BY <1>2, <1>3, <1>4, <1>5, BothLead
  <1>10. Leads(<<Event("part_done", item, at)>> \o <<Event("done", item, at)>>, extra, g, c)
    BY <1>2, <1>3, <1>5, BothLead
  <1>11. len = (length + IF item = Message THEN extra ELSE 0) => Leads(CloseMessage(item, at, len), extra, g, c)
    BY <1>2, <1>3, <1>4, <1>5, <1>7, <1>10, BothLead
  <1> QED  BY <1>8, <1>9, <1>11 DEF p, o, g, c, at

-----------------------------------------------------------------------------
(* The generator's own state. *)

\* What closes an item takes the next id.
LEMMA NewItemGrows ==
    ASSUME NEW items \in Seq(Nat), NEW item \in Nat
    PROVE  NewItem(Append(items, item)) = NewItem(items) + IF item = Reasoning THEN 0 ELSE 1
  <1> DEFINE more == Append(items, item)
             n == Len(items) + 1
             A == {i \in DOMAIN items : items[i] # Reasoning}
             B == {i \in DOMAIN more : more[i] # Reasoning}
  <1>1. /\ more \in Seq(Nat) /\ Len(more) = n /\ Len(items) \in Nat /\ more[n] = item
        /\ \A i \in 1..Len(items) : more[i] = items[i]
    BY AppendProperties, LenProperties
  <1>2. DOMAIN items = 1..Len(items) /\ DOMAIN more = 1..n
    BY <1>1, LenProperties
  <1>3. IsFiniteSet(A) /\ Cardinality(A) \in Nat
    BY NewItemIs
  <1>4. n \notin A
    BY <1>1, <1>2
  <1>5. NewItem(items) = Cardinality(A) + 1 + 2 /\ NewItem(more) = Cardinality(B) + 1 + 2
    BY DEF NewItem, Item
  <1> HIDE DEF more
  <1>6. \A i : i \in 1..n <=> i \in 1..Len(items) \/ i = n
    BY <1>1
  <1>7. B = A \cup {i \in {n} : item # Reasoning}
    <2> HIDE DEF n
    <2> QED  BY <1>1, <1>2, <1>6
  <1> HIDE DEF A, B, n
  <1>8. CASE item = Reasoning
    <2>1. B = A
      BY <1>7, <1>8
    <2> QED  BY <1>3, <1>8, <1>5, <2>1 DEF more
  <1>9. CASE item # Reasoning
    <2>1. B = A \cup {n}
      BY <1>7, <1>9
    <2>2. Cardinality(B) = Cardinality(A) + 1
      BY <1>3, <1>4, <2>1, FS_AddElement
    <2> QED  BY <1>3, <1>9, <1>5, <2>2 DEF more
  <1> QED  BY <1>8, <1>9

LEMMA IdsAreFresh ==
    ASSUME NEW items \in Seq(Nat), IdsCount(items), NEW d \in 1..Len(items)
    PROVE  items[d] # NewItem(items)
  <1>1. NewItem(items) \in Nat /\ NewItem(items) > Message
    BY NewItemIs
  <1>2. CASE items[d] = Reasoning
    BY <1>1, <1>2 DEF Reasoning, Message
  <1>3. CASE items[d] # Reasoning
    <2>1. \E n \in Nat : items[d] = Item(n + 1) /\ Item(n + 1) < NewItem(items)
      BY <1>3 DEF IdsCount
    <2> QED  BY <1>1, <2>1 DEF Item
  <1> QED  BY <1>2, <1>3

LEMMA IdsCountMore ==
    ASSUME NEW items \in Seq(Nat), IdsCount(items), NEW item \in Nat, item \in {Reasoning, NewItem(items)}
    PROVE  IdsCount(Append(items, item))
  <1> DEFINE more == Append(items, item)
  <1>1. /\ Len(more) = Len(items) + 1 /\ Len(items) \in Nat /\ more[Len(items) + 1] = item
        /\ \A d \in 1..Len(items) : more[d] = items[d]
    BY AppendProperties, LenProperties
  <1>2. NewItem(items) \in Nat /\ NewItem(items) > Message /\ Reasoning < Message
    <2>1. NewItem(items) \in Nat /\ NewItem(items) > Message
      BY NewItemIs
    <2> QED  BY <2>1 DEF Reasoning, Message
  <1>3. /\ NewItem(more) \in Nat /\ NewItem(more) >= NewItem(items)
        /\ item = NewItem(items) => NewItem(more) = NewItem(items) + 1
    BY <1>2, NewItemGrows DEF Reasoning, Message
  <1> HIDE DEF more
  <1>4. ASSUME NEW d \in 1..Len(items)
        PROVE  more[d] = Reasoning \/ \E n \in Nat : more[d] = Item(n + 1) /\ Item(n + 1) < NewItem(more)
    <2>1. items[d] = Reasoning \/ \E n \in Nat : items[d] = Item(n + 1) /\ Item(n + 1) < NewItem(items)
      BY DEF IdsCount
    <2>2. \A n \in Nat : Item(n + 1) \in Nat
      BY DEF Item
    <2> QED  BY <1>1, <1>2, <1>3, <2>1, <2>2
  <1>5. item = Reasoning \/ \E n \in Nat : item = Item(n + 1) /\ Item(n + 1) < NewItem(more)
    <2>1. CASE item = NewItem(items)
      <3> DEFINE c == Cardinality({i \in DOMAIN items : items[i] # Reasoning})
      <3>1. c \in Nat /\ item = Item(c + 1)
        BY <2>1, NewItemIs DEF NewItem
      <3> HIDE DEF c
      <3>2. Item(c + 1) < NewItem(more)
        BY <1>2, <1>3, <2>1, <3>1
      <3> QED  BY <3>1, <3>2
    <2> QED  BY <2>1
  <1>6. \A d \in 1..Len(more) : d \in 1..Len(items) \/ d = Len(items) + 1
    BY <1>1
  <1>7. IdsCount(more)
    BY <1>1, <1>4, <1>5, <1>6 DEF IdsCount
  <1> QED  BY <1>7 DEF more

Shape == ChunkFits /\ ItemsFit /\ TextCounted

\* A step that leaves the generator's items alone.
LEMMA ShapeOfSteps ==
    ASSUME Quirks = {}, TypeOK, Alive, Shape, Alive',
           \/ Prelude \/ EngineEnds \/ Reason \/ NoMoreCalls \/ Pass
           \/ \E c \in Chunks : Receive(c)
           \/ UNCHANGED vars
    PROVE  Shape'
  <1>1. text.all \in Nat /\ text.streamed \in Nat
    BY DEF TypeOK
  <1>2. CASE Prelude \/ EngineEnds \/ NoMoreCalls
    BY <1>1, <1>2 DEF Prelude, EngineEnds, NoMoreCalls, itemVars, Shape, ChunkFits, ItemsFit, TextCounted, Pending, Owed
  <1>3. CASE Pass \/ UNCHANGED vars
    BY <1>3 DEF Pass, vars, itemVars, Shape, ChunkFits, ItemsFit, TextCounted, Pending, Owed
  <1>4. CASE Reason
    <2>1. /\ pc = "reason" /\ pc' = "update" /\ reasoning' = (reasoning \/ chunk.reason)
          /\ UNCHANGED <<mode, chunk, said, text, kind, textOpen, index, active, semantic, output>>
      BY <1>4 DEF Reason
    <2>2. ~Pending /\ ~Pending' /\ Owed = 0 /\ Owed' = 0
      BY <2>1 DEF Pending, Owed
    <2>3. chunk.reason => ~semantic /\ ~textOpen
      BY <1>1, <2>1, <2>2 DEF Shape, ChunkFits, ItemsFit, TextCounted
    <2>4. ChunkFits' /\ TextCounted'
      BY <2>1, <2>2 DEF Shape, ChunkFits, TextCounted
    <2>5. reasoning \in BOOLEAN /\ textOpen \in BOOLEAN /\ chunk.reason \in BOOLEAN
      BY DEF TypeOK, Chunk
    <2>6. ItemsFit'
      BY <2>1, <2>2, <2>3, <2>5 DEF Shape, ItemsFit
    <2> QED  BY <2>4, <2>6 DEF Shape
  <1>5. ASSUME NEW c \in Chunks, Receive(c) PROVE Shape'
    BY <1>1, <1>5 DEF Receive, Possible, itemVars, Shape, ChunkFits, ItemsFit, TextCounted, Pending, Owed
  <1> QED  BY <1>2, <1>3, <1>4, <1>5

LEMMA ShapeOfUpdate == ASSUME Quirks = {}, TypeOK, Alive, Shape, Update PROVE Shape'
  <1> DEFINE new == IF chunk.text = "none" THEN 0 ELSE 1
  <1>1. text.all \in Nat /\ text.streamed \in Nat
    BY DEF TypeOK
  <1>2. /\ pc = "update" /\ kind' = Decided /\ text'.all = text.all + new
        /\ text'.streamed = text.streamed + (IF kind' = "text" THEN new ELSE 0)
        /\ pc' = (IF Semantic(chunk) THEN "close" ELSE "text")
        /\ UNCHANGED <<mode, chunk, itemVars>>
    BY DEF Update
  <1>3. /\ kind = "text" => kind' = "text"
        /\ kind = "tool_calls" => kind' = "tool_calls"
        /\ kind = "undecided" /\ chunk.text \notin {"plain", "call"} => kind' = "undecided"
        /\ kind = "undecided" /\ mode = "parser" /\ chunk.text # "plain" => kind' # "text"
    BY <1>2 DEF Decided
  <1>4. kind' = "text" /\ kind # "text" => kind = "undecided" /\ chunk.text \in {"plain", "call"}
    BY <1>2 DEF Decided
  <1>5. kind \in {"undecided", "text", "tool_calls"}
    BY DEF TypeOK
  <1>6. ChunkFits'
    BY <1>2, <1>3, <1>5 DEF Shape, ChunkFits, Pending, itemVars
  <1>7. Owed = 0 /\ Owed' = IF pc' = "text" /\ chunk.text # "none" /\ kind' = "text" THEN 1 ELSE 0
    BY <1>2 DEF Owed, Pending
  <1>8. ItemsFit'
    <2>1. textOpen => ~Semantic(chunk)
      BY <1>2 DEF Shape, ChunkFits, ItemsFit
    <2>2. textOpen => text'.streamed > Owed'
      BY <1>1, <1>2, <1>3, <1>7, <2>1 DEF Shape, ItemsFit
    <2> QED  BY <1>2, <1>3, <2>2 DEF Shape, ItemsFit, itemVars
  <1>9. TextCounted'
    <2>1. text'.streamed <= text'.all
      BY <1>1, <1>2 DEF Shape, TextCounted
    <2>2. kind' # "text" => text'.streamed = 0
      BY <1>1, <1>2, <1>3 DEF Shape, TextCounted
    <2>3. mode = "parser" /\ kind' = "text" => semantic \/ pc' = "close"
      BY <1>2, <1>3, <1>4 DEF Shape, ChunkFits, TextCounted
    <2>4. mode # "parser" /\ ~textOpen => text'.streamed = Owed'
      BY <1>1, <1>2, <1>3, <1>7 DEF Shape, ChunkFits, TextCounted
    <2> QED  BY <1>2, <2>1, <2>2, <2>3, <2>4 DEF TextCounted, itemVars
  <1> QED  BY <1>6, <1>8, <1>9 DEF Shape

LEMMA ShapeOfTextDelta == ASSUME Quirks = {}, TypeOK, Alive, Shape, TextDelta PROVE Shape'
  <1>1. text.all \in Nat /\ text.streamed \in Nat /\ index \in Nat /\ textOpen \in BOOLEAN /\ reasoning \in BOOLEAN
    BY DEF TypeOK
  <1>2. /\ pc = "text" /\ pc' = "next" /\ textOpen' = (textOpen \/ Pending)
        /\ index' = IF Pending /\ ~textOpen /\ reasoning THEN index + 1 ELSE index
        /\ UNCHANGED <<mode, chunk, text, kind, reasoning, active, semantic, output>>
    BY DEF TextDelta, Pending
  <1>3. Owed' = 0 /\ ~Pending' /\ (Pending => Owed = 1 /\ mode # "parser" /\ kind = "text") /\ (~Pending => Owed = 0)
    BY <1>2 DEF Owed, Pending, Shape, ChunkFits
  <1>4. ChunkFits'
    BY <1>2, <1>3 DEF Shape, ChunkFits
  <1>5. ItemsFit'
    <2>1. textOpen' => mode # "parser" /\ kind = "text" /\ text.streamed > 0
      BY <1>1, <1>2, <1>3 DEF Shape, ItemsFit, TextCounted
    <2>2. index' = IF textOpen' /\ reasoning THEN 1 ELSE 0
      BY <1>1, <1>2 DEF Shape, ItemsFit
    <2> QED  BY <1>2, <1>3, <2>1, <2>2 DEF Shape, ItemsFit
  <1>6. TextCounted'
    BY <1>1, <1>2, <1>3 DEF Shape, TextCounted
  <1> QED  BY <1>4, <1>5, <1>6 DEF Shape

LEMMA ShapeOfClose == ASSUME TypeOK, Alive, Shape, CloseReasoning PROVE Shape'
  <1>1. active \in Active /\ output \in Seq(Nat) /\ active.at \in Nat /\ reasoning \in BOOLEAN
    BY DEF TypeOK, Active
  <1>2. /\ pc = "close" /\ pc' = "calls" /\ semantic' = TRUE /\ reasoning' = FALSE
        /\ UNCHANGED <<mode, chunk, text, kind, textOpen, index>>
        /\ reasoning => output' = Append(output, Reasoning) /\ active' = [active EXCEPT !.at = @ + 1]
        /\ ~reasoning => output' = output /\ active' = active
    BY DEF CloseReasoning
  <1>3. mode = "parser" /\ ~textOpen /\ ~Pending /\ ~Pending' /\ Owed = 0 /\ Owed' = 0
    BY <1>2 DEF Shape, ChunkFits, ItemsFit, Pending, Owed
  <1>4. ChunkFits' /\ TextCounted'
    BY <1>2, <1>3 DEF Shape, ChunkFits, TextCounted
  <1>5. CASE reasoning
    <2>1. output = <<>> /\ active.kind = "none" /\ active.at = 0 /\ active.item = None /\ active.len = 0
      BY <1>5 DEF Shape, ItemsFit
    <2>2. active'.at = 1 /\ active'.kind = "none" /\ active'.item = None /\ active'.len = 0
      BY <1>1, <1>2, <1>5, <2>1 DEF Active
    <2>3. Len(output') = 1
      BY <1>2, <1>5, <2>1
    <2>4. IdsCount(output')
      BY <1>1, <1>2, <1>5, IdsCountMore DEF Shape, ItemsFit, Reasoning
    <2>5. index' = IF textOpen' /\ reasoning' THEN 1 ELSE 0
      BY <1>2, <1>3 DEF Shape, ItemsFit
    <2>6. ItemsFit'
      BY <1>2, <1>3, <2>2, <2>3, <2>4, <2>5 DEF ItemsFit
    <2> QED  BY <1>4, <2>6 DEF Shape
  <1>6. CASE ~reasoning
    <2>1. ItemsFit'
      BY <1>2, <1>3, <1>6 DEF Shape, ItemsFit
    <2> QED  BY <1>4, <2>1 DEF Shape
  <1> QED  BY <1>5, <1>6

\* Closing the active item, if that is done.
LEMMA ClosedIs ==
    ASSUME TypeOK, ItemsFit, NEW closes \in BOOLEAN, closes => active.kind # "none"
    PROVE  LET at == IF closes THEN active.at + 1 ELSE active.at
               done == IF closes THEN Append(output, active.item) ELSE output
           IN  at = Len(done) /\ at \in Nat /\ done \in Seq(Nat) /\ IdsCount(done) /\ NewItem(done) \in Nat /\ NewItem(done) > Message
  <1>1. active.item \in Nat /\ output \in Seq(Nat) /\ active.at = Len(output) /\ IdsCount(output) /\ Len(output) \in Nat
    BY LenProperties DEF TypeOK, Active, ItemsFit
  <1>2. CASE closes
    <2>1. active.item = NewItem(output)
      BY <1>2 DEF ItemsFit
    <2>2. /\ Append(output, active.item) \in Seq(Nat) /\ Len(Append(output, active.item)) = Len(output) + 1
          /\ IdsCount(Append(output, active.item))
      BY <1>1, <2>1, AppendProperties, IdsCountMore
    <2>3. NewItem(Append(output, active.item)) \in Nat /\ NewItem(Append(output, active.item)) > Message
      BY <2>2, NewItemIs
    <2>4. active.at + 1 = Len(output) + 1 /\ active.at + 1 \in Nat
      BY <1>1
    <2> QED  BY <1>2, <2>2, <2>3, <2>4
  <1>3. CASE ~closes
    BY <1>1, <1>3, NewItemIs
  <1> QED  BY <1>2, <1>3

LEMMA NoItemIs ==
    ASSUME NEW at, NEW item, NEW call, NEW len, NEW k
    PROVE  /\ LET r == [NoItem(at) EXCEPT !.kind = k, !.item = item, !.call = call]
              IN  r.kind = k /\ r.at = at /\ r.item = item /\ r.len = 0 /\ r.call = call
           /\ LET r == [NoItem(at) EXCEPT !.kind = k, !.item = item, !.len = len]
              IN  r.kind = k /\ r.at = at /\ r.item = item /\ r.len = len
           /\ NoItem(at).kind = "none" /\ NoItem(at).at = at /\ NoItem(at).item = None /\ NoItem(at).len = 0
  BY DEF NoItem

\* What a delta of the tool parser does to the items.
LEMMA CallDoes ==
    ASSUME TypeOK, Shape, ToolCallDelta
    PROVE  \E goesOn, closes \in BOOLEAN, done \in Seq(Nat) :
              /\ goesOn => active.kind = "tool_call" /\ ~closes
              /\ ~goesOn => (closes <=> active.kind # "none")
              /\ done = IF closes THEN Append(output, active.item) ELSE output
              /\ output' = done /\ active'.at = Len(done) /\ IdsCount(done) /\ NewItem(done) \in Nat /\ NewItem(done) > Message
              /\ goesOn => active' = active
              /\ ~goesOn /\ Head(chunk.calls).named =>
                    active'.kind = "tool_call" /\ active'.item = NewItem(done) /\ active'.len = 0
              /\ ~goesOn /\ ~Head(chunk.calls).named =>
                    active'.kind = "none" /\ active'.item = None /\ active'.len = 0
              /\ Yield(If(closes, CloseActive(active.at))
                         \o If(~goesOn /\ Head(chunk.calls).named, OpenCall(NewItem(done), Len(done)))
                         \o If((goesOn \/ Head(chunk.calls).named) /\ Head(chunk.calls).args,
                               <<Event("delta", IF goesOn THEN active.item ELSE NewItem(done), Len(done))>>))
  <1> DEFINE d == Head(chunk.calls)
             goesOn == active.kind = "tool_call" /\ active.call = d.index
             closes == active.kind # "none" /\ ~goesOn
             at == IF closes THEN active.at + 1 ELSE active.at
             done == IF closes THEN Append(output, active.item) ELSE output
             item == IF goesOn THEN active.item ELSE NewItem(done)
  <1>1. /\ output' = done
        /\ active' = IF goesOn THEN active
                     ELSE IF d.named
                       THEN [NoItem(at) EXCEPT !.kind = "tool_call", !.item = item, !.call = d.index]
                       ELSE NoItem(at)
        /\ Yield(If(closes, CloseActive(active.at))
                 \o If(~goesOn /\ d.named, OpenCall(item, at))
                 \o If((goesOn \/ d.named) /\ d.args, <<Event("delta", item, at)>>))
    BY DEF ToolCallDelta
  <1>2. goesOn \in BOOLEAN /\ closes \in BOOLEAN
    OBVIOUS
  <1>3. at = Len(done) /\ done \in Seq(Nat) /\ IdsCount(done) /\ NewItem(done) \in Nat /\ NewItem(done) > Message
    BY <1>2, ClosedIs DEF Shape
  <1>4. /\ goesOn => active.kind = "tool_call" /\ ~closes
        /\ ~goesOn => (closes <=> active.kind # "none")
    OBVIOUS
  <1>5. goesOn => at = active.at
    OBVIOUS
  <1>6. done = IF closes THEN Append(output, active.item) ELSE output
    OBVIOUS
  <1>7. item = IF goesOn THEN active.item ELSE NewItem(done)
    OBVIOUS
  <1> HIDE DEF goesOn, closes, done, at, item
  <1>8. /\ active'.at = Len(done)
        /\ goesOn => active' = active
        /\ ~goesOn /\ d.named => active'.kind = "tool_call" /\ active'.item = NewItem(done) /\ active'.len = 0
        /\ ~goesOn /\ ~d.named => active'.kind = "none" /\ active'.item = None /\ active'.len = 0
    BY <1>1, <1>3, <1>5, <1>7, NoItemIs
  <1>9. If(~goesOn /\ d.named, OpenCall(item, at)) = If(~goesOn /\ d.named, OpenCall(NewItem(done), Len(done)))
    BY <1>3, <1>7 DEF If
  <1>10. Yield(If(closes, CloseActive(active.at))
                 \o If(~goesOn /\ d.named, OpenCall(NewItem(done), Len(done)))
                 \o If((goesOn \/ d.named) /\ d.args,
                       <<Event("delta", IF goesOn THEN active.item ELSE NewItem(done), Len(done))>>))
    BY <1>1, <1>3, <1>7, <1>9
  <1>11. output' = done
    BY <1>1
  <1> goesOn \in BOOLEAN /\ closes \in BOOLEAN /\ done \in Seq(Nat)
    BY <1>2, <1>3
  <1> WITNESS goesOn \in BOOLEAN, closes \in BOOLEAN, done \in Seq(Nat)
  <1> QED  BY <1>3, <1>4, <1>6, <1>8, <1>10, <1>11

\* ... and a content delta.
LEMMA ContentDoes ==
    ASSUME TypeOK, Shape, ContentDelta
    PROVE  \E goesOn, closes \in BOOLEAN, done \in Seq(Nat) :
              /\ goesOn <=> active.kind = "message"
              /\ closes <=> active.kind = "tool_call"
              /\ done = IF closes THEN Append(output, active.item) ELSE output
              /\ output' = done /\ active'.at = Len(done) /\ IdsCount(done) /\ NewItem(done) \in Nat /\ NewItem(done) > Message
              /\ active'.kind = "message" /\ active'.item = IF goesOn THEN active.item ELSE NewItem(done)
              /\ active'.len = IF goesOn THEN active.len + 1 ELSE 1
              /\ Yield(If(closes, CloseActive(active.at))
                         \o If(~goesOn, OpenMessage(NewItem(done), Len(done)))
                         \o <<Text("delta", IF goesOn THEN active.item ELSE NewItem(done), Len(done), 1)>>)
  <1> DEFINE goesOn == active.kind = "message"
             closes == active.kind = "tool_call"
             at == IF closes THEN active.at + 1 ELSE active.at
             done == IF closes THEN Append(output, active.item) ELSE output
             item == IF goesOn THEN active.item ELSE NewItem(done)
             len == IF goesOn THEN active.len + 1 ELSE 1
  <1>1. /\ output' = done
        /\ active' = [NoItem(at) EXCEPT !.kind = "message", !.item = item, !.len = len]
        /\ Yield(If(closes, CloseActive(active.at)) \o If(~goesOn, OpenMessage(item, at)) \o <<Text("delta", item, at, 1)>>)
    BY DEF ContentDelta
  <1>2. goesOn \in BOOLEAN /\ closes \in BOOLEAN
    OBVIOUS
  <1>3. at = Len(done) /\ done \in Seq(Nat) /\ IdsCount(done) /\ NewItem(done) \in Nat /\ NewItem(done) > Message
    BY <1>2, ClosedIs DEF Shape
  <1>4. (goesOn <=> active.kind = "message") /\ (closes <=> active.kind = "tool_call")
    OBVIOUS
  <1>5. done = IF closes THEN Append(output, active.item) ELSE output
    OBVIOUS
  <1>6. item = (IF goesOn THEN active.item ELSE NewItem(done)) /\ len = (IF goesOn THEN active.len + 1 ELSE 1)
    OBVIOUS
  <1> HIDE DEF goesOn, closes, done, at, item, len
  <1>7. active'.at = Len(done) /\ active'.kind = "message" /\ active'.item = item /\ active'.len = len
    BY <1>1, <1>3, NoItemIs
  <1>8. If(~goesOn, OpenMessage(item, at)) = If(~goesOn, OpenMessage(NewItem(done), Len(done)))
    BY <1>3, <1>6 DEF If
  <1>9. Yield(If(closes, CloseActive(active.at))
                \o If(~goesOn, OpenMessage(NewItem(done), Len(done)))
                \o <<Text("delta", IF goesOn THEN active.item ELSE NewItem(done), Len(done), 1)>>)
    BY <1>1, <1>3, <1>6, <1>8
  <1>10. output' = done
    BY <1>1
  <1> goesOn \in BOOLEAN /\ closes \in BOOLEAN /\ done \in Seq(Nat)
    BY <1>2, <1>3
  <1> WITNESS goesOn \in BOOLEAN, closes \in BOOLEAN, done \in Seq(Nat)
  <1> QED  BY <1>3, <1>4, <1>5, <1>6, <1>7, <1>9, <1>10

LEMMA ShapeOfDeltas ==
    ASSUME TypeOK, Alive, Shape, ToolCallDelta \/ ContentDelta PROVE Shape'
  <1>1. /\ pc \in {"calls", "content"} /\ pc' \in {"calls", "next"}
        /\ UNCHANGED <<mode, said, text, kind, reasoning, textOpen, index, semantic>>
    BY DEF ToolCallDelta, ContentDelta
  <1>2. mode = "parser" /\ semantic /\ ~textOpen /\ ~reasoning /\ ~Pending /\ ~Pending' /\ Owed = 0 /\ Owed' = 0
    BY <1>1 DEF Shape, ChunkFits, ItemsFit, Pending, Owed
  <1>3. ChunkFits' /\ TextCounted'
    BY <1>1, <1>2 DEF Shape, ChunkFits, TextCounted
  <1>4. CASE ToolCallDelta
    <2>1. PICK goesOn \in BOOLEAN, closes \in BOOLEAN, done \in Seq(Nat) :
              /\ goesOn => active.kind = "tool_call" /\ ~closes
              /\ done = IF closes THEN Append(output, active.item) ELSE output
              /\ output' = done /\ active'.at = Len(done) /\ IdsCount(done)
              /\ goesOn => active' = active
              /\ ~goesOn /\ Head(chunk.calls).named =>
                    active'.kind = "tool_call" /\ active'.item = NewItem(done) /\ active'.len = 0
              /\ ~goesOn /\ ~Head(chunk.calls).named =>
                    active'.kind = "none" /\ active'.item = None /\ active'.len = 0
      BY <1>4, CallDoes, ZenonT(60)
    <2>2. ItemsFit'
      BY <1>1, <1>2, <2>1 DEF Shape, ItemsFit
    <2> QED  BY <1>3, <2>2 DEF Shape
  <1>5. CASE ContentDelta
    <2>1. PICK goesOn \in BOOLEAN, closes \in BOOLEAN, done \in Seq(Nat) :
              /\ goesOn <=> active.kind = "message"
              /\ closes <=> active.kind = "tool_call"
              /\ done = IF closes THEN Append(output, active.item) ELSE output
              /\ output' = done /\ active'.at = Len(done) /\ IdsCount(done)
              /\ active'.kind = "message" /\ active'.item = IF goesOn THEN active.item ELSE NewItem(done)
              /\ active'.len = IF goesOn THEN active.len + 1 ELSE 1
      BY <1>5, ContentDoes
    <2>2. ItemsFit'
      BY <1>1, <1>2, <2>1 DEF Shape, ItemsFit
    <2> QED  BY <1>3, <2>2 DEF Shape
  <1> QED  BY <1>4, <1>5

-----------------------------------------------------------------------------
(* What a step of the generator tells. *)

LEMMA TellingGoes ==
    ASSUME TypeOK, NEW es \in Seq(Plain), Yield(es), NEW extra, NEW p, NEW q,
           Tells(Yielded, extra, p[1], p[2], p[3]), Leads(es, extra, p, q)
    PROVE  Tells(Yielded', extra, q[1], q[2], q[3])
  <1>1. queue = <<>> /\ queue' \in Seq(Events) /\ Alike(queue', es) /\ UNCHANGED sent
    BY YieldIs
  <1>2. sent \in Seq(Events)
    BY DEF TypeOK
  <1>3. Yielded = sent /\ Yielded' = sent \o queue'
    BY <1>1, <1>2, ConcatEmptySeq DEF Yielded
  <1> QED  BY <1>1, <1>2, <1>3 DEF Leads

LEMMA IfLeads ==
    ASSUME NEW c, NEW es, NEW extra, NEW p, NEW q, c => Leads(es, extra, p, q), ~c => p = q
    PROVE  Leads(If(c, es), extra, p, q)
  <1>1. CASE c
    BY <1>1 DEF If
  <1>2. CASE ~c
    BY <1>2, NothingLeads DEF If
  <1> QED  BY <1>1, <1>2

LEMMA StateIs ==
    ASSUME TypeOK, Shape
    PROVE  /\ Open \in Nat /\ Length \in Nat /\ Done \in Seq(Nat)
           /\ text.all \in Nat /\ text.streamed \in Nat /\ index \in Nat
           /\ active.item \in Nat /\ active.len \in Nat /\ output \in Seq(Nat)
           /\ reasoning \in BOOLEAN /\ textOpen \in BOOLEAN /\ semantic \in BOOLEAN
           /\ Owed \in {0, 1} /\ Extra \in Nat
           /\ ~semantic => output = <<>> /\ active.item = None /\ active.len = 0 /\ index = Len(Done)
           /\ ~semantic /\ ~textOpen => Done = <<>> /\ Length = 0 /\ Open = IF reasoning THEN Reasoning ELSE None
           /\ semantic => Done = output /\ Open = active.item /\ Length = active.len /\ ~reasoning /\ ~textOpen
  <1>1. /\ text.all \in Nat /\ text.streamed \in Nat /\ index \in Nat
        /\ active.item \in Nat /\ active.len \in Nat /\ output \in Seq(Nat)
        /\ reasoning \in BOOLEAN /\ textOpen \in BOOLEAN /\ semantic \in BOOLEAN
    BY DEF TypeOK, Active
  <1>2. Owed \in {0, 1} /\ (textOpen => text.streamed > Owed) /\ text.streamed <= text.all
    BY DEF Owed, Shape, ItemsFit, TextCounted
  <1>3. Open \in Nat /\ Length \in Nat /\ Extra \in Nat
    BY <1>1, <1>2 DEF Open, Length, Extra, Message, Reasoning
  <1>4. <<Reasoning>> \in Seq(Nat) /\ Len(<<Reasoning>>) = 1
    BY DEF Reasoning
  <1>5. Done \in Seq(Nat)
    BY <1>1, <1>4 DEF Done
  <1>6. ~semantic => output = <<>> /\ active.item = None /\ active.len = 0
    BY DEF Shape, ItemsFit
  <1>7. index = IF textOpen /\ reasoning THEN 1 ELSE 0
    BY DEF Shape, ItemsFit
  <1>8. ~semantic => index = Len(Done)
    BY <1>4, <1>6, <1>7 DEF Done
  <1>9. ~semantic /\ ~textOpen => Done = <<>> /\ Length = 0 /\ Open = IF reasoning THEN Reasoning ELSE None
    BY <1>6 DEF Done, Length, Open
  <1>10. semantic => ~reasoning /\ ~textOpen
    BY DEF Shape, ItemsFit
  <1>11. semantic => Done = output /\ Open = active.item /\ Length = active.len
    BY <1>10 DEF Done, Open, Length
  <1> QED  BY <1>1, <1>2, <1>3, <1>5, <1>6, <1>8, <1>9, <1>10, <1>11

LEMMA TwoAre == ASSUME NEW x, NEW y PROVE <<x, y>> = <<x>> \o <<y>>
  <1> DEFINE t == <<x>> \o <<y>>
  <1>1. <<x>> \in Seq({x, y}) /\ <<y>> \in Seq({x, y})
    OBVIOUS
  <1>2. t \in Seq({x, y}) /\ Len(t) = 2
    BY <1>1
  <1>3. t[1] = x /\ t[2] = y
    BY <1>1
  <1> HIDE DEF t
  <1>4. <<x, y>> \in Seq({x, y}) /\ Len(<<x, y>>) = 2 /\ <<x, y>>[1] = x /\ <<x, y>>[2] = y
    OBVIOUS
  <1>5. \A i \in 1..2 : i = 1 \/ i = 2
    OBVIOUS
  <1> DEFINE u == <<x, y>>
  <1>6. u \in Seq({x, y}) /\ Len(u) = 2 /\ u[1] = x /\ u[2] = y
    BY <1>4
  <1> HIDE DEF u
  <1>7. t = u
    BY <1>2, <1>3, <1>5, <1>6, SeqEqual
  <1> QED  BY <1>7 DEF t, u

LEMMA PreludeTells ==
    ASSUME TypeOK, Shape, Prelude, NEW extra \in Nat, Tells(Yielded, extra, Open, Length, Done)
    PROVE  Tells(Yielded', extra, Open', Length', Done')
  <1> DEFINE p == <<Open, Length, Done>>
             a == <<Event("created", None, 0)>>
             b == <<Event("in_progress", None, 0)>>
  <1>1. Yield(<<Event("created", None, 0), Event("in_progress", None, 0)>>)
        /\ pc' = "next" /\ pc = "start" /\ UNCHANGED <<chunk, text, kind, itemVars>>
    BY DEF Prelude
  <1>2. Open' = Open /\ Length' = Length /\ Done' = Done
    BY <1>1 DEF Open, Length, Done, Owed, Pending, itemVars
  <1>3. a \in Seq(Plain) /\ b \in Seq(Plain)
    BY PartsAreCalm, CalmIsPlain DEF None
  <1>4. Leads(a, extra, p, p) /\ Leads(b, extra, p, p)
    BY StateIs, SpeaksForLeads
  <1>5. Yield(a \o b)
    BY <1>1, TwoAre
  <1>6. Tells(Yielded, extra, p[1], p[2], p[3])
    OBVIOUS
  <1>7. p[1] = Open /\ p[2] = Length /\ p[3] = Done
    OBVIOUS
  <1> HIDE DEF a, b, p
  <1>8. Leads(a \o b, extra, p, p) /\ a \o b \in Seq(Plain)
    BY <1>3, <1>4, BothLead, ConcatProperties
  <1>9. Tells(Yielded', extra, p[1], p[2], p[3])
    BY <1>5, <1>6, <1>8, TellingGoes
  <1> QED  BY <1>2, <1>7, <1>9

LEMMA ReasonTells ==
    ASSUME TypeOK, Shape, Reason, NEW extra \in Nat, Tells(Yielded, extra, Open, Length, Done)
    PROVE  Tells(Yielded', extra, Open', Length', Done')
  <1> DEFINE p == <<Open, Length, Done>>
             r == <<Reasoning, 0, <<>> >>
             q == IF chunk.reason THEN r ELSE p
             a == If(~reasoning, <<Event("added", Reasoning, index)>>)
             b == <<Event("delta", Reasoning, index)>>
  <1>1. /\ Yield(If(chunk.reason, a \o b)) /\ reasoning' = (reasoning \/ chunk.reason)
        /\ pc = "reason" /\ pc' = "update" /\ UNCHANGED <<chunk, text, kind, textOpen, index, active, semantic, output>>
    BY DEF Reason
  <1>2. Reasoning \in Nat \ {None} /\ Reasoning # Message /\ <<>> \in Seq(Nat) /\ Len(<<>>) = 0
    BY DEF Reasoning, None, Message
  <1>3. Owed = 0 /\ Owed' = 0
    BY <1>1 DEF Owed, Pending
  <1>4. ASSUME chunk.reason
        PROVE  ~semantic /\ ~textOpen /\ index = 0 /\ p = IF reasoning THEN r ELSE <<None, 0, <<>> >>
    <2>1. ~semantic /\ text.all = 0
      BY <1>1, <1>4 DEF Shape, ChunkFits
    <2>2. ~textOpen
      BY <1>3, <2>1, StateIs DEF Shape, ItemsFit, TextCounted
    <2>3. Done = <<>> /\ Length = 0 /\ Open = (IF reasoning THEN Reasoning ELSE None) /\ index = 0
      BY <1>2, <2>1, <2>2, StateIs
    <2> QED  BY <2>1, <2>2, <2>3
  <1>5. Open' = q[1] /\ Length' = q[2] /\ Done' = q[3]
    <2>1. CASE chunk.reason
      <3>1. ~textOpen' /\ reasoning' /\ output = <<>> /\ active.len = 0
        BY <1>1, <1>4, <2>1, StateIs
      <3> QED  BY <1>1, <2>1, <3>1 DEF Open, Length, Done
    <2>2. CASE ~chunk.reason
      BY <1>1, <1>3, <2>2, StateIs DEF Open, Length, Done
    <2> QED  BY <2>1, <2>2
  <1>6. a \in Seq(Plain) /\ b \in Seq(Plain)
    <2>1. <<Event("added", Reasoning, index)>> \in Seq(Calm) /\ b \in Seq(Calm)
      BY <1>2, PartsAreCalm, StateIs
    <2> QED  BY <2>1, IfIs, CalmIsPlain
  <1>7. chunk.reason => Leads(a, extra, p, r)
    <2> HAVE chunk.reason
    <2> DEFINE none == <<>>
    <2>1. none \in Seq(Nat) /\ \A d \in 1..Len(none) : none[d] # Reasoning
      BY <1>2
    <2> HIDE DEF none
    <2>2. Leads(<<Event("added", Reasoning, Len(none))>>, extra, <<None, 0, none>>, <<Reasoning, 0, none>>)
      BY <1>2, <2>1, OpensLeads
    <2>3. Leads(<<Event("added", Reasoning, Len(<<>>))>>, extra, <<None, 0, <<>> >>, r)
      BY <2>2 DEF none
    <2>4. ~reasoning => p = <<None, 0, <<>> >> /\ index = Len(<<>>)
      BY <1>2, <1>4
    <2>5. reasoning => p = r
      BY <1>4
    <2>6. ~reasoning => Leads(<<Event("added", Reasoning, index)>>, extra, p, r)
      BY <2>3, <2>4
    <2> HIDE DEF p, r
    <2> QED  BY <2>5, <2>6, IfLeads
  <1>8. chunk.reason => Leads(b, extra, r, r)
    <2>1. Leads(<<Event("delta", Reasoning, Len(<<>>))>>, extra, <<Reasoning, 0, <<>> >>, <<Reasoning, 0, <<>> >>)
      BY <1>2, GoesOnLeads
    <2> QED  BY <1>2, <1>4, <2>1
  <1>9. Tells(Yielded, extra, p[1], p[2], p[3])
    OBVIOUS
  <1>10. (chunk.reason => q = r) /\ (~chunk.reason => p = q)
    OBVIOUS
  <1> HIDE DEF a, b, p, q, r
  <1>11. If(chunk.reason, a \o b) \in Seq(Plain)
    <2>1. a \o b \in Seq(Plain)
      BY <1>6, ConcatProperties
    <2> QED  BY <2>1 DEF If
  <1>12. Leads(If(chunk.reason, a \o b), extra, p, q)
    <2>1. chunk.reason => Leads(a \o b, extra, p, q)
      BY <1>6, <1>7, <1>8, <1>10, BothLead
    <2> QED  BY <1>10, <2>1, IfLeads
  <1>13. Tells(Yielded', extra, q[1], q[2], q[3])
    BY <1>1, <1>9, <1>11, <1>12, TellingGoes
  <1> QED  BY <1>5, <1>13

LEMMA CloseTells ==
    ASSUME TypeOK, Shape, CloseReasoning, NEW extra \in Nat, Tells(Yielded, extra, Open, Length, Done)
    PROVE  Tells(Yielded', extra, Open', Length', Done')
  <1> DEFINE p == <<Open, Length, Done>>
             q == IF reasoning THEN <<None, 0, Append(<<>>, Reasoning)>> ELSE p
             e == <<Event("done", Reasoning, active.at)>>
  <1>1. /\ Yield(If(reasoning, e)) /\ reasoning' = FALSE /\ semantic' = TRUE
        /\ pc = "close" /\ pc' = "calls" /\ UNCHANGED <<chunk, text, kind, textOpen, index>>
        /\ reasoning => output' = Append(output, Reasoning) /\ active' = [active EXCEPT !.at = @ + 1]
        /\ ~reasoning => output' = output /\ active' = active
    BY DEF CloseReasoning
  <1>2. Reasoning \in Nat \ {None} /\ <<>> \in Seq(Nat) /\ Len(<<>>) = 0
    BY DEF Reasoning, None
  <1>3. Owed = 0 /\ Owed' = 0 /\ ~textOpen
    BY <1>1 DEF Owed, Pending, Shape, ChunkFits, ItemsFit
  <1>4. ASSUME reasoning
        PROVE  ~semantic /\ active.at = Len(<<>>) /\ p = <<Reasoning, 0, <<>> >> /\ output = <<>>
    <2>1. ~semantic /\ active.at = Len(output)
      BY <1>4 DEF Shape, ItemsFit
    <2> QED  BY <1>3, <1>4, <2>1, StateIs
  <1>5. Open' = q[1] /\ Length' = q[2] /\ Done' = q[3]
    <2>1. CASE reasoning
      <3>1. active'.item = active.item /\ active'.len = active.len
        BY <1>1, <2>1 DEF TypeOK, Active
      <3>2. active.item = None /\ active.len = 0
        BY <1>4, <2>1, StateIs
      <3> QED  BY <1>1, <1>3, <1>4, <2>1, <3>1, <3>2 DEF Open, Length, Done
    <2>2. CASE ~reasoning
      BY <1>1, <1>3, <2>2 DEF Open, Length, Done
    <2> QED  BY <2>1, <2>2
  <1>6. If(reasoning, e) \in Seq(Plain)
    <2>1. active.at \in Nat
      BY DEF TypeOK, Active
    <2>2. e \in Seq(Calm)
      BY <1>2, <2>1, PartsAreCalm
    <2> QED  BY <2>2, IfIs, CalmIsPlain
  <1>7. reasoning => Leads(e, extra, p, q)
    <2> HAVE reasoning
    <2>1. Leads(<<Event("done", Reasoning, Len(<<>>))>>, extra, <<Reasoning, 0, <<>> >>, <<None, 0, Append(<<>>, Reasoning)>>)
      BY <1>2, ClosesLeads
    <2> QED  BY <1>4, <2>1
  <1>8. Tells(Yielded, extra, p[1], p[2], p[3])
    OBVIOUS
  <1>9. ~reasoning => p = q
    OBVIOUS
  <1> HIDE DEF e, p, q
  <1>10. Leads(If(reasoning, e), extra, p, q)
    BY <1>7, <1>9, IfLeads
  <1>11. Tells(Yielded', extra, q[1], q[2], q[3])
    BY <1>1, <1>6, <1>8, <1>10, TellingGoes
  <1> QED  BY <1>5, <1>11
LEMMA ThreeLead ==
    ASSUME NEW a \in Seq(Plain), NEW b \in Seq(Plain), NEW c \in Seq(Plain), NEW extra, NEW p, NEW q, NEW r, NEW s,
           Leads(a, extra, p, q), Leads(b, extra, q, r), Leads(c, extra, r, s)
    PROVE  a \o b \o c \in Seq(Plain) /\ Leads(a \o b \o c, extra, p, s)
  <1>1. a \o b \in Seq(Plain) /\ Leads(a \o b, extra, p, r)
    BY BothLead, ConcatProperties
  <1> DEFINE ab == a \o b
  <1> HIDE DEF ab
  <1>2. ab \in Seq(Plain) /\ Leads(ab, extra, p, r)
    BY <1>1 DEF ab
  <1>3. ab \o c \in Seq(Plain) /\ Leads(ab \o c, extra, p, s)
    BY <1>2, BothLead, ConcatProperties
  <1> QED  BY <1>3 DEF ab

LEMMA TextDeltaTells ==
    ASSUME TypeOK, Shape, TextDelta, NEW extra \in Nat, Tells(Yielded, extra, Open, Length, Done)
    PROVE  Tells(Yielded', extra, Open', Length', Done')
  <1> DEFINE opens == Pending /\ ~textOpen
             at == IF opens /\ reasoning THEN index + 1 ELSE index
             d == IF opens /\ reasoning THEN Append(<<>>, Reasoning) ELSE Done
             p == <<Open, Length, Done>>
             q == IF opens THEN <<None, 0, d>> ELSE p
             r == IF opens THEN <<Message, 0, d>> ELSE p
             s == IF Pending THEN <<Message, text.streamed, d>> ELSE p
             a == If(opens /\ reasoning, <<Event("done", Reasoning, index)>>)
             b == If(opens, OpenMessage(Message, at))
             c == If(Pending, <<Text("delta", Message, at, 1)>>)
  <1>1. /\ Yield(a \o b \o c) /\ textOpen' = (textOpen \/ Pending) /\ pc = "text" /\ pc' = "next"
        /\ UNCHANGED <<chunk, text, kind, reasoning, active, semantic, output>>
    BY DEF TextDelta, Pending
  <1>2. Reasoning \in Nat \ {None} /\ Message \in Nat \ {None} /\ Reasoning # Message /\ <<>> \in Seq(Nat) /\ Len(<<>>) = 0
    BY DEF Reasoning, None, Message
  <1>3. Owed' = 0 /\ (Pending => Owed = 1) /\ (~Pending => Owed = 0)
    BY <1>1 DEF Owed, Pending
  <1>4. Pending => ~semantic
    BY DEF Shape, ChunkFits, ItemsFit
  <1>5. Append(<<>>, Reasoning) = <<Reasoning>> /\ Len(<<Reasoning>>) = 1 /\ <<Reasoning>> \in Seq(Nat) /\ <<Reasoning>>[1] = Reasoning
    BY <1>2
  <1>6. ASSUME opens
        PROVE  Done = <<>> /\ Length = 0 /\ Open = (IF reasoning THEN Reasoning ELSE None) /\ index = 0 /\ text.streamed = 1 /\ output = <<>>
    <2>1. text.streamed = 1
      BY <1>3, <1>6 DEF Shape, ChunkFits, TextCounted
    <2> QED  BY <1>2, <1>4, <1>6, <2>1, StateIs
  <1>7. Pending /\ textOpen => Open = Message /\ Length = text.streamed - 1
    BY <1>3 DEF Open, Length
  <1>8. Pending => at = Len(d) /\ at \in Nat /\ d \in Seq(Nat)
    <2>1. CASE opens
      BY <1>2, <1>5, <1>6, <2>1
    <2>2. CASE Pending /\ ~opens
      BY <1>4, <2>2, StateIs
    <2> QED  BY <2>1, <2>2
  <1>9. Open' = s[1] /\ Length' = s[2] /\ Done' = s[3]
    <2>1. CASE Pending
      <3>1. textOpen' /\ text' = text
        BY <1>1, <2>1
      <3>2. text.streamed \in Nat
        BY StateIs
      <3>3. textOpen' /\ text' = text /\ text.streamed - 0 = text.streamed
        BY <3>1, <3>2
      <3>4. Open' = Message /\ Length' = text.streamed
        BY <1>3, <3>3 DEF Open, Length
      <3>5. opens => Done' = d
        BY <1>1, <1>5, <1>6, <2>1 DEF Done
      <3>6. ~opens => Done' = d
        BY <1>1, <2>1 DEF Done
      <3> QED  BY <2>1, <3>4, <3>5, <3>6
    <2>2. CASE ~Pending
      BY <1>1, <1>3, <2>2, StateIs DEF Open, Length, Done
    <2> QED  BY <2>1, <2>2
  <1>10. Tells(Yielded, extra, p[1], p[2], p[3])
    OBVIOUS
  <1>11. /\ opens /\ reasoning => p = <<Reasoning, 0, <<>> >> /\ q = <<None, 0, Append(<<>>, Reasoning)>> /\ index = Len(<<>>)
         /\ ~(opens /\ reasoning) => p = q
         /\ opens => q = <<None, 0, d>> /\ r = <<Message, 0, d>>
         /\ ~opens => q = r
         /\ Pending => r = <<Message, text.streamed - 1, d>> /\ s = <<Message, text.streamed, d>>
         /\ ~Pending => r = s
    BY <1>2, <1>6, <1>7
  <1>12. index \in Nat /\ text.streamed \in Nat /\ (Pending => text.streamed - 1 \in Nat)
    <2>1. Pending /\ textOpen => text.streamed > 1
      BY <1>3 DEF Shape, ItemsFit
    <2> QED  BY <1>6, <2>1, StateIs
  <1>13. \A i \in 1..Len(d) : opens => d[i] # Message
    <2>1. opens /\ reasoning => d = <<Reasoning>>
      BY <1>5
    <2>2. opens /\ ~reasoning => d = <<>>
      BY <1>6
    <2> HIDE DEF d, opens
    <2> QED  BY <1>2, <1>5, <2>1, <2>2
  <1> HIDE DEF opens, at, d, p, q, r, s
  <1>14. Leads(a, extra, p, q)
    <2>1. Leads(<<Event("done", Reasoning, Len(<<>>))>>, extra, <<Reasoning, 0, <<>> >>, <<None, 0, Append(<<>>, Reasoning)>>)
      BY <1>2, ClosesLeads
    <2>2. opens /\ reasoning => Leads(<<Event("done", Reasoning, index)>>, extra, p, q)
      BY <1>11, <2>1
    <2> QED  BY <1>11, <2>2, IfLeads
  <1>15. Leads(b, extra, q, r)
    <2>1. opens => Pending
      BY DEF opens
    <2>2. opens => Leads(OpenMessage(Message, at), extra, q, r)
      <3> HAVE opens
      <3>1. \A i \in 1..Len(d) : d[i] # Message
        BY <1>13
      <3>2. 0 \in Nat /\ d \in Seq(Nat)
        BY <1>8, <2>1
      <3>3. Leads(OpenMessage(Message, Len(d)), extra, <<None, 0, d>>, <<Message, 0, d>>)
        BY <1>2, <3>1, <3>2, ItemsLead
      <3> QED  BY <1>8, <1>11, <2>1, <3>3
    <2> QED  BY <1>11, <2>2, IfLeads
  <1>16. Leads(c, extra, r, s)
    <2>1. Pending => text.streamed - 1 + 1 = text.streamed
      BY <1>12
    <2>2. Pending => Leads(<<Text("delta", Message, at, 1)>>, extra, r, s)
      <3> HAVE Pending
      <3>1. Leads(<<Text("delta", Message, Len(d), 1)>>, extra, <<Message, text.streamed - 1, d>>, <<Message, text.streamed - 1 + 1, d>>)
        BY <1>2, <1>8, <1>12, GoesOnLeads
      <3> QED  BY <1>8, <1>11, <2>1, <3>1
    <2> QED  BY <1>11, <2>2, IfLeads
  <1>17. a \in Seq(Plain) /\ b \in Seq(Plain) /\ c \in Seq(Plain)
    <2>1. <<Event("done", Reasoning, index)>> \in Seq(Calm)
      BY <1>2, <1>12, PartsAreCalm
    <2>2. Pending => OpenMessage(Message, at) \in Seq(Calm) /\ <<Text("delta", Message, at, 1)>> \in Seq(Calm)
      BY <1>2, <1>8, PartsAreCalm
    <2>3. opens => Pending
      BY DEF opens
    <2>4. If(opens, OpenMessage(Message, at)) \in Seq(Calm) /\ If(Pending, <<Text("delta", Message, at, 1)>>) \in Seq(Calm)
      BY <2>2, <2>3, EmptySeq DEF If
    <2> QED  BY <2>1, <2>4, IfIs, CalmIsPlain
  <1> HIDE DEF a, b, c
  <1>18. a \o b \o c \in Seq(Plain) /\ Leads(a \o b \o c, extra, p, s)
    BY <1>14, <1>15, <1>16, <1>17, ThreeLead
  <1>19. Tells(Yielded', extra, s[1], s[2], s[3])
    BY <1>1, <1>10, <1>18, TellingGoes
  <1> QED  BY <1>9, <1>19
LEMMA CloseActiveLeads ==
    ASSUME TypeOK, ItemsFit, NEW extra \in Nat
    PROVE  /\ CloseActive(active.at) \in Seq(Plain)
           /\ Leads(CloseActive(active.at), extra, <<active.item, active.len, output>>,
                    <<None, 0, IF active.kind = "none" THEN output ELSE Append(output, active.item)>>)
  <1> DEFINE p == <<active.item, active.len, output>>
             q == <<None, 0, IF active.kind = "none" THEN output ELSE Append(output, active.item)>>
             m == IF active.kind = "message" THEN q ELSE p
             a == If(active.kind = "message", CloseMessage(active.item, active.at, active.len))
             b == If(active.kind = "tool_call", CloseCall(active.item, active.at))
  <1>1. /\ active.item \in Nat /\ active.at \in Nat /\ active.len \in Nat /\ output \in Seq(Nat)
        /\ active.kind \in {"none", "message", "tool_call"} /\ active.at = Len(output)
    BY DEF TypeOK, Active, ItemsFit
  <1>2. active.kind # "none" => active.item \in Nat \ {None} /\ active.item # Message
    <2>1. NewItem(output) \in Nat /\ NewItem(output) > Message
      BY <1>1, NewItemIs
    <2> QED  BY <2>1 DEF ItemsFit, None, Message
  <1>3. a \in Seq(Plain) /\ b \in Seq(Plain)
    <2>1. CloseMessage(active.item, active.at, active.len) \in Seq(Calm) /\ CloseCall(active.item, active.at) \in Seq(Calm)
      BY <1>1, PartsAreCalm
    <2> QED  BY <2>1, IfIs, CalmIsPlain
  <1>4. active.kind # "none" =>
            /\ Leads(CloseMessage(active.item, Len(output), active.len), extra, p, <<None, 0, Append(output, active.item)>>)
            /\ Leads(CloseCall(active.item, Len(output)), extra, p, <<None, 0, Append(output, active.item)>>)
    <2> HAVE active.kind # "none"
    <2>1. active.len = active.len + IF active.item = Message THEN extra ELSE 0
      BY <1>1, <1>2
    <2> QED  BY <1>1, <1>2, <2>1, ItemsLead
  <1>5. active.kind = "none" => p = q
    BY DEF ItemsFit
  <1>6. /\ active.kind # "none" => q = <<None, 0, Append(output, active.item)>>
        /\ (active.kind = "message" => m = q) /\ (active.kind # "message" => m = p)
    OBVIOUS
  <1>7. CloseActive(active.at) = a \o b
    BY DEF CloseActive
  <1>8. q = <<None, 0, IF active.kind = "none" THEN output ELSE Append(output, active.item)>>
    OBVIOUS
  <1> HIDE DEF p, q, m
  <1>9. Leads(a, extra, p, m)
    <2>1. active.kind = "message" => Leads(CloseMessage(active.item, active.at, active.len), extra, p, m)
      BY <1>1, <1>4, <1>6
    <2> QED  BY <1>6, <2>1, IfLeads
  <1>10. Leads(b, extra, m, q)
    <2>1. active.kind = "tool_call" => Leads(CloseCall(active.item, active.at), extra, m, q)
      BY <1>1, <1>4, <1>6
    <2>2. active.kind # "tool_call" => m = q
      BY <1>1, <1>5, <1>6
    <2> QED  BY <2>1, <2>2, IfLeads
  <1> HIDE DEF a, b
  <1>11. Leads(a \o b, extra, p, q) /\ a \o b \in Seq(Plain)
    BY <1>3, <1>9, <1>10, BothLead, ConcatProperties
  <1> QED  BY <1>7, <1>8, <1>11 DEF p

LEMMA CallTells ==
    ASSUME TypeOK, Shape, ToolCallDelta, NEW extra \in Nat, Tells(Yielded, extra, Open, Length, Done)
    PROVE  Tells(Yielded', extra, Open', Length', Done')
  <1>1. PICK goesOn \in BOOLEAN, closes \in BOOLEAN, done \in Seq(Nat) :
            /\ goesOn => active.kind = "tool_call" /\ ~closes
            /\ ~goesOn => (closes <=> active.kind # "none")
            /\ done = IF closes THEN Append(output, active.item) ELSE output
            /\ output' = done /\ active'.at = Len(done) /\ IdsCount(done) /\ NewItem(done) \in Nat /\ NewItem(done) > Message
            /\ goesOn => active' = active
            /\ ~goesOn /\ Head(chunk.calls).named =>
                  active'.kind = "tool_call" /\ active'.item = NewItem(done) /\ active'.len = 0
            /\ ~goesOn /\ ~Head(chunk.calls).named =>
                  active'.kind = "none" /\ active'.item = None /\ active'.len = 0
            /\ Yield(If(closes, CloseActive(active.at))
                       \o If(~goesOn /\ Head(chunk.calls).named, OpenCall(NewItem(done), Len(done)))
                       \o If((goesOn \/ Head(chunk.calls).named) /\ Head(chunk.calls).args,
                             <<Event("delta", IF goesOn THEN active.item ELSE NewItem(done), Len(done))>>))
    BY CallDoes
  <1> DEFINE named == Head(chunk.calls).named
             opens == ~goesOn /\ named
             args == (goesOn \/ named) /\ Head(chunk.calls).args
             item == IF goesOn THEN active.item ELSE NewItem(done)
             len == IF goesOn THEN active.len ELSE 0
             p == <<active.item, active.len, output>>
             q == IF goesOn THEN p ELSE <<None, 0, done>>
             r == IF opens THEN <<NewItem(done), 0, done>> ELSE q
             a == If(closes, CloseActive(active.at))
             b == If(opens, OpenCall(NewItem(done), Len(done)))
             c == If(args, <<Event("delta", item, Len(done))>>)
  <1>2. semantic /\ ~textOpen /\ ~reasoning /\ ~textOpen' /\ ~reasoning'
    BY DEF ToolCallDelta, Shape, ChunkFits, ItemsFit
  <1>3. Open = active.item /\ Length = active.len /\ Done = output
    BY <1>2 DEF Open, Length, Done
  <1>4. Open' = active'.item /\ Length' = active'.len /\ Done' = output'
    BY <1>2 DEF Open, Length, Done
  <1>5. active.item \in Nat /\ active.at \in Nat /\ active.len \in Nat /\ output \in Seq(Nat) /\ Len(done) \in Nat
    BY LenProperties DEF TypeOK, Active
  <1>6. /\ active.kind = "none" => active.item = None /\ active.len = 0
        /\ active.kind # "none" => active.item = NewItem(output)
    BY DEF Shape, ItemsFit
  <1>7. NewItem(output) \in Nat /\ NewItem(output) > Message
    BY <1>5, NewItemIs
  <1>8. item \in Nat \ {None} /\ len \in Nat
    BY <1>1, <1>5, <1>6, <1>7 DEF None, Message
  <1>9. /\ closes => q = <<None, 0, IF active.kind = "none" THEN output ELSE Append(output, active.item)>>
        /\ ~closes => p = q
    BY <1>1, <1>6
  <1>10. /\ opens => q = <<None, 0, done>> /\ r = <<NewItem(done), 0, done>>
         /\ ~opens => q = r
         /\ args => r = <<item, len, done>>
    BY <1>1
  <1>11. Open' = r[1] /\ Length' = r[2] /\ Done' = r[3]
    <2>1. CASE goesOn
      BY <1>1, <1>4, <2>1
    <2>2. CASE ~goesOn /\ named
      BY <1>1, <1>4, <2>2
    <2>3. CASE ~goesOn /\ ~named
      BY <1>1, <1>4, <2>3
    <2> QED  BY <1>1, <2>1, <2>2, <2>3
  <1>12. Tells(Yielded, extra, p[1], p[2], p[3])
    BY <1>3
  <1>13. Yield(a \o b \o c)
    BY <1>1
  <1>14. p = <<active.item, active.len, output>>
    OBVIOUS
  <1> HIDE DEF p, q, r, opens, args, item, len
  <1>15. Leads(a, extra, p, q)
    <2>1. closes => Leads(CloseActive(active.at), extra, p, q)
      BY <1>9, <1>14, CloseActiveLeads DEF Shape
    <2> QED  BY <1>9, <2>1, IfLeads
  <1>16. Leads(b, extra, q, r)
    <2>1. NewItem(done) \in Nat \ {None}
      BY <1>1 DEF None, Message
    <2>2. \A d \in 1..Len(done) : done[d] # NewItem(done)
      BY <1>1, IdsAreFresh
    <2>3. 0 \in Nat
      OBVIOUS
    <2>4. Leads(OpenCall(NewItem(done), Len(done)), extra, <<None, 0, done>>, <<NewItem(done), 0, done>>)
      BY <2>1, <2>2, <2>3, ItemsLead
    <2>5. opens => Leads(OpenCall(NewItem(done), Len(done)), extra, q, r)
      BY <1>10, <2>4
    <2> QED  BY <1>10, <2>5, IfLeads
  <1>17. Leads(c, extra, r, r)
    <2>1. Leads(<<Event("delta", item, Len(done))>>, extra, <<item, len, done>>, <<item, len, done>>)
      BY <1>8, GoesOnLeads
    <2>2. args => Leads(<<Event("delta", item, Len(done))>>, extra, r, r)
      BY <1>10, <2>1
    <2> QED  BY <2>2, IfLeads
  <1>18. a \in Seq(Plain) /\ b \in Seq(Plain) /\ c \in Seq(Plain)
    <2>1. OpenCall(NewItem(done), Len(done)) \in Seq(Calm) /\ <<Event("delta", item, Len(done))>> \in Seq(Calm)
      BY <1>1, <1>5, <1>8, PartsAreCalm
    <2>2. CloseActive(active.at) \in Seq(Plain)
      BY CloseActiveLeads DEF Shape
    <2>3. a \in Seq(Plain)
      BY <2>2, EmptySeq DEF If
    <2> QED  BY <2>1, <2>3, IfIs, CalmIsPlain
  <1> HIDE DEF a, b, c
  <1>19. a \o b \o c \in Seq(Plain) /\ Leads(a \o b \o c, extra, p, r)
    BY <1>15, <1>16, <1>17, <1>18, ThreeLead
  <1>20. Tells(Yielded', extra, r[1], r[2], r[3])
    BY <1>12, <1>13, <1>19, TellingGoes
  <1> QED  BY <1>11, <1>20

LEMMA ContentTells ==
    ASSUME TypeOK, Shape, ContentDelta, NEW extra \in Nat, Tells(Yielded, extra, Open, Length, Done)
    PROVE  Tells(Yielded', extra, Open', Length', Done')
  <1>1. PICK goesOn \in BOOLEAN, closes \in BOOLEAN, done \in Seq(Nat) :
            /\ goesOn <=> active.kind = "message"
            /\ closes <=> active.kind = "tool_call"
            /\ done = IF closes THEN Append(output, active.item) ELSE output
            /\ output' = done /\ active'.at = Len(done) /\ IdsCount(done) /\ NewItem(done) \in Nat /\ NewItem(done) > Message
            /\ active'.kind = "message" /\ active'.item = IF goesOn THEN active.item ELSE NewItem(done)
            /\ active'.len = IF goesOn THEN active.len + 1 ELSE 1
            /\ Yield(If(closes, CloseActive(active.at))
                       \o If(~goesOn, OpenMessage(NewItem(done), Len(done)))
                       \o <<Text("delta", IF goesOn THEN active.item ELSE NewItem(done), Len(done), 1)>>)
    BY ContentDoes
  <1> DEFINE item == IF goesOn THEN active.item ELSE NewItem(done)
             len == IF goesOn THEN active.len ELSE 0
             p == <<active.item, active.len, output>>
             q == IF goesOn THEN p ELSE <<None, 0, done>>
             r == <<item, len, done>>
             s == <<item, len + 1, done>>
             a == If(closes, CloseActive(active.at))
             b == If(~goesOn, OpenMessage(NewItem(done), Len(done)))
             c == <<Text("delta", item, Len(done), 1)>>
  <1>2. semantic /\ ~textOpen /\ ~reasoning /\ ~textOpen' /\ ~reasoning'
    BY DEF ContentDelta, Shape, ChunkFits, ItemsFit
  <1>3. Open = active.item /\ Length = active.len /\ Done = output
    BY <1>2 DEF Open, Length, Done
  <1>4. Open' = active'.item /\ Length' = active'.len /\ Done' = output'
    BY <1>2 DEF Open, Length, Done
  <1>5. /\ active.item \in Nat /\ active.at \in Nat /\ active.len \in Nat /\ output \in Seq(Nat) /\ Len(done) \in Nat
        /\ active.kind \in {"none", "message", "tool_call"}
    BY LenProperties DEF TypeOK, Active
  <1>6. /\ active.kind = "none" => active.item = None /\ active.len = 0
        /\ active.kind # "none" => active.item = NewItem(output)
    BY DEF Shape, ItemsFit
  <1>7. NewItem(output) \in Nat /\ NewItem(output) > Message
    BY <1>5, NewItemIs
  <1>8. item \in Nat \ {None} /\ len \in Nat
    BY <1>1, <1>5, <1>6, <1>7 DEF None, Message
  <1>9. /\ closes => q = <<None, 0, IF active.kind = "none" THEN output ELSE Append(output, active.item)>>
        /\ ~closes => p = q
    BY <1>1, <1>5, <1>6
  <1>10. /\ ~goesOn => q = <<None, 0, done>> /\ r = <<NewItem(done), 0, done>>
         /\ goesOn => q = r
    BY <1>1
  <1>11. Open' = s[1] /\ Length' = s[2] /\ Done' = s[3]
    BY <1>1, <1>4
  <1>12. Tells(Yielded, extra, p[1], p[2], p[3])
    BY <1>3
  <1>13. Yield(a \o b \o c)
    BY <1>1
  <1>14. p = <<active.item, active.len, output>>
    OBVIOUS
  <1>15. Leads(c, extra, r, s)
    BY <1>8, GoesOnLeads
  <1> HIDE DEF p, q, r, s, item, len
  <1>16. Leads(a, extra, p, q)
    <2>1. closes => Leads(CloseActive(active.at), extra, p, q)
      BY <1>9, <1>14, CloseActiveLeads DEF Shape
    <2> QED  BY <1>9, <2>1, IfLeads
  <1>17. Leads(b, extra, q, r)
    <2>1. NewItem(done) \in Nat \ {None}
      BY <1>1 DEF None, Message
    <2>2. \A d \in 1..Len(done) : done[d] # NewItem(done)
      BY <1>1, IdsAreFresh
    <2>3. 0 \in Nat
      OBVIOUS
    <2>4. Leads(OpenMessage(NewItem(done), Len(done)), extra, <<None, 0, done>>, <<NewItem(done), 0, done>>)
      BY <2>1, <2>2, <2>3, ItemsLead
    <2>5. ~goesOn => Leads(OpenMessage(NewItem(done), Len(done)), extra, q, r)
      BY <1>10, <2>4
    <2> QED  BY <1>10, <2>5, IfLeads
  <1>18. a \in Seq(Plain) /\ b \in Seq(Plain) /\ c \in Seq(Plain)
    <2>1. OpenMessage(NewItem(done), Len(done)) \in Seq(Calm) /\ c \in Seq(Calm)
      BY <1>1, <1>5, <1>8, PartsAreCalm
    <2>2. CloseActive(active.at) \in Seq(Plain)
      BY CloseActiveLeads DEF Shape
    <2>3. a \in Seq(Plain)
      BY <2>2, EmptySeq DEF If
    <2> QED  BY <2>1, <2>3, IfIs, CalmIsPlain
  <1> HIDE DEF a, b, c
  <1>19. a \o b \o c \in Seq(Plain) /\ Leads(a \o b \o c, extra, p, s)
    BY <1>16, <1>17, <1>15, <1>18, ThreeLead
  <1>20. Tells(Yielded', extra, s[1], s[2], s[3])
    BY <1>12, <1>13, <1>19, TellingGoes
  <1> QED  BY <1>11, <1>20
\* A step that yields nothing.
LEMMA QuietTells ==
    ASSUME TypeOK, Shape, Alive, NEW extra \in Nat, Tells(Yielded, extra, Open, Length, Done),
           \/ EngineEnds \/ NoMoreCalls \/ Update \/ Pass
           \/ \E c \in Chunks : Receive(c)
           \/ UNCHANGED vars
    PROVE  Tells(Yielded', extra, Open', Length', Done')
  <1>1. Yielded' = Yielded
    <2>1. CASE EngineEnds \/ NoMoreCalls \/ Update \/ (\E c \in Chunks : Receive(c)) \/ UNCHANGED vars
      BY <2>1 DEF EngineEnds, NoMoreCalls, Update, Receive, vars, Yielded
    <2>2. CASE Pass
      BY <2>2, HeadIs DEF Pass, Yielded
    <2> QED  BY <2>1, <2>2
  <1>2. Open' = Open /\ Length' = Length /\ Done' = Done
    <2>1. CASE EngineEnds \/ NoMoreCalls \/ Pass \/ (\E c \in Chunks : Receive(c)) \/ UNCHANGED vars
      BY <2>1 DEF EngineEnds, NoMoreCalls, Pass, Receive, vars, itemVars, Open, Length, Done, Owed, Pending
    <2>2. CASE Update
      <3> DEFINE new == IF chunk.text = "none" THEN 0 ELSE 1
      <3>1. /\ pc = "update" /\ pc' = (IF Semantic(chunk) THEN "close" ELSE "text")
            /\ text'.streamed = text.streamed + (IF kind' = "text" THEN new ELSE 0)
            /\ UNCHANGED <<mode, chunk, reasoning, textOpen, index, active, semantic, output>>
        BY <2>2 DEF Update, itemVars
      <3>2. textOpen => pc' = "text"
        BY <3>1 DEF Shape, ChunkFits, ItemsFit
      <3>3. text.streamed \in Nat /\ Owed = 0
        BY <3>1 DEF TypeOK, Owed, Pending
      <3>4. textOpen => Owed' = (IF kind' = "text" THEN new ELSE 0)
        BY <3>1, <3>2 DEF Owed, Pending
      <3>5. textOpen => text'.streamed - Owed' = text.streamed - Owed
        BY <3>1, <3>3, <3>4
      <3> QED  BY <3>1, <3>5 DEF Open, Length, Done
    <2> QED  BY <2>1, <2>2
  <1> QED  BY <1>1, <1>2

\* The steps that leave the generator at work.
LEMMA AliveSteps ==
    ASSUME [Next]_vars, Alive, Alive'
    PROVE  \/ Prelude \/ Reason \/ CloseReasoning \/ ToolCallDelta \/ ContentDelta \/ TextDelta
           \/ EngineEnds \/ NoMoreCalls \/ Update \/ Pass
           \/ \E c \in Chunks : Receive(c)
           \/ UNCHANGED vars
  <1>1. ~NotStarted /\ ~EngineFails /\ ~FinishSemantic /\ ~FinishText /\ ~FinishRaises
    BY DEF NotStarted, EngineFails, FinishSemantic, FinishText, FinishRaises, Alive
  <1>2. ~StoreFails /\ ~Fail /\ ~FailFails /\ ~End /\ ~Disconnect
    BY DEF StoreFails, Fail, FailFails, End, Disconnect, Alive
  <1> QED  BY <1>1, <1>2 DEF Next

LEMMA NoneCompleted ==
    ASSUME TypeOK, Goes, \A k \in DOMAIN Yielded : Yielded[k].type # "completed"
    PROVE  \A k \in DOMAIN Yielded' : Yielded'[k].type # "completed"
  <1>1. /\ queue = <<>> /\ queue' \in Seq(Events) /\ sent \in Seq(Events)
        /\ UNCHANGED sent /\ \A i \in 1..Len(queue') : ~Ends(queue'[i])
    BY GoesIs
  <1>2. Yielded = sent /\ Yielded' = sent \o queue'
    BY <1>1, JoinedIs DEF Yielded
  <1>3. \A i \in 1..Len(sent) : sent[i].type # "completed"
    BY <1>1, <1>2, JoinedIs
  <1>4. \A i \in 1..Len(queue') : queue'[i].type # "completed"
    BY <1>1 DEF Ends
  <1>5. /\ DOMAIN Yielded' = 1..(Len(sent) + Len(queue'))
        /\ \A i \in 1..Len(sent) : Yielded'[i] = sent[i]
        /\ \A i \in 1..Len(queue') : Yielded'[Len(sent) + i] = queue'[i]
        /\ \A i \in 1..(Len(sent) + Len(queue')) : i \in 1..Len(sent) \/ \E j \in 1..Len(queue') : i = Len(sent) + j
    BY <1>1, <1>2, JoinedIs, ZenonT(60)
  <1> SUFFICES ASSUME NEW k \in DOMAIN Yielded' PROVE Yielded'[k].type # "completed"
    OBVIOUS
  <1>6. k \in 1..Len(sent) \/ \E j \in 1..Len(queue') : k = Len(sent) + j
    BY <1>5
  <1>7. CASE k \in 1..Len(sent)
    BY <1>3, <1>5, <1>7
  <1>8. ASSUME NEW j \in 1..Len(queue'), k = Len(sent) + j PROVE Yielded'[k].type # "completed"
    BY <1>4, <1>5, <1>8
  <1> QED  BY <1>6, <1>7, <1>8

LEMMA NextAlive ==
    ASSUME Quirks = {}, TypeOK, AliveFits, [Next]_vars, Alive, Alive' PROVE AliveFits'
  <1>1. Shape /\ \A extra \in Nat : Tells(Yielded, extra, Open, Length, Done)
    BY DEF AliveFits, Shape
  <1>2. Shape'
    <2>1. CASE \/ Prelude \/ EngineEnds \/ Reason \/ NoMoreCalls \/ Pass
               \/ \E c \in Chunks : Receive(c)
               \/ UNCHANGED vars
      BY <1>1, <2>1, ShapeOfSteps
    <2>2. CASE Update
      BY <1>1, <2>2, ShapeOfUpdate
    <2>3. CASE TextDelta
      BY <1>1, <2>3, ShapeOfTextDelta
    <2>4. CASE CloseReasoning
      BY <1>1, <2>4, ShapeOfClose
    <2>5. CASE ToolCallDelta \/ ContentDelta
      BY <1>1, <2>5, ShapeOfDeltas
    <2> QED  BY <2>1, <2>2, <2>3, <2>4, <2>5, AliveSteps
  <1>3. ASSUME NEW extra \in Nat PROVE Tells(Yielded', extra, Open', Length', Done')
    <2>1. Tells(Yielded, extra, Open, Length, Done)
      BY <1>1
    <2>2. CASE Prelude
      BY <1>1, <2>1, <2>2, PreludeTells
    <2>3. CASE Reason
      BY <1>1, <2>1, <2>3, ReasonTells
    <2>4. CASE CloseReasoning
      BY <1>1, <2>1, <2>4, CloseTells
    <2>5. CASE ToolCallDelta
      BY <1>1, <2>1, <2>5, CallTells
    <2>6. CASE ContentDelta
      BY <1>1, <2>1, <2>6, ContentTells
    <2>7. CASE TextDelta
      BY <1>1, <2>1, <2>7, TextDeltaTells
    <2>8. CASE \/ EngineEnds \/ NoMoreCalls \/ Update \/ Pass
               \/ \E c \in Chunks : Receive(c)
               \/ UNCHANGED vars
      BY <1>1, <2>1, <2>8, QuietTells
    <2> QED  BY <2>2, <2>3, <2>4, <2>5, <2>6, <2>7, <2>8, AliveSteps
  <1>4. \A k \in DOMAIN Yielded' : Yielded'[k].type # "completed"
    <2>1. \A k \in DOMAIN Yielded : Yielded[k].type # "completed"
      BY DEF AliveFits
    <2>2. CASE Goes
      BY <2>1, <2>2, NoneCompleted
    <2>3. CASE Yielded' = Yielded
      BY <2>1, <2>3
    <2>4. Goes \/ Yielded' = Yielded
      <3>1. CASE Prelude \/ Reason \/ CloseReasoning
        BY <3>1, ReasonGoes
      <3>2. CASE ToolCallDelta \/ ContentDelta \/ TextDelta
        BY <3>2, DeltaGoes
      <3>3. CASE EngineEnds \/ NoMoreCalls \/ Update \/ (\E c \in Chunks : Receive(c)) \/ UNCHANGED vars
        BY <3>3 DEF EngineEnds, NoMoreCalls, Update, Receive, vars, Yielded
      <3>4. CASE Pass
        BY <3>4, HeadIs DEF Pass, Yielded
      <3> QED  BY <3>1, <3>2, <3>3, <3>4, AliveSteps
    <2> QED  BY <2>2, <2>3, <2>4
  <1> QED  BY <1>2, <1>3, <1>4 DEF AliveFits, Shape
-----------------------------------------------------------------------------
(* What the last steps tell. *)

\* While the generator is at work, the rest of the invariant follows.
LEMMA AliveTells ==
    ASSUME TypeOK, AliveFits
    PROVE  Extra \in Nat /\ HasTold
  <1>1. Shape
    BY DEF AliveFits, Shape
  <1>2. Extra \in Nat
    BY <1>1, StateIs
  <1>3. FollowsProtocol(Yielded, Extra)
    BY <1>2 DEF AliveFits, Tells
  <1>4. Whole(Yielded)
    BY DEF AliveFits, Whole
  <1> QED  BY <1>2, <1>3, <1>4 DEF HasTold

\* Events that speak of no item, after all others.
LEMMA FailureFollows ==
    ASSUME NEW s \in Seq(Events), NEW from \in Nat, NEW extra, FollowsProtocol(s, extra), Whole(s)
    PROVE  LET t == s \o Numbered(Failure, from) IN FollowsProtocol(t, extra) /\ Whole(t)
  <1> DEFINE q == Numbered(Failure, from)
             t == s \o q
  <1>1. /\ q \in Seq(Events) /\ Len(q) = 2 /\ q[1].type = "error" /\ q[2].type = "failed"
        /\ \A i \in 1..2 : q[i].item = None
    BY FailureIs
  <1> HIDE DEF q
  <1>2. /\ t \in Seq(Events) /\ Len(s) \in Nat /\ Len(t) = Len(s) + Len(q) /\ DOMAIN t = 1..(Len(s) + Len(q))
        /\ \A i \in 1..Len(q) : t[Len(s) + i] = q[i]
        /\ DOMAIN s = 1..Len(s)
        /\ \A i \in 1..Len(s) : t[i] = s[i]
        /\ \A i \in 1..(Len(s) + Len(q)) : i \in 1..Len(s) \/ \E j \in 1..Len(q) : i = Len(s) + j
    BY <1>1, JoinedIs
  <1>3. /\ t \in Seq(Events) /\ Len(s) \in Nat /\ Len(t) = Len(s) + 2 /\ DOMAIN t = 1..(Len(s) + 2)
        /\ \A i \in 1..2 : t[Len(s) + i] = q[i]
        /\ DOMAIN s = 1..Len(s)
        /\ \A i \in 1..Len(s) : t[i] = s[i]
        /\ \A i \in 1..(Len(s) + 2) : i \in 1..Len(s) \/ \E j \in 1..2 : i = Len(s) + j
    BY <1>1, <1>2
  <1>4. ASSUME NEW k \in 1..Len(s) PROVE InTurn(t, k) /\ TextFits(t, k, extra)
    BY <1>1, InTurnPrefix DEF FollowsProtocol
  <1>5. ASSUME NEW k \in 0..Len(s)
        PROVE  /\ \A type : Of(t, k, type) = Of(s, k, type)
               /\ \A type : \A i \in Of(s, k, type) : t[i] = s[i]
    BY <1>1, OfPrefix
  <1> HIDE DEF t
  <1>6. ASSUME NEW j \in 1..2 PROVE InTurn(t, Len(s) + j) /\ TextFits(t, Len(s) + j, extra)
    <2>1. t[Len(s) + j].type \in {"error", "failed"} /\ t[Len(s) + j].item = None
      BY <1>1, <1>3
    <2> QED  BY <2>1 DEF InTurn, TextFits
  <1>7. FollowsProtocol(t, extra)
    BY <1>3, <1>4, <1>6 DEF FollowsProtocol
  <1>8. Whole(t)
    <2> SUFFICES ASSUME NEW k \in DOMAIN t, t[k].type = "completed"
                 PROVE  /\ Len(output) = Cardinality(Of(t, k, "done"))
                        /\ \A i \in Of(t, k, "done") : output[t[i].at + 1] = t[i].item
                        /\ ~semantic /\ text.all > 0 => \E j \in Of(t, k, "text_done") : t[j].len = text.all
      BY DEF Whole
    <2>1. k \in 1..Len(s)
      BY <1>1, <1>3
    <2>2. s[k].type = "completed" /\ k \in DOMAIN s /\ k \in 0..Len(s)
      BY <1>3, <2>1
    <2>3. /\ Len(output) = Cardinality(Of(s, k, "done"))
          /\ \A i \in Of(s, k, "done") : output[s[i].at + 1] = s[i].item
          /\ ~semantic /\ text.all > 0 => \E j \in Of(s, k, "text_done") : s[j].len = text.all
      BY <2>2 DEF Whole
    <2>4. /\ \A type : Of(t, k, type) = Of(s, k, type)
          /\ \A type : \A i \in Of(s, k, type) : t[i] = s[i]
      BY <1>5, <2>2
    <2> QED  BY <2>3, <2>4
  <1> QED  BY <1>7, <1>8 DEF t, q

\* Events thrown away.
LEMMA CutFollows ==
    ASSUME NEW s \in Seq(Events), NEW q \in Seq(Events), NEW extra, FollowsProtocol(s \o q, extra), Whole(s \o q)
    PROVE  FollowsProtocol(s, extra) /\ Whole(s)
  <1>1. FollowsProtocol(s, extra)
    BY FollowsCut
  <1>2. ASSUME NEW k \in DOMAIN s, s[k].type = "completed"
        PROVE  /\ Len(output) = Cardinality(Of(s, k, "done"))
               /\ \A i \in Of(s, k, "done") : output[s[i].at + 1] = s[i].item
               /\ ~semantic /\ text.all > 0 => \E j \in Of(s, k, "text_done") : s[j].len = text.all
    <2> DEFINE t == s \o q
    <2>1. k \in DOMAIN t /\ t[k] = s[k] /\ k \in 0..Len(s)
      BY JoinedIs
    <2>2. /\ \A type : Of(t, k, type) = Of(s, k, type)
          /\ \A type : \A i \in Of(s, k, type) : t[i] = s[i]
      BY <2>1, OfPrefix
    <2>3. Whole(t)
      OBVIOUS
    <2> HIDE DEF t
    <2>4. /\ Len(output) = Cardinality(Of(t, k, "done"))
          /\ \A i \in Of(t, k, "done") : output[t[i].at + 1] = t[i].item
          /\ ~semantic /\ text.all > 0 => \E j \in Of(t, k, "text_done") : t[j].len = text.all
      BY <1>2, <2>1, <2>3 DEF Whole
    <2> QED  BY <2>2, <2>4
  <1> QED  BY <1>1, <1>2 DEF Whole

\* The events tell that a text of length len is complete.
TellsText(es, len) == \E i \in 1..Len(es) : es[i].type = "text_done" /\ es[i].len = len

\* The response is completed with what has been told, and with all the text.
LEMMA CompletedTells ==
    ASSUME TypeOK, NEW es \in Seq(Plain), Yield(es), AliveFits, Finishes, UNCHANGED <<text, semantic>>,
           NEW extra, Tells(Yielded', extra, None, 0, output'),
           ~semantic /\ text.all > 0 => TellsText(es, text.all)
    PROVE  FollowsProtocol(Yielded', extra) /\ Whole(Yielded)'
  <1>1. /\ queue = <<>> /\ queue' \in Seq(Events) /\ sent \in Seq(Events) /\ Len(queue') > 0 /\ UNCHANGED sent
        /\ \A i \in 1..Len(queue') : Ends(queue'[i]) <=> i = Len(queue')
    BY FinishesIs
  <1>2. Alike(queue', es)
    BY YieldIs
  <1>3. Yielded = sent /\ Yielded' = sent \o queue'
    BY <1>1, JoinedIs DEF Yielded
  <1> DEFINE t == sent \o queue'
  <1>4. /\ t \in Seq(Events) /\ Len(sent) \in Nat /\ Len(queue') \in Nat /\ Len(t) = Len(sent) + Len(queue')
        /\ DOMAIN t = 1..Len(t) /\ DOMAIN sent = 1..Len(sent)
        /\ \A i \in 1..Len(sent) : t[i] = sent[i]
        /\ \A i \in 1..Len(queue') : t[Len(sent) + i] = queue'[i]
        /\ \A i \in 1..Len(t) : i \in 1..Len(sent) \/ \E j \in 1..Len(queue') : i = Len(sent) + j
    <2>1. /\ t \in Seq(Events) /\ Len(sent) \in Nat /\ Len(queue') \in Nat /\ Len(t) = Len(sent) + Len(queue')
          /\ DOMAIN t = 1..(Len(sent) + Len(queue')) /\ DOMAIN sent = 1..Len(sent)
          /\ \A i \in 1..Len(sent) : t[i] = sent[i]
          /\ \A i \in 1..Len(queue') : t[Len(sent) + i] = queue'[i]
          /\ \A i \in 1..(Len(sent) + Len(queue')) : i \in 1..Len(sent) \/ \E j \in 1..Len(queue') : i = Len(sent) + j
      BY <1>1, JoinedIs, ZenonT(60)
    <2> HIDE DEF t
    <2> QED  BY <2>1
  <1>5. \A k \in 1..Len(sent) : sent[k].type # "completed"
    BY <1>3, <1>4 DEF AliveFits
  <1>6. Tells(t, extra, None, 0, output')
    BY <1>3
  <1> HIDE DEF t
  <1>7. \A k \in 1..Len(t) : t[k].type = "completed" => k = Len(t)
    <2> SUFFICES ASSUME NEW k \in 1..Len(t), t[k].type = "completed" PROVE k = Len(t)
      OBVIOUS
    <2>1. k \in 1..Len(sent) \/ \E j \in 1..Len(queue') : k = Len(sent) + j
      BY <1>4
    <2>2. k \notin 1..Len(sent)
      BY <1>4, <1>5
    <2>3. PICK j \in 1..Len(queue') : k = Len(sent) + j
      BY <2>1, <2>2
    <2>4. Ends(queue'[j])
      BY <1>4, <2>3 DEF Ends
    <2> QED  BY <1>1, <1>4, <2>3, <2>4
  <1>8. /\ Cardinality(Of(t, Len(t), "done")) = Len(output')
        /\ \A i \in Of(t, Len(t), "done") : output'[t[i].at + 1] = t[i].item
        /\ FollowsProtocol(t, extra)
    BY <1>6 DEF Tells
  <1>9. ~semantic /\ text.all > 0 => \E j \in Of(t, Len(t), "text_done") : t[j].len = text.all
    <2> HAVE ~semantic /\ text.all > 0
    <2>1. PICK i \in 1..Len(es) : es[i].type = "text_done" /\ es[i].len = text.all
      BY DEF TellsText
    <2>2. i \in 1..Len(queue') /\ queue'[i].type = "text_done" /\ queue'[i].len = text.all
      BY <1>2, <2>1 DEF Alike
    <2>3. Len(sent) + i \in 1..Len(t)
      BY <1>4, <2>2
    <2>4. Len(sent) + i \in Of(t, Len(t), "text_done") /\ t[Len(sent) + i].len = text.all
      BY <1>4, <2>2, <2>3 DEF Of
    <2> QED  BY <2>4
  <1>10. \A k \in DOMAIN t : t[k].type = "completed" =>
             /\ Len(output') = Cardinality(Of(t, k, "done"))
             /\ \A i \in Of(t, k, "done") : output'[t[i].at + 1] = t[i].item
             /\ ~semantic' /\ text'.all > 0 => \E j \in Of(t, k, "text_done") : t[j].len = text'.all
    BY <1>4, <1>7, <1>8, <1>9
  <1>11. t = Yielded'
    BY <1>3 DEF t
  <1> QED  BY <1>8, <1>10, <1>11 DEF Whole
LEMMA RaisesTells ==
    ASSUME TypeOK, AliveFits, FinishRaises
    PROVE  HasTold'
  <1> DEFINE closes == reasoning /\ ~textOpen
             p == <<Open, Length, Done>>
             q == IF closes THEN <<None, 0, Append(<<>>, Reasoning)>> ELSE p
             e == <<Event("done", Reasoning, index)>>
  <1>1. /\ Yield(If(closes, e)) /\ ~semantic /\ UNCHANGED <<text, semantic, output>>
    BY DEF FinishRaises
  <1>2. Reasoning \in Nat \ {None} /\ <<>> \in Seq(Nat) /\ Len(<<>>) = 0
    BY DEF Reasoning, None
  <1>3. Shape /\ Extra \in Nat /\ Tells(Yielded, Extra, Open, Length, Done)
    BY AliveTells DEF AliveFits, Shape
  <1>4. closes => p = <<Reasoning, 0, <<>> >> /\ q = <<None, 0, Append(<<>>, Reasoning)>> /\ index = Len(<<>>)
    BY <1>1, <1>2, <1>3, StateIs
  <1>5. ~closes => p = q
    OBVIOUS
  <1>6. If(closes, e) \in Seq(Plain)
    <2>1. index \in Nat
      BY DEF TypeOK
    <2>2. e \in Seq(Calm)
      BY <1>2, <2>1, PartsAreCalm
    <2> QED  BY <2>2, IfIs, CalmIsPlain
  <1>7. Tells(Yielded, Extra, p[1], p[2], p[3])
    BY <1>3
  <1>8. closes => Leads(e, Extra, p, q)
    <2>1. Leads(<<Event("done", Reasoning, Len(<<>>))>>, Extra, <<Reasoning, 0, <<>> >>, <<None, 0, Append(<<>>, Reasoning)>>)
      BY <1>2, ClosesLeads
    <2> HIDE DEF p, q, closes
    <2> QED  BY <1>4, <2>1
  <1> HIDE DEF closes, e, p, q
  <1>9. Leads(If(closes, e), Extra, p, q)
    BY <1>5, <1>8, IfLeads
  <1>10. Tells(Yielded', Extra, q[1], q[2], q[3])
    BY <1>1, <1>6, <1>7, <1>9, TellingGoes
  <1>11. \A k \in DOMAIN Yielded' : Yielded'[k].type # "completed"
    BY ReasonGoes, NoneCompleted DEF AliveFits
  <1> QED  BY <1>1, <1>10, <1>11 DEF Whole, Tells, HasTold, Extra

LEMMA SemanticTells ==
    ASSUME TypeOK, AliveFits, FinishSemantic
    PROVE  HasTold'
  <1> DEFINE done == IF active.kind = "none" THEN output ELSE Append(output, active.item)
             p == <<active.item, active.len, output>>
             q == <<None, 0, done>>
             a == CloseActive(active.at)
             b == <<Event("completed", None, 0)>>
             n == If(reasoning, <<Event("done", Reasoning, active.at)>>)
             at == IF reasoning THEN active.at + 1 ELSE active.at
  <1>1. /\ Yield(n \o CloseActive(at) \o b)
        /\ output' = output \o If(reasoning, <<Reasoning>>) \o If(active.kind # "none", <<active.item>>)
        /\ semantic /\ UNCHANGED <<text, semantic>>
    BY DEF FinishSemantic
  <1>2. Shape /\ Extra \in Nat /\ Tells(Yielded, Extra, Open, Length, Done)
    BY AliveTells DEF AliveFits, Shape
  <1>3. Open = active.item /\ Length = active.len /\ Done = output /\ ~reasoning
    BY <1>1, <1>2, StateIs
  <1>4. active.item \in Nat /\ output \in Seq(Nat)
    BY DEF TypeOK, Active
  <1>5. a \in Seq(Plain) /\ Leads(a, Extra, p, q)
    BY <1>2, CloseActiveLeads DEF Shape
  <1>6. at = active.at /\ n = <<>>
    BY <1>3 DEF If
  <1>7. Yield(a \o b)
    <2>1. <<>> \o a = a
      BY <1>5, ConcatEmptySeq
    <2> HIDE DEF a, b
    <2>2. Yield(<<>> \o a \o b)
      BY <1>1, <1>6 DEF a
    <2> QED  BY <2>1, <2>2
  <1>8. output' = done
    <2>1. output \o <<>> = output /\ output \o <<active.item>> = Append(output, active.item)
      BY <1>4
    <2>2. If(reasoning, <<Reasoning>>) = <<>>
      BY <1>3 DEF If
    <2>3. output' = output \o If(active.kind # "none", <<active.item>>)
      BY <1>1, <2>1, <2>2
    <2>4. CASE active.kind = "none"
      BY <2>1, <2>3, <2>4 DEF If
    <2>5. CASE active.kind # "none"
      BY <2>1, <2>3, <2>5 DEF If
    <2> QED  BY <2>4, <2>5
  <1>9. done \in Seq(Nat)
    BY <1>4
  <1> HIDE DEF done
  <1>10. b \in Seq(Plain) /\ Leads(b, Extra, q, q)
    <2>1. Event("completed", None, 0) \in Plain
      BY EventIs DEF None, EventTypes
    <2>2. Leads(b, Extra, q, q)
      BY <1>9, SpeaksForLeads
    <2> QED  BY <2>1, <2>2
  <1>11. Tells(Yielded, Extra, p[1], p[2], p[3])
    BY <1>2, <1>3
  <1>12. q[1] = None /\ q[2] = 0 /\ q[3] = output'
    BY <1>8
  <1> HIDE DEF a, b, p, q, n, at
  <1>13. a \o b \in Seq(Plain) /\ Leads(a \o b, Extra, p, q)
    BY <1>5, <1>10, BothLead, ConcatProperties
  <1>14. Tells(Yielded', Extra, None, 0, output')
    BY <1>7, <1>11, <1>12, <1>13, TellingGoes
  <1>15. Finishes
    BY EndFinishes
  <1>16. ~semantic /\ text.all > 0 => TellsText(a \o b, text.all)
    BY <1>1
  <1> QED  BY <1>1, <1>7, <1>13, <1>14, <1>15, <1>16, CompletedTells DEF HasTold, Extra
LEMMA AmongThem ==
    ASSUME NEW a \in Seq(Plain), NEW b \in Seq(Plain), NEW len, TellsText(a, len) \/ TellsText(b, len)
    PROVE  TellsText(a \o b, len)
  <1> DEFINE t == a \o b
  <1>1. /\ Len(a) \in Nat /\ Len(b) \in Nat /\ Len(t) = Len(a) + Len(b)
        /\ \A i \in 1..(Len(a) + Len(b)) : t[i] = IF i <= Len(a) THEN a[i] ELSE b[i - Len(a)]
    BY ConcatProperties, LenProperties
  <1> HIDE DEF t
  <1>2. ASSUME NEW i \in 1..Len(a), a[i].type = "text_done", a[i].len = len
        PROVE  \E k \in 1..Len(t) : t[k].type = "text_done" /\ t[k].len = len
    <2>1. i \in 1..Len(t) /\ t[i] = a[i]
      BY <1>1
    <2> QED  BY <1>2, <2>1
  <1>3. ASSUME NEW i \in 1..Len(b), b[i].type = "text_done", b[i].len = len
        PROVE  \E k \in 1..Len(t) : t[k].type = "text_done" /\ t[k].len = len
    <2>1. Len(a) + i \in 1..(Len(a) + Len(b)) /\ ~(Len(a) + i <= Len(a)) /\ Len(a) + i - Len(a) = i
      BY <1>1
    <2>2. Len(a) + i \in 1..Len(t) /\ t[Len(a) + i] = b[i]
      BY <1>1, <2>1
    <2> QED  BY <1>3, <2>2
  <1>4. \E k \in 1..Len(t) : t[k].type = "text_done" /\ t[k].len = len
    BY <1>2, <1>3 DEF TellsText
  <1> QED  BY <1>4 DEF t, TellsText

LEMMA TextTells ==
    ASSUME TypeOK, AliveFits, FinishText
    PROVE  HasTold'
  <1> DEFINE closes == reasoning /\ ~textOpen
             says == Deferred /\ ~textOpen
             ends == textOpen \/ says
             at == IF closes THEN index + 1 ELSE index
             d == IF reasoning THEN Append(<<>>, Reasoning) ELSE <<>>
             p == <<Open, Length, Done>>
             q == IF textOpen THEN p ELSE <<None, 0, d>>
             r == IF ends THEN <<Message, text.all - Extra, d>> ELSE q
             s == IF ends THEN <<None, 0, Append(d, Message)>> ELSE q
             o == OpenMessage(Message, at)
             w == <<Text("delta", Message, at, text.all)>>
             a == If(closes, <<Event("done", Reasoning, index)>>)
             b == If(says, o \o w)
             c == If(ends, CloseMessage(Message, at, text.all))
             z == <<Event("completed", None, 0)>>
  <1>1. Yield(a \o b \o c \o z) /\ output' = OutputOfText /\ ~semantic /\ pc = "finish" /\ UNCHANGED <<text, semantic>>
    BY DEF FinishText
  <1>2. Reasoning \in Nat \ {None} /\ Message \in Nat \ {None} /\ Reasoning # Message /\ <<>> \in Seq(Nat) /\ Len(<<>>) = 0
    BY DEF Reasoning, None, Message
  <1>3. Shape /\ Extra \in Nat /\ Tells(Yielded, Extra, Open, Length, Done)
    BY AliveTells DEF AliveFits, Shape
  <1>4. Append(<<>>, Reasoning) = <<Reasoning>> /\ Len(<<Reasoning>>) = 1 /\ <<Reasoning>> \in Seq(Nat) /\ <<Reasoning>>[1] = Reasoning
    BY <1>2
  <1>5. /\ text.all \in Nat /\ text.streamed \in Nat /\ index \in Nat /\ output = <<>> /\ index = Len(Done)
        /\ text.streamed <= text.all
        /\ ~textOpen => Done = <<>> /\ Length = 0 /\ Open = IF reasoning THEN Reasoning ELSE None
    BY <1>1, <1>3, StateIs DEF Shape, TextCounted
  <1>6. Owed = 0
    BY <1>1 DEF Owed, Pending
  <1>7. ASSUME textOpen
        PROVE  Open = Message /\ Length = text.streamed /\ text.streamed > 0 /\ Extra = text.all - text.streamed /\ Done = d /\ Length \in Nat
    <2>1. text.streamed > 0
      BY <1>3, <1>6, <1>7 DEF Shape, ItemsFit
    <2>2. Open = Message /\ Length = text.streamed
      BY <1>5, <1>6, <1>7 DEF Open, Length
    <2>3. Done = d
      BY <1>4, <1>5, <1>7 DEF Done
    <2> QED  BY <1>5, <2>1, <2>2, <2>3 DEF Extra
  <1>8. says => Extra = 0 /\ ~textOpen
    BY DEF Deferred, Extra
  <1>9. text.all > 0 => ends
    <2> SUFFICES ASSUME text.all > 0, ~textOpen PROVE says
      OBVIOUS
    <2>1. CASE mode = "parser"
      <3>1. kind # "text"
        BY <1>1, <1>3, <2>1 DEF Shape, TextCounted
      <3> QED  BY <1>3, <3>1 DEF Shape, TextCounted, Deferred
    <2>2. CASE mode # "parser"
      BY <1>3, <1>6, <2>2 DEF Shape, TextCounted, Deferred
    <2> QED  BY <2>1, <2>2
  <1>10. at = Len(d) /\ at \in Nat /\ d \in Seq(Nat)
    <2>1. CASE textOpen
      <3>1. at = index
        BY <2>1
      <3>2. Done = d /\ Done \in Seq(Nat)
        BY <1>3, <1>7, <2>1, StateIs
      <3> HIDE DEF at, d
      <3> QED  BY <1>5, <3>1, <3>2
    <2>2. CASE ~textOpen /\ reasoning
      BY <1>2, <1>4, <1>5, <2>2
    <2>3. CASE ~textOpen /\ ~reasoning
      BY <1>2, <1>5, <2>3
    <2> QED  BY <2>1, <2>2, <2>3
  <1>11. output' = s[3] /\ s[1] = None /\ s[2] = 0
    <2>1. output' = <<>> \o If(reasoning, <<Reasoning>>) \o If(ends, <<Message>>)
      BY <1>1, <1>5 DEF OutputOfText
    <2>2. If(reasoning, <<Reasoning>>) = d
      BY <1>4 DEF If
    <2>3. <<>> \o d = d /\ d \o <<Message>> = Append(d, Message) /\ d \o <<>> = d
      <3> HIDE DEF d
      <3> QED  BY <1>2, <1>10, ConcatEmptySeq, AppendIsConcat
    <2>4. s = <<None, 0, IF ends THEN Append(d, Message) ELSE d>>
      OBVIOUS
    <2> HIDE DEF d, ends, s
    <2>5. output' = d \o If(ends, <<Message>>)
      BY <2>1, <2>2, <2>3
    <2>6. output' = IF ends THEN Append(d, Message) ELSE d
      BY <2>3, <2>5 DEF If
    <2> QED  BY <2>4, <2>6
  <1>12. /\ closes => p = <<Reasoning, 0, <<>> >> /\ q = <<None, 0, Append(<<>>, Reasoning)>> /\ index = Len(<<>>)
         /\ ~closes => p = q
    BY <1>2, <1>5
  <1>13. /\ says => q = <<None, 0, d>> /\ r = <<Message, text.all, d>>
         /\ ~says => q = r
         /\ ends => r = <<Message, text.all - Extra, d>> /\ s = <<None, 0, Append(d, Message)>> /\ text.all - Extra \in Nat
         /\ ~ends => r = s
    <2>1. says => q = <<None, 0, d>> /\ r = <<Message, text.all - Extra, d>> /\ text.all - Extra = text.all
      BY <1>5, <1>8
    <2>2. textOpen => q = <<Message, text.streamed, d>> /\ text.all - Extra = text.streamed
      <3> HAVE textOpen
      <3>1. q = p
        OBVIOUS
      <3>2. p = <<Message, text.streamed, d>>
        BY <1>7
      <3>3. text.all - Extra = text.streamed
        BY <1>5, <1>7
      <3> HIDE DEF p, q, d
      <3> QED  BY <3>1, <3>2, <3>3
    <2>3. ends => text.all - Extra \in Nat
      BY <1>5, <2>1, <2>2
    <2>4. ~says => q = r
      BY <2>2
    <2> QED  BY <2>1, <2>3, <2>4
  <1>14. \A i \in 1..Len(d) : d[i] # Message
    <2>1. reasoning => d = <<Reasoning>>
      BY <1>4
    <2>2. ~reasoning => d = <<>>
      OBVIOUS
    <2> HIDE DEF d
    <2> QED  BY <1>2, <1>4, <2>1, <2>2
  <1>15. s[3] \in Seq(Nat)
    BY <1>2, <1>10
  <1>16. Tells(Yielded, Extra, p[1], p[2], p[3])
    BY <1>3
  <1>17. s = <<s[1], s[2], s[3]>>
    OBVIOUS
  <1> HIDE DEF closes, says, at, d, p, q, r, s
  <1>18. Leads(a, Extra, p, q)
    <2>1. Leads(<<Event("done", Reasoning, Len(<<>>))>>, Extra, <<Reasoning, 0, <<>> >>, <<None, 0, Append(<<>>, Reasoning)>>)
      BY <1>2, ClosesLeads
    <2>2. closes => Leads(<<Event("done", Reasoning, index)>>, Extra, p, q)
      BY <1>12, <2>1
    <2> QED  BY <1>12, <2>2, IfLeads
  <1>19. /\ o \in Seq(Plain) /\ w \in Seq(Plain) /\ z \in Seq(Plain)
         /\ CloseMessage(Message, at, text.all) \in Seq(Plain) /\ <<Event("done", Reasoning, index)>> \in Seq(Plain)
    <2>1. /\ o \in Seq(Calm) /\ w \in Seq(Calm) /\ CloseMessage(Message, at, text.all) \in Seq(Calm)
          /\ <<Event("done", Reasoning, index)>> \in Seq(Calm)
      BY <1>2, <1>5, <1>10, PartsAreCalm
    <2>2. Event("completed", None, 0) \in Plain
      BY EventIs DEF None, EventTypes
    <2>3. z \in Seq(Plain)
      BY <2>2
    <2> QED  BY <2>1, <2>3, CalmIsPlain
  <1>20. Leads(b, Extra, q, r)
    <2> DEFINE m == <<Message, 0, d>>
               v == <<Message, text.all, d>>
    <2>1. 0 \in Nat
      OBVIOUS
    <2>2. Leads(OpenMessage(Message, Len(d)), Extra, <<None, 0, d>>, <<Message, 0, d>>)
      BY <1>2, <1>3, <1>10, <1>14, <2>1, ItemsLead
    <2>3. says => Leads(o, Extra, q, m)
      BY <1>10, <1>13, <2>2
    <2>4. Leads(<<Text("delta", Message, Len(d), text.all)>>, Extra, <<Message, 0, d>>, <<Message, 0 + text.all, d>>)
      BY <1>2, <1>3, <1>5, <1>10, <2>1, GoesOnLeads
    <2>5. 0 + text.all = text.all
      BY <1>5
    <2>6. Leads(w, Extra, m, v)
      BY <1>10, <2>4, <2>5
    <2>7. says => v = r
      BY <1>13
    <2> HIDE DEF m, v, o, w
    <2>8. says => Leads(o \o w, Extra, q, r)
      BY <1>19, <2>3, <2>6, <2>7, BothLead
    <2> QED  BY <1>13, <2>8, IfLeads
  <1>21. Leads(c, Extra, r, s)
    <2>1. ends => text.all = (text.all - Extra) + IF Message = Message THEN Extra ELSE 0
      BY <1>3, <1>5
    <2>2. ends => Leads(CloseMessage(Message, Len(d), text.all), Extra, <<Message, text.all - Extra, d>>, <<None, 0, Append(d, Message)>>)
      BY <1>2, <1>3, <1>5, <1>10, <1>13, <2>1, ItemsLead
    <2> HIDE DEF ends
    <2>3. ends => Leads(CloseMessage(Message, at, text.all), Extra, r, s)
      BY <1>10, <1>13, <2>2
    <2> QED  BY <1>13, <2>3, IfLeads
  <1>22. Leads(z, Extra, s, s)
    <2>1. Leads(<<Event("completed", None, 0)>>, Extra, <<None, 0, s[3]>>, <<None, 0, s[3]>>)
      BY <1>15, SpeaksForLeads
    <2> QED  BY <1>11, <1>17, <2>1
  <1>23. a \in Seq(Plain) /\ b \in Seq(Plain) /\ c \in Seq(Plain)
    <2>1. o \o w \in Seq(Plain)
      BY <1>19, ConcatProperties
    <2> QED  BY <1>19, <2>1, EmptySeq DEF If
  <1>24. ~semantic /\ text.all > 0 => TellsText(c, text.all)
    <2> HAVE ~semantic /\ text.all > 0
    <2>1. c = CloseMessage(Message, at, text.all)
      BY <1>9 DEF If
    <2>2. 1 \in 1..Len(CloseMessage(Message, at, text.all)) /\ CloseMessage(Message, at, text.all)[1] = Text("text_done", Message, at, text.all)
      BY DEF CloseMessage
    <2>3. Text("text_done", Message, at, text.all).type = "text_done" /\ Text("text_done", Message, at, text.all).len = text.all
      BY DEF Text
    <2> HIDE DEF c
    <2> QED  BY <2>1, <2>2, <2>3 DEF TellsText
  <1> HIDE DEF a, b, c, z, ends
  <1>25. a \o b \o c \in Seq(Plain) /\ Leads(a \o b \o c, Extra, p, s)
    BY <1>18, <1>20, <1>21, <1>23, ThreeLead
  <1>26. a \o b \in Seq(Plain)
    BY <1>23, ConcatProperties
  <1> DEFINE ab == a \o b
             y == ab \o c
             es == y \o z
  <1>27. y \in Seq(Plain) /\ Leads(y, Extra, p, s) /\ ab \in Seq(Plain) /\ Yield(es)
    BY <1>1, <1>25, <1>26
  <1>28. ~semantic /\ text.all > 0 => TellsText(y, text.all)
    <2> HIDE DEF ab
    <2> QED  BY <1>23, <1>24, <1>27, AmongThem
  <1> HIDE DEF y
  <1>29. es \in Seq(Plain) /\ Leads(es, Extra, p, s)
    BY <1>19, <1>22, <1>27, BothLead, ConcatProperties
  <1>30. ~semantic /\ text.all > 0 => TellsText(es, text.all)
    BY <1>19, <1>27, <1>28, AmongThem
  <1> HIDE DEF es
  <1>31. Tells(Yielded', Extra, None, 0, output')
    <2>1. Tells(Yielded', Extra, s[1], s[2], s[3])
      BY <1>16, <1>27, <1>29, TellingGoes
    <2> QED  BY <1>11, <2>1
  <1>32. Finishes
    BY EndFinishes
  <1> QED  BY <1>1, <1>27, <1>29, <1>30, <1>31, <1>32, CompletedTells DEF HasTold, Extra
\* The steps that add nothing about the response.
LEMMA ToldStays ==
    ASSUME TypeOK, HasTold,
           \/ NotStarted \/ EngineFails \/ Pass \/ StoreFails \/ Fail \/ FailFails \/ End \/ Disconnect
           \/ UNCHANGED vars
    PROVE  HasTold'
  <1>1. UNCHANGED <<text, semantic, output>>
    BY DEF NotStarted, EngineFails, Pass, StoreFails, Fail, FailFails, End, Disconnect, vars, itemVars
  <1>2. sent \in Seq(Events) /\ queue \in Seq(Events) /\ seq \in Nat /\ next \in Nat
    BY DEF TypeOK
  <1>3. FollowsProtocol(Yielded', Extra) /\ Whole(Yielded')
    <2>1. CASE Yielded' = Yielded
      BY <2>1 DEF HasTold
    <2>2. CASE queue' = <<>> /\ sent' = sent
      <3>1. Yielded' = sent
        BY <1>2, <2>2, JoinedIs DEF Yielded
      <3>2. FollowsProtocol(sent \o queue, Extra) /\ Whole(sent \o queue)
        BY DEF HasTold, Yielded
      <3> QED  BY <1>2, <3>1, <3>2, CutFollows
    <2>3. ASSUME NEW from \in Nat, queue = <<>>, queue' = Numbered(Failure, from), sent' = sent
          PROVE  FollowsProtocol(Yielded', Extra) /\ Whole(Yielded')
      <3>1. Yielded = sent /\ Yielded' = sent \o Numbered(Failure, from)
        BY <1>2, <2>3, JoinedIs DEF Yielded
      <3>2. FollowsProtocol(sent, Extra) /\ Whole(sent)
        BY <3>1 DEF HasTold
      <3> QED  BY <1>2, <3>1, <3>2, FailureFollows
    <2>4. CASE NotStarted \/ FailFails \/ End \/ UNCHANGED vars
      BY <2>1, <2>4 DEF NotStarted, FailFails, End, vars, Yielded
    <2>5. CASE Pass
      BY <2>1, <2>5, HeadIs DEF Pass, Yielded
    <2>6. CASE StoreFails \/ Disconnect
      BY <2>2, <2>6 DEF StoreFails, Disconnect
    <2>7. CASE EngineFails
      BY <1>2, <2>3, <2>7 DEF EngineFails, Yield
    <2>8. CASE Fail
      BY <1>2, <2>3, <2>8 DEF Fail
    <2> QED  BY <2>4, <2>5, <2>6, <2>7, <2>8
  <1> QED  BY <1>1, <1>3 DEF HasTold, Whole, Extra

LEMMA NextTelling == ASSUME Quirks = {}, TypeOK, Telling, [Next]_vars PROVE Telling'
  <1>1. CASE Alive /\ Alive'
    BY <1>1, NextAlive DEF Telling
  <1>2. CASE Alive /\ ~Alive'
    <2> SUFFICES HasTold'
      BY <1>2 DEF Telling
    <2>1. AliveFits /\ HasTold
      BY <1>2, AliveTells DEF Telling
    <2>2. CASE NotStarted \/ EngineFails \/ Pass \/ StoreFails \/ Fail \/ FailFails \/ End \/ Disconnect \/ UNCHANGED vars
      BY <2>1, <2>2, ToldStays
    <2>3. CASE FinishSemantic
      BY <2>1, <2>3, SemanticTells
    <2>4. CASE FinishText
      BY <2>1, <2>4, TextTells
    <2>5. CASE FinishRaises
      BY <2>1, <2>5, RaisesTells
    <2>6. /\ ~Prelude /\ ~EngineEnds /\ ~Reason /\ ~Update /\ ~CloseReasoning /\ ~ToolCallDelta
          /\ ~NoMoreCalls /\ ~ContentDelta /\ ~TextDelta /\ ~\E c \in Chunks : Receive(c)
      BY <1>2 DEF Prelude, EngineEnds, Reason, Update, CloseReasoning, ToolCallDelta, NoMoreCalls,
                  ContentDelta, TextDelta, Receive, Alive
    <2> QED  BY <2>2, <2>3, <2>4, <2>5, <2>6 DEF Next
  <1>3. CASE ~Alive
    <2>1. Pass \/ StoreFails \/ Fail \/ FailFails \/ End \/ Disconnect \/ UNCHANGED vars
      BY <1>3 DEF Next, Alive, Prelude, NotStarted, EngineFails, EngineEnds, Reason, Update, CloseReasoning,
                  ToolCallDelta, NoMoreCalls, ContentDelta, TextDelta, Receive, FinishSemantic, FinishText, FinishRaises
    <2>2. HasTold'
      BY <1>3, <2>1, ToldStays DEF Telling
    <2>3. ~Alive'
      BY <1>3, <2>1 DEF Alive, Pass, StoreFails, Fail, FailFails, End, Disconnect, vars
    <2> QED  BY <2>2, <2>3 DEF Telling
  <1> QED  BY <1>1, <1>2, <1>3

LEMMA InitTelling == ASSUME Init PROVE Telling
  <1>1. /\ Yielded = <<>> /\ Alive /\ text.streamed = 0 /\ text.all = 0 /\ Owed = 0 /\ ~Pending
        /\ Open = None /\ Length = 0 /\ Done = <<>>
    <2>1. /\ pc = "start" /\ text = [all |-> 0, streamed |-> 0] /\ ~textOpen /\ ~reasoning /\ active = NoItem(0)
          /\ output = <<>> /\ queue = <<>> /\ sent = <<>>
      BY DEF Init
    <2>2. active.item = None /\ active.len = 0
      BY <2>1, NoItemIs
    <2>3. <<>> \o <<>> = <<>>
      OBVIOUS
    <2> QED  BY <2>1, <2>2, <2>3 DEF Yielded, Alive, Owed, Pending, Open, Length, Done
  <1>2. Shape
    <2>1. /\ active.kind = "none" /\ active.at = 0 /\ active.item = None /\ active.len = 0
      BY NoItemIs DEF Init
    <2>2. IdsCount(output)
      BY DEF Init, IdsCount
    <2> QED  BY <1>1, <2>1, <2>2 DEF Init, Shape, ChunkFits, ItemsFit, TextCounted
  <1>3. ASSUME NEW extra \in Nat PROVE Tells(<<>>, extra, None, 0, <<>>)
    <2> DEFINE s == <<>>
    <2>1. s \in Seq(Events) /\ Len(s) = 0 /\ 0 \in 0..Len(s)
      OBVIOUS
    <2>2. \A k \in 0..0 : \A type : Of(s, k, type) = {}
      BY DEF Of
    <2>3. \A i : Tokens(s, 0, i) = {}
      BY <2>2 DEF Tokens
    <2>4. IsFiniteSet({}) /\ Cardinality({}) = 0
      BY FS_EmptySet
    <2> HIDE DEF s
    <2>5. FollowsProtocol(s, extra)
      BY <2>1 DEF FollowsProtocol
    <2>6. Of(s, Len(s), "done") = {} /\ Of(s, Len(s), "added") = {} /\ \A i : Tokens(s, Len(s), i) = {}
      BY <2>1, <2>2, <2>3
    <2>7. /\ \A i \in Of(s, Len(s), "done") : s[i].at + 1 \in 1..Len(s) /\ s[s[i].at + 1] = s[i].item
          /\ \A i \in 1..Len(s) : s[i].item \in {None, None} \/ \E d \in 1..Len(s) : s[i].item = s[d]
      BY <2>1, <2>6
    <2>8. /\ Cardinality(Of(s, Len(s), "done")) = Len(s)
          /\ Cardinality(Of(s, Len(s), "added")) = Len(s) + IF None = None THEN 0 ELSE 1
          /\ \A i \in Nat : IsFiniteSet(Tokens(s, Len(s), i))
      <3>1. Cardinality(Of(s, Len(s), "done")) = 0 /\ Cardinality(Of(s, Len(s), "added")) = 0
        BY <2>4, <2>6
      <3>2. ASSUME NEW i \in Nat PROVE IsFiniteSet(Tokens(s, Len(s), i))
        <4>1. Tokens(s, Len(s), i) = {}
          BY <2>6
        <4> QED  BY <2>4, <4>1, Zenon
      <3> QED  BY <2>1, <3>1, <3>2
    <2>9. Tells(s, extra, None, 0, s)
      BY <2>5, <2>7, <2>8 DEF Tells
    <2> QED  BY <2>9 DEF s
  <1>4. \A extra \in Nat : Tells(Yielded, extra, Open, Length, Done)
    BY <1>1, <1>3
  <1>5. \A k \in DOMAIN Yielded : Yielded[k].type # "completed"
    BY <1>1
  <1> QED  BY <1>1, <1>2, <1>4, <1>5 DEF Telling, AliveFits, Shape

\* What the invariant says of the events sent.
LEMMA SentTells ==
    ASSUME TypeOK, Telling
    PROVE  FollowsProtocol(sent, Extra) /\ Whole(sent) /\ sent \in Seq(Events)
  <1>1. HasTold
    BY AliveTells DEF Telling
  <1> QED  BY <1>1, CutFollows DEF HasTold, Yielded, TypeOK

\* A client sees the items of a response one after the other, each opened once under the
\* next output index, its events while it is open, and none left open by a completed
\* response (the indices and flags that response_streaming.py keeps by hand); numbered
\* without a gap across generator and use case.  For any chunks in which reasoning comes
\* first and the tool parser gives its text up.
THEOREM Protocol == ASSUME Quirks = {} PROVE Spec => []EventsInTurn
  <1>1. Init => TypeOK /\ Numbering /\ Telling
    BY InitTypes, InitNumbers, InitTelling
  <1>2. TypeOK /\ Numbering /\ Telling /\ [Next]_vars => TypeOK' /\ Numbering' /\ Telling'
    BY NextTypes, NextNumbers, NextTelling
  <1>3. TypeOK /\ Numbering /\ Telling => EventsInTurn
    <2> SUFFICES ASSUME TypeOK, Numbering, Telling PROVE EventsInTurn
      OBVIOUS
    <2>1. NumbersCount
      BY NumbersAre
    <2>2. ASSUME NEW k \in DOMAIN sent PROVE InTurn(sent, k)
      BY SentTells, LenProperties DEF FollowsProtocol
    <2>3. ItemsInTurn
      BY <2>2 DEF ItemsInTurn, InTurn, Sent, Of
    <2> QED  BY <2>1, <2>3 DEF EventsInTurn
  <1> QED  BY <1>1, <1>2, <1>3, PTL DEF Spec

\* The response that completes a stream has the items its events told of, in their order;
\* a message is closed with the text of its deltas, but for leading blanks, and with
\* all of it, text kept back included (final_output_items and
\* _finalize_streamed_text_response of response_streaming.py).  For the same chunks.
THEOREM Content == ASSUME Quirks = {} PROVE Spec => []ContentAsTold
  <1>1. Init => TypeOK /\ Telling
    BY InitTypes, InitTelling
  <1>2. TypeOK /\ Telling /\ [Next]_vars => TypeOK' /\ Telling'
    BY NextTypes, NextTelling
  <1>3. TypeOK /\ Telling => ContentAsTold
    <2> SUFFICES ASSUME TypeOK, Telling PROVE ContentAsTold
      OBVIOUS
    <2>1. OutputAsTold
      BY SentTells DEF OutputAsTold, Whole, Sent, Of
    <2>2. ASSUME NEW k \in DOMAIN sent, sent[k].type = "text_done"
          PROVE  sent[k].len = Told(k, sent[k].item) +
                     IF sent[k].item = Message /\ text.streamed > 0 THEN text.all - text.streamed ELSE 0
      <3>1. sent[k].len = Cardinality(Tokens(sent, k, sent[k].item)) + IF sent[k].item = Message THEN Extra ELSE 0
        BY <2>2, SentTells, LenProperties DEF FollowsProtocol, TextFits
      <3>2. Tokens(sent, k, sent[k].item) =
                UNION {{j} \X (1..sent[j].len) : j \in {h \in Sent(k, "delta") : sent[h].item = sent[k].item}}
        BY DEF Tokens, Of, Sent
      <3>3. Told(k, sent[k].item) = Cardinality(Tokens(sent, k, sent[k].item))
        BY <3>2 DEF Told
      <3> QED  BY <3>1, <3>3 DEF Extra
    <2>3. TextAsTold
      BY <2>2, SentTells DEF TextAsTold, Whole, Sent, Of
    <2> QED  BY <2>1, <2>3 DEF ContentAsTold
  <1> QED  BY <1>1, <1>2, <1>3, PTL DEF Spec

=============================================================================
