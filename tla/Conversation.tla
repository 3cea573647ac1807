----------------------------- MODULE Conversation -----------------------------
(***************************************************************************)
(* Responses that continue one another.  A request names a previous        *)
(* response; its conversation is the context stored with that response, or *)
(* the previous output when there is none, then the instructions of this   *)
(* request, then its input.  It may be truncated to the model's context.   *)
(* The answer is stored with the conversation it ends, for the next turn.  *)
(*                                                                         *)
(* A turn is one request.  Messages are kept as role, turn, whether they   *)
(* are the instructions of their request, and the calls they make (role    *)
(* assistant) or answer (role tool).  Texts, images and arguments are left *)
(* out; a message costs one token, and so does the prompt of the tools.    *)
(* Several workers share the store, so every call of it is a step; with    *)
(* one worker nothing comes between two calls without a real wait.         *)
(***************************************************************************)
EXTENDS Integers, Sequences, FiniteSets, Functions

CONSTANTS
  Turns,      \* 1..n: requests, numbered in the order they are made
  MaxLen,     \* max_model_len of the model
  Reserve,    \* tokens kept for the output
  Kinds,      \* bound: the kinds of request explored
  Answers     \* bound: the kinds of answer explored

Modes == {"sync", "stream", "background"}
ASSUME TurnsAssumption ==
  /\ Turns \subseteq Nat \ {0} /\ \A t \in Turns : 1..t - 1 \subseteq Turns
  /\ MaxLen \in Nat /\ Reserve \in Nat
  /\ Kinds \subseteq [instructions : BOOLEAN, auto : BOOLEAN, mode : Modes]
  /\ Answers \subseteq {"text", "call", "calls", "toolThenText"}
NoContext == <<>>   \* a stored context has at least the answer

VARIABLES
  shared,     \* whether several workers share the store
  stage,      \* where the handler of each turn is
  cur,        \* the request of each turn
  seen,       \* the previous output as read
  conv,       \* the conversation of each turn
  final,      \* the conversation with its answer
  output,     \* the output items of each turn
  resp,       \* store: status of the response
  context,    \* store: RESPONSE_CONTEXT_NAMESPACE
  items,      \* store: RESPONSE_INPUT_ITEMS_NAMESPACE
  said,       \* what the parties said up to each turn, as a client sees it
  cut         \* whether this turn or one before it was truncated

store == <<resp, context, items>>
turnsVars == <<shared, stage, cur, seen, conv, final, output, resp, context, items, said, cut>>

\* Sequences put one after the other.
Joined(parts) ==
  LET upTo[i \in 0..Len(parts)] == IF i = 0 THEN <<>> ELSE upTo[i - 1] \o parts[i] IN
  upTo[Len(parts)]

\* What stands at these places, in order.
Chosen(msgs, places) ==
  Joined([i \in DOMAIN msgs |-> IF i \in places THEN <<msgs[i]>> ELSE <<>>])

Room == IF MaxLen > Reserve THEN MaxLen - Reserve ELSE 0

-----------------------------------------------------------------------------
Msg(role, t, calls) == [role |-> role, turn |-> t, own |-> FALSE, calls |-> calls]
Instructions(t) == [Msg("system", t, {}) EXCEPT !.own = TRUE]
CallOf(t, i, mcp) == [turn |-> t, no |-> i, mcp |-> mcp]
TextItem == [text |-> TRUE]
CallItem(c) == [text |-> FALSE, call |-> c]

\* The output of a turn and the messages its loop adds to the conversation.
OutputOf(t, a) ==
  CASE a = "text" -> <<TextItem>>
    [] a = "call" -> <<CallItem(CallOf(t, 1, FALSE))>>
    [] a = "calls" -> <<TextItem, CallItem(CallOf(t, 1, FALSE)), CallItem(CallOf(t, 2, FALSE))>>
    [] a = "toolThenText" -> <<CallItem(CallOf(t, 1, TRUE)), TextItem>>

\* Mutant: the results of the server's tools do not join the conversation.
ResultlessAddedBy(t, a) ==
  CASE a = "text" -> <<Msg("assistant", t, {})>>
    [] a = "call" -> <<Msg("assistant", t, {CallOf(t, 1, FALSE)})>>
    [] a = "calls" -> <<Msg("assistant", t, {CallOf(t, i, FALSE) : i \in 1..2})>>
    [] a = "toolThenText" -> <<Msg("assistant", t, {CallOf(t, 1, TRUE)}), Msg("assistant", t, {})>>

AddedBy(t, a) ==
  CASE a = "text" -> <<Msg("assistant", t, {})>>
    [] a = "call" -> <<Msg("assistant", t, {CallOf(t, 1, FALSE)})>>
    [] a = "calls" -> <<Msg("assistant", t, {CallOf(t, i, FALSE) : i \in 1..2})>>
    [] a = "toolThenText" ->
         <<Msg("assistant", t, {CallOf(t, 1, TRUE)}), Msg("tool", t, {CallOf(t, 1, TRUE)}),
           Msg("assistant", t, {})>>

\* Calls of the output join the next message in it, or stand alone at its end.
CallsBefore(out, i) ==
  {out[j].call : j \in {k \in 1..i - 1 : \A l \in k..i - 1 : ~out[l].text}}
HistoryOf(t, out) ==
  LET end == CallsBefore(out, Len(out) + 1) IN
  Joined([i \in DOMAIN out |->
            IF out[i].text THEN <<Msg("assistant", t, CallsBefore(out, i))>> ELSE <<>>])
  \o IF end = {} THEN <<>> ELSE <<Msg("assistant", t, end)>>

\* The client speaks, or sends a result for each call the previous output has.
Pending(out) == {item.call : item \in {i \in Range(out) : ~i.text /\ ~i.call.mcp}}
ResultsFor(t, calls) == [i \in 1..Cardinality(calls) |->
                           Msg("tool", t, {c \in calls : c.no = i})]
Inputs(t, out) ==
  {<<Msg("user", t, {})>>} \cup IF Pending(out) = {} THEN {} ELSE {ResultsFor(t, Pending(out))}

-----------------------------------------------------------------------------
ForContinuation(msgs) == Chosen(msgs, {i \in DOMAIN msgs : ~msgs[i].own})

\* Mutant: the answer alone is stored as the context.
AnswerOnly(t, added) == added
ToStore(t, added) == ForContinuation(conv[t] \o added)

\* The tools' prompt is appended to a system message or becomes one.
Size(msgs) == Len(msgs) + 1

IsSystem(m) == m.role = "system"
SystemOf(msgs) == Chosen(msgs, {i \in DOMAIN msgs : IsSystem(msgs[i])})
OthersOf(msgs) == Chosen(msgs, {i \in DOMAIN msgs : ~IsSystem(msgs[i])})
Dropped(msgs, n) ==
  SystemOf(msgs) \o SubSeq(OthersOf(msgs), n + 1, Len(OthersOf(msgs)))

\* Mutant: the loop drops one message more than it must.
GreedyTruncate(msgs) ==
  LET least == {n \in 1..Len(msgs) : Size(Dropped(msgs, n)) <= Room} IN
  IF Room = 0 \/ Size(msgs) <= Room THEN msgs
  ELSE IF least = {} THEN SystemOf(msgs)
  ELSE Dropped(msgs, 1 + CHOOSE n \in least : \A k \in least : n <= k)

\* The oldest messages that are no system messages are dropped until the rest
\* fits; system messages move to the front and are never dropped.
Truncate(msgs) ==
  LET least == {n \in 1..Len(msgs) : Size(Dropped(msgs, n)) <= Room} IN
  IF Room = 0 \/ Size(msgs) <= Room THEN msgs
  ELSE IF least = {} THEN SystemOf(msgs)
  ELSE Dropped(msgs, CHOOSE n \in least : \A k \in least : n <= k)

\* Items of messages: one for a result, one for each call and one for a text;
\* the id of an item is the number of items before it.
Item(n, m) == [id |-> n, role |-> m.role, turn |-> m.turn, calls |-> m.calls]
PartsOf(m) ==
  IF m.role = "assistant" /\ m.calls # {}
  THEN [i \in 1..Cardinality(m.calls) |-> [m EXCEPT !.calls = {c \in @ : c.no = i}]]
  ELSE <<m>>
ItemsOf(msgs) ==
  LET all == Joined([i \in DOMAIN msgs |-> PartsOf(msgs[i])]) IN
  [i \in DOMAIN all |-> Item(i - 1, all[i])]

-----------------------------------------------------------------------------
\* Handlers of one process run between real waits without one another.
Midway == {"context", "storeContext", "storeItems", "deleteContext"}
Goes(t) == shared \/ \A u \in Turns \ {t} : stage[u] \notin Midway

Move(t, to) == stage' = [stage EXCEPT ![t] = to]

Ask(t) ==
  /\ stage[t] = "idle" /\ \A u \in 1..t - 1 : stage[u] # "idle"
  /\ \E prev \in {0} \cup {p \in 1..t - 1 : resp[p] # "none"}, k \in Kinds :
       cur' = [cur EXCEPT ![t] = [prev |-> prev, instructions |-> k.instructions,
                                  auto |-> k.auto, mode |-> k.mode]]
  /\ Move(t, "previous")
  /\ UNCHANGED <<shared, seen, conv, final, output, store, said, cut>>

\* The conversation, the room left for it and the items a client can list.
Converse(t, history, out) ==
  \E input \in Inputs(t, out) :
    LET prev == cur[t].prev
        msgs == history \o (IF cur[t].instructions THEN <<Instructions(t)>> ELSE <<>>) \o input
        kept == IF cur[t].auto THEN Truncate(msgs) ELSE msgs IN
    /\ conv' = [conv EXCEPT ![t] = kept]
    /\ cut' = [cut EXCEPT ![t] = Len(kept) < Len(msgs) \/ (prev # 0 /\ cut[prev])]
    /\ said' = [said EXCEPT ![t] = (IF prev = 0 THEN <<>> ELSE said[prev]) \o input]
    /\ Move(t, CASE Size(kept) > MaxLen -> "refused"
                 [] cur[t].mode = "background" -> "enqueue"
                 [] OTHER -> "generate")

\* Only a finished response can be continued.
ReadPrevious(t) ==
  /\ stage[t] = "previous" /\ Goes(t)
  /\ LET prev == cur[t].prev IN
       IF prev = 0 THEN Converse(t, <<>>, <<>>) /\ UNCHANGED seen
       ELSE IF resp[prev] # "completed" THEN Move(t, "refused") /\ UNCHANGED <<seen, conv, said, cut>>
       ELSE /\ seen' = [seen EXCEPT ![t] = output[prev]]
            /\ Move(t, "context") /\ UNCHANGED <<conv, said, cut>>
  /\ UNCHANGED <<shared, cur, final, output, store>>

ReadContext(t) ==
  /\ stage[t] = "context" /\ Goes(t)
  /\ LET prev == cur[t].prev IN
       Converse(t, IF context[prev] # NoContext THEN context[prev] ELSE HistoryOf(prev, seen[t]),
                seen[t])
  /\ seen' = [seen EXCEPT ![t] = <<>>]
  /\ UNCHANGED <<shared, cur, final, output, store>>

\* The queued response and its items are two calls of the store; nothing that
\* is modelled tells apart what lies between them.
Enqueue(t) ==
  /\ stage[t] = "enqueue" /\ Goes(t)
  /\ resp' = [resp EXCEPT ![t] = "queued"]
  /\ items' = [items EXCEPT ![t] = ItemsOf(conv[t])]
  /\ Move(t, "generate")
  /\ UNCHANGED <<shared, cur, seen, conv, final, output, context, said, cut>>

\* A streamed response without server tools stores its output's messages; the
\* others store the messages of the loop.
Respond(t) ==
  /\ stage[t] = "generate"
  /\ \E a \in Answers :
       LET out == OutputOf(t, a)
           added == IF cur[t].mode = "stream" /\ a # "toolThenText"
                    THEN HistoryOf(t, out) ELSE AddedBy(t, a) IN
       /\ output' = [output EXCEPT ![t] = out]
       /\ final' = [final EXCEPT ![t] = ToStore(t, added)]
       /\ said' = [said EXCEPT ![t] = @ \o added]
  /\ Move(t, "storeResponse")
  /\ UNCHANGED <<shared, cur, seen, conv, store, cut>>

\* Background and streamed responses that fail are stored as failed.
RespondFails(t) ==
  /\ stage[t] = "generate"
  /\ resp' = [resp EXCEPT ![t] = IF cur[t].mode = "sync" THEN @ ELSE "failed"]
  /\ Move(t, "failed")
  /\ UNCHANGED <<shared, cur, seen, conv, final, output, context, items, said, cut>>

StoreResponse(t) ==
  /\ stage[t] = "storeResponse" /\ Goes(t)
  /\ resp' = [resp EXCEPT ![t] = "completed"]
  /\ Move(t, "storeContext")
  /\ UNCHANGED <<shared, cur, seen, conv, final, output, context, items, said, cut>>

StoreContext(t) ==
  /\ stage[t] = "storeContext"
  /\ context' = [context EXCEPT ![t] = final[t]]
  /\ final' = [final EXCEPT ![t] = <<>>]
  /\ Move(t, "storeItems")
  /\ UNCHANGED <<shared, cur, seen, conv, output, resp, items, said, cut>>

StoreItems(t) ==
  /\ stage[t] = "storeItems"
  /\ items' = [items EXCEPT ![t] = ItemsOf(conv[t])]
  /\ Move(t, "done")
  /\ UNCHANGED <<shared, cur, seen, conv, final, output, resp, context, said, cut>>

\* The worker is lost: what it has not stored is never stored.
Crash(t) ==
  /\ shared /\ stage[t] \in {"storeContext", "storeItems"}
  /\ Move(t, "dead")
  /\ UNCHANGED <<shared, cur, seen, conv, final, output, store, said, cut>>

DeleteResponse(t) ==
  /\ stage[t] = "done" /\ Goes(t)
  /\ resp' = [resp EXCEPT ![t] = "deleted"]
  /\ Move(t, "deleteContext")
  /\ UNCHANGED <<shared, cur, seen, conv, final, output, context, items, said, cut>>

DeleteContext(t) ==
  /\ stage[t] = "deleteContext"
  /\ context' = [context EXCEPT ![t] = NoContext]
  /\ items' = [items EXCEPT ![t] = <<>>]
  /\ Move(t, "deleted")
  /\ UNCHANGED <<shared, cur, seen, conv, final, output, resp, said, cut>>

-----------------------------------------------------------------------------
NoRequest == [prev |-> 0, instructions |-> FALSE, auto |-> FALSE, mode |-> "sync"]

TurnsInit ==
  /\ shared \in BOOLEAN
  /\ stage = [t \in Turns |-> "idle"] /\ cur = [t \in Turns |-> NoRequest]
  /\ seen = [t \in Turns |-> <<>>] /\ conv = [t \in Turns |-> <<>>]
  /\ final = [t \in Turns |-> <<>>] /\ output = [t \in Turns |-> <<>>]
  /\ resp = [t \in Turns |-> "none"] /\ context = [t \in Turns |-> NoContext]
  /\ items = [t \in Turns |-> <<>>] /\ said = [t \in Turns |-> <<>>]
  /\ cut = [t \in Turns |-> FALSE]

TurnsNext ==
  \E t \in Turns :
     \/ Ask(t) \/ ReadPrevious(t) \/ ReadContext(t) \/ Enqueue(t) \/ Respond(t)
     \/ RespondFails(t) \/ StoreResponse(t) \/ StoreContext(t) \/ StoreItems(t)
     \/ Crash(t) \/ DeleteResponse(t) \/ DeleteContext(t)

TurnsSpec == TurnsInit /\ [][TurnsNext]_turnsVars

-----------------------------------------------------------------------------
\* Handlers, requests and stored objects have their types.
TurnsTypeOK ==
  /\ \A t \in Turns :
       /\ stage[t] \in Midway \cup {"idle", "previous", "enqueue", "generate", "storeResponse",
                                 "done", "failed", "refused", "dead", "deleted"}
       /\ cur[t].prev \in 0..t - 1 /\ cur[t].mode \in Modes
       /\ resp[t] \in {"none", "queued", "completed", "failed", "deleted"}
       /\ resp[t] = "queued" => cur[t].mode = "background"

Sent(t) == stage[t] \notin {"idle", "previous", "context", "refused"}

\* With one worker, what the engine is sent for a turn that was not truncated
\* is everything said in the turns it continues, in order: no turn is lost
\* however its predecessors were answered, streamed, queued or deleted since.
NothingForgotten ==
  ~shared => \A t \in Turns : stage[t] \in {"enqueue", "generate"} /\ ~cut[t] =>
    ForContinuation(conv[t]) = said[t]

\* Instructions are this request's, once, whatever its predecessors had; the
\* context stored for the next turn has none.
InstructionsOnce ==
  \A t \in Turns :
    /\ \A i, j \in DOMAIN conv[t] : conv[t][i].own /\ conv[t][j].own => i = j /\ conv[t][i].turn = t
    /\ \A m \in Range(context[t]) : ~m.own

\* A turn is asked with what was said before and what it says itself, nothing twice.
TurnsContinue == TurnsTypeOK /\ NothingForgotten /\ InstructionsOnce

\* A truncated conversation fits or has no message left to drop, keeps every
\* instruction, and has lost nothing newer than what it kept: with one message
\* more of the client's or the model's it would not have fitted.
TruncationIsLeast ==
  \A t \in Turns : Sent(t) /\ cur[t].auto /\ Room > 0 =>
    /\ Size(conv[t]) <= Room \/ \A m \in Range(conv[t]) : IsSystem(m)
    /\ cur[t].instructions => Instructions(t) \in Range(conv[t])
    /\ cut[t] /\ (cur[t].prev = 0 \/ ~cut[cur[t].prev]) => Size(conv[t]) >= Room

\* A tool result in the conversation follows the message that made the call,
\* unless a truncation came between; also when the context was missing.
ResultsFollowCalls ==
  \A t \in Turns : Sent(t) /\ ~cut[t] =>
    \A i \in DOMAIN conv[t] : conv[t][i].role = "tool" =>
      \E j \in 1..i - 1 : conv[t][j].role = "assistant" /\ conv[t][i].calls \subseteq conv[t][j].calls

\* A call the server ran stands in no conversation without its result.
ServerCallsAnswered ==
  ~shared => \A t \in Turns : Sent(t) /\ ~cut[t] =>
    \A i \in DOMAIN conv[t] : conv[t][i].role = "assistant" =>
      \A c \in conv[t][i].calls : c.mcp =>
        \E j \in DOMAIN conv[t] : conv[t][j].role = "tool" /\ conv[t][j].calls = {c}

\* The input items a client lists have ids of their own, and there is one for
\* every call, every result and every text of the conversation.
ItemsTellConversation ==
  \A t \in Turns : LET its == items[t] IN
    its # <<>> =>
      /\ \A i, j \in DOMAIN its : its[i].id = its[j].id => i = j
      /\ UNION {x.calls : x \in Range(its)} = UNION {m.calls : m \in Range(conv[t])}
      /\ {<<x.role, x.turn>> : x \in Range(its)} = {<<m.role, m.turn>> : m \in Range(conv[t])}

\* Calls and results go together in what the engine is sent and in what a client
\* can list of it.
CallsMatched == ResultsFollowCalls /\ ServerCallsAnswered /\ ItemsTellConversation

\* README: the Responses API has multi-turn.  Also with several workers the
\* engine is sent everything said before.
TurnsAreRemembered ==
  \A t \in Turns : stage[t] \in {"enqueue", "generate"} /\ ~cut[t] => ForContinuation(conv[t]) = said[t]

=============================================================================
