------------------------------- MODULE ToolLoop -------------------------------
(***************************************************************************)
(* One request served with server-side (MCP) tools, in the four forms the  *)
(* program has: a response, a streamed response, a chat completion and a   *)
(* streamed chat completion.  The MCP servers are connected in turn; then  *)
(* the engine generates, the calls it made are found in its output, the    *)
(* calls of MCP tools are run one after another, their results join the    *)
(* conversation and the engine generates again, until it makes no call,    *)
(* calls a tool of the client, or a limit is reached.                      *)
(*                                                                         *)
(* An output is the calls in it and the form in which they are visible:    *)
(*   "parsed"  the engine's tool parser finds them, the text does not look *)
(*             like a call;                                                *)
(*   "both"    the parser finds them and so does a reader of the text;     *)
(*   "text"    only a reader of the text does ("[" or "<tool_call>" first);*)
(*   "inline"  they stand behind leading words.                            *)
(* A call is [round, pos, name]; arguments, results and texts are left     *)
(* out: a tool that fails answers with an error text, which is a result.   *)
(* The conversation is kept as the calls asked in it and those answered.   *)
(***************************************************************************)
EXTENDS Integers, Sequences, FiniteSets

CONSTANTS
  Offers,       \* MCP servers in the order of the settings: the tool names of each
  Others,       \* names of no MCP tool: the client's functions
  MaxRounds,    \* max_tool_rounds of the settings
  MaxCalls,     \* bound: calls in one output
  Budgets,      \* values of max_tool_calls explored
  Variants      \* which of the four forms of request are explored

ASSUME ToolLoopAssumption ==
  /\ Offers \in Seq(SUBSET UNION {Offers[i] : i \in 1..Len(Offers)})
  /\ MaxRounds \in Nat /\ MaxCalls \in Nat /\ Budgets \subseteq Nat
  /\ Variants \subseteq {"response", "responseStream", "chat", "chatStream"}

NoLimit == -1
Responses == {"response", "responseStream"}
Chats == {"chat", "chatStream"}

\* max_tool_calls and parallel_tool_calls are fields of a response request;
\* the streamed loop never reads the first.
Requests ==
  { r \in [variant : Variants, parallel : BOOLEAN, budget : Budgets \cup {NoLimit},
           parser : BOOLEAN, client : BOOLEAN] :
      /\ r.variant # "response" => r.budget = NoLimit
      /\ r.variant \in Chats => r.parallel }

Names == Others \cup UNION {Offers[i] : i \in 1..Len(Offers)}
Call == [round : 1..MaxRounds + 1, pos : 1..MaxCalls, name : Names]

VARIABLES
  req,       \* the request
  waiting,   \* servers still to be connected
  tools,     \* _tool_map: name -> server
  pc,        \* where the request is
  round,     \* generations so far
  out,       \* the last output whose calls are being run
  asked,     \* calls of the assistant messages of the conversation
  answered,  \* calls whose result is in the conversation
  run,       \* calls executed, in order
  todo,      \* MCP calls of this round still to be executed
  left,      \* calls of this round that are the client's
  told,      \* streamed: calls told to the client
  answer     \* calls in the output of the answer

vars == <<req, waiting, tools, pc, round, out, asked, answered, run, todo, left, told, answer>>
loop == <<asked, answered, run, todo, left, told, answer, out>>

Elems(s) == {s[i] : i \in DOMAIN s}
First(s, n) == SubSeq(s, 1, IF n < Len(s) THEN n ELSE Len(s))
HasTools == req.client \/ DOMAIN tools # {}

-----------------------------------------------------------------------------
NoCalls == [form |-> "none", calls |-> <<>>]
CallForms == {"text", "inline"} \cup IF req.parser THEN {"parsed", "both"} ELSE {}
Outputs ==
  {NoCalls} \cup [form : CallForms, calls : UNION {[1..n -> Names] : n \in 1..MaxCalls}]

Calls(o) == [i \in DOMAIN o.calls |-> [round |-> round', pos |-> i, name |-> o.calls[i]]]

Limit(calls) == IF req.parallel THEN calls ELSE First(calls, 1)

\* What the engine's parser reports, what looks like a call, and what a
\* search of the whole text finds.
Parsed(o) == IF o.form \in {"parsed", "both"} THEN Calls(o) ELSE <<>>
Readable(o) == IF o.form \in {"text", "both"} THEN Calls(o) ELSE <<>>
Anywhere(o) == Calls(o)

\* The elements of s that are in S, in the order of s.
Among(s, S) ==
  LET places == {i \in DOMAIN s : s[i] \in S} IN
  [k \in 1..Cardinality(places) |->
     s[CHOOSE i \in places : Cardinality({j \in places : j < i}) = k - 1]]

Mcp(calls) == Among(calls, {c \in Elems(calls) : c.name \in DOMAIN tools})
Clients(calls) == Among(calls, {c \in Elems(calls) : c.name \notin DOMAIN tools})

-----------------------------------------------------------------------------
\* A server that cannot be connected is skipped; of two tools of one name the
\* one registered last is called.
Connect ==
  /\ pc = "connect" /\ waiting # <<>>
  /\ waiting' = Tail(waiting)
  /\ \/ tools' = [n \in Head(waiting) \cup DOMAIN tools |->
                    IF n \in Head(waiting) THEN Len(Offers) - Len(waiting) + 1 ELSE tools[n]]
     \/ tools' = tools
  /\ UNCHANGED <<req, pc, round, loop>>

\* Without an engine parser only tools of the servers may be offered.
NeedsParser == req.client

\* Without MCP tools there is no loop; ResponseStream has the streamed case.  With
\* no round to go the loop does not begin.
Agentic == DOMAIN tools # {}
Route ==
  CASE Agentic /\ MaxRounds > 0 -> "ask"
    [] ~Agentic /\ req.variant = "responseStream" -> "direct"
    [] OTHER -> "final"

PrepareResponse ==
  /\ pc = "connect" /\ waiting = <<>> /\ req.variant \in Responses
  /\ pc' = CASE NeedsParser /\ ~req.parser -> "refused"
             [] OTHER -> Route
  /\ UNCHANGED <<req, waiting, tools, round, loop>>

PrepareChat ==
  /\ pc = "connect" /\ waiting = <<>> /\ req.variant \in Chats
  /\ pc' = CASE NeedsParser /\ ~req.parser -> "refused"
             [] DOMAIN tools = {} /\ req.variant = "chatStream" -> "direct"
             [] OTHER -> "ask"
  /\ UNCHANGED <<req, waiting, tools, round, loop>>

-----------------------------------------------------------------------------
Close(status, items) == pc' = status /\ answer' = items

\* What the stream of an output shows: only the parser's last delta reaches it,
\* so that the calls may be lost.
Shown(o) ==
  LET items == Limit(Parsed(o)) IN
  IF req.variant = "responseStream" THEN {<<>>, items} ELSE {items}

\* The conversation with the last output, the answer with the tools run.
Appended(o) == asked \o Limit(Parsed(o))
Prepended(items) == run \o items

\* The answer made of one output.  Calls that only the text shows are refused
\* whenever the request has tools; the engine's parser was expected.
Conclude(o) ==
  IF HasTools /\ Readable(o) # <<>> /\ Parsed(o) = <<>>
  THEN Close("failed", <<>>) /\ UNCHANGED <<asked, told>>
  ELSE /\ asked' = Appended(o)
       /\ \E items \in Shown(o) : Close("done", Prepended(items)) /\ told' = told \o items

\* The answer that hands the client its own calls: they replace the others.
HandOver(o, calls) ==
  IF o.form = "text" THEN Close("failed", <<>>) ELSE Close("done", calls)

Begin(o, calls) ==
  /\ asked' = asked \o calls
  /\ todo' = Mcp(calls)
  /\ left' = Clients(calls)
  /\ out' = o
  /\ UNCHANGED <<answered, run>>

ResponseRound(o) ==
  LET calls == Limit(Readable(o) \o IF o.form = "parsed" THEN Parsed(o) ELSE <<>>)
      remaining == req.budget - Len(run)
      kept == IF req.budget = NoLimit THEN calls ELSE First(calls, remaining) IN
  /\ pc = "ask" /\ req.variant = "response" /\ round' = round + 1
  /\ \/ calls = <<>> /\ Conclude(o) /\ UNCHANGED <<answered, run, todo, left, out>>
     \/ /\ calls # <<>> /\ req.budget # NoLimit /\ remaining <= 0
        /\ pc' = "final" /\ UNCHANGED loop
     \/ /\ kept # <<>>
        /\ Begin(o, kept) /\ UNCHANGED told
        /\ IF todo' = <<>> THEN HandOver(o, left') ELSE pc' = "run" /\ UNCHANGED answer
  /\ UNCHANGED <<req, waiting, tools>>

\* The streamed loop looks at the text only.
StreamRound(o) ==
  LET calls == Limit(Readable(o)) IN
  /\ pc = "ask" /\ req.variant = "responseStream" /\ round' = round + 1
  /\ \/ calls = <<>> /\ Conclude(o) /\ UNCHANGED <<answered, run, todo, left, out>>
     \/ /\ calls # <<>> /\ Begin(o, calls)
        /\ IF todo' = <<>>
           THEN told' = told \o left' /\ HandOver(o, left')
           ELSE pc' = "run" /\ UNCHANGED <<told, answer>>
  /\ UNCHANGED <<req, waiting, tools>>

\* The answer of a chat completion is its last output; a request with tools of
\* its own gets no calls read from the text.
ChatAnswer(o) ==
  IF Parsed(o) # <<>> THEN Close("done", Parsed(o))
  ELSE IF req.client /\ Readable(o) # <<>> THEN Close("failed", <<>>)
  ELSE Close("done", IF HasTools THEN Readable(o) ELSE <<>>)

ChatRound(o) ==
  LET calls == Anywhere(o) IN
  /\ pc = "ask" /\ req.variant = "chat" /\ round' = round + 1
  /\ IF Mcp(calls) # <<>> /\ round < MaxRounds
     THEN Begin(o, calls) /\ pc' = "run" /\ UNCHANGED <<told, answer>>
     ELSE ChatAnswer(o) /\ UNCHANGED <<asked, answered, run, todo, left, told, out>>
  /\ UNCHANGED <<req, waiting, tools>>

ChatStreamRound(o) ==
  LET calls == Anywhere(o) IN
  /\ pc = "ask" /\ req.variant = "chatStream" /\ round' = round + 1
  /\ told' = told \o IF o.form = "inline" THEN <<>> ELSE calls
  /\ IF Mcp(calls) # <<>>
     THEN Begin(o, calls) /\ pc' = "run" /\ UNCHANGED answer
     ELSE Close("done", told') /\ UNCHANGED <<asked, answered, run, todo, left, out>>
  /\ UNCHANGED <<req, waiting, tools>>

-----------------------------------------------------------------------------
\* Mutant: the call is left in the list of those to be run.
UnansweredRunCall ==
  /\ pc = "run" /\ todo # <<>>
  /\ run' = Append(run, Head(todo)) /\ told' = told /\ todo' = Tail(todo)
  /\ answered' = IF left = <<>> /\ Len(todo) > 1 THEN answered ELSE answered \cup {Head(todo)}
  /\ UNCHANGED <<req, waiting, tools, pc, round, out, asked, left, answer>>

\* Mutant: the condition is turned round: calls of a round are told when the
\* round also has calls for the client.
TellAllRunCall ==
  /\ pc = "run" /\ todo # <<>>
  /\ run' = Append(run, Head(todo)) /\ answered' = answered \cup {Head(todo)}
  /\ told' = IF req.variant = "responseStream" /\ left # <<>> THEN Append(told, Head(todo)) ELSE told
  /\ todo' = Tail(todo)
  /\ UNCHANGED <<req, waiting, tools, pc, round, out, asked, left, answer>>

\* Only a streamed round without calls for the client tells the calls it runs.
RunCall ==
  /\ pc = "run" /\ todo # <<>>
  /\ LET c == Head(todo) IN
       /\ run' = Append(run, c)
       /\ answered' = answered \cup {c}
       /\ told' = IF req.variant = "responseStream" /\ left = <<>> THEN Append(told, c) ELSE told
  /\ todo' = Tail(todo)
  /\ UNCHANGED <<req, waiting, tools, pc, round, out, asked, left, answer>>

\* Mutant: off by one, a round more than the settings allow.
OneMoreRound ==
  /\ round <= MaxRounds
  /\ req.budget # NoLimit => Len(run) < req.budget

\* The streamed loop's executed items are those told; a mixed round ends it.
LoopGoesOn ==
  /\ round < MaxRounds
  /\ req.budget # NoLimit => Len(run) < req.budget

ResponseRoundOver ==
  /\ pc = "run" /\ todo = <<>> /\ req.variant \in Responses
  /\ IF left # <<>>
     THEN /\ HandOver(out, left)
          /\ told' = IF req.variant = "responseStream" THEN told \o left ELSE told
     ELSE pc' = (IF LoopGoesOn THEN "ask" ELSE "final") /\ UNCHANGED <<answer, told>>
  /\ left' = <<>> /\ out' = NoCalls
  /\ UNCHANGED <<req, waiting, tools, round, asked, answered, run, todo>>

\* A chat completion generates again whatever was left to the client; the
\* streamed one stops after its last round without another generation.
ChatRoundOver ==
  /\ pc = "run" /\ todo = <<>> /\ req.variant \in Chats
  /\ IF req.variant = "chatStream" /\ round > MaxRounds
     THEN Close("done", told)
     ELSE pc' = "ask" /\ UNCHANGED answer
  /\ left' = <<>> /\ out' = NoCalls
  /\ UNCHANGED <<req, waiting, tools, round, asked, answered, run, todo, told>>

\* One generation more, whose calls are shown but never run; also the only
\* generation of a response no MCP tool was offered to.
LastRound(o) ==
  /\ pc = "final" /\ round' = round + 1
  /\ Conclude(o)
  /\ UNCHANGED <<req, waiting, tools, answered, run, todo, left, out>>

\* The prompt has outgrown the model's context, or the engine gives up.
Fails ==
  /\ pc \in {"ask", "final"}
  /\ Close("failed", <<>>)
  /\ UNCHANGED <<req, waiting, tools, round, asked, answered, run, todo, left, told, out>>

Ended == pc \in {"done", "failed", "refused", "direct"}

\* The connections are closed with the application.
Shutdown ==
  /\ Ended /\ tools # <<>>
  /\ tools' = <<>>
  /\ UNCHANGED <<req, waiting, pc, round, loop>>

-----------------------------------------------------------------------------
Init ==
  /\ req \in Requests
  /\ waiting = Offers /\ tools = <<>>
  /\ pc = "connect" /\ round = 0 /\ out = NoCalls
  /\ asked = <<>> /\ answered = {} /\ run = <<>> /\ todo = <<>> /\ left = <<>>
  /\ told = <<>> /\ answer = <<>>

Generate ==
  \E o \in Outputs :
     ResponseRound(o) \/ StreamRound(o) \/ ChatRound(o) \/ ChatStreamRound(o) \/ LastRound(o)

Next ==
  \/ Connect \/ PrepareResponse \/ PrepareChat \/ Generate
  \/ RunCall \/ ResponseRoundOver \/ ChatRoundOver \/ Fails \/ Shutdown

Spec == Init /\ [][Next]_vars

-----------------------------------------------------------------------------
\* The request, the conversation and the answer have their types.
TypeOK ==
  /\ req \in Requests /\ tools \in [DOMAIN tools -> 1..Len(Offers)]
  /\ pc \in {"connect", "ask", "run", "final"} \cup {"done", "failed", "refused", "direct"}
  /\ round \in 0..MaxRounds + 1 /\ answered \subseteq Call
  /\ \A s \in {asked, run, todo, left, told, answer} : Elems(s) \subseteq Call

\* The engine is asked again only when the conversation holds the result of
\* every call of a response, and of every MCP call of a chat completion: a
\* template given a call without its result would let the model call again.
ResultsAreRead ==
  pc \in {"ask", "final"} =>
    \A c \in Elems(asked) : c \in answered \/ (req.variant \in Chats /\ c \notin Elems(Mcp(asked)))

\* A tool is executed once for a call, for a call the conversation shows, and
\* in the order the model made the calls.
RunOnce ==
  /\ Elems(run) \subseteq Elems(asked)
  /\ \A i, j \in DOMAIN run : i < j =>
       \/ run[i].round < run[j].round
       \/ run[i].round = run[j].round /\ run[i].pos < run[j].pos

\* Over all rounds a response runs at most max_tool_calls tools.
BudgetKept == req.budget # NoLimit => Len(run) <= req.budget

\* A response, and a chat completion that is not streamed, runs tools in at
\* most max_tool_rounds rounds; the streamed chat completion in one more.
RoundsKept ==
  Cardinality({c.round : c \in Elems(run)}) <=
    MaxRounds + IF req.variant = "chatStream" THEN 1 ELSE 0

\* With parallel_tool_calls off, no message of the conversation has two calls.
SerialKept == ~req.parallel => \A c, d \in Elems(asked) : c.round = d.round => c = d

\* The limits of settings and request hold together, whichever runs out first.
LimitsKept == TypeOK /\ BudgetKept /\ RoundsKept /\ SerialKept

\* The conversation stored with a finished response can be continued: each call
\* in it has its result there, or is an item of the output whose result the
\* client can send.  (Streamed with a parser it is not so: the last output's
\* calls may be lost to the client.)
ContextAnswered ==
  pc = "done" /\ req.variant \in Responses /\ (req.variant = "response" \/ ~req.parser) =>
    \A c \in Elems(asked) : c \in answered \/ c \in Elems(answer)

\* A finished response lists every tool the server ran for it, unless it ends
\* by handing the client calls of its own.
RunIsAnswered ==
  pc = "done" /\ req.variant \in Responses =>
    \/ Elems(run) \subseteq Elems(answer)
    \/ \E c \in Elems(answer) : c.name \notin DOMAIN tools \/ tools = <<>>

\* Every call is accounted for: run once if it is the server's, read by the next
\* generation, stored with its result and listed in the answer.
CallsAnswered == ResultsAreRead /\ RunOnce /\ ContextAnswered /\ RunIsAnswered

\* What a finished streamed response lists was told last and in that order.
ToldIsAnswer ==
  pc = "done" /\ req.variant = "responseStream" =>
    \E k \in 0..Len(told) : SubSeq(told, k + 1, Len(told)) = answer

\* README: server-side tool execution with streaming agentic loops.  A call of
\* an MCP tool in the conversation was run, unless no round was left for it.
McpCallsAreRun ==
  pc = "done" /\ req.variant = "responseStream" =>
    \A c \in Elems(asked) : c.name \in DOMAIN tools /\ c.round <= MaxRounds => c \in Elems(run)

=============================================================================
