----------------------------- MODULE Answering -----------------------------
(* One session's AIHelper at work (AIUtil/AIHelper.cpp): what it sends to   *)
(* the model, what it makes of the answer, and what it keeps.  chat() holds *)
(* the helper's mutex to its end, so requests come one after the other; the *)
(* gateway may refuse any call, and a stream may break anywhere.  Locks,    *)
(* queue and history are Conversation's.                                    *)
EXTENDS StreamLines, ToolCall

CONSTANTS
    Models,     \* names that clients ask for
    Replies,    \* a sequence of texts the router model may answer
    Streams,    \* what streaming backends may send: lines, closed, code
    Questions   \* bound on the questions of the session

ASSUME AnsweringAssumption ==
    /\ Questions \in Nat \ {0}
    /\ Known(DefaultModel)   \* or AIHelper's constructor throws
    /\ ModelConfig.models \in Seq(ToSet(ModelConfig.models))   \* both are JSON arrays
    /\ ToolConfig \in Seq(ToSet(ToolConfig))
    /\ \A i \in DOMAIN ModelConfig.models : Value(ModelConfig.models[i], "max_context", 0) \in Int
    /\ \A s \in Streams : s.lines \in Seq(Kinds) /\ s.closed \in BOOLEAN

VARIABLES
    pc,         \* "idle", "routing", "streaming"
    strategy,   \* the strategy of the request under way
    asked,      \* questions so far
    messages,   \* the helper's context, with the writer of each message
    rows,       \* messages that were published to be stored
    lost,       \* observer: messages whose publishing threw
    sent,       \* the last request's messages with their roles
    repairing,  \* the routing call under way is the second one
    routed,     \* the stream under way answers a temporary last message
    ran,        \* the tool this request ran, with its arguments
    reply,      \* number of the reply that asked for it
    stream,     \* what the backend sends
    received,   \* how many symbols of it have come
    ctx         \* StreamContext

helperVars == <<pc, strategy, asked, messages, rows, lost, sent, repairing, routed, ran,
                reply, stream, received, ctx>>

Question(n) == [by |-> "user", q |-> n]
Answer(n) == [by |-> "model", q |-> n]
Failure(n) == [by |-> "error", q |-> n]
Temporary(n) == [by |-> "prompt", q |-> n]

NoTool == NoCall("none")
NoStream == [lines |-> <<>>, closed |-> TRUE, code |-> 200]

HelperInit ==
    /\ pc = "idle"
    /\ strategy = Create(DefaultModel)
    /\ asked = 0
    /\ messages = <<>>
    /\ rows = <<>>
    /\ lost = {}
    /\ sent = <<>>
    /\ repairing = FALSE
    /\ routed = FALSE
    /\ ran = NoTool
    /\ reply = 0
    /\ stream = NoStream
    /\ received = 0
    /\ ctx = NoBytes

-----------------------------------------------------------------------------
(* Requests to the gateway.                                                 *)

\* addMessage for each of msgs: into the context, then into the queue.
AddAll(context, msgs) ==
    /\ messages' = context \o msgs
    /\ rows' = rows \o msgs
    /\ UNCHANGED lost

\* pushMessageToMysql throws and chat() with it: the n-th message stays in the context
\* unpublished, those behind it are not even there.
AddFails(context, msgs) ==
    \E n \in DOMAIN msgs :
        /\ messages' = context \o SubSeq(msgs, 1, n)
        /\ rows' = rows \o SubSeq(msgs, 1, n - 1)
        /\ lost' = lost \cup {msgs[n]}

Add(context, msgs) == AddAll(context, msgs) \/ AddFails(context, msgs)

\* completeStreaming up to the call of the gateway: what it builds may throw.
CompleteStreaming(strat, msgs) ==
    \/ /\ ~RequestThrows(strat, msgs)
       /\ sent' = BuildRequestWithContext(strat, msgs)
       /\ stream' \in Streams
       /\ pc' = "streaming"
    \/ /\ RequestThrows(strat, msgs)
       /\ pc' = "idle"
       /\ UNCHANGED <<sent, stream>>

\* A stream starts with an empty StreamContext.
Fresh == received' = 0 /\ ctx' = NoBytes

NoStreamYet == UNCHANGED <<stream, received, ctx>>

\* executeToolRoutePrompt up to the call: the prompt stands last, for this call only.
ExecuteToolRoutePrompt(strat, msgs) ==
    /\ messages' = msgs
    /\ sent' = BuildRequestWithContext(strat, msgs)
    /\ pc' = "routing"

\* Variant of KeepContext: the catch clause does not pop the temporary prompt.
KeepTemporary == messages' = messages

\* catch (...) { messages.pop_back(); throw; }
KeepContext == messages' = IF routed THEN Front(messages) ELSE messages

-----------------------------------------------------------------------------
(* The branches of chat().                                                  *)

\* prepareStrategy throws for a model nobody registered, loadFromFile for a file that is no JSON.
AskInVain(model) ==
    /\ pc = "idle" /\ asked < Questions
    /\ asked' = asked + 1
    /\ strategy' = IF Known(model) THEN Create(model) ELSE strategy
    /\ UNCHANGED <<pc, messages, rows, lost, sent, repairing, routed, ran, reply>>
    /\ NoStreamYet

\* Without tools, or without their configuration: the question is kept at once.
AskDirectly(model) ==
    /\ pc = "idle" /\ asked < Questions
    /\ Known(model)
    /\ asked' = asked + 1
    /\ strategy' = Create(model)
    /\ \/ AddAll(messages, <<Question(asked')>>) /\ CompleteStreaming(strategy', messages')
       \/ /\ AddFails(messages, <<Question(asked')>>)
          /\ pc' = "idle" /\ UNCHANGED <<sent, stream>>
    /\ Fresh
    /\ routed' = FALSE /\ repairing' = FALSE
    /\ ran' = NoTool /\ reply' = 0

\* With tools the question is kept only when everything is over.
AskWithTools(model) ==
    /\ pc = "idle" /\ asked < Questions
    /\ Known(model) /\ SupportTools(Create(model)) /\ ConfigIsLegal
    /\ asked' = asked + 1
    /\ strategy' = Create(model)
    /\ ExecuteToolRoutePrompt(strategy', Append(messages, Temporary(asked')))
    /\ routed' = TRUE /\ repairing' = FALSE
    /\ ran' = NoTool /\ reply' = 0
    /\ stream' = NoStream /\ Fresh
    /\ UNCHANGED <<rows, lost>>

\* A reply that is no legal tool call is given back once to be put right.
Repair(r) ==
    /\ pc = "routing" /\ ~repairing
    /\ ParseAndValidateToolCall(Replies[r]).status = "kInvalid"
    /\ repairing' = TRUE
    /\ ExecuteToolRoutePrompt(strategy, Append(Front(messages), Temporary(asked)))
    /\ UNCHANGED <<strategy, asked, rows, lost, routed, ran, reply>>
    /\ NoStreamYet

\* routeToolCall returns: a tool that config.json lists and nobody registered is not run.
RouteReturns(r) ==
    /\ pc = "routing"
    /\ LET call == ParseAndValidateToolCall(Replies[r]) IN
        /\ call.status = "kInvalid" => repairing
        /\ ran' = IF call.status = "kValidToolCall" /\ call.tool \in Registered
                  THEN call ELSE NoTool
    /\ reply' = r
    /\ LET prompted == Append(Front(messages), Temporary(asked)) IN
        /\ CompleteStreaming(strategy, prompted)
        /\ IF RequestThrows(strategy, prompted) THEN KeepContext ELSE messages' = prompted
    /\ Fresh
    /\ UNCHANGED <<strategy, asked, rows, lost, repairing, routed>>

\* An error is kept as the answer.
KeepFailure ==
    /\ Add(Front(messages), <<Question(asked), Failure(asked)>>)
    /\ pc' = "idle"

\* The gateway throws, or the reply has no text.
RouteFails ==
    /\ pc = "routing"
    /\ KeepFailure
    /\ UNCHANGED <<strategy, asked, sent, repairing, routed, ran, reply>>
    /\ NoStreamYet

\* The tool that was asked for throws.
ToolFails(r) ==
    /\ pc = "routing"
    /\ LET call == ParseAndValidateToolCall(Replies[r]) IN
        /\ call.status = "kValidToolCall" /\ call.tool \in Registered
        /\ ran' = call
    /\ reply' = r
    /\ KeepFailure
    /\ UNCHANGED <<strategy, asked, sent, repairing, routed>>
    /\ NoStreamYet

-----------------------------------------------------------------------------
(* The stream.                                                              *)

\* One call of streamingWriteCallback with the next `count` symbols.
Receive(count) ==
    /\ pc = "streaming"
    /\ received + count <= Len(Wire(stream))
    /\ LET piece == SubSeq(Wire(stream), received + 1, received + count) IN
        ctx' = StreamingWriteCallback(ctx, piece, strategy)
    /\ received' = received + count
    /\ UNCHANGED <<pc, strategy, asked, messages, rows, lost, sent, repairing, routed, ran, reply,
                   stream>>

\* An error status, no data, a break or a refusal: chat() throws.
StreamThrows ==
    /\ pc = "streaming"
    /\ KeepContext
    /\ pc' = "idle"
    /\ UNCHANGED <<strategy, asked, rows, lost, sent, repairing, routed, ran, reply, stream,
                   received, ctx>>

KeepAnswer ==
    /\ pc = "streaming"
    /\ received = Len(Wire(stream))
    /\ stream.code < 400
    /\ ~NoStreamData(ctx, received)
    /\ IF routed THEN Add(Front(messages), <<Question(asked), Answer(asked)>>)
       ELSE Add(messages, <<Answer(asked)>>)
    /\ pc' = "idle"
    /\ UNCHANGED <<strategy, asked, sent, repairing, routed, ran, reply, stream, received, ctx>>

HelperNext ==
    \/ \E m \in Models : AskInVain(m) \/ AskDirectly(m) \/ AskWithTools(m)
    \/ \E r \in DOMAIN Replies : Repair(r) \/ RouteReturns(r) \/ ToolFails(r)
    \/ \E count \in 1 .. Len(Wire(stream)) : Receive(count)
    \/ RouteFails \/ StreamThrows \/ KeepAnswer

HelperSpec == HelperInit /\ [][HelperNext]_helperVars

-----------------------------------------------------------------------------
(* Properties.                                                              *)

\* No message comes twice, turns stand in order, and a turn's question before its answer.
InTurn(msgs) ==
    \A i, j \in DOMAIN msgs : i < j =>
        \/ msgs[i].q < msgs[j].q
        \/ msgs[i].q = msgs[j].q /\ msgs[i].by = "user" /\ msgs[j].by # "user"

\* Whatever fails and wherever, publishing included: what a helper remembers is what was
\* sent to be stored, in the same order, but for messages whose publishing threw, each the
\* last of its turn; a routing or tool prompt is there for its own request only
\* (AIHelper.cpp:24-33, 48, 61, 66, 204-219).
MemoryIsWhatIsStored ==
    LET temporaries == IF pc = "routing" \/ (pc = "streaming" /\ routed) THEN 1 ELSE 0
        memory == SubSeq(messages, 1, Len(messages) - temporaries)
    IN /\ InTurn(memory) /\ InTurn(rows)
       /\ ToSet(rows) = ToSet(memory) \ lost
       /\ \A m \in ToSet(memory) :
            /\ m.by # "prompt"
            /\ \A l \in lost : l.q = m.q => l = m \/ m.by = "user"

\* However curl cuts the bytes, the client has the text of exactly the lines that have
\* come to their end, in order and once each (streamingWriteCallback, completeStreaming).
AnswerIsTheStream ==
    pc = "streaming" =>
        LET given == ctx.fullResult IN
        /\ ToSet(given) = {n \in DOMAIN stream.lines :
                             HasText(strategy, stream.lines[n]) /\ 3 * n <= received}
        /\ \A i, j \in DOMAIN given : i < j => given[i] < given[j]

\* Rounds are whole in the context: it goes user, model, user, model ...
Alternates ==
    \A i \in DOMAIN messages : (i % 2 = 1) = (messages[i].by \in {"user", "prompt"})

SpeaksAs(m) == m.role = IF m.msg.by \in {"user", "prompt"} THEN "user" ELSE "assistant"

Notices == {i \in DOMAIN sent : sent[i].role = "system"}

\* A request carries what the model must not lose: the message it is to answer, as many
\* before it as maxContext admits, and the first round; what is left out is one gap behind
\* the first round, and there a notice stands.  While no round was broken by a failure,
\* everything before the gap goes out in the role of its writer (buildRequestWithContext;
\* buildRequest gives roles by position).
RequestIsFaithful ==
    pc # "idle" =>
        LET said == IF Notices = {} THEN sent ELSE RemoveAt(sent, 3)
            texts == [i \in DOMAIN said |-> said[i].msg]
            gap == Len(messages) - Len(texts)
        IN /\ IF gap = 0 THEN texts = messages /\ Notices = {}
              ELSE /\ texts = SubSeq(messages, 1, 2) \o SubSeq(messages, 3 + gap, Len(messages))
                   /\ Len(texts) >= 2 * strategy.maxContext + 2
                   /\ Notices = {3}
           /\ Alternates => \A i \in DOMAIN sent : (\A n \in Notices : i < n) => SpeaksAs(sent[i])

\* What the comments of buildRequestWithContext say of the window (AIHelper.cpp:280-281):
\* it keeps rounds, each a user's message and the AI's.  The code does not: after whole
\* rounds the question makes the number of messages odd, and an even number is kept.
WindowKeepsRounds ==
    (pc # "idle" /\ Alternates) =>
        \A i \in DOMAIN sent \ Notices : SpeaksAs(sent[i])

\* What an object says under one of the names of a field.
Names(object, tool) ==
    \E k \in {"tool", "tool_name", "name"} \cap DOMAIN object :
        object[k].t = "string" /\ object[k].v = tool

Gives(object, args) ==
    LET keys == {"args", "arguments", "parameters"} \cap DOMAIN object IN
    IF keys = {} THEN args = <<>>
    ELSE \E k \in keys :
            LET given == IF object[k].t = "string" THEN object[k].parsed ELSE object[k]
            IN given.t = "object" /\ given.v = args

\* A tool runs only when a router's reply asked for it and for nothing else: the reply
\* names it, gives the arguments it runs with (none, if it gives none), says neither that it
\* needs no tool nor names two, and config.json admits the arguments: no unknown one, all
\* that are required, each of its type.  Nothing is guessed from a reply that was refused
\* (parseAndValidateToolCall, chat).
ToolOnlyAsAsked ==
    ran.status = "kValidToolCall" =>
        /\ pc # "routing" /\ routed
        /\ ran.tool \in Registered
        /\ \E i \in DOMAIN ToolConfig :
            LET params == ToolConfig[i].params IN
            /\ ToolConfig[i].name = ran.tool
            /\ \A p \in DOMAIN ran.args :
                p \in DOMAIN params /\ MatchesType(ran.args[p], Param(params[p]).type)
            /\ \A p \in DOMAIN params : Param(params[p]).required => p \in DOMAIN ran.args
        /\ LET said == ExtractJsonObject(Replies[reply]) IN
            /\ said # <<>>
            /\ "need_tool" \in DOMAIN said[1].v => said[1].v["need_tool"].v = "true"
            /\ "tool_calls" \in DOMAIN said[1].v => Len(said[1].v["tool_calls"].v) = 1
            /\ Names(Decision(said[1].v), ran.tool)
            /\ Gives(Decision(said[1].v), ran.args)

=============================================================================
