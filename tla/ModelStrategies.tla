-------------------------- MODULE ModelStrategies --------------------------
(* StrategyFactory and the strategies it makes (AIUtil/AIFactory.cpp,       *)
(* AIUtil/AIStrategy.h), and the request AIHelper builds with one.  A       *)
(* strategy is a record: the shape of its backend's JSON, and the window.   *)
EXTENDS Integers, Sequences, SequencesExt

CONSTANT
    ModelConfig   \* model_config.json: a function on those of its fields it has

\* json::value(): the field, or the default if it is not there.
Value(object, key, default) ==
    IF key \in DOMAIN object THEN object[key] ELSE default

DefaultModel == Value(ModelConfig, "default_model", "aliyun-qwen")

ResolveAlias(name) == Value(Value(ModelConfig, "aliases", <<>>), name, name)

\* loadFromConfig: one creator for each id; a later model replaces an earlier one.
Creators ==
    LET models == ModelConfig.models IN
    [id \in {models[i].id : i \in DOMAIN models} |->
        LET m == models[SelectLastInSeq(models, LAMBDA x : x.id = id)] IN
        [shape |-> IF Value(m, "type", "mcp") = "rag" THEN "output" ELSE "choices",
         maxContext |-> Value(m, "max_context", 0)]]

Known(name) == ResolveAlias(name) \in DOMAIN Creators

Create(name) == Creators[ResolveAlias(name)]

SupportTools(strategy) == strategy.shape = "choices"

\* parseStreamChunk: a strategy finds text only in the JSON of its own backend.
HasText(strategy, kind) == kind = strategy.shape

\* Roles go by position, whoever wrote the message; both strategies do the same.
BuildRequest(messages) ==
    [i \in DOMAIN messages |->
        [role |-> IF i % 2 = 1 THEN "user" ELSE "assistant", msg |-> messages[i]]]

Fits(strategy, messages) ==
    strategy.maxContext <= 0 \/ Len(messages) <= 2 * strategy.maxContext + 2

\* The payload of a RAG request has no "messages", and insert() on its null throws.
RequestThrows(strategy, messages) ==
    ~Fits(strategy, messages) /\ strategy.shape = "output"

Notice(rounds) == [role |-> "system", msg |-> [by |-> "notice", q |-> rounds]]

\* Variant of BuildRequestWithContext: the window ends one message too early.
BuildRequestBefore(strategy, messages) ==
    LET total == Len(messages)
        recent == 2 * strategy.maxContext
        window == SubSeq(messages, 1, 2) \o SubSeq(messages, total - recent, total - 1)
    IN IF Fits(strategy, messages) THEN BuildRequest(messages)
       ELSE InsertAt(BuildRequest(window), 3, Notice((total - recent - 2) \div 2))

\* The first round, a notice, and the last 2 * maxContext messages.
BuildRequestWithContext(strategy, messages) ==
    LET total == Len(messages)
        recent == 2 * strategy.maxContext
        window == SubSeq(messages, 1, 2) \o SubSeq(messages, total - recent + 1, total)
    IN IF Fits(strategy, messages) THEN BuildRequest(messages)
       ELSE InsertAt(BuildRequest(window), 3, Notice((total - recent - 2) \div 2))

=============================================================================
