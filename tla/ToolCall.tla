------------------------------ MODULE ToolCall ------------------------------
(* AIConfig: the tool call a model asks for in its own words, found in its  *)
(* answer, normalised and checked against the tools of config.json          *)
(* (AIUtil/AIConfig.cpp), and the registry of tools (AIToolRegistry.cpp).   *)
(* A JSON value is [t |-> type, v |-> value]; an object's v is a function   *)
(* on its fields, an array's v a sequence, and a string of arguments has    *)
(* in "parsed" what json::parse makes of it.                                *)
EXTENDS Integers, Sequences, SequencesExt

CONSTANT
    ToolConfig   \* the "tools" of config.json: <<[name, params : field -> JSON]>>

Registered == {"get_weather", "get_time"}

NoObject == [t |-> "object", v |-> <<>>]

\* A parameter is described by an object, or in the old form by a string.
Param(json) ==
    IF json.t = "string" THEN [type |-> "string", required |-> TRUE]
    ELSE [type |-> IF "type" \in DOMAIN json.v THEN json.v["type"].v ELSE "string",
          required |-> "required" \in DOMAIN json.v /\ json.v["required"].v = "true"]

\* loadFromFile refuses a file with a parameter of another form.
ConfigIsLegal ==
    \A i \in DOMAIN ToolConfig : \A p \in DOMAIN ToolConfig[i].params :
        ToolConfig[i].params[p].t \in {"string", "object"}

\* findTool: the first of that name, or none.
IsListed(name) == \E i \in DOMAIN ToolConfig : ToolConfig[i].name = name

FindTool(name) ==
    LET params == ToolConfig[SelectInSeq(ToolConfig, LAMBDA x : x.name = name)].params
    IN [p \in DOMAIN params |-> Param(params[p])]

\* extractJsonObject: text, braces that do not pair and what does not parse are passed over.
ExtractJsonObject(response) == SelectSeq(response, LAMBDA part : part.t = "object")

MatchesType(value, type) ==
    /\ type \in {"string", "boolean", "number", "integer", "object", "array"}
    /\ value.t = type \/ (type = "number" /\ value.t = "integer")

\* Variant of ValidateArgs: the types of the arguments are not looked at.
ValidateNames(tool, args) ==
    /\ \A p \in DOMAIN tool : tool[p].required => p \in DOMAIN args
    /\ DOMAIN args \subseteq DOMAIN tool

ValidateArgs(tool, args) ==
    /\ \A p \in DOMAIN tool :
        /\ tool[p].required => p \in DOMAIN args
        /\ p \in DOMAIN args => MatchesType(args[p], tool[p].type)
    /\ DOMAIN args \subseteq DOMAIN tool

Has(object, key) == key \in DOMAIN object

OneCall(calls) == calls.t = "array" /\ Len(calls.v) = 1 /\ calls.v[1].t = "object"

IsFunctionCall(root) == Has(root, "function_call") /\ root["function_call"].t = "object"

Inferred(root) == Has(root, "tool_calls") \/ IsFunctionCall(root)

\* The object that names the tool: wrapped in one of two ways, or the root itself.
Decision(root) ==
    IF Has(root, "tool_calls")
    THEN LET call == root["tool_calls"].v[1].v IN
         IF Has(call, "function") /\ call["function"].t = "object"
         THEN call["function"].v ELSE call
    ELSE IF IsFunctionCall(root) THEN root["function_call"].v ELSE root

NameKeys == <<"tool", "tool_name", "name">>
ArgKeys == <<"args", "arguments", "parameters">>

IsName(decision, key) == Has(decision, key) /\ decision[key].t = "string"

NeedTool(root) ==
    IF Has(root, "need_tool") THEN root["need_tool"].v = "true"
    ELSE Inferred(root) \/ \E i \in DOMAIN NameKeys :
                              IsName(root, NameKeys[i]) /\ root[NameKeys[i]].v # ""

\* The first key of each kind counts.
ToolName(decision) ==
    LET first == SelectInSeq(NameKeys, LAMBDA k : IsName(decision, k))
    IN IF first = 0 THEN "" ELSE decision[NameKeys[first]].v

Args(decision) ==
    LET first == SelectInSeq(ArgKeys, LAMBDA k : Has(decision, k))
        raw == IF first = 0 THEN NoObject ELSE decision[ArgKeys[first]]
    IN IF raw.t = "string" THEN raw.parsed ELSE raw

\* The reasons for which an object is refused before it is asked what it wants.
Malformed(root) ==
    \/ Has(root, "tool_calls") /\ ~OneCall(root["tool_calls"])
    \/ Has(root, "need_tool") /\ root["need_tool"].t # "boolean"

IsValidCall(decision) ==
    /\ ToolName(decision) # ""
    /\ Args(decision).t = "object"
    /\ IsListed(ToolName(decision))
    /\ ValidateArgs(FindTool(ToolName(decision)), Args(decision).v)

NoCall(status) == [status |-> status, tool |-> "", args |-> <<>>]

ParseAndValidateToolCall(response) ==
    LET objects == ExtractJsonObject(response)
        root == objects[1].v
        decision == Decision(root)
    IN IF objects = <<>> \/ Malformed(root) THEN NoCall("kInvalid")
       ELSE IF ~NeedTool(root) THEN NoCall("kNoToolCall")
       ELSE IF ~IsValidCall(decision) THEN NoCall("kInvalid")
       ELSE [status |-> "kValidToolCall", tool |-> ToolName(decision),
             args |-> Args(decision).v]

=============================================================================
