---------------------------- MODULE MCAnswering ----------------------------
EXTENDS Answering

MCModelConfig ==
    [default_model |-> "qwen",
     aliases |-> [one |-> "qwen"],
     models |-> <<[id |-> "qwen", max_context |-> 9],
                  [id |-> "qwen", max_context |-> 1],
                  [id |-> "endless"],
                  [id |-> "rag", type |-> "rag", max_context |-> 1]>>]

Text(s) == [t |-> "string", v |-> s, parsed |-> [t |-> "discarded", v |-> <<>>]]
Encoded(json) == [t |-> "string", v |-> "{...}", parsed |-> json]
Bool(b) == [t |-> "boolean", v |-> b]
Obj(f) == [t |-> "object", v |-> f]
Arr(s) == [t |-> "array", v |-> s]
Prose == [t |-> "prose", v |-> <<>>]
StrayBrace == [t |-> "brace", v |-> <<>>]

MCToolConfig ==
    <<[name |-> "get_weather",
       params |-> [city |-> Obj([type |-> Text("string"), required |-> Bool("true")]),
                   days |-> Obj([type |-> Text("integer")])]],
      [name |-> "get_time", params |-> <<>>],
      [name |-> "search", params |-> [query |-> Text("what to look for")]]>>

City == [city |-> Text("Beijing")]
Forecast == [city |-> Text("Beijing"), days |-> [t |-> "integer", v |-> "2"]]
Weather == [name |-> Text("get_weather"), arguments |-> Encoded(Obj(City))]

MCReplies == <<
    <<Prose>>,
    <<Prose, StrayBrace, Obj([need_tool |-> Bool("true"), tool |-> Text("get_weather"), args |-> Obj(City)])>>,
    <<Obj([need_tool |-> Bool("false"), tool |-> Text("get_weather"), args |-> Obj(City)])>>,
    <<Obj([need_tool |-> Text("yes"), tool |-> Text("get_time")])>>,
    <<Obj([tool_name |-> Text("get_weather"), parameters |-> Obj(Forecast)]), Prose>>,
    <<Obj([tool |-> Text("get_weather"), args |-> Obj([city |-> Text("Beijing"), days |-> Text("2")])])>>,
    <<Obj([tool |-> Text("get_weather"), args |-> Obj(<<>>)])>>,
    <<Obj([tool |-> Text("get_time"), args |-> Obj([zone |-> Text("UTC")])])>>,
    <<Obj([tool |-> Text("get_time"), args |-> Text("now")])>>,
    <<Obj([tool |-> Text("")]), Obj([tool |-> Text("get_time")])>>,
    <<Obj([tool |-> Text("format_disk")])>>,
    <<Obj([tool |-> Text("search"), args |-> Obj([query |-> Text("x")])])>>,
    <<Obj([tool_calls |-> Arr(<<Obj([function |-> Obj(Weather)])>>)])>>,
    <<Obj([tool_calls |-> Arr(<<Obj(Weather), Obj([name |-> Text("get_time")])>>)])>>,
    <<Obj([tool_calls |-> Arr(<<Obj([name |-> Text("get_time")])>>), need_tool |-> Bool("false")])>>,
    <<Obj([function_call |-> Obj(Weather)])>>,
    <<Obj([function_call |-> Text("get_time"), name |-> Text("get_time")])>> >>

Stream(lines, closed, code) == [lines |-> lines, closed |-> closed, code |-> code]

MCStreams == {
    Stream(<<>>, TRUE, 200),
    Stream(<<"choices", "blank", "choices", "done">>, TRUE, 200),
    Stream(<<"output", "other", "output">>, FALSE, 200),
    Stream(<<"done">>, TRUE, 200),
    Stream(<<"other">>, FALSE, 200),
    Stream(<<"other">>, FALSE, 500)}

=============================================================================
