------------------------------ MODULE MCDispatch ------------------------------
(***************************************************************************)
(* A small instance of Dispatch for TLC.  The routes that are added share  *)
(* paths with each other and with ChatServer's, so that their order        *)
(* matters.  The loops are interchangeable.                                *)
(***************************************************************************)
EXTENDS Dispatch

Symmetry == Permutations(Loop)

Added(kind, path, target) == [kind |-> kind, method |-> "GET", path |-> path, target |-> target]

MCMoreRoutes ==
  {Added("handlers", <<"entry">>, "another entry"),
   Added("callbacks", <<"users", "7">>, "callback of 7"),
   Added("regexHandlers", <<"users", Param>>, "handler of users"),
   Added("regexHandlers", <<Param, "8">>, "handler of all 8"),
   Added("regexCallbacks", <<Param, Param>>, "callback of two")}

(* ChatServer takes CorsConfig::defaultConfig(). *)
MCAllowedOrigins == <<"*">>

Plain == [method |-> "GET", path |-> <<"chat">>, version |-> "1.1", connection |-> "none",
          origin |-> "here", session |-> "none", content |-> "json",
          name |-> "none", password |-> "none"]

Asking(path) == [Plain EXCEPT !.path = path, !.session = "user"]

Posting(path, session, content) ==
  [Plain EXCEPT !.method = "POST", !.path = path, !.session = session, !.content = content]

Account(path, name, password) ==
  [Posting(path, "none", "json") EXCEPT !.name = name, !.password = password]

MCRequests ==
  {Asking(<<"users", "7">>), Asking(<<"users", "8">>),
   [Asking(<<"teams", "8">>) EXCEPT !.version = "1.0"], Asking(<<"nowhere">>),
   Asking(<<>>), Asking(<<"entry">>), [Plain EXCEPT !.method = "OPTIONS"],
   Posting(<<"user", "logout">>, "user", "empty"), Posting(<<"chat", "send">>, "user", "json"),
   Posting(<<"chat", "delete-session">>, "user", "json"),
   Posting(<<"register">>, "none", "ill-formed"),
   Posting(<<"chat", "tts">>, "user", "json"), Posting(<<"login">>, "none", "empty"),
   Account(<<"register">>, "ann", "one"), Account(<<"register">>, "ann", "two"),
   Account(<<"login">>, "ann", "one")}
=============================================================================
