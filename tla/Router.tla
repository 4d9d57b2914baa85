-------------------------------- MODULE Router --------------------------------
(***************************************************************************)
(* Router: which handler or callback serves a request, and with which path *)
(* parameters.  A path is the sequence of the segments between its         *)
(* slashes; none is empty.  In a pattern a segment :name is Param, what    *)
(* convertToRegex() makes ([^/]+) of; the others are plain text.           *)
(***************************************************************************)
EXTENDS Naturals, Sequences, SequencesExt

Param == ":name"

NoRoutes == [handlers |-> <<>>, callbacks |-> <<>>,
             regexHandlers |-> <<>>, regexCallbacks |-> <<>>]

Key(route) == [method |-> route.method, path |-> route.path]

(* A route is [kind, method, path, target].  A static one replaces the one *)
(* that has its key, a dynamic one goes behind those that are there.       *)
Register(router, route) ==
  IF route.kind \in {"handlers", "callbacks"}
  THEN [router EXCEPT ![route.kind] =
          [key \in DOMAIN @ \cup {Key(route)} |->
             IF key = Key(route) THEN route.target ELSE @[key]]]
  ELSE [router EXCEPT ![route.kind] = Append(@, route)]

(* The routes of a program, in the order in which it registers them. *)
RegisterAll(routes) ==
  LET tables[i \in 0..Len(routes)] ==
        IF i = 0 THEN NoRoutes ELSE Register(tables[i - 1], routes[i])
  IN  tables[Len(routes)]

RegexMatch(route, req) ==
  /\ route.method = req.method
  /\ Len(route.path) = Len(req.path)
  /\ \A i \in DOMAIN route.path : route.path[i] \in {Param, req.path[i]}

(* param1, param2, ...: the groups of the match, from left to right. *)
ExtractPathParameters(route, req) ==
  LET groups[i \in 0..Len(route.path)] ==
        IF i = 0 THEN <<>>
        ELSE IF route.path[i] = Param THEN Append(groups[i - 1], req.path[i])
        ELSE groups[i - 1]
  IN  groups[Len(route.path)]

Serve(target, params) == <<[target |-> target, params |-> params]>>

Static(targets, req) ==
  IF Key(req) \in DOMAIN targets THEN Serve(targets[Key(req)], <<>>) ELSE <<>>

(* The first of a vector that matches; 0 if none does. *)
FirstMatch(routes, req) == SelectInSeq(routes, LAMBDA r : RegexMatch(r, req))

RegexHandler(router, req) ==
  LET routes == router.regexHandlers
      first  == FirstMatch(routes, req)
  IN  IF first = 0 THEN <<>>
      ELSE Serve(routes[first].target, ExtractPathParameters(routes[first], req))

(* A callback is called with req, not with newReq that has the parameters. *)
RegexCallback(router, req) ==
  LET routes == router.regexCallbacks
      first  == FirstMatch(routes, req)
  IN  IF first = 0 THEN <<>> ELSE Serve(routes[first].target, <<>>)

(* Variant of Route: the callbacks of one path come after every handler. *)
RouteHandlersFirst(router, req) ==
  LET found == Static(router.handlers, req) \o RegexHandler(router, req)
               \o Static(router.callbacks, req) \o RegexCallback(router, req)
  IN  SubSeq(found, 1, IF found = <<>> THEN 0 ELSE 1)

(* route(): who serves the request, or nobody. *)
Route(router, req) ==
  LET found == Static(router.handlers, req) \o Static(router.callbacks, req)
               \o RegexHandler(router, req) \o RegexCallback(router, req)
  IN  SubSeq(found, 1, IF found = <<>> THEN 0 ELSE 1)
=============================================================================
