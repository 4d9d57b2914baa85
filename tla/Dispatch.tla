------------------------------- MODULE Dispatch -------------------------------
(***************************************************************************)
(* HttpServer from a parsed request to its answer: middleware, router,     *)
(* handler, middleware, appendToBuffer.  It all runs on the I/O loop of    *)
(* the connection; the loops share the table of the users, which login and *)
(* registration read and change in statements of their own, and a speech   *)
(* handler keeps its loop while it polls the service.                      *)
(***************************************************************************)
EXTENDS Router, Handlers, FiniteSets

CONSTANTS Loop,
          MoreRoutes,  \* routes that are registered after ChatServer's
          Requests,    \* what clients send
          UniqueNames, \* whether the table of the users has a unique index on the name
          max_loops,   \* of AISpeechProcessor::synthesize
          MaxRequests, \* bound on the requests
          MaxFaults    \* bound on the statements that fail

ASSUME DispatchAssumption ==
  /\ UniqueNames \in BOOLEAN
  /\ IsFiniteSet(Loop) /\ {max_loops, MaxRequests, MaxFaults} \subseteq Nat
  /\ \A route \in MoreRoutes :
       route.kind \in {"handlers", "callbacks", "regexHandlers", "regexCallbacks"}
  /\ \A req \in Requests : req.session \in {"none", "half", "user"}
  /\ \A r \in MoreRoutes \cup Requests : r.path \in Seq(STRING)

Get(path, handler) ==
  [kind |-> "handlers", method |-> "GET", path |-> path, target |-> handler]

Post(path, handler) ==
  [kind |-> "handlers", method |-> "POST", path |-> path, target |-> handler]

InitializeRouter ==
  <<Get(<<>>, "ChatEntryHandler"), Get(<<"entry">>, "ChatEntryHandler"),
    Post(<<"login">>, "ChatLoginHandler"), Post(<<"register">>, "ChatRegisterHandler"),
    Post(<<"user", "logout">>, "ChatLogoutHandler"), Get(<<"chat">>, "ChatHandler"),
    Post(<<"chat", "send">>, "ChatSendHandler"), Get(<<"menu">>, "AIMenuHandler"),
    Get(<<"upload">>, "AIUploadHandler"), Post(<<"upload", "send">>, "AIUploadSendHandler"),
    Post(<<"chat", "history">>, "ChatHistoryHandler"),
    Post(<<"chat", "delete-session">>, "ChatDeleteSessionHandler"),
    Post(<<"chat", "send-new-session">>, "ChatCreateAndSendHandler"),
    Get(<<"chat", "sessions">>, "ChatSessionsHandler"),
    Post(<<"chat", "tts">>, "ChatSpeechHandler")>>

VARIABLES router,
          toRegister,  \* routes that are not registered yet
          registered,  \* observer: those that are, in their order
          loop,        \* the request each loop is in
          users,       \* the rows of the table; a row's id is its place
          requests, faults,
          answer,      \* observer: the answer that the latest step gave, if any
          told,        \* observer: the accounts that answers spoke of
          raced        \* observer: names that two registrations found free at once

vars == <<router, toRegister, registered, loop, users, requests, faults, answer, told, raced>>

setup == <<router, toRegister, registered>>

Idle == [pc |-> "idle"]

Init ==
  /\ router = RegisterAll(InitializeRouter)
  /\ registered = InitializeRouter
  /\ toRegister = MoreRoutes
  /\ loop = [l \in Loop |-> Idle]
  /\ users = <<>>
  /\ requests = 0 /\ faults = 0
  /\ answer = {} /\ told = {} /\ raced = {}

Silent == answer' = {} /\ UNCHANGED told

(* Get(), Post() and addRoute(), before start(). *)
RegisterRoute(route) ==
  /\ route \in toRegister
  /\ router' = Register(router, route)
  /\ toRegister' = toRegister \ {route}
  /\ registered' = Append(registered, route)
  /\ Silent
  /\ UNCHANGED <<loop, users, raced, requests, faults>>

-----------------------------------------------------------------------------
(* onRequest: the answer goes out, unless it is deferred and a worker is   *)
(* to begin another; accounts is what it speaks of.                        *)
Send(l, resp, accounts) ==
  /\ answer' = {[req |-> loop[l].req, by |-> loop[l].by,
                 resp |-> IF resp.deferred THEN SendSSEHeaders ELSE resp]}
  /\ told' = told \cup accounts
  /\ loop' = [loop EXCEPT ![l] = Idle]

(* handleRequest, when the handler has returned. *)
Return(l, resp) == Send(l, After(resp), {})

Tell(l, name, password, id) ==
  Send(l, After(Succeeded(loop[l].resp)), {[name |-> name, password |-> password, id |-> id]})

(* Variant of NotFound: the connection stays as the client asked. *)
NotFoundKept(resp) == [resp EXCEPT !.status = 404]

NotFound(resp) == [resp EXCEPT !.status = 404, !.close = TRUE]

(* An exception: what the response has of a status line, of headers and of *)
(* the wish to close stays, and no middleware sees it.                     *)
InternalError(resp) == [resp EXCEPT !.status = 500, !.body = 1]

CloseAsked(req) ==
  req.connection = "close" \/ (req.version = "1.0" /\ req.connection # "Keep-Alive")

OnRequest(l, req) ==
  /\ toRegister = {} /\ loop[l].pc = "idle"
  /\ requests < MaxRequests /\ requests' = requests + 1
  /\ loop' = [loop EXCEPT ![l] =
       [pc |-> "before", req |-> req, by |-> <<>>, resp |-> NewResponse(CloseAsked(req)),
        polls |-> 0]]
  /\ Silent
  /\ UNCHANGED <<setup, users, raced, faults>>

(* processBefore: a preflight is answered by the middleware. *)
Preflight(l) ==
  /\ loop[l].pc = "before" /\ loop[l].req.method = "OPTIONS"
  /\ Send(l, HandlePreflightRequest(loop[l].req), {})
  /\ UNCHANGED <<setup, users, raced, requests, faults>>

(* The handlers of several steps, and their first one. *)
FirstStep == [ChatLoginHandler |-> "login", ChatRegisterHandler |-> "isUserExist",
              ChatSpeechHandler |-> "speech"]

RouteRequest(l) ==
  LET r == loop[l]
      by == Route(router, r.req)
  IN  /\ r.pc = "before" /\ r.req.method # "OPTIONS"
      /\ loop' = [loop EXCEPT ![l].by = by, ![l].pc =
           IF by # <<>> /\ by[1].target \in DOMAIN FirstStep
           THEN FirstStep[by[1].target] ELSE "handle"]
      /\ Silent
      /\ UNCHANGED <<setup, users, raced, requests, faults>>

(* What a handler's outcome makes of the answer. *)
Conclude(l, outcome) ==
  IF outcome.throws THEN Send(l, InternalError(outcome.resp), {}) ELSE Return(l, outcome.resp)

HandleRequest(l) ==
  LET r == loop[l]
  IN  /\ r.pc = "handle"
      /\ IF r.by = <<>> THEN Return(l, NotFound(r.resp))
         ELSE \E outcome \in Handle(r.by[1].target, r.req, r.resp) : Conclude(l, outcome)
      /\ UNCHANGED <<setup, users, raced, requests, faults>>

-----------------------------------------------------------------------------
(* ChatRegisterHandler and ChatLoginHandler.  A statement may fail: the    *)
(* pool or the server throws, and the handler answers 400.                 *)
Fail(l) ==
  /\ loop[l].pc \in {"isUserExist", "insert", "select", "login"}
  /\ faults < MaxFaults /\ faults' = faults + 1
  /\ Return(l, BadRequest(loop[l].resp))
  /\ UNCHANGED <<setup, users, raced, requests>>

RowsOf(name) == {id \in DOMAIN users : users[id].name = name}

(* Neither gets to a statement without a body that can be read. *)
Unreadable(l) ==
  /\ loop[l].pc \in {"isUserExist", "login"} /\ loop[l].req.content # "json"
  /\ Conclude(l, IF loop[l].pc = "login" /\ loop[l].req.content = "empty"
                 THEN Returned(NotJson(loop[l].resp))
                 ELSE ParseThrows(loop[l].req, loop[l].resp))
  /\ UNCHANGED <<setup, users, raced, requests, faults>>

(* Two registrations that both find a name free race for it. *)
FindFree(l) ==
  LET name == loop[l].req.name
  IN  /\ loop' = [loop EXCEPT ![l].pc = "insert"] /\ Silent
      /\ raced' = IF \E o \in Loop : loop[o].pc = "insert" /\ loop[o].req.name = name
                  THEN raced \cup {name} ELSE raced

(* Variant of IsUserExist: what the look-up finds is not asked for. *)
IsUserExistUnread(l) ==
  /\ loop[l].pc = "isUserExist" /\ loop[l].req.content = "json"
  /\ FindFree(l)
  /\ UNCHANGED <<setup, users, requests, faults>>

IsUserExist(l) ==
  /\ loop[l].pc = "isUserExist" /\ loop[l].req.content = "json"
  /\ \/ RowsOf(loop[l].req.name) = {} /\ FindFree(l)
     \/ /\ RowsOf(loop[l].req.name) # {}
        /\ Return(l, PackageResp(loop[l].resp, 409, FALSE, 1))
        /\ UNCHANGED raced
  /\ UNCHANGED <<setup, users, requests, faults>>

(* INSERT: if names are unique in the table it throws when another request *)
(* has registered the name since it was looked for; if not, two rows have  *)
(* the name.                                                               *)
InsertUser(l) ==
  LET req == loop[l].req
  IN  /\ loop[l].pc = "insert"
      /\ IF RowsOf(req.name) = {} \/ ~UniqueNames
         THEN /\ users' = Append(users, [name |-> req.name, password |-> req.password])
              /\ loop' = [loop EXCEPT ![l].pc = "select"]
              /\ Silent
         ELSE Return(l, BadRequest(loop[l].resp)) /\ UNCHANGED users
      /\ UNCHANGED <<setup, raced, requests, faults>>

(* SELECT: the id of a row with the name. *)
SelectId(l) ==
  LET req == loop[l].req
  IN  /\ loop[l].pc = "select"
      /\ \E id \in RowsOf(req.name) : Tell(l, req.name, req.password, id)
      /\ UNCHANGED <<setup, users, raced, requests, faults>>

(* queryUserId; what the session then gets is in HttpSessions. *)
QueryUserId(l) ==
  LET req == loop[l].req
      rows == {id \in RowsOf(req.name) : users[id].password = req.password}
  IN  /\ loop[l].pc = "login" /\ req.content = "json"
      /\ \/ \E id \in rows : Tell(l, req.name, req.password, id)
         \/ rows = {} /\ Return(l, PackageResp(loop[l].resp, 401, FALSE, 1))
      /\ UNCHANGED <<setup, users, raced, requests, faults>>

-----------------------------------------------------------------------------
(* ChatSpeechHandler: a request that may not, or a server without          *)
(* credentials, is refused; synthesize() creates a task, or gives up,      *)
CreateTask(l) ==
  LET r == loop[l]
  IN  /\ r.pc = "speech"
      /\ \E outcome \in ChatSpeechHandler(r.req, r.resp) :
           \/ Conclude(l, outcome)
           \/ /\ outcome = Returned(Succeeded(r.resp))
              /\ loop' = [loop EXCEPT ![l].pc = "poll"] /\ Silent
      /\ UNCHANGED <<setup, users, raced, requests, faults>>

(* and asks for its result max_loops times at most.  The answer is a       *)
(* success with or without a URL.                                          *)
Poll(l) ==
  LET r == loop[l]
  IN  /\ r.pc = "poll"
      /\ \/ r.polls < max_loops /\ loop' = [loop EXCEPT ![l].polls = @ + 1] /\ Silent
         \/ Return(l, Succeeded(r.resp))
      /\ UNCHANGED <<setup, users, raced, requests, faults>>

Step(l) ==
  \/ Preflight(l) \/ RouteRequest(l) \/ HandleRequest(l)
  \/ Unreadable(l) \/ IsUserExist(l) \/ InsertUser(l) \/ SelectId(l) \/ QueryUserId(l) \/ Fail(l)
  \/ CreateTask(l) \/ Poll(l)

Next ==
  \/ \E route \in MoreRoutes : RegisterRoute(route)
  \/ \E l \in Loop : Step(l) \/ \E req \in Requests : OnRequest(l, req)

Spec == Init /\ [][Next]_vars

-----------------------------------------------------------------------------
(***************************************************************************)
(* In whatever order routes are registered, a request is served by a       *)
(* static handler before a static callback before a dynamic one; of the    *)
(* static ones with its path by the last, of the dynamic ones by the first *)
(* (Router.cpp:21).  The parameters a handler gets, put into the pattern   *)
(* that served it, give the path again.                                    *)
(***************************************************************************)
Kinds == <<"handlers", "callbacks", "regexHandlers", "regexCallbacks">>

IsStatic(route) == route.kind \in {"handlers", "callbacks"}

Fits(route, req) == IF IsStatic(route) THEN Key(route) = Key(req) ELSE RegexMatch(route, req)

Rank(route) == SelectInSeq(Kinds, LAMBDA kind : kind = route.kind)

Before(i, j) ==
  LET r == registered[i]
      s == registered[j]
  IN  \/ Rank(r) < Rank(s)
      \/ Rank(r) = Rank(s) /\ IF IsStatic(r) THEN i > j ELSE i < j

Fills(params, pattern, path) ==
  \A i \in DOMAIN pattern :
    pattern[i] = Param => params[Cardinality({h \in 1..i : pattern[h] = Param})] = path[i]

ServedByTheRightOne ==
  \A a \in answer :
    LET fitting == {i \in DOMAIN registered : Fits(registered[i], a.req)}
    IN  a.req.method # "OPTIONS" =>
          IF fitting = {} THEN a.by = <<>> /\ a.resp.status = 404
          ELSE \E i \in fitting :
                 /\ \A j \in fitting \ {i} : Before(i, j)
                 /\ a.by[1].target = registered[i].target
                 /\ registered[i].kind = "regexHandlers" =>
                      Fills(a.by[1].params, registered[i].path, a.req.path)

(***************************************************************************)
(* The version, the status, the wish to close, the length and the CORS     *)
(* headers of an answer are set in six places.  What a handler returns is  *)
(* an HTTP answer; the client can tell where it ends, by a length, by      *)
(* chunks or by the end of the connection (HttpResponse.cpp:39), and a     *)
(* page of an allowed origin may read it, but for an event stream, which   *)
(* has headers of its own (HttpResponse.cpp:94).  What nobody handles, a   *)
(* 404 and a preflight, closes the connection and has the CORS headers,    *)
(* but no version: its status line has a blank in place of it.  Only an    *)
(* exception that leaves a handler breaks all this, and that takes a body  *)
(* that is not UTF-8 or an entry page without its file.                    *)
(***************************************************************************)
HasEnd(resp) == resp.close \/ resp.length = resp.body \/ resp.deferred

MayRead(req, resp) == IsOriginAllowed(req.origin) => resp.origin \in {"*", req.origin}

ClientCanRead ==
  \A a \in answer :
    IF a.resp.status = 500
    THEN \/ a.req.content = "ill-formed"
         \/ a.by[1].target = "ChatEntryHandler" /\ FileThrows("entry.html")
    ELSE /\ HasEnd(a.resp)
         /\ a.resp.deferred \/ MayRead(a.req, a.resp)
         /\ a.by # <<>> => a.resp.version

(***************************************************************************)
(* Whoever registers and logs in at once, and whichever statement fails    *)
(* between two others (ChatRegisterHandler.cpp:63): what clients were told *)
(* of accounts fits together.  A name, or an id, stands for one account    *)
(* with one password.  If the table has no unique index on the name (the   *)
(* repository neither makes nor mentions one), two registrations break it, *)
(* but only if each looked the name up before the other inserted it.       *)
(***************************************************************************)
OneAccount ==
  \A a, b \in told :
    a.name = b.name \/ a.id = b.id => a = b \/ (~UniqueNames /\ a.name \in raced)
=============================================================================
