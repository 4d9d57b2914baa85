---------------------------- MODULE HttpConnection ----------------------------
(***************************************************************************)
(* Keep-alive connections of the HTTP server: parsing a request that comes *)
(* in any segments, answering it from the I/O loop, or handing it to the   *)
(* business pool, whose worker streams the answer back through the loop.   *)
(*                                                                         *)
(* A request is cut into pieces <<part, n>>: its line, a header, the blank *)
(* line, the body; n numbers the requests of the connection.  A piece that *)
(* has come in part only is one that has not come.  An answer is a "full"  *)
(* response, a stream ("headers", "chunk"s, "end" or "error"), or the 400  *)
(* ("refused") that ends the connection.                                   *)
(*                                                                         *)
(* The texts of a chat go out as JSON, and dump() throws on one that is    *)
(* not UTF-8: the error text of a backend is cut after 200 bytes, which    *)
(* may be within a character.  Garbled names the connections that meet it. *)
(***************************************************************************)
EXTENDS ThreadPool

CONSTANTS Conn,
          Hasty,        \* connections whose client does not wait for answers
          Garbled,      \* connections whose chats meet texts that are not UTF-8
          Asserts,      \* the build keeps assert()
          Wants,        \* the kinds of requests that a client may send
          MaxRequests,  \* bound on the requests of a connection
          MaxChunks     \* bound on the chunks of a stream

VARIABLES asked,     \* what the client has asked for so far
          transit,   \* the pieces that have not arrived yet
          buf,       \* the input buffer
          context,   \* HttpContext: state_ and request_
          link,      \* "open"; "shut": the server has ended its side;
                     \* "gone": the client has closed
          pending,   \* the loop's functors that write frames of a stream
          wire,      \* the frames written to the client
          seen,      \* observer: the requests that handlers were called with
          sentChunks \* chunks of the stream each worker is in

hvars == <<asked, transit, buf, context, link, pending, wire, seen, sentChunks>>
vars == <<tpvars, hvars>>

-----------------------------------------------------------------------------
(* "form": a POST that is answered at once; "empty": Content-Length: 0. *)
Good == {"get", "form", "chat", "empty"}

(* "bad_line": no known method; "bad_version": a method, no HTTP version;  *)
(* "bad_length": Content-Length is no number.                              *)
Malformed ==
  {"bad_line", "bad_version", "bad_header", "no_length", "bad_length", "negative_length"}

ASSUME HttpAssumption ==
  /\ Hasty \subseteq Conn /\ Garbled \subseteq Conn /\ Asserts \in BOOLEAN
  /\ Wants \in [Conn -> SUBSET (Good \cup Malformed)]
  /\ \A c \in Hasty : Wants[c] \subseteq Good
  /\ MaxRequests \in Nat /\ MaxChunks \in Nat

Parts(kind) ==
  CASE kind = "get"             -> <<"line", "blank">>
    [] kind \in {"form", "chat"} -> <<"line", "header", "blank", "body">>
    [] kind \in {"empty", "bad_length", "negative_length"} -> <<"line", "header", "blank">>
    [] kind = "bad_line"        -> <<"garbage", "blank">>
    [] kind = "bad_version"     -> <<"half_line", "blank">>
    [] kind = "bad_header"      -> <<"line", "garbage", "blank">>
    [] kind = "no_length"       -> <<"line", "blank">>

Pieces(kind, n) == [i \in 1..Len(Parts(kind)) |-> <<Parts(kind)[i], n>>]

IsPost(c, n) ==
  asked[c][n] \in {"form", "chat", "empty", "no_length", "bad_length", "negative_length"}

(* HttpRequest: which request gave it the method and the rest of the line, *)
(* the header Content-Length and the body; 0: none.                        *)
NoRequest == [line |-> 0, header |-> 0, body |-> 0]

NewContext == [state |-> "line", request |-> NoRequest]

(* Variant of Reset: the headers are left as well. *)
ResetLess(request) ==
  [state |-> "line", request |-> [request EXCEPT !.line = 0]]

(* HttpContext::reset(): swap() leaves content_ and contentLength_. *)
Reset(request) ==
  [state |-> "line", request |-> [request EXCEPT !.line = 0, !.header = 0]]

-----------------------------------------------------------------------------
(* parseRequest: p is the context with the pieces it leaves in the buffer, *)
(* ok, and hasMore.  A line that is wrong is not retrieved, but a method   *)
(* read from it stays, and no second one may be set in a build that keeps  *)
(* assert(): the process aborts.                                           *)
Refuse(p, rest) == [p EXCEPT !.ok = FALSE, !.more = FALSE, !.rest = rest]

ParseLine(p, part, n) ==
  IF Asserts /\ part # "garbage" /\ p.request.line # 0
  THEN [p EXCEPT !.state = "aborted", !.more = FALSE]
  ELSE CASE part = "line"      -> [p EXCEPT !.state = "headers", !.request.line = n]
         [] part = "half_line" -> Refuse([p EXCEPT !.request.line = n], <<<<part, n>>>>)
         [] OTHER              -> Refuse(p, <<<<part, n>>>>)

(* The blank line: a POST goes on with its body, if its length is not 0.   *)
(* A length that is no number makes stoi throw, before the line is         *)
(* retrieved; onMessage catches it and answers 400 as for the others.  A   *)
(* negative one is a huge number as an uint64_t.                           *)
ParseBlank(c, p, n) ==
  LET r == p.request
      length == asked[c][r.header]
  IN  CASE ~IsPost(c, r.line)     -> [p EXCEPT !.state = "all", !.more = FALSE]
        [] IsPost(c, r.line) /\ r.header = 0 -> Refuse(p, <<>>)
        [] IsPost(c, r.line) /\ r.header # 0 ->
             CASE length = "empty"      -> [p EXCEPT !.state = "all", !.more = FALSE]
               [] length = "bad_length" -> Refuse(p, <<<<"blank", n>>>>)
               [] OTHER                 -> [p EXCEPT !.state = "body"]

ParseHeader(c, p, part, n) ==
  CASE part = "header" -> [p EXCEPT !.request.header = n]
    [] part = "blank"  -> ParseBlank(c, p, n)
    [] OTHER           -> Refuse(p, <<>>)

ParseBody(p, n) ==
  [p EXCEPT !.state = "all", !.request.body = n, !.more = FALSE]

ParsePiece(c, p, piece) ==
  IF ~p.more THEN [p EXCEPT !.rest = Append(@, piece)]
  ELSE CASE p.state = "line"    -> ParseLine(p, piece[1], piece[2])
         [] p.state = "headers" -> ParseHeader(c, p, piece[1], piece[2])
         [] p.state = "body"    -> ParseBody(p, piece[2])

Parse(c, bytes) ==
  LET start == [state |-> context[c].state, request |-> context[c].request,
                rest |-> <<>>, ok |-> TRUE, more |-> TRUE]
      after[i \in 0..Len(bytes)] ==
        IF i = 0 THEN start ELSE ParsePiece(c, after[i - 1], bytes[i])
  IN  after[Len(bytes)]

-----------------------------------------------------------------------------
(* conn->send: a connection that is not kConnected drops what is sent. *)
Write(c, n, part) ==
  wire' = IF link[c] = "open" THEN [wire EXCEPT ![c] = Append(@, [req |-> n, part |-> part])]
                              ELSE wire

Shutdown(c) == link' = IF link[c] = "open" THEN [link EXCEPT ![c] = "shut"] ELSE link

(* A handler that answers at once, or throws and leaves a 500 behind; the  *)
(* connection is closed or kept.                                           *)
AnswerNow(c, n) ==
  /\ Write(c, n, "full")
  /\ Shutdown(c) \/ UNCHANGED link
  /\ UNCHANGED tpvars

(* Variant of Defer: onRequest sends the response object all the same. *)
DeferAndAnswer(c, n) ==
  /\ Enqueue(<<c, n>>)
  /\ Write(c, n, "full")
  /\ UNCHANGED link

(* setDeferred(): the loop sends nothing, a worker will. *)
Defer(c, n) ==
  /\ Enqueue(<<c, n>>)
  /\ UNCHANGED <<wire, link>>

(* onRequest, and what the handler does.  A chat that is not authorised,   *)
(* or cannot be read, is answered at once.                                 *)
OnRequest(c, request) ==
  /\ seen' = [seen EXCEPT ![c] = Append(@, request)]
  /\ \/ asked[c][request.line] = "chat" /\ Defer(c, request.line)
     \/ AnswerNow(c, request.line)

(* The process ends, and all connections and tasks with it. *)
Abort(c, p) ==
  /\ link' = [d \in Conn |-> "gone"]
  /\ transit' = [d \in Conn |-> <<>>] /\ buf' = [d \in Conn |-> <<>>]
  /\ context' = [d \in Conn |-> IF d = c THEN [state |-> "aborted", request |-> p.request]
                                        ELSE NewContext]
  /\ pending' = [d \in Conn |-> <<>>] /\ sentChunks' = [w \in Worker |-> 0]
  /\ tasks' = <<>> /\ owed' = 0
  /\ worker' = [w \in Worker |-> "asleep"] /\ running' = [w \in Worker |-> Nothing]
  /\ UNCHANGED <<asked, wire, seen>>

(* A segment of k pieces arrives, and onMessage parses one request at most. *)
OnMessage(c, k) ==
  LET p == Parse(c, buf[c] \o SubSeq(transit[c], 1, k))
  IN  /\ link[c] # "gone" /\ k \in 1..Len(transit[c])
      /\ p.state # "aborted"
      /\ transit' = [transit EXCEPT ![c] = SubSeq(@, k + 1, Len(@))]
      /\ buf' = [buf EXCEPT ![c] = p.rest]
      /\ \/ /\ p.state = "all"
            /\ OnRequest(c, p.request)
            /\ context' = [context EXCEPT ![c] = Reset(p.request)]
         \/ /\ p.state # "all"
            /\ IF p.ok THEN UNCHANGED <<wire, link>>
                       ELSE Write(c, Len(asked[c]), "refused") /\ Shutdown(c)
            /\ context' = [context EXCEPT ![c] = [state |-> p.state, request |-> p.request]]
            /\ UNCHANGED <<tpvars, seen>>
      /\ UNCHANGED <<asked, pending, sentChunks>>

AssertionFails(c, k) ==
  LET p == Parse(c, buf[c] \o SubSeq(transit[c], 1, k))
  IN  /\ link[c] # "gone" /\ k \in 1..Len(transit[c])
      /\ p.state = "aborted"
      /\ Abort(c, p)

-----------------------------------------------------------------------------
(* The task of a chat.  What a worker sends waits in the connection's loop *)
(* (runInLoop), behind what it sent before.  The task ends with [DONE], or *)
(* with the error that chat() threw; both end the chunked body.            *)
Post(w, part) ==
  LET c == running[w][1]
  IN  pending' = [pending EXCEPT ![c] = Append(@, [req |-> running[w][2], part |-> part])]

StreamBegins(w) ==
  /\ worker[w] = "busy" /\ sentChunks[w] = 0
  /\ IF link[running[w][1]] = "open" THEN Post(w, "headers") ELSE UNCHANGED pending
  /\ sentChunks' = [sentChunks EXCEPT ![w] = 1]
  /\ UNCHANGED <<tpvars, asked, transit, buf, context, link, wire, seen>>

(* onChunk.  A chunk that cannot be dumped is caught in the callback, which *)
(* sends an error with the end of the body; chat() does not hear of it.     *)
StreamGoesOn(w) ==
  /\ sentChunks[w] \in 1..MaxChunks
  /\ \/ Post(w, "chunk")
     \/ running[w][1] \in Garbled /\ Post(w, "error")
  /\ sentChunks' = [sentChunks EXCEPT ![w] = @ + 1]
  /\ UNCHANGED <<tpvars, asked, transit, buf, context, link, wire, seen>>

(* Variant of StreamStops: what chat() throws is only logged. *)
StreamStopsSilently(w) ==
  /\ sentChunks[w] > 0
  /\ Post(w, "end") \/ UNCHANGED pending
  /\ sentChunks' = [sentChunks EXCEPT ![w] = 0]
  /\ Finish(w)
  /\ UNCHANGED <<asked, transit, buf, context, link, wire, seen>>

(* A message of the exception that cannot be dumped throws again, out of    *)
(* the task, into the packaged_task: the stream stops without an end.       *)
StreamStops(w) ==
  /\ sentChunks[w] > 0
  /\ \/ \E part \in {"end", "error"} : Post(w, part)
     \/ running[w][1] \in Garbled /\ UNCHANGED pending
  /\ sentChunks' = [sentChunks EXCEPT ![w] = 0]
  /\ Finish(w)
  /\ UNCHANGED <<asked, transit, buf, context, link, wire, seen>>

(* The loop runs its next functor. *)
DoPendingFunctor(c) ==
  /\ pending[c] # <<>>
  /\ Write(c, Head(pending[c]).req, Head(pending[c]).part)
  /\ pending' = [pending EXCEPT ![c] = Tail(@)]
  /\ UNCHANGED <<tpvars, asked, transit, buf, context, link, seen, sentChunks>>

-----------------------------------------------------------------------------
Complete == {"full", "end", "error"}

Answered(c, n) ==
  \E i \in 1..Len(wire[c]) : wire[c][i].req = n /\ wire[c][i].part \in Complete

(* The clients.  A patient one asks again when it has its answer.  A hasty *)
(* one need not wait, but for the end of a stream, and is never malformed. *)
Ask(c, kind) ==
  LET n == Len(asked[c])
  IN  /\ link[c] = "open" /\ n < MaxRequests
      /\ n > 0 => Answered(c, n) \/ (c \in Hasty /\ asked[c][n] # "chat")
      /\ kind = "chat" => \A m \in 1..n : Answered(c, m)
      /\ asked' = [asked EXCEPT ![c] = Append(@, kind)]
      /\ transit' = [transit EXCEPT ![c] = @ \o Pieces(kind, n + 1)]
      /\ UNCHANGED <<tpvars, buf, context, link, pending, wire, seen, sentChunks>>

(* The connection is at an end; its buffer and context go with it. *)
Leave(c) ==
  /\ link[c] # "gone"
  /\ link' = [link EXCEPT ![c] = "gone"]
  /\ transit' = [transit EXCEPT ![c] = <<>>] /\ buf' = [buf EXCEPT ![c] = <<>>]
  /\ context' = [context EXCEPT ![c] = NewContext]
  /\ UNCHANGED <<tpvars, asked, pending, wire, seen, sentChunks>>

Init ==
  /\ TPInit
  /\ asked = [c \in Conn |-> <<>>] /\ transit = [c \in Conn |-> <<>>]
  /\ buf = [c \in Conn |-> <<>>] /\ context = [c \in Conn |-> NewContext]
  /\ link = [c \in Conn |-> "open"] /\ pending = [c \in Conn |-> <<>>]
  /\ wire = [c \in Conn |-> <<>>] /\ seen = [c \in Conn |-> <<>>]
  /\ sentChunks = [w \in Worker |-> 0]

Loop(c) == DoPendingFunctor(c) \/ \E k \in 1..Len(transit[c]) : OnMessage(c, k) \/ AssertionFails(c, k)

Work(w) ==
  \/ StreamBegins(w) \/ StreamGoesOn(w) \/ StreamStops(w)
  \/ (Sleep(w) \/ Take(w)) /\ UNCHANGED hvars

Next ==
  \/ \E c \in Conn : Loop(c) \/ Leave(c) \/ \E kind \in Wants[c] : Ask(c, kind)
  \/ \E w \in Worker : Work(w)
  \/ NotifyOne /\ UNCHANGED hvars

Spec == Init /\ [][Next]_vars

-----------------------------------------------------------------------------
(***************************************************************************)
(* Loop and workers write to one connection, and still the client reads    *)
(* whole answers, one for each request in its order, each stream from its  *)
(* headers to its one end, and nothing after a refusal.  A connection that *)
(* meets texts that are not UTF-8 is left out: its stream may end twice,   *)
(* or never.  The property says that it disturbs no other one.             *)
(***************************************************************************)
AnswersInTurn ==
  \A c \in Conn \ Garbled : \A i \in 1..Len(wire[c]) :
    LET f == wire[c][i]
        g == IF i = 1 THEN [req |-> 0, part |-> "full"] ELSE wire[c][i - 1]
    IN  IF f.part \in {"full", "headers", "refused"}
        THEN g.part \in Complete /\ f.req = g.req + 1
        ELSE g.part \in {"headers", "chunk"} /\ f.req = g.req

(***************************************************************************)
(* However the segments are cut, and whatever is still in the buffer or in *)
(* the context from the request before, a handler is called with the line  *)
(* and the headers of one and the same request, at most once, and with its *)
(* body, if it has one.  If it has none, getBody() may give the body of an *)
(* earlier request of the connection, never a later one's.                 *)
(***************************************************************************)
RequestIsItsOwn ==
  \A c \in Conn : \A i \in 1..Len(seen[c]) :
    LET r == seen[c][i]
    IN  /\ r.header \in {0, r.line}
        /\ IF asked[c][r.line] \in {"form", "chat"} THEN r.body = r.line
                                                  ELSE r.body < r.line
        /\ \A j \in 1..(i - 1) : seen[c][j].line < r.line

(***************************************************************************)
(* No worker sleeps while there are more tasks than workers about to look  *)
(* and notifications about to come.                                        *)
(***************************************************************************)
NoTaskStranded ==
  Len(tasks) > owed + Cardinality({w \in Worker : worker[w] = "look"}) =>
    \A w \in Worker : worker[w] # "asleep"

Quiet(c) ==
  /\ transit[c] = <<>> /\ pending[c] = <<>>
  /\ \A i \in 1..Len(tasks) : tasks[i][1] # c
  /\ \A w \in Worker : worker[w] = "busy" => running[w][1] # c

(***************************************************************************)
(* A client that waits is not forgotten: once nothing of its connection is *)
(* on its way, in the pool or in the loop, its requests are answered to    *)
(* the end, whatever the segments, or the server has ended the connection. *)
(* Left out are a Content-Length below 0, whose body is waited for for     *)
(* ever, and a chat whose failure has a text that is not UTF-8, of which   *)
(* the client is not told.                                                 *)
(***************************************************************************)
AnsweredWhenQuiet ==
  \A c \in Conn \ (Hasty \cup Garbled) : link[c] = "open" /\ Quiet(c) =>
    \A n \in 1..Len(asked[c]) : asked[c][n] # "negative_length" => Answered(c, n)
=============================================================================
