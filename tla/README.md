# AIserver in TLA+

AIserver is a C++ chat server: an HTTP framework on muduo (`HttpServer/`) and an
application on it (`AIApps/ChatServer/`) that sends the questions of its users to
large-language-model backends through a small gateway, streams the answers back, and
writes both to MySQL through a RabbitMQ queue.  This directory holds TLA+ models of its
parts, the TLC configurations that check them, and TLAPS proofs.  Every definition is
translated from the C++ source; `PROJECT.json` says from which lines.  Paths below are
relative to `src/`.

## 1. Inventory

| component | state | operations | interacts with |
|---|---|---|---|
| Circuit breaker (`LLMGateway/CircuitBreaker`) | CLOSED/OPEN/HALF_OPEN, generation, failure count and time, probe counts, mutex | `configure`, `allowRequest`, `reportSuccess`, `reportFailure` | called by the gateway, one for each backend |
| Rate limiter (`LLMGateway/RateLimiter`) | token buckets by backend and by user | `checkBackendAllowed`, `checkUserAllowed` | called by the gateway |
| LLM gateway (`LLMGateway/LLMGateway`) | map of breakers, limiter, configuration | `call` with its fallback chain, `callStreaming`, `tryBackend`, `getCircuitBreaker` | breakers, limiter, curl; called by `AIHelper` |
| Chat sessions (`AIUtil/AIHelper`, `handlers/Chat*`, `ChatServer`) | `chatInformation`, a helper with mutex and `messages` for each session, `sessionsIdsMap` | send, new session, history, list, delete; restoring at start | gateway, persistence, database pool, SSE |
| Message persistence (`AIUtil/MQManager`, `main.cpp`) | publishing channels, consumer threads, durable queue (external) | `publish`, `worker`, `executeMysql` | chat sessions, RabbitMQ, MySQL |
| Database connection pool (`HttpServer/.../DbConnectionPool`) | deque of connections, condition variable, check thread | `getConnection`, `returnConnection`, `checkConnections` | everybody who executes SQL |
| Business thread pool (`ThreadPool`) | task queue, stop flag | `enqueue`, worker loop, destructor | runs the chats |
| HTTP connection (`HttpServer`, `HttpContext`, `HttpRequest`, `HttpResponse`) | parsing state of each connection, request | `onMessage`, `parseRequest`, `reset`, deferred responses, SSE frames | muduo, router, handlers |
| HTTP sessions (`Session*`), login, logout, registration | session map, values, expiry | `getSession`, `destroySession`, `refresh` | every handler |
| Router, middleware, CORS | tables fixed at start | `route`, `processBefore`, `processAfter` | HTTP connection, handlers |
| Handlers (`handlers/*`), static pages, registration | table of users (external), resource files | one `handle` each | sessions, database pool, helpers |
| Model strategies and factory (`AIStrategy`, `AIFactory`) | creators and aliases, loaded at start | `create`, `buildRequest`, `parseStreamChunk` | `AIHelper` |
| Tool calls (`AIConfig`, `AIToolRegistry`) | tools, loaded at start | `parseAndValidateToolCall`, `invoke` | `AIHelper` |
| Gateway configuration, session ids | - | read at start; a number for each new session | gateway, handlers |
| Speech, images | a recognizer for each user | `synthesize`, `PredictFromBuffer` | a speech service, ONNX Runtime |
| TLS | - | wraps OpenSSL; off in the program | HTTP connection |

Hard behaviours, and what each component must keep (the full list, each at its line, is
`hazards` in `PROJECT.json`):

* **Breaker**: results arrive after the breaker has moved on, several threads probe at
  once, nothing but a report ends a half-open round.  It must ignore late results, count
  its probes exactly, never stay half-open with nobody out, and open exactly when
  failures cluster.
* **Limiter**: refill happens only when somebody asks.  It must decide as a
  limiter with a timer would, in every window.
* **Gateway**: a request passes bucket, breaker, HTTP and parsing, can fail at each, and
  goes on to the next backend.  Permits must return to the breaker that gave them, faults
  must stay with their backend, well fallbacks must be reached, requests must end.
* **Chat sessions**: two requests in one session, streams that fail half-way, mutexes of
  two levels.  Answers must stay with their questions, all requests of a session must
  speak to one helper, nobody may wait for ever.
* **Persistence**: at-least-once delivery with dying consumers and a dying process.
  Nothing may be lost, nothing doubled without a fault, and the queue must drain.
* **Database pool**: business threads and check thread change one deque.  Connections
  must be neither lost nor handed out twice, and no waiting thread may be forgotten.
* **HTTP connection and thread pool**: a request comes in any segments, several come in one,
  and what an earlier one left is still in the context; the I/O loop and the workers answer
  on one connection.  A handler must get one request's line, headers and body, answers must
  come whole and in turn, no task may be stranded and no waiting client forgotten.
* **HTTP sessions**: `getSession` loads, checks, refreshes and saves in steps of its own, and a
  login sets three values one by one.  A logout must not be undone by an older request's save,
  and a live session must not be lost to a late one.  Who finds the flag must find a user, unless
  a logout came in the middle of the login.
* **Answering**: a long context is cut, prompts for tools are put into the context and taken out
  again around calls that may throw, a stream arrives in pieces cut anywhere, and what a model
  says of a tool is arbitrary text.  Memory must be what is stored, an answer must be what was
  streamed, a request must keep the ends of the context, a tool may run only as asked.
* **Dispatch**: four kinds of routes overlap, six places set the version, the status, the end and
  the CORS headers of an answer, an exception may leave a handler half-way, and a registration is
  three statements.  The right one must serve, what a handler returns must be an answer that the
  client can read to its end, a name must stand for one account.

## 2. Modules

| module | models | built on |
|---|---|---|
| `CircuitBreaker` | the breaker's methods as operators on a record of its fields | - |
| `BreakerCallers` | any number of threads that share a breaker, each with its permit | `CircuitBreaker` |
| `BreakerContract` | abstract: rounds of probes, without generations or success counts | - |
| `BreakerTrips` | `BreakerCallers` with an observer of failure times | `BreakerCallers` |
| `BreakerProofs` | proofs about `BreakerCallers` and `BreakerTrips` | |
| `TokenBucket` | a bucket in exact fractions of a token | - |
| `RateLimiter` | the limiter's two maps of buckets | `TokenBucket` |
| `LeakyLimiter` | abstract: levels that a timer raises | - |
| `RateLimiterProofs` | proofs about `RateLimiter` | |
| `LLMGateway` | concurrent `call` and `callStreaming` with breakers, buckets and fallback | `CircuitBreaker`, `TokenBucket` |
| `GatewayProofs` | proofs about `LLMGateway` | |
| `Persistence` | publish, consume, acknowledge, consumers and process that end | - |
| `Conversation` | the sessions of a user, composed with `Persistence` | `Persistence` |
| `ConversationProofs` | proofs about `Conversation` with `Persistence`, and about `Answering` with its three | |
| `DbConnectionPool` | the pool with its check thread | - |
| `DbConnectionPoolProofs` | proofs about `DbConnectionPool` | |
| `ThreadPool` | the business pool: queue, workers, notifications under way | - |
| `HttpConnection` | parsing, answering at once or through a worker's stream, clients that leave | `ThreadPool` |
| `HttpConnectionProofs` | proofs about `HttpConnection` with `ThreadPool` | |
| `HttpSessions` | the session storage with overlapping pages, login and logout | - |
| `HttpSessionsProofs` | proofs about `HttpSessions` | |
| `ModelStrategies` | strategies by name and alias, the payloads they build, trimming of the context | - |
| `StreamLines` | the write callback that cuts a stream into data lines, and what a strategy reads of them | `ModelStrategies` |
| `ToolCall` | extraction, normalisation and validation of a tool call | - |
| `Answering` | `chat()` of one helper from question to stored answer | the three above |
| `Router` | registration and look-up of routes, path parameters | - |
| `Handlers` | what each handler, and the CORS middleware, puts into a response | - |
| `Dispatch` | from parsed request to answer on several loops; accounts; speech | `Router`, `Handlers` |
| `DispatchProofs` | proofs about `Dispatch` | |
| `MC*` | instances for TLC | |

**Breaker.**  A `Breaker` is a record of the fields of `CircuitBreaker.h:57-69`; a method
that returns something is an operator returning a record with the new breaker and the
result.  Each method holds the breaker's mutex to its end, so a call of one is one step.
`BreakerCallers` keeps the permit of every outstanding call; its `Request`, `Succeed` and
`Fail` are what the gateway does with it.  `now` is `nowMs()`.  The doubles of the
configuration that `configure()` corrects are constants, so the corrections are part of
the model.

**Limiter.**  Tokens are integers in `Unit`ths, rates are units per millisecond, so that
the code's `double` arithmetic is exact; rounding of doubles is left out.  A user's bucket
is made when the user first calls, the backends' at the start.  `setRate` is left out:
`configureBackend` is called once for each backend.

**Gateway.**  A request is a record: its stage (`pc`), its place in its route of backends
(`at`), its permit, its outcome.  `Begin`, `TakeBackendToken`, `AskPermit`, `Answered`,
`Rejected` and `Unavailable` are the sections of `tryBackend`, `call` and `callStreaming`
between which other threads run; the four ways a backend can fail (limited, refused,
rejected, unavailable) differ in what they report and whether the chain goes on.

**Conversation.**  A helper is a record of its mutex's owner and its messages.  `Enter` is
find-or-create under the map's mutex, `TakeHelper` the lock at the head of `chat()`, and
the rest of `chat()` is split where it calls the gateway or publishes: `Route`,
`AddQuestion`, `StreamEnds`, `StreamFails`, `AddAnswer`, `PublishFails`.
`HistoryEnter`/`HistoryRead` hold the map's mutex while they wait for the helper's, as the
code does.  The three deletions of `/chat/delete-session` are `DeleteRows`, `DropHelper`,
`Unlist`.  `Crash` and `Restart` are the process; `Restart` rebuilds the sessions from
the rows in an order that `ORDER BY ts ASC, id ASC` may give.  `id` is the user's, so rows
with one `ts` may come in any order; the model's clock moves only when a stream ends,
where time is sure to pass, so that every tie the program can meet is met.

**Persistence.**  Statements are numbered as they are published.  The queue is a set of
numbers whose least is its head, because what is not acknowledged goes back to its old
place.  `Fetch`, `Execute`, `Acknowledge` are a consumer's loop; `Exit` is an exception that
leaves it (the code's `catch` is outside the loop, so the thread ends).  RabbitMQ and MySQL
are external and survive.

**Database pool.**  Every section under the pool's mutex is one action; pinging,
reconnecting and replacing happen without it, on a connection nobody else has, and are one
action by outcome.  The condition variable is explicit: a waiting thread runs when it is in
`notified` or when its timeout comes.  The unit of time is the check thread's 60 seconds.

**Thread pool.**  `Enqueue` is the section under the mutex, `NotifyOne` the `notify_one()` after it
(`owed` counts the threads between the two), `Sleep` and `Take` what a worker does when it has
the mutex.  The destructor is left out: the pool lives as long as the process, and so does
the `stop_` that `enqueue` tests.

**HTTP connection.**  A request is a sequence of pieces, each with the number of its request; a
segment brings any positive number of them.  `OnMessage` is the whole of `onMessage`: it parses
one request at most (`Parse` is `parseRequest` with its states, `ok` and `hasMore`), calls the
handler, sends what the handler answered, and resets the context; what it did not parse stays in
the buffer until the next segment, as in the code.  A chat is deferred: `Defer` enqueues its
task, and `StreamBegins`, `StreamGoesOn`, `StreamStops` are the worker's frames, which wait in
`pending` until the connection's loop runs them (`DoPendingFunctor`).  muduo is external.
The texts of a chat go out as JSON, and `dump()` throws at one that is not UTF-8, which a backend's
error text is when it is cut within a character (`LLMGateway.cpp:42`).  `Garbled` names the
connections whose chats meet such texts: there the chunk callback may send an error with the end of
the body and let the stream go on, and the catch clause may throw before it sends anything.  For the
other connections both are left out.  `Asserts` says whether the build keeps `assert()`; a
`Content-Length` below 0 is read as the huge number that it becomes.
A *patient* client asks again when it has its answer and may be malformed.  A *hasty* one need
not wait, except for a stream: the code has nothing that orders an answer from the loop behind
a stream that a worker still writes, and the ordering of the answers to such a client is not
claimed.  Routing and middleware are taken as part of the handler.

**HTTP sessions.**  `Load`, `Create`/`Keep`, `Refresh` and `Save` are `getSession`, between whose calls other
threads run; `SetValue` is one `setValue` of the login with its save; `Clear` and `Destroy` are
the logout.  A browser has any number of pages, logins and logouts under way, from its tabs.
`loggedOut` and `torn` observe which sessions a logout has emptied, and which of them in the middle of
a login.  Ids are taken as new each time (128 random bits).  The map inside a session is read and written
without a lock; what such a race would do to the memory is left out, its order is not.

**Answering.**  One helper, one question after another, as its mutex has it.  A message is who
said it and for which question; roles are given by position when a payload is built, as in
`buildRequest`.  `AskDirectly` and `AskWithTools` add or put aside the question,
`ExecuteToolRoutePrompt` puts the prompt of a routing call behind the context, `Repair`,
`RouteReturns`, `RouteFails` and `ToolFails` are the routing, `Receive`, `KeepAnswer` and `StreamThrows` the
stream; `sent` is the latest request to a model.  `addMessage` puts a message into the context and
then publishes it, which may throw (`AddFails`, and `lost` remembers the message).  `ctx` is the `StreamContext` together with the
`fullResult` that its callback writes to: the numbers of the lines whose text the client got.
`StreamLines` has a line as two symbols and a newline, which is enough to cut it in its middle,
before its newline and behind it; a `Wire` may end without a newline.  `Scan` is one symbol of the
callback's loop, `ScanAll` the loop over the buffer with the new piece behind it.  `ToolCall` has a JSON
value as its type and value and a reply as a sequence of texts and objects, so that the finding of
an object in the text is a selection.  Both readings of a call (`tool_calls`, `function_call`), the
names its fields may have, arguments in a string, and the checks against `config.json` are there.
Conversation takes all of this as the environment's choice and has what this leaves out: locks,
other requests, the queue behind a publishing, history.

**Dispatch.**  `Router` has a path as its segments; `Register` is any of the four ways to add a
route, and `Route` the look-up.  `Handlers` has one operator for each handler with the set of its
outcomes: an exception that leaves it, or an answer with its version, status, length, wish to close,
CORS origin, deferred or not.  Recognizing an image, deleting and reading a history may fail.  A
body may be "ill-formed", that is not UTF-8: the parser quotes it in its error, and dumping that
throws in the catch clause.  For a deferred answer goes out what `sendSSEHeaders` makes.  `Dispatch` is `onRequest` with
`handleRequest`: `OnRequest`, `Preflight` or `RouteRequest`, then `HandleRequest`, or for the
handlers that use several statements one action for each (`IsUserExist`, `InsertUser`, `SelectId`,
`QueryUserId`, each of which may `Fail`), or `CreateTask` and `Poll`, which keep the loop.  The
session a request has is part of the request: `HttpSessions` says what it may be, and "half" is
the session that a logout empties between a handler's reading of the flag and of the id.  The table
`users` is external; its definition is not in the repository, and whether it has a unique index on
the name is the constant `UniqueNames`.  Without one an `InsertUser` can repeat a name; `raced`
observes the names that one registration found free while another was about to insert them.

## 3. Runs

| run | what it shows | bounds |
|---|---|---|
| `breaker` | accounting of probes, no wedged round, late results without effect, opening exactly on clusters, contract | 3 callers; 3 failures trip; 2 probes; threshold above the limit, so that `configure` must correct it; clock to 9, 8 generations: several full cycles, windows that expire |
| `rate_limiter` | window bound; equivalence with the timer-driven limiter | a backend and a user, fractional rates, clock long enough to fill and empty both |
| `gateway` | permits, separate faults, reachable fallbacks, contract at every backend, requests end | 2 threads, 2 backends that fall back to each other, one limited, one not in `backends`; one failure trips, so every breaker goes through all states while the other thread is anywhere |
| `conversation` | answers beside questions, one helper, nothing lost, nothing doubled when calm | 2 threads, 2 requests of any kind, 2 consumers (as `THREAD_NUM`), 2 sessions of which one's statements MySQL rejects, 1 fault anywhere |
| `conversation_live` | requests end, the queue drains while a consumer lives | the same in one session |
| `db_pool` | one place for each connection, no lost wake-up, rounds end | 4 threads, 3 connections, 1 may be lost; 2 rounds of 2 checks |
| `http` | answers whole and in turn, a handler's request is one request, no stranded task, no forgotten client | a patient client (chats, empty posts, three kinds of malformed requests) and a hasty one whose chats meet texts that are not UTF-8 (chats, forms), 2 requests each cut anywhere, streams of 1 chunk, 1 worker; either may leave at any moment |
| `sessions` | logout is final, a live session is kept, the flag means a user unless a logout cut through the login | 3 requests of one browser at once, 2 sessions, a clock that runs past the end of a session twice |
| `answering` | memory is what is stored but for what could not be published, the answer is the stream, requests are faithful, tools only as the reply names them and with its arguments | 4 questions with 4 model names (trimmed to one round, not trimmed, without tools, unknown), 3 tools' configurations, the replies and streams of `MCAnswering`, cut anywhere |
| `dispatch` | the right one serves, the client can read, one account for a name | 15 routes of the program and 5 more in any order, 16 requests of which any 3 are sent on 2 loops, 1 failing statement, 1 poll, no unique index on the name |
| `delete_session`, `context_window` | a statement of the README and one of a comment that the code does not keep | the least that shows it |

Two threads suffice for the races of the gateway and of the conversation because every shared
object is under one mutex and a property speaks of one request against the rest; three
callers are taken where a round of two probes and a late caller meet, four threads where
a sleeping, a notified and a barging thread meet the check thread.  The healthCheckInterval of
`db_pool` is twice the idleThreshold: with the code's equal values of 60 seconds and a
period of 60 the scan never finds a cold connection that is not due, and the larger value
exercises that branch too.

One worker serves both clients of `http`, so that a task waits in the queue while the worker is
busy and the client leaves; two requests on a connection are the least that leaves something of
one to the next.  `sessions` is reduced by the symmetry of its threads, which no definition tells
apart; it checks invariants only.  Three threads are a login or logout and two pages around it.
That a client is answered at all is stated without fairness: `AnsweredWhenQuiet` says that
nothing is left to do for a client that is still owed an answer only when its connection has
ended, `NoTaskStranded` that no worker sleeps over its task.

Four questions are the least that makes a context of one round be cut twice, once behind a failed
stream and once behind a good one.  The five routes of `dispatch` overlap with each other and with
the program's, so that each rule of precedence decides for some request; the order in which they
are registered is open.  Two registrations of one name with two passwords and a login are what the
accounts need, and three requests let all of them overlap on two loops, which are symmetric.

Deadlock is checked where the system cannot stop (`rate_limiter`, `gateway`, the pool); it is off
in `breaker`, whose clock and generations are bounded, and in the runs of `Conversation`, where
requests and faults are bounded and consumers may all be gone, and in `http`, `sessions`,
`answering` and `dispatch`, whose clients stop asking at the bound.

Every property of a passing run has a mutant in `PROJECT.json`: a variant of an operator (its
comment starts with "Variant of") that makes a plausible mistake and breaks the property.

**Fairness.**  Weak fairness of a thread that has begun something: pool threads run their
tasks, and curl's total timeout ends every HTTP request, so a call of the gateway returns.
Consumers go on while they live; nobody restarts one, so nothing is assumed there.  Nothing is
assumed of new requests, of the clock, of crashes or of restarts.  A thread that waits for a
mutex has weak fairness only: the instances have finitely many requests, so every
mutex is free for good in the end; with endless traffic the C++ mutexes promise no more.
The check thread of the pool runs; a waiting thread's timeout comes.

### What the violations say

* `delete_session`: messages of the session that are still in the queue are written after its
  rows are deleted.
* `context_window`: a trimmed request has its kept messages in each other's roles.  The last
  `2 * maxContext` messages begin with an answer, because the question makes their number odd,
  and `buildRequest` gives roles by position (`AIHelper.cpp:288`).

More was met in reading and modelling and has no run of its own; the models follow the code.

* Comments that say other than the code: `CircuitBreaker.h:23` (closing at `successThreshold`;
  `CircuitBreaker.cpp:79` waits for every admitted probe too), `RateLimiter.h:14` (the burst as a
  bound on concurrent requests; a bucket bounds only how often they start),
  `DbConnectionPool.h:81` (the deque goes from cold to hot; a checked connection goes back to an
  old index at `DbConnectionPool.cpp:230`), `Router.cpp:66` (the path parameters are added to
  the request; the callback is called with the other request, that has none, `Router.cpp:70`).
* A chunk that cannot be dumped makes the stream's callback send an error with the end of the body
  (`ChatSendHandler.cpp:83`); `chat()` goes on, and more frames and a second end follow.
* The catch clause of a chat's task dumps the text of the exception; when that throws, the task ends
  and the stream has no end (`ChatSendHandler.cpp:100`).
* `HttpRequest::swap` leaves `content_` out, so that a later request without a body on the same
  connection is handled with an earlier one's (`HttpRequest.cpp:134`).
* A `Content-Length` below 0 is waited for for ever (`HttpContext.cpp:60`).
* After a request line with a method and no version, what comes next meets
  `assert(method_ == kInvalid)` where the build has it (`HttpRequest.cpp:13`).
* A logout between the three values of a login leaves the flag without a user
  (`ChatLoginHandler.cpp:34`); every later request of the browser that needs the id is answered 400.
* A 404 and a preflight have no HTTP version in their status line (`HttpServer.cpp:190`,
  `CorsMiddleware.cpp:21`).  So has a 500.
* A registration whose body is not UTF-8 is answered 500 instead of 400, without a length on a
  connection that is kept (`ChatRegisterHandler.cpp:50`); the other handlers that parse a body do
  the same.
* An event stream has headers of its own and none of CORS (`HttpResponse.cpp:97`).
* Without a unique index two registrations at once make two accounts of one name
  (`ChatRegisterHandler.cpp:63`).
* A question whose stream fails stays in `messages` and in the table, and every later message has
  the other role by position, in the history and in the next prompt (`AIHelper.cpp:131`).
* A statement that MySQL rejects ends one consumer after the other; what is behind it waits for
  the next start, and then the same happens (`MQManager.cpp:57`).
* A message whose publishing throws stays in the helper's memory until the next start
  (`AIHelper.cpp:30`).
* The RAG strategy's payload has no `messages`: when its context is cut, the notice is inserted
  into a null value, which throws, and the session can no longer use that model
  (`AIHelper.cpp:299`).
* Handlers that succeed override the client's `Connection: close`.
* A registration whose row is inserted and whose id is then not read is answered 400; the name is
  taken from then on.
* With several allowed origins the CORS middleware would name the first of them in every answer,
  so that pages of the others could not read theirs; the program allows every origin.
* Speech without a URL is answered as a success, after up to a minute on the I/O loop.

## 4. Proofs

All theorems hold for every value of the constants that satisfies the modules' assumptions.

**`BreakerProofs`.**  The inductive invariant `IInv` is `TypeOK`, `ProbeAccounting`,
`OpenIsSettled` and two facts without which they are not inductive: outside a round both
probe counters are 0 (`CountersAtRest`, or the next round would start with old ones), and a
round in progress is within its limit and not yet won (`RoundUndecided`, or a saturated round
could have no probe out).  One lemma for each method says what it returns; each action then
preserves each conjunct.  From it follow `TypeCorrect`, `AccountingHolds`, `OpenSettled`, `NoWedge`,
and `ImplementsContract`: every step of the callers is a step of `BreakerContract` or a
stutter, with `Probing` as the set of holders of the present generation.
`OpensOnClusters` is about `BreakerTrips`.  Its invariant (`Tracks`) relates the code's counter
and the time of the last failure to an observer that has all of them: while the breaker is
closed, the counter is the length of the run at the end of the record in which each failure
comes within the window after the one before.  A success clears the counter only when the window
has passed, which is when the next failure starts a new run anyway; that is why the breaker and
the record agree although the code forgets and the observer does not.

**`RateLimiterProofs`.**  The lemma behind all is `RefillTokens`: a refill at a later time holds
what a timer would have added, however often somebody asked in between.  From it
`ImplementsLeaky` maps the buckets to the levels of `LeakyLimiter`, and `WindowBounded` shows
the window bound with an invariant that relates the present level to every past window.

**`GatewayProofs`.**  All five safety properties of `LLMGateway`, for every number of threads and
backends, every route and every setting.  The invariant says of each breaker what `BreakerProofs` says of one (counters at rest outside a round, a round within
its limit and undecided, nobody out in the generation of an open breaker), with the permits counted
over the requests that are at that backend now; and of each request that every backend before its
place in the route was unwell when it was passed.  A step of the gateway moves one breaker at
most (`Moved`), and one request, so that each action is one lemma about that breaker and a
frame for the others.  `ContractKept` then maps every breaker to `BreakerContract` as in
`BreakerProofs`, but under the calls that `tryBackend` really makes.  `FaultsApart` and
`FallbackServes` follow from the same invariant.

**`DbConnectionPoolProofs`.**  `TypeCorrect`, `OnePlace` and `WakeupsKept`, for every number of
threads and connections, every threshold and every bound.  The argument is the inductive
invariant `IInv == TypeOK /\ OnePlaceEach /\ NoLostWakeup /\ CheckerInv`.  `OnePlaceEach` is
used as a partition of `Conn` into four sets (`Places`), so that an action is a move of one
element between two of them: `TakenOut` and `PutIn` say what a removal and an insertion do to
the connections of a sequence, `Gives` and `Takes` what they do to the threads'.  That no
connection is twice in the deque also bounds its length (`Pigeon`), without which the check
thread's index has no bound and `TypeOK` is not inductive; `CheckerInv` is the other
strengthening: while the check thread pings, its index is one it has compared with the length
of the deque.  `WakeupsKept` counts: a connection that comes back adds one notified thread
(`Notifies`), a thread that leaves takes at most its own notification and takes a connection
with it (`LeavesWith`), and nobody is owed anything while the deque is empty (`NothingOwed`).
`PoolAssumption` is all that is assumed of the constants.

**`ConversationProofs`.**  All four safety properties of `Conversation`, for every number of
threads, sessions, consumers, requests and faults.  The invariant has two halves that share only
the set of erased sessions.  `StoreInv` is about the queue: a consumer whose handler has returned
has its row in the table (`HandledIsStored`), without which an acknowledgement could lose a
statement, and without a fault a statement is in one place (`OnePlaceWhenCalm`), without which
one could be written, and fetched again.  `HelperInv` is about the helpers: whoever is past the
head of `chat()` owns the mutex of an object that exists (`MutexHeld`), so that its question is
still the last message when the answer comes (`QuestionIsLast`); and whoever takes a helper out of
the map has erased the rows before (`ErasedFirst`).  Every action is an instance of one of three
lemmas: a request moves on (`MoveKeeps`), finds or makes a helper (`FindKeeps`), or changes the
helper it owns (`SpeakKeeps`).  The owner of a free mutex is taken to be no thread.

Its last part is about `Answering`: all four properties, for any number of questions, every
configuration of models and tools, every reply and every stream.  Of the constants it is assumed
that the models and the tools are sequences, that `max_context` is an integer, that the default
model is configured (without it the constructor throws), and what a stream is
(`AnsweringAssumption`).  The inductive invariant is `ChatInv`.

* `MemoryKept`: the context is what was published and what could not be, and behind it one prompt
  while a routing call or the stream after it is under way (`Remembered`).  Both grow in turn, and
  what could not be published is the last of its turn, because the exception ends `chat()` (`Kept`;
  `AddsOne` and `AddsTwo` are the two ways to add).  Every way out of the two calls, a payload
  that cannot be built included, takes the prompt out again before anything is published
  (`AIHelper.cpp:48-67`, `204-215`).
* `StreamsAreAnswers`: after `p` symbols the buffer has exactly the symbols of the unfinished
  line, and the client the texts of the finished ones (`Reading`).  `ScanReads` is one symbol of
  the loop; `PieceReads` carries it over a whole piece by an induction over its symbols, after
  `ScanUnfolds` has shown that the recursive function of `ScanAll` satisfies its equation.  The
  callback reads the old buffer again with each piece; those symbols leave it as they found it.
* `RequestsAreFaithful`: a request is always the one that `buildRequestWithContext` makes of the
  context (`Requested`), whether it is trimmed (`TrimmedRequest`, on lemmas of how parts of a
  sequence are cut out, joined and put in) or not (`WholeRequest`).
* `ToolsAreAskedFor`: what a reply must say for `parseAndValidateToolCall` to accept it
  (`CallIsLegal`): it names the tool (`ToolIsNamed`), gives the arguments (`ArgsAreGiven`), and they
  are those that the configuration asks for, each of its type.  That is kept with the number of the
  reply until the next question (`RanAsAsked`).

**`HttpConnectionProofs`.**  All four properties of `HttpConnection` with `ThreadPool`, for every
number of workers, clients, requests and chunks and every cut.  The invariant has a part for the
input, one for the output and one for the pool.  *Input*: the buffer followed by what is in transit
is a run of pieces in which each is followed by the next of its request or by the first of the
next one, up to the last that was asked; and the parser stands before the piece it waits for, or
the connection has been refused and is cut off.  `Parse` walks through the buffer piece by piece,
so `RequestsAreTheirOwn` needs an induction over the piece's number.  *Output*: frames lie in the
wire and in `pending` in turn, and a connection rests with all its requests answered, owes the
answer to a chat whose task waits or has just been taken, or is in a stream that one worker
writes (`Rests`, `Owes`, `Streams`).  *Pool*: for a
connection there is no task, one that waits, or one in work (`NoTask`, `Waits`, `Serves`), and
wake-ups are counted: there is one under way, or a worker about to look, for each task that could
find every worker asleep.  `QuietMeansAnswered` is what these say together once nothing moves.
The part for the output is claimed of the connections outside `Garbled` only, beside any number of
others inside: there the code writes a second ending, or none.  `RequestsAreTheirOwn` says of a
request without a body that its handler may see an earlier one's, never a later one's.
`QuietMeansAnswered` leaves out a request whose length is below 0, which the code waits for for
ever, and the clients in `Garbled`.

**`HttpSessionsProofs`.**  All three properties, for any number of threads, browsers, users and
sessions, with any number of logins and logouts of a browser at once.  The session map is shared by
pages, login and logout without a common lock, so the invariant says how far each one may be.

* `LogoutIsFinal`: `IInv` is the types, that a request behind `getSession` has a session
  (`Served`), and that a session which a logout has emptied since the last login's value has no flag
  (`OutInv`); a page's late save puts the object back, not the values.
* `LiveSessionsKept`: a session with a flag that has not expired is lost by no step but a logout's
  destroying.  What is lost now was lost before (`LostBefore`), because who takes an expired session
  out leaves the ones that have not, and who has loaded one saves it before it ends.
* `FlagIsSafe`: `FInv` says that a login has a user, that one which has set its first value
  finds a user's id in the session or the session is torn (`MidLogin`), and so does whoever finds the
  flag (`FlagInv`).  Torn is a session that a logout cleared while a login was between its values,
  until the next login's first value; that this may happen is no flaw of the proof but what the
  code does.

**`DispatchProofs`.**  All three properties of `Dispatch`, for every set of routes, requests and
loops.

* `AccountsHold`: a registration is three statements with others in between; the invariant says
  that rows never leave, that a registration which reads its id back has inserted its row, and that
  whatever a client was told stands in a row.  Names are distinct in the table if it has a unique
  index, and without one those that nobody raced for (`Safe`), because a registration about to
  insert such a name is alone with it and finds it free still (`FoundFree`).  The theorem covers
  both tables; the run has the one without an index.
* `TheRightOneServes`: the invariant relates the four tables of the router to the sequence of all
  routes that were registered (`Tables`).  A static table has for each key the target of the
  latest route (`HasLatest`); a dynamic one has all its routes in their order (`HasAll`, by a
  monotone function from places in the table to places in the sequence).  `RegisterKeeps` is the
  step of one registration.  `StaticFinds` and `DynamicFinds` say what a look-up in such a table
  returns, `ParamsFill` what the parameters are, and `RouteIsRight` puts the four look-ups
  together.  `RouteInv` adds that no route is registered while a request is on its way, and that
  only `handleRequest` meets a request that nobody serves.
* `ClientsCanRead`: a response on its way has had nothing put into it, and every way to end one
  either sets a length with the body or the wish to close, or defers it.  It promises the version of
  what a handler returns only, the CORS origin of what is not a stream, and of a 500 just what led to
  it.  Its hypothesis `OriginsFit` says that
  every origin is allowed, as in the program, or just one; with several the property fails, since
  the middleware names the first of them (`CorsMiddleware.cpp:27`).

**Induction.**  The prover cannot use the library's induction theorems, whose parameter is an
operator.  Where an induction over numbers is needed, it is done with a set: a set of numbers
that is not empty has a least element (`LeastNat`, from the well-foundedness of `<`), so that a
set of numbers up to `n` that has 0, and each number after its predecessor, has all of them
(`UpTo`, `AllUpTo`).  With that a recursive function is shown to satisfy its equation (`TablesUnfold`,
`GroupsUnfold`, `ScanUnfolds`) and properties are carried along it.

**Only model-checked**: liveness under fairness (`RequestsEnd` and its like in `gateway`,
`conversation_live`, `db_pool`), which is out of the prover's reach, and the two statements that
the code does not keep.

## 5. Not modelled, and the plan

Left out for good: TLS (off in the program, and a wrapper of OpenSSL), recognition of images,
base64, the reading of configuration files, formatting, logging, curl, MySQL and RabbitMQ
themselves.  Of dynamic routes, regular expressions other than `:name` and empty segments; of
tools, what they do when they are invoked.

In the order of the plan:

1. done: `CircuitBreaker`, `BreakerCallers`, contract, proofs
2. done: `TokenBucket`, `RateLimiter`, abstract limiter, proofs
3. done: `LLMGateway`, proofs
4. done: `Persistence` with `Conversation`, proofs; next the two mutexes of `sessionsIdsMap`
5. done: `DbConnectionPool`, proofs
6. done: `ThreadPool`, but for the draining destructor; proofs with `HttpConnection`
7. done: `HttpConnection`, proofs; next an abstract specification, one response for each request
   in order
8. done: `HttpSessions`, proofs
9. done: `ModelStrategies`, `StreamLines`, `ToolCall` and `Answering`, proofs
10. done: `Router`, `Handlers`, `Dispatch` with registration, proofs
