------------------------------ MODULE LLMGateway ------------------------------
(***************************************************************************)
(* The LLM gateway with governance on: business threads carry requests     *)
(* through the user's bucket, each backend's bucket, each backend's        *)
(* circuit breaker and the HTTP call.  call() goes down the primary and    *)
(* its fallbacks, callStreaming() has the primary only.  The breakers and  *)
(* the buckets are locked one at a time and never across a step.           *)
(***************************************************************************)
EXTENDS CircuitBreaker, TokenBucket, FiniteSets, SequencesExt

CONSTANTS Caller,                      \* threads of the business pool
          User,                        \* user ids, all > 0
          Backend,                     \* every model id a caller may name
          Configured,                  \* those in the "backends" section
          Limited,                     \* those in "rate_limit.per_backend"
          Route,                       \* "routing": the fallback ids
          BackendRps, BackendBurst, UserRps, UserBurst,
          MaxNow                       \* bound: the clock stops here

ASSUME GatewayAssumption ==
  /\ IsFiniteSet(Caller)
  /\ Configured \subseteq Backend /\ Limited \subseteq Backend
  /\ Backend \cap User = {}
  /\ Route \in [Backend -> Seq(Backend)]
  /\ BackendRps \in Nat /\ BackendBurst \in Nat
  /\ UserRps \in Nat \ {0} /\ UserBurst \in Nat
  /\ MaxNow \in Nat

VARIABLES cbs,        \* circuitBreakers_; Unconfigured where there is none
          buckets,    \* rateLimiter_; no tokens at time 0 where there is none
          now,        \* steady_clock in milliseconds
          call,       \* the request each thread is in
          failed,     \* observer: backends that have failed a call
          throttled   \* observer: backends whose bucket has refused a call

vars == <<cbs, buckets, now, call, failed, throttled>>

Key == Limited \cup User
NoBucket == [tokens |-> 0, lastRefillMs |-> 0]

(* pc: where the thread is; at: the place in the route of the backend that *)
(* is tried, 0 for the primary; outcome: how the last request ended,       *)
(* "exhausted" being the exception of call() when no backend is left.      *)
Step    == {"idle", "limit", "admit", "http"}
Outcome == {"none", "ok", "error", "exhausted"}

NoModel == "none"

Idle(outcome) ==
  [pc |-> "idle", model |-> NoModel, streaming |-> FALSE, at |-> 0,
   permit |-> NoPermit, outcome |-> outcome]

-----------------------------------------------------------------------------
(* init(): buckets and breakers of the configured backends.  The breakers  *)
(* are configured twice, once when made and once by init().                *)
Init ==
  /\ now = 1
  /\ cbs = [b \in Backend |-> IF b \in Configured
                                THEN Configure(Configure(Unconfigured))
                                ELSE Unconfigured]
  /\ buckets = [k \in Key |-> IF k \in Limited THEN NewBucket(BackendBurst, 1)
                                               ELSE NoBucket]
  /\ call = [c \in Caller |-> Idle("none")]
  /\ failed = {} /\ throttled = {}

(* getCircuitBreaker: made and configured on first use. *)
BreakerOf(b) ==
  IF cbs[b] = Unconfigured THEN Configure(Unconfigured) ELSE cbs[b]

(* The backend that request r tries. *)
Target(r) == IF r.at = 0 THEN r.model ELSE Route[r.model][r.at]

(* The places of the fallbacks that are left to it: the loop of call()     *)
(* passes over those that are not configured.                              *)
Ahead(r) ==
  {i \in DOMAIN Route[r.model] : i > r.at /\ Route[r.model][i] \in Configured}

UserCheck(u) ==
  TryConsume(IF buckets[u] = NoBucket THEN NewBucket(UserBurst, now)
                                      ELSE buckets[u],
             UserRps, UserBurst, now)

(* call() or callStreaming() begins: one token of the user's bucket. *)
Begin(c, u, m, streaming) ==
  /\ call[c].pc = "idle"
  /\ LET r == UserCheck(u)
     IN  /\ buckets' = [buckets EXCEPT ![u] = r.bucket]
         /\ call' = [call EXCEPT ![c] =
              IF r.allowed
                THEN [pc |-> "limit", model |-> m, streaming |-> streaming,
                      at |-> 0, permit |-> NoPermit, outcome |-> "none"]
                ELSE Idle("error")]
  /\ UNCHANGED <<cbs, now, failed, throttled>>

(* Variants of GiveUp: the old permit is kept; the last fallback is not    *)
(* tried; the last backend is tried for ever.                              *)
GiveUpKeepingPermit(r) ==
  IF r.streaming \/ Ahead(r) = {} THEN Idle("error")
  ELSE [r EXCEPT !.pc = "limit", !.at = Min(Ahead(r))]

GiveUpBeforeLast(r) ==
  CASE r.streaming -> Idle("error")
    [] ~r.streaming /\ Cardinality(Ahead(r)) <= 1 -> Idle("exhausted")
    [] OTHER -> [r EXCEPT !.pc = "limit", !.at = Min(Ahead(r)),
                          !.permit = NoPermit]

GiveUpNever(r) ==
  [r EXCEPT !.pc = "limit", !.at = IF Ahead(r) = {} THEN @ ELSE Min(Ahead(r)),
            !.permit = NoPermit]

(* The backend being tried is given up.  callStreaming() throws; call()    *)
(* goes on with the next one, or throws when there is none left.           *)
GiveUp(r) ==
  CASE r.streaming -> Idle("error")
    [] ~r.streaming /\ Ahead(r) = {} -> Idle("exhausted")
    [] OTHER -> [r EXCEPT !.pc = "limit", !.at = Min(Ahead(r)),
                          !.permit = NoPermit]

(* checkBackendAllowed(): a backend without a bucket is always allowed. *)
TakeBackendToken(c) ==
  LET b == Target(call[c])
      r == TryConsume(buckets[b], BackendRps, BackendBurst, now)
  IN  /\ call[c].pc = "limit"
      /\ IF b \in Limited
           THEN /\ buckets' = [buckets EXCEPT ![b] = r.bucket]
                /\ call' = [call EXCEPT ![c] =
                     IF r.allowed THEN [@ EXCEPT !.pc = "admit"]
                                  ELSE GiveUp(@)]
                /\ throttled' = IF r.allowed THEN throttled
                                             ELSE throttled \cup {b}
           ELSE /\ call' = [call EXCEPT ![c].pc = "admit"]
                /\ UNCHANGED <<buckets, throttled>>
      /\ UNCHANGED <<cbs, now, failed>>

(* allowRequest(): the backend's token is spent even when it refuses. *)
AskPermit(c) ==
  LET b == Target(call[c])
      r == AllowRequest(BreakerOf(b), now)
  IN  /\ call[c].pc = "admit"
      /\ cbs' = [cbs EXCEPT ![b] = r.cb]
      /\ call' = [call EXCEPT ![c] =
           IF r.permit = NoPermit THEN GiveUp(@)
           ELSE [@ EXCEPT !.pc = "http", !.permit = r.permit]]
      /\ UNCHANGED <<buckets, now, failed, throttled>>

(* The breaker a thread reports to: the one that gave it the permit. *)
ReportsTo(c) == Target(call[c])

Success(c) ==
  cbs' = [cbs EXCEPT ![ReportsTo(c)] = ReportSuccess(@, call[c].permit, now)]

Failure(c) ==
  cbs' = [cbs EXCEPT ![ReportsTo(c)] = ReportFailure(@, call[c].permit, now)]

(* The HTTP request ends: a usable answer, *)
Answered(c) ==
  /\ call[c].pc = "http"
  /\ Success(c)
  /\ call' = [call EXCEPT ![c] = Idle("ok")]
  /\ UNCHANGED <<buckets, now, failed, throttled>>

(* Variants of Rejected: no report, as the error does not count; a report   *)
(* of failure, as for any other HTTP error.                                *)
RejectedUnreported(c) ==
  /\ call[c].pc = "http"
  /\ call' = [call EXCEPT ![c] = Idle("error")]
  /\ UNCHANGED <<cbs, buckets, now, failed, throttled>>

RejectedAsFailure(c) ==
  /\ call[c].pc = "http"
  /\ Failure(c)
  /\ call' = [call EXCEPT ![c] = Idle("error")]
  /\ UNCHANGED <<buckets, now, failed, throttled>>

(* a 400/404/422 or 401/403, which proves the backend reachable and which  *)
(* no other backend would answer better,                                   *)
Rejected(c) ==
  /\ call[c].pc = "http"
  /\ Success(c)
  /\ call' = [call EXCEPT ![c] = Idle("error")]
  /\ UNCHANGED <<buckets, now, failed, throttled>>

(* or 429/408/5xx, a transport error, a timeout, a body that is not JSON.  *)
Unavailable(c) ==
  /\ call[c].pc = "http"
  /\ Failure(c)
  /\ call' = [call EXCEPT ![c] = GiveUp(@)]
  /\ failed' = failed \cup {Target(call[c])}
  /\ UNCHANGED <<buckets, now, throttled>>

Tick ==
  /\ now < MaxNow
  /\ now' = now + 1
  /\ UNCHANGED <<cbs, buckets, call, failed, throttled>>

Proceed(c) ==
  \/ TakeBackendToken(c) \/ AskPermit(c)
  \/ Answered(c) \/ Rejected(c) \/ Unavailable(c)

Next ==
  \/ \E c \in Caller, u \in User, m \in Backend, s \in BOOLEAN : Begin(c, u, m, s)
  \/ \E c \in Caller : Proceed(c)
  \/ Tick

Spec == Init /\ [][Next]_vars

(* A pool thread runs what it has started, and curl's total timeout ends   *)
(* every HTTP request.                                                     *)
FairSpec == Spec /\ \A c \in Caller : WF_vars(Proceed(c))

-----------------------------------------------------------------------------
Request == [pc : Step, model : Backend \cup {NoModel}, streaming : BOOLEAN,
            at : Nat, permit : Nat, outcome : Outcome]

TypeOK ==
  /\ cbs \in [Backend -> Breaker]
  /\ buckets \in [Key -> Bucket]
  /\ now \in Nat \ {0}
  /\ call \in [Caller -> Request]
  /\ \A c \in Caller :
       /\ call[c].pc # "idle" => /\ call[c].model \in Backend
                                 /\ call[c].at \in 0..Len(Route[call[c].model])
       /\ call[c].pc = "http" <=> call[c].permit # NoPermit
       /\ call[c].pc = "http" => call[c].permit <= cbs[Target(call[c])].generation
  /\ failed \subseteq Backend /\ throttled \subseteq Limited

(* The probes of backend b that are out. *)
Probing(b) ==
  {c \in Caller : /\ cbs[b].state = "HALF_OPEN"
                  /\ call[c].pc = "http"
                  /\ Target(call[c]) = b
                  /\ call[c].permit = cbs[b].generation}

(***************************************************************************)
(* Whatever way a request ends, by an answer, an error class, a fallback   *)
(* or an exception, its probe slot is accounted for at the backend that    *)
(* gave it: admissions are successes and calls still out, so that a        *)
(* saturated round always has a call out that will end it.                 *)
(***************************************************************************)
PermitAccounting ==
  \A b \in Backend : cbs[b].state = "HALF_OPEN" =>
    cbs[b].halfOpenCalls = cbs[b].halfOpenSuccesses + Cardinality(Probing(b))

(***************************************************************************)
(* Backends are governed apart: one that has never failed a call itself is *)
(* closed with no failure on its count, whatever happened to the backends  *)
(* it stands in for.                                                       *)
(***************************************************************************)
FaultsStayApart ==
  \A b \in Backend \ failed :
    cbs[b].state = "CLOSED" /\ cbs[b].consecutiveFailures = 0

(***************************************************************************)
(* call() reports that all backends are exhausted only when every backend  *)
(* on its route has failed a call or run out of tokens at some time: a     *)
(* fallback that is well and has tokens is always reached.                 *)
(***************************************************************************)
Unwell == failed \cup throttled

HealthyFallbackServes ==
  [][\A c \in Caller :
       call[c].pc # "idle" /\ call'[c].outcome = "exhausted" =>
         /\ call[c].model \in Unwell'
         /\ ToSet(Route[call[c].model]) \cap Configured \subseteq Unwell']_vars

(***************************************************************************)
(* Each backend's breaker, shared by primaries, fallbacks and streams,     *)
(* keeps the contract that BreakerContract states for one breaker.         *)
(***************************************************************************)
Contract(b) == INSTANCE BreakerContract
  WITH mode <- cbs[b].state, probing <- Probing(b),
       admitted <- cbs[b].halfOpenCalls,
       MaxProbes <- halfOpenMaxCalls, MinProbes <- successThreshold

BreakersKeepContract ==
  /\ \A b \in Backend : Contract(b)!Init
  /\ [][\A b \in Backend :
          \/ Contract(b)!Next
          \/ UNCHANGED <<cbs[b].state, Probing(b), cbs[b].halfOpenCalls>>]_vars

(***************************************************************************)
(* Every request ends, with an answer or an exception.                     *)
(***************************************************************************)
RequestsEnd == \A c \in Caller : call[c].pc # "idle" ~> call[c].pc = "idle"
=============================================================================
