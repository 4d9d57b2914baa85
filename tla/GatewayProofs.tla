---------------------------- MODULE GatewayProofs ----------------------------
(***************************************************************************)
(* Proofs about LLMGateway, for every set of threads, users and backends,  *)
(* every routing table and every limit.  A step moves one breaker at most; *)
(* how it may move it (Moved) is all that the accounting and the contract  *)
(* need.  BreakerProofs has the like for a breaker with its callers alone. *)
(***************************************************************************)
EXTENDS LLMGateway, FiniteSetTheorems, WellFoundedInduction, TLAPS

-----------------------------------------------------------------------------
(* What the operators return. *)

(* What configure() guarantees of the settings. *)
LEMMA Settings ==
  /\ failureThreshold \in Nat \ {0}
  /\ halfOpenMaxCalls \in Nat \ {0}
  /\ successThreshold \in 1..halfOpenMaxCalls
BY BreakerConfigAssumption
   DEF failureThreshold, halfOpenMaxCalls, successThreshold, AtLeast, AtMost

(* Two breakers that differ in what a closed breaker counts, if at all. *)
SameRound(b, d) ==
  /\ d.state = b.state /\ d.generation = b.generation
  /\ d.halfOpenCalls = b.halfOpenCalls
  /\ d.halfOpenSuccesses = b.halfOpenSuccesses

(* Breaker d is in state s, in the generation after b's, with n probes in. *)
NewRound(b, d, s, n) ==
  /\ d.state = s /\ d.generation = b.generation + 1
  /\ d.halfOpenCalls = n /\ d.halfOpenSuccesses = 0

LEMMA BreakerFields ==
  ASSUME NEW b \in Breaker
  PROVE  /\ b.state \in {"CLOSED", "OPEN", "HALF_OPEN"}
         /\ b.generation \in Nat /\ b.consecutiveFailures \in Nat
         /\ b.lastFailureTimeMs \in Nat /\ b.openedTimeMs \in Nat
         /\ b.halfOpenCalls \in Nat /\ b.halfOpenSuccesses \in Nat
BY DEF Breaker, CircuitState

(* The four answers of allowRequest(): closed, refused, a new round begun  *)
(* with this probe, the round joined.                                      *)
AllowFacts(b, r) ==
  /\ r.cb \in Breaker
  /\ \/ b.state = "CLOSED" /\ r.cb = b /\ r.permit = b.generation
     \/ b.state # "CLOSED" /\ r.cb = b /\ r.permit = NoPermit
     \/ /\ b.state = "OPEN" /\ NewRound(b, r.cb, "HALF_OPEN", 1)
        /\ r.permit = b.generation + 1
     \/ /\ b.state = "HALF_OPEN" /\ r.cb.state = "HALF_OPEN"
        /\ b.halfOpenCalls < halfOpenMaxCalls
        /\ r.cb.generation = b.generation /\ r.permit = b.generation
        /\ r.cb.halfOpenCalls = b.halfOpenCalls + 1
        /\ r.cb.halfOpenSuccesses = b.halfOpenSuccesses

LEMMA AllowReturns ==
  ASSUME NEW b \in Breaker, NEW t \in Nat
  PROVE  AllowFacts(b, AllowRequest(b, t))
<1> USE BreakerFields
<1>1. CASE b.state = "CLOSED"
  BY <1>1 DEF AllowFacts, AllowRequest
<1>2. CASE b.state = "HALF_OPEN"
  <2>1. AllowRequest(b, t) = AdmitProbe(b)
    BY <1>2 DEF AllowRequest
  <2>2. CASE b.halfOpenCalls >= halfOpenMaxCalls
    BY <1>2, <2>1, <2>2 DEF AllowFacts, AdmitProbe, Refuse
  <2>3. CASE ~(b.halfOpenCalls >= halfOpenMaxCalls)
    <3>1. AllowRequest(b, t) = [cb |-> [b EXCEPT !.halfOpenCalls = @ + 1],
                                permit |-> b.generation]
      BY <2>1, <2>3 DEF AdmitProbe
    <3>2. b.halfOpenCalls < halfOpenMaxCalls
      BY <2>3, Settings
    <3> QED
      BY <1>2, <3>1, <3>2 DEF AllowFacts, Breaker, CircuitState
  <2> QED
    BY <2>2, <2>3
<1>3. CASE b.state = "OPEN"
  <2>1. CASE ~(t - b.openedTimeMs >= recoveryTimeoutMs)
    BY <1>3, <2>1 DEF AllowFacts, AllowRequest, Refuse
  <2>2. CASE t - b.openedTimeMs >= recoveryTimeoutMs
    <3> DEFINE h == EnterHalfOpen(b)
    <3>1. h \in Breaker /\ NewRound(b, h, "HALF_OPEN", 0)
      BY DEF EnterHalfOpen, MoveTo, NewRound, Breaker, CircuitState
    <3>2. AllowRequest(b, t) = AdmitProbe(h)
      BY <1>3, <2>2 DEF AllowRequest
    <3> HIDE DEF h
    <3>3. ~(h.halfOpenCalls >= halfOpenMaxCalls)
      BY <3>1, Settings DEF NewRound
    <3>4. AllowRequest(b, t) = [cb |-> [h EXCEPT !.halfOpenCalls = @ + 1],
                                permit |-> h.generation]
      BY <3>2, <3>3 DEF AdmitProbe
    <3> QED
      BY <1>3, <3>1, <3>4 DEF AllowFacts, NewRound, Breaker, CircuitState
  <2> QED
    BY <2>1, <2>2
<1> QED
  BY <1>1, <1>2, <1>3

(* A success moves a round on, or wins it, or leaves the round alone; only *)
(* in a closed breaker it may clear the failures.                          *)
SuccessFacts(b, p, d) ==
  /\ d \in Breaker
  /\ \/ SameRound(b, d) /\ (p # b.generation \/ b.state # "HALF_OPEN")
     \/ /\ b.state = "HALF_OPEN" /\ p = b.generation
        /\ \/ /\ d.state = "HALF_OPEN" /\ d.generation = b.generation
              /\ d.halfOpenCalls = b.halfOpenCalls
              /\ d.halfOpenSuccesses = b.halfOpenSuccesses + 1
              /\ ~RoundSucceeded(d)
           \/ /\ NewRound(b, d, "CLOSED", 0)
              /\ b.halfOpenSuccesses + 1 >= successThreshold
              /\ b.halfOpenSuccesses + 1 = b.halfOpenCalls
  /\ b.state = "CLOSED" => d.consecutiveFailures \in {b.consecutiveFailures, 0}

LEMMA SuccessReturns ==
  ASSUME NEW b \in Breaker, NEW p \in Nat, NEW t \in Nat
  PROVE  SuccessFacts(b, p, ReportSuccess(b, p, t))
<1> USE BreakerFields
<1>1. CASE p # b.generation \/ b.state = "OPEN"
  BY <1>1 DEF SuccessFacts, SameRound, ReportSuccess
<1>2. CASE p = b.generation /\ b.state = "CLOSED"
  <2>1. ReportSuccess(b, p, t) \in {b, [b EXCEPT !.consecutiveFailures = 0]}
    BY <1>2 DEF ReportSuccess, SuccessWhileClosed
  <2> QED
    BY <1>2, <2>1 DEF SuccessFacts, SameRound, Breaker, CircuitState
<1>3. CASE p = b.generation /\ b.state = "HALF_OPEN"
  <2> DEFINE counted == [b EXCEPT !.halfOpenSuccesses = @ + 1]
  <2>1. /\ counted \in Breaker /\ counted.state = "HALF_OPEN"
        /\ counted.generation = b.generation
        /\ counted.halfOpenCalls = b.halfOpenCalls
        /\ counted.halfOpenSuccesses = b.halfOpenSuccesses + 1
    BY <1>3 DEF Breaker, CircuitState
  <2>2. ReportSuccess(b, p, t) =
          IF RoundSucceeded(counted) THEN Cleared(counted) ELSE counted
    BY <1>3 DEF ReportSuccess, ProbeSuccess
  <2> HIDE DEF counted
  <2>3. CASE RoundSucceeded(counted)
    <3>1. Cleared(counted) \in Breaker /\ NewRound(b, Cleared(counted), "CLOSED", 0)
      BY <2>1 DEF Cleared, Unconfigured, NewRound, Breaker, CircuitState
    <3> QED
      BY <1>3, <2>1, <2>2, <2>3, <3>1 DEF SuccessFacts, RoundSucceeded
  <2>4. CASE ~RoundSucceeded(counted)
    BY <1>3, <2>1, <2>2, <2>4 DEF SuccessFacts
  <2> QED
    BY <2>3, <2>4
<1> QED
  BY <1>1, <1>2, <1>3

(* A failure leaves the round alone or trips the breaker. *)
FailureFacts(b, p, d) ==
  /\ d \in Breaker
  /\ \/ SameRound(b, d) /\ (p # b.generation \/ b.state # "HALF_OPEN")
     \/ p = b.generation /\ b.state # "OPEN" /\ NewRound(b, d, "OPEN", 0)

LEMMA TripReturns ==
  ASSUME NEW b \in Breaker, NEW t \in Nat
  PROVE  Trip(b, t) \in Breaker /\ NewRound(b, Trip(b, t), "OPEN", 0)
BY DEF Trip, MoveTo, NewRound, Breaker, CircuitState

LEMMA FailureReturns ==
  ASSUME NEW b \in Breaker, NEW p \in Nat, NEW t \in Nat
  PROVE  FailureFacts(b, p, ReportFailure(b, p, t))
<1> USE BreakerFields
<1>1. CASE p # b.generation \/ b.state = "OPEN"
  BY <1>1 DEF FailureFacts, SameRound, ReportFailure
<1>2. CASE p = b.generation /\ b.state = "CLOSED"
  <2> DEFINE counted == [b EXCEPT !.consecutiveFailures = FailureCount(b, t),
                                  !.lastFailureTimeMs = t]
  <2>1. FailureCount(b, t) \in Nat
    BY DEF FailureCount
  <2>2. counted \in Breaker /\ SameRound(b, counted)
    BY <2>1 DEF SameRound, Breaker, CircuitState
  <2>3. ReportFailure(b, p, t) \in {counted, Trip(counted, t)}
    BY <1>2 DEF ReportFailure, FailureWhileClosed
  <2> HIDE DEF counted
  <2>4. Trip(counted, t) \in Breaker /\ NewRound(counted, Trip(counted, t), "OPEN", 0)
    BY <2>2, TripReturns
  <2> QED
    BY <1>2, <2>2, <2>3, <2>4 DEF FailureFacts, SameRound, NewRound
<1>3. CASE p = b.generation /\ b.state = "HALF_OPEN"
  BY <1>3, TripReturns DEF FailureFacts, ReportFailure
<1> QED
  BY <1>1, <1>2, <1>3

LEMMA ConsumeReturns ==
  ASSUME NEW b \in Bucket, NEW rate \in Nat, NEW burst \in Nat, NEW t \in Nat
  PROVE  TryConsume(b, rate, burst, t).bucket \in Bucket
<1> DEFINE full == Refill(b, rate, burst, t)
           e == t - b.lastRefillMs
<1>1. b.tokens \in Nat /\ b.lastRefillMs \in Nat
  BY DEF Bucket
<1>2. full \in Bucket
  <2>1. CASE e <= 0
    BY <1>1, <2>1 DEF Refill
  <2>2. CASE ~(e <= 0)
    <3>1. e \in Nat
      BY <1>1, <2>2
    <3>2. full = [tokens |-> Least(b.tokens + e * rate, burst), lastRefillMs |-> t]
      BY <2>2 DEF Refill
    <3> HIDE DEF e, full
    <3>3. e * rate \in Nat
      BY <3>1
    <3>4. Least(b.tokens + e * rate, burst) \in Nat
      BY <1>1, <3>3 DEF Least
    <3> QED
      BY <3>2, <3>4 DEF Bucket
  <2> QED
    BY <2>1, <2>2
<1>3. TryConsume(b, rate, burst, t).bucket =
        IF full.tokens >= Unit THEN [full EXCEPT !.tokens = @ - Unit] ELSE full
  BY DEF TryConsume
<1> HIDE DEF full
<1> QED
  BY <1>2, <1>3, UnitAssumption DEF Bucket

-----------------------------------------------------------------------------
(* The inductive invariant.  At each backend: a breaker that was never     *)
(* made is as its fields' initialisers leave it; the counters are at rest  *)
(* outside a round; nobody holds the generation of an open breaker; a      *)
(* round is within its limit and not yet won; and the accounting holds.    *)

Holders(b) ==
  {c \in Caller : /\ call[c].pc = "http" /\ Target(call[c]) = b
                  /\ call[c].permit = cbs[b].generation}

BreakerInv(b) ==
  /\ cbs[b].generation = 0 => cbs[b] = Unconfigured
  /\ cbs[b].state # "HALF_OPEN" =>
       cbs[b].halfOpenCalls = 0 /\ cbs[b].halfOpenSuccesses = 0
  /\ cbs[b].state = "OPEN" => Holders(b) = {}
  /\ cbs[b].state = "HALF_OPEN" =>
       /\ cbs[b].halfOpenCalls <= halfOpenMaxCalls /\ ~RoundSucceeded(cbs[b])
       /\ cbs[b].halfOpenCalls =
            cbs[b].halfOpenSuccesses + Cardinality(Holders(b))

(* The backends that request r has left behind. *)
Passed(r) ==
  {b \in Backend :
     \/ r.at > 0 /\ b = r.model
     \/ b \in Configured /\ \E i \in 1..(r.at - 1) : b = Route[r.model][i]}

(* All of them were unwell, and the request has no outcome yet. *)
PassedUnwell ==
  \A c \in Caller : call[c].pc # "idle" =>
    Passed(call[c]) \subseteq Unwell /\ call[c].outcome = "none"

IInv ==
  /\ TypeOK
  /\ \A b \in Backend : BreakerInv(b)
  /\ FaultsStayApart
  /\ PassedUnwell
-----------------------------------------------------------------------------
(* Requests. *)

Sound(r) ==
  /\ r \in Request
  /\ r.pc # "idle" => r.model \in Backend /\ r.at \in 0..Len(Route[r.model])
  /\ r.pc = "http" <=> r.permit # NoPermit

(* TypeOK, with what it says of a request in a definition of its own. *)
LEMMA Typed ==
  TypeOK <=>
    /\ cbs \in [Backend -> Breaker] /\ buckets \in [Key -> Bucket]
    /\ now \in Nat \ {0} /\ call \in [Caller -> Request]
    /\ failed \subseteq Backend /\ throttled \subseteq Limited
    /\ \A c \in Caller :
         /\ Sound(call[c])
         /\ call[c].pc = "http"
              => call[c].permit <= cbs[Target(call[c])].generation
BY DEF TypeOK, Sound

LEMMA RouteTyped ==
  ASSUME NEW m \in Backend
  PROVE  /\ Len(Route[m]) \in Nat /\ DOMAIN Route[m] = 1..Len(Route[m])
         /\ \A i \in 1..Len(Route[m]) : Route[m][i] \in Backend
<1>1. Route[m] \in Seq(Backend)
  BY GatewayAssumption
<1> QED
  BY <1>1

LEMMA RequestFields ==
  ASSUME NEW r \in Request
  PROVE  /\ r.pc \in Step /\ r.at \in Nat /\ r.permit \in Nat
         /\ r.streaming \in BOOLEAN /\ r.outcome \in Outcome
BY DEF Request

LEMMA TargetTyped ==
  ASSUME NEW r, Sound(r), r.pc # "idle"
  PROVE  Target(r) \in Backend
BY RouteTyped DEF Sound, Target

LEMMA IdleSound ==
  ASSUME NEW o \in Outcome
  PROVE  Sound(Idle(o)) /\ Idle(o).pc = "idle" /\ Idle(o).outcome = o
BY DEF Sound, Idle, Request, NoModel, NoPermit, Step

LEMMA LeastIsFirst ==
  ASSUME NEW S, S \subseteq Nat, S # {}
  PROVE  Min(S) \in S /\ \A y \in S : Min(S) <= y
<1>1. PICK x \in S : \A y \in S : ~(<<y, x>> \in OpToRel(<, Nat))
  BY NatLessThanWellFounded, WFMin
<1>2. \A y \in S : x <= y
  <2> SUFFICES ASSUME NEW y \in S, ~(x <= y)  PROVE FALSE
    OBVIOUS
  <2>1. x \in Nat /\ y \in Nat /\ y < x
    OBVIOUS
  <2>2. <<y, x>> \in Nat \X Nat /\ <<y, x>>[1] < <<y, x>>[2]
    BY <2>1
  <2>3. <<y, x>> \in {ss \in Nat \X Nat : ss[1] < ss[2]}
    BY <2>2
  <2> QED
    BY <2>3, <1>1 DEF OpToRel
<1> QED
  BY <1>2 DEF Min

(* Giving a backend up adds it to those passed, and nothing else; it ends  *)
(* the request as exhausted only when the whole route has been passed.     *)
LEMMA GiveUpReturns ==
  ASSUME NEW r, Sound(r), r.pc # "idle"
  PROVE  LET g == GiveUp(r)
         IN  /\ Sound(g) /\ g.pc \in {"idle", "limit"}
             /\ g.pc = "limit" => /\ g.outcome = r.outcome
                                  /\ Passed(g) \subseteq Passed(r) \cup {Target(r)}
             /\ g.outcome = "exhausted" /\ r.outcome # "exhausted" =>
                  /\ r.model \in Passed(r) \cup {Target(r)}
                  /\ ToSet(Route[r.model]) \cap Configured
                       \subseteq Passed(r) \cup {Target(r)}
<1>0. /\ r \in Request /\ r.model \in Backend /\ r.at \in 0..Len(Route[r.model])
      /\ Len(Route[r.model]) \in Nat
      /\ DOMAIN Route[r.model] = 1..Len(Route[r.model])
      /\ \A i \in 1..Len(Route[r.model]) : Route[r.model][i] \in Backend
      /\ Configured \subseteq Backend
  BY RouteTyped, GatewayAssumption DEF Sound
<1>m. r.model \in Passed(r) \cup {Target(r)}
  BY <1>0 DEF Passed, Target
<1>p. ASSUME NEW i \in 1..Len(Route[r.model]), i <= r.at,
             Route[r.model][i] \in Configured
      PROVE  Route[r.model][i] \in Passed(r) \cup {Target(r)}
  <2>1. CASE i = r.at
    BY <1>0, <2>1 DEF Target
  <2>2. CASE i # r.at
    <3>1. i \in 1..(r.at - 1)
      BY <1>0, <1>p, <2>2
    <3> QED
      BY <1>0, <1>p, <3>1 DEF Passed
  <2> QED
    BY <2>1, <2>2
<1>1. CASE r.streaming
  <2>1. GiveUp(r) = Idle("error")
    BY <1>1 DEF GiveUp
  <2> QED
    BY <2>1, IdleSound DEF Outcome
<1>2. CASE ~r.streaming /\ Ahead(r) = {}
  <2>1. GiveUp(r) = Idle("exhausted")
    BY <1>2 DEF GiveUp
  <2>2. ToSet(Route[r.model]) \cap Configured \subseteq Passed(r) \cup {Target(r)}
    <3> SUFFICES ASSUME NEW i \in 1..Len(Route[r.model]),
                        Route[r.model][i] \in Configured
                 PROVE  Route[r.model][i] \in Passed(r) \cup {Target(r)}
      BY <1>0 DEF ToSet
    <3>1. i <= r.at
      BY <1>0, <1>2 DEF Ahead
    <3> QED
      BY <3>1, <1>p
  <2> QED
    BY <2>1, <2>2, <1>m, IdleSound DEF Outcome
<1>3. CASE ~r.streaming /\ Ahead(r) # {}
  <2>1. PICK k \in Nat : k = Min(Ahead(r)) /\ k \in Ahead(r) /\ \A y \in Ahead(r) : k <= y
    <3>1. Ahead(r) \subseteq Nat
      BY <1>0 DEF Ahead
    <3> QED
      BY <1>3, <3>1, LeastIsFirst
  <2>2. k \in 1..Len(Route[r.model]) /\ k > r.at
    BY <1>0, <2>1 DEF Ahead
  <2>3. PICK g : g = [r EXCEPT !.pc = "limit", !.at = k, !.permit = NoPermit]
    OBVIOUS
  <2>4. GiveUp(r) = g
    BY <1>3, <2>1, <2>3 DEF GiveUp
  <2>5. /\ g \in Request /\ g.pc = "limit" /\ g.at = k /\ g.model = r.model
        /\ g.permit = NoPermit /\ g.outcome = r.outcome
    BY <1>0, <2>2, <2>3 DEF Request, Step, NoPermit
  <2>6. Sound(g)
    BY <1>0, <2>2, <2>5 DEF Sound
  <2>7. ASSUME NEW b \in Passed(g) PROVE b \in Passed(r) \cup {Target(r)}
    <3>1. CASE b = r.model
      BY <3>1, <1>m
    <3>2. CASE b # r.model
      <4>1. PICK i \in 1..(k - 1) : b = Route[r.model][i] /\ b \in Configured
        BY <3>2, <2>5 DEF Passed
      <4>2. i \in 1..Len(Route[r.model])
        BY <1>0, <2>2, <4>1
      <4>3. i <= r.at
        <5>1. i \notin Ahead(r)
          BY <2>1, <4>1
        <5> QED
          BY <5>1, <4>1, <4>2, <1>0 DEF Ahead
      <4> QED
        BY <4>1, <4>2, <4>3, <1>p
    <3> QED
      BY <3>1, <3>2
  <2> QED
    BY <2>4, <2>5, <2>6, <2>7
<1> QED
  BY <1>1, <1>2, <1>3, <1>0 DEF Request

-----------------------------------------------------------------------------
(* How a step may move the breaker of backend b and those who hold its     *)
(* present generation.                                                     *)

Quiet(b) ==
  /\ cbs'[b].state = cbs[b].state
  /\ cbs'[b].halfOpenCalls = cbs[b].halfOpenCalls
  /\ cbs'[b].halfOpenSuccesses = cbs[b].halfOpenSuccesses
  /\ cbs[b].state # "CLOSED" => Holders(b)' = Holders(b)

Started(b, c) ==
  /\ cbs[b].state = "OPEN" /\ cbs'[b].state = "HALF_OPEN"
  /\ cbs'[b].halfOpenCalls = 1 /\ cbs'[b].halfOpenSuccesses = 0
  /\ Holders(b)' = {c}

Joined(b, c) ==
  /\ cbs[b].state = "HALF_OPEN" /\ cbs'[b].state = "HALF_OPEN"
  /\ cbs[b].halfOpenCalls < halfOpenMaxCalls
  /\ cbs'[b].halfOpenCalls = cbs[b].halfOpenCalls + 1
  /\ cbs'[b].halfOpenSuccesses = cbs[b].halfOpenSuccesses
  /\ c \notin Holders(b) /\ Holders(b)' = Holders(b) \cup {c}

Progressed(b, c) ==
  /\ cbs[b].state = "HALF_OPEN" /\ cbs'[b].state = "HALF_OPEN"
  /\ cbs'[b].halfOpenCalls = cbs[b].halfOpenCalls
  /\ cbs'[b].halfOpenSuccesses = cbs[b].halfOpenSuccesses + 1
  /\ ~RoundSucceeded(cbs'[b])
  /\ c \in Holders(b) /\ Holders(b)' = Holders(b) \ {c}

Won(b, c) ==
  /\ cbs[b].state = "HALF_OPEN" /\ cbs'[b].state = "CLOSED"
  /\ cbs[b].halfOpenSuccesses + 1 >= successThreshold
  /\ cbs[b].halfOpenSuccesses + 1 = cbs[b].halfOpenCalls
  /\ cbs'[b].halfOpenCalls = 0 /\ cbs'[b].halfOpenSuccesses = 0
  /\ c \in Holders(b)

Tripped(b, c) ==
  /\ cbs[b].state # "OPEN" /\ cbs'[b].state = "OPEN"
  /\ cbs'[b].halfOpenCalls = 0 /\ cbs'[b].halfOpenSuccesses = 0
  /\ c \in Holders(b) /\ Holders(b)' = {}

Moved(b) ==
  /\ cbs'[b] = cbs[b] \/ cbs'[b].generation > 0
  /\ \/ Quiet(b)
     \/ \E c \in Caller : \/ Started(b, c) \/ Joined(b, c) \/ Progressed(b, c)
                          \/ Won(b, c) \/ Tripped(b, c)

LEMMA HoldersFinite ==
  ASSUME NEW b
  PROVE  IsFiniteSet(Holders(b)) /\ Cardinality(Holders(b)) \in Nat
<1>1. Holders(b) \in SUBSET Caller
  BY DEF Holders
<1> QED
  BY <1>1, GatewayAssumption, FS_Subset, FS_CardinalityType

LEMMA MovedKeeps ==
  ASSUME TypeOK, TypeOK', NEW b \in Backend, BreakerInv(b), Moved(b)
  PROVE  BreakerInv(b)'
<1>0. /\ cbs[b] \in Breaker /\ cbs'[b] \in Breaker
  BY DEF TypeOK
<1>1. /\ cbs[b].halfOpenCalls \in Nat /\ cbs[b].halfOpenSuccesses \in Nat
      /\ cbs[b].state \in {"CLOSED", "OPEN", "HALF_OPEN"}
      /\ cbs'[b].generation \in Nat /\ cbs[b].generation \in Nat
  BY <1>0, BreakerFields
<1>2. IsFiniteSet(Holders(b)) /\ Cardinality(Holders(b)) \in Nat
  BY HoldersFinite
<1>3. /\ cbs[b].generation = 0 => cbs[b] = Unconfigured
      /\ cbs[b].state # "HALF_OPEN" =>
           cbs[b].halfOpenCalls = 0 /\ cbs[b].halfOpenSuccesses = 0
      /\ cbs[b].state = "OPEN" => Holders(b) = {}
      /\ cbs[b].state = "HALF_OPEN" =>
           /\ cbs[b].halfOpenCalls <= halfOpenMaxCalls /\ ~RoundSucceeded(cbs[b])
           /\ cbs[b].halfOpenCalls =
                cbs[b].halfOpenSuccesses + Cardinality(Holders(b))
  BY DEF BreakerInv
<1>4. cbs'[b].generation = 0 => cbs'[b] = Unconfigured
  BY <1>1, <1>3 DEF Moved
<1>q. CASE Quiet(b)
  BY <1>q, <1>3, <1>4 DEF Quiet, BreakerInv, RoundSucceeded
<1>5. ASSUME NEW c \in Caller, Started(b, c) PROVE BreakerInv(b)'
  <2>1. Cardinality(Holders(b)') = 1
    BY <1>5, FS_Singleton DEF Started
  <2> QED
    BY <2>1, <1>4, <1>5, Settings DEF Started, BreakerInv, RoundSucceeded
<1>6. ASSUME NEW c \in Caller, Joined(b, c) PROVE BreakerInv(b)'
  <2>1. Cardinality(Holders(b)') = Cardinality(Holders(b)) + 1
    BY <1>2, <1>6, FS_AddElement DEF Joined
  <2>2. cbs[b].halfOpenSuccesses <= cbs[b].halfOpenCalls
    BY <1>1, <1>2, <1>3, <1>6 DEF Joined
  <2>3. cbs'[b].halfOpenCalls <= halfOpenMaxCalls /\ ~RoundSucceeded(cbs'[b])
    BY <1>1, <1>6, <2>2, Settings DEF Joined, RoundSucceeded
  <2>4. cbs'[b].halfOpenCalls = cbs'[b].halfOpenSuccesses + Cardinality(Holders(b)')
    BY <1>1, <1>2, <1>3, <1>6, <2>1 DEF Joined
  <2> QED
    BY <1>4, <1>6, <2>3, <2>4 DEF Joined, BreakerInv
<1>7. ASSUME NEW c \in Caller, Progressed(b, c) PROVE BreakerInv(b)'
  <2>1. Cardinality(Holders(b)') = Cardinality(Holders(b)) - 1
    BY <1>2, <1>7, FS_RemoveElement DEF Progressed
  <2>2. cbs'[b].halfOpenCalls = cbs'[b].halfOpenSuccesses + Cardinality(Holders(b)')
    BY <1>1, <1>2, <1>3, <1>7, <2>1 DEF Progressed
  <2>3. cbs'[b].halfOpenCalls <= halfOpenMaxCalls
    BY <1>3, <1>7 DEF Progressed
  <2> QED
    BY <1>4, <1>7, <2>2, <2>3 DEF Progressed, BreakerInv
<1>8. ASSUME NEW c \in Caller, Won(b, c) \/ Tripped(b, c) PROVE BreakerInv(b)'
  BY <1>4, <1>8 DEF Won, Tripped, BreakerInv
<1> QED
  BY <1>q, <1>5, <1>6, <1>7, <1>8 DEF Moved

-----------------------------------------------------------------------------
(* The breaker's moves are those of the contract. *)

LEMMA MovedIsContract ==
  ASSUME TypeOK, NEW b \in Backend, BreakerInv(b), Moved(b)
  PROVE  \/ Contract(b)!Next
         \/ UNCHANGED <<cbs[b].state, Probing(b), cbs[b].halfOpenCalls>>
<1> DEFINE P == Probing(b)
<1>1. /\ cbs[b] \in Breaker
      /\ cbs[b].halfOpenCalls \in Nat /\ cbs[b].halfOpenSuccesses \in Nat
      /\ cbs[b].state \in {"CLOSED", "OPEN", "HALF_OPEN"}
  BY BreakerFields DEF TypeOK
<1>2. IsFiniteSet(Holders(b)) /\ Cardinality(Holders(b)) \in Nat
  BY HoldersFinite
<1>3. /\ cbs[b].state # "HALF_OPEN" => cbs[b].halfOpenCalls = 0
      /\ cbs[b].state = "HALF_OPEN" =>
           cbs[b].halfOpenCalls = cbs[b].halfOpenSuccesses + Cardinality(Holders(b))
  BY DEF BreakerInv
<1>4. /\ P = IF cbs[b].state = "HALF_OPEN" THEN Holders(b) ELSE {}
      /\ P' = IF cbs'[b].state = "HALF_OPEN" THEN Holders(b)' ELSE {}
  BY DEF Probing, Holders
<1> HIDE DEF P
<1>q. CASE Quiet(b)
  BY <1>q, <1>4 DEF Quiet, P
<1>5. ASSUME NEW c \in Caller, Started(b, c) PROVE Contract(b)!Next
  <2>1. Contract(b)!StartRound(c)
    BY <1>4, <1>5 DEF Started, Contract!StartRound, P
  <2> QED
    BY <2>1 DEF Contract!Next
<1>6. ASSUME NEW c \in Caller, Joined(b, c) PROVE Contract(b)!Next
  <2>1. Contract(b)!JoinRound(c)
    BY <1>4, <1>6 DEF Joined, Contract!JoinRound, P
  <2> QED
    BY <2>1 DEF Contract!Next
<1>7. ASSUME NEW c \in Caller, Progressed(b, c) PROVE Contract(b)!Next
  <2>1. Cardinality(Holders(b)') = Cardinality(Holders(b)) - 1
    BY <1>2, <1>7, FS_RemoveElement DEF Progressed
  <2>2. Holders(b)' = {} => Cardinality(Holders(b)') = 0
    BY FS_EmptySet
  <2>3. Holders(b)' = {} => cbs'[b].halfOpenSuccesses = cbs'[b].halfOpenCalls
    BY <1>1, <1>2, <1>3, <1>7, <2>1, <2>2 DEF Progressed
  <2>4. ~(Holders(b)' = {} /\ cbs[b].halfOpenCalls >= successThreshold)
    BY <1>7, <2>3 DEF Progressed, RoundSucceeded
  <2>5. Contract(b)!ProbeSucceeds(c)
    BY <1>4, <1>7, <2>4 DEF Progressed, Contract!ProbeSucceeds, P
  <2> QED
    BY <2>5 DEF Contract!Next
<1>8. ASSUME NEW c \in Caller, Won(b, c) PROVE Contract(b)!Next
  <2>1. Cardinality(Holders(b)) = 1
    BY <1>1, <1>2, <1>3, <1>8 DEF Won
  <2>2. Holders(b) = {c}
    BY <1>2, <1>8, <2>1, FS_Singleton DEF Won
  <2>3. cbs[b].halfOpenCalls >= successThreshold
    BY <1>1, <1>8 DEF Won
  <2>4. Contract(b)!ProbeSucceeds(c)
    BY <1>4, <1>8, <2>2, <2>3 DEF Won, Contract!ProbeSucceeds, P
  <2> QED
    BY <2>4 DEF Contract!Next
<1>9. ASSUME NEW c \in Caller, Tripped(b, c) PROVE Contract(b)!Next
  <2>1. CASE cbs[b].state = "CLOSED"
    <3>1. Contract(b)!Trip
      BY <1>3, <1>4, <1>9, <2>1 DEF Tripped, Contract!Trip, P
    <3> QED
      BY <3>1 DEF Contract!Next
  <2>2. CASE cbs[b].state = "HALF_OPEN"
    <3>1. Contract(b)!ProbeFails(c)
      BY <1>4, <1>9, <2>2 DEF Tripped, Contract!ProbeFails, P
    <3> QED
      BY <3>1 DEF Contract!Next
  <2> QED
    BY <1>1, <1>9, <2>1, <2>2 DEF Tripped
<1> QED
  BY <1>q, <1>5, <1>6, <1>7, <1>8, <1>9 DEF Moved

-----------------------------------------------------------------------------
(* What a step owes: the types, the moves, FaultsStayApart, PassedUnwell,  *)
(* and the step that HealthyFallbackServes speaks of.                      *)

ServesStep ==
  \A c \in Caller :
    call[c].pc # "idle" /\ call'[c].outcome = "exhausted" =>
      /\ call[c].model \in Unwell'
      /\ ToSet(Route[call[c].model]) \cap Configured \subseteq Unwell'

StepOK ==
  /\ TypeOK' /\ FaultsStayApart' /\ PassedUnwell' /\ ServesStep
  /\ \A b \in Backend : Moved(b)

(* Request g of thread c follows on its present one. *)
Follows(c, g) ==
  /\ call' = [call EXCEPT ![c] = g]
  /\ Sound(g)
  /\ g.pc # "idle" => Passed(g) \subseteq Unwell' /\ g.outcome = "none"
  /\ call[c].pc # "idle" /\ g.outcome = "exhausted" =>
       /\ call[c].model \in Unwell'
       /\ ToSet(Route[call[c].model]) \cap Configured \subseteq Unwell'

LEMMA FollowsServes ==
  ASSUME IInv, NEW c \in Caller, NEW g, Follows(c, g),
         failed \subseteq failed', throttled \subseteq throttled'
  PROVE  PassedUnwell' /\ ServesStep
<1>1. Unwell \subseteq Unwell'
  BY DEF Unwell
<1>2. call'[c] = g /\ \A d \in Caller \ {c} : call'[d] = call[d]
  BY DEF Follows, IInv, TypeOK
<1>3. ASSUME NEW d \in Caller
      PROVE  call'[d].pc # "idle" =>
               Passed(call'[d]) \subseteq Unwell' /\ call'[d].outcome = "none"
  BY <1>1, <1>2 DEF Follows, IInv, PassedUnwell
<1>4. ASSUME NEW d \in Caller, call[d].pc # "idle", call'[d].outcome = "exhausted"
      PROVE  /\ call[d].model \in Unwell'
             /\ ToSet(Route[call[d].model]) \cap Configured \subseteq Unwell'
  <2>1. CASE d = c
    BY <1>2, <1>4, <2>1 DEF Follows
  <2>2. CASE d # c
    BY <1>2, <1>4, <2>2 DEF IInv, PassedUnwell
  <2> QED
    BY <2>1, <2>2
<1>5. PassedUnwell'
  BY <1>3 DEF PassedUnwell, Passed
<1> QED
  BY <1>4, <1>5 DEF ServesStep

LEMMA FollowsTyped ==
  ASSUME TypeOK, NEW c \in Caller, NEW g, Follows(c, g),
         cbs' \in [Backend -> Breaker], buckets' \in [Key -> Bucket],
         now' = now, failed' \subseteq Backend, throttled' \subseteq Limited,
         \A b \in Backend : cbs'[b].generation >= cbs[b].generation,
         g.pc = "http" => g.permit <= cbs'[Target(g)].generation
  PROVE  TypeOK'
<1>1. /\ call' \in [Caller -> Request] /\ call'[c] = g
      /\ \A d \in Caller \ {c} : call'[d] = call[d]
  BY DEF Follows, Sound, TypeOK
<1>2. ASSUME NEW d \in Caller
      PROVE  /\ Sound(call'[d])
             /\ call'[d].pc = "http" =>
                  call'[d].permit <= cbs'[Target(call'[d])].generation
  <2>1. CASE d = c
    BY <1>1, <2>1 DEF Follows
  <2>2. CASE d # c
    <3>1. call'[d] = call[d] /\ Sound(call[d]) /\ call[d].permit \in Nat
      BY <1>1, <2>2, Typed, RequestFields
    <3>2. CASE call[d].pc = "http"
      <4>1. Target(call[d]) \in Backend
        BY <3>1, <3>2, TargetTyped
      <4>2. /\ cbs[Target(call[d])].generation \in Nat
            /\ cbs'[Target(call[d])].generation \in Nat
            /\ call[d].permit <= cbs[Target(call[d])].generation
        BY <3>2, <4>1, Typed, BreakerFields
      <4>3. cbs'[Target(call[d])].generation >= cbs[Target(call[d])].generation
        BY <4>1
      <4> QED
        BY <3>1, <4>2, <4>3
    <3> QED
      BY <3>1, <3>2
  <2> QED
    BY <2>1, <2>2
<1>3. now' \in Nat \ {0}
  BY DEF TypeOK
<1> QED
  BY <1>1, <1>2, <1>3 DEF TypeOK, Sound

(* Who holds a backend's generation after thread c has gone on to g. *)
LEMMA HoldersMove ==
  ASSUME TypeOK, NEW c \in Caller, NEW g, Follows(c, g), NEW b \in Backend
  PROVE  LET holds == g.pc = "http" /\ Target(g) = b
                      /\ g.permit = cbs'[b].generation
         IN  /\ cbs'[b].generation = cbs[b].generation =>
                  Holders(b)' = IF holds THEN Holders(b) \cup {c} ELSE Holders(b) \ {c}
             /\ cbs'[b].generation = cbs[b].generation + 1 =>
                  Holders(b)' = IF holds THEN {c} ELSE {}
<1>1. call'[c] = g /\ \A d \in Caller \ {c} : call'[d] = call[d]
  BY DEF Follows, TypeOK
<1> DEFINE holds == g.pc = "http" /\ Target(g) = b /\ g.permit = cbs'[b].generation
           Holds(d) == /\ call'[d].pc = "http" /\ Target(call'[d]) = b
                       /\ call'[d].permit = cbs'[b].generation
<1>2. Holders(b)' = {d \in Caller : Holds(d)}
  BY DEF Holders, Target
<1>3. Holds(c) <=> holds
  BY <1>1
<1>4. ASSUME NEW d \in Caller \ {c}
      PROVE  /\ cbs'[b].generation = cbs[b].generation => (Holds(d) <=> d \in Holders(b))
             /\ cbs'[b].generation = cbs[b].generation + 1 => ~Holds(d)
  <2>1. call'[d] = call[d]
    BY <1>1
  <2>2. CASE call[d].pc = "http" /\ Target(call[d]) = b
    <3>1. /\ call[d].permit \in Nat /\ cbs[b].generation \in Nat
          /\ call[d].permit <= cbs[b].generation
      BY <2>2, Typed, RequestFields, BreakerFields
    <3> QED
      BY <2>1, <2>2, <3>1 DEF Holders
  <2>3. CASE ~(call[d].pc = "http" /\ Target(call[d]) = b)
    BY <2>1, <2>3 DEF Holders
  <2> QED
    BY <2>2, <2>3
<1> HIDE DEF holds, Holds
<1>5. Holders(b) \subseteq Caller
  BY DEF Holders
<1>6. CASE cbs'[b].generation = cbs[b].generation
  <2>1. cbs'[b].generation # cbs[b].generation + 1
    BY <1>6, BreakerFields DEF TypeOK
  <2> QED
    BY <1>2, <1>3, <1>4, <1>5, <1>6, <2>1 DEF holds
<1>7. CASE cbs'[b].generation = cbs[b].generation + 1
  <2>1. cbs'[b].generation # cbs[b].generation
    BY <1>7, BreakerFields DEF TypeOK
  <2> QED
    BY <1>2, <1>3, <1>4, <1>5, <1>7, <2>1 DEF holds
<1> QED
  BY <1>6, <1>7 DEF holds

(* A backend that neither the present request of c nor the next is at. *)
LEMMA Untouched ==
  ASSUME TypeOK, NEW c \in Caller, NEW g, Follows(c, g), NEW b \in Backend,
         cbs'[b] = cbs[b],
         call[c].pc = "http" => Target(call[c]) # b,
         g.pc = "http" => Target(g) # b
  PROVE  Moved(b)
<1>1. Holders(b)' = Holders(b) \ {c}
  BY HoldersMove
<1>2. c \notin Holders(b)
  BY DEF Holders
<1> QED
  BY <1>1, <1>2 DEF Moved, Quiet

-----------------------------------------------------------------------------
(* The actions. *)

(* A step that ends before it reaches a breaker, or does not yet reach it. *)
LEMMA NoBreaker ==
  ASSUME IInv, NEW c \in Caller, NEW g, Follows(c, g),
         call[c].pc # "http", g.pc # "http",
         cbs' = cbs, now' = now, failed' = failed,
         buckets' \in [Key -> Bucket],
         throttled \subseteq throttled', throttled' \subseteq Limited
  PROVE  StepOK
<1>1. PassedUnwell' /\ ServesStep
  BY FollowsServes
<1>2. TypeOK'
  <2>1. cbs \in [Backend -> Breaker] /\ failed \subseteq Backend /\ TypeOK
    BY DEF IInv, TypeOK
  <2>2. \A b \in Backend : cbs'[b].generation >= cbs[b].generation
    BY <2>1, BreakerFields
  <2> QED
    BY <2>1, <2>2, FollowsTyped
<1>3. \A b \in Backend : Moved(b)
  BY Untouched DEF IInv
<1>4. FaultsStayApart'
  BY DEF IInv, FaultsStayApart
<1> QED
  BY <1>1, <1>2, <1>3, <1>4 DEF StepOK

LEMMA BeginOK ==
  ASSUME IInv, NEW c \in Caller, NEW u \in User, NEW m \in Backend,
         NEW s \in BOOLEAN, Begin(c, u, m, s)
  PROVE  StepOK
<1>1. /\ call[c].pc = "idle" /\ cbs' = cbs /\ now' = now
      /\ failed' = failed /\ throttled' = throttled
      /\ buckets' = [buckets EXCEPT ![u] = UserCheck(u).bucket]
  BY DEF Begin
<1>2. PICK g : /\ call' = [call EXCEPT ![c] = g]
               /\ g = IF UserCheck(u).allowed
                        THEN [pc |-> "limit", model |-> m, streaming |-> s,
                              at |-> 0, permit |-> NoPermit, outcome |-> "none"]
                        ELSE Idle("error")
  BY DEF Begin
<1>3. buckets' \in [Key -> Bucket]
  <2>1. buckets \in [Key -> Bucket] /\ u \in Key /\ now \in Nat
    BY DEF IInv, TypeOK, Key
  <2>2. NewBucket(UserBurst, now) \in Bucket
    BY <2>1, GatewayAssumption DEF NewBucket, Bucket
  <2>3. UserCheck(u).bucket \in Bucket
    BY <2>1, <2>2, ConsumeReturns, GatewayAssumption DEF UserCheck
  <2> QED
    BY <1>1, <2>1, <2>3
<1>4. Follows(c, g) /\ g.pc # "http"
  <2>1. CASE g = Idle("error")
    <3>1. Sound(g) /\ g.pc = "idle"
      BY <2>1, IdleSound DEF Outcome
    <3> QED
      BY <1>1, <1>2, <3>1 DEF Follows
  <2>2. CASE g = [pc |-> "limit", model |-> m, streaming |-> s,
                  at |-> 0, permit |-> NoPermit, outcome |-> "none"]
    <3>1. g \in Request /\ g.pc = "limit" /\ g.model = m /\ g.at = 0
          /\ g.permit = NoPermit /\ g.outcome = "none"
      BY <2>2 DEF Request, Step, Outcome, NoPermit
    <3>2. Sound(g)
      BY <3>1, RouteTyped DEF Sound
    <3>3. Passed(g) = {}
      BY <3>1 DEF Passed
    <3> QED
      BY <1>1, <1>2, <3>1, <3>2, <3>3 DEF Follows
  <2> QED
    BY <1>2, <2>1, <2>2
<1>5. throttled' \subseteq Limited
  BY <1>1 DEF IInv, TypeOK
<1> QED
  BY <1>1, <1>3, <1>4, <1>5, NoBreaker

(* Thread c gives its backend up, for a good reason. *)
LEMMA GivesUp ==
  ASSUME IInv, NEW c \in Caller, call[c].pc # "idle",
         call' = [call EXCEPT ![c] = GiveUp(call[c])],
         failed \subseteq failed', throttled \subseteq throttled',
         Target(call[c]) \in Unwell'
  PROVE  Follows(c, GiveUp(call[c])) /\ GiveUp(call[c]).pc # "http"
<1> DEFINE r == call[c]
           g == GiveUp(r)
<1>1. Sound(r) /\ r.outcome = "none" /\ Passed(r) \subseteq Unwell
  BY Typed DEF IInv, PassedUnwell
<1>2. Unwell \subseteq Unwell'
  BY DEF Unwell
<1>3. /\ Sound(g) /\ g.pc \in {"idle", "limit"}
      /\ g.pc = "limit" => /\ g.outcome = r.outcome
                           /\ Passed(g) \subseteq Passed(r) \cup {Target(r)}
      /\ g.outcome = "exhausted" /\ r.outcome # "exhausted" =>
           /\ r.model \in Passed(r) \cup {Target(r)}
           /\ ToSet(Route[r.model]) \cap Configured
                \subseteq Passed(r) \cup {Target(r)}
  BY <1>1, GiveUpReturns
<1>4. Passed(r) \cup {Target(r)} \subseteq Unwell'
  BY <1>1, <1>2
<1> HIDE DEF g
<1>5. Follows(c, g)
  BY <1>1, <1>3, <1>4 DEF Follows, g
<1> QED
  BY <1>3, <1>5 DEF g

LEMMA TakeBackendTokenOK ==
  ASSUME IInv, NEW c \in Caller, TakeBackendToken(c)
  PROVE  StepOK
<1> DEFINE b == Target(call[c])
           r == TryConsume(buckets[b], BackendRps, BackendBurst, now)
<1>0. /\ call[c].pc = "limit" /\ Sound(call[c]) /\ call \in [Caller -> Request]
      /\ call[c].outcome = "none" /\ Passed(call[c]) \subseteq Unwell
      /\ buckets \in [Key -> Bucket] /\ throttled \subseteq Limited /\ now \in Nat
  BY Typed DEF TakeBackendToken, IInv, TypeOK, PassedUnwell
<1>1. cbs' = cbs /\ now' = now /\ failed' = failed
  BY DEF TakeBackendToken
<1>2. b \in Limited => r.bucket \in Bucket
  BY <1>0, ConsumeReturns, GatewayAssumption DEF Key
<1>3. /\ buckets' \in [Key -> Bucket]
      /\ throttled \subseteq throttled' /\ throttled' \subseteq Limited
  <2>1. CASE b \in Limited
    <3>1. /\ buckets' = [buckets EXCEPT ![b] = r.bucket]
          /\ throttled' = IF r.allowed THEN throttled ELSE throttled \cup {b}
      BY <2>1 DEF TakeBackendToken
    <3> QED
      BY <1>0, <1>2, <2>1, <3>1
  <2>2. CASE b \notin Limited
    BY <1>0, <2>2 DEF TakeBackendToken
  <2> QED
    BY <2>1, <2>2
<1>4. CASE b \in Limited /\ ~r.allowed
  <2>1. call' = [call EXCEPT ![c] = GiveUp(call[c])] /\ throttled' = throttled \cup {b}
    BY <1>4 DEF TakeBackendToken
  <2>2. Follows(c, GiveUp(call[c])) /\ GiveUp(call[c]).pc # "http"
    BY <1>0, <1>1, <2>1, GivesUp DEF Unwell
  <2> QED
    BY <1>0, <1>1, <1>3, <2>2, NoBreaker
<1>5. CASE ~(b \in Limited /\ ~r.allowed)
  <2>1. call' = [call EXCEPT ![c] = [call[c] EXCEPT !.pc = "admit"]]
    BY <1>5 DEF TakeBackendToken
  <2>2. PICK g : g = [call[c] EXCEPT !.pc = "admit"]
    OBVIOUS
  <2>3. /\ g \in Request /\ g.pc = "admit" /\ g.model = call[c].model
        /\ g.at = call[c].at /\ g.permit = call[c].permit /\ g.outcome = "none"
    BY <1>0, <2>2 DEF Request, Step
  <2>4. Sound(g)
    BY <1>0, <2>3 DEF Sound
  <2>5. Passed(g) = Passed(call[c])
    BY <2>3 DEF Passed
  <2>6. Unwell \subseteq Unwell'
    BY <1>1, <1>3 DEF Unwell
  <2>7. Follows(c, g)
    BY <1>0, <2>1, <2>2, <2>3, <2>4, <2>5, <2>6 DEF Follows
  <2> QED
    BY <1>0, <1>1, <1>3, <2>3, <2>7, NoBreaker
<1> QED
  BY <1>4, <1>5

(* The breaker that is asked: made on first use, or the one that is there. *)
LEMMA BreakerOfReturns ==
  ASSUME IInv, NEW b \in Backend
  PROVE  LET o == BreakerOf(b)
         IN  /\ o \in Breaker /\ o.generation > 0
             /\ \/ o = cbs[b]
                \/ /\ o.state = "CLOSED" /\ cbs[b].state = "CLOSED"
                   /\ cbs[b].generation = 0 /\ o.generation = 1
                   /\ o.consecutiveFailures = 0
                   /\ o.halfOpenCalls = cbs[b].halfOpenCalls
                   /\ o.halfOpenSuccesses = cbs[b].halfOpenSuccesses
<1>1. cbs[b] \in Breaker /\ cbs[b].generation \in Nat
  BY BreakerFields DEF IInv, TypeOK
<1>2. CASE cbs[b] = Unconfigured
  BY <1>2 DEF BreakerOf, Configure, Cleared, Unconfigured, Breaker, CircuitState
<1>3. CASE cbs[b] # Unconfigured
  <2>1. cbs[b].generation # 0
    BY <1>3 DEF IInv, BreakerInv
  <2> QED
    BY <1>1, <1>3, <2>1 DEF BreakerOf
<1> QED
  BY <1>2, <1>3

(* A refusal means a failure before: only an open breaker, or a round that *)
(* followed one, refuses.                                                  *)
LEMMA RefusedIsUnwell ==
  ASSUME IInv, NEW b \in Backend, BreakerOf(b).state # "CLOSED"
  PROVE  b \in Unwell
<1>1. cbs[b].state # "CLOSED"
  BY BreakerOfReturns
<1> QED
  BY <1>1 DEF IInv, FaultsStayApart, Unwell

LEMMA AskPermitOK ==
  ASSUME IInv, NEW c \in Caller, AskPermit(c)
  PROVE  StepOK
<1>0. /\ call[c].pc = "admit" /\ Sound(call[c]) /\ call[c].outcome = "none"
      /\ Passed(call[c]) \subseteq Unwell /\ TypeOK /\ now \in Nat
      /\ cbs \in [Backend -> Breaker]
  BY Typed DEF AskPermit, IInv, TypeOK, PassedUnwell
<1>2. PICK b \in Backend : b = Target(call[c])
  BY <1>0, TargetTyped
<1> DEFINE o == BreakerOf(b)
           r == AllowRequest(o, now)
<1>1. /\ cbs' = [cbs EXCEPT ![b] = r.cb]
      /\ buckets' = buckets /\ now' = now
      /\ failed' = failed /\ throttled' = throttled
  BY <1>2 DEF AskPermit
<1>3. /\ o \in Breaker /\ o.generation > 0 /\ o.generation \in Nat
      /\ \/ o = cbs[b]
         \/ /\ o.state = "CLOSED" /\ cbs[b].state = "CLOSED"
            /\ cbs[b].generation = 0 /\ o.generation = 1
            /\ o.consecutiveFailures = 0
            /\ o.halfOpenCalls = cbs[b].halfOpenCalls
            /\ o.halfOpenSuccesses = cbs[b].halfOpenSuccesses
  BY <1>2, BreakerOfReturns, BreakerFields
<1>4. AllowFacts(o, r)
  BY <1>0, <1>3, AllowReturns
<1>5. o.state # "CLOSED" => b \in Unwell
  BY <1>2, RefusedIsUnwell
<1>6. PICK g : /\ call' = [call EXCEPT ![c] = g]
               /\ g = IF r.permit = NoPermit THEN GiveUp(call[c])
                      ELSE [call[c] EXCEPT !.pc = "http", !.permit = r.permit]
  BY <1>2 DEF AskPermit
<1> HIDE DEF o, r
<1>7. /\ r.cb \in Breaker /\ cbs'[b] = r.cb /\ cbs' \in [Backend -> Breaker]
      /\ \A d \in Backend \ {b} : cbs'[d] = cbs[d]
      /\ r.cb.generation \in Nat /\ cbs[b].generation \in Nat
      /\ r.cb.generation >= cbs[b].generation /\ r.cb.generation > 0
  <2>1. r.cb \in Breaker /\ r.cb.generation \in {o.generation, o.generation + 1}
    BY <1>4 DEF AllowFacts, NewRound
  <2>2. cbs[b].generation \in Nat
    BY <1>0, <1>2, BreakerFields
  <2> QED
    BY <1>0, <1>1, <1>2, <1>3, <2>1, <2>2
<1>8. CASE r.permit = NoPermit
  <2>1. r.cb = o /\ o.state # "CLOSED" /\ o = cbs[b]
    BY <1>3, <1>4, <1>8 DEF AllowFacts, NoPermit
  <2>2. cbs' = cbs
    BY <1>0, <1>1, <2>1
  <2>3. Follows(c, GiveUp(call[c])) /\ GiveUp(call[c]).pc # "http"
    BY <1>0, <1>1, <1>2, <1>5, <1>6, <1>8, <2>1, GivesUp DEF Unwell
  <2>4. buckets' \in [Key -> Bucket] /\ throttled' \subseteq Limited
    BY <1>0, <1>1 DEF TypeOK
  <2> QED
    BY <1>0, <1>1, <2>2, <2>3, <2>4, NoBreaker
<1>9. CASE r.permit # NoPermit
  <2>1. /\ r.permit \in Nat /\ r.permit = r.cb.generation
    BY <1>3, <1>4, <1>9 DEF AllowFacts, NewRound
  <2>2. g = [call[c] EXCEPT !.pc = "http", !.permit = r.permit]
    BY <1>6, <1>9
  <2>3. /\ g \in Request /\ g.pc = "http" /\ g.model = call[c].model
        /\ g.at = call[c].at /\ g.permit = r.permit /\ g.outcome = "none"
    BY <1>0, <2>1, <2>2 DEF Sound, Request, Step
  <2>4. Sound(g) /\ Target(g) = b /\ Passed(g) = Passed(call[c])
    BY <1>0, <1>2, <1>9, <2>3 DEF Sound, Target, Passed
  <2>5. Follows(c, g)
    BY <1>0, <1>1, <1>6, <2>3, <2>4 DEF Follows, Unwell
  <2>6. PassedUnwell' /\ ServesStep
    BY <1>1, <2>5, FollowsServes
  <2>7. TypeOK'
    <3>1. \A d \in Backend : cbs'[d].generation >= cbs[d].generation
      BY <1>0, <1>7, BreakerFields
    <3>2. g.permit <= cbs'[Target(g)].generation
      BY <1>7, <2>1, <2>3, <2>4
    <3> QED
      BY <1>0, <1>1, <1>7, <2>5, <3>1, <3>2, FollowsTyped DEF TypeOK
  <2>8. \A d \in Backend \ {b} : Moved(d)
    BY <1>0, <1>7, <2>4, <2>5, Untouched
  <2>9. Moved(b)
    <3>0. c \notin Holders(b)
      BY <1>0 DEF Holders
    <3>1. /\ cbs'[b].generation = cbs[b].generation
               => Holders(b)' = Holders(b) \cup {c}
          /\ cbs'[b].generation = cbs[b].generation + 1 => Holders(b)' = {c}
      <4>1. g.pc = "http" /\ Target(g) = b /\ g.permit = cbs'[b].generation
        BY <1>7, <2>1, <2>3, <2>4
      <4> QED
        BY <1>0, <1>2, <2>5, <4>1, HoldersMove
    <3>2. CASE o.state = "CLOSED"
      <4>1. r.cb = o
        BY <1>4, <3>2 DEF AllowFacts, NewRound
      <4>2. Quiet(b)
        BY <1>3, <1>7, <3>2, <4>1 DEF Quiet
      <4> QED
        BY <1>7, <4>2 DEF Moved
    <3>3. CASE o.state = "OPEN" /\ NewRound(o, r.cb, "HALF_OPEN", 1)
      <4>1. Started(b, c)
        BY <1>3, <1>7, <3>1, <3>3 DEF NewRound, Started
      <4> QED
        BY <1>7, <4>1 DEF Moved
    <3>4. CASE /\ o.state = "HALF_OPEN" /\ r.cb.state = "HALF_OPEN"
               /\ o.halfOpenCalls < halfOpenMaxCalls
               /\ r.cb.generation = o.generation
               /\ r.cb.halfOpenCalls = o.halfOpenCalls + 1
               /\ r.cb.halfOpenSuccesses = o.halfOpenSuccesses
      <4>1. Joined(b, c)
        BY <1>3, <1>7, <3>0, <3>1, <3>4 DEF Joined
      <4> QED
        BY <1>7, <4>1 DEF Moved
    <3> QED
      BY <1>4, <1>9, <3>2, <3>3, <3>4 DEF AllowFacts
  <2>10. FaultsStayApart'
    <3>1. b \notin failed => cbs'[b].state = "CLOSED" /\ cbs'[b].consecutiveFailures = 0
      <4> SUFFICES ASSUME b \notin failed
                   PROVE  cbs'[b].state = "CLOSED" /\ cbs'[b].consecutiveFailures = 0
        OBVIOUS
      <4>1. cbs[b].state = "CLOSED" /\ cbs[b].consecutiveFailures = 0
        BY <1>2 DEF IInv, FaultsStayApart
      <4>2. o.state = "CLOSED" /\ o.consecutiveFailures = 0
        BY <1>3, <4>1
      <4>3. r.cb = o
        BY <1>4, <4>2 DEF AllowFacts, NewRound
      <4> QED
        BY <1>7, <4>2, <4>3
    <3> QED
      BY <1>1, <1>7, <3>1 DEF IInv, FaultsStayApart
  <2> QED
    BY <2>6, <2>7, <2>8, <2>9, <2>10 DEF StepOK
<1> QED
  BY <1>8, <1>9

(* The end of an HTTP request, however it is reported. *)
LEMMA ReportMoves ==
  ASSUME IInv, NEW c \in Caller, NEW g, Follows(c, g),
         call[c].pc = "http", g.pc # "http",
         NEW b \in Backend, b = Target(call[c]),
         NEW d, cbs' = [cbs EXCEPT ![b] = d],
         \/ SuccessFacts(cbs[b], call[c].permit, d)
         \/ FailureFacts(cbs[b], call[c].permit, d),
         now' = now, buckets' = buckets, throttled' = throttled,
         failed \subseteq failed', failed' \subseteq Backend
  PROVE  TypeOK' /\ PassedUnwell' /\ ServesStep /\ \A e \in Backend : Moved(e)
<1>0. /\ TypeOK /\ cbs \in [Backend -> Breaker] /\ cbs[b] \in Breaker
      /\ cbs[b].generation \in Nat /\ call[c].permit \in Nat \ {0}
      /\ call[c].permit <= cbs[b].generation
      /\ cbs[b].state \in {"CLOSED", "OPEN", "HALF_OPEN"}
  BY Typed, RequestFields, BreakerFields DEF IInv, Sound, NoPermit
<1>1. /\ d \in Breaker /\ cbs'[b] = d /\ cbs' \in [Backend -> Breaker]
      /\ \A e \in Backend \ {b} : cbs'[e] = cbs[e]
      /\ d.generation \in {cbs[b].generation, cbs[b].generation + 1}
  BY <1>0 DEF SuccessFacts, FailureFacts, SameRound, NewRound
<1>2. cbs'[b].generation > 0
  BY <1>0, <1>1
<1>3. PassedUnwell' /\ ServesStep
  BY FollowsServes
<1>4. TypeOK'
  <2>1. \A e \in Backend : cbs'[e].generation >= cbs[e].generation
    BY <1>0, <1>1, BreakerFields
  <2>2. buckets' \in [Key -> Bucket] /\ throttled' \subseteq Limited
    BY <1>0 DEF TypeOK
  <2> QED
    BY <1>0, <1>1, <2>1, <2>2, FollowsTyped
<1>5. \A e \in Backend \ {b} : Moved(e)
  BY <1>0, <1>1, Untouched
<1>6. /\ d.generation = cbs[b].generation => Holders(b)' = Holders(b) \ {c}
      /\ d.generation = cbs[b].generation + 1 => Holders(b)' = {}
  BY <1>0, <1>1, HoldersMove
<1>7. c \in Holders(b) <=> call[c].permit = cbs[b].generation
  BY DEF Holders
<1>8. Moved(b)
  <2>1. CASE /\ SameRound(cbs[b], d)
             /\ call[c].permit # cbs[b].generation \/ cbs[b].state # "HALF_OPEN"
    <3>1. cbs[b].state # "CLOSED" => c \notin Holders(b)
      BY <1>7, <2>1, <1>0 DEF IInv, BreakerInv
    <3>2. cbs[b].state # "CLOSED" => Holders(b)' = Holders(b)
      BY <1>6, <2>1, <3>1 DEF SameRound
    <3>3. Quiet(b)
      BY <1>1, <2>1, <3>2 DEF SameRound, Quiet
    <3> QED
      BY <1>2, <3>3 DEF Moved
  <2>2. CASE /\ cbs[b].state = "HALF_OPEN" /\ call[c].permit = cbs[b].generation
             /\ d.state = "HALF_OPEN" /\ d.generation = cbs[b].generation
             /\ d.halfOpenCalls = cbs[b].halfOpenCalls
             /\ d.halfOpenSuccesses = cbs[b].halfOpenSuccesses + 1
             /\ ~RoundSucceeded(d)
    <3>1. Progressed(b, c)
      BY <1>1, <1>6, <1>7, <2>2 DEF Progressed
    <3> QED
      BY <1>2, <3>1 DEF Moved
  <2>3. CASE /\ cbs[b].state = "HALF_OPEN" /\ call[c].permit = cbs[b].generation
             /\ NewRound(cbs[b], d, "CLOSED", 0)
             /\ cbs[b].halfOpenSuccesses + 1 >= successThreshold
             /\ cbs[b].halfOpenSuccesses + 1 = cbs[b].halfOpenCalls
    <3>1. Won(b, c)
      BY <1>1, <1>7, <2>3 DEF NewRound, Won
    <3> QED
      BY <1>2, <3>1 DEF Moved
  <2>4. CASE /\ call[c].permit = cbs[b].generation /\ cbs[b].state # "OPEN"
             /\ NewRound(cbs[b], d, "OPEN", 0)
    <3>1. Tripped(b, c)
      BY <1>1, <1>6, <1>7, <2>4 DEF NewRound, Tripped
    <3> QED
      BY <1>2, <3>1 DEF Moved
  <2> QED
    BY <2>1, <2>2, <2>3, <2>4 DEF SuccessFacts, FailureFacts
<1> QED
  BY <1>3, <1>4, <1>5, <1>8

LEMMA SucceededOK ==
  ASSUME IInv, NEW c \in Caller, Answered(c) \/ Rejected(c)
  PROVE  StepOK
<1> DEFINE b == Target(call[c])
           d == ReportSuccess(cbs[b], call[c].permit, now)
<1>0. /\ call[c].pc = "http" /\ Sound(call[c]) /\ cbs \in [Backend -> Breaker]
      /\ now \in Nat /\ failed \subseteq Backend
  BY Typed DEF Answered, Rejected, IInv
<1>1. /\ cbs' = [cbs EXCEPT ![b] = d]
      /\ now' = now /\ buckets' = buckets
      /\ failed' = failed /\ throttled' = throttled
  BY DEF Answered, Rejected, Success, ReportsTo
<1>2. PICK g : g \in {Idle("ok"), Idle("error")} /\ call' = [call EXCEPT ![c] = g]
  BY DEF Answered, Rejected
<1>3. Sound(g) /\ g.pc = "idle" /\ g.outcome # "exhausted"
  BY <1>2, IdleSound DEF Outcome
<1>4. Follows(c, g)
  BY <1>2, <1>3 DEF Follows
<1>5. b \in Backend /\ cbs[b] \in Breaker /\ call[c].permit \in Nat
  BY <1>0, TargetTyped, RequestFields DEF Sound
<1>6. SuccessFacts(cbs[b], call[c].permit, d)
  BY <1>0, <1>5, SuccessReturns
<1> HIDE DEF b, d
<1>7. TypeOK' /\ PassedUnwell' /\ ServesStep /\ \A e \in Backend : Moved(e)
  BY <1>0, <1>1, <1>3, <1>4, <1>5, <1>6, ReportMoves DEF b
<1>8. FaultsStayApart'
  <2>1. ASSUME NEW e \in Backend \ failed
        PROVE  cbs'[e].state = "CLOSED" /\ cbs'[e].consecutiveFailures = 0
    <3>1. cbs[e].state = "CLOSED" /\ cbs[e].consecutiveFailures = 0
      BY DEF IInv, FaultsStayApart
    <3>2. CASE e = b
      <4>1. cbs'[e] = d
        BY <1>0, <1>1, <1>5, <3>2
      <4> QED
        BY <1>6, <3>1, <3>2, <4>1 DEF SuccessFacts, SameRound
    <3>3. CASE e # b
      BY <1>0, <1>1, <3>1, <3>3
    <3> QED
      BY <3>2, <3>3
  <2> QED
    BY <1>1, <2>1 DEF FaultsStayApart
<1> QED
  BY <1>7, <1>8 DEF StepOK

LEMMA UnavailableOK ==
  ASSUME IInv, NEW c \in Caller, Unavailable(c)
  PROVE  StepOK
<1> DEFINE b == Target(call[c])
           d == ReportFailure(cbs[b], call[c].permit, now)
           g == GiveUp(call[c])
<1>0. /\ call[c].pc = "http" /\ Sound(call[c]) /\ cbs \in [Backend -> Breaker]
      /\ now \in Nat /\ failed \subseteq Backend
  BY Typed DEF Unavailable, IInv
<1>1. /\ cbs' = [cbs EXCEPT ![b] = d]
      /\ now' = now /\ buckets' = buckets /\ throttled' = throttled
      /\ failed' = failed \cup {b} /\ call' = [call EXCEPT ![c] = g]
  BY DEF Unavailable, Failure, ReportsTo
<1>2. b \in Backend /\ cbs[b] \in Breaker /\ call[c].permit \in Nat
  BY <1>0, TargetTyped, RequestFields DEF Sound
<1>3. FailureFacts(cbs[b], call[c].permit, d)
  BY <1>0, <1>2, FailureReturns
<1>4. Follows(c, g) /\ g.pc # "http"
  BY <1>0, <1>1, GivesUp DEF Unwell
<1> HIDE DEF b, d, g
<1>5. TypeOK' /\ PassedUnwell' /\ ServesStep /\ \A e \in Backend : Moved(e)
  <2>1. failed \subseteq failed' /\ failed' \subseteq Backend
    BY <1>0, <1>1, <1>2
  <2> QED
    BY <1>0, <1>1, <1>2, <1>3, <1>4, <2>1, ReportMoves DEF b
<1>6. FaultsStayApart'
  BY <1>0, <1>1 DEF IInv, FaultsStayApart
<1> QED
  BY <1>5, <1>6 DEF StepOK

LEMMA StillOK ==
  ASSUME IInv, UNCHANGED vars \/ Tick
  PROVE  StepOK
<1>1. /\ cbs' = cbs /\ call' = call /\ buckets' = buckets
      /\ failed' = failed /\ throttled' = throttled
      /\ now' \in {now, now + 1}
  BY DEF vars, Tick
<1>2. TypeOK'
  <2>1. TypeOK
    BY DEF IInv
  <2>2. now' \in Nat \ {0}
    BY <1>1, <2>1 DEF TypeOK
  <2> QED
    BY <1>1, <2>1, <2>2 DEF TypeOK, Target
<1>3. \A b \in Backend : Holders(b)' = Holders(b)
  BY <1>1 DEF Holders, Target
<1>4. \A b \in Backend : Moved(b)
  BY <1>1, <1>3 DEF Moved, Quiet
<1>5. FaultsStayApart' /\ PassedUnwell'
  BY <1>1 DEF IInv, FaultsStayApart, PassedUnwell, Passed, Unwell
<1>6. ServesStep
  BY <1>1 DEF ServesStep, IInv, PassedUnwell
<1> QED
  BY <1>2, <1>4, <1>5, <1>6 DEF StepOK

LEMMA NextOK == IInv /\ [Next]_vars => StepOK
<1> SUFFICES ASSUME IInv, [Next]_vars PROVE StepOK
  OBVIOUS
<1>1. ASSUME NEW c \in Caller, Proceed(c) PROVE StepOK
  BY <1>1, TakeBackendTokenOK, AskPermitOK, SucceededOK, UnavailableOK DEF Proceed
<1>2. ASSUME NEW c \in Caller, NEW u \in User, NEW m \in Backend,
             NEW s \in BOOLEAN, Begin(c, u, m, s)
      PROVE  StepOK
  BY <1>2, BeginOK
<1> QED
  BY <1>1, <1>2, StillOK DEF Next

-----------------------------------------------------------------------------
LEMMA NextInv == IInv /\ [Next]_vars => IInv'
<1> SUFFICES ASSUME IInv, [Next]_vars PROVE IInv'
  OBVIOUS
<1>1. StepOK
  BY NextOK
<1>2. \A b \in Backend : BreakerInv(b)'
  BY <1>1, MovedKeeps DEF StepOK, IInv
<1>3. (\A b \in Backend : BreakerInv(b))'
  BY <1>2
<1> QED
  BY <1>1, <1>3 DEF StepOK, IInv

(* A breaker that init() or nobody has made: closed, with nothing counted. *)
LEMMA FreshBreaker ==
  ASSUME Init, NEW b \in Backend
  PROVE  /\ cbs[b] \in Breaker /\ cbs[b].state = "CLOSED"
         /\ cbs[b].consecutiveFailures = 0
         /\ cbs[b].halfOpenCalls = 0 /\ cbs[b].halfOpenSuccesses = 0
         /\ cbs[b].generation = 0 => cbs[b] = Unconfigured
<1>1. cbs[b] = IF b \in Configured THEN Configure(Configure(Unconfigured))
                                   ELSE Unconfigured
  BY DEF Init
<1> QED
  BY <1>1 DEF Configure, Cleared, Unconfigured, Breaker, CircuitState

LEMMA InitInv == Init => IInv
<1> SUFFICES ASSUME Init PROVE IInv
  OBVIOUS
<1>1. \A c \in Caller : call[c] = Idle("none")
  BY DEF Init
<1>2. Sound(Idle("none")) /\ Idle("none").pc = "idle"
  BY IdleSound DEF Outcome
<1>3. TypeOK
  <2>1. cbs \in [Backend -> Breaker]
    BY FreshBreaker DEF Init
  <2>2. buckets \in [Key -> Bucket]
    <3>1. NewBucket(BackendBurst, 1) \in Bucket /\ NoBucket \in Bucket
      BY GatewayAssumption DEF NewBucket, NoBucket, Bucket
    <3> QED
      BY <3>1 DEF Init
  <2>3. call \in [Caller -> Request]
    BY <1>2 DEF Init, Sound
  <2> QED
    BY <1>1, <1>2, <2>1, <2>2, <2>3, Typed DEF Init
<1>4. \A b \in Backend : BreakerInv(b)
  BY FreshBreaker DEF BreakerInv
<1>5. FaultsStayApart /\ PassedUnwell
  BY <1>1, <1>2, FreshBreaker DEF FaultsStayApart, PassedUnwell
<1> QED
  BY <1>3, <1>4, <1>5 DEF IInv

LEMMA Invariance == Spec => []IInv
BY InitInv, NextInv, PTL DEF Spec

(***************************************************************************)
(* Requests, permits, breakers and buckets keep their types: a thread      *)
(* holds a permit exactly while its HTTP request is out, and never one of  *)
(* a generation its backend's breaker has not reached.                     *)
(***************************************************************************)
THEOREM TypeCorrect == Spec => []TypeOK
<1>1. IInv => TypeOK
  BY DEF IInv
<1> QED
  BY <1>1, Invariance, PTL

(***************************************************************************)
(* Whatever way requests end, admissions at a backend are successes and    *)
(* calls still out (tryBackend, call and callStreaming report on every     *)
(* path that follows an admission).                                        *)
(***************************************************************************)
THEOREM PermitsAccounted == Spec => []PermitAccounting
<1>1. IInv => PermitAccounting
  <2> SUFFICES ASSUME IInv, NEW b \in Backend, cbs[b].state = "HALF_OPEN"
               PROVE  cbs[b].halfOpenCalls =
                        cbs[b].halfOpenSuccesses + Cardinality(Probing(b))
    BY DEF PermitAccounting
  <2>1. Probing(b) = Holders(b)
    BY DEF Probing, Holders
  <2> QED
    BY <2>1 DEF IInv, BreakerInv
<1> QED
  BY <1>1, Invariance, PTL

(***************************************************************************)
(* A backend that has never failed a call itself has a closed breaker with *)
(* no failure on its count, for any routes between the backends.           *)
(***************************************************************************)
THEOREM FaultsApart == Spec => []FaultsStayApart
<1>1. IInv => FaultsStayApart
  BY DEF IInv
<1> QED
  BY <1>1, Invariance, PTL

(***************************************************************************)
(* call() gives up only when every backend of its route has failed a call  *)
(* or refused one for want of tokens, for any routing table.               *)
(***************************************************************************)
THEOREM FallbackServes == Spec => HealthyFallbackServes
<1>1. IInv /\ [Next]_vars =>
        [\A c \in Caller :
           call[c].pc # "idle" /\ call'[c].outcome = "exhausted" =>
             /\ call[c].model \in Unwell'
             /\ ToSet(Route[call[c].model]) \cap Configured \subseteq Unwell']_vars
  BY NextOK DEF StepOK, ServesStep
<1> QED
  BY <1>1, Invariance, PTL DEF Spec, HealthyFallbackServes

(***************************************************************************)
(* Every backend's breaker, whoever uses it and in whatever role, keeps    *)
(* the contract of BreakerContract.                                        *)
(***************************************************************************)
THEOREM ContractKept == Spec => BreakersKeepContract
<1>1. Init => \A b \in Backend : Contract(b)!Init
  BY FreshBreaker DEF Contract!Init, Probing
<1>2. IInv /\ [Next]_vars =>
        [\A b \in Backend :
          \/ Contract(b)!Next
          \/ UNCHANGED <<cbs[b].state, Probing(b), cbs[b].halfOpenCalls>>]_vars
  BY NextOK, MovedIsContract DEF StepOK, IInv
<1> QED
  BY <1>1, <1>2, Invariance, PTL DEF Spec, BreakersKeepContract
=============================================================================
