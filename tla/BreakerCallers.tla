--------------------------- MODULE BreakerCallers ---------------------------
(***************************************************************************)
(* One breaker and the business threads that call its backend: a thread    *)
(* asks for a permit, performs the HTTP request outside the breaker's      *)
(* mutex for as long as it takes, and reports the outcome with the permit  *)
(* it was given, by which time the breaker may be several generations on.  *)
(***************************************************************************)
EXTENDS CircuitBreaker, FiniteSets

CONSTANTS Caller,         \* threads of the business pool
          MaxNow,         \* bound: the clock stops here
          MaxGeneration   \* bound: no admission from this generation on

ASSUME CallersAssumption ==
  /\ IsFiniteSet(Caller)
  /\ MaxNow \in Nat
  /\ MaxGeneration \in Nat

VARIABLES cb,       \* the breaker
          permit,   \* permit each caller's outstanding call holds
          now       \* steady_clock in milliseconds; 0 is the "never" sentinel

vars == <<cb, permit, now>>

Init ==
  /\ cb = Configure(Unconfigured)
  /\ permit = [c \in Caller |-> NoPermit]
  /\ now = 1

(* allowRequest().  A refused caller holds nothing and may ask again. *)
Request(c) ==
  /\ permit[c] = NoPermit
  /\ cb.generation < MaxGeneration
  /\ LET answer == AllowRequest(cb, now)
     IN  /\ cb' = answer.cb
         /\ permit' = [permit EXCEPT ![c] = answer.permit]
  /\ UNCHANGED now

(* The call ends well, or with an HTTP error that proves the backend is    *)
(* reachable: reportSuccess().                                             *)
Succeed(c) ==
  /\ permit[c] # NoPermit
  /\ cb' = ReportSuccess(cb, permit[c], now)
  /\ permit' = [permit EXCEPT ![c] = NoPermit]
  /\ UNCHANGED now

(* The call times out, fails, or is refused as unavailable: reportFailure(). *)
Fail(c) ==
  /\ permit[c] # NoPermit
  /\ cb' = ReportFailure(cb, permit[c], now)
  /\ permit' = [permit EXCEPT ![c] = NoPermit]
  /\ UNCHANGED now

Tick ==
  /\ now < MaxNow
  /\ now' = now + 1
  /\ UNCHANGED <<cb, permit>>

Complete(c) == Succeed(c) \/ Fail(c)

Next ==
  \/ \E c \in Caller : Request(c) \/ Complete(c)
  \/ Tick

Spec == Init /\ [][Next]_vars

(* curl's CURLOPT_TIMEOUT_MS ends every HTTP request, so every admitted    *)
(* call is reported; nobody promises that anyone calls.                    *)
FairSpec == Spec /\ \A c \in Caller : WF_vars(Complete(c))

-----------------------------------------------------------------------------
(* Callers whose outstanding call was admitted in the current generation. *)
Holders == {c \in Caller : permit[c] = cb.generation}

(* The probes of the present round that have not reported yet. *)
Probing == IF cb.state = "HALF_OPEN" THEN Holders ELSE {}

TypeOK ==
  /\ cb \in Breaker
  /\ cb.generation >= 1
  /\ permit \in [Caller -> 0..cb.generation]
  /\ now \in Nat \ {0}

(***************************************************************************)
(* Every probe admitted in a round has succeeded or is still out: the two  *)
(* counters and the calls in flight agree, however many late reports of    *)
(* earlier generations arrive in between.                                  *)
(***************************************************************************)
ProbeAccounting ==
  cb.state = "HALF_OPEN" =>
    cb.halfOpenCalls = cb.halfOpenSuccesses + Cardinality(Probing)

(***************************************************************************)
(* HALF_OPEN has no timer: once the round has used its admissions only a   *)
(* report can end it.  So a round that admits nobody must have a probe     *)
(* out; otherwise the backend would be refused for ever.                   *)
(***************************************************************************)
NeverWedged ==
  cb.state = "HALF_OPEN" /\ cb.halfOpenCalls >= halfOpenMaxCalls
    => Probing # {}

(***************************************************************************)
(* While the breaker is open no outstanding call can still change it: the  *)
(* calls admitted before the trip all belong to earlier generations.       *)
(***************************************************************************)
OpenIsSettled == cb.state = "OPEN" => Holders = {}

(***************************************************************************)
(* A saturated probe round ends: the breaker leaves HALF_OPEN.             *)
(***************************************************************************)
SaturatedRoundEnds ==
  (cb.state = "HALF_OPEN" /\ cb.halfOpenCalls >= halfOpenMaxCalls)
    ~> cb.state # "HALF_OPEN"

(***************************************************************************)
(* What the callers may rely on, without generations and success counts.   *)
(***************************************************************************)
Contract == INSTANCE BreakerContract
  WITH mode <- cb.state, probing <- Probing, admitted <- cb.halfOpenCalls,
       MaxProbes <- halfOpenMaxCalls, MinProbes <- successThreshold

ContractSpec == Contract!Spec
=============================================================================
