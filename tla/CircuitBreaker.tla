--------------------------- MODULE CircuitBreaker ---------------------------
(***************************************************************************)
(* The circuit breaker of the LLM gateway, one per backend.  Each method   *)
(* of the class runs under the breaker's mutex, so each is one operator    *)
(* from a breaker record (and the clock) to the next breaker record.       *)
(* BreakerCallers and LLMGateway build their actions from these operators. *)
(***************************************************************************)
EXTENDS Integers

CONSTANTS FailureThreshold,       \* the five values of the "circuit_breaker"
          FailureResetTimeoutMs,  \* section of gateway_config.json, as read:
          RecoveryTimeoutMs,      \* any integer, before configure() corrects
          HalfOpenMaxCalls,       \* them
          SuccessThreshold

ASSUME BreakerConfigAssumption ==
  /\ FailureThreshold \in Int
  /\ FailureResetTimeoutMs \in Int
  /\ RecoveryTimeoutMs \in Int
  /\ HalfOpenMaxCalls \in Int
  /\ SuccessThreshold \in Int

AtLeast(low, v) == IF v < low THEN low ELSE v
AtMost(high, v) == IF v > high THEN high ELSE v

(* The settings as configure() corrects them. *)
failureThreshold      == AtLeast(1, FailureThreshold)
failureResetTimeoutMs == AtLeast(1, FailureResetTimeoutMs)
recoveryTimeoutMs     == AtLeast(0, RecoveryTimeoutMs)
halfOpenMaxCalls      == AtLeast(1, HalfOpenMaxCalls)
uncappedThreshold     == AtLeast(1, SuccessThreshold)   \* variant of the next: no cap
successThreshold      == AtMost(halfOpenMaxCalls, AtLeast(1, SuccessThreshold))

CircuitState == {"CLOSED", "OPEN", "HALF_OPEN"}

(* A permit is the generation that admitted the call; 0 is std::nullopt, a *)
(* value no generation has once the breaker is configured.                 *)
NoPermit == 0

Breaker == [state               : CircuitState,
            generation          : Nat,
            consecutiveFailures : Nat,
            lastFailureTimeMs   : Nat,   \* 0: no failure yet
            openedTimeMs        : Nat,
            halfOpenCalls       : Nat,
            halfOpenSuccesses   : Nat]

Unconfigured == [state |-> "CLOSED", generation |-> 0,
                 consecutiveFailures |-> 0, lastFailureTimeMs |-> 0,
                 openedTimeMs |-> 0, halfOpenCalls |-> 0,
                 halfOpenSuccesses |-> 0]

(* Variant of Cleared: the generation is reset with the counters. *)
ClearedEntirely(cb) == [Unconfigured EXCEPT !.generation = 1]

(* A closed breaker with every counter cleared, in the next generation:    *)
(* what configure() leaves, and what a successful probe round leaves.      *)
Cleared(cb) == [Unconfigured EXCEPT !.generation = cb.generation + 1]

Configure(cb) == Cleared(cb)

(* A move to OPEN or HALF_OPEN: the next generation, no probe counted yet. *)
MoveTo(cb, state, openedTimeMs) ==
  [state |-> state, generation |-> cb.generation + 1,
   consecutiveFailures |-> cb.consecutiveFailures,
   lastFailureTimeMs |-> cb.lastFailureTimeMs,
   openedTimeMs |-> openedTimeMs, halfOpenCalls |-> 0, halfOpenSuccesses |-> 0]

-----------------------------------------------------------------------------
(* allowRequest *)

Refuse(cb) == [cb |-> cb, permit |-> NoPermit]

(* Variant of AdmitProbe: one admission too many. *)
AdmitProbeOverLimit(cb) ==
  IF cb.halfOpenCalls > halfOpenMaxCalls
    THEN Refuse(cb)
    ELSE [cb |-> [cb EXCEPT !.halfOpenCalls = @ + 1], permit |-> cb.generation]

(* The HALF_OPEN branch: at most halfOpenMaxCalls admissions per round,    *)
(* counted when admitted and never given back.                             *)
AdmitProbe(cb) ==
  IF cb.halfOpenCalls >= halfOpenMaxCalls
    THEN Refuse(cb)
    ELSE [cb     |-> [cb EXCEPT !.halfOpenCalls = @ + 1],
          permit |-> cb.generation]

EnterHalfOpen(cb) == MoveTo(cb, "HALF_OPEN", cb.openedTimeMs)

AllowRequest(cb, now) ==
  CASE cb.state = "CLOSED"    -> [cb |-> cb, permit |-> cb.generation]
    [] cb.state = "OPEN"      -> IF now - cb.openedTimeMs >= recoveryTimeoutMs
                                   THEN AdmitProbe(EnterHalfOpen(cb))
                                   ELSE Refuse(cb)
    [] cb.state = "HALF_OPEN" -> AdmitProbe(cb)

-----------------------------------------------------------------------------
(* reportSuccess and reportFailure *)

(* Variant of SuccessWhileClosed: any success clears the failure count. *)
SuccessAlwaysClears(cb, now) == [cb EXCEPT !.consecutiveFailures = 0]

SuccessWhileClosed(cb, now) ==
  IF \/ cb.lastFailureTimeMs = 0
     \/ now - cb.lastFailureTimeMs >= failureResetTimeoutMs
    THEN [cb EXCEPT !.consecutiveFailures = 0]
    ELSE cb

(* Variant of RoundSucceeded: the threshold has to be exceeded. *)
RoundExceeded(cb) ==
  /\ cb.halfOpenSuccesses > successThreshold
  /\ cb.halfOpenSuccesses = cb.halfOpenCalls

(* The round closes the breaker only when the admitted probes have all     *)
(* succeeded, whatever successThreshold is.                                *)
RoundSucceeded(cb) ==
  /\ cb.halfOpenSuccesses >= successThreshold
  /\ cb.halfOpenSuccesses = cb.halfOpenCalls

ProbeSuccess(cb) ==
  LET counted == [cb EXCEPT !.halfOpenSuccesses = @ + 1]
  IN  IF RoundSucceeded(counted) THEN Cleared(counted) ELSE counted

(* Variant of ReportSuccess: a late result counts like any other. *)
ReportLateSuccess(cb, permit, now) ==
  CASE cb.state = "CLOSED"    -> SuccessWhileClosed(cb, now)
    [] cb.state = "HALF_OPEN" -> ProbeSuccess(cb)
    [] cb.state = "OPEN"      -> cb

(* A result whose permit is of an earlier generation is dropped. *)
ReportSuccess(cb, permit, now) ==
  IF permit # cb.generation THEN cb
  ELSE CASE cb.state = "CLOSED"    -> SuccessWhileClosed(cb, now)
         [] cb.state = "HALF_OPEN" -> ProbeSuccess(cb)
         [] cb.state = "OPEN"      -> cb

(* Variant of Trip: the calls in flight keep a valid permit. *)
TripSameGeneration(cb, now) ==
  [MoveTo(cb, "OPEN", now) EXCEPT !.generation = cb.generation]

Trip(cb, now) == MoveTo(cb, "OPEN", now)

(* The count a failure at now makes: a failure that comes                  *)
(* failureResetTimeoutMs or more after the previous one counts as a first. *)
FailureCount(cb, now) ==
  IF /\ cb.lastFailureTimeMs > 0
     /\ now - cb.lastFailureTimeMs >= failureResetTimeoutMs
    THEN 1
    ELSE cb.consecutiveFailures + 1

FailureWhileClosed(cb, now) ==
  LET counted == [cb EXCEPT !.consecutiveFailures = FailureCount(cb, now),
                            !.lastFailureTimeMs = now]
  IN  IF counted.consecutiveFailures >= failureThreshold
        THEN Trip(counted, now)
        ELSE counted

(* Variant of ReportFailure: a late result counts like any other. *)
ReportLateFailure(cb, permit, now) ==
  CASE cb.state = "CLOSED"    -> FailureWhileClosed(cb, now)
    [] cb.state = "HALF_OPEN" -> Trip(cb, now)
    [] cb.state = "OPEN"      -> cb

ReportFailure(cb, permit, now) ==
  IF permit # cb.generation THEN cb
  ELSE CASE cb.state = "CLOSED"    -> FailureWhileClosed(cb, now)
         [] cb.state = "HALF_OPEN" -> Trip(cb, now)
         [] cb.state = "OPEN"      -> cb
=============================================================================
