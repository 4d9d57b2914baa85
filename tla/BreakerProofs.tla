---------------------------- MODULE BreakerProofs ----------------------------
(***************************************************************************)
(* Proofs about BreakerCallers and BreakerTrips, for every set of callers, *)
(* every clock and generation bound and every configuration, corrected or  *)
(* not.                                                                    *)
(***************************************************************************)
EXTENDS BreakerTrips, SequenceTheorems, FiniteSetTheorems, TLAPS

(* What configure() guarantees of the settings. *)
LEMMA Settings ==
  /\ failureThreshold \in Nat \ {0}
  /\ failureResetTimeoutMs \in Nat \ {0}
  /\ recoveryTimeoutMs \in Nat
  /\ halfOpenMaxCalls \in Nat \ {0}
  /\ successThreshold \in 1..halfOpenMaxCalls
BY BreakerConfigAssumption
   DEF failureThreshold, failureResetTimeoutMs, recoveryTimeoutMs,
       halfOpenMaxCalls, successThreshold, AtLeast, AtMost

-----------------------------------------------------------------------------
(* TypeOK and the four facts that make it inductive: the accounting, the   *)
(* counters at rest outside a round, nobody holding the generation of an   *)
(* open breaker, and a round that is within its limits and not yet won.    *)

CountersAtRest ==
  cb.state # "HALF_OPEN" => cb.halfOpenCalls = 0 /\ cb.halfOpenSuccesses = 0

RoundUndecided ==
  cb.state = "HALF_OPEN" =>
    cb.halfOpenCalls <= halfOpenMaxCalls /\ ~RoundSucceeded(cb)

IInv ==
  /\ TypeOK
  /\ ProbeAccounting
  /\ CountersAtRest
  /\ OpenIsSettled
  /\ RoundUndecided

LEMMA InitInv == Init => IInv
<1> SUFFICES ASSUME Init PROVE IInv
  OBVIOUS
<1>1. cb = [state |-> "CLOSED", generation |-> 1,
            consecutiveFailures |-> 0, lastFailureTimeMs |-> 0,
            openedTimeMs |-> 0, halfOpenCalls |-> 0, halfOpenSuccesses |-> 0]
  BY DEF Init, Configure, Cleared, Unconfigured
<1> QED
  BY <1>1 DEF Init, IInv, TypeOK, ProbeAccounting, CountersAtRest,
     OpenIsSettled, RoundUndecided, Breaker, CircuitState, NoPermit

-----------------------------------------------------------------------------
(* What each breaker method does to the fields the invariant speaks of.    *)

LEMMA EnterHalfOpenFacts ==
  ASSUME NEW b \in Breaker
  PROVE  LET r == EnterHalfOpen(b)
         IN  /\ r \in Breaker
             /\ r.state = "HALF_OPEN" /\ r.generation = b.generation + 1
             /\ r.halfOpenCalls = 0 /\ r.halfOpenSuccesses = 0
BY DEF EnterHalfOpen, MoveTo, Breaker, CircuitState

LEMMA AdmitProbeFacts ==
  ASSUME NEW b \in Breaker, b.halfOpenCalls < halfOpenMaxCalls
  PROVE  LET r == AdmitProbe(b)
         IN  /\ r.permit = b.generation
             /\ r.cb \in Breaker
             /\ r.cb.state = b.state /\ r.cb.generation = b.generation
             /\ r.cb.halfOpenCalls = b.halfOpenCalls + 1
             /\ r.cb.halfOpenSuccesses = b.halfOpenSuccesses
<1>1. b.halfOpenCalls \in Nat
  BY DEF Breaker
<1>2. ~(b.halfOpenCalls >= halfOpenMaxCalls)
  BY <1>1, Settings
<1> QED
  BY <1>1, <1>2 DEF AdmitProbe, Breaker

LEMMA ClearedFacts ==
  ASSUME NEW b \in Breaker
  PROVE  LET r == Cleared(b)
         IN  /\ r \in Breaker
             /\ r.state = "CLOSED" /\ r.generation = b.generation + 1
             /\ r.halfOpenCalls = 0 /\ r.halfOpenSuccesses = 0
BY DEF Cleared, Unconfigured, Breaker, CircuitState

LEMMA TripFacts ==
  ASSUME NEW b \in Breaker, NEW t \in Nat
  PROVE  LET r == Trip(b, t)
         IN  /\ r \in Breaker
             /\ r.state = "OPEN" /\ r.generation = b.generation + 1
             /\ r.halfOpenCalls = 0 /\ r.halfOpenSuccesses = 0
BY DEF Trip, MoveTo, Breaker, CircuitState

(* In CLOSED a report either leaves everything but the failure count and   *)
(* its time alone, or trips.                                               *)
LEMMA SuccessWhileClosedFacts ==
  ASSUME NEW b \in Breaker, NEW t \in Nat
  PROVE  LET r == SuccessWhileClosed(b, t)
         IN  /\ r \in Breaker
             /\ r.state = b.state /\ r.generation = b.generation
             /\ r.halfOpenCalls = b.halfOpenCalls
             /\ r.halfOpenSuccesses = b.halfOpenSuccesses
BY DEF SuccessWhileClosed, Breaker

LEMMA FailureWhileClosedFacts ==
  ASSUME NEW b \in Breaker, NEW t \in Nat
  PROVE  LET r == FailureWhileClosed(b, t)
         IN  /\ r \in Breaker
             /\ \/ /\ r.state = b.state /\ r.generation = b.generation
                   /\ r.halfOpenCalls = b.halfOpenCalls
                   /\ r.halfOpenSuccesses = b.halfOpenSuccesses
                \/ /\ r.state = "OPEN" /\ r.generation = b.generation + 1
                   /\ r.halfOpenCalls = 0 /\ r.halfOpenSuccesses = 0
<1> DEFINE counted == [b EXCEPT !.consecutiveFailures = FailureCount(b, t),
                                !.lastFailureTimeMs = t]
<1>1. /\ counted \in Breaker
      /\ counted.state = b.state /\ counted.generation = b.generation
      /\ counted.halfOpenCalls = b.halfOpenCalls
      /\ counted.halfOpenSuccesses = b.halfOpenSuccesses
  <2>1. FailureCount(b, t) \in Nat
    BY DEF FailureCount, Breaker
  <2> QED
    BY <2>1 DEF Breaker
<1>2. FailureWhileClosed(b, t) \in {counted, Trip(counted, t)}
  BY DEF FailureWhileClosed
<1> HIDE DEF counted
<1> QED
  BY <1>1, <1>2, TripFacts

LEMMA ProbeSuccessFacts ==
  ASSUME NEW b \in Breaker, b.state = "HALF_OPEN"
  PROVE  LET r == ProbeSuccess(b)
         IN  \/ /\ b.halfOpenSuccesses + 1 >= successThreshold
                /\ b.halfOpenSuccesses + 1 = b.halfOpenCalls
                /\ r \in Breaker
                /\ r.state = "CLOSED" /\ r.generation = b.generation + 1
                /\ r.halfOpenCalls = 0 /\ r.halfOpenSuccesses = 0
             \/ /\ ~RoundSucceeded(r)
                /\ r \in Breaker
                /\ r.state = "HALF_OPEN" /\ r.generation = b.generation
                /\ r.halfOpenCalls = b.halfOpenCalls
                /\ r.halfOpenSuccesses = b.halfOpenSuccesses + 1
<1> DEFINE counted == [b EXCEPT !.halfOpenSuccesses = @ + 1]
<1>1. /\ counted \in Breaker
      /\ counted.state = "HALF_OPEN" /\ counted.generation = b.generation
      /\ counted.halfOpenCalls = b.halfOpenCalls
      /\ counted.halfOpenSuccesses = b.halfOpenSuccesses + 1
  BY DEF Breaker
<1>2. ProbeSuccess(b) =
        IF RoundSucceeded(counted) THEN Cleared(counted) ELSE counted
  BY DEF ProbeSuccess
<1> HIDE DEF counted
<1>3. CASE RoundSucceeded(counted)
  BY <1>1, <1>2, <1>3, ClearedFacts DEF RoundSucceeded
<1>4. CASE ~RoundSucceeded(counted)
  BY <1>1, <1>2, <1>4
<1> QED
  BY <1>3, <1>4

-----------------------------------------------------------------------------
(* The callers that hold a permit of the current generation are finitely   *)
(* many, so the accounting counts them.                                    *)
LEMMA HoldersFinite ==
  IsFiniteSet(Holders) /\ Cardinality(Holders) \in Nat
<1>1. Holders \in SUBSET Caller
  BY DEF Holders
<1> QED
  BY <1>1, CallersAssumption, FS_Subset, FS_CardinalityType

-----------------------------------------------------------------------------
(* The six ways a step can move the breaker and its holders.  Every action *)
(* is one of them, and the invariant and the refinement need no more.      *)

Quiet ==
  /\ cb'.state = cb.state /\ cb'.generation = cb.generation
  /\ cb'.halfOpenCalls = cb.halfOpenCalls
  /\ cb'.halfOpenSuccesses = cb.halfOpenSuccesses
  /\ cb.state # "CLOSED" => Holders' = Holders

Started(c) ==
  /\ cb.state = "OPEN" /\ cb'.state = "HALF_OPEN"
  /\ cb'.halfOpenCalls = 1 /\ cb'.halfOpenSuccesses = 0
  /\ Holders' = {c}

Joined(c) ==
  /\ cb.state = "HALF_OPEN" /\ cb'.state = "HALF_OPEN"
  /\ cb.halfOpenCalls < halfOpenMaxCalls
  /\ cb'.halfOpenCalls = cb.halfOpenCalls + 1
  /\ cb'.halfOpenSuccesses = cb.halfOpenSuccesses
  /\ c \notin Holders /\ Holders' = Holders \cup {c}

Progressed(c) ==
  /\ cb.state = "HALF_OPEN" /\ cb'.state = "HALF_OPEN"
  /\ cb'.halfOpenCalls = cb.halfOpenCalls
  /\ cb'.halfOpenSuccesses = cb.halfOpenSuccesses + 1
  /\ ~RoundSucceeded(cb')
  /\ c \in Holders /\ Holders' = Holders \ {c}

Won(c) ==
  /\ cb.state = "HALF_OPEN" /\ cb'.state = "CLOSED"
  /\ cb.halfOpenSuccesses + 1 >= successThreshold
  /\ cb.halfOpenSuccesses + 1 = cb.halfOpenCalls
  /\ cb'.halfOpenCalls = 0 /\ cb'.halfOpenSuccesses = 0
  /\ c \in Holders

Tripped(c) ==
  /\ cb.state # "OPEN" /\ cb'.state = "OPEN"
  /\ cb'.halfOpenCalls = 0 /\ cb'.halfOpenSuccesses = 0
  /\ c \in Holders /\ Holders' = {}

Moved(c) ==
  Quiet \/ Started(c) \/ Joined(c) \/ Progressed(c) \/ Won(c) \/ Tripped(c)

(* The fields of a typed breaker, one by one, for the steps below. *)
LEMMA Fields ==
  ASSUME TypeOK
  PROVE  /\ cb \in Breaker /\ cb.generation \in Nat /\ cb.generation >= 1
         /\ permit \in [Caller -> 0..cb.generation] /\ now \in Nat \ {0}
         /\ cb.halfOpenCalls \in Nat /\ cb.halfOpenSuccesses \in Nat
         /\ cb.openedTimeMs \in Nat
         /\ cb.state \in {"CLOSED", "OPEN", "HALF_OPEN"}
BY DEF TypeOK, Breaker, CircuitState

LEMMA RequestMoves ==
  ASSUME TypeOK, NEW c \in Caller, Request(c)
  PROVE  TypeOK' /\ Moved(c)
<1> USE Fields DEF NoPermit
<1>a. /\ cb' = AllowRequest(cb, now).cb
      /\ permit' = [permit EXCEPT ![c] = AllowRequest(cb, now).permit]
      /\ permit[c] = 0 /\ now' = now
  BY DEF Request
<1>n. CASE cb' = cb /\ permit' = permit
  BY <1>n, <1>a DEF TypeOK, Moved, Quiet, Holders
<1>1. CASE cb.state = "CLOSED"
  <2>1. cb' = cb /\ permit' = [permit EXCEPT ![c] = cb.generation]
    BY <1>1, <1>a DEF AllowRequest
  <2> QED
    BY <2>1, <1>1, <1>a DEF TypeOK, Moved, Quiet
<1>2. CASE cb.state = "OPEN" /\ now - cb.openedTimeMs >= recoveryTimeoutMs
  <2> DEFINE h == EnterHalfOpen(cb)
  <2>1. cb' = AdmitProbe(h).cb
        /\ permit' = [permit EXCEPT ![c] = AdmitProbe(h).permit]
    BY <1>2, <1>a DEF AllowRequest
  <2>2. /\ h \in Breaker /\ h.state = "HALF_OPEN"
        /\ h.generation = cb.generation + 1
        /\ h.halfOpenCalls = 0 /\ h.halfOpenSuccesses = 0
    BY EnterHalfOpenFacts
  <2> HIDE DEF h
  <2>3. LET r == AdmitProbe(h)
        IN  /\ r.permit = h.generation /\ r.cb \in Breaker
            /\ r.cb.state = h.state /\ r.cb.generation = h.generation
            /\ r.cb.halfOpenCalls = h.halfOpenCalls + 1
            /\ r.cb.halfOpenSuccesses = h.halfOpenSuccesses
    BY <2>2, Settings, AdmitProbeFacts
  <2>4. /\ cb' \in Breaker /\ cb'.state = "HALF_OPEN"
        /\ cb'.generation = cb.generation + 1
        /\ cb'.halfOpenCalls = 1 /\ cb'.halfOpenSuccesses = 0
        /\ permit' = [permit EXCEPT ![c] = cb.generation + 1]
    BY <2>1, <2>2, <2>3
  <2>5. TypeOK'
    BY <2>4, <1>a DEF TypeOK
  <2>6. Holders' = {c}
    BY <2>4 DEF Holders
  <2> QED
    BY <1>2, <2>4, <2>5, <2>6 DEF Moved, Started
<1>3. CASE cb.state = "HALF_OPEN" /\ cb.halfOpenCalls < halfOpenMaxCalls
  <2>1. /\ cb' \in Breaker /\ cb'.state = "HALF_OPEN"
        /\ cb'.generation = cb.generation
        /\ cb'.halfOpenCalls = cb.halfOpenCalls + 1
        /\ cb'.halfOpenSuccesses = cb.halfOpenSuccesses
        /\ permit' = [permit EXCEPT ![c] = cb.generation]
    BY <1>3, <1>a, AdmitProbeFacts DEF AllowRequest
  <2>2. TypeOK'
    BY <2>1, <1>a DEF TypeOK
  <2>3. Holders' = Holders \cup {c} /\ c \notin Holders
    BY <2>1, <1>a DEF Holders
  <2> QED
    BY <1>3, <2>1, <2>2, <2>3 DEF Moved, Joined
<1>4. CASE \/ cb.state = "OPEN" /\ ~(now - cb.openedTimeMs >= recoveryTimeoutMs)
           \/ cb.state = "HALF_OPEN" /\ ~(cb.halfOpenCalls < halfOpenMaxCalls)
  <2>1. ~(cb.halfOpenCalls < halfOpenMaxCalls)
          => cb.halfOpenCalls >= halfOpenMaxCalls
    BY Settings
  <2>2. AllowRequest(cb, now) = [cb |-> cb, permit |-> 0]
    BY <1>4, <2>1 DEF AllowRequest, AdmitProbe, Refuse
  <2>3. cb' = cb /\ permit' = permit
    BY <2>2, <1>a
  <2> QED
    BY <2>3, <1>n
<1> QED
  BY <1>1, <1>2, <1>3, <1>4

(* A report whose permit is of an earlier generation moves nothing; the    *)
(* current holder is removed and, if the generation moves on, so is        *)
(* everybody else.                                                         *)
LEMMA ReportHolders ==
  ASSUME TypeOK, NEW c \in Caller,
         permit' = [permit EXCEPT ![c] = NoPermit],
         cb'.generation \in {cb.generation, cb.generation + 1}
  PROVE  /\ permit' \in [Caller -> 0..cb'.generation]
         /\ cb'.generation = cb.generation => Holders' = Holders \ {c}
         /\ cb'.generation = cb.generation + 1 => Holders' = {}
BY Fields DEF Holders, NoPermit

LEMMA SucceedMoves ==
  ASSUME TypeOK, OpenIsSettled, NEW c \in Caller, Succeed(c)
  PROVE  TypeOK' /\ Moved(c)
<1> USE Fields
<1>a. /\ permit[c] # NoPermit /\ now' = now
      /\ cb' = ReportSuccess(cb, permit[c], now)
      /\ permit' = [permit EXCEPT ![c] = NoPermit]
  BY DEF Succeed
<1>1. CASE permit[c] # cb.generation
  <2>1. cb' = cb
    BY <1>1, <1>a DEF ReportSuccess
  <2>2. c \notin Holders /\ Holders' = Holders
    BY <2>1, <1>1, <1>a, ReportHolders DEF Holders
  <2> QED
    BY <2>1, <2>2, <1>a, ReportHolders DEF TypeOK, Moved, Quiet
<1>2. CASE permit[c] = cb.generation
  <2>h. c \in Holders
    BY <1>2 DEF Holders
  <2>1. CASE cb.state = "CLOSED"
    <3>1. cb' = SuccessWhileClosed(cb, now)
      BY <1>2, <1>a, <2>1 DEF ReportSuccess
    <3>2. /\ cb' \in Breaker
          /\ cb'.state = cb.state /\ cb'.generation = cb.generation
          /\ cb'.halfOpenCalls = cb.halfOpenCalls
          /\ cb'.halfOpenSuccesses = cb.halfOpenSuccesses
      BY <3>1, SuccessWhileClosedFacts
    <3> QED
      BY <3>2, <2>1, <1>a, ReportHolders DEF TypeOK, Moved, Quiet
  <2>2. CASE cb.state = "HALF_OPEN"
    <3>1. cb' = ProbeSuccess(cb)
      BY <1>2, <1>a, <2>2 DEF ReportSuccess
    <3>2. CASE /\ cb.halfOpenSuccesses + 1 >= successThreshold
               /\ cb.halfOpenSuccesses + 1 = cb.halfOpenCalls
               /\ cb' \in Breaker
               /\ cb'.state = "CLOSED" /\ cb'.generation = cb.generation + 1
               /\ cb'.halfOpenCalls = 0 /\ cb'.halfOpenSuccesses = 0
      <4>0. cb'.generation = cb.generation + 1 /\ cb'.generation >= 1
        BY <3>2
      <4>1. permit' \in [Caller -> 0..cb'.generation]
        BY <4>0, <1>a, ReportHolders
      <4>2. TypeOK'
        BY <4>0, <4>1, <3>2, <1>a DEF TypeOK
      <4> QED
        BY <4>2, <3>2, <2>2, <2>h DEF Moved, Won
    <3>3. CASE /\ ~RoundSucceeded(cb')
               /\ cb' \in Breaker
               /\ cb'.state = "HALF_OPEN" /\ cb'.generation = cb.generation
               /\ cb'.halfOpenCalls = cb.halfOpenCalls
               /\ cb'.halfOpenSuccesses = cb.halfOpenSuccesses + 1
      BY <3>3, <2>2, <2>h, <1>a, ReportHolders DEF TypeOK, Moved, Progressed
    <3> QED
      BY <3>1, <3>2, <3>3, <2>2, ProbeSuccessFacts
  <2>3. CASE cb.state = "OPEN"
    BY <2>3, <2>h DEF OpenIsSettled
  <2> QED
    BY <2>1, <2>2, <2>3
<1> QED
  BY <1>1, <1>2

LEMMA FailMoves ==
  ASSUME TypeOK, OpenIsSettled, NEW c \in Caller, Fail(c)
  PROVE  TypeOK' /\ Moved(c)
<1> USE Fields
<1>a. /\ permit[c] # NoPermit /\ now' = now
      /\ cb' = ReportFailure(cb, permit[c], now)
      /\ permit' = [permit EXCEPT ![c] = NoPermit]
  BY DEF Fail
<1>1. CASE permit[c] # cb.generation
  <2>1. cb' = cb
    BY <1>1, <1>a DEF ReportFailure
  <2>2. c \notin Holders /\ Holders' = Holders
    BY <2>1, <1>1, <1>a, ReportHolders DEF Holders
  <2> QED
    BY <2>1, <2>2, <1>a, ReportHolders DEF TypeOK, Moved, Quiet
<1>2. CASE permit[c] = cb.generation
  <2>h. c \in Holders
    BY <1>2 DEF Holders
  <2>t. CASE /\ cb.state # "OPEN" /\ cb' \in Breaker
             /\ cb'.state = "OPEN" /\ cb'.generation = cb.generation + 1
             /\ cb'.halfOpenCalls = 0 /\ cb'.halfOpenSuccesses = 0
    <3>0. cb'.generation = cb.generation + 1 /\ cb'.generation >= 1
      BY <2>t
    <3>1. permit' \in [Caller -> 0..cb'.generation] /\ Holders' = {}
      BY <3>0, <1>a, ReportHolders
    <3>2. TypeOK'
      BY <3>0, <3>1, <2>t, <1>a DEF TypeOK
    <3> QED
      BY <3>1, <3>2, <2>t, <2>h DEF Moved, Tripped
  <2>1. CASE cb.state = "CLOSED"
    <3>1. cb' = FailureWhileClosed(cb, now)
      BY <1>2, <1>a, <2>1 DEF ReportFailure
    <3>2. CASE /\ cb' \in Breaker
               /\ cb'.state = cb.state /\ cb'.generation = cb.generation
               /\ cb'.halfOpenCalls = cb.halfOpenCalls
               /\ cb'.halfOpenSuccesses = cb.halfOpenSuccesses
      BY <3>2, <2>1, <1>a, ReportHolders DEF TypeOK, Moved, Quiet
    <3>3. /\ cb' \in Breaker
          /\ \/ /\ cb'.state = cb.state /\ cb'.generation = cb.generation
                /\ cb'.halfOpenCalls = cb.halfOpenCalls
                /\ cb'.halfOpenSuccesses = cb.halfOpenSuccesses
             \/ /\ cb'.state = "OPEN" /\ cb'.generation = cb.generation + 1
                /\ cb'.halfOpenCalls = 0 /\ cb'.halfOpenSuccesses = 0
      BY <3>1, FailureWhileClosedFacts
    <3> QED
      BY <3>2, <3>3, <2>1, <2>t
  <2>2. CASE cb.state = "HALF_OPEN"
    <3>1. cb' = Trip(cb, now)
      BY <1>2, <1>a, <2>2 DEF ReportFailure
    <3> QED
      BY <3>1, <2>2, <2>t, TripFacts
  <2>3. CASE cb.state = "OPEN"
    BY <2>3, <2>h DEF OpenIsSettled
  <2> QED
    BY <2>1, <2>2, <2>3
<1> QED
  BY <1>1, <1>2

LEMMA NextMoves ==
  ASSUME TypeOK, OpenIsSettled, [Next]_vars
  PROVE  TypeOK' /\ (Quiet \/ \E c \in Caller : Moved(c))
<1>1. CASE \E c \in Caller : Request(c) \/ Succeed(c) \/ Fail(c)
  BY <1>1, RequestMoves, SucceedMoves, FailMoves
<1>2. CASE Tick
  BY <1>2, Fields DEF Tick, TypeOK, Quiet, Holders
<1>3. CASE UNCHANGED vars
  BY <1>3 DEF vars, TypeOK, Quiet, Holders
<1> QED
  BY <1>1, <1>2, <1>3 DEF Next, Complete

-----------------------------------------------------------------------------
LEMMA NextInv == IInv /\ [Next]_vars => IInv'
<1> SUFFICES ASSUME IInv, [Next]_vars PROVE IInv'
  OBVIOUS
<1>1. TypeOK /\ ProbeAccounting /\ CountersAtRest /\ OpenIsSettled /\ RoundUndecided
  BY DEF IInv
<1>2. TypeOK' /\ (Quiet \/ \E c \in Caller : Moved(c))
  BY <1>1, NextMoves
<1>f. /\ cb.halfOpenCalls \in Nat /\ cb.halfOpenSuccesses \in Nat
      /\ IsFiniteSet(Holders) /\ Cardinality(Holders) \in Nat
  BY <1>1, Fields, HoldersFinite
<1>q. CASE Quiet
  BY <1>1, <1>2, <1>q
     DEF Quiet, IInv, ProbeAccounting, CountersAtRest, OpenIsSettled,
         RoundUndecided, RoundSucceeded, Probing
<1>3. ASSUME NEW c \in Caller, Moved(c) PROVE IInv'
  <2>1. CASE Started(c)
    <3>1. Cardinality({c}) = 1
      BY FS_Singleton
    <3> QED
      BY <3>1, <2>1, <1>2, Settings
         DEF Started, IInv, ProbeAccounting, CountersAtRest, OpenIsSettled,
             RoundUndecided, RoundSucceeded, Probing
  <2>2. CASE Joined(c)
    <3>1. Cardinality(Holders') = Cardinality(Holders) + 1
      BY <2>2, <1>f, FS_AddElement DEF Joined
    <3>2. ProbeAccounting'
      BY <3>1, <2>2, <1>1, <1>f DEF Joined, ProbeAccounting, Probing
    <3>3. cb.halfOpenSuccesses <= cb.halfOpenCalls
      BY <2>2, <1>1, <1>f DEF Joined, ProbeAccounting, Probing
    <3>4. RoundUndecided'
      BY <3>3, <2>2, <1>f, Settings DEF Joined, RoundUndecided, RoundSucceeded
    <3> QED
      BY <3>2, <3>4, <2>2, <1>2 DEF Joined, IInv, CountersAtRest, OpenIsSettled
  <2>3. CASE Progressed(c)
    <3>1. Cardinality(Holders') = Cardinality(Holders) - 1
      BY <2>3, <1>f, FS_RemoveElement DEF Progressed
    <3>2. ProbeAccounting'
      BY <3>1, <2>3, <1>1, <1>f DEF Progressed, ProbeAccounting, Probing
    <3>3. RoundUndecided'
      BY <2>3, <1>1 DEF Progressed, RoundUndecided
    <3> QED
      BY <3>2, <3>3, <2>3, <1>2
         DEF Progressed, IInv, CountersAtRest, OpenIsSettled
  <2>4. CASE Won(c) \/ Tripped(c)
    BY <2>4, <1>2
       DEF Won, Tripped, IInv, ProbeAccounting, CountersAtRest, OpenIsSettled,
           RoundUndecided
  <2> QED
    BY <1>3, <1>q, <2>1, <2>2, <2>3, <2>4 DEF Moved
<1> QED
  BY <1>2, <1>3, <1>q

(***************************************************************************)
(* Every reachable breaker satisfies the inductive invariant.              *)
(***************************************************************************)
THEOREM Invariance == Spec => []IInv
BY InitInv, NextInv, PTL DEF Spec

(***************************************************************************)
(* The breaker, its permits and the clock keep their types: a permit is    *)
(* never of a generation the breaker has not reached (CircuitBreaker.cpp). *)
(***************************************************************************)
THEOREM TypeCorrect == Spec => []TypeOK
<1>1. IInv => TypeOK
  BY DEF IInv
<1> QED
  BY <1>1, Invariance, PTL

(***************************************************************************)
(* halfOpenCalls is always the successes of the round plus the probes      *)
(* still out, whatever late reports of earlier generations arrive.         *)
(***************************************************************************)
THEOREM AccountingHolds == Spec => []ProbeAccounting
<1>1. IInv => ProbeAccounting
  BY DEF IInv
<1> QED
  BY <1>1, Invariance, PTL

(***************************************************************************)
(* No call admitted before a trip can still move an open breaker.          *)
(***************************************************************************)
THEOREM OpenSettled == Spec => []OpenIsSettled
<1>1. IInv => OpenIsSettled
  BY DEF IInv
<1> QED
  BY <1>1, Invariance, PTL

(***************************************************************************)
(* A round that admits nobody has a probe out whose report can end it: the *)
(* breaker is never stuck in HALF_OPEN, for any configured thresholds.     *)
(* It rests on configure() capping successThreshold at halfOpenMaxCalls.   *)
(***************************************************************************)
THEOREM NoWedge == Spec => []NeverWedged
<1>1. IInv => NeverWedged
  <2> SUFFICES ASSUME IInv, cb.state = "HALF_OPEN",
                      cb.halfOpenCalls >= halfOpenMaxCalls, Probing = {}
               PROVE  FALSE
    BY DEF NeverWedged
  <2>1. Cardinality(Probing) = 0
    BY FS_EmptySet
  <2>2. cb.halfOpenCalls = cb.halfOpenSuccesses
    BY <2>1, Fields DEF IInv, ProbeAccounting
  <2>3. RoundSucceeded(cb)
    BY <2>2, Fields, Settings DEF IInv, RoundSucceeded
  <2> QED
    BY <2>3 DEF IInv, RoundUndecided
<1> QED
  BY <1>1, Invariance, PTL

-----------------------------------------------------------------------------
(* The breaker implements BreakerContract. *)

LEMMA ContractInit == Init => Contract!Init
BY DEF Init, Contract!Init, Configure, Cleared, Unconfigured, Probing

LEMMA ContractStep ==
  IInv /\ [Next]_vars
    => [Contract!Next]_<<cb.state, Probing, cb.halfOpenCalls>>
<1> SUFFICES ASSUME IInv, [Next]_vars
             PROVE  [Contract!Next]_<<cb.state, Probing, cb.halfOpenCalls>>
  OBVIOUS
<1>1. TypeOK /\ ProbeAccounting /\ CountersAtRest /\ OpenIsSettled /\ RoundUndecided
  BY DEF IInv
<1>2. Quiet \/ \E c \in Caller : Moved(c)
  BY <1>1, NextMoves
<1>f. /\ cb.halfOpenCalls \in Nat /\ cb.halfOpenSuccesses \in Nat
      /\ IsFiniteSet(Holders) /\ Cardinality(Holders) \in Nat
      /\ cb.state \in {"CLOSED", "OPEN", "HALF_OPEN"}
  BY <1>1, Fields, HoldersFinite
<1>q. CASE Quiet
  BY <1>q DEF Quiet, Probing
<1>3. ASSUME NEW c \in Caller, Moved(c)
      PROVE  [Contract!Next]_<<cb.state, Probing, cb.halfOpenCalls>>
  <2>1. CASE Started(c)
    <3>1. Contract!StartRound(c)
      BY <2>1 DEF Started, Contract!StartRound, Probing
    <3> QED
      BY <3>1 DEF Contract!Next
  <2>2. CASE Joined(c)
    <3>1. Contract!JoinRound(c)
      BY <2>2 DEF Joined, Contract!JoinRound, Probing
    <3> QED
      BY <3>1 DEF Contract!Next
  <2>3. CASE Progressed(c)
    <3>1. Cardinality(Holders') = Cardinality(Holders) - 1
      BY <2>3, <1>f, FS_RemoveElement DEF Progressed
    <3>2. Holders' = {} => Cardinality(Holders') = 0
      BY FS_EmptySet
    <3>3. Holders' = {} => cb'.halfOpenSuccesses = cb'.halfOpenCalls
      BY <3>1, <3>2, <2>3, <1>1, <1>f DEF Progressed, ProbeAccounting, Probing
    <3>4. ~(Holders' = {} /\ cb.halfOpenCalls >= successThreshold)
      BY <3>3, <2>3 DEF Progressed, RoundSucceeded
    <3>5. Contract!ProbeSucceeds(c)
      BY <3>4, <2>3 DEF Progressed, Contract!ProbeSucceeds, Probing
    <3> QED
      BY <3>5 DEF Contract!Next
  <2>4. CASE Won(c)
    <3>1. Cardinality(Holders) = 1
      BY <2>4, <1>1, <1>f DEF Won, ProbeAccounting, Probing
    <3>2. Holders = {c}
      BY <3>1, <2>4, <1>f, FS_Singleton DEF Won
    <3>3. cb.halfOpenCalls >= successThreshold
      BY <2>4, <1>f DEF Won
    <3>4. Contract!ProbeSucceeds(c)
      BY <3>2, <3>3, <2>4 DEF Won, Contract!ProbeSucceeds, Probing
    <3> QED
      BY <3>4 DEF Contract!Next
  <2>5. CASE Tripped(c)
    <3>1. CASE cb.state = "CLOSED"
      BY <3>1, <2>5, <1>1
         DEF Tripped, CountersAtRest, Contract!Trip, Contract!Next, Probing
    <3>2. CASE cb.state = "HALF_OPEN"
      <4>1. Contract!ProbeFails(c)
        BY <3>2, <2>5 DEF Tripped, Contract!ProbeFails, Probing
      <4> QED
        BY <4>1 DEF Contract!Next
    <3> QED
      BY <3>1, <3>2, <2>5, <1>f DEF Tripped
  <2> QED
    BY <1>3, <1>q, <2>1, <2>2, <2>3, <2>4, <2>5 DEF Moved
<1> QED
  BY <1>2, <1>3, <1>q

(***************************************************************************)
(* The breaker of CircuitBreaker.cpp, used by any number of callers, keeps *)
(* the contract: rounds of at most MaxProbes admissions, closed only by a  *)
(* unanimous round, re-opened by any failed probe.                         *)
(***************************************************************************)
THEOREM ImplementsContract == Spec => ContractSpec
<1>1. Init => Contract!Init
  BY ContractInit
<1>2. IInv /\ [Next]_vars
        => [Contract!Next]_<<cb.state, Probing, cb.halfOpenCalls>>
  BY ContractStep
<1> QED
  BY <1>1, <1>2, Invariance, PTL DEF Spec, ContractSpec, Contract!Spec

-----------------------------------------------------------------------------
(* What the failure counter of a closed breaker stands for: the last ones  *)
(* of the failures that the observer wrote down, each less than the reset  *)
(* timeout after the one before, and no more of them.  A success clears it *)
(* only when the next failure would start a new count in any case.         *)
Counted(b) == b.consecutiveFailures

NoGap(s, i) == s[i + 1] - s[i] < failureResetTimeoutMs

Tracks(b, s, t) ==
  /\ Counted(b) \in 0..Len(s) /\ Counted(b) < failureThreshold
  /\ b.lastFailureTimeMs = IF s = <<>> THEN 0 ELSE s[Len(s)]
  /\ \A i \in (Len(s) - Counted(b) + 1)..(Len(s) - 1) : NoGap(s, i)
  /\ Counted(b) \in 1..(Len(s) - 1) => ~NoGap(s, Len(s) - Counted(b))
  /\ Counted(b) = 0 /\ s # <<>> => t - s[Len(s)] >= failureResetTimeoutMs
  /\ ~Cluster(s)

TripInv ==
  /\ failures \in Seq(Nat \ {0}) /\ Len(failures) <= failureThreshold
  /\ cb.state = "CLOSED" => Tracks(cb, failures, now)
  /\ cb.state # "CLOSED" => Cluster(failures)

(* The number of failures at the end of s that are near each other. *)
Ends(s, m) ==
  /\ m \in 1..Len(s)
  /\ \A i \in (Len(s) - m + 1)..(Len(s) - 1) : NoGap(s, i)
  /\ m < Len(s) => ~NoGap(s, Len(s) - m)

(* A failure at time t is counted as it follows the one before. *)
LEMMA FailureIsCounted ==
  ASSUME NEW b \in Breaker, NEW s \in Seq(Nat \ {0}), NEW t \in Nat \ {0},
         Tracks(b, s, t)
  PROVE  FailureCount(b, t) <= failureThreshold /\ Ends(Append(s, t), FailureCount(b, t))
<1>1. PICK k, n, m, a :
        k = Counted(b) /\ n = Len(s) /\ m = FailureCount(b, t) /\ a = Append(s, t)
  OBVIOUS
<1>2. /\ n \in Nat /\ k \in 0..n /\ k < failureThreshold /\ failureThreshold \in Nat \ {0}
      /\ failureResetTimeoutMs \in Nat \ {0}
  BY <1>1, Settings DEF Tracks
<1>3. /\ Len(a) = n + 1 /\ a[n + 1] = t /\ \A i \in 1..n : a[i] = s[i] /\ s[i] \in Nat \ {0}
  BY <1>1, AppendProperties
<1>4. \/ m = 1 /\ (n > 0 => ~NoGap(a, n))
      \/ m = k + 1 /\ k > 0 /\ NoGap(a, n)
  <2>1. /\ s = <<>> <=> n = 0
        /\ b.lastFailureTimeMs = (IF n = 0 THEN 0 ELSE s[n])
        /\ k = 0 /\ n > 0 => t - s[n] >= failureResetTimeoutMs
    BY <1>1, <1>2 DEF Tracks
  <2>2. m = IF b.lastFailureTimeMs > 0 /\ t - b.lastFailureTimeMs >= failureResetTimeoutMs
              THEN 1 ELSE k + 1
    BY <1>1 DEF FailureCount, Counted
  <2>3. CASE n = 0
    BY <2>1, <2>2, <2>3, <1>2
  <2>4. CASE n > 0
    <3>1. a[n] = s[n] /\ s[n] \in Nat \ {0} /\ b.lastFailureTimeMs = s[n]
      BY <2>1, <2>4, <1>2, <1>3
    <3>2. NoGap(a, n) <=> t - s[n] < failureResetTimeoutMs
      BY <3>1, <1>3 DEF NoGap
    <3> QED
      BY <3>1, <3>2, <2>1, <2>2, <2>4, <1>2
  <2> QED
    BY <2>3, <2>4, <1>2
<1>5. \A i \in 1..(n - 1) : NoGap(a, i) <=> NoGap(s, i)
  BY <1>2, <1>3 DEF NoGap
<1>6. \A i \in (n - k + 1)..(n - 1) : NoGap(s, i)
  BY <1>1 DEF Tracks
<1>7. k \in 1..(n - 1) => ~NoGap(s, n - k)
  BY <1>1 DEF Tracks
<1>8. m \in 1..(n + 1) /\ m <= failureThreshold
  BY <1>2, <1>4
<1>9. \A i \in (n + 1 - m + 1)..(n + 1 - 1) : NoGap(a, i)
  BY <1>2, <1>4, <1>5, <1>6
<1>10. m < n + 1 => ~NoGap(a, n + 1 - m)
  <2>1. CASE m = 1
    BY <2>1, <1>2, <1>4
  <2>2. CASE m = k + 1 /\ k > 0
    <3>1. SUFFICES ASSUME m < n + 1 PROVE ~NoGap(a, n - k)
      BY <2>2, <1>2
    <3>2. n - k \in 1..(n - 1) /\ k \in 1..(n - 1)
      BY <3>1, <2>2, <1>2
    <3> QED
      BY <3>2, <1>5, <1>7
  <2> QED
    BY <2>1, <2>2, <1>4
<1>11. Ends(a, m)
  BY <1>2, <1>3, <1>8, <1>9, <1>10 DEF Ends
<1> QED
  BY <1>1, <1>8, <1>11

(* The observer forgets what is too old to belong to a cluster. *)
LEMMA LatestKeeps ==
  ASSUME NEW a \in Seq(Nat \ {0}), Len(a) <= failureThreshold + 1,
         NEW m, Ends(a, m), m <= failureThreshold
  PROVE  /\ Latest(a) \in Seq(Nat \ {0}) /\ Len(Latest(a)) <= failureThreshold
         /\ Latest(a) # <<>> /\ Latest(a)[Len(Latest(a))] = a[Len(a)]
         /\ Ends(Latest(a), m)
<1> failureThreshold \in Nat \ {0} /\ Len(a) \in Nat
  BY Settings
<1>1. CASE Len(a) <= failureThreshold
  BY <1>1 DEF Latest, Ends
<1>2. CASE Len(a) > failureThreshold
  <2>1. PICK u, n : u = Tail(a) /\ n = Len(a)
    OBVIOUS
  <2>2. /\ u \in Seq(Nat \ {0}) /\ Len(u) = n - 1 /\ n \in Nat /\ n > 1
        /\ \A i \in 1..(n - 1) : u[i] = a[i + 1]
    BY <1>2, <2>1, HeadTailProperties
  <2>3. Latest(a) = u
    BY <1>2, <2>1 DEF Latest
  <2>4. /\ m \in 1..(n - 1)
        /\ \A i \in (n - m + 1)..(n - 1) : NoGap(a, i)
        /\ m < n => ~NoGap(a, n - m)
    BY <1>2, <2>1, <2>2 DEF Ends
  <2>5. \A i \in 1..(n - 2) : NoGap(u, i) <=> NoGap(a, i + 1)
    <3>1. TAKE i \in 1..(n - 2)
    <3>2. i \in 1..(n - 1) /\ i + 1 \in 1..(n - 1) /\ i \in Int
      BY <2>2
    <3>3. u[i] = a[i + 1] /\ u[i + 1] = a[i + 1 + 1]
      BY <2>2, <3>2
    <3> QED
      BY <3>3 DEF NoGap
  <2>6. \A i \in (n - 1 - m + 1)..(n - 1 - 1) : NoGap(u, i)
    BY <2>2, <2>4, <2>5
  <2>7. m < n - 1 => ~NoGap(u, n - 1 - m)
    <3>1. SUFFICES ASSUME m < n - 1 PROVE ~NoGap(u, n - 1 - m)
      OBVIOUS
    <3>2. PICK i : i = n - 1 - m
      OBVIOUS
    <3>0. n \in Nat /\ m \in 1..(n - 1) /\ m < n - 1
      BY <3>1, <2>2, <2>4
    <3>3. i \in 1..(n - 2) /\ i + 1 = n - m
      BY <3>0, <3>2
    <3> QED
      BY <3>2, <3>3, <2>2, <2>4, <2>5
  <2>8. Ends(u, m)
    BY <2>2, <2>4, <2>6, <2>7 DEF Ends
  <2>9. u[n - 1] = a[n] /\ u # <<>>
    <3>1. u[n - 1] = a[n - 1 + 1] /\ n - 1 + 1 = n
      BY <2>2
    <3> QED
      BY <3>1, <2>2
  <2> QED
    BY <1>2, <2>1, <2>2, <2>3, <2>8, <2>9
<1> QED
  BY <1>1, <1>2

(* As many near failures as trip make a cluster, and fewer none. *)
LEMMA ClusterByCount ==
  ASSUME NEW u \in Seq(Nat \ {0}), Len(u) <= failureThreshold,
         NEW m, Ends(u, m), m <= failureThreshold
  PROVE  Cluster(u) <=> m = failureThreshold
<1> failureThreshold \in Nat \ {0} /\ Len(u) \in Nat /\ m \in 1..Len(u)
  BY Settings DEF Ends
<1>1. CASE m = failureThreshold
  <2>1. Len(u) = m
    BY <1>1
  <2>2. \A i \in 1..(Len(u) - 1) : NoGap(u, i)
    BY <2>1 DEF Ends
  <2> QED
    BY <1>1, <2>1, <2>2 DEF Cluster, NoGap
<1>2. CASE m < failureThreshold
  <2>1. SUFFICES ASSUME Cluster(u) PROVE FALSE
    BY <1>2
  <2>2. Len(u) = failureThreshold
    BY <2>1 DEF Cluster
  <2>3. ~NoGap(u, Len(u) - m) /\ Len(u) - m \in 1..(Len(u) - 1)
    BY <1>2, <2>2 DEF Ends
  <2> QED
    BY <2>1, <2>3 DEF Cluster, NoGap
<1> QED
  BY <1>1, <1>2

(* A failure of a closed breaker. *)
LEMMA FailureTracks ==
  ASSUME NEW b \in Breaker, b.state = "CLOSED",
         NEW s \in Seq(Nat \ {0}), Len(s) <= failureThreshold,
         NEW t \in Nat \ {0}, Tracks(b, s, t),
         NEW u, u = Latest(Append(s, t)),
         NEW r, r = FailureWhileClosed(b, t)
  PROVE  /\ u \in Seq(Nat \ {0}) /\ Len(u) <= failureThreshold
         /\ \/ r.state = "CLOSED" /\ Tracks(r, u, t)
            \/ r.state = "OPEN" /\ Cluster(u)
<1>1. PICK m : m = FailureCount(b, t)
  OBVIOUS
<1>2. PICK a : a = Append(s, t)
  OBVIOUS
<1>3. m <= failureThreshold /\ Ends(a, m)
  BY <1>1, <1>2, FailureIsCounted
<1>4. /\ a \in Seq(Nat \ {0}) /\ Len(a) <= failureThreshold + 1 /\ a[Len(a)] = t
  BY <1>2, AppendProperties, Settings
<1>5. /\ u \in Seq(Nat \ {0}) /\ Len(u) <= failureThreshold
      /\ u # <<>> /\ u[Len(u)] = t /\ Ends(u, m)
  BY <1>2, <1>3, <1>4, LatestKeeps
<1>6. Cluster(u) <=> m = failureThreshold
  BY <1>3, <1>5, ClusterByCount
<1>7. failureThreshold \in Nat \ {0} /\ failureResetTimeoutMs \in Nat \ {0}
      /\ Len(u) \in Nat /\ m \in 1..Len(u)
  BY <1>5, Settings DEF Ends
<1>8. PICK d : d = [b EXCEPT !.consecutiveFailures = m, !.lastFailureTimeMs = t]
  OBVIOUS
<1>9. d.state = "CLOSED" /\ d.consecutiveFailures = m /\ d.lastFailureTimeMs = t
  BY <1>8 DEF Breaker
<1>10. r = IF m >= failureThreshold THEN Trip(d, t) ELSE d
  BY <1>1, <1>8, <1>9 DEF FailureWhileClosed
<1>11. CASE m = failureThreshold
  <2>1. r.state = "OPEN"
    BY <1>7, <1>10, <1>11 DEF Trip, MoveTo
  <2> QED
    BY <2>1, <1>5, <1>6, <1>11
<1>12. CASE m < failureThreshold
  <2>1. r = d /\ Counted(r) = m
    BY <1>7, <1>9, <1>10, <1>12 DEF Counted
  <2>2. Tracks(r, u, t)
    BY <2>1, <1>5, <1>6, <1>7, <1>9, <1>12 DEF Tracks, Ends
  <2> QED
    BY <2>1, <2>2, <1>5, <1>9
<1> QED
  BY <1>3, <1>7, <1>11, <1>12

(* A success of a closed breaker, which may clear the counter. *)
LEMMA SuccessTracks ==
  ASSUME NEW b \in Breaker, b.state = "CLOSED",
         NEW s \in Seq(Nat \ {0}), NEW t \in Nat \ {0}, Tracks(b, s, t),
         NEW r, r = SuccessWhileClosed(b, t)
  PROVE  r.state = "CLOSED" /\ Tracks(r, s, t)
<1>1. CASE r = b
  BY <1>1
<1>2. CASE /\ b.lastFailureTimeMs = 0 \/ t - b.lastFailureTimeMs >= failureResetTimeoutMs
           /\ r = [b EXCEPT !.consecutiveFailures = 0]
  <2>1. /\ r.state = "CLOSED" /\ r.lastFailureTimeMs = b.lastFailureTimeMs
        /\ Counted(r) = 0
    BY <1>2 DEF Breaker, Counted
  <2>2. Len(s) \in Nat /\ failureThreshold \in Nat \ {0}
    BY Settings
  <2>3. s # <<>> => t - s[Len(s)] >= failureResetTimeoutMs
    <3>1. SUFFICES ASSUME s # <<>> PROVE t - s[Len(s)] >= failureResetTimeoutMs
      OBVIOUS
    <3>2. b.lastFailureTimeMs = s[Len(s)] /\ s[Len(s)] \in Nat \ {0}
      BY <3>1, <2>2 DEF Tracks
    <3> QED
      BY <3>2, <1>2
  <2>4. Tracks(r, s, t)
    BY <2>1, <2>2, <2>3 DEF Tracks
  <2> QED
    BY <2>1, <2>4
<1> QED
  BY <1>1, <1>2 DEF SuccessWhileClosed

(* A closed breaker starts with an empty record. *)
LEMMA ClearedTracks ==
  ASSUME NEW b \in Breaker, NEW t \in Nat
  PROVE  Tracks(Cleared(b), <<>>, t)
<1>1. Cleared(b).consecutiveFailures = 0 /\ Cleared(b).lastFailureTimeMs = 0
  BY DEF Cleared, Unconfigured
<1> QED
  BY <1>1, Settings DEF Tracks, Counted, Cluster

(* The observer's invariant holds when the breaker is configured. *)
LEMMA TripStart == TripInit => TripInv
<1> SUFFICES ASSUME TripInit PROVE TripInv
  OBVIOUS
<1>1. cb = Cleared(Unconfigured) /\ cb.state = "CLOSED" /\ failures = <<>> /\ now = 1
  BY DEF TripInit, Init, Configure, Cleared, Unconfigured
<1>2. Unconfigured \in Breaker
  BY DEF Unconfigured, Breaker, CircuitState
<1>3. Tracks(cb, failures, now)
  BY <1>1, <1>2, ClearedTracks
<1> QED
  BY <1>1, <1>3, Settings DEF TripInv

(* Every step of the callers keeps it. *)
LEMMA TripStep ==
  ASSUME IInv, TripInv, [TripNext]_tripVars
  PROVE  TripInv'
<1>t. /\ TypeOK /\ cb \in Breaker /\ now \in Nat \ {0} /\ OpenIsSettled
      /\ cb.state \in {"CLOSED", "OPEN", "HALF_OPEN"}
  BY Fields DEF IInv
<1>f. failures \in Seq(Nat \ {0}) /\ Len(failures) <= failureThreshold
  BY DEF TripInv
<1>1. ASSUME NEW c \in Caller, TripRequest(c) PROVE TripInv'
  <2>1. cb' = AllowRequest(cb, now).cb /\ now' = now /\ failures' = failures
    BY <1>1 DEF TripRequest, Request
  <2>2. CASE cb.state = "CLOSED"
    <3>1. cb' = cb
      BY <2>1, <2>2 DEF AllowRequest
    <3> QED
      BY <3>1, <2>1 DEF TripInv
  <2>3. CASE cb.state # "CLOSED"
    <3>1. ASSUME NEW b \in Breaker, b.state # "CLOSED"
          PROVE  AdmitProbe(b).cb.state # "CLOSED"
      BY <3>1 DEF AdmitProbe, Refuse, Breaker
    <3>2. EnterHalfOpen(cb) \in Breaker /\ EnterHalfOpen(cb).state = "HALF_OPEN"
      BY <1>t, EnterHalfOpenFacts
    <3>3. AllowRequest(cb, now).cb \in {AdmitProbe(EnterHalfOpen(cb)).cb, cb, AdmitProbe(cb).cb}
      BY <1>t, <2>3 DEF AllowRequest, Refuse
    <3>4. cb'.state # "CLOSED"
      BY <3>1, <3>2, <3>3, <2>1, <2>3, <1>t
    <3> QED
      BY <3>4, <2>1, <2>3 DEF TripInv
  <2> QED
    BY <2>2, <2>3
<1>2. ASSUME NEW c \in Caller, TripSucceed(c) PROVE TripInv'
  <2>1. /\ cb' = ReportSuccess(cb, permit[c], now) /\ now' = now
        /\ failures' = IF cb.state # "CLOSED" /\ cb'.state = "CLOSED"
                         THEN <<>> ELSE failures
    BY <1>2 DEF TripSucceed, Succeed
  <2>2. CASE cb' = cb
    BY <2>1, <2>2 DEF TripInv
  <2>3. CASE cb.state = "CLOSED" /\ cb' = SuccessWhileClosed(cb, now)
    <3>1. Tracks(cb, failures, now) /\ failures' = failures
      BY <2>1, <2>3 DEF TripInv
    <3>2. cb'.state = "CLOSED" /\ Tracks(cb', failures, now)
      BY <3>1, <2>3, <1>t, <1>f, SuccessTracks
    <3> QED
      BY <3>1, <3>2, <2>1, <1>f DEF TripInv, Tracks, Counted
  <2>4. CASE cb.state = "HALF_OPEN" /\ cb' = ProbeSuccess(cb)
    <3>1. PICK d : d = [cb EXCEPT !.halfOpenSuccesses = @ + 1]
      OBVIOUS
    <3>2. d \in Breaker /\ d.state = "HALF_OPEN"
      BY <3>1, <2>4, <1>t DEF Breaker
    <3>3. cb' = Cleared(d) \/ cb' = d
      BY <3>1, <2>4 DEF ProbeSuccess
    <3>4. CASE cb' = Cleared(d)
      <4>1. cb'.state = "CLOSED" /\ failures' = <<>>
        BY <3>2, <3>4, <2>1, <2>4, ClearedFacts
      <4>2. Tracks(cb', <<>>, now)
        BY <3>2, <3>4, <1>t, ClearedTracks
      <4> QED
        BY <4>1, <4>2, <2>1, Settings DEF TripInv
    <3>5. CASE cb' = d
      <4>1. cb'.state # "CLOSED" /\ failures' = failures
        BY <3>2, <3>5, <2>1
      <4> QED
        BY <4>1, <2>4 DEF TripInv
    <3> QED
      BY <3>3, <3>4, <3>5
  <2> QED
    BY <2>1, <2>2, <2>3, <2>4, <1>t DEF ReportSuccess
<1>3. ASSUME NEW c \in Caller, TripFail(c) PROVE TripInv'
  <2>1. /\ cb' = ReportFailure(cb, permit[c], now) /\ now' = now
        /\ failures' = IF cb.state = "CLOSED" /\ permit[c] = cb.generation
                         THEN Latest(Append(failures, now)) ELSE failures
    BY <1>3 DEF TripFail, Fail, Holders
  <2>2. CASE permit[c] # cb.generation \/ cb.state = "OPEN"
    <3>1. cb' = cb /\ failures' = failures
      BY <2>1, <2>2 DEF ReportFailure
    <3> QED
      BY <3>1, <2>1 DEF TripInv
  <2>3. CASE permit[c] = cb.generation /\ cb.state = "CLOSED"
    <3>1. cb' = FailureWhileClosed(cb, now) /\ failures' = Latest(Append(failures, now))
      BY <2>1, <2>3 DEF ReportFailure
    <3>2. Tracks(cb, failures, now)
      BY <2>3 DEF TripInv
    <3>3. /\ failures' \in Seq(Nat \ {0}) /\ Len(failures') <= failureThreshold
          /\ \/ cb'.state = "CLOSED" /\ Tracks(cb', failures', now)
             \/ cb'.state = "OPEN" /\ Cluster(failures')
      BY <3>1, <3>2, <2>3, <1>t, <1>f, FailureTracks
    <3> QED
      BY <3>3, <2>1 DEF TripInv
  <2>4. CASE permit[c] = cb.generation /\ cb.state = "HALF_OPEN"
    <3>1. cb' = Trip(cb, now) /\ failures' = failures
      BY <2>1, <2>4 DEF ReportFailure
    <3>2. cb'.state # "CLOSED"
      BY <3>1, <1>t, TripFacts
    <3> QED
      BY <3>1, <3>2, <2>4 DEF TripInv
  <2> QED
    BY <2>2, <2>3, <2>4, <1>t
<1>4. CASE TripTick
  <2>1. cb' = cb /\ failures' = failures /\ now' = now + 1
    BY <1>4 DEF TripTick, Tick
  <2>2. ASSUME Tracks(cb, failures, now) PROVE Tracks(cb, failures, now + 1)
    <3>2. failures # <<>> => failures[Len(failures)] \in Nat
      BY <1>f
    <3>3. failureResetTimeoutMs \in Nat
      BY Settings
    <3> QED
      BY <2>2, <3>2, <3>3, <1>t DEF Tracks
  <2> QED
    BY <2>1, <2>2 DEF TripInv
<1>5. CASE UNCHANGED tripVars
  BY <1>5 DEF tripVars, vars, TripInv
<1> QED
  BY <1>1, <1>2, <1>3, <1>4, <1>5 DEF TripNext

(***************************************************************************)
(* The breaker opens on failureThreshold failures that are near each other *)
(* and on nothing else (CircuitBreaker.cpp:89), for every threshold and    *)
(* timeout: the one counter with its timestamp, cleared by successes that  *)
(* come late enough, forgets no cluster and makes none.                    *)
(***************************************************************************)
THEOREM OpensOnClusters == TripSpec => []OpensExactlyOnClusters
<1>1. TripInit => IInv
  BY InitInv DEF TripInit
<1>2. IInv /\ [TripNext]_tripVars => IInv'
  <2>1. [TripNext]_tripVars => [Next]_vars
    BY DEF TripNext, Next, TripRequest, TripSucceed, TripFail, TripTick, Complete, tripVars
  <2> QED
    BY <2>1, NextInv
<1>3. TripInv => OpensExactlyOnClusters
  BY DEF TripInv, Tracks, OpensExactlyOnClusters
<1> QED
  BY <1>1, <1>2, <1>3, TripStart, TripStep, PTL DEF TripSpec
=============================================================================
