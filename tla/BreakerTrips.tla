---------------------------- MODULE BreakerTrips ----------------------------
(***************************************************************************)
(* BreakerCallers with an observer that writes down when the calls of the  *)
(* present closed period failed.  It states when the breaker opens without *)
(* the breaker's own counter, window timestamp and success handling.       *)
(***************************************************************************)
EXTENDS BreakerCallers, Sequences

VARIABLE failures   \* observer: times of the last failures since the breaker
                    \* last became CLOSED, failureThreshold of them at most

tripVars == <<vars, failures>>

TripInit == Init /\ failures = <<>>

Latest(s) ==
  IF Len(s) > failureThreshold THEN Tail(s) ELSE s

(* The observer follows the steps of BreakerCallers. *)
TripRequest(c) == Request(c) /\ UNCHANGED failures

TripSucceed(c) ==
  /\ Succeed(c)
  /\ failures' = IF cb.state # "CLOSED" /\ cb'.state = "CLOSED"
                   THEN <<>> ELSE failures

TripFail(c) ==
  /\ Fail(c)
  /\ failures' = IF cb.state = "CLOSED" /\ c \in Holders
                   THEN Latest(Append(failures, now)) ELSE failures

TripTick == Tick /\ UNCHANGED failures

TripNext ==
  \/ \E c \in Caller : TripRequest(c) \/ TripSucceed(c) \/ TripFail(c)
  \/ TripTick

TripSpec ==
  /\ TripInit /\ [][TripNext]_tripVars
  /\ \A c \in Caller : WF_tripVars(TripSucceed(c) \/ TripFail(c))

-----------------------------------------------------------------------------
(* failureThreshold failures, each less than failureResetTimeoutMs after   *)
(* the one before.                                                         *)
Cluster(s) ==
  /\ Len(s) = failureThreshold
  /\ \A i \in 1..(Len(s) - 1) : s[i + 1] - s[i] < failureResetTimeoutMs

(***************************************************************************)
(* The breaker is closed exactly as long as the failures since it closed   *)
(* do not end in a cluster: it neither trips early, on failures spread     *)
(* over time, nor lets successes in between or late results of earlier     *)
(* generations hide a cluster.                                             *)
(***************************************************************************)
OpensExactlyOnClusters == cb.state = "CLOSED" <=> ~Cluster(failures)
=============================================================================
