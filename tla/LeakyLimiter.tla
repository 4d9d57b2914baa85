---------------------------- MODULE LeakyLimiter ----------------------------
(***************************************************************************)
(* What a rate limiter promises: every key has a level that a timer raises *)
(* by its rate each millisecond up to its burst, from the start and        *)
(* whether or not anybody asks; a request is allowed exactly when a whole  *)
(* token is there, and takes it.                                           *)
(***************************************************************************)
EXTENDS Integers

CONSTANTS Key, Unit, rate, burst

VARIABLES level,     \* [Key -> Nat]
          answer     \* the last decision

Init ==
  /\ level = burst
  /\ answer = [key |-> "none", allowed |-> FALSE]

Raised(k) ==
  IF level[k] + rate[k] <= burst[k] THEN level[k] + rate[k] ELSE burst[k]

Timer ==
  /\ level' = [k \in Key |-> Raised(k)]
  /\ UNCHANGED answer

Allow(k) ==
  /\ level[k] >= Unit
  /\ level' = [level EXCEPT ![k] = @ - Unit]
  /\ answer' = [key |-> k, allowed |-> TRUE]

Deny(k) ==
  /\ level[k] < Unit
  /\ answer' = [key |-> k, allowed |-> FALSE]
  /\ UNCHANGED level

Next == Timer \/ \E k \in Key : Allow(k) \/ Deny(k)

Spec == Init /\ [][Next]_<<level, answer>>
=============================================================================
