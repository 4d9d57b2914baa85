----------------------------- MODULE RateLimiter -----------------------------
(***************************************************************************)
(* The two-level rate limiter: one bucket per backend named in             *)
(* rate_limit.per_backend, made when the gateway starts, and one bucket    *)
(* per user, made by the user's first request and never removed.  A check  *)
(* runs under the map's mutex; who asks does not matter, only the key.     *)
(***************************************************************************)
EXTENDS TokenBucket, Sequences

CONSTANTS Backend,                     \* backends with a configured limit
          User,                        \* user ids, all > 0
          BackendRps, BackendBurst,    \* units per ms, and units
          UserRps, UserBurst,          \* userRps_ > 0: the limit is on
          MaxNow                       \* bound: the clock stops here

ASSUME LimiterAssumption ==
  /\ Backend \cap User = {}
  /\ BackendRps \in Nat /\ BackendBurst \in Nat
  /\ UserRps \in Nat \ {0} /\ UserBurst \in Nat
  /\ MaxNow \in Nat

VARIABLES buckets,   \* the buckets there are; NoBucket where there is none
          now,       \* steady_clock in milliseconds
          answer,    \* observer: the last decision
          grants     \* observer: when each key was allowed a request

vars == <<buckets, now, answer, grants>>

Key == Backend \cup User

NoBucket == [tokens |-> 0, lastRefillMs |-> 0]   \* 0: before the clock starts

rate  == [k \in Key |-> IF k \in Backend THEN BackendRps ELSE UserRps]
burst == [k \in Key |-> IF k \in Backend THEN BackendBurst ELSE UserBurst]

Init ==
  /\ now = 1
  /\ buckets = [k \in Key |-> IF k \in Backend THEN NewBucket(burst[k], 1)
                                               ELSE NoBucket]
  /\ answer = [key |-> "none", allowed |-> FALSE]
  /\ grants = [k \in Key |-> << >>]

(* tryConsume on bucket b of key k, and what the caller sees of it. *)
Consume(k, b) ==
  LET r == TryConsume(b, rate[k], burst[k], now)
  IN  /\ buckets' = [buckets EXCEPT ![k] = r.bucket]
      /\ answer' = [key |-> k, allowed |-> r.allowed]
      /\ grants' = IF r.allowed THEN [grants EXCEPT ![k] = Append(@, now)]
                                ELSE grants
      /\ UNCHANGED now

CheckBackendAllowed(k) == k \in Backend /\ Consume(k, buckets[k])

(* try_emplace, then tryConsume, in one critical section. *)
CheckUserAllowed(k) ==
  /\ k \in User
  /\ Consume(k, IF buckets[k] = NoBucket THEN NewBucket(burst[k], now)
                                         ELSE buckets[k])

Tick ==
  /\ now < MaxNow
  /\ now' = now + 1
  /\ UNCHANGED <<buckets, answer, grants>>

Next ==
  \/ \E k \in Key : CheckBackendAllowed(k) \/ CheckUserAllowed(k)
  \/ Tick

Spec == Init /\ [][Next]_vars

-----------------------------------------------------------------------------
(* The tokens key k would have if somebody asked now. *)
Level(k) ==
  IF buckets[k] = NoBucket THEN burst[k]
  ELSE Refill(buckets[k], rate[k], burst[k], now).tokens

TypeOK ==
  /\ buckets \in [Key -> Bucket]
  /\ \A k \in Key : /\ buckets[k].tokens <= burst[k]
                    /\ buckets[k].lastRefillMs <= now
  /\ now \in Nat \ {0}
  /\ grants \in [Key -> Seq(Nat)]

(***************************************************************************)
(* In every window of time, not only those that start with a full bucket,  *)
(* a key is allowed at most its burst plus what its rate adds.             *)
(***************************************************************************)
WindowBound ==
  \A k \in Key : \A i, j \in 1..Len(grants[k]) :
    i <= j => (j - i + 1) * Unit
                <= burst[k] + rate[k] * (grants[k][j] - grants[k][i])

(***************************************************************************)
(* Passive refill on demand, buckets made late and never removed decide    *)
(* every request exactly as buckets that a timer fills all the time.       *)
(***************************************************************************)
Leaky == INSTANCE LeakyLimiter WITH level <- [k \in Key |-> Level(k)]

LeakySpec == Leaky!Spec
=============================================================================
