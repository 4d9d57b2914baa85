----------------------------- MODULE TokenBucket -----------------------------
(***************************************************************************)
(* The token bucket of RateLimiter.h.  Its doubles are exact here: Unit    *)
(* units make one token and rate units are added per millisecond, so that  *)
(* a rate of r tokens a second is r * Unit / 1000 units.  tryConsume runs  *)
(* under the bucket's mutex and is one operator.                           *)
(***************************************************************************)
EXTENDS Integers

CONSTANT Unit   \* units in one token

ASSUME UnitAssumption == Unit \in Nat \ {0}

Bucket == [tokens : Nat, lastRefillMs : Nat]

Least(a, b) == IF a <= b THEN a ELSE b

(* The constructor: a bucket is born full. *)
NewBucket(burst, now) == [tokens |-> burst, lastRefillMs |-> now]

(* Variants of Refill: without the cap; without the new refill time. *)
RefillUncapped(b, rate, burst, now) ==
  [tokens |-> b.tokens + (now - b.lastRefillMs) * rate, lastRefillMs |-> now]

RefillAgain(b, rate, burst, now) ==
  [b EXCEPT !.tokens = Least(@ + (now - b.lastRefillMs) * rate, burst)]

(* Passive refill: nothing runs between calls, the next caller adds what   *)
(* the elapsed time is worth.                                              *)
Refill(b, rate, burst, now) ==
  LET elapsed == now - b.lastRefillMs
  IN  IF elapsed <= 0
        THEN b
        ELSE [tokens |-> Least(b.tokens + elapsed * rate, burst),
              lastRefillMs |-> now]

(* Variant of TryConsume: exactly one token is not enough. *)
ConsumeAboveOne(b, rate, burst, now) ==
  LET full == Refill(b, rate, burst, now)
  IN  IF full.tokens > Unit
        THEN [allowed |-> TRUE, bucket |-> [full EXCEPT !.tokens = @ - Unit]]
        ELSE [allowed |-> FALSE, bucket |-> full]

TryConsume(b, rate, burst, now) ==
  LET full == Refill(b, rate, burst, now)
  IN  IF full.tokens >= Unit
        THEN [allowed |-> TRUE, bucket |-> [full EXCEPT !.tokens = @ - Unit]]
        ELSE [allowed |-> FALSE, bucket |-> full]
=============================================================================
