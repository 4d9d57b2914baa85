-------------------------- MODULE RateLimiterProofs --------------------------
(***************************************************************************)
(* Proofs about RateLimiter, for every set of keys, every rate, burst and  *)
(* clock bound.                                                            *)
(***************************************************************************)
EXTENDS RateLimiter, TLAPS

LEMMA Distribute ==
  ASSUME NEW x \in Int, NEW y \in Int, NEW r \in Int
  PROVE  /\ (x + y) * r = x * r + y * r
         /\ x * r \in Int
         /\ 0 * r = 0 /\ 1 * r = r
OBVIOUS

LEMMA ProductNat ==
  ASSUME NEW x \in Nat, NEW r \in Nat
  PROVE  x * r \in Nat
OBVIOUS

LEMMA Parameters ==
  ASSUME NEW k \in Key
  PROVE  rate[k] \in Nat /\ burst[k] \in Nat
BY LimiterAssumption DEF Key, rate, burst

-----------------------------------------------------------------------------
(* What refill and tryConsume return. *)

(* At any later time the bucket holds what it held plus what the elapsed   *)
(* time is worth, capped by the burst.                                     *)
LEMMA RefillTokens ==
  ASSUME NEW b \in Bucket, NEW r \in Nat, NEW B \in Nat, NEW t \in Nat,
         b.tokens <= B, b.lastRefillMs <= t
  PROVE  /\ Refill(b, r, B, t) \in Bucket
         /\ Refill(b, r, B, t).tokens
              = Least(b.tokens + (t - b.lastRefillMs) * r, B)
         /\ Refill(b, r, B, t).tokens <= B
         /\ Refill(b, r, B, t).lastRefillMs = t
<1> DEFINE e == t - b.lastRefillMs
<1>1. /\ b.tokens \in Nat /\ b.lastRefillMs \in Nat /\ e \in Nat
  BY DEF Bucket
<1>2. e * r \in Nat
  BY <1>1, ProductNat
<1>3. CASE e = 0
  <2>1. e * r = 0
    BY <1>3, Distribute
  <2>2. Refill(b, r, B, t) = b
    BY <1>3 DEF Refill
  <2>3. t = b.lastRefillMs
    BY <1>1, <1>3
  <2> HIDE DEF e
  <2>4. Least(b.tokens + e * r, B) = b.tokens
    BY <1>1, <2>1 DEF Least
  <2> QED
    BY <2>2, <2>3, <2>4 DEF e
<1>4. CASE e > 0
  <2>1. Refill(b, r, B, t) = [tokens |-> Least(b.tokens + e * r, B),
                              lastRefillMs |-> t]
    BY <1>1, <1>4 DEF Refill
  <2>2. Least(b.tokens + e * r, B) \in Nat /\ Least(b.tokens + e * r, B) <= B
    BY <1>1, <1>2 DEF Least
  <2> HIDE DEF e
  <2>3. Refill(b, r, B, t) \in Bucket
    BY <2>1, <2>2 DEF Bucket
  <2> QED
    BY <2>1, <2>2, <2>3 DEF e
<1> QED
  BY <1>1, <1>3, <1>4

(* A bucket refilled this millisecond is not refilled again in it. *)
LEMMA RefillNow ==
  ASSUME NEW b \in Bucket, NEW r, NEW B, b.lastRefillMs \in Nat
  PROVE  Refill(b, r, B, b.lastRefillMs) = b
BY DEF Refill

(* Decision c on a bucket that had have tokens at time t. *)
DecidedOn(c, have, r, B, t) ==
  /\ c.bucket \in Bucket
  /\ c.bucket.lastRefillMs = t /\ c.bucket.tokens <= B
  /\ Refill(c.bucket, r, B, t) = c.bucket
  /\ \/ have >= Unit /\ c.allowed = TRUE /\ c.bucket.tokens = have - Unit
     \/ have < Unit /\ c.allowed = FALSE /\ c.bucket.tokens = have

LEMMA ConsumeTokens ==
  ASSUME NEW b \in Bucket, NEW r \in Nat, NEW B \in Nat, NEW t \in Nat,
         b.tokens <= B, b.lastRefillMs <= t
  PROVE  DecidedOn(TryConsume(b, r, B, t), Refill(b, r, B, t).tokens, r, B, t)
<1> USE DEF DecidedOn
<1> DEFINE f == Refill(b, r, B, t)
<1>1. f \in Bucket /\ f.tokens <= B /\ f.lastRefillMs = t
  BY RefillTokens
<1> HIDE DEF f
<1>2. f.tokens \in Nat
  BY <1>1 DEF Bucket
<1>3. CASE f.tokens >= Unit
  <2> DEFINE g == [f EXCEPT !.tokens = @ - Unit]
  <2>1. TryConsume(b, r, B, t) = [allowed |-> TRUE, bucket |-> g]
    BY <1>3 DEF TryConsume, f
  <2>2. g \in Bucket /\ g.lastRefillMs = t /\ g.tokens = f.tokens - Unit
        /\ g.tokens <= B
    BY <1>1, <1>2, <1>3, UnitAssumption DEF Bucket
  <2> HIDE DEF g
  <2>3. Refill(g, r, B, t) = g
    BY <2>2, RefillNow
  <2> QED
    BY <1>3, <2>1, <2>2, <2>3 DEF f
<1>4. CASE f.tokens < Unit
  <2>1. TryConsume(b, r, B, t) = [allowed |-> FALSE, bucket |-> f]
    BY <1>2, <1>4, UnitAssumption DEF TryConsume, f
  <2>2. Refill(f, r, B, t) = f
    BY <1>1, RefillNow
  <2> QED
    BY <1>1, <1>4, <2>1, <2>2 DEF f
<1>5. f.tokens >= Unit \/ f.tokens < Unit
  BY <1>2, UnitAssumption
<1> QED
  BY <1>3, <1>4, <1>5, Zenon

-----------------------------------------------------------------------------
(* What a check does, in terms of the level: it is a decision of the       *)
(* contract on the level there was.                                        *)

LEMMA FreshBucket ==
  ASSUME NEW B \in Nat, NEW t \in Nat
  PROVE  /\ NewBucket(B, t) \in Bucket
         /\ NewBucket(B, t).tokens = B /\ NewBucket(B, t).lastRefillMs = t
BY DEF NewBucket, Bucket

(* The bucket a check of key k works on, and the level it stands for. *)
Subject(k) == IF buckets[k] = NoBucket THEN NewBucket(burst[k], now)
                                       ELSE buckets[k]

LEMMA SubjectFacts ==
  ASSUME TypeOK, NEW k \in Key
  PROVE  /\ Subject(k) \in Bucket
         /\ Subject(k).tokens <= burst[k] /\ Subject(k).lastRefillMs <= now
         /\ Level(k) = Refill(Subject(k), rate[k], burst[k], now).tokens
<1>1. /\ now \in Nat /\ burst[k] \in Nat
      /\ buckets[k] \in Bucket
      /\ buckets[k].tokens <= burst[k] /\ buckets[k].lastRefillMs <= now
  BY Parameters DEF TypeOK
<1>2. CASE buckets[k] = NoBucket
  <2>1. /\ Subject(k) \in Bucket /\ Subject(k).tokens = burst[k]
        /\ Subject(k).lastRefillMs = now
    BY <1>1, <1>2, FreshBucket DEF Subject
  <2>2. Refill(Subject(k), rate[k], burst[k], now) = Subject(k)
    BY <1>1, <2>1, RefillNow
  <2> QED
    BY <1>1, <1>2, <2>1, <2>2 DEF Level
<1>3. CASE buckets[k] # NoBucket
  BY <1>1, <1>3 DEF Subject, Level
<1> QED
  BY <1>2, <1>3

(* Backends' buckets exist from the start, so a check never meets one      *)
(* without: that and the types are all the steps below need.               *)
BackendsMade == \A k \in Backend : buckets[k] # NoBucket

Allowed(k) ==
  /\ Level(k) >= Unit
  /\ \A j \in Key : Level(j)' = IF j = k THEN Level(k) - Unit ELSE Level(j)
  /\ answer' = [key |-> k, allowed |-> TRUE]
  /\ grants' = [grants EXCEPT ![k] = Append(@, now)]
  /\ now' = now

Denied(k) ==
  /\ Level(k) < Unit
  /\ \A j \in Key : Level(j)' = Level(j)
  /\ answer' = [key |-> k, allowed |-> FALSE]
  /\ UNCHANGED <<grants, now>>

LEMMA LevelNat ==
  ASSUME TypeOK, NEW k \in Key
  PROVE  Level(k) \in Nat /\ Level(k) <= burst[k]
<1>1. now \in Nat /\ rate[k] \in Nat /\ burst[k] \in Nat
  BY Parameters DEF TypeOK
<1>2. /\ Refill(Subject(k), rate[k], burst[k], now) \in Bucket
      /\ Refill(Subject(k), rate[k], burst[k], now).tokens <= burst[k]
  BY <1>1, SubjectFacts, RefillTokens
<1> QED
  BY <1>2, SubjectFacts DEF Bucket

LEMMA ConsumeMoves ==
  ASSUME TypeOK, BackendsMade, NEW k \in Key, Consume(k, Subject(k))
  PROVE  TypeOK' /\ BackendsMade' /\ (Allowed(k) \/ Denied(k))
<1> DEFINE r == TryConsume(Subject(k), rate[k], burst[k], now)
           have == Refill(Subject(k), rate[k], burst[k], now).tokens
<1>1. /\ now \in Nat /\ now >= 1 /\ rate[k] \in Nat /\ burst[k] \in Nat
      /\ buckets \in [Key -> Bucket] /\ grants \in [Key -> Seq(Nat)]
  BY Parameters DEF TypeOK
<1>2. /\ Subject(k) \in Bucket
      /\ Subject(k).tokens <= burst[k] /\ Subject(k).lastRefillMs <= now
      /\ Level(k) = have
  BY SubjectFacts
<1>3. /\ r.bucket \in Bucket
      /\ r.bucket.lastRefillMs = now /\ r.bucket.tokens <= burst[k]
      /\ Refill(r.bucket, rate[k], burst[k], now) = r.bucket
      /\ \/ have >= Unit /\ r.allowed = TRUE /\ r.bucket.tokens = have - Unit
         \/ have < Unit /\ r.allowed = FALSE /\ r.bucket.tokens = have
  <2>1. DecidedOn(r, have, rate[k], burst[k], now)
    BY <1>1, <1>2, ConsumeTokens
  <2> HIDE DEF r, have
  <2> QED
    BY <2>1 DEF DecidedOn
<1>4. /\ buckets' = [buckets EXCEPT ![k] = r.bucket]
      /\ answer' = [key |-> k, allowed |-> r.allowed]
      /\ grants' = IF r.allowed THEN [grants EXCEPT ![k] = Append(@, now)]
                                ELSE grants
      /\ now' = now
  BY DEF Consume
<1> HIDE DEF r, have
<1>5. r.bucket # NoBucket
  BY <1>1, <1>3 DEF NoBucket
<1>6. TypeOK'
  <2>1. grants' \in [Key -> Seq(Nat)]
    BY <1>1, <1>4
  <2>2. buckets' \in [Key -> Bucket]
    BY <1>1, <1>3, <1>4
  <2>3. ASSUME NEW j \in Key
        PROVE  buckets'[j].tokens <= burst[j] /\ buckets'[j].lastRefillMs <= now
    BY <1>1, <1>3, <1>4 DEF TypeOK
  <2> QED
    BY <1>1, <1>4, <2>1, <2>2, <2>3 DEF TypeOK
<1>7. BackendsMade'
  BY <1>1, <1>4, <1>5 DEF BackendsMade, Key
<1>8. ASSUME NEW j \in Key, j # k PROVE Level(j)' = Level(j)
  <2>1. buckets'[j] = buckets[j]
    BY <1>1, <1>4, <1>8
  <2> QED
    BY <2>1, <1>4 DEF Level
<1>9. Level(k)' = r.bucket.tokens
  <2>1. buckets'[k] = r.bucket
    BY <1>1, <1>4
  <2> QED
    BY <2>1, <1>3, <1>4, <1>5 DEF Level
<1>10. CASE have >= Unit /\ r.allowed = TRUE /\ r.bucket.tokens = have - Unit
  BY <1>2, <1>4, <1>6, <1>7, <1>8, <1>9, <1>10 DEF Allowed
<1>11. CASE have < Unit /\ r.allowed = FALSE /\ r.bucket.tokens = have
  BY <1>2, <1>4, <1>6, <1>7, <1>8, <1>9, <1>11 DEF Denied
<1> QED
  BY <1>3, <1>10, <1>11

LEMMA CheckMoves ==
  ASSUME TypeOK, BackendsMade, NEW k \in Key,
         CheckBackendAllowed(k) \/ CheckUserAllowed(k)
  PROVE  TypeOK' /\ BackendsMade' /\ (Allowed(k) \/ Denied(k))
<1>1. Consume(k, Subject(k))
  BY DEF CheckBackendAllowed, CheckUserAllowed, Subject, BackendsMade
<1> QED
  BY <1>1, ConsumeMoves

(* One millisecond raises every level by its rate, up to its burst. *)
LEMMA TickMoves ==
  ASSUME TypeOK, BackendsMade, Tick
  PROVE  /\ TypeOK' /\ BackendsMade'
         /\ \A k \in Key :
              Level(k)' = IF Level(k) + rate[k] <= burst[k]
                            THEN Level(k) + rate[k] ELSE burst[k]
<1>1. /\ now \in Nat /\ now' = now + 1 /\ buckets' = buckets
      /\ grants' = grants /\ buckets \in [Key -> Bucket]
  BY DEF Tick, TypeOK
<1>2. TypeOK'
  <2>1. ASSUME NEW k \in Key
        PROVE  buckets[k].lastRefillMs <= now + 1
    BY <1>1 DEF TypeOK, Bucket
  <2> QED
    BY <1>1, <2>1 DEF TypeOK
<1>3. BackendsMade'
  BY <1>1 DEF BackendsMade
<1>4. ASSUME NEW k \in Key
      PROVE  Level(k)' = IF Level(k) + rate[k] <= burst[k]
                           THEN Level(k) + rate[k] ELSE burst[k]
  <2>1. rate[k] \in Nat /\ burst[k] \in Nat
    BY Parameters
  <2>2. CASE buckets[k] = NoBucket
    BY <1>1, <2>1, <2>2 DEF Level
  <2>3. CASE buckets[k] # NoBucket
    <3> DEFINE b == buckets[k]
               R == rate[k]
               B == burst[k]
               e == now - b.lastRefillMs
    <3>1. /\ b \in Bucket /\ b.tokens \in Nat /\ b.lastRefillMs \in Nat
          /\ b.tokens <= B /\ b.lastRefillMs <= now
          /\ b.lastRefillMs <= now + 1 /\ e \in Nat
          /\ R \in Nat /\ B \in Nat /\ now \in Nat /\ now + 1 \in Nat
      BY <1>1, <2>1 DEF TypeOK, Bucket
    <3>a. /\ Level(k) = Refill(b, R, B, now).tokens
          /\ Level(k)' = Refill(b, R, B, now + 1).tokens
      BY <1>1, <2>3 DEF Level, rate, burst
    <3> HIDE DEF b, R, B
    <3>2. Level(k) = Least(b.tokens + (now - b.lastRefillMs) * R, B)
      <4>1. Refill(b, R, B, now).tokens
              = Least(b.tokens + (now - b.lastRefillMs) * R, B)
        BY <3>1, RefillTokens
      <4> QED
        BY <4>1, <3>a
    <3> DEFINE n == now + 1
    <3>4. n \in Nat /\ b.lastRefillMs <= n /\ n - b.lastRefillMs = e + 1
      BY <3>1
    <3>b. Level(k)' = Refill(b, R, B, n).tokens
      BY <3>a
    <3> HIDE DEF n
    <3>3. Level(k)' = Least(b.tokens + (n - b.lastRefillMs) * R, B)
      <4>1. Refill(b, R, B, n).tokens
              = Least(b.tokens + (n - b.lastRefillMs) * R, B)
        BY <3>1, <3>4, RefillTokens
      <4> QED
        BY <4>1, <3>b
    <3>5. Level(k) = Least(b.tokens + e * R, B)
      BY <3>2
    <3>6. Level(k)' = Least(b.tokens + (e + 1) * R, B)
      BY <3>3, <3>4
    <3> HIDE DEF e
    <3>7. (e + 1) * R = e * R + R /\ e * R \in Nat
      BY <3>1, Distribute, ProductNat
    <3>8. \E p \in Nat : /\ Level(k) = Least(b.tokens + p, B)
                        /\ Level(k)' = Least(b.tokens + (p + R), B)
      BY <3>5, <3>6, <3>7
    <3> QED
      BY <3>1, <3>8 DEF Least, R, B
  <2> QED
    BY <2>2, <2>3
<1> QED
  BY <1>2, <1>3, <1>4

-----------------------------------------------------------------------------
(* Type correctness and the refinement. *)

LEMMA InitFacts == Init => TypeOK /\ BackendsMade
<1> SUFFICES ASSUME Init PROVE TypeOK /\ BackendsMade
  OBVIOUS
<1>1. ASSUME NEW k \in Key
      PROVE  /\ buckets[k] \in Bucket
             /\ buckets[k].tokens <= burst[k] /\ buckets[k].lastRefillMs <= 1
             /\ k \in Backend => buckets[k] # NoBucket
  BY Parameters DEF Init, NoBucket, NewBucket, Bucket
<1>2. now = 1 /\ grants \in [Key -> Seq(Nat)]
  BY DEF Init
<1>3. buckets \in [Key -> Bucket]
  BY <1>1 DEF Init
<1> QED
  BY <1>1, <1>2, <1>3 DEF TypeOK, BackendsMade, Key

LEMMA NextFacts ==
  TypeOK /\ BackendsMade /\ [Next]_vars => TypeOK' /\ BackendsMade'
<1> SUFFICES ASSUME TypeOK, BackendsMade, [Next]_vars
             PROVE  TypeOK' /\ BackendsMade'
  OBVIOUS
<1>1. CASE UNCHANGED vars
  BY <1>1 DEF vars, TypeOK, BackendsMade
<1> QED
  BY <1>1, CheckMoves, TickMoves DEF Next

THEOREM Invariance == Spec => [](TypeOK /\ BackendsMade)
BY InitFacts, NextFacts, PTL DEF Spec

(***************************************************************************)
(* No bucket ever holds more than its burst, less than nothing, or a       *)
(* refill time in the future.                                              *)
(***************************************************************************)
THEOREM TypeCorrect == Spec => []TypeOK
BY Invariance, PTL

LEMMA LeakyInit == Init => Leaky!Init
<1> SUFFICES ASSUME Init PROVE Leaky!Init
  OBVIOUS
<1>1. ASSUME NEW k \in Key PROVE Level(k) = burst[k]
  BY DEF Init, Level, NewBucket, Refill
<1>2. [k \in Key |-> Level(k)] = burst
  BY <1>1 DEF burst
<1> QED
  BY <1>2 DEF Init, Leaky!Init

LEMMA LeakyStep ==
  TypeOK /\ BackendsMade /\ [Next]_vars
    => [Leaky!Next]_<<[k \in Key |-> Level(k)], answer>>
<1> SUFFICES ASSUME TypeOK, BackendsMade, [Next]_vars
             PROVE  [Leaky!Next]_<<[k \in Key |-> Level(k)], answer>>
  OBVIOUS
<1>1. CASE UNCHANGED vars
  BY <1>1 DEF vars, Level
<1>2. CASE Tick
  <2>1. Leaky!Timer
    BY <1>2, TickMoves DEF Leaky!Timer, Leaky!Raised, Tick
  <2> QED
    BY <2>1 DEF Leaky!Next
<1>3. ASSUME NEW k \in Key, CheckBackendAllowed(k) \/ CheckUserAllowed(k)
      PROVE  Leaky!Next
  <2>1. CASE Allowed(k)
    <3>1. Leaky!Allow(k)
      BY <2>1 DEF Allowed, Leaky!Allow
    <3> QED
      BY <3>1 DEF Leaky!Next
  <2>2. CASE Denied(k)
    <3>1. Leaky!Deny(k)
      BY <2>2 DEF Denied, Leaky!Deny
    <3> QED
      BY <3>1 DEF Leaky!Next
  <2> QED
    BY <1>3, <2>1, <2>2, CheckMoves
<1> QED
  BY <1>1, <1>2, <1>3 DEF Next

(***************************************************************************)
(* Passive refill (RateLimiter.cpp:11-31) with buckets made on first use   *)
(* decides every request as a timer-driven limiter would.                  *)
(***************************************************************************)
THEOREM ImplementsLeaky == Spec => LeakySpec
<1>1. Init => Leaky!Init
  BY LeakyInit
<1>2. TypeOK /\ BackendsMade /\ [Next]_vars
        => [Leaky!Next]_<<[k \in Key |-> Level(k)], answer>>
  BY LeakyStep
<1> QED
  BY <1>1, <1>2, Invariance, PTL DEF Spec, LeakySpec, Leaky!Spec

-----------------------------------------------------------------------------
(* The window bound.  The inductive form measures every grant against the  *)
(* present: what was granted since, and what could be granted at once, are *)
(* together within the burst and what the rate has added since.  Times     *)
(* stays folded: the steps need four facts of multiplication and no more.  *)

Times(x, y) == x * y

LEMMA TimesStep ==
  ASSUME NEW r \in Nat, NEW x \in Int
  PROVE  /\ Times(x + 1, r) = Times(x, r) + r
         /\ Times(r, x + 1) = Times(r, x) + r
BY DEF Times

Headroom ==
  \A k \in Key : \A i \in 1..Len(grants[k]) :
    /\ grants[k][i] <= now
    /\ Times(Len(grants[k]) - i + 1, Unit) + Level(k)
         <= burst[k] + Times(rate[k], now - grants[k][i])

Windows ==
  \A k \in Key : \A i, j \in 1..Len(grants[k]) :
    i <= j => Times(j - i + 1, Unit)
                <= burst[k] + Times(rate[k], grants[k][j] - grants[k][i])

LEMMA WindowsBound == Windows <=> WindowBound
BY DEF Windows, WindowBound, Times

(* One more grant at time t, for one key: s is what was granted before, L  *)
(* its level, r its rate and B its burst.                                  *)
LEMMA GrantArithmetic ==
  ASSUME NEW s \in Seq(Nat), NEW L \in Nat, NEW r \in Nat, NEW B \in Nat,
         NEW t \in Nat, NEW s2, s2 = Append(s, t), L >= Unit, L <= B,
         \A i \in 1..Len(s) :
           /\ s[i] <= t
           /\ Times(Len(s) - i + 1, Unit) + L <= B + Times(r, t - s[i])
  PROVE  \A i \in 1..Len(s2) :
           /\ s2[i] <= t
           /\ Times(Len(s2) - i + 1, Unit) + (L - Unit) <= B + Times(r, t - s2[i])
           /\ Times(Len(s2) - i + 1, Unit) <= B + Times(r, s2[Len(s2)] - s2[i])
<1> DEFINE n == Len(s)
<1>1. /\ n \in Nat /\ Unit \in Nat /\ Len(s2) = n + 1 /\ s2[n + 1] = t
      /\ \A i \in 1..n : s2[i] = s[i] /\ s[i] \in Nat
  BY UnitAssumption
<1> SUFFICES ASSUME NEW i \in 1..(n + 1)
             PROVE  /\ s2[i] <= t
                    /\ Times(n + 1 - i + 1, Unit) + (L - Unit)
                         <= B + Times(r, t - s2[i])
                    /\ Times(n + 1 - i + 1, Unit) <= B + Times(r, t - s2[i])
  BY <1>1
<1>2. CASE i \in 1..n
  <2>1. /\ s[i] <= t /\ s2[i] = s[i] /\ s[i] \in Nat
        /\ Times(n - i + 1, Unit) + L <= B + Times(r, t - s[i])
    BY <1>1, <1>2
  <2>2. n - i + 1 \in Int /\ n + 1 - i + 1 = (n - i + 1) + 1 /\ t - s[i] \in Int
    BY <1>1, <1>2, <2>1
  <2> DEFINE m == n - i + 1
             d == t - s[i]
  <2> HIDE DEF n
  <2>3. /\ m \in Int /\ d \in Int
        /\ Times(m, Unit) + L <= B + Times(r, d)
        /\ n + 1 - i + 1 = m + 1 /\ t - s2[i] = d
    BY <2>1, <2>2
  <2> HIDE DEF m, d
  <2>4. Times(m + 1, Unit) = Times(m, Unit) + Unit
    BY <1>1, <2>3, TimesStep
  <2>8. Times(m, Unit) \in Int /\ Times(r, d) \in Int
    BY <1>1, <2>3 DEF Times
  <2>5. /\ Times(m + 1, Unit) + (L - Unit) <= B + Times(r, d)
        /\ Times(m + 1, Unit) <= B + Times(r, d)
    <3>1. \A x, z \in Int : x + L <= B + z
            => x + Unit + (L - Unit) <= B + z /\ x + Unit <= B + z
      BY UnitAssumption
    <3> QED
      BY <2>3, <2>4, <2>8, <3>1, Zenon
  <2>6. Times(n + 1 - i + 1, Unit) = Times(m + 1, Unit)
        /\ Times(r, t - s2[i]) = Times(r, d)
    BY <2>3, Zenon
  <2>7. s2[i] <= t
    BY <2>1
  <2> QED
    BY <2>5, <2>6, <2>7, Zenon
<1>3. CASE i = n + 1
  <2>1. n + 1 - i + 1 = 1 /\ t - s2[i] = 0 /\ s2[i] = t
    BY <1>1, <1>3
  <2>2. Times(1, Unit) = Unit /\ Times(r, 0) = 0
    BY UnitAssumption DEF Times
  <2>3. /\ Times(n + 1 - i + 1, Unit) = Unit
        /\ Times(r, t - s2[i]) = 0
    BY <2>1, <2>2, Zenon
  <2>4. /\ s2[i] <= t
        /\ Unit + (L - Unit) <= B + 0
        /\ Unit <= B + 0
    BY <1>1, <2>1
  <2> QED
    BY <2>3, <2>4, Zenon
<1> QED
  BY <1>1, <1>2, <1>3

LEMMA AllowedHeadroom ==
  ASSUME TypeOK, Headroom, Windows, NEW a \in Key, Allowed(a)
  PROVE  Headroom' /\ Windows'
<1> DEFINE s  == grants[a]
           s2 == grants'[a]
<1>1. /\ grants \in [Key -> Seq(Nat)] /\ s \in Seq(Nat)
      /\ now \in Nat /\ now' = now
      /\ Level(a) \in Nat /\ Level(a) >= Unit /\ Level(a) <= burst[a]
      /\ rate[a] \in Nat /\ burst[a] \in Nat
      /\ grants' = [grants EXCEPT ![a] = Append(s, now)]
      /\ s2 = Append(s, now) /\ Level(a)' = Level(a) - Unit
  BY Parameters, LevelNat DEF TypeOK, Allowed
<1>2. ASSUME NEW k \in Key, k # a
      PROVE  grants'[k] = grants[k] /\ Level(k)' = Level(k)
  BY <1>1, <1>2 DEF Allowed
<1>3. \A i \in 1..Len(s2) :
        /\ s2[i] <= now
        /\ Times(Len(s2) - i + 1, Unit) + (Level(a) - Unit)
             <= burst[a] + Times(rate[a], now - s2[i])
        /\ Times(Len(s2) - i + 1, Unit)
             <= burst[a] + Times(rate[a], s2[Len(s2)] - s2[i])
  <2>1. \A i \in 1..Len(s) :
          /\ s[i] <= now
          /\ Times(Len(s) - i + 1, Unit) + Level(a)
               <= burst[a] + Times(rate[a], now - s[i])
    BY DEF Headroom
  <2> HIDE DEF s, s2
  <2> QED
    BY <1>1, <2>1, GrantArithmetic
<1>4. Headroom'
  BY <1>1, <1>2, <1>3 DEF Headroom
<1>5. Windows'
  <2>1. ASSUME NEW i \in 1..Len(s2), NEW j \in 1..Len(s2), i <= j
        PROVE  Times(j - i + 1, Unit) <= burst[a] + Times(rate[a], s2[j] - s2[i])
    <3>1. CASE j = Len(s2)
      BY <1>3, <3>1
    <3>2. CASE j # Len(s2)
      <4>1. /\ i \in 1..Len(s) /\ j \in 1..Len(s)
            /\ s2[i] = s[i] /\ s2[j] = s[j]
        BY <1>1, <2>1, <3>2
      <4> QED
        BY <4>1, <2>1 DEF Windows
    <3> QED
      BY <3>1, <3>2
  <2> QED
    BY <1>2, <2>1 DEF Windows
<1> QED
  BY <1>4, <1>5

LEMMA TickHeadroom ==
  ASSUME TypeOK, BackendsMade, Headroom, Windows, Tick
  PROVE  Headroom' /\ Windows'
<1>1. grants' = grants /\ now' = now + 1 /\ now \in Nat
  BY DEF Tick, TypeOK
<1>2. Windows'
  BY <1>1 DEF Windows
<1>3. ASSUME NEW k \in Key, NEW i \in 1..Len(grants'[k])
      PROVE  /\ grants'[k][i] <= now'
             /\ Times(Len(grants'[k]) - i + 1, Unit) + Level(k)'
                  <= burst[k] + Times(rate[k], now' - grants'[k][i])
  <2> DEFINE m == Len(grants[k]) - i + 1
             d == now - grants[k][i]
  <2>1. /\ grants[k][i] \in Nat /\ grants[k][i] <= now
        /\ Times(m, Unit) + Level(k) <= burst[k] + Times(rate[k], d)
    BY <1>1 DEF Headroom, TypeOK
  <2>2. /\ rate[k] \in Nat /\ burst[k] \in Nat /\ Level(k) \in Nat
        /\ Level(k)' \in Int /\ Level(k)' <= Level(k) + rate[k]
    BY Parameters, LevelNat, TickMoves
  <2>3. /\ d \in Int /\ now' - grants'[k][i] = d + 1
        /\ m \in Int /\ Unit \in Int
    BY <1>1, <2>1, UnitAssumption DEF TypeOK
  <2> HIDE DEF d
  <2>4. Times(rate[k], d + 1) = Times(rate[k], d) + rate[k]
    BY <2>2, <2>3, TimesStep
  <2> HIDE DEF m
  <2>5. Times(rate[k], d) \in Int /\ Times(m, Unit) \in Int
    BY <2>2, <2>3 DEF Times
  <2>6. Times(m, Unit) + Level(k)' <= burst[k] + Times(rate[k], d + 1)
    BY <2>1, <2>2, <2>4, <2>5
  <2>7. grants'[k][i] <= now'
    BY <1>1, <2>1
  <2>8. /\ Times(rate[k], now' - grants'[k][i]) = Times(rate[k], d + 1)
        /\ Times(Len(grants'[k]) - i + 1, Unit) = Times(m, Unit)
    BY <1>1, <2>3, Zenon DEF m
  <2> QED
    BY <2>6, <2>7, <2>8, Zenon
<1>4. Headroom'
  BY <1>3 DEF Headroom
<1> QED
  BY <1>2, <1>4

LEMMA WindowStep ==
  /\ TypeOK /\ BackendsMade /\ Headroom /\ Windows
  /\ [Next]_vars
  => Headroom' /\ Windows'
<1> SUFFICES ASSUME TypeOK, BackendsMade, Headroom, Windows, [Next]_vars
             PROVE  Headroom' /\ Windows'
  OBVIOUS
<1>1. CASE UNCHANGED vars
  BY <1>1 DEF vars, Headroom, Windows, Level
<1>2. ASSUME NEW k \in Key, Denied(k) PROVE Headroom' /\ Windows'
  BY <1>2 DEF Denied, Headroom, Windows
<1> QED
  BY <1>1, <1>2, CheckMoves, TickHeadroom, AllowedHeadroom DEF Next

(***************************************************************************)
(* In no window is a key allowed more than its burst and what its rate     *)
(* adds over the window, for any rates and bursts.                         *)
(***************************************************************************)
THEOREM WindowBounded == Spec => []WindowBound
<1>1. Init => Headroom /\ Windows
  BY DEF Init, Headroom, Windows
<1> QED
  BY <1>1, WindowStep, WindowsBound, Invariance, PTL DEF Spec
=============================================================================
